------------------------------- MODULE UdmArray -------------------------------
(***************************************************************************)
(* Arrays in use: a program calls the member functions of ArrayStorage on  *)
(* a few udm::Array and udm::ArrayLz4 objects, in any order.               *)
(*                                                                         *)
(* The library asks more of its callers than it checks.  Each such demand  *)
(* is a rule below; ClientRules says which ones this program observes.     *)
(* With all of them the arrays are the sequences that ArraySeq promises;   *)
(* without one of them some calls go wrong the way the code makes them.    *)
(***************************************************************************)
EXTENDS ArrayStorage

CONSTANTS
  Types,        \* the value types the program uses
  MaxSize,      \* bound on the sizes it asks for
  ClientRules   \* the rules it observes

AllRules ==
  { "InRange",           \* item indices and ranges lie inside the array
    "Convertible",       \* values convert to the value type of the array
    "ShapeFirst",        \* value type and description are set before growing
    "DescribeEmpty",     \* a description is given to an empty array only
    "AssignDecompressed",\* no assignment, merge or new type while compressed
    "MoveDecompressed",  \* nor a move out of a compressed array
    "MoveSameKind",      \* nor a move between Array and ArrayLz4
    "NoStructCopy",      \* struct arrays are neither assigned nor merged
    "SupportedTypes",    \* compressed arrays get items of types they support
    "InsertAtHome",      \* no insertion into an array assigned from another
    "CompressNonEmpty",  \* strings, elements, structs are not compressed empty
    "NoRawStructFile" }  \* raw struct arrays are not loaded from files

ASSUME RulesAssumption == ClientRules \subseteq AllRules
ASSUME TypesAssumption == Types \subseteq AllTypes \ {"Nil"}
ASSUME SizeAssumption  == MaxSize \in Nat
ASSUME BlockAssumption ==  \* Null is no block
  \A n \in 0..MaxSize :
    Null \notin [header : Descs \cup {EmptyDesc}, layout : Descs \cup {EmptyDesc},
                 items : [Indices(n) -> Item]]

VARIABLE arr   \* [Arrays -> object]

vars == <<arr>>

Sizes == 0..MaxSize

Rule(name, obeyed) == name \in ClientRules => obeyed

(***************************************************************************)
(* A call starts only while nothing undefined has happened; a program may  *)
(* go on after an exception.                                               *)
(***************************************************************************)
Running == \A a \in Arrays : arr[a].outcome # "undefined"

Object(a) == [arr[a] EXCEPT !.outcome = "ok"]

Leave(a, o) == arr' = [arr EXCEPT ![a] = o]

LeaveBoth(a, b, pair) == arr' = [arr EXCEPT ![a] = pair.self, ![b] = pair.other]

(***************************************************************************)
(* What the rules ask of a call.                                           *)
(***************************************************************************)
Shaped(o) == Rule("ShapeFirst", HasBytes(o))

Index(o, idx) == Rule("InRange", idx < o.m_size)

Value(v) == Rule("Convertible", v # Unconvertible)

Assignable(o) == Rule("AssignDecompressed", o.m_state = "Uncompressed")

Compressible(o) ==
  Rule("CompressNonEmpty", IsLz4(o) => o.m_size > 0 \/ is_trivial_type(o.m_valueType))

Copyable(o, p) ==
  /\ Rule("NoStructCopy", "Struct" \notin {o.m_valueType, p.m_valueType})
  /\ Rule("SupportedTypes", IsLz4(o) => IsValueTypeSupported(p.m_valueType))

(***************************************************************************)
(* The calls.                                                              *)
(***************************************************************************)
Init == arr = [a \in Arrays |-> NewObject(a)]

CallSetValueType(a, t) ==
  /\ Assignable(arr[a])
  /\ Leave(a, SetValueType(Object(a), t))

CallAddStructArray(a, strct, n) ==
  /\ Assignable(arr[a])
  /\ Rule("DescribeEmpty", arr[a].m_size = 0 \/ arr[a].m_valueType # "Struct")
  /\ Leave(a, AddStructArray(Object(a), strct, n))

CallResize(a, n) ==
  /\ Shaped(arr[a])
  /\ Leave(a, ResizeTo(Object(a), n))

CallInsertValue(a, idx, v) ==
  /\ arr[a].m_size < MaxSize
  /\ Shaped(arr[a]) /\ Value(v)
  /\ Rule("InsertAtHome", arr[a].fromProperty = a)
  /\ Leave(a, InsertValue(Object(a), idx, v))

CallRemoveValue(a, idx) == Leave(a, RemoveValue(Object(a), idx))

CallAddValueRange(a, start, count) ==
  /\ arr[a].m_size + count <= MaxSize
  /\ Shaped(arr[a])
  /\ Rule("InRange", start <= arr[a].m_size)
  /\ Leave(a, AddValueRange(Object(a), start, count))

CallRemoveValueRange(a, start, count) ==
  /\ Rule("InRange", start + count <= arr[a].m_size)
  /\ Leave(a, RemoveValueRange(Object(a), start, count))

CallSetValue(a, idx, v) ==
  /\ Shaped(arr[a]) /\ Value(v) /\ Index(arr[a], idx)
  /\ Leave(a, SetValue(Object(a), idx, v))

CallReadValues(a) == Leave(a, ReadValues(Object(a)))

CallGetCompressedBlob(a) ==
  /\ IsLz4(arr[a])
  /\ Compressible(arr[a])
  /\ Leave(a, GetCompressedBlob(Object(a)))

CallSaveAndLoad(a) ==
  /\ Compressible(arr[a])
  /\ Rule("ShapeFirst", arr[a].m_valueType = "Struct" => HasBytes(arr[a]))
  /\ Rule("NoRawStructFile", ~IsLz4(arr[a]) => arr[a].m_valueType # "Struct")
  /\ Leave(a, SaveAndLoad(Object(a)))

CallCopyAssign(a, b) ==
  /\ Assignable(arr[a]) /\ Copyable(arr[a], arr[b])
  /\ LeaveBoth(a, b, CopyAssign(Object(a), Object(b)))

\* The move of a compressed array is chosen by its static type: through a
\* reference to Array, the one that takes any array copies instead.
CallMoveAssign(a, b) ==
  /\ Assignable(arr[a])
  /\ Rule("MoveDecompressed", arr[b].m_state = "Uncompressed")
  /\ Rule("MoveSameKind", Kind[a] = Kind[b])
  /\ LeaveBoth(a, b, MoveAssign(Object(a), Object(b)))

CallMerge(a, b, overwriteExisting) ==
  /\ ~overwriteExisting => arr[a].m_size + arr[b].m_size <= MaxSize
  /\ Assignable(arr[a]) /\ Copyable(arr[a], arr[b])
  /\ LeaveBoth(a, b, Merge(Object(a), Object(b), overwriteExisting))

Next ==
  /\ Running
  /\ \E a \in Arrays :
       \/ \E t \in Types : CallSetValueType(a, t)
       \/ \E d \in Descs, n \in Sizes : "Struct" \in Types /\ CallAddStructArray(a, d, n)
       \/ \E n \in Sizes : CallResize(a, n)
       \/ \E idx \in Sizes, v \in Values \cup {Unconvertible} :
            CallInsertValue(a, idx, v) \/ CallSetValue(a, idx, v)
       \/ \E idx \in Sizes : CallRemoveValue(a, idx)
       \/ \E start \in Sizes, count \in Sizes :
            CallAddValueRange(a, start, count) \/ CallRemoveValueRange(a, start, count)
       \/ CallReadValues(a)
       \/ CallGetCompressedBlob(a)
       \/ CallSaveAndLoad(a)
       \/ \E b \in Arrays \ {a} :
            \/ CallCopyAssign(a, b)
            \/ CallMoveAssign(a, b)
            \/ \E f \in BOOLEAN : CallMerge(a, b, f)

Spec == Init /\ [][Next]_vars

-----------------------------------------------------------------------------
(***************************************************************************)
(* Properties.                                                             *)
(***************************************************************************)
Outcomes ==
  { "ok", "LogicError", "InvalidUsageError", "ImplementationError", "CompressionError",
    "OutOfBoundsError", "ValidDataPointer", "NoStructInfo", "undefined" }

StructInfo == Descs \cup {EmptyDesc}

IsItems(f, n) == f \in [Indices(n) -> Item]

IsBlock(b, n) ==
  /\ b = Block(b.header, b.layout, b.items)
  /\ b.header \in StructInfo /\ b.layout \in StructInfo
  /\ IsItems(b.items, n)

IsBlob(b) ==
  /\ b = Blob(b.type, b.layout, b.items)
  /\ b.type \in AllTypes /\ b.layout \in StructInfo
  /\ \E n \in Sizes : IsItems(b.items, n)

Fields ==
  { "this", "m_values", "m_size", "m_valueType", "fromProperty",
    "m_structuredDataInfo", "m_state", "m_compressedBlob", "outcome" }

HasFields(o) == o = [f \in Fields |-> o[f]]

\* A record of the fields of its class, each of its type.
IsObject(o) ==
  /\ HasFields(o)
  /\ o.this \in Arrays
  /\ o.m_size \in Sizes
  /\ o.m_valueType \in Types \cup {"Nil"}
  /\ o.m_values # Null => IsBlock(o.m_values, o.m_size)
  /\ o.fromProperty \in Arrays
  /\ o.m_structuredDataInfo \in StructInfo \cup {Null}
  /\ o.m_state \in {"Compressed", "Uncompressed"}
  /\ IsBlob(o.m_compressedBlob)
  /\ o.outcome \in Outcomes

OnePlace(o) ==
  o.m_size > 0 =>
    IF o.m_state = "Uncompressed"
      THEN o.m_values # Null
      ELSE /\ o.m_values = Null
           /\ o.m_compressedBlob.type = o.m_valueType
           /\ IsItems(o.m_compressedBlob.items, o.m_size)

Described(o) ==
  /\ o.m_structuredDataInfo # Null => o.m_valueType = "Struct" /\ o.m_state = "Compressed"
  /\ o.m_valueType = "Struct" => GetStructuredDataInfo(o) # Null
  /\ o.m_size > 0 =>
       LayoutOf(o) = IF o.m_state = "Compressed" THEN o.m_compressedBlob.layout
                     ELSE IF o.m_valueType = "Struct" THEN o.m_values.layout ELSE EmptyDesc

\* Every object is well-typed.
TypeOK ==
  /\ arr = [a \in Arrays |-> arr[a]]
  /\ \A a \in Arrays : IsObject(arr[a]) /\ arr[a].this = a

\* The items are in exactly one place: in the block while the array is
\* uncompressed, in a blob of its type and size while it is compressed.
ItemsInOnePlace == \A a \in Arrays : OnePlace(arr[a])

\* A struct array always has a description, kept beside the blob only while it
\* is compressed, and its items are laid out under the description in force.
DescriptionFits == \A a \in Arrays : Described(arr[a])

\* The only exception a caller who keeps the rules can meet is the refusal of
\* an unsupported value type; nothing undefined ever happens.
NothingGoesWrong ==
  \A a \in Arrays : arr[a].outcome \in {"ok", "InvalidUsageError"}

(***************************************************************************)
(* What the rules add, and with it the invariant they all follow from: an  *)
(* array with items has a type of some bytes, and only a compressed array  *)
(* is compressed, an empty one only if it counts its items itself.         *)
(***************************************************************************)
Ruled(o) ==
  /\ o.m_size > 0 => HasBytes(o)
  /\ o.m_state = "Compressed" =>
       IsLz4(o) /\ (o.m_size > 0 \/ is_trivial_type(o.m_valueType))
  /\ o.outcome \in {"ok", "InvalidUsageError"}

Sound(o) == IsObject(o) /\ OnePlace(o) /\ Described(o) /\ Ruled(o)

\* The inductive invariant behind the properties above.
Consistent == TypeOK /\ \A a \in Arrays : Sound(arr[a])

(***************************************************************************)
(* The array as the caller sees it.                                        *)
(***************************************************************************)
Contents(o) ==
  IF o.m_size = 0 THEN NoItems
  ELSE IF o.m_state = "Compressed" THEN o.m_compressedBlob.items
  ELSE o.m_values.items

View(o) ==
  [type |-> o.m_valueType,
   desc |-> IF o.m_valueType = "Struct" THEN GetStructuredDataInfo(o) ELSE EmptyDesc,
   size |-> o.m_size,
   items |-> Contents(o)]

Seqs == [a \in Arrays |-> View(arr[a])]

Promise == INSTANCE ArraySeq WITH seqs <- Seqs

\* With the rules kept, the arrays are plain sequences to their callers:
\* compression, decompression, reading and saving change nothing, a failed
\* call changes nothing, every other call is the sequence operation it names.
KeepsPromise == Promise!Spec

(***************************************************************************)
(* A program that neglects two rules: it stores what may not convert, and  *)
(* it inserts into arrays that were assigned from others.  Then calls fail *)
(* half-way, and the program goes on with what they leave.                 *)
(***************************************************************************)
Careless == AllRules \ {"Convertible", "InsertAtHome"}

\* A call that fails half-way leaves an object as sound as any other, and nothing
\* undefined happens because of it.
Undamaged ==
  /\ TypeOK
  /\ \A a \in Arrays :
       /\ Sound(Object(a))
       /\ arr[a].outcome \in {"ok", "InvalidUsageError", "LogicError"}

\* All items of s are still in t, in their order.
Embeds(s, t) ==
  \E pos \in [0..(s.size - 1) -> 0..(t.size - 1)] :
    /\ \A i, j \in 0..(s.size - 1) : i < j => pos[i] < pos[j]
    /\ \A i \in 0..(s.size - 1) : t.items[pos[i]] = s.items[i]

\* A call that throws LogicError (an assignment that PropertyWrapper refuses,
\* udm.hpp PropertyWrapper::operator=) may have made room for a value that never
\* came, but it loses, overwrites or reorders none of the items.
FailedCallKeepsItems ==
  [][\A a \in Arrays :
       arr'[a].outcome = "LogicError" => Embeds(View(arr[a]), View(arr'[a]))]_vars
=============================================================================
