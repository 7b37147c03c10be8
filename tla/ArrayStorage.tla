---------------------------- MODULE ArrayStorage ----------------------------
(***************************************************************************)
(* udm::Array and udm::ArrayLz4 as data: what each member function makes   *)
(* of the object it is called on (src/src/array.cpp, the binary Read and   *)
(* Write of both in src/src/property.cpp).                                 *)
(*                                                                         *)
(* An object is a record; every member function is an operator from the    *)
(* object to the object it leaves behind.  A call that throws, or whose    *)
(* behaviour C++ leaves undefined, stops where it does so and leaves what  *)
(* it had changed by then; "outcome" tells how the call ended.             *)
(***************************************************************************)
EXTENDS RangeCopy

CONSTANTS
  Arrays,        \* the array objects; each is the value of a property
  Kind,          \* [Arrays -> {"Raw", "Compressed"}]: Array or ArrayLz4
  Null,          \* the null pointer
  Values,        \* the item values a caller stores
  Default,       \* the value-initialised item
  Garbage,       \* the item of memory that new uint8_t[] left as it was
  Unconvertible, \* a caller's value that has no conversion to the value type
  Descs,         \* the struct descriptions with members
  EmptyDesc      \* the StructDescription {} without members

Kinds == {"Raw", "Compressed"}
Item  == Values \cup {Default, Garbage}

ASSUME KindAssumption == Kind \in [Arrays -> Kinds]
ASSUME ItemAssumption == Default # Garbage /\ Unconvertible \notin Item
ASSUME DescAssumption == EmptyDesc \notin Descs
ASSUME NullAssumption == Null \notin Descs \cup {EmptyDesc} /\ Null \notin Arrays

(***************************************************************************)
(* Value types, one for each way the code treats them.  "Trivial" are the  *)
(* numeric and generic types, "Reference" the non-trivial types that a     *)
(* compressed array refuses; "Nil", the type of an array nobody has given  *)
(* one, is a trivial type of zero bytes.                                   *)
(***************************************************************************)
AllTypes == {"Nil", "Trivial", "String", "Element", "Struct", "Reference"}

is_trivial_type(t) == t \in {"Nil", "Trivial"}

\* Non-trivial items are C++ objects: constructed by the allocation, moved by
\* Resize.  The bytes of a struct array are treated like those of a trivial one.
HoldsObjects(t) == ~is_trivial_type(t) /\ t # "Struct"

IsValueTypeSupported(t) ==
  is_trivial_type(t) \/ t \in {"Struct", "Element", "String"}

(***************************************************************************)
(* m_values: the header (the struct description in front of the items) and *)
(* the allocated items.  layout is the description the item bytes were     *)
(* laid out under when the block was allocated or filled; bytes are only   *)
(* meaningful, and only certain to lie inside the block, while the header  *)
(* still says the same.                                                    *)
(***************************************************************************)
Block(header, layout, items) == [header |-> header, layout |-> layout, items |-> items]

NoItems == [i \in {} |-> Default]
FreshItems(n, v) == [i \in Indices(n) |-> v]

\* A BlobLz4 by what it decompresses to.
Blob(t, layout, items) == [type |-> t, layout |-> layout, items |-> items]

\* The BlobLz4 {}, also what compress_lz4_blob returns for zero bytes.
EmptyBlob == Blob("Nil", EmptyDesc, NoItems)

NewObject(a) ==
  [this |-> a, m_values |-> Null, m_size |-> 0, m_valueType |-> "Nil",
   fromProperty |-> a, m_structuredDataInfo |-> Null, m_state |-> "Uncompressed",
   m_compressedBlob |-> EmptyBlob, outcome |-> "ok"]

IsLz4(o) == Kind[o.this] = "Compressed"
Fail(o, what) == [o EXCEPT !.outcome = what]
Failed(o) == o.outcome # "ok"

(***************************************************************************)
(* GetStructuredDataInfo, virtual: the description a compressed array      *)
(* keeps beside its blob comes first, then the header of the block.        *)
(***************************************************************************)
HasHeader(o) == o.m_valueType = "Struct" /\ o.m_values # Null

GetStructuredDataInfo(o) ==
  IF o.m_structuredDataInfo # Null THEN o.m_structuredDataInfo
  ELSE IF HasHeader(o) THEN o.m_values.header
  ELSE Null

\* Writing through, or moving from, the pointer it returned.
SetStructuredDataInfo(o, d) ==
  IF o.m_structuredDataInfo # Null THEN [o EXCEPT !.m_structuredDataInfo = d]
  ELSE IF HasHeader(o) THEN [o EXCEPT !.m_values.header = d]
  ELSE o

\* An item of this array occupies at least one byte.
HasBytes(o) ==
  /\ o.m_valueType # "Nil"
  /\ o.m_valueType = "Struct" => GetStructuredDataInfo(o) \notin {Null, EmptyDesc}

\* The description in force still fits the bytes (or says there are none).
Readable(o) ==
  o.m_valueType = "Struct" => GetStructuredDataInfo(o) \in {o.m_values.layout, EmptyDesc}

\* Array::GetValuePtr() is not null.
HasValuePtr(o) == o.m_values # Null /\ o.m_size > 0

(***************************************************************************)
(* AllocateData: objects are default-constructed, bytes stay as they are;  *)
(* a struct block starts with an empty description.                        *)
(***************************************************************************)
FreshItem(t) == IF HoldsObjects(t) THEN Default ELSE Garbage

AllocateData(o, n, layout) ==
  Block(EmptyDesc, layout, FreshItems(n, FreshItem(o.m_valueType)))

(***************************************************************************)
(* Clear, virtual.  The one of a compressed array drops the blob and       *)
(* leaves m_size and m_state alone.                                        *)
(***************************************************************************)
ArrayClearKeepsSize(o) ==  \* mutant: m_size is not reset
  IF o.m_values = Null THEN o ELSE [o EXCEPT !.m_values = Null]

ArrayClear(o) ==
  IF o.m_values = Null THEN o ELSE [o EXCEPT !.m_values = Null, !.m_size = 0]

Clear(o) ==
  IF ~IsLz4(o) THEN ArrayClear(o)
  ELSE IF o.m_state = "Compressed"
         THEN [o EXCEPT !.m_structuredDataInfo = Null, !.m_compressedBlob = EmptyBlob]
         ELSE ArrayClear([o EXCEPT !.m_structuredDataInfo = Null])

(***************************************************************************)
(* Compress.  Without items to read it only changes the state (and saves   *)
(* the header); the blob then stays whatever it was.                       *)
(***************************************************************************)
LayoutOf(o) == IF o.m_valueType = "Struct" THEN GetStructuredDataInfo(o) ELSE EmptyDesc

CompressNothing(o) ==
  IF HasHeader(o)
    THEN [o EXCEPT !.m_structuredDataInfo = o.m_values.header,
                   !.m_values.header = EmptyDesc]
    ELSE o

CompressItemsKeepsValues(o) ==  \* mutant: no ReleaseValues
  [o EXCEPT !.m_compressedBlob = IF HasBytes(o)
                                   THEN Blob(o.m_valueType, LayoutOf(o), o.m_values.items)
                                   ELSE EmptyBlob,
            !.m_structuredDataInfo = IF HasHeader(o) THEN o.m_values.header ELSE @]

CompressItemsForgetsInfo(o) ==  \* mutant: the description is not saved
  [o EXCEPT !.m_compressedBlob = IF HasBytes(o)
                                   THEN Blob(o.m_valueType, LayoutOf(o), o.m_values.items)
                                   ELSE EmptyBlob,
            !.m_values = Null]

CompressItems(o) ==
  [o EXCEPT !.m_compressedBlob = IF HasBytes(o)
                                   THEN Blob(o.m_valueType, LayoutOf(o), o.m_values.items)
                                   ELSE EmptyBlob,
            !.m_structuredDataInfo = IF HasHeader(o) THEN o.m_values.header ELSE @,
            !.m_values = Null]

Compress(o) ==
  LET c == [o EXCEPT !.m_state = "Compressed"]
  IN  IF o.m_state = "Compressed" THEN o
      ELSE IF ~HasValuePtr(o) THEN CompressNothing(c)
      ELSE IF ~Readable(o) THEN Fail(c, "undefined")
      ELSE CompressItems(c)

(***************************************************************************)
(* Decompress.  The state changes first, whatever happens then.  Elements  *)
(* and strings are counted by the blob; an empty one has no count to read. *)
(***************************************************************************)
DecompressObjects(o) ==
  LET blob   == o.m_compressedBlob
      filled == [o EXCEPT !.m_values = Block(EmptyDesc, EmptyDesc, blob.items),
                          !.m_compressedBlob = EmptyBlob]
  IN  CASE blob.type # o.m_valueType -> Fail(o, "undefined")
        [] blob.type = o.m_valueType /\ o.m_size > 0 -> filled
        [] blob.type = o.m_valueType /\ o.m_size = 0 ->
             IF o.m_valueType = "Element" THEN Fail(filled, "OutOfBoundsError")
                                          ELSE Fail(o, "undefined")

DecompressBytesKeepsInfo(o) ==  \* mutant: m_structuredDataInfo is not reset
  LET info   == LayoutOf(o)
      filled == [o EXCEPT !.m_values = Block(info, info, o.m_compressedBlob.items),
                          !.m_compressedBlob = EmptyBlob]
  IN  IF info = Null THEN Fail(o, "NoStructInfo")
      ELSE IF o.m_size = 0 \/ ~HasBytes(o)
        THEN [o EXCEPT !.m_compressedBlob = EmptyBlob]
      ELSE filled

DecompressBytes(o) ==
  LET info   == LayoutOf(o)
      filled == [o EXCEPT !.m_values = Block(info, info, o.m_compressedBlob.items),
                          !.m_structuredDataInfo = Null,
                          !.m_compressedBlob = EmptyBlob]
  IN  IF info = Null THEN Fail(o, "NoStructInfo")
      ELSE IF o.m_size = 0 \/ ~HasBytes(o)
        THEN [o EXCEPT !.m_compressedBlob = EmptyBlob]
      ELSE IF o.m_compressedBlob = Blob(o.m_valueType, info, o.m_compressedBlob.items)
        THEN filled
      ELSE Fail([o EXCEPT !.m_values = AllocateData(o, o.m_size, info)], "CompressionError")

Decompress(o) ==
  LET u == [o EXCEPT !.m_state = "Uncompressed"]
  IN  IF o.m_state = "Uncompressed" THEN o
      ELSE IF HasValuePtr(o) THEN Fail(o, "ValidDataPointer")
      ELSE IF HoldsObjects(o.m_valueType) THEN DecompressObjects(u)
      ELSE DecompressBytes(u)

\* GetValues, virtual.
GetValues(o) == IF IsLz4(o) THEN Decompress(o) ELSE o

GetCompressedBlob(o) == IF IsLz4(o) THEN Compress(o) ELSE o

\* Reading the items: operator==, GetBlobData, an iterator or GetValue<T>.
ReadValues(o) ==
  LET u == GetValues(o)
  IN  IF Failed(u) THEN u
      ELSE IF u.m_size > 0 /\ HasBytes(u) /\ ~(HasValuePtr(u) /\ Readable(u))
        THEN Fail(u, "undefined")
      ELSE u

(***************************************************************************)
(* Resize with the two ranges of old items that survive.                   *)
(***************************************************************************)
ResizeObjectsKeepsSize(o, n, r0, r1) ==  \* mutant: m_size is not updated
  LET items == IF HasValuePtr(o) THEN Relocate(o.m_values.items, n, r0, r1, Default)
                                 ELSE FreshItems(n, Default)
  IN  [Clear(o) EXCEPT !.m_values = Block(EmptyDesc, EmptyDesc, items)]

ResizeObjects(o, n, r0, r1) ==
  LET items == IF HasValuePtr(o) THEN Relocate(o.m_values.items, n, r0, r1, Default)
                                 ELSE FreshItems(n, Default)
  IN  [Clear(o) EXCEPT !.m_values = Block(EmptyDesc, EmptyDesc, items), !.m_size = n]

\* The description moves into the header of the new block; the old block is
\* released only if it had items.
ResizeBytes(o, n, r0, r1, defaultInitializeNewValues) ==
  LET info   == IF LayoutOf(o) = Null THEN EmptyDesc ELSE LayoutOf(o)
      moved  == IF o.m_valueType = "Struct" THEN SetStructuredDataInfo(o, EmptyDesc) ELSE o
      kept   == IF HasValuePtr(o) THEN Clear(moved) ELSE moved
      copied == Relocate(o.m_values.items, n, r0, r1, Garbage)
      items  == IF HasValuePtr(o) /\ HasBytes(o)
                  THEN [i \in Indices(n) |->
                          IF defaultInitializeNewValues /\ Vacant(r0, r1, i)
                            THEN Default ELSE copied[i]]
                  ELSE FreshItems(n, Garbage)
  IN  IF o.m_valueType = "Struct" /\ n > 0 /\ GetStructuredDataInfo(o) = Null
        THEN Fail(o, "undefined")
      ELSE IF HasValuePtr(o) /\ ~Readable(o) THEN Fail(o, "undefined")
      ELSE [kept EXCEPT !.m_values = Block(info, info, items), !.m_size = n]

\* Old and new block hold what the ranges copy, and the size has not wrapped.
CopyFits(o, n, r0, r1) ==
  /\ n >= 0
  /\ HasValuePtr(o) => InBounds(r0, o.m_size, n) /\ InBounds(r1, o.m_size, n)

ResizeCompressed(o, n, r0, r1, defaultInitializeNewValues) ==  \* mutant: no GetValues()
  IF n = o.m_size /\ (o.m_valueType = "Struct" => o.m_values # Null) THEN o
  ELSE IF ~CopyFits(o, n, r0, r1) THEN Fail(o, "undefined")
  ELSE IF HoldsObjects(o.m_valueType) THEN ResizeObjects(o, n, r0, r1)
  ELSE ResizeBytes(o, n, r0, r1, defaultInitializeNewValues)

Resize(o, n, r0, r1, defaultInitializeNewValues) ==
  LET u == GetValues(o)
  IN  IF n = o.m_size /\ (o.m_valueType = "Struct" => o.m_values # Null) THEN o
      ELSE IF Failed(u) THEN u
      ELSE IF ~CopyFits(u, n, r0, r1) THEN Fail(u, "undefined")
      ELSE IF HoldsObjects(u.m_valueType) THEN ResizeObjects(u, n, r0, r1)
      ELSE ResizeBytes(u, n, r0, r1, defaultInitializeNewValues)

\* Resize(newSize)
ResizeTo(o, n) ==
  LET r == KeepRanges(o.m_size, n) IN Resize(o, n, r[1], r[2], TRUE)

SetValueType(o, t) ==
  LET c == [Clear(o) EXCEPT !.m_valueType = t]
  IN  IF IsLz4(o) /\ ~IsValueTypeSupported(t) THEN Fail(o, "InvalidUsageError")
      ELSE IF t = o.m_valueType THEN o
      ELSE ResizeTo(c, c.m_size)

(***************************************************************************)
(* The calls of one array.                                                 *)
(***************************************************************************)
\* idx is not checked; a struct array compares the size of the value instead.
SetValue(o, idx, v) ==
  LET info == GetStructuredDataInfo(o)
      u    == GetValues(o)
  IN  IF o.m_valueType = "Struct" /\ info = Null THEN Fail(o, "undefined")
      ELSE IF v = Unconvertible \/ ~HasBytes(o) THEN Fail(o, "LogicError")
      ELSE IF Failed(u) THEN u
      ELSE IF ~HasValuePtr(u) \/ idx >= u.m_size \/ ~Readable(u) THEN Fail(u, "undefined")
      ELSE [u EXCEPT !.m_values.items[idx] = v]

InsertValueAnywhere(o, idx, v) ==  \* mutant: idx > m_size is not refused
  LET r     == InsertRanges(o.m_size, idx)
      grown == Resize(o, o.m_size + 1, r[1], r[2], FALSE)
  IN  IF Failed(grown) THEN grown
      ELSE IF grown.fromProperty # grown.this THEN Fail(grown, "LogicError")
      ELSE SetValue(grown, idx, v)

\* The new item is assigned through PropertyWrapper {*this, idx}, which finds
\* the array by its property and gives up if that one holds another array.
InsertValue(o, idx, v) ==
  LET r     == InsertRanges(o.m_size, idx)
      grown == Resize(o, o.m_size + 1, r[1], r[2], FALSE)
  IN  IF idx > o.m_size THEN o
      ELSE IF Failed(grown) THEN grown
      ELSE IF grown.fromProperty # grown.this THEN Fail(grown, "LogicError")
      ELSE SetValue(grown, idx, v)

RemoveValue(o, idx) ==
  LET r == RemoveRanges(o.m_size, idx)
  IN  IF idx >= o.m_size THEN o ELSE Resize(o, o.m_size - 1, r[1], r[2], FALSE)

AddValueRange(o, start, count) ==
  LET r == AddRanges(o.m_size, start, count)
  IN  Resize(o, o.m_size + count, r[1], r[2], FALSE)

RemoveValueRange(o, start, count) ==
  LET r == RemoveRangeRanges(o.m_size, start, count)
  IN  Resize(o, o.m_size - count, r[1], r[2], FALSE)

\* PropertyWrapper::AddArray with a struct description, for a property that
\* may exist already.
AddStructArray(o, strct, n) ==
  LET typed == SetValueType(o, "Struct")
  IN  IF Failed(typed) THEN typed ELSE ResizeTo(SetStructuredDataInfo(typed, strct), n)

(***************************************************************************)
(* The calls that involve two arrays leave a pair behind: the one they     *)
(* were called on and the other, which they may have to decompress.        *)
(***************************************************************************)
Pair(o, p) == [self |-> o, other |-> p]

\* The items of p from index offset on, read by both GetValues().
MergeItems(o, p, offset) ==
  LET u == ReadValues(o)
      q == ReadValues(p)
  IN  IF o.m_valueType = "Struct" /\ (p.m_size > 0 \/ GetStructuredDataInfo(o) = Null)
        THEN Pair(Fail(o, "undefined"), p)  \* bytes taken for Struct objects
      ELSE IF o.m_valueType = "Element" /\ p.m_size = 0 THEN Pair(o, p)
      ELSE IF Failed(u) THEN Pair(u, p)
      ELSE IF Failed(q) THEN Pair(Fail(u, q.outcome), q)
      ELSE IF p.m_size = 0 \/ ~HasBytes(o) THEN Pair(u, q)
      ELSE Pair([u EXCEPT !.m_values.items =
                   [i \in Indices(u.m_size) |->
                      IF i < offset THEN @[i] ELSE q.m_values.items[i - offset]]], q)

Merge(o, p, overwriteExisting) ==
  LET fresh == overwriteExisting \/ o.m_valueType # p.m_valueType
      c     == IF fresh THEN SetValueType(Clear(o), p.m_valueType) ELSE o
      grown == ResizeTo(c, c.m_size + p.m_size)
  IN  IF Failed(c) THEN Pair(c, p)
      ELSE IF Failed(grown) THEN Pair(grown, p)
      ELSE MergeItems(grown, p, c.m_size)

ArrayCopyAssign(o, p) ==
  LET c == SetValueType(Clear(o), p.m_valueType)
      m == Merge(c, p, TRUE)
  IN  IF Failed(c) THEN Pair(c, p)
      ELSE IF Failed(m.self) THEN m
      ELSE Pair([m.self EXCEPT !.fromProperty = p.fromProperty], m.other)

\* Between compressed arrays the blob is assigned before everything else.
CopyAssign(o, p) ==
  IF IsLz4(o) /\ IsLz4(p)
    THEN ArrayCopyAssign([o EXCEPT !.m_compressedBlob = p.m_compressedBlob], p)
    ELSE ArrayCopyAssign(o, p)

ArrayMoveKeepsType(o, p) ==  \* mutant: the source keeps its value type
  Pair([Clear(o) EXCEPT !.m_valueType = p.m_valueType, !.m_size = p.m_size,
                        !.m_values = p.m_values, !.fromProperty = p.fromProperty],
       [p EXCEPT !.m_values = Null, !.m_size = 0])

ArrayMoveAssign(o, p) ==
  Pair([Clear(o) EXCEPT !.m_valueType = p.m_valueType, !.m_size = p.m_size,
                        !.m_values = p.m_values, !.fromProperty = p.fromProperty],
       [p EXCEPT !.m_values = Null, !.m_size = 0, !.m_valueType = "Nil"])

MoveAssign(o, p) ==
  IF IsLz4(o) /\ IsLz4(p)
    THEN ArrayMoveAssign([o EXCEPT !.m_compressedBlob = p.m_compressedBlob],
                         [p EXCEPT !.m_compressedBlob = EmptyBlob])
    ELSE ArrayMoveAssign(o, p)

(***************************************************************************)
(* Saving the array to a binary file and loading the file: what Write puts *)
(* there, and the object that Read makes of it in a fresh property.        *)
(***************************************************************************)
Write(o) ==
  LET u == IF IsLz4(o) THEN Compress(o) ELSE ReadValues(o)
  IN  IF Failed(u) THEN u
      ELSE IF u.m_valueType = "Struct" /\ GetStructuredDataInfo(u) \in {Null, EmptyDesc}
        THEN Fail(u, "ImplementationError")
      ELSE u

\* The block is sized before the description is read into its header.
ReadArray(w) ==
  LET sized == ResizeTo(SetValueType(NewObject(w.this), w.m_valueType), w.m_size)
      r     == IF w.m_valueType = "Struct"
                 THEN SetStructuredDataInfo(sized, GetStructuredDataInfo(w)) ELSE sized
  IN  IF ~HasValuePtr(r) \/ ~HasBytes(r) THEN r
      ELSE IF ~Readable(r) THEN Fail(r, "undefined")
      ELSE [r EXCEPT !.m_values.items = w.m_values.items]

ReadArrayLz4Uncompressed(w) ==  \* mutant: the state stays Uncompressed
  [NewObject(w.this) EXCEPT
     !.m_valueType = w.m_valueType, !.m_size = w.m_size,
     !.m_compressedBlob = w.m_compressedBlob,
     !.m_structuredDataInfo =
        IF w.m_valueType = "Struct" THEN GetStructuredDataInfo(w) ELSE Null]

ReadArrayLz4(w) ==
  [Compress([NewObject(w.this) EXCEPT !.m_valueType = w.m_valueType, !.m_size = w.m_size])
     EXCEPT !.m_compressedBlob = w.m_compressedBlob,
            !.m_structuredDataInfo =
               IF w.m_valueType = "Struct" THEN GetStructuredDataInfo(w) ELSE Null]

SaveAndLoad(o) ==
  LET w == Write(o)
  IN  IF Failed(w) THEN w ELSE IF IsLz4(w) THEN ReadArrayLz4(w) ELSE ReadArray(w)
=============================================================================
