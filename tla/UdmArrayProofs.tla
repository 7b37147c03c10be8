---------------------------- MODULE UdmArrayProofs ----------------------------
(***************************************************************************)
(* Proofs about UdmArray, for every number of arrays, every set of values  *)
(* and descriptions and every bound.                                       *)
(***************************************************************************)
EXTENDS UdmArray, TLAPS

\* p is o with its items perhaps in another place.
Same(o, p) ==
  /\ p.this = o.this /\ p.m_size = o.m_size /\ p.m_valueType = o.m_valueType
  /\ p.fromProperty = o.fromProperty /\ p.outcome = o.outcome
  /\ View(p) = View(o)

\* A block is a record, so it is never the null pointer.
LEMMA BlockIsNotNull ==
  ASSUME NEW n \in Sizes, NEW b, IsBlock(b, n)
  PROVE  b # Null
BY BlockAssumption DEF Sizes, IsBlock, Block, StructInfo, IsItems

\* No bytes, no blob: the empty one is of any type.
LEMMA EmptyBlobIsBlob == IsBlob(EmptyBlob)
BY SizeAssumption
DEF IsBlob, EmptyBlob, Blob, NoItems, StructInfo, Sizes, IsItems, Indices, AllTypes

(***************************************************************************)
(* What Sound says of an array that is not compressed.                     *)
(***************************************************************************)
Plain(o) ==
  /\ HasFields(o)
  /\ o.this \in Arrays /\ o.fromProperty \in Arrays
  /\ o.m_size \in Sizes
  /\ o.m_valueType \in Types \cup {"Nil"}
  /\ o.m_structuredDataInfo = Null
  /\ o.m_state = "Uncompressed"
  /\ IsBlob(o.m_compressedBlob)
  /\ o.outcome \in {"ok", "InvalidUsageError"}
  /\ o.m_values # Null => IsBlock(o.m_values, o.m_size)
  /\ o.m_values = Null => o.m_size = 0 /\ o.m_valueType # "Struct"
  /\ o.m_size > 0 =>
       /\ o.m_valueType # "Nil"
       /\ o.m_valueType = "Struct" =>
            o.m_values.header = o.m_values.layout /\ o.m_values.header # EmptyDesc

\* An array is plain exactly if it is sound and not compressed.
LEMMA PlainIsSound ==
  ASSUME NEW o
  PROVE  Plain(o) <=> Sound(o) /\ o.m_state = "Uncompressed"
<1>1. ASSUME Plain(o)  PROVE Sound(o)
  <2>1. IsObject(o)
    BY <1>1 DEF Plain, IsObject, Outcomes
  <2>2. OnePlace(o)
    BY <1>1 DEF Plain, OnePlace
  <2>3. o.m_valueType = "Struct" =>
           GetStructuredDataInfo(o) = o.m_values.header /\ o.m_values.header \in StructInfo
    BY <1>1 DEF Plain, GetStructuredDataInfo, HasHeader, IsBlock
  <2>4. Described(o)
    BY <1>1, <2>3, NullAssumption DEF Plain, Described, LayoutOf, StructInfo
  <2>5. Ruled(o)
    BY <1>1, <2>3, NullAssumption DEF Plain, Ruled, HasBytes, StructInfo
  <2> QED  BY <2>1, <2>2, <2>4, <2>5 DEF Sound
<1>2. ASSUME Sound(o), o.m_state = "Uncompressed"  PROVE Plain(o)
  <2>1. o.m_structuredDataInfo = Null
    BY <1>2 DEF Sound, Described
  <2>2. o.m_values = Null => o.m_size = 0 /\ o.m_valueType # "Struct"
    BY <1>2, <2>1, SizeAssumption
    DEF Sound, IsObject, OnePlace, Described, GetStructuredDataInfo, HasHeader, Sizes
  <2>3. o.m_valueType = "Struct" => GetStructuredDataInfo(o) = o.m_values.header
    BY <2>1, <2>2 DEF GetStructuredDataInfo, HasHeader
  <2>4. o.m_size > 0 => /\ o.m_valueType # "Nil"
                        /\ o.m_valueType = "Struct" =>
                             /\ o.m_values.header = o.m_values.layout
                             /\ o.m_values.header # EmptyDesc
    BY <1>2, <2>3 DEF Sound, Described, Ruled, HasBytes, LayoutOf
  <2> QED  BY <1>2, <2>1, <2>2, <2>4 DEF Sound, IsObject, Ruled, Plain
<1> QED  BY <1>1, <1>2 DEF Plain

\* Decompressing, the first thing every access does, leaves the array
\* uncompressed and the same to its callers.
LEMMA DecompressSound ==
  ASSUME NEW o, Sound(o)
  PROVE  /\ Plain(Decompress(o))
         /\ Same(o, Decompress(o))
<1> PICK p : p = Decompress(o)  OBVIOUS
<1> PICK u : u = [o EXCEPT !.m_state = "Uncompressed"]  OBVIOUS
<1>1. HasFields(o)
  BY DEF Sound, IsObject
<1>2. /\ HasFields(u) /\ u.m_state = "Uncompressed" /\ u.m_compressedBlob = o.m_compressedBlob
      /\ u.m_size = o.m_size /\ u.m_valueType = o.m_valueType
      /\ u.m_values = o.m_values /\ u.m_structuredDataInfo = o.m_structuredDataInfo
      /\ u.this = o.this /\ u.fromProperty = o.fromProperty /\ u.outcome = o.outcome
  BY <1>1 DEF HasFields, Fields
<1>3. CASE o.m_state = "Uncompressed"
  BY <1>3, PlainIsSound DEF Decompress, Same
<1>4. CASE o.m_state = "Compressed" /\ o.m_size = 0
  <2>1. is_trivial_type(o.m_valueType)
    BY <1>4 DEF Sound, Ruled
  <2>2. p = [u EXCEPT !.m_compressedBlob = EmptyBlob]
    BY <1>2, <1>4, <2>1, NullAssumption
    DEF Decompress, HasValuePtr, HoldsObjects, DecompressBytes, LayoutOf, is_trivial_type
  <2>3. /\ HasFields(p) /\ p.this = o.this /\ p.m_size = o.m_size
        /\ p.m_valueType = o.m_valueType /\ p.fromProperty = o.fromProperty
        /\ p.m_structuredDataInfo = o.m_structuredDataInfo /\ p.outcome = o.outcome
        /\ p.m_values = o.m_values /\ p.m_state = "Uncompressed"
        /\ p.m_compressedBlob = EmptyBlob
    BY <1>2, <2>2 DEF HasFields, Fields
  <2>4. o.m_structuredDataInfo = Null /\ o.m_valueType # "Struct"
    BY <2>1 DEF Sound, Described, is_trivial_type
  <2>5. Plain(p)
    BY <1>4, <2>3, <2>4, EmptyBlobIsBlob DEF Sound, IsObject, Ruled, Plain
  <2>6. View(p) = View(o)
    BY <1>4, <2>3, <2>4 DEF View, Contents
  <2> QED  BY <2>3, <2>5, <2>6 DEF Same
<1>5. CASE o.m_state = "Compressed" /\ o.m_size > 0
  <2>1. /\ o.m_values = Null
        /\ o.m_compressedBlob.type = o.m_valueType
        /\ o.m_compressedBlob.layout = LayoutOf(o)
        /\ IsItems(o.m_compressedBlob.items, o.m_size)
        /\ o.m_size # 0
        /\ HasBytes(o)
    BY <1>5, SizeAssumption DEF Sound, OnePlace, Described, Ruled, IsObject, Sizes
  <2>2. /\ o.m_valueType # "Struct" => o.m_structuredDataInfo = Null
        /\ o.m_valueType = "Struct" => o.m_structuredDataInfo \notin {Null, EmptyDesc}
    BY <2>1 DEF Sound, Described, GetStructuredDataInfo, HasHeader, HasBytes
  <2> PICK d : d = LayoutOf(o)  OBVIOUS
  <2>3. /\ d \in StructInfo
        /\ o.m_valueType = "Struct" => d # EmptyDesc /\ d = o.m_structuredDataInfo
        /\ o.m_valueType # "Struct" => d = EmptyDesc
        /\ LayoutOf(u) = d /\ HasBytes(u)
        /\ o.m_valueType = "Struct" => GetStructuredDataInfo(u) # Null
    BY <1>2, <2>1, <2>2
    DEF Sound, IsObject, LayoutOf, GetStructuredDataInfo, HasBytes, StructInfo
  <2> PICK b : b = Block(d, d, o.m_compressedBlob.items)  OBVIOUS
  <2>4. IsBlock(b, o.m_size) /\ b # Null /\ b.header = d /\ b.layout = d
        /\ b.items = o.m_compressedBlob.items
    <3>1. IsBlock(b, o.m_size)
      BY <2>1, <2>3 DEF IsBlock, Block
    <3> QED  BY <3>1, BlockIsNotNull DEF Sound, IsObject, Block
  <2>5. \/ /\ o.m_valueType # "Struct"
           /\ p = [u EXCEPT !.m_values = b, !.m_compressedBlob = EmptyBlob]
        \/ p = [u EXCEPT !.m_values = b, !.m_structuredDataInfo = Null,
                         !.m_compressedBlob = EmptyBlob]
    <3>1. CASE HoldsObjects(o.m_valueType)
      <4>1. p = DecompressObjects(u) /\ d = EmptyDesc
        BY <1>2, <1>5, <2>1, <2>3, <3>1 DEF Decompress, HasValuePtr, HoldsObjects
      <4> QED  BY <1>2, <1>5, <2>1, <3>1, <4>1 DEF DecompressObjects, HoldsObjects
    <3>2. CASE ~HoldsObjects(o.m_valueType)
      <4>1. p = DecompressBytes(u)
        BY <1>2, <1>5, <2>1, <3>2 DEF Decompress, HasValuePtr
      <4>2. u.m_compressedBlob = Blob(u.m_valueType, LayoutOf(u), u.m_compressedBlob.items)
        BY <1>2, <2>1, <2>3 DEF Sound, IsObject, IsBlob
      <4>3. LayoutOf(u) # Null /\ ~(u.m_size = 0 \/ ~HasBytes(u))
        BY <1>2, <2>1, <2>3, NullAssumption DEF StructInfo
      <4> QED  BY <1>2, <2>3, <4>1, <4>2, <4>3 DEF DecompressBytes
    <3> QED  BY <3>1, <3>2
  <2>6. /\ HasFields(p) /\ p.this = o.this /\ p.m_size = o.m_size
        /\ p.m_valueType = o.m_valueType /\ p.fromProperty = o.fromProperty
        /\ p.m_structuredDataInfo = Null /\ p.outcome = o.outcome
        /\ p.m_values = b /\ p.m_state = "Uncompressed"
        /\ p.m_compressedBlob = EmptyBlob
    <3>1. CASE /\ o.m_valueType # "Struct"
               /\ p = [u EXCEPT !.m_values = b, !.m_compressedBlob = EmptyBlob]
      BY <1>2, <2>2, <3>1 DEF HasFields, Fields
    <3>2. CASE p = [u EXCEPT !.m_values = b, !.m_structuredDataInfo = Null,
                             !.m_compressedBlob = EmptyBlob]
      BY <1>2, <3>2 DEF HasFields, Fields
    <3> QED  BY <2>5, <3>1, <3>2
  <2>8. Plain(p)
    BY <2>1, <2>3, <2>4, <2>6, EmptyBlobIsBlob DEF Sound, IsObject, Ruled, HasBytes, Plain
  <2>9. View(p) = View(o)
    BY <1>5, <2>1, <2>2, <2>3, <2>4, <2>6
    DEF View, Contents, GetStructuredDataInfo, HasHeader
  <2> QED  BY <2>6, <2>8, <2>9 DEF Same
<1>6. o.m_size \in Nat /\ o.m_state \in {"Compressed", "Uncompressed"}
  BY SizeAssumption DEF Sound, IsObject, Sizes
<1> QED  BY <1>3, <1>4, <1>5, <1>6

\* Every access to the items starts with GetValues.
LEMMA GetValuesSound ==
  ASSUME NEW o, Sound(o)
  PROVE  Plain(GetValues(o)) /\ Same(o, GetValues(o))
<1>1. CASE IsLz4(o)
  BY <1>1, DecompressSound DEF GetValues
<1>2. CASE ~IsLz4(o)
  <2>1. o.m_state = "Uncompressed"
    BY <1>2 DEF Sound, IsObject, Ruled
  <2> QED  BY <1>2, <2>1, PlainIsSound DEF GetValues, Same
<1> QED  BY <1>1, <1>2

\* What an uncompressed array with items shows of itself.
LEMMA PlainItems ==
  ASSUME NEW o, Plain(o)
  PROVE  /\ o.m_size \in Nat
         /\ o.m_size > 0 => HasValuePtr(o) /\ Readable(o) /\ HasBytes(o)
         /\ HasValuePtr(o) => o.m_size > 0 /\ IsBlock(o.m_values, o.m_size)
         /\ o.m_valueType = "Struct" => /\ HasHeader(o)
                                       /\ GetStructuredDataInfo(o) = o.m_values.header
                                       /\ o.m_values.header \in StructInfo
         /\ Contents(o) = IF o.m_size = 0 THEN NoItems ELSE o.m_values.items
<1>1. o.m_size \in Nat
  BY SizeAssumption DEF Plain, Sizes
<1>2. o.m_valueType = "Struct" => /\ HasHeader(o)
                                 /\ GetStructuredDataInfo(o) = o.m_values.header
                                 /\ o.m_values.header \in StructInfo
  BY DEF Plain, HasHeader, GetStructuredDataInfo, IsBlock
<1>3. o.m_size > 0 => HasValuePtr(o) /\ Readable(o) /\ HasBytes(o)
  BY <1>1, <1>2, NullAssumption DEF Plain, HasValuePtr, Readable, HasBytes, StructInfo
<1> QED  BY <1>1, <1>2, <1>3 DEF Plain, HasValuePtr, Contents

\* GetValues leaves an array uncompressed, with the items it had.
LEMMA ReadValuesSound ==
  ASSUME NEW o, Sound(o)
  PROVE  Plain(ReadValues(o)) /\ Same(o, ReadValues(o))
<1> PICK u : u = GetValues(o)  OBVIOUS
<1>1. Plain(u) /\ Same(o, u)
  BY GetValuesSound
<1>2. Failed(u) \/ ~(u.m_size > 0 /\ HasBytes(u) /\ ~(HasValuePtr(u) /\ Readable(u)))
  BY <1>1, PlainItems
<1>3. ReadValues(o) = u
  BY <1>2 DEF ReadValues
<1> QED  BY <1>1, <1>3

\* Compressing an array that has items, or whose emptiness needs no counting.
LEMMA CompressSound ==
  ASSUME NEW o, Sound(o), IsLz4(o), o.m_size > 0 \/ is_trivial_type(o.m_valueType)
  PROVE  Sound(Compress(o)) /\ Same(o, Compress(o)) /\ Compress(o).m_state = "Compressed"
<1> PICK p : p = Compress(o)  OBVIOUS
<1> PICK c : c = [o EXCEPT !.m_state = "Compressed"]  OBVIOUS
<1>1. CASE o.m_state = "Compressed"
  BY <1>1 DEF Compress, Same
<1>2. CASE Plain(o) /\ o.m_size = 0
  <2>1. o.m_valueType # "Struct" /\ is_trivial_type(o.m_valueType)
    BY <1>2 DEF is_trivial_type
  <2>2. /\ HasFields(c) /\ c.m_state = "Compressed" /\ c.m_compressedBlob = o.m_compressedBlob
        /\ c.m_size = o.m_size /\ c.m_valueType = o.m_valueType
        /\ c.m_values = o.m_values /\ c.m_structuredDataInfo = o.m_structuredDataInfo
        /\ c.this = o.this /\ c.fromProperty = o.fromProperty /\ c.outcome = o.outcome
    BY <1>2 DEF Plain, HasFields, Fields
  <2>3. p = c
    BY <1>2, <2>1, <2>2 DEF Compress, HasValuePtr, CompressNothing, HasHeader, Plain
  <2>4. Sound(c)
    BY <1>2, <2>1, <2>2
    DEF Sound, Plain, IsObject, OnePlace, Described, Ruled, IsLz4, Outcomes
  <2>5. View(c) = View(o)
    BY <1>2, <2>1, <2>2 DEF View, Contents
  <2> QED  BY <2>2, <2>3, <2>4, <2>5 DEF Same
<1>3. CASE Plain(o) /\ o.m_size > 0
  <2>1. /\ HasValuePtr(o) /\ Readable(o) /\ HasBytes(o)
        /\ IsBlock(o.m_values, o.m_size) /\ o.m_values # Null
        /\ o.m_valueType = "Struct" => /\ HasHeader(o)
                                      /\ GetStructuredDataInfo(o) = o.m_values.header
                                      /\ o.m_values.header \in StructInfo
        /\ Contents(o) = o.m_values.items
    BY <1>3, PlainItems DEF Plain
  <2> PICK d : d = LayoutOf(o)  OBVIOUS
  <2>2. /\ d \in StructInfo
        /\ o.m_valueType = "Struct" => d = o.m_values.header
        /\ o.m_valueType # "Struct" => d = EmptyDesc
    BY <2>1 DEF LayoutOf, StructInfo
  <2> PICK b : b = Blob(o.m_valueType, d, o.m_values.items)  OBVIOUS
  <2>3. /\ b.type = o.m_valueType /\ b.layout = d /\ b.items = o.m_values.items
        /\ IsBlob(b)
    BY <1>3, <2>1, <2>2, TypesAssumption DEF Blob, IsBlob, IsBlock, Plain, AllTypes
  <2>4. /\ HasFields(c) /\ c.m_state = "Compressed" /\ c.m_compressedBlob = o.m_compressedBlob
        /\ c.m_size = o.m_size /\ c.m_valueType = o.m_valueType
        /\ c.m_values = o.m_values /\ c.m_structuredDataInfo = o.m_structuredDataInfo
        /\ c.this = o.this /\ c.fromProperty = o.fromProperty /\ c.outcome = o.outcome
        /\ HasValuePtr(c) /\ Readable(c) /\ HasBytes(c) /\ LayoutOf(c) = d
        /\ HasHeader(c) <=> o.m_valueType = "Struct"
    <3>1. /\ HasFields(c) /\ c.m_state = "Compressed" /\ c.m_compressedBlob = o.m_compressedBlob
          /\ c.m_size = o.m_size /\ c.m_valueType = o.m_valueType
          /\ c.m_values = o.m_values /\ c.m_structuredDataInfo = o.m_structuredDataInfo
          /\ c.this = o.this /\ c.fromProperty = o.fromProperty /\ c.outcome = o.outcome
      BY <1>3 DEF Plain, HasFields, Fields
    <3>2. GetStructuredDataInfo(c) = GetStructuredDataInfo(o) /\ HasHeader(c) = HasHeader(o)
      BY <3>1 DEF GetStructuredDataInfo, HasHeader
    <3> QED  BY <2>1, <3>1, <3>2 DEF HasValuePtr, Readable, HasBytes, LayoutOf, HasHeader
  <2>5. p = CompressItems(c)
    <3>1. o.m_state # "Compressed"
      BY <1>3 DEF Plain
    <3> QED  BY <2>1, <3>1 DEF Compress
  <2>6. p = [c EXCEPT !.m_compressedBlob = b,
                      !.m_structuredDataInfo = IF o.m_valueType = "Struct" THEN d ELSE Null,
                      !.m_values = Null]
    BY <1>3, <2>2, <2>4, <2>5 DEF CompressItems, Plain
  <2>7. /\ HasFields(p) /\ p.m_state = "Compressed" /\ p.m_compressedBlob = b
        /\ p.m_size = o.m_size /\ p.m_valueType = o.m_valueType
        /\ p.m_values = Null
        /\ p.m_structuredDataInfo = IF o.m_valueType = "Struct" THEN d ELSE Null
        /\ p.this = o.this /\ p.fromProperty = o.fromProperty /\ p.outcome = o.outcome
    BY <2>4, <2>6 DEF HasFields, Fields
  <2>8. IsObject(p)
    BY <1>3, <2>2, <2>3, <2>7 DEF Plain, IsObject, Outcomes
  <2>9. OnePlace(p)
    BY <2>1, <2>3, <2>7 DEF OnePlace, IsBlock
  <2>10. GetStructuredDataInfo(p) = p.m_structuredDataInfo
    BY <2>7 DEF GetStructuredDataInfo, HasHeader
  <2>11. Described(p) /\ Ruled(p)
    BY <1>3, <2>1, <2>2, <2>3, <2>7, <2>10, NullAssumption
    DEF Plain, Described, Ruled, LayoutOf, HasBytes, StructInfo, IsLz4
  <2>12. View(p) = View(o)
    BY <1>3, <2>1, <2>2, <2>3, <2>7, <2>10 DEF View, Contents, Plain
  <2> QED  BY <2>7, <2>8, <2>9, <2>11, <2>12 DEF Sound, Same
<1>4. o.m_size \in Nat /\ o.m_state \in {"Compressed", "Uncompressed"}
  BY SizeAssumption DEF Sound, IsObject, Sizes
<1>5. o.m_state = "Uncompressed" => Plain(o)
  BY PlainIsSound
<1> QED  BY <1>1, <1>2, <1>3, <1>4, <1>5

(***************************************************************************)
(* The relocation behind every change of the size.  Kept says what the n   *)
(* items g are after the m items f: copies where a range writes, unset     *)
(* elsewhere, and reset there if the resize was asked to reset them.       *)
(***************************************************************************)
Ranges == [src : Nat, dst : Nat, count : Nat]

Unset == {Default, Garbage}

Ordered(r0, r1) == DstEnd(r0) <= r1.dst

Kept(f, m, g, n, r0, r1, reset) ==
  /\ g \in [Indices(n) -> Item]
  /\ \A i \in Indices(n) :
       IF m > 0 /\ Writes(r1, i) THEN g[i] = f[r1.src + (i - r1.dst)]
       ELSE IF m > 0 /\ Writes(r0, i) THEN g[i] = f[r0.src + (i - r0.dst)]
       ELSE g[i] \in Unset /\ (reset /\ m > 0 => g[i] = Default)

\* A range that lies inside the old items reads only old items.
LEMMA SourceInside ==
  ASSUME NEW m \in Nat, NEW n \in Nat, NEW r \in Ranges, InBounds(r, m, n),
         NEW i \in Indices(n), Writes(r, i)
  PROVE  r.src + (i - r.dst) \in Indices(m)
<1>1. r.src \in Nat /\ r.dst \in Nat /\ r.count \in Nat /\ i \in Int
  BY DEF Ranges, Indices
<1> QED  BY <1>1 DEF Writes, InBounds, SrcEnd, DstEnd, Indices

\* The two copies, or the one they are merged into, are those of both ranges.
LEMMA RelocateItems ==
  ASSUME NEW m \in Nat, NEW n \in Nat, NEW f \in [Indices(m) -> Item], NEW fresh \in Unset,
         NEW r0 \in Ranges, NEW r1 \in Ranges, InBounds(r0, m, n), InBounds(r1, m, n)
  PROVE  /\ Relocate(f, n, r0, r1, fresh) \in [Indices(n) -> Item]
         /\ \A i \in Indices(n) :
              Relocate(f, n, r0, r1, fresh)[i] =
                IF Writes(r1, i) THEN f[r1.src + (i - r1.dst)]
                ELSE IF Writes(r0, i) THEN f[r0.src + (i - r0.dst)]
                ELSE fresh
<1> PICK g : g = Relocate(f, n, r0, r1, fresh)  OBVIOUS
<1>1. ASSUME NEW i \in Indices(n)
      PROVE  g[i] = IF Writes(r1, i) THEN f[r1.src + (i - r1.dst)]
                    ELSE IF Writes(r0, i) THEN f[r0.src + (i - r0.dst)]
                    ELSE fresh
  <2>1. CASE Adjoin(r0, r1)
    <3> PICK q : q = Range(r0.src, r0.dst, r0.count + r1.count)  OBVIOUS
    <3> PICK e : e = Range(r1.src, r1.dst, 0)  OBVIOUS
    <3>1. /\ r0.src \in Nat /\ r0.dst \in Nat /\ r0.count \in Nat
          /\ r1.src \in Nat /\ r1.dst \in Nat /\ r1.count \in Nat /\ i \in Int
      BY DEF Ranges, Indices
    <3>2. r1.src = r0.src + r0.count /\ r1.dst = r0.dst + r0.count
      BY <2>1 DEF Adjoin, SrcEnd, DstEnd
    <3>3. ~Writes(e, i)
      BY <3>1 DEF Writes, DstEnd, Range
    <3>4. q.src = r0.src /\ q.dst = r0.dst /\ q.count = r0.count + r1.count
      BY DEF Range
    <3>5. Writes(q, i) <=> Writes(r0, i) \/ Writes(r1, i)
      BY <3>1, <3>2, <3>4 DEF Writes, DstEnd
    <3>6. r0.src + (i - r0.dst) = r1.src + (i - r1.dst)
      BY <3>1, <3>2
    <3>7. g[i] = IF Writes(q, i) THEN f[r0.src + (i - r0.dst)] ELSE fresh
      BY <2>1, <3>3, <3>4 DEF Relocate, FirstCopy, SecondCopy
    <3> QED  BY <3>5, <3>6, <3>7
  <2>2. CASE ~Adjoin(r0, r1)
    <3>1. FirstCopy(r0, r1) = r0 /\ SecondCopy(r0, r1) = r1
      BY <2>2 DEF FirstCopy, SecondCopy
    <3> QED  BY <3>1 DEF Relocate
  <2> QED  BY <2>1, <2>2
<1>2. ASSUME NEW i \in Indices(n)
      PROVE  g[i] \in Item
  <2>1. /\ Writes(r1, i) => r1.src + (i - r1.dst) \in Indices(m)
        /\ Writes(r0, i) => r0.src + (i - r0.dst) \in Indices(m)
    BY SourceInside
  <2> QED  BY <1>1, <2>1 DEF Unset, Item
<1>3. g = [i \in Indices(n) |-> g[i]]
  BY DEF Relocate
<1> QED  BY <1>1, <1>2, <1>3

\* p is o but for its block and its size.
Alike(o, p) ==
  /\ HasFields(p)
  /\ p.this = o.this /\ p.m_valueType = o.m_valueType /\ p.fromProperty = o.fromProperty
  /\ p.m_structuredDataInfo = o.m_structuredDataInfo /\ p.m_state = o.m_state
  /\ p.m_compressedBlob = o.m_compressedBlob /\ p.outcome = o.outcome

\* Clear drops the block of an uncompressed array, and nothing else.
LEMMA ClearAlike ==
  ASSUME NEW o, HasFields(o), o.m_state = "Uncompressed", o.m_structuredDataInfo = Null
  PROVE  /\ Alike(o, Clear(o))
         /\ Clear(o).m_values = Null
         /\ Clear(o).m_size = IF o.m_values = Null THEN o.m_size ELSE 0
<1> PICK q : q = [o EXCEPT !.m_structuredDataInfo = Null]  OBVIOUS
<1>1. HasFields(q) /\ Alike(o, q) /\ q.m_values = o.m_values /\ q.m_size = o.m_size
  BY DEF Alike, HasFields, Fields
<1>2. Clear(o) = ArrayClear(o) \/ Clear(o) = ArrayClear(q)
  BY DEF Clear
<1>3. ASSUME NEW c, HasFields(c), Alike(o, c), c.m_values = o.m_values, c.m_size = o.m_size
      PROVE  /\ Alike(o, ArrayClear(c))
             /\ ArrayClear(c).m_values = Null
             /\ ArrayClear(c).m_size = IF o.m_values = Null THEN o.m_size ELSE 0
  <2>1. CASE c.m_values = Null
    BY <1>3, <2>1 DEF ArrayClear
  <2>2. CASE c.m_values # Null
    <3> PICK d : d = [c EXCEPT !.m_values = Null, !.m_size = 0]  OBVIOUS
    <3>1. ArrayClear(c) = d
      BY <2>2 DEF ArrayClear
    <3>2. HasFields(d) /\ Alike(c, d) /\ d.m_values = Null /\ d.m_size = 0
      BY <1>3 DEF Alike, HasFields, Fields
    <3> QED  BY <1>3, <2>2, <3>1, <3>2 DEF Alike
  <2> QED  BY <2>1, <2>2
<1>4. HasFields(o) /\ Alike(o, o)
  BY DEF Alike
<1> QED  BY <1>1, <1>2, <1>3, <1>4

\* An uncompressed array given a block of n items, laid out under its header.
LEMMA RefilledSound ==
  ASSUME NEW o, Plain(o), NEW p, Alike(o, p), NEW n \in Sizes, p.m_size = n,
         NEW g \in [Indices(n) -> Item], NEW h \in StructInfo, NEW l \in StructInfo,
         p.m_values = Block(h, l, g),
         n > 0 => /\ o.m_valueType # "Nil"
                  /\ o.m_valueType = "Struct" => h = l /\ h # EmptyDesc
  PROVE  /\ Plain(p)
         /\ n > 0 => Contents(p) = g
         /\ o.m_valueType = "Struct" => LayoutOf(p) = h
<1> PICK b : b = Block(h, l, g)  OBVIOUS
<1>1. IsBlock(b, n) /\ b.header = h /\ b.layout = l /\ b.items = g
  BY DEF IsBlock, Block, IsItems
<1>2. b # Null
  BY <1>1, BlockIsNotNull
<1>3. Plain(p)
  BY <1>1, <1>2 DEF Plain, Alike
<1> QED  BY <1>1, <1>3, PlainItems, SizeAssumption DEF LayoutOf, Alike, Sizes

\* What a resize with the ranges r0 and r1 makes of o.
Resized(o, n, r0, r1, reset, p) ==
  /\ Plain(p)
  /\ p.this = o.this /\ p.m_valueType = o.m_valueType
  /\ p.fromProperty = o.fromProperty /\ p.outcome = o.outcome
  /\ LayoutOf(p) = LayoutOf(o)
  /\ p.m_size = n
  /\ Kept(Contents(o), o.m_size, Contents(p), n, r0, r1, reset)

\* ResizeObjects and ResizeBytes, on the decompressed array u.
LEMMA ResizeObjectsSound ==
  ASSUME NEW u, Plain(u), NEW n \in Sizes, NEW r0 \in Ranges, NEW r1 \in Ranges,
         NEW reset \in BOOLEAN, HoldsObjects(u.m_valueType),
         u.m_size > 0 => InBounds(r0, u.m_size, n) /\ InBounds(r1, u.m_size, n)
  PROVE  Resized(u, n, r0, r1, reset, ResizeObjects(u, n, r0, r1))
<1> PICK p : p = ResizeObjects(u, n, r0, r1)  OBVIOUS
<1> PICK c : c = Clear(u)  OBVIOUS
<1> PICK g : g = IF HasValuePtr(u) THEN Relocate(u.m_values.items, n, r0, r1, Default)
                                   ELSE FreshItems(n, Default)
  OBVIOUS
<1>1. Alike(u, c)
  BY ClearAlike DEF Plain
<1>2. p = [c EXCEPT !.m_values = Block(EmptyDesc, EmptyDesc, g), !.m_size = n]
  BY DEF ResizeObjects
<1>3. /\ Alike(u, p) /\ p.m_size = n /\ p.m_values = Block(EmptyDesc, EmptyDesc, g)
  BY <1>1, <1>2 DEF Alike, HasFields, Fields
<1>4. /\ u.m_size \in Nat /\ n \in Nat
      /\ HasValuePtr(u) <=> u.m_size > 0
      /\ u.m_size > 0 => u.m_values.items \in [Indices(u.m_size) -> Item]
      /\ u.m_size > 0 => Contents(u) = u.m_values.items
  BY PlainItems, SizeAssumption DEF IsBlock, IsItems, Sizes
<1>5. Kept(Contents(u), u.m_size, g, n, r0, r1, reset)
  <2>1. CASE u.m_size > 0
    BY <1>4, <2>1, RelocateItems DEF Kept, Unset
  <2>2. CASE ~(u.m_size > 0)
    BY <1>4, <2>2 DEF Kept, Unset, FreshItems, Item
  <2> QED  BY <2>1, <2>2
<1>6. /\ u.m_valueType # "Nil" /\ u.m_valueType # "Struct"
  BY DEF HoldsObjects, is_trivial_type
<1>7. Plain(p) /\ (n > 0 => Contents(p) = g)
  BY <1>3, <1>5, <1>6, RefilledSound DEF Kept, StructInfo
<1>8. Kept(Contents(u), u.m_size, Contents(p), n, r0, r1, reset)
  <2>1. CASE n > 0
    BY <1>5, <1>7, <2>1
  <2>2. CASE n = 0
    BY <1>3, <2>2 DEF Kept, Contents, NoItems, Indices
  <2> QED  BY <1>4, <2>1, <2>2
<1>9. LayoutOf(p) = LayoutOf(u)
  BY <1>3, <1>6 DEF LayoutOf, Alike
<1> QED  BY <1>3, <1>7, <1>8, <1>9 DEF Resized, Alike

\* Resize of an array of trivial items does what Resized says: the copies of bytes
\* and the default values fill the new block.
LEMMA ResizeBytesSound ==
  ASSUME NEW u, Plain(u), NEW n \in Sizes, NEW r0 \in Ranges, NEW r1 \in Ranges,
         NEW reset \in BOOLEAN, ~HoldsObjects(u.m_valueType), Ordered(r0, r1),
         n = 0 \/ HasBytes(u),
         u.m_size > 0 => InBounds(r0, u.m_size, n) /\ InBounds(r1, u.m_size, n)
  PROVE  Resized(u, n, r0, r1, reset, ResizeBytes(u, n, r0, r1, reset))
<1> PICK p : p = ResizeBytes(u, n, r0, r1, reset)  OBVIOUS
<1> PICK d : d = LayoutOf(u)  OBVIOUS
<1>1. /\ d \in StructInfo
      /\ n > 0 => u.m_valueType # "Nil" /\ (u.m_valueType = "Struct" => d # EmptyDesc)
      /\ u.m_valueType = "Struct" => GetStructuredDataInfo(u) # Null /\ HasHeader(u)
  BY PlainItems, NullAssumption DEF LayoutOf, StructInfo, HasBytes
<1> PICK q : q = IF u.m_valueType = "Struct" THEN [u EXCEPT !.m_values.header = EmptyDesc] ELSE u
  OBVIOUS
<1>2. /\ Alike(u, q) /\ q.m_size = u.m_size
      /\ SetStructuredDataInfo(u, EmptyDesc) = q \/ u.m_valueType # "Struct"
  BY <1>1 DEF Plain, Alike, HasFields, Fields, SetStructuredDataInfo
<1> PICK c : c = IF HasValuePtr(u) THEN Clear(q) ELSE q  OBVIOUS
<1>3. Alike(u, c)
  <2>1. HasFields(q) /\ q.m_state = "Uncompressed" /\ q.m_structuredDataInfo = Null
    BY <1>2 DEF Plain, Alike
  <2>2. Alike(q, Clear(q))
    BY <2>1, ClearAlike
  <2> QED  BY <1>2, <2>2 DEF Alike
<1> PICK g : g = IF HasValuePtr(u) /\ HasBytes(u)
                   THEN [i \in Indices(n) |->
                           IF reset /\ Vacant(r0, r1, i)
                             THEN Default
                             ELSE Relocate(u.m_values.items, n, r0, r1, Garbage)[i]]
                   ELSE FreshItems(n, Garbage)
  OBVIOUS
<1>4. p = [c EXCEPT !.m_values = Block(d, d, g), !.m_size = n]
  <2>1. d # Null
    BY <1>1, NullAssumption DEF StructInfo
  <2>2. HasValuePtr(u) => Readable(u)
    BY PlainItems
  <2>3. IF u.m_valueType = "Struct" THEN q = SetStructuredDataInfo(u, EmptyDesc) ELSE q = u
    BY <1>2
  <2> QED  BY <1>1, <2>1, <2>2, <2>3 DEF ResizeBytes
<1>5. /\ Alike(u, p) /\ p.m_size = n /\ p.m_values = Block(d, d, g)
  BY <1>3, <1>4 DEF Alike, HasFields, Fields
<1>6. /\ u.m_size \in Nat /\ n \in Nat
      /\ HasValuePtr(u) <=> u.m_size > 0
      /\ u.m_size > 0 => HasBytes(u)
      /\ u.m_size > 0 => u.m_values.items \in [Indices(u.m_size) -> Item]
      /\ u.m_size > 0 => Contents(u) = u.m_values.items
  BY PlainItems, SizeAssumption DEF IsBlock, IsItems, Sizes
<1>7. ASSUME NEW i \in Indices(n)
      PROVE  Vacant(r0, r1, i) <=> ~Writes(r0, i) /\ ~Writes(r1, i)
  <2>1. /\ r0.src \in Nat /\ r0.dst \in Nat /\ r0.count \in Nat
        /\ r1.src \in Nat /\ r1.dst \in Nat /\ r1.count \in Nat /\ i \in Int
    BY DEF Ranges, Indices
  <2> QED  BY <2>1 DEF Vacant, Writes, Ordered, DstEnd
<1>8. Kept(Contents(u), u.m_size, g, n, r0, r1, reset)
  <2>1. CASE u.m_size > 0
    BY <1>6, <1>7, <2>1, RelocateItems DEF Kept, Unset, Item
  <2>2. CASE ~(u.m_size > 0)
    BY <1>6, <2>2 DEF Kept, Unset, FreshItems, Item
  <2> QED  BY <2>1, <2>2
<1>9. Plain(p) /\ (n > 0 => Contents(p) = g) /\ LayoutOf(p) = d
  <2>1. Plain(p) /\ (n > 0 => Contents(p) = g) /\ (u.m_valueType = "Struct" => LayoutOf(p) = d)
    BY <1>1, <1>5, <1>8, RefilledSound DEF Kept
  <2> QED  BY <1>5, <2>1 DEF LayoutOf, Alike
<1>10. Kept(Contents(u), u.m_size, Contents(p), n, r0, r1, reset)
  <2>1. CASE n > 0
    BY <1>8, <1>9, <2>1
  <2>2. CASE n = 0
    BY <1>5, <2>2 DEF Kept, Contents, NoItems, Indices
  <2> QED  BY <1>6, <2>1, <2>2
<1> QED  BY <1>5, <1>9, <1>10 DEF Resized, Alike

\* Resize changes nothing if the size stays, and does what Resized says otherwise,
\* whatever the items are and whether they were compressed.
LEMMA ResizeSound ==
  ASSUME NEW o, Sound(o), o.outcome = "ok", NEW n \in Sizes, NEW r0 \in Ranges, NEW r1 \in Ranges,
         NEW reset \in BOOLEAN, Ordered(r0, r1), n = 0 \/ HasBytes(o),
         o.m_size > 0 => InBounds(r0, o.m_size, n) /\ InBounds(r1, o.m_size, n)
  PROVE  IF n = o.m_size /\ (o.m_valueType = "Struct" => o.m_values # Null)
           THEN Resize(o, n, r0, r1, reset) = o
           ELSE Resized(o, n, r0, r1, reset, Resize(o, n, r0, r1, reset))
<1> PICK u : u = GetValues(o)  OBVIOUS
<1> PICK p : p = Resize(o, n, r0, r1, reset)  OBVIOUS
<1>1. Plain(u) /\ Same(o, u)
  BY GetValuesSound
<1>2. /\ u.m_size = o.m_size /\ u.m_valueType = o.m_valueType
      /\ LayoutOf(u) = LayoutOf(o) /\ Contents(u) = Contents(o)
      /\ HasBytes(u) <=> HasBytes(o)
  <2>1. View(u).desc = View(o).desc /\ View(u).items = View(o).items
    BY <1>1 DEF Same
  <2> QED  BY <1>1, <2>1 DEF Same, View, LayoutOf, HasBytes
<1>3. CASE n = o.m_size /\ (o.m_valueType = "Struct" => o.m_values # Null)
  BY <1>3 DEF Resize
<1>4. CASE ~(n = o.m_size /\ (o.m_valueType = "Struct" => o.m_values # Null))
  <2>1. ~Failed(u)
    BY <1>1 DEF Failed, Same
  <2>2. CopyFits(u, n, r0, r1)
    BY <1>1, <1>2, PlainItems, SizeAssumption DEF CopyFits, Sizes
  <2>3. IF HoldsObjects(u.m_valueType) THEN p = ResizeObjects(u, n, r0, r1)
                                       ELSE p = ResizeBytes(u, n, r0, r1, reset)
    BY <1>4, <2>1, <2>2 DEF Resize
  <2>4. Resized(u, n, r0, r1, reset, p)
    <3>1. u.m_size > 0 => InBounds(r0, u.m_size, n) /\ InBounds(r1, u.m_size, n)
      BY <1>2
    <3>2. CASE HoldsObjects(u.m_valueType)
      BY <1>1, <2>3, <3>1, <3>2, ResizeObjectsSound
    <3>3. CASE ~HoldsObjects(u.m_valueType)
      BY <1>1, <1>2, <2>3, <3>1, <3>3, ResizeBytesSound
    <3> QED  BY <3>2, <3>3
  <2> QED  BY <1>1, <1>2, <1>4, <2>4 DEF Resized, Same
<1> QED  BY <1>3, <1>4

(***************************************************************************)
(* The calls of one array.  Each keeps everything but the items, and gives *)
(* the items of the sequence operation it stands for.                      *)
(***************************************************************************)
Keeps(o, p) ==
  /\ Sound(p)
  /\ p.this = o.this /\ p.m_valueType = o.m_valueType
  /\ p.fromProperty = o.fromProperty /\ p.outcome = o.outcome
  /\ LayoutOf(p) = LayoutOf(o)
  /\ o.m_state = "Uncompressed" => p.m_state = "Uncompressed"

\* The contents of a sound array are as many items as its size says.
LEMMA ContentsItems ==
  ASSUME NEW o, Sound(o)
  PROVE  o.m_size \in Nat /\ Contents(o) \in [Indices(o.m_size) -> Item]
<1>1. o.m_size \in Nat
  BY SizeAssumption DEF Sound, IsObject, Sizes
<1>2. CASE o.m_size = 0
  BY <1>1, <1>2 DEF Contents, NoItems, Indices
<1>3. CASE o.m_size > 0
  BY <1>1, <1>3 DEF Sound, IsObject, OnePlace, Contents, IsBlock, IsItems
<1> QED  BY <1>1, <1>2, <1>3

\* Ranges that resize m items to n: where the size stays, so does every item.
Fitting(r0, r1, m, n) ==
  /\ r0 \in Ranges /\ r1 \in Ranges /\ Ordered(r0, r1)
  /\ InBounds(r0, m, n) /\ InBounds(r1, m, n)
  /\ n = m => /\ r0.src = r0.dst /\ r1.src = r1.dst
              /\ \A i \in Indices(n) : Writes(r0, i) \/ Writes(r1, i)

Relocated(o, n, r0, r1, reset, p) ==
  /\ Keeps(o, p)
  /\ p.m_size = n
  /\ Kept(Contents(o), o.m_size, Contents(p), n, r0, r1, reset)

\* Resize with ranges that fit relocates the items it is told to and keeps the rest
\* of the object.
LEMMA ResizeKeeps ==
  ASSUME NEW o, Sound(o), o.outcome = "ok", NEW n \in Sizes, n = 0 \/ HasBytes(o),
         NEW r0, NEW r1, Fitting(r0, r1, o.m_size, n), NEW reset \in BOOLEAN,
         NEW p, p = Resize(o, n, r0, r1, reset)
  PROVE  Relocated(o, n, r0, r1, reset, p)
<1>0. /\ r0 \in Ranges /\ r1 \in Ranges /\ Ordered(r0, r1)
      /\ InBounds(r0, o.m_size, n) /\ InBounds(r1, o.m_size, n)
      /\ n = o.m_size => /\ r0.src = r0.dst /\ r1.src = r1.dst
                         /\ \A i \in Indices(n) : Writes(r0, i) \/ Writes(r1, i)
  BY DEF Fitting
<1>1. CASE n = o.m_size /\ (o.m_valueType = "Struct" => o.m_values # Null)
  <2>1. p = o
    BY <1>0, <1>1, ResizeSound
  <2>2. ASSUME NEW i \in Indices(n)
        PROVE  /\ r0.src + (i - r0.dst) = i
               /\ r1.src + (i - r1.dst) = i
    <3>1. r0.dst \in Nat /\ r1.dst \in Nat /\ i \in Int
      BY <1>0 DEF Ranges, Indices
    <3> QED  BY <1>0, <1>1, <3>1
  <2>3. Kept(Contents(o), o.m_size, Contents(o), n, r0, r1, reset)
    <3>1. n > 0 \/ Indices(n) = {}
      BY <1>1, ContentsItems DEF Indices
    <3> QED  BY <1>0, <1>1, <2>2, <3>1, ContentsItems DEF Kept
  <2> QED  BY <1>1, <2>1, <2>3 DEF Keeps, Relocated
<1>2. CASE ~(n = o.m_size /\ (o.m_valueType = "Struct" => o.m_values # Null))
  <2>1. Resized(o, n, r0, r1, reset, p)
    BY <1>0, <1>2, ResizeSound
  <2> QED  BY <2>1, PlainIsSound DEF Resized, Keeps, Relocated
<1> QED  BY <1>1, <1>2

\* The two ways of calling it: with the new items reset, and with them left.
LEMMA ResizeResets ==
  ASSUME NEW o, Sound(o), o.outcome = "ok", NEW n \in Sizes, n = 0 \/ HasBytes(o),
         NEW r0, NEW r1, Fitting(r0, r1, o.m_size, n)
  PROVE  Relocated(o, n, r0, r1, TRUE, Resize(o, n, r0, r1, TRUE))
<1>1. ASSUME NEW reset \in BOOLEAN
      PROVE  Relocated(o, n, r0, r1, reset, Resize(o, n, r0, r1, reset))
  BY ResizeKeeps
<1> QED  BY <1>1, Zenon

\* ResizeKeeps, of the very object that Resize returns.
LEMMA ResizeLeaves ==
  ASSUME NEW o, Sound(o), o.outcome = "ok", NEW n \in Sizes, n = 0 \/ HasBytes(o),
         NEW r0, NEW r1, Fitting(r0, r1, o.m_size, n)
  PROVE  Relocated(o, n, r0, r1, FALSE, Resize(o, n, r0, r1, FALSE))
<1>1. ASSUME NEW reset \in BOOLEAN
      PROVE  Relocated(o, n, r0, r1, reset, Resize(o, n, r0, r1, reset))
  BY ResizeKeeps
<1> QED  BY <1>1, Zenon

\* Resizing keeps the items below both sizes; what is new has a default value if the
\* array had items.
LEMMA ResizeToSound ==
  ASSUME NEW o, Sound(o), o.outcome = "ok", NEW n \in Sizes, n = 0 \/ HasBytes(o),
         NEW p, p = ResizeTo(o, n)
  PROVE  /\ Keeps(o, p)
         /\ p.m_size = n
         /\ Contents(p) \in [Indices(n) -> Item]
         /\ \A i \in Indices(n) :
              IF i < o.m_size THEN Contents(p)[i] = Contents(o)[i]
              ELSE Contents(p)[i] \in Unset /\ (o.m_size > 0 => Contents(p)[i] = Default)
<1> DEFINE m == o.m_size
<1>k. PICK k : k = IF m < n THEN m ELSE n  OBVIOUS
<1>r. PICK r0, r1 : r0 = Range(0, 0, k) /\ r1 = Range(k, k, 0)  OBVIOUS
<1>1. m \in Nat /\ n \in Nat /\ k \in Nat /\ k <= m /\ k <= n /\ k \in {m, n}
  BY <1>k, ContentsItems, SizeAssumption DEF Sizes
<1>2. /\ r0 \in Ranges /\ r0.src = 0 /\ r0.dst = 0 /\ r0.count = k
      /\ r1 \in Ranges /\ r1.src = k /\ r1.dst = k /\ r1.count = 0
  BY <1>1, <1>r DEF Ranges, Range
<1>4. ASSUME NEW i \in Indices(n)
      PROVE  /\ i \in Int /\ ~Writes(r1, i) /\ (Writes(r0, i) <=> i < m)
             /\ r0.src + (i - r0.dst) = i
  BY <1>1, <1>2 DEF Indices, Writes, DstEnd
<1>5. p = Resize(o, n, r0, r1, TRUE)
  BY <1>k, <1>r DEF ResizeTo, KeepRanges
<1>6. Fitting(r0, r1, m, n)
  BY <1>1, <1>2, <1>4 DEF Fitting, Ordered, InBounds, SrcEnd, DstEnd, Indices
<1>7. Relocated(o, n, r0, r1, TRUE, p)
  <2>1. Relocated(o, n, r0, r1, TRUE, Resize(o, n, r0, r1, TRUE))
    BY <1>6, ResizeResets
  <2> QED  BY <1>5, <2>1
<1>8. \A i \in Indices(n) : i < m => m > 0
  BY <1>1 DEF Indices
<1> QED  BY <1>4, <1>7, <1>8 DEF Relocated, Kept

\* RemoveValue closes the gap: the items after the removed one move down by one.
LEMMA RemoveValueSound ==
  ASSUME NEW o, Sound(o), o.outcome = "ok", NEW idx \in Nat, idx < o.m_size,
         NEW p, p = RemoveValue(o, idx)
  PROVE  /\ Keeps(o, p)
         /\ p.m_size = o.m_size - 1
         /\ Contents(p) = [i \in Indices(o.m_size - 1) |->
                             IF i < idx THEN Contents(o)[i] ELSE Contents(o)[i + 1]]
<1> DEFINE m == o.m_size
<1>r. PICK r0, r1 : r0 = Range(0, 0, idx) /\ r1 = Range(idx + 1, idx, m - 1 - idx)  OBVIOUS
<1>1. /\ m \in Nat /\ m > 0 /\ m - 1 \in Sizes /\ m - 1 # m /\ ~(idx >= m)
      /\ HasBytes(o)
  BY ContentsItems, SizeAssumption DEF Sizes, Sound, IsObject, Ruled
<1>2. /\ r0 \in Ranges /\ r0.src = 0 /\ r0.dst = 0 /\ r0.count = idx
      /\ r1 \in Ranges /\ r1.src = idx + 1 /\ r1.dst = idx /\ r1.count = m - 1 - idx
  BY <1>1, <1>r DEF Ranges, Range
<1>3. Fitting(r0, r1, m, m - 1)
  BY <1>1, <1>2 DEF Fitting, Ordered, InBounds, SrcEnd, DstEnd
<1>4. p = Resize(o, m - 1, r0, r1, FALSE)
  BY <1>1, <1>r DEF RemoveValue, RemoveRanges
<1>5. Relocated(o, m - 1, r0, r1, FALSE, p)
  <2>1. Relocated(o, m - 1, r0, r1, FALSE, Resize(o, m - 1, r0, r1, FALSE))
    BY <1>1, <1>3, ResizeLeaves
  <2> QED  BY <1>4, <2>1
<1>6. ASSUME NEW i \in Indices(m - 1)
      PROVE  Contents(p)[i] = IF i < idx THEN Contents(o)[i] ELSE Contents(o)[i + 1]
  <2>1. /\ i \in Int
        /\ Writes(r1, i) <=> ~(i < idx)
        /\ i < idx => Writes(r0, i)
        /\ r0.src + (i - r0.dst) = i /\ r1.src + (i - r1.dst) = i + 1
    BY <1>1, <1>2 DEF Indices, Writes, DstEnd
  <2> QED  BY <1>1, <1>5, <2>1 DEF Relocated, Kept
<1> QED  BY <1>5, <1>6 DEF Relocated, Kept

\* AddValueRange opens a gap of count items at start and keeps the items around it.
LEMMA AddValueRangeSound ==
  ASSUME NEW o, Sound(o), o.outcome = "ok", HasBytes(o), NEW start \in Nat, NEW count \in Nat,
         start <= o.m_size, o.m_size + count \in Sizes,
         NEW p, p = AddValueRange(o, start, count)
  PROVE  /\ Keeps(o, p)
         /\ p.m_size = o.m_size + count
         /\ Contents(p) \in [Indices(o.m_size + count) -> Item]
         /\ \A i \in Indices(o.m_size + count) :
              /\ i < start => Contents(p)[i] = Contents(o)[i]
              /\ start <= i /\ i < start + count => Contents(p)[i] \in Unset
              /\ start + count <= i => Contents(p)[i] = Contents(o)[i - count]
<1> DEFINE m == o.m_size
<1>r. PICK r0, r1 : r0 = Range(0, 0, start) /\ r1 = Range(start, start + count, m - start)
  OBVIOUS
<1>1. m \in Nat
  BY ContentsItems
<1>2. /\ r0 \in Ranges /\ r0.src = 0 /\ r0.dst = 0 /\ r0.count = start
      /\ r1 \in Ranges /\ r1.src = start /\ r1.dst = start + count /\ r1.count = m - start
  BY <1>1, <1>r DEF Ranges, Range
<1>3. ASSUME NEW i \in Indices(m + count)
      PROVE  /\ i \in Int
             /\ Writes(r1, i) <=> start + count <= i
             /\ Writes(r0, i) <=> i < start
             /\ r0.src + (i - r0.dst) = i /\ r1.src + (i - r1.dst) = i - count
  BY <1>1, <1>2 DEF Indices, Writes, DstEnd
<1>4. Fitting(r0, r1, m, m + count)
  <2>1. Ordered(r0, r1) /\ InBounds(r0, m, m + count) /\ InBounds(r1, m, m + count)
    BY <1>1, <1>2 DEF Ordered, InBounds, SrcEnd, DstEnd
  <2>2. m + count = m => count = 0
    BY <1>1
  <2>3. m + count = m => \A i \in Indices(m + count) : Writes(r0, i) \/ Writes(r1, i)
    BY <1>1, <1>3, <2>2 DEF Indices
  <2> QED  BY <1>2, <2>1, <2>2, <2>3 DEF Fitting
<1>5. p = Resize(o, m + count, r0, r1, FALSE)
  BY <1>r DEF AddValueRange, AddRanges
<1>6. Relocated(o, m + count, r0, r1, FALSE, p)
  <2>1. Relocated(o, m + count, r0, r1, FALSE, Resize(o, m + count, r0, r1, FALSE))
    BY <1>4, ResizeLeaves
  <2> QED  BY <1>5, <2>1
<1>7. ASSUME NEW i \in Indices(m + count)
      PROVE  /\ i < start => Contents(p)[i] = Contents(o)[i]
             /\ start <= i /\ i < start + count => Contents(p)[i] \in Unset
             /\ start + count <= i => Contents(p)[i] = Contents(o)[i - count]
  <2>1. i < start \/ start + count <= i => m > 0
    BY <1>1, <1>3 DEF Indices
  <2>2. ~(i < start /\ start + count <= i) /\ (start <= i <=> ~(i < start))
        /\ (i < start + count <=> ~(start + count <= i))
    BY <1>3
  <2> QED  BY <1>3, <1>6, <2>1, <2>2 DEF Relocated, Kept
<1> QED  BY <1>6, <1>7 DEF Relocated, Kept

\* RemoveValueRange closes the gap of count items at start.
LEMMA RemoveValueRangeSound ==
  ASSUME NEW o, Sound(o), o.outcome = "ok", NEW start \in Nat, NEW count \in Nat,
         start + count <= o.m_size,
         NEW p, p = RemoveValueRange(o, start, count)
  PROVE  /\ Keeps(o, p)
         /\ p.m_size = o.m_size - count
         /\ Contents(p) = [i \in Indices(o.m_size - count) |->
                             IF i < start THEN Contents(o)[i] ELSE Contents(o)[i + count]]
<1> DEFINE m == o.m_size
<1>r. PICK r0, r1 : /\ r0 = Range(0, 0, start)
                    /\ r1 = Range(start + count, start, m - (start + count))
  OBVIOUS
<1>1. /\ m \in Nat /\ m - count \in Sizes
      /\ m - count = 0 \/ HasBytes(o)
  BY ContentsItems, SizeAssumption DEF Sizes, Sound, IsObject, Ruled
<1>2. /\ r0 \in Ranges /\ r0.src = 0 /\ r0.dst = 0 /\ r0.count = start
      /\ r1 \in Ranges /\ r1.src = start + count /\ r1.dst = start
      /\ r1.count = m - (start + count)
  BY <1>1, <1>r DEF Ranges, Range
<1>3. ASSUME NEW i \in Indices(m - count)
      PROVE  /\ i \in Int /\ m > 0
             /\ Writes(r1, i) <=> ~(i < start)
             /\ Writes(r0, i) <=> i < start
             /\ r0.src + (i - r0.dst) = i /\ r1.src + (i - r1.dst) = i + count
  BY <1>1, <1>2 DEF Indices, Writes, DstEnd
<1>4. Fitting(r0, r1, m, m - count)
  <2>1. Ordered(r0, r1) /\ InBounds(r0, m, m - count) /\ InBounds(r1, m, m - count)
    BY <1>1, <1>2 DEF Ordered, InBounds, SrcEnd, DstEnd
  <2>2. m - count = m => count = 0
    BY <1>1
  <2> QED  BY <1>2, <1>3, <2>1, <2>2 DEF Fitting
<1>5. p = Resize(o, m - count, r0, r1, FALSE)
  BY <1>r DEF RemoveValueRange, RemoveRangeRanges
<1>6. Relocated(o, m - count, r0, r1, FALSE, p)
  <2>1. Relocated(o, m - count, r0, r1, FALSE, Resize(o, m - count, r0, r1, FALSE))
    BY <1>1, <1>4, ResizeLeaves
  <2> QED  BY <1>5, <2>1
<1>7. ASSUME NEW i \in Indices(m - count)
      PROVE  Contents(p)[i] = IF i < start THEN Contents(o)[i] ELSE Contents(o)[i + count]
  BY <1>3, <1>6 DEF Relocated, Kept
<1> QED  BY <1>6, <1>7 DEF Relocated, Kept

\* SetValue changes the one item and no other.
LEMMA SetValueSound ==
  ASSUME NEW o, Sound(o), o.outcome = "ok", NEW idx \in Nat, idx < o.m_size,
         NEW v \in Values, NEW p, p = SetValue(o, idx, v)
  PROVE  /\ Keeps(o, p)
         /\ p.m_size = o.m_size
         /\ Contents(p) = [Contents(o) EXCEPT ![idx] = v]
<1>u. PICK u : u = GetValues(o)  OBVIOUS
<1>1. Plain(u) /\ Same(o, u) /\ View(u) = View(o)
  BY <1>u, GetValuesSound DEF Same
<1>2. /\ HasBytes(o) /\ v # Unconvertible
      /\ o.m_valueType = "Struct" => GetStructuredDataInfo(o) # Null
      /\ u.m_size = o.m_size /\ u.m_size > 0 /\ ~(idx >= u.m_size)
      /\ idx \in Indices(u.m_size)
  BY <1>1, ContentsItems, ItemAssumption
  DEF Sound, Ruled, Described, Same, Item, Indices
<1>3. /\ HasValuePtr(u) /\ Readable(u) /\ ~Failed(u)
      /\ IsBlock(u.m_values, u.m_size) /\ u.m_values # Null
      /\ Contents(u) = u.m_values.items
  BY <1>1, <1>2, PlainItems DEF Failed, Same, HasValuePtr
<1>4. p = [u EXCEPT !.m_values.items[idx] = v]
  BY <1>2, <1>3, <1>u DEF SetValue
<1>g. PICK g : g = [Contents(o) EXCEPT ![idx] = v]  OBVIOUS
<1>5. Contents(u) = Contents(o) /\ LayoutOf(u) = LayoutOf(o)
  BY <1>1 DEF View, Same, LayoutOf
<1>6. g \in [Indices(u.m_size) -> Item]
  BY <1>2, <1>5, <1>g, ContentsItems DEF Item
<1>7. /\ Alike(u, p) /\ p.m_size = u.m_size
      /\ p.m_values = [u.m_values EXCEPT !.items[idx] = v]
  BY <1>1, <1>4 DEF Plain, Alike, HasFields, Fields
<1>b. PICK h, l, f : h = u.m_values.header /\ l = u.m_values.layout /\ f = u.m_values.items
  OBVIOUS
<1>8. /\ u.m_values = Block(h, l, f) /\ h \in StructInfo /\ l \in StructInfo
      /\ f = Contents(o)
      /\ u.m_valueType # "Nil"
      /\ u.m_valueType = "Struct" => h = l /\ h # EmptyDesc
  BY <1>1, <1>2, <1>3, <1>5, <1>b DEF IsBlock, Plain
<1>9. p.m_values = Block(h, l, g)
  <2>1. p.m_values = [Block(h, l, f) EXCEPT !.items[idx] = v]
    BY <1>7, <1>8
  <2>2. p.m_values = Block(h, l, [f EXCEPT ![idx] = v])
    BY <2>1 DEF Block
  <2> QED  BY <1>8, <1>g, <2>2
<1>10. u.m_size \in Sizes
  BY <1>1 DEF Plain
<1>11. /\ Plain(p) /\ Contents(p) = g
       /\ u.m_valueType = "Struct" => LayoutOf(p) = h
  BY <1>1, <1>2, <1>6, <1>7, <1>8, <1>9, <1>10, RefilledSound
<1>12. LayoutOf(p) = LayoutOf(u)
  BY <1>1, <1>7, <1>11, <1>b, PlainItems DEF LayoutOf, Alike
<1> QED  BY <1>1, <1>5, <1>7, <1>g, <1>11, <1>12, PlainIsSound DEF Keeps, Alike, Same, Plain

\* InsertValue grows the array by one, and the items from the place on move up.
LEMMA InsertValueSound ==
  ASSUME NEW o, Sound(o), o.outcome = "ok", HasBytes(o), o.fromProperty = o.this,
         o.m_size + 1 \in Sizes, NEW idx \in Nat, idx <= o.m_size,
         NEW v \in Values, NEW p, p = InsertValue(o, idx, v)
  PROVE  /\ Keeps(o, p)
         /\ p.m_size = o.m_size + 1
         /\ Contents(p) \in [Indices(o.m_size + 1) -> Item]
         /\ \A i \in Indices(o.m_size + 1) :
              /\ i < idx => Contents(p)[i] = Contents(o)[i]
              /\ i = idx => Contents(p)[i] = v
              /\ i > idx => Contents(p)[i] = Contents(o)[i - 1]
<1> DEFINE m == o.m_size
<1>r. PICK r0, r1 : r0 = Range(0, 0, idx) /\ r1 = Range(idx, idx + 1, m - idx)  OBVIOUS
<1>q. PICK q : q = Resize(o, m + 1, r0, r1, FALSE)  OBVIOUS
<1>1. m \in Nat /\ ~(idx > m)
  BY ContentsItems
<1>2. /\ r0 \in Ranges /\ r0.src = 0 /\ r0.dst = 0 /\ r0.count = idx
      /\ r1 \in Ranges /\ r1.src = idx /\ r1.dst = idx + 1 /\ r1.count = m - idx
  BY <1>1, <1>r DEF Ranges, Range
<1>3. ASSUME NEW i \in Indices(m + 1)
      PROVE  /\ i \in Int
             /\ Writes(r1, i) <=> i > idx
             /\ Writes(r0, i) <=> i < idx
             /\ r0.src + (i - r0.dst) = i /\ r1.src + (i - r1.dst) = i - 1
             /\ i > idx \/ i < idx => m > 0
  BY <1>1, <1>2 DEF Indices, Writes, DstEnd
<1>4. Fitting(r0, r1, m, m + 1)
  BY <1>1, <1>2 DEF Fitting, Ordered, InBounds, SrcEnd, DstEnd
<1>5. Relocated(o, m + 1, r0, r1, FALSE, q)
  <2>1. Relocated(o, m + 1, r0, r1, FALSE, Resize(o, m + 1, r0, r1, FALSE))
    BY <1>4, ResizeLeaves
  <2> QED  BY <1>q, <2>1
<1>6. /\ Sound(q) /\ q.outcome = "ok" /\ q.m_size = m + 1 /\ Keeps(o, q)
      /\ idx < q.m_size /\ q.fromProperty = q.this
  BY <1>1, <1>5 DEF Relocated, Keeps
<1>7. p = SetValue(q, idx, v)
  BY <1>1, <1>6, <1>q, <1>r DEF InsertValue, InsertRanges, Failed
<1>8. /\ Keeps(q, p) /\ p.m_size = m + 1
      /\ Contents(p) = [Contents(q) EXCEPT ![idx] = v]
  BY <1>6, <1>7, SetValueSound
<1>9. Contents(q) \in [Indices(m + 1) -> Item]
  BY <1>5 DEF Relocated, Kept
<1>10. ASSUME NEW i \in Indices(m + 1)
       PROVE  /\ i < idx => Contents(p)[i] = Contents(o)[i]
              /\ i = idx => Contents(p)[i] = v
              /\ i > idx => Contents(p)[i] = Contents(o)[i - 1]
              /\ Contents(p)[i] \in Item
  BY <1>3, <1>5, <1>8, <1>9 DEF Relocated, Kept, Item
<1>11. Keeps(o, p)
  BY <1>6, <1>8 DEF Keeps
<1> QED  BY <1>8, <1>9, <1>10, <1>11

(***************************************************************************)
(* A new value type.                                                       *)
(***************************************************************************)
\* p is o, uncompressed, emptied and of type t.
Emptied(o, t, p) ==
  /\ Plain(p)
  /\ p.this = o.this /\ p.fromProperty = o.fromProperty /\ p.outcome = o.outcome
  /\ p.m_valueType = t /\ p.m_size = 0

\* Clear leaves an empty array of the same type.
LEMMA ClearSound ==
  ASSUME NEW o, Plain(o), o.m_valueType # "Struct"
  PROVE  Emptied(o, o.m_valueType, Clear(o))
<1>1. /\ Alike(o, Clear(o)) /\ Clear(o).m_values = Null /\ Clear(o).m_size = 0
  BY ClearAlike DEF Plain
<1> QED  BY <1>1, SizeAssumption DEF Plain, Alike, Emptied, Sizes

\* SetValueType empties the array, and nothing is left of an earlier description.
LEMMA SetValueTypeSound ==
  ASSUME NEW o, Plain(o), o.outcome = "ok", NEW t \in Types \cup {"Nil"}, t # o.m_valueType,
         IsLz4(o) => IsValueTypeSupported(t), NEW p, p = SetValueType(o, t)
  PROVE  Emptied(o, t, p) /\ LayoutOf(p) = EmptyDesc
<1>e. PICK e : e = Clear(o)  OBVIOUS
<1>c. PICK c : c = [e EXCEPT !.m_valueType = t]  OBVIOUS
<1>1. /\ Alike(o, e) /\ e.m_values = Null /\ e.m_size = 0
  BY <1>e, ClearAlike DEF Plain
<1>2. /\ HasFields(c) /\ c.this = o.this /\ c.fromProperty = o.fromProperty
      /\ c.outcome = o.outcome /\ c.m_valueType = t /\ c.m_size = 0 /\ c.m_values = Null
      /\ c.m_structuredDataInfo = Null /\ c.m_state = "Uncompressed"
      /\ c.m_compressedBlob = o.m_compressedBlob
  BY <1>1, <1>c DEF Plain, Alike, HasFields, Fields
<1>r. PICK r0, r1 : p = Resize(c, 0, r0, r1, TRUE)
  BY <1>2, <1>c, <1>e DEF SetValueType, ResizeTo
<1>3. 0 \in Sizes
  BY SizeAssumption DEF Sizes
<1>4. CASE t # "Struct"
  <2>1. p = c
    BY <1>2, <1>4, <1>r DEF Resize
  <2> QED  BY <1>2, <1>3, <1>4, <2>1 DEF Plain, Emptied, LayoutOf
<1>5. CASE t = "Struct"
  <2>b. PICK b : b = Block(EmptyDesc, EmptyDesc, FreshItems(0, Garbage))  OBVIOUS
  <2>1. /\ GetStructuredDataInfo(c) = Null /\ ~HasValuePtr(c) /\ LayoutOf(c) = Null
        /\ SetStructuredDataInfo(c, EmptyDesc) = c /\ GetValues(c) = c
    BY <1>2, <1>5
    DEF GetStructuredDataInfo, HasHeader, HasValuePtr, LayoutOf, SetStructuredDataInfo,
        GetValues, Decompress
  <2>2. ~Failed(c) /\ CopyFits(c, 0, r0, r1)
    BY <1>2, <2>1 DEF Failed, CopyFits
  <2>3. p = [c EXCEPT !.m_values = b, !.m_size = 0]
    BY <1>2, <1>5, <1>r, <2>b, <2>1, <2>2
    DEF Resize, ResizeBytes, HoldsObjects, is_trivial_type
  <2>4. IsBlock(b, 0) /\ b.header = EmptyDesc /\ b # Null
    <3>1. IsBlock(b, 0) /\ b.header = EmptyDesc
      BY <2>b DEF IsBlock, Block, StructInfo, IsItems, FreshItems, Item, Indices
    <3> QED  BY <1>3, <3>1, BlockIsNotNull
  <2>5. /\ HasFields(p) /\ p.this = o.this /\ p.fromProperty = o.fromProperty
        /\ p.outcome = o.outcome /\ p.m_valueType = t /\ p.m_size = 0 /\ p.m_values = b
        /\ p.m_structuredDataInfo = Null /\ p.m_state = "Uncompressed"
        /\ p.m_compressedBlob = o.m_compressedBlob
    BY <1>2, <2>3 DEF HasFields, Fields
  <2>6. Emptied(o, t, p)
    BY <1>3, <2>4, <2>5 DEF Plain, Emptied
  <2> QED  BY <2>4, <2>5, <2>6, PlainItems DEF Emptied, LayoutOf
<1> QED  BY <1>4, <1>5

\* A struct array that has no items yet is given a description and n items.
LEMMA AddStructArraySound ==
  ASSUME NEW o, Plain(o), o.outcome = "ok", "Struct" \in Types,
         o.m_valueType = "Struct" => o.m_size = 0,
         NEW d \in Descs, NEW n \in Sizes, NEW p, p = AddStructArray(o, d, n)
  PROVE  /\ Sound(p)
         /\ p.this = o.this /\ p.outcome = o.outcome /\ p.fromProperty = o.fromProperty
         /\ p.m_valueType = "Struct" /\ p.m_size = n /\ LayoutOf(p) = d
         /\ Contents(p) \in [Indices(n) -> Unset]
<1>e. PICK e : e = SetValueType(o, "Struct")  OBVIOUS
<1>s. PICK s : s = [e EXCEPT !.m_values.header = d]  OBVIOUS
<1>1. Emptied(o, "Struct", e)
  <2>1. CASE o.m_valueType = "Struct"
    BY <1>e, <2>1 DEF SetValueType, Emptied, IsValueTypeSupported
  <2>2. CASE o.m_valueType # "Struct"
    BY <1>e, <2>2, SetValueTypeSound DEF IsValueTypeSupported
  <2> QED  BY <2>1, <2>2
<1>2. /\ Plain(e) /\ e.m_valueType = "Struct" /\ e.m_size = 0 /\ e.outcome = "ok"
      /\ HasHeader(e) /\ IsBlock(e.m_values, 0) /\ e.m_values # Null
  BY <1>1, PlainItems DEF Emptied, Plain
<1>3. SetStructuredDataInfo(e, d) = s
  BY <1>2, <1>s DEF SetStructuredDataInfo, Plain
<1>4. /\ Alike(e, s) /\ s.m_size = 0
      /\ s.m_values = Block(d, e.m_values.layout, e.m_values.items)
  <2>1. Alike(e, s) /\ s.m_size = 0 /\ s.m_values = [e.m_values EXCEPT !.header = d]
    BY <1>2, <1>s DEF Plain, Alike, HasFields, Fields
  <2> QED  BY <1>2, <2>1 DEF IsBlock, Block
<1>5. Plain(s) /\ LayoutOf(s) = d
  <2>1. /\ d \in StructInfo /\ e.m_values.layout \in StructInfo /\ 0 \in Sizes
        /\ e.m_values.items \in [Indices(0) -> Item]
    BY <1>2, SizeAssumption DEF StructInfo, IsBlock, IsItems, Sizes
  <2> QED  BY <1>2, <1>4, <2>1, RefilledSound
<1>6. Sound(s) /\ HasBytes(s) /\ s.outcome = "ok"
  <2>1. GetStructuredDataInfo(s) = d
    BY <1>2, <1>4, <1>5 DEF LayoutOf, Alike
  <2> QED  BY <1>2, <1>4, <1>5, <2>1, PlainIsSound, DescAssumption, NullAssumption
           DEF HasBytes, Alike
<1>7. p = ResizeTo(s, n)
  BY <1>2, <1>3, <1>e DEF AddStructArray, Failed
<1>8. /\ Keeps(s, p) /\ p.m_size = n /\ Contents(p) \in [Indices(n) -> Item]
      /\ \A i \in Indices(n) : i < 0 \/ Contents(p)[i] \in Unset
  BY <1>4, <1>6, <1>7, ResizeToSound
<1>9. Contents(p) \in [Indices(n) -> Unset]
  <2>1. \A i \in Indices(n) : ~(i < 0)
    BY DEF Indices
  <2> QED  BY <1>8, <2>1
<1> QED  BY <1>1, <1>2, <1>4, <1>5, <1>8, <1>9 DEF Keeps, Alike, Emptied

(***************************************************************************)
(* The calls that take another array.                                      *)
(***************************************************************************)
\* The first items of f, then those of g.
Joined(f, m, g, n) == [i \in Indices(m + n) |-> IF i < m THEN f[i] ELSE g[i - m]]

\* What a pair of o and p is after the items of p were written to the end of o.
Filled(o, p, pair) ==
  /\ Sound(pair.self) /\ Sound(pair.other) /\ Same(p, pair.other)
  /\ pair.self.this = o.this /\ pair.self.m_valueType = o.m_valueType
  /\ pair.self.outcome = o.outcome /\ pair.self.m_size = o.m_size
  /\ pair.self.m_state = "Uncompressed"

\* The loop of Merge writes the items of the other array behind those that were there.
LEMMA MergeItemsSound ==
  ASSUME NEW o, Plain(o), o.outcome = "ok", o.m_valueType # "Struct",
         NEW p, Sound(p), p.outcome = "ok", p.m_valueType = o.m_valueType,
         NEW k \in Nat, k + p.m_size = o.m_size,
         NEW pair, pair = MergeItems(o, p, k)
  PROVE  /\ Filled(o, p, pair)
         /\ Contents(pair.self) = Joined(Contents(o), k, Contents(p), p.m_size)
<1>u. PICK u, q : u = ReadValues(o) /\ q = ReadValues(p)  OBVIOUS
<1>1. Plain(u) /\ Same(o, u) /\ Plain(q) /\ Same(p, q)
  BY <1>u, ReadValuesSound, PlainIsSound
<1>2. /\ ~Failed(u) /\ ~Failed(q)
      /\ p.m_size \in Nat /\ o.m_size \in Nat /\ o.m_size = k + p.m_size
      /\ Sound(o) /\ Sound(u) /\ Sound(q)
      /\ Contents(o) \in [Indices(o.m_size) -> Item]
  BY <1>1, ContentsItems, PlainIsSound DEF Failed, Same
<1>3. /\ u.m_size = o.m_size /\ u.m_valueType = o.m_valueType /\ Contents(u) = Contents(o)
      /\ q.m_size = p.m_size /\ Contents(q) = Contents(p)
  BY <1>1 DEF Same, View
<1>4. CASE p.m_size = 0
  <2>1. pair = Pair(o, p) \/ pair = Pair(u, q)
    BY <1>2, <1>4, <1>u DEF MergeItems
  <2>2. Filled(o, p, pair) /\ Contents(pair.self) = Contents(o)
    BY <1>1, <1>2, <1>3, <2>1 DEF Pair, Filled, Same, Plain
  <2>3. Contents(o) = Joined(Contents(o), k, Contents(p), p.m_size)
    BY <1>2, <1>4 DEF Joined, Indices
  <2> QED  BY <2>2, <2>3
<1>5. CASE p.m_size # 0
  <2>1. /\ o.m_size > 0 /\ HasBytes(o) /\ HasValuePtr(u) /\ HasValuePtr(q)
        /\ u.m_values.items = Contents(o) /\ q.m_values.items = Contents(p)
        /\ IsBlock(u.m_values, u.m_size) /\ u.m_valueType # "Nil"
        /\ Contents(p) \in [Indices(p.m_size) -> Item]
    BY <1>1, <1>2, <1>3, <1>5, PlainItems, ContentsItems DEF Plain
  <2>g. PICK g : g = [i \in Indices(u.m_size) |->
                        IF i < k THEN u.m_values.items[i] ELSE q.m_values.items[i - k]]
    OBVIOUS
  <2>s. PICK s : s = [u EXCEPT !.m_values.items = g]  OBVIOUS
  <2>2. pair = Pair(s, q)
    BY <1>2, <1>5, <1>u, <2>1, <2>g, <2>s DEF MergeItems
  <2>3. g = Joined(Contents(o), k, Contents(p), p.m_size) /\ g \in [Indices(u.m_size) -> Item]
    <3>1. g = Joined(Contents(o), k, Contents(p), p.m_size)
      BY <1>2, <1>3, <2>1, <2>g DEF Joined
    <3>2. ASSUME NEW i \in Indices(u.m_size)
          PROVE  g[i] \in Item
      <4>1. CASE i < k
        BY <1>2, <1>3, <2>1, <2>g, <4>1 DEF Indices
      <4>2. CASE ~(i < k)
        <5>1. i - k \in Indices(p.m_size)
          BY <1>2, <1>3, <4>2 DEF Indices
        <5> QED  BY <2>1, <2>g, <4>2, <5>1
      <4> QED  BY <4>1, <4>2
    <3> QED  BY <2>g, <3>1, <3>2
  <2>h. PICK h, l : h = u.m_values.header /\ l = u.m_values.layout  OBVIOUS
  <2>4. /\ Alike(u, s) /\ s.m_size = u.m_size
        /\ s.m_values = Block(h, l, g) /\ h \in StructInfo /\ l \in StructInfo
    <3>1. Alike(u, s) /\ s.m_size = u.m_size /\ s.m_values = [u.m_values EXCEPT !.items = g]
      BY <1>1, <2>s DEF Plain, Alike, HasFields, Fields
    <3> QED  BY <2>1, <2>h, <3>1 DEF IsBlock, Block
  <2>5. Plain(s) /\ Contents(s) = g
    <3>1. u.m_size \in Sizes /\ u.m_size > 0 /\ u.m_valueType # "Struct"
      BY <1>1, <1>3, <2>1 DEF Plain
    <3> QED  BY <1>1, <2>1, <2>3, <2>4, <3>1, RefilledSound
  <2>6. Filled(o, p, pair)
    BY <1>1, <1>2, <2>2, <2>4, <2>5, PlainIsSound DEF Pair, Filled, Same, Alike, Plain
  <2> QED  BY <2>2, <2>3, <2>5, <2>6 DEF Pair
<1> QED  BY <1>4, <1>5

\* An array of some type, neither struct nor nil, has bytes for its items.
LEMMA NoStructHasBytes ==
  ASSUME NEW o, NEW p, Sound(p), p.m_size > 0, p.m_valueType # "Struct",
         o.m_valueType = p.m_valueType
  PROVE  HasBytes(o)
BY DEF Sound, Ruled, HasBytes

\* What a pair of o and p is after o was made a copy of p.
Copied(o, p, pair) ==
  /\ Sound(pair.self) /\ Sound(pair.other) /\ Same(p, pair.other)
  /\ pair.self.this = o.this /\ pair.self.outcome = "ok"
  /\ pair.self.m_valueType = p.m_valueType /\ pair.self.m_size = p.m_size
  /\ pair.self.m_state = "Uncompressed"
  /\ Contents(pair.self) = Contents(p)

\* Merge that starts from an empty array of the other's type.
LEMMA MergeFreshSound ==
  ASSUME NEW o, Plain(o), o.outcome = "ok", o.m_valueType # "Struct",
         NEW p, Sound(p), p.outcome = "ok", p.m_valueType # "Struct",
         IsLz4(o) => IsValueTypeSupported(p.m_valueType),
         NEW overwrite \in BOOLEAN, overwrite \/ o.m_valueType # p.m_valueType,
         NEW pair, pair = Merge(o, p, overwrite)
  PROVE  Copied(o, p, pair)
<1>e. PICK e : e = Clear(o)  OBVIOUS
<1>c. PICK c : c = SetValueType(e, p.m_valueType)  OBVIOUS
<1>1. Emptied(o, o.m_valueType, e)
  BY <1>e, ClearSound
<1>2. Emptied(o, p.m_valueType, c)
  <2>1. IsLz4(e) <=> IsLz4(o)
    BY <1>1 DEF IsLz4, Emptied
  <2>2. CASE p.m_valueType = o.m_valueType
    BY <1>1, <1>c, <2>1, <2>2 DEF SetValueType, Emptied
  <2>3. CASE p.m_valueType # o.m_valueType
    <3>1. Emptied(e, p.m_valueType, c)
      BY <1>1, <1>c, <2>1, <2>3, SetValueTypeSound DEF Emptied, Sound, IsObject
    <3> QED  BY <1>1, <3>1 DEF Emptied
  <2> QED  BY <2>2, <2>3
<1>g. PICK g : g = ResizeTo(c, p.m_size)  OBVIOUS
<1>3. /\ Plain(c) /\ Sound(c) /\ c.outcome = "ok" /\ c.m_size = 0
      /\ c.m_valueType = p.m_valueType /\ c.m_state = "Uncompressed"
      /\ p.m_size \in Sizes /\ p.m_size \in Nat
  BY <1>2, PlainIsSound, ContentsItems DEF Emptied, Plain, Sound, IsObject
<1>4. p.m_size = 0 \/ HasBytes(c)
  BY <1>3, NoStructHasBytes
<1>5. Keeps(c, g) /\ g.m_size = p.m_size
  BY <1>3, <1>4, <1>g, ResizeToSound
<1>6. /\ Plain(g) /\ g.outcome = "ok" /\ g.m_valueType = p.m_valueType
      /\ g.this = o.this
  BY <1>2, <1>3, <1>5, PlainIsSound DEF Keeps, Emptied
<1>7. pair = MergeItems(g, p, 0)
  <2>1. ~Failed(c) /\ ~Failed(g) /\ 0 + p.m_size = p.m_size
    BY <1>3, <1>6 DEF Failed
  <2> QED  BY <1>3, <1>c, <1>e, <1>g, <2>1 DEF Merge
<1>8. /\ Filled(g, p, pair)
      /\ Contents(pair.self) = Joined(Contents(g), 0, Contents(p), p.m_size)
  <2>1. 0 \in Nat /\ 0 + p.m_size = g.m_size
    BY <1>3, <1>5
  <2> QED  BY <1>5, <1>6, <1>7, <2>1, MergeItemsSound
<1>9. Joined(Contents(g), 0, Contents(p), p.m_size) = Contents(p)
  <2>1. \A i \in Indices(p.m_size) : ~(i < 0) /\ i - 0 = i
    BY <1>3 DEF Indices
  <2> QED  BY <1>3, <2>1, ContentsItems DEF Joined
<1> QED  BY <1>5, <1>6, <1>8, <1>9 DEF Filled, Copied

\* Merge that appends to the items already there.
LEMMA MergeAppendSound ==
  ASSUME NEW o, Plain(o), o.outcome = "ok", o.m_valueType # "Struct",
         NEW p, Sound(p), p.outcome = "ok", p.m_valueType = o.m_valueType,
         o.m_size + p.m_size \in Sizes,
         NEW overwrite \in BOOLEAN, ~overwrite,
         NEW pair, pair = Merge(o, p, overwrite)
  PROVE  /\ Sound(pair.self) /\ Sound(pair.other) /\ Same(p, pair.other)
         /\ pair.self.this = o.this /\ pair.self.outcome = "ok"
         /\ pair.self.m_valueType = o.m_valueType
         /\ pair.self.m_size = o.m_size + p.m_size
         /\ pair.self.m_state = "Uncompressed"
         /\ Contents(pair.self) = Joined(Contents(o), o.m_size, Contents(p), p.m_size)
<1>n. PICK m, k : m = o.m_size /\ k = o.m_size + p.m_size  OBVIOUS
<1>g. PICK g : g = ResizeTo(o, k)  OBVIOUS
<1>1. /\ Sound(o) /\ o.m_state = "Uncompressed"
      /\ m \in Nat /\ p.m_size \in Nat /\ k = m + p.m_size /\ k \in Sizes
      /\ m > 0 => HasBytes(o)
  BY <1>n, PlainIsSound, ContentsItems, PlainItems
<1>2. k = 0 \/ HasBytes(o)
  <2>1. CASE m > 0
    BY <1>1, <2>1
  <2>2. CASE p.m_size > 0
    BY <2>2, NoStructHasBytes
  <2> QED  BY <1>1, <2>1, <2>2
<1>3. /\ Keeps(o, g) /\ g.m_size = k
      /\ \A i \in Indices(k) : i < m => Contents(g)[i] = Contents(o)[i]
  BY <1>1, <1>2, <1>g, <1>n, ResizeToSound
<1>4. /\ Plain(g) /\ g.outcome = "ok" /\ g.m_valueType = o.m_valueType
      /\ g.this = o.this
  BY <1>1, <1>3, PlainIsSound DEF Keeps
<1>5. pair = MergeItems(g, p, m)
  <2>1. ~Failed(o) /\ ~Failed(g)
    BY <1>4 DEF Failed
  <2> QED  BY <1>g, <1>n, <2>1 DEF Merge
<1>6. /\ Filled(g, p, pair)
      /\ Contents(pair.self) = Joined(Contents(g), m, Contents(p), p.m_size)
  BY <1>1, <1>3, <1>4, <1>5, MergeItemsSound
<1>7. Joined(Contents(g), m, Contents(p), p.m_size) =
        Joined(Contents(o), m, Contents(p), p.m_size)
  BY <1>1, <1>3 DEF Joined
<1> QED  BY <1>3, <1>4, <1>6, <1>7, <1>n DEF Filled

\* Taking over the blob of another array, which a fresh one then ignores.
LEMMA BlobTaken ==
  ASSUME NEW o, Plain(o), NEW b, IsBlob(b), NEW e, e = [o EXCEPT !.m_compressedBlob = b]
  PROVE  /\ Plain(e) /\ e.this = o.this /\ e.m_valueType = o.m_valueType
         /\ e.outcome = o.outcome /\ e.m_size = o.m_size /\ e.m_values = o.m_values
         /\ e.fromProperty = o.fromProperty
<1>1. /\ HasFields(e) /\ e.m_compressedBlob = b
      /\ e.this = o.this /\ e.m_valueType = o.m_valueType /\ e.outcome = o.outcome
      /\ e.m_size = o.m_size /\ e.m_values = o.m_values /\ e.fromProperty = o.fromProperty
      /\ e.m_structuredDataInfo = o.m_structuredDataInfo /\ e.m_state = o.m_state
  BY DEF Plain, HasFields, Fields
<1> QED  BY <1>1 DEF Plain

\* A sound array may be given another property's address.
LEMMA Rehomed ==
  ASSUME NEW o, Plain(o), NEW a \in Arrays, NEW e, e = [o EXCEPT !.fromProperty = a]
  PROVE  /\ Plain(e) /\ e.this = o.this /\ e.m_valueType = o.m_valueType
         /\ e.outcome = o.outcome /\ e.m_size = o.m_size /\ Contents(e) = Contents(o)
<1>1. /\ HasFields(e) /\ e.m_compressedBlob = o.m_compressedBlob
      /\ e.this = o.this /\ e.m_valueType = o.m_valueType /\ e.outcome = o.outcome
      /\ e.m_size = o.m_size /\ e.m_values = o.m_values /\ e.fromProperty = a
      /\ e.m_structuredDataInfo = o.m_structuredDataInfo /\ e.m_state = o.m_state
  BY DEF Plain, HasFields, Fields
<1> QED  BY <1>1 DEF Plain, Contents

\* Assignment makes o a copy of p, uncompressed.
LEMMA CopyAssignSound ==
  ASSUME NEW o, Plain(o), o.outcome = "ok", o.m_valueType # "Struct",
         NEW p, Sound(p), p.outcome = "ok", p.m_valueType # "Struct",
         IsLz4(o) => IsValueTypeSupported(p.m_valueType),
         NEW pair, pair = CopyAssign(o, p)
  PROVE  Copied(o, p, pair)
<1>e. PICK e : e = IF IsLz4(o) /\ IsLz4(p)
                     THEN [o EXCEPT !.m_compressedBlob = p.m_compressedBlob] ELSE o
  OBVIOUS
<1>1. /\ Plain(e) /\ e.this = o.this /\ e.outcome = "ok" /\ e.m_valueType # "Struct"
      /\ IsLz4(e) => IsValueTypeSupported(p.m_valueType)
  <2>1. IsBlob(p.m_compressedBlob)
    BY DEF Sound, IsObject
  <2>2. CASE IsLz4(o) /\ IsLz4(p)
    BY <1>e, <2>1, <2>2, BlobTaken DEF IsLz4
  <2>3. CASE ~(IsLz4(o) /\ IsLz4(p))
    BY <1>e, <2>3
  <2> QED  BY <2>2, <2>3
<1>2. pair = ArrayCopyAssign(e, p)
  BY <1>e DEF CopyAssign
<1>d. PICK d, c : d = Clear(e) /\ c = SetValueType(d, p.m_valueType)  OBVIOUS
<1>m. PICK m : m = Merge(c, p, TRUE)  OBVIOUS
<1>3. Emptied(e, e.m_valueType, d)
  BY <1>1, <1>d, ClearSound
<1>4. Emptied(e, p.m_valueType, c)
  <2>1. IsLz4(d) <=> IsLz4(e)
    BY <1>3 DEF IsLz4, Emptied
  <2>2. CASE p.m_valueType = e.m_valueType
    BY <1>1, <1>3, <1>d, <2>1, <2>2 DEF SetValueType, Emptied
  <2>3. CASE p.m_valueType # e.m_valueType
    <3>1. Emptied(d, p.m_valueType, c)
      BY <1>1, <1>3, <1>d, <2>1, <2>3, SetValueTypeSound DEF Emptied, Sound, IsObject
    <3> QED  BY <1>3, <3>1 DEF Emptied
  <2> QED  BY <2>2, <2>3
<1>5. /\ Plain(c) /\ c.outcome = "ok" /\ c.m_valueType # "Struct" /\ c.this = o.this
      /\ IsLz4(c) => IsValueTypeSupported(p.m_valueType)
  BY <1>1, <1>4 DEF Emptied, IsLz4
<1>6. Copied(c, p, m)
  <2>1. ASSUME NEW overwrite \in BOOLEAN, overwrite
        PROVE  Copied(c, p, Merge(c, p, overwrite))
    BY <1>5, <2>1, MergeFreshSound
  <2> QED  BY <1>m, <2>1, Zenon
<1>s. PICK s : s = [m.self EXCEPT !.fromProperty = p.fromProperty]  OBVIOUS
<1>7. pair = Pair(s, m.other)
  BY <1>2, <1>5, <1>6, <1>d, <1>m, <1>s DEF ArrayCopyAssign, Failed, Copied
<1>8. /\ Plain(s) /\ s.this = o.this /\ s.m_valueType = p.m_valueType
      /\ s.outcome = "ok" /\ s.m_size = p.m_size /\ Contents(s) = Contents(p)
  <2>1. Plain(m.self) /\ p.fromProperty \in Arrays
    BY <1>6, PlainIsSound DEF Copied, Sound, IsObject
  <2> QED  BY <1>5, <1>6, <1>s, <2>1, Rehomed DEF Copied
<1> QED  BY <1>6, <1>7, <1>8, PlainIsSound DEF Pair, Copied

\* A move hands the block over and leaves the other array empty, of no type.
LEMMA MoveAssignSound ==
  ASSUME NEW o, Plain(o), o.outcome = "ok", NEW p, Plain(p), p.outcome = "ok",
         NEW pair, pair = MoveAssign(o, p)
  PROVE  /\ Sound(pair.self) /\ Sound(pair.other)
         /\ pair.self.this = o.this /\ pair.self.outcome = "ok"
         /\ pair.self.m_valueType = p.m_valueType /\ pair.self.m_size = p.m_size
         /\ Contents(pair.self) = Contents(p) /\ LayoutOf(pair.self) = LayoutOf(p)
         /\ Emptied(p, "Nil", pair.other)
<1>1. ASSUME NEW e, Plain(e), e.outcome = "ok", e.this = o.this,
             NEW q, Plain(q), q.m_valueType = p.m_valueType, q.m_size = p.m_size,
             q.m_values = p.m_values, q.fromProperty = p.fromProperty, q.this = p.this,
             q.outcome = "ok", NEW x, x = ArrayMoveAssign(e, q)
      PROVE  /\ Plain(x.self) /\ Plain(x.other)
             /\ x.self.this = o.this /\ x.self.outcome = "ok"
             /\ x.self.m_valueType = p.m_valueType /\ x.self.m_size = p.m_size
             /\ x.self.m_values = p.m_values
             /\ Emptied(p, "Nil", x.other)
  <2>c. PICK c : c = Clear(e)  OBVIOUS
  <2>s. PICK s : s = [c EXCEPT !.m_valueType = q.m_valueType, !.m_size = q.m_size,
                               !.m_values = q.m_values, !.fromProperty = q.fromProperty]
    OBVIOUS
  <2>t. PICK t : t = [q EXCEPT !.m_values = Null, !.m_size = 0, !.m_valueType = "Nil"]
    OBVIOUS
  <2>1. Alike(e, c)
    BY <1>1, <2>c, ClearAlike DEF Plain
  <2>2. /\ HasFields(s) /\ s.this = e.this /\ s.m_structuredDataInfo = Null
        /\ s.m_state = "Uncompressed" /\ s.m_compressedBlob = e.m_compressedBlob
        /\ s.outcome = "ok" /\ s.m_valueType = q.m_valueType /\ s.m_size = q.m_size
        /\ s.m_values = q.m_values /\ s.fromProperty = q.fromProperty
    BY <1>1, <2>1, <2>s DEF Plain, Alike, HasFields, Fields
  <2>3. /\ HasFields(t) /\ t.this = q.this /\ t.m_structuredDataInfo = Null
        /\ t.m_state = "Uncompressed" /\ t.m_compressedBlob = q.m_compressedBlob
        /\ t.outcome = "ok" /\ t.m_valueType = "Nil" /\ t.m_size = 0
        /\ t.m_values = Null /\ t.fromProperty = q.fromProperty
    BY <1>1, <2>t DEF Plain, HasFields, Fields
  <2>4. Plain(s)
    BY <1>1, <2>2 DEF Plain
  <2>5. Plain(t)
    BY <1>1, <2>3, SizeAssumption DEF Plain, Sizes
  <2>6. x = Pair(s, t)
    BY <1>1, <2>c, <2>s, <2>t DEF ArrayMoveAssign
  <2> QED  BY <1>1, <2>2, <2>3, <2>4, <2>5, <2>6 DEF Pair, Emptied
<1>e. PICK e, q : /\ e = [o EXCEPT !.m_compressedBlob = p.m_compressedBlob]
                  /\ q = [p EXCEPT !.m_compressedBlob = EmptyBlob]
  OBVIOUS
<1>2. /\ Plain(e) /\ e.outcome = "ok" /\ e.this = o.this
      /\ Plain(q) /\ q.m_valueType = p.m_valueType /\ q.m_size = p.m_size
      /\ q.m_values = p.m_values /\ q.fromProperty = p.fromProperty /\ q.this = p.this
      /\ q.outcome = "ok"
  <2>1. IsBlob(p.m_compressedBlob)
    BY DEF Plain
  <2> QED  BY <1>e, <2>1, BlobTaken, EmptyBlobIsBlob
<1>3. /\ Plain(pair.self) /\ Plain(pair.other)
      /\ pair.self.this = o.this /\ pair.self.outcome = "ok"
      /\ pair.self.m_valueType = p.m_valueType /\ pair.self.m_size = p.m_size
      /\ pair.self.m_values = p.m_values
      /\ Emptied(p, "Nil", pair.other)
  <2>1. CASE IsLz4(o) /\ IsLz4(p)
    <3>1. pair = ArrayMoveAssign(e, q)
      BY <1>e, <2>1 DEF MoveAssign
    <3> QED  BY <1>1, <1>2, <3>1
  <2>2. CASE ~(IsLz4(o) /\ IsLz4(p))
    BY <1>1, <2>2 DEF MoveAssign
  <2> QED  BY <2>1, <2>2
<1> QED  BY <1>3, PlainIsSound, PlainItems DEF LayoutOf

(***************************************************************************)
(* Saving and loading.                                                     *)
(***************************************************************************)

\* A new object is sound and empty.
LEMMA NewObjectSound ==
  ASSUME NEW a \in Arrays, NEW o, o = NewObject(a)
  PROVE  /\ Plain(o) /\ o.this = a /\ o.outcome = "ok" /\ o.m_size = 0
         /\ o.m_valueType = "Nil" /\ o.fromProperty = a
<1>1. /\ HasFields(o) /\ o.this = a /\ o.m_values = Null /\ o.m_size = 0
      /\ o.m_valueType = "Nil" /\ o.fromProperty = a /\ o.m_structuredDataInfo = Null
      /\ o.m_state = "Uncompressed" /\ o.m_compressedBlob = EmptyBlob /\ o.outcome = "ok"
  BY DEF NewObject, HasFields, Fields
<1> QED  BY <1>1, EmptyBlobIsBlob, SizeAssumption DEF Plain, Sizes

\* p, read from a file, is what o was, and belongs to its property again.
Restored(o, p) ==
  /\ Sound(p)
  /\ p.this = o.this /\ p.outcome = "ok" /\ p.fromProperty = o.this
  /\ p.m_valueType = o.m_valueType /\ p.m_size = o.m_size
  /\ View(p) = View(o)

\* Reading what Write wrote of an uncompressed array restores its items.
LEMMA ReadArraySound ==
  ASSUME NEW w, Plain(w), w.outcome = "ok", w.m_valueType # "Struct",
         IsLz4(w) => IsValueTypeSupported(w.m_valueType), NEW p, p = ReadArray(w)
  PROVE  Restored(w, p)
<1>n. PICK n, t : n = NewObject(w.this) /\ t = SetValueType(n, w.m_valueType)  OBVIOUS
<1>1. Plain(n) /\ n.this = w.this /\ n.outcome = "ok" /\ n.m_size = 0
      /\ n.m_valueType = "Nil" /\ n.fromProperty = w.this
  BY <1>n, NewObjectSound DEF Plain
<1>2. Emptied(n, w.m_valueType, t)
  <2>1. CASE w.m_valueType = "Nil"
    BY <1>1, <1>n, <2>1 DEF SetValueType, Emptied, IsLz4
  <2>2. CASE w.m_valueType # "Nil"
    BY <1>1, <1>n, <2>2, SetValueTypeSound DEF IsLz4, Plain
  <2> QED  BY <2>1, <2>2
<1>r. PICK r : r = ResizeTo(t, w.m_size)  OBVIOUS
<1>3. /\ Sound(t) /\ t.outcome = "ok" /\ t.m_valueType = w.m_valueType
      /\ t.m_state = "Uncompressed" /\ w.m_size \in Sizes
  BY <1>1, <1>2, PlainIsSound DEF Emptied, Plain
<1>4. w.m_size = 0 \/ HasBytes(t)
  BY <1>3, PlainIsSound, PlainItems, NoStructHasBytes
<1>5. Keeps(t, r) /\ r.m_size = w.m_size
  BY <1>3, <1>4, <1>r, ResizeToSound
<1>6. /\ Plain(r) /\ r.outcome = "ok" /\ r.m_valueType = w.m_valueType
      /\ r.this = w.this /\ r.fromProperty = w.this
  BY <1>1, <1>2, <1>3, <1>5, PlainIsSound DEF Keeps, Emptied
<1>7. CASE w.m_size = 0
  <2>1. p = r
    BY <1>5, <1>6, <1>7, <1>n, <1>r DEF ReadArray, HasValuePtr
  <2>2. View(r) = View(w)
    BY <1>5, <1>6, <1>7 DEF View, Contents
  <2> QED  BY <1>5, <1>6, <2>1, <2>2, PlainIsSound DEF Restored
<1>8. CASE w.m_size # 0
  <2>1. /\ w.m_size > 0 /\ HasValuePtr(r) /\ HasBytes(r) /\ Readable(r)
        /\ IsBlock(r.m_values, r.m_size) /\ w.m_values.items = Contents(w)
        /\ Contents(w) \in [Indices(r.m_size) -> Item] /\ r.m_valueType # "Nil"
    BY <1>5, <1>6, <1>8, PlainItems, PlainIsSound, ContentsItems DEF Plain
  <2>g. PICK g, h, l : g = Contents(w) /\ h = r.m_values.header /\ l = r.m_values.layout
    OBVIOUS
  <2>2. p = [r EXCEPT !.m_values.items = g]
    BY <1>6, <1>n, <1>r, <2>1, <2>g DEF ReadArray
  <2>3. /\ Alike(r, p) /\ p.m_size = r.m_size
        /\ p.m_values = Block(h, l, g) /\ h \in StructInfo /\ l \in StructInfo
    <3>1. Alike(r, p) /\ p.m_size = r.m_size /\ p.m_values = [r.m_values EXCEPT !.items = g]
      BY <1>6, <2>2 DEF Plain, Alike, HasFields, Fields
    <3> QED  BY <2>1, <2>g, <3>1 DEF IsBlock, Block
  <2>4. Plain(p) /\ Contents(p) = g
    <3>1. r.m_size \in Sizes /\ r.m_size > 0
      BY <1>3, <1>5, <2>1
    <3> QED  BY <1>6, <2>1, <2>3, <2>g, <3>1, RefilledSound
  <2>5. View(p) = View(w)
    BY <1>5, <1>6, <2>3, <2>4, <2>g DEF View, Alike
  <2> QED  BY <1>5, <1>6, <2>3, <2>4, <2>5, PlainIsSound DEF Restored, Alike
<1> QED  BY <1>7, <1>8

\* Reading what Write wrote of a compressed array restores its items.
LEMMA ReadArrayLz4Sound ==
  ASSUME NEW w, Sound(w), w.outcome = "ok", IsLz4(w), w.m_state = "Compressed",
         NEW p, p = ReadArrayLz4(w)
  PROVE  Restored(w, p)
<1>n. PICK n, t, c, d :
        /\ n = NewObject(w.this)
        /\ t = [n EXCEPT !.m_valueType = w.m_valueType, !.m_size = w.m_size]
        /\ c = [t EXCEPT !.m_state = "Compressed"]
        /\ d = IF w.m_valueType = "Struct" THEN GetStructuredDataInfo(w) ELSE Null
  OBVIOUS
<1>1. /\ HasFields(t) /\ t.this = w.this /\ t.m_values = Null /\ t.m_size = w.m_size
      /\ t.m_valueType = w.m_valueType /\ t.fromProperty = w.this
      /\ t.m_structuredDataInfo = Null /\ t.m_state = "Uncompressed"
      /\ t.m_compressedBlob = EmptyBlob /\ t.outcome = "ok"
  BY <1>n DEF NewObject, HasFields, Fields
<1>2. Compress(t) = c
  BY <1>1, <1>n DEF Compress, HasValuePtr, CompressNothing, HasHeader
<1>3. p = [c EXCEPT !.m_compressedBlob = w.m_compressedBlob, !.m_structuredDataInfo = d]
  BY <1>2, <1>n DEF ReadArrayLz4
<1>4. /\ HasFields(p) /\ p.this = w.this /\ p.m_values = Null /\ p.m_size = w.m_size
      /\ p.m_valueType = w.m_valueType /\ p.fromProperty = w.this
      /\ p.m_structuredDataInfo = d /\ p.m_state = "Compressed"
      /\ p.m_compressedBlob = w.m_compressedBlob /\ p.outcome = "ok"
  <2>1. /\ HasFields(c) /\ c.this = w.this /\ c.m_values = Null /\ c.m_size = w.m_size
        /\ c.m_valueType = w.m_valueType /\ c.fromProperty = w.this
        /\ c.m_state = "Compressed" /\ c.outcome = "ok"
    BY <1>1, <1>n DEF HasFields, Fields
  <2> QED  BY <1>3, <2>1 DEF HasFields, Fields
<1>5. /\ w.m_size \in Nat /\ w.this \in Arrays
      /\ w.m_valueType = "Struct" => w.m_size > 0 /\ d # Null /\ d \in StructInfo
      /\ w.m_valueType # "Struct" => d = Null
  BY <1>n, ContentsItems
  DEF Sound, Ruled, Described, is_trivial_type, IsObject, GetStructuredDataInfo, HasHeader,
      OnePlace
<1>6. /\ GetStructuredDataInfo(p) = d
      /\ w.m_valueType = "Struct" => GetStructuredDataInfo(w) = d
  BY <1>4, <1>n DEF GetStructuredDataInfo, HasHeader
<1>7. IsObject(p)
  BY <1>4, <1>5 DEF Sound, IsObject
<1>8. OnePlace(p)
  BY <1>4, <1>5 DEF Sound, OnePlace
<1>9. Described(p)
  BY <1>4, <1>5, <1>6 DEF Sound, Described, LayoutOf
<1>10. Ruled(p)
  BY <1>4, <1>6 DEF Sound, Ruled, HasBytes, IsLz4
<1>11. View(p) = View(w)
  BY <1>4, <1>6 DEF View, Contents
<1> QED  BY <1>4, <1>7, <1>8, <1>9, <1>10, <1>11 DEF Sound, Restored

\* Saving an array and loading it restores its items.
LEMMA SaveAndLoadSound ==
  ASSUME NEW o, Sound(o), o.outcome = "ok",
         o.m_size > 0 \/ is_trivial_type(o.m_valueType) \/ ~IsLz4(o),
         ~IsLz4(o) => o.m_valueType # "Struct",
         NEW p, p = SaveAndLoad(o)
  PROVE  Restored(o, p)
<1>w. PICK w : w = IF IsLz4(o) THEN Compress(o) ELSE ReadValues(o)  OBVIOUS
<1>1. /\ Sound(w) /\ Same(o, w) /\ ~Failed(w) /\ (IsLz4(w) <=> IsLz4(o))
      /\ IsLz4(o) => w.m_state = "Compressed"
      /\ ~IsLz4(o) => Plain(w)
  <2>1. CASE IsLz4(o)
    BY <1>w, <2>1, CompressSound DEF Same, Failed, IsLz4
  <2>2. CASE ~IsLz4(o)
    BY <1>w, <2>2, ReadValuesSound, PlainIsSound DEF Same, Failed, IsLz4
  <2> QED  BY <2>1, <2>2
<1>2. Write(o) = w
  <2>1. w.m_valueType = "Struct" => GetStructuredDataInfo(w) \notin {Null, EmptyDesc}
    BY <1>1, ContentsItems DEF Sound, Ruled, HasBytes, Same, is_trivial_type
  <2> QED  BY <1>1, <1>w, <2>1 DEF Write
<1>3. Restored(w, p)
  <2>1. CASE IsLz4(o)
    BY <1>1, <1>2, <2>1, ReadArrayLz4Sound DEF SaveAndLoad, Same
  <2>2. CASE ~IsLz4(o)
    BY <1>1, <1>2, <2>2, ReadArraySound DEF SaveAndLoad, Same
  <2> QED  BY <2>1, <2>2
<1> QED  BY <1>1, <1>3 DEF Restored, Same

(***************************************************************************)
(* The program.  With every rule observed, each call leaves sound arrays   *)
(* and is a step of the sequences the arrays stand for, or changes none.   *)
(***************************************************************************)
Step == Consistent' /\ (Promise!Next \/ UNCHANGED Seqs)

\* The object a call starts from is the one the last call left.
LEMMA ObjectSound ==
  ASSUME Consistent, NEW a \in Arrays, NEW o, o = Object(a)
  PROVE  /\ Sound(o) /\ o.outcome = "ok" /\ o.this = a
         /\ o.m_size = arr[a].m_size /\ o.m_valueType = arr[a].m_valueType
         /\ o.m_state = arr[a].m_state /\ o.fromProperty = arr[a].fromProperty
         /\ (IsLz4(o) <=> IsLz4(arr[a])) /\ (HasBytes(o) <=> HasBytes(arr[a]))
         /\ View(o) = View(arr[a])
<1>x. PICK x : x = arr[a]  OBVIOUS
<1>1. Sound(x) /\ x.this = a /\ o = [x EXCEPT !.outcome = "ok"]
  BY <1>x DEF Consistent, TypeOK, Object
<1>2. /\ HasFields(o) /\ o.this = x.this /\ o.m_values = x.m_values /\ o.m_size = x.m_size
      /\ o.m_valueType = x.m_valueType /\ o.fromProperty = x.fromProperty
      /\ o.m_structuredDataInfo = x.m_structuredDataInfo /\ o.m_state = x.m_state
      /\ o.m_compressedBlob = x.m_compressedBlob /\ o.outcome = "ok"
  BY <1>1 DEF Sound, IsObject, HasFields, Fields
<1>3. GetStructuredDataInfo(o) = GetStructuredDataInfo(x)
  BY <1>2 DEF GetStructuredDataInfo, HasHeader
<1>4. (HasBytes(o) <=> HasBytes(x)) /\ LayoutOf(o) = LayoutOf(x)
  BY <1>2, <1>3 DEF HasBytes, LayoutOf
<1>5. IsObject(o)
  BY <1>1, <1>2 DEF Sound, IsObject, Outcomes
<1>6. OnePlace(o)
  BY <1>1, <1>2 DEF Sound, OnePlace
<1>7. Described(o)
  BY <1>1, <1>2, <1>3, <1>4 DEF Sound, Described
<1>8. Ruled(o)
  BY <1>1, <1>2, <1>4 DEF Sound, Ruled, IsLz4
<1>9. View(o) = View(x)
  BY <1>2, <1>3 DEF View, Contents
<1> QED  BY <1>1, <1>2, <1>4, <1>5, <1>6, <1>7, <1>8, <1>9, <1>x DEF Sound, IsLz4

\* A call that leaves a sound object behind.
LEMMA LeaveSound ==
  ASSUME Consistent, NEW a \in Arrays, NEW p, Sound(p), p.this = a, Leave(a, p)
  PROVE  Consistent' /\ Seqs' = [Seqs EXCEPT ![a] = View(p)]
<1>1. /\ arr' = [x \in Arrays |-> arr'[x]]
      /\ arr'[a] = p
      /\ \A x \in Arrays : x # a => arr'[x] = arr[x]
  BY DEF Consistent, TypeOK, Leave
<1>2. \A x \in Arrays : Sound(arr'[x]) /\ arr'[x].this = x
  BY <1>1 DEF Consistent, TypeOK
<1>3. Consistent'
  BY <1>1, <1>2 DEF Consistent, TypeOK, Sound
<1>4. Seqs' = [Seqs EXCEPT ![a] = View(p)]
  BY <1>1 DEF Seqs
<1> QED  BY <1>3, <1>4

\* The same of a call on two arrays.
LEMMA LeaveBothSound ==
  ASSUME Consistent, NEW a \in Arrays, NEW b \in Arrays, a # b,
         NEW pair, Sound(pair.self), pair.self.this = a,
         Sound(pair.other), pair.other.this = b, LeaveBoth(a, b, pair)
  PROVE  /\ Consistent'
         /\ Seqs' = [Seqs EXCEPT ![a] = View(pair.self), ![b] = View(pair.other)]
<1>1. /\ arr' = [x \in Arrays |-> arr'[x]]
      /\ arr'[a] = pair.self /\ arr'[b] = pair.other
      /\ \A x \in Arrays : x # a /\ x # b => arr'[x] = arr[x]
  BY DEF Consistent, TypeOK, LeaveBoth
<1>2. \A x \in Arrays : Sound(arr'[x]) /\ arr'[x].this = x
  BY <1>1 DEF Consistent, TypeOK
<1>3. Consistent'
  BY <1>1, <1>2 DEF Consistent, TypeOK, Sound
<1>4. Seqs' = [Seqs EXCEPT ![a] = View(pair.self), ![b] = View(pair.other)]
  BY <1>1 DEF Seqs
<1> QED  BY <1>3, <1>4

\* A call that changes nothing the caller sees.
LEMMA UnseenStep ==
  ASSUME Consistent, NEW a \in Arrays, NEW p, Sound(p), p.this = a, Leave(a, p),
         View(p) = View(arr[a])
  PROVE  Step
<1>1. Consistent' /\ Seqs' = [Seqs EXCEPT ![a] = View(p)]
  BY LeaveSound
<1>2. Seqs' = Seqs
  BY <1>1 DEF Seqs
<1> QED  BY <1>1, <1>2 DEF Step

\* Two arrays of the same type and description differ in their items only.
LEMMA ViewWithItems ==
  ASSUME NEW o, NEW p, p.m_valueType = o.m_valueType, LayoutOf(p) = LayoutOf(o)
  PROVE  View(p) = Promise!WithItems(View(o), p.m_size, Contents(p))
<1> DEFINE Parts == {"type", "desc", "size", "items"}
<1>v. PICK v, w : v = View(o) /\ w = View(p)  OBVIOUS
<1>1. /\ v = [k \in Parts |-> v[k]] /\ w = [k \in Parts |-> w[k]]
      /\ w.type = v.type /\ w.desc = v.desc
      /\ w.size = p.m_size /\ w.items = Contents(p)
  BY <1>v DEF View, LayoutOf
<1>e. PICK e : e = [v EXCEPT !.size = p.m_size, !.items = Contents(p)]  OBVIOUS
<1>2. /\ e = [k \in Parts |-> e[k]]
      /\ e.type = v.type /\ e.desc = v.desc /\ e.size = p.m_size /\ e.items = Contents(p)
  BY <1>1, <1>e
<1>3. e = w
  BY <1>1, <1>2
<1> QED  BY <1>3, <1>e, <1>v DEF Promise!WithItems

\* A call of one array that keeps all but the items.
LEMMA ItemsStep ==
  ASSUME Consistent, NEW a \in Arrays, NEW o, o = Object(a),
         NEW p, Keeps(o, p), Leave(a, p)
  PROVE  /\ Consistent'
         /\ Promise!Change(a, Promise!WithItems(Seqs[a], p.m_size, Contents(p)))
<1>1. Sound(o) /\ o.this = a /\ Seqs[a] = View(o)
  BY ObjectSound DEF Seqs
<1>2. Consistent' /\ Seqs' = [Seqs EXCEPT ![a] = View(p)]
  BY <1>1, LeaveSound DEF Keeps
<1> QED  BY <1>1, <1>2, ViewWithItems DEF Keeps, Promise!Change

\* The sequence of an array.
LEMMA ObjectSeq ==
  ASSUME Consistent, NEW a \in Arrays, NEW o, o = Object(a)
  PROVE  /\ Seqs[a] = View(o) /\ Seqs[a].type = o.m_valueType
         /\ Seqs[a].size = o.m_size /\ Seqs[a].items = Contents(o)
BY ObjectSound DEF Seqs, View

\* Each call keeps the invariant and is the sequence operation it names, here Resize.
LEMMA ResizeStep ==
  ASSUME Consistent, ClientRules = AllRules, NEW a \in Arrays, NEW n \in Sizes,
         CallResize(a, n)
  PROVE  Step
<1>o. PICK o, p : o = Object(a) /\ p = ResizeTo(o, n)  OBVIOUS
<1>1. Sound(o) /\ o.outcome = "ok" /\ HasBytes(o)
  BY <1>o, ObjectSound DEF CallResize, Shaped, Rule, AllRules
<1>2. /\ Keeps(o, p) /\ p.m_size = n
      /\ Contents(p) \in [Indices(n) -> Item]
      /\ \A i \in Indices(n) :
           IF i < o.m_size THEN Contents(p)[i] = Contents(o)[i]
           ELSE Contents(p)[i] \in Unset /\ (o.m_size > 0 => Contents(p)[i] = Default)
  BY <1>1, <1>o, ResizeToSound
<1>3. Consistent' /\ Promise!Change(a, Promise!WithItems(Seqs[a], n, Contents(p)))
  BY <1>2, <1>o, ItemsStep DEF CallResize
<1>4. Seqs[a].size = o.m_size /\ Seqs[a].items = Contents(o)
  BY <1>o, ObjectSeq
<1>f. PICK f : f = [i \in 0..(n - 1) |-> IF i < o.m_size THEN Default ELSE Contents(p)[i]]
  OBVIOUS
<1>5. f \in [0..(n - 1) -> Promise!Grown(Seqs[a])]
  <2>1. ASSUME NEW i \in 0..(n - 1)  PROVE f[i] \in Promise!Grown(Seqs[a])
    BY <1>1, <1>2, <1>4, <1>f, ContentsItems DEF Promise!Grown, Promise!Unset, Unset, Indices
  <2> QED  BY <1>f, <2>1
<1>6. Contents(p) = [i \in 0..(n - 1) |-> IF i < Seqs[a].size THEN Seqs[a].items[i] ELSE f[i]]
  BY <1>2, <1>4, <1>f DEF Indices
<1>7. Promise!Resize(a, n)
  BY <1>3, <1>5, <1>6 DEF Promise!Resize
<1> QED  BY <1>3, <1>7 DEF Step, Promise!Next, Promise!Sizes, Sizes

\* InsertValue keeps the invariant and is an insertion into the sequence.
LEMMA InsertValueStep ==
  ASSUME Consistent, ClientRules = AllRules, NEW a \in Arrays, NEW idx \in Sizes,
         NEW v \in Values \cup {Unconvertible}, CallInsertValue(a, idx, v)
  PROVE  Step
<1>o. PICK o, p : o = Object(a) /\ p = InsertValue(o, idx, v)  OBVIOUS
<1>1. /\ Sound(o) /\ o.outcome = "ok" /\ o.this = a /\ View(o) = View(arr[a])
      /\ HasBytes(o) /\ o.fromProperty = o.this /\ v \in Values /\ o.m_size < MaxSize
  BY <1>o, ObjectSound DEF CallInsertValue, Shaped, Value, Rule, AllRules
<1>2. Leave(a, p)
  BY <1>o DEF CallInsertValue
<1>3. o.m_size \in Nat /\ o.m_size + 1 \in Sizes /\ idx \in Nat
  BY <1>1, ContentsItems, SizeAssumption DEF Sizes
<1>4. Seqs[a].size = o.m_size /\ Seqs[a].items = Contents(o)
  BY <1>o, ObjectSeq
<1>5. CASE idx > o.m_size
  BY <1>1, <1>2, <1>5, <1>o, UnseenStep DEF InsertValue
<1>6. CASE idx <= o.m_size
  <2>1. /\ Keeps(o, p) /\ p.m_size = o.m_size + 1
        /\ Contents(p) \in [Indices(o.m_size + 1) -> Item]
        /\ \A i \in Indices(o.m_size + 1) :
             /\ i < idx => Contents(p)[i] = Contents(o)[i]
             /\ i = idx => Contents(p)[i] = v
             /\ i > idx => Contents(p)[i] = Contents(o)[i - 1]
    BY <1>1, <1>3, <1>6, <1>o, InsertValueSound
  <2>2. Consistent' /\ Promise!Change(a, Promise!WithItems(Seqs[a], p.m_size, Contents(p)))
    BY <1>2, <1>o, <2>1, ItemsStep
  <2>3. Indices(o.m_size + 1) = 0..o.m_size
    BY <1>3 DEF Indices
  <2>4. Contents(p) = [i \in 0..o.m_size |-> IF i < idx THEN Contents(o)[i]
                                            ELSE IF i = idx THEN v
                                            ELSE Contents(o)[i - 1]]
    <3>1. \A i \in 0..o.m_size : i < idx \/ i = idx \/ i > idx
      BY <1>3
    <3> QED  BY <2>1, <2>3, <3>1
  <2>5. Promise!InsertValue(a, idx, v)
    BY <1>4, <1>6, <2>1, <2>2, <2>4 DEF Promise!InsertValue
  <2> QED  BY <1>1, <2>2, <2>5 DEF Step, Promise!Next, Promise!Sizes, Sizes
<1> QED  BY <1>3, <1>5, <1>6

\* SetValue keeps the invariant and changes one item of the sequence.
LEMMA SetValueStep ==
  ASSUME Consistent, ClientRules = AllRules, NEW a \in Arrays, NEW idx \in Sizes,
         NEW v \in Values \cup {Unconvertible}, CallSetValue(a, idx, v)
  PROVE  Step
<1>o. PICK o, p : o = Object(a) /\ p = SetValue(o, idx, v)  OBVIOUS
<1>1. /\ Sound(o) /\ o.outcome = "ok" /\ v \in Values /\ idx < o.m_size /\ idx \in Nat
  BY <1>o, ObjectSound, SizeAssumption
  DEF CallSetValue, Shaped, Value, Index, Rule, AllRules, Sizes
<1>2. /\ Keeps(o, p) /\ p.m_size = o.m_size
      /\ Contents(p) = [Contents(o) EXCEPT ![idx] = v]
  BY <1>1, <1>o, SetValueSound
<1>3. Consistent' /\ Promise!Change(a, Promise!WithItems(Seqs[a], p.m_size, Contents(p)))
  BY <1>2, <1>o, ItemsStep DEF CallSetValue
<1>4. Promise!SetValue(a, idx, v)
  BY <1>1, <1>2, <1>3, <1>o, ObjectSeq DEF Promise!SetValue
<1> QED  BY <1>1, <1>3, <1>4 DEF Step, Promise!Next, Promise!Sizes, Sizes

\* RemoveValue keeps the invariant and removes one item of the sequence.
LEMMA RemoveValueStep ==
  ASSUME Consistent, NEW a \in Arrays, NEW idx \in Sizes, CallRemoveValue(a, idx)
  PROVE  Step
<1>o. PICK o, p : o = Object(a) /\ p = RemoveValue(o, idx)  OBVIOUS
<1>1. /\ Sound(o) /\ o.outcome = "ok" /\ o.this = a /\ View(o) = View(arr[a])
      /\ idx \in Nat /\ o.m_size \in Nat
  BY <1>o, ObjectSound, ContentsItems, SizeAssumption DEF Sizes
<1>2. Leave(a, p)
  BY <1>o DEF CallRemoveValue
<1>3. CASE idx >= o.m_size
  BY <1>1, <1>2, <1>3, <1>o, UnseenStep DEF RemoveValue
<1>4. CASE idx < o.m_size
  <2>1. /\ Keeps(o, p) /\ p.m_size = o.m_size - 1
        /\ Contents(p) = [i \in Indices(o.m_size - 1) |->
                            IF i < idx THEN Contents(o)[i] ELSE Contents(o)[i + 1]]
    BY <1>1, <1>4, <1>o, RemoveValueSound
  <2>2. Consistent' /\ Promise!Change(a, Promise!WithItems(Seqs[a], p.m_size, Contents(p)))
    BY <1>2, <1>o, <2>1, ItemsStep
  <2>3. Indices(o.m_size - 1) = 0..(o.m_size - 2)
    BY <1>1 DEF Indices
  <2>4. Promise!RemoveValue(a, idx)
    <3>1. Seqs[a].size = o.m_size /\ Seqs[a].items = Contents(o)
      BY <1>o, ObjectSeq
    <3> QED  BY <1>4, <2>1, <2>2, <2>3, <3>1 DEF Promise!RemoveValue
  <2> QED  BY <2>2, <2>4 DEF Step, Promise!Next, Promise!Sizes, Sizes
<1> QED  BY <1>1, <1>3, <1>4

\* AddValueRange keeps the invariant and opens a gap in the sequence.
LEMMA AddValueRangeStep ==
  ASSUME Consistent, ClientRules = AllRules, NEW a \in Arrays, NEW start \in Sizes,
         NEW count \in Sizes, CallAddValueRange(a, start, count)
  PROVE  Step
<1>o. PICK o, p : o = Object(a) /\ p = AddValueRange(o, start, count)  OBVIOUS
<1>1. /\ Sound(o) /\ o.outcome = "ok" /\ HasBytes(o) /\ start <= o.m_size
      /\ o.m_size + count <= MaxSize
  BY <1>o, ObjectSound DEF CallAddValueRange, Shaped, Rule, AllRules
<1>2. /\ o.m_size \in Nat /\ start \in Nat /\ count \in Nat /\ o.m_size + count \in Sizes
  BY <1>1, ContentsItems, SizeAssumption DEF Sizes
<1>3. /\ Keeps(o, p) /\ p.m_size = o.m_size + count
      /\ Contents(p) \in [Indices(o.m_size + count) -> Item]
      /\ \A i \in Indices(o.m_size + count) :
           /\ i < start => Contents(p)[i] = Contents(o)[i]
           /\ start <= i /\ i < start + count => Contents(p)[i] \in Unset
           /\ start + count <= i => Contents(p)[i] = Contents(o)[i - count]
  BY <1>1, <1>2, <1>o, AddValueRangeSound
<1>4. Consistent' /\ Promise!Change(a, Promise!WithItems(Seqs[a], p.m_size, Contents(p)))
  BY <1>3, <1>o, ItemsStep DEF CallAddValueRange
<1>5. Seqs[a].size = o.m_size /\ Seqs[a].items = Contents(o)
  BY <1>o, ObjectSeq
<1>k. PICK k, g : k = o.m_size + count /\ g = Contents(p)  OBVIOUS
<1>6. /\ k \in Nat
      /\ g \in [0..(k - 1) -> Item]
      /\ \A i \in 0..(k - 1) : /\ i \in Int
                               /\ i < start => g[i] = Contents(o)[i]
                               /\ ~(i < start) /\ i < start + count => g[i] \in Unset
                               /\ ~(i < start + count) => g[i] = Contents(o)[i - count]
  <2>1. Indices(k) = 0..(k - 1)
    BY DEF Indices
  <2>2. \A i \in 0..(k - 1) : /\ i \in Int
                              /\ start <= i <=> ~(i < start)
                              /\ start + count <= i <=> ~(i < start + count)
    BY <1>2, <1>k
  <2>3. k \in Nat /\ g \in [0..(k - 1) -> Item]
    BY <1>2, <1>3, <1>k, <2>1
  <2>4. \A i \in 0..(k - 1) :
          /\ i < start => g[i] = Contents(o)[i]
          /\ start <= i /\ i < start + count => g[i] \in Unset
          /\ start + count <= i => g[i] = Contents(o)[i - count]
    BY <1>3, <1>k, <2>1, Zenon
  <2> QED  BY <2>2, <2>3, <2>4
<1>f. PICK f : f = [i \in 0..(k - 1) |->
                      IF ~(i < start) /\ i < start + count THEN g[i] ELSE Default]
  OBVIOUS
<1>7. f \in [0..(k - 1) -> Promise!Unset]
  BY <1>6, <1>f DEF Promise!Unset, Unset
<1>8. g = [i \in 0..(k - 1) |-> IF i < start THEN Contents(o)[i]
                                ELSE IF i < start + count THEN f[i]
                                ELSE Contents(o)[i - count]]
  BY <1>6, <1>f
<1>9. Promise!AddValueRange(a, start, count)
  <2>1. Promise!Change(a, Promise!WithItems(Seqs[a], Seqs[a].size + count, g))
    BY <1>3, <1>4, <1>5, <1>k
  <2>2. f \in [0..(Seqs[a].size + count - 1) -> Promise!Unset]
    BY <1>2, <1>5, <1>7, <1>k
  <2>3. g = [i \in 0..(Seqs[a].size + count - 1) |->
               IF i < start THEN Seqs[a].items[i]
               ELSE IF i < start + count THEN f[i]
               ELSE Seqs[a].items[i - count]]
    BY <1>2, <1>5, <1>8, <1>k
  <2>4. start <= Seqs[a].size
    BY <1>1, <1>5
  <2> QED  BY <2>1, <2>2, <2>3, <2>4, Zenon DEF Promise!AddValueRange
<1> QED  BY <1>4, <1>9 DEF Step, Promise!Next, Promise!Sizes, Sizes

\* RemoveValueRange keeps the invariant and removes a range of the sequence.
LEMMA RemoveValueRangeStep ==
  ASSUME Consistent, ClientRules = AllRules, NEW a \in Arrays, NEW start \in Sizes,
         NEW count \in Sizes, CallRemoveValueRange(a, start, count)
  PROVE  Step
<1>o. PICK o, p : o = Object(a) /\ p = RemoveValueRange(o, start, count)  OBVIOUS
<1>1. /\ Sound(o) /\ o.outcome = "ok" /\ start + count <= o.m_size
  BY <1>o, ObjectSound DEF CallRemoveValueRange, Rule, AllRules
<1>2. /\ o.m_size \in Nat /\ start \in Nat /\ count \in Nat
  BY <1>1, ContentsItems, SizeAssumption DEF Sizes
<1>3. /\ Keeps(o, p) /\ p.m_size = o.m_size - count
      /\ Contents(p) = [i \in Indices(o.m_size - count) |->
                          IF i < start THEN Contents(o)[i] ELSE Contents(o)[i + count]]
  BY <1>1, <1>2, <1>o, RemoveValueRangeSound
<1>4. Consistent' /\ Promise!Change(a, Promise!WithItems(Seqs[a], p.m_size, Contents(p)))
  BY <1>3, <1>o, ItemsStep DEF CallRemoveValueRange
<1>5. Seqs[a].size = o.m_size /\ Seqs[a].items = Contents(o)
  BY <1>o, ObjectSeq
<1>6. Promise!RemoveValueRange(a, start, count)
  BY <1>1, <1>3, <1>4, <1>5 DEF Promise!RemoveValueRange, Indices
<1> QED  BY <1>4, <1>6 DEF Step, Promise!Next, Promise!Sizes, Sizes

\* The sequence of an array emptied for a new type.
LEMMA EmptiedView ==
  ASSUME NEW p, p.m_valueType # "Struct" \/ LayoutOf(p) = EmptyDesc, p.m_size = 0
  PROVE  View(p) = Promise!EmptySeq(p.m_valueType)
BY DEF View, LayoutOf, Contents, NoItems, Promise!EmptySeq

\* SetValueType keeps the invariant and empties the sequence, or is refused.
LEMMA SetValueTypeStep ==
  ASSUME Consistent, ClientRules = AllRules, NEW a \in Arrays, NEW t \in Types,
         CallSetValueType(a, t)
  PROVE  Step
<1>o. PICK o, p : o = Object(a) /\ p = SetValueType(o, t)  OBVIOUS
<1>1. /\ Sound(o) /\ Plain(o) /\ o.outcome = "ok" /\ o.this = a /\ View(o) = View(arr[a])
  <2>1. o.m_state = "Uncompressed"
    BY <1>o, ObjectSound DEF CallSetValueType, Assignable, Rule, AllRules
  <2> QED  BY <1>o, <2>1, ObjectSound, PlainIsSound
<1>2. Leave(a, p)
  BY <1>o DEF CallSetValueType
<1>3. CASE IsLz4(o) /\ ~IsValueTypeSupported(t)
  <2>1. p = [o EXCEPT !.outcome = "InvalidUsageError"]
    BY <1>3, <1>o DEF SetValueType, Fail
  <2>2. /\ Alike([o EXCEPT !.outcome = "ok"], o)
        /\ HasFields(p) /\ p.this = o.this /\ p.m_values = o.m_values /\ p.m_size = o.m_size
        /\ p.m_valueType = o.m_valueType /\ p.fromProperty = o.fromProperty
        /\ p.m_structuredDataInfo = o.m_structuredDataInfo /\ p.m_state = o.m_state
        /\ p.m_compressedBlob = o.m_compressedBlob /\ p.outcome = "InvalidUsageError"
    BY <1>1, <2>1 DEF Plain, Alike, HasFields, Fields
  <2>3. Plain(p)
    BY <1>1, <2>2 DEF Plain
  <2>4. View(p) = View(o)
    BY <2>2 DEF View, Contents, GetStructuredDataInfo, HasHeader
  <2> QED  BY <1>1, <1>2, <2>2, <2>3, <2>4, PlainIsSound, UnseenStep
<1>4. CASE (IsLz4(o) => IsValueTypeSupported(t)) /\ t = o.m_valueType
  BY <1>1, <1>2, <1>4, <1>o, UnseenStep DEF SetValueType
<1>5. CASE (IsLz4(o) => IsValueTypeSupported(t)) /\ t # o.m_valueType
  <2>1. Emptied(o, t, p) /\ LayoutOf(p) = EmptyDesc
    BY <1>1, <1>5, <1>o, SetValueTypeSound
  <2>2. Consistent' /\ Seqs' = [Seqs EXCEPT ![a] = View(p)]
    BY <1>1, <1>2, <2>1, LeaveSound, PlainIsSound DEF Emptied
  <2>3. View(p) = Promise!EmptySeq(t)
    BY <2>1, EmptiedView DEF Emptied
  <2>4. Promise!SetValueType(a, t)
    BY <1>5, <1>o, <2>2, <2>3, ObjectSeq DEF Promise!SetValueType, Promise!Change
  <2> QED  BY <2>2, <2>4 DEF Step, Promise!Next
<1> QED  BY <1>3, <1>4, <1>5

\* AddArray with a description keeps the invariant and makes a sequence of that size.
LEMMA AddStructArrayStep ==
  ASSUME Consistent, ClientRules = AllRules, NEW a \in Arrays, NEW d \in Descs,
         NEW n \in Sizes, "Struct" \in Types, CallAddStructArray(a, d, n)
  PROVE  Step
<1>o. PICK o, p : o = Object(a) /\ p = AddStructArray(o, d, n)  OBVIOUS
<1>1. /\ Plain(o) /\ o.outcome = "ok" /\ o.this = a
      /\ o.m_valueType = "Struct" => o.m_size = 0
  <2>1. /\ o.m_state = "Uncompressed"
        /\ o.m_valueType = "Struct" => o.m_size = 0
    BY <1>o, ObjectSound DEF CallAddStructArray, Assignable, Rule, AllRules
  <2> QED  BY <1>o, <2>1, ObjectSound, PlainIsSound
<1>2. /\ Sound(p) /\ p.this = a /\ p.m_valueType = "Struct" /\ p.m_size = n
      /\ LayoutOf(p) = d /\ Contents(p) \in [Indices(n) -> Unset]
  BY <1>1, <1>o, AddStructArraySound
<1>3. Leave(a, p)
  BY <1>o DEF CallAddStructArray
<1>4. Consistent' /\ Seqs' = [Seqs EXCEPT ![a] = View(p)]
  BY <1>2, <1>3, LeaveSound
<1>5. View(p) = [type |-> "Struct", desc |-> d, size |-> n, items |-> Contents(p)]
  BY <1>2 DEF View, LayoutOf
<1>6. Promise!Describe(a, d, n)
  BY <1>2, <1>4, <1>5
  DEF Promise!Describe, Promise!Change, Promise!Unset, Unset, Indices
<1> QED  BY <1>4, <1>6 DEF Step, Promise!Next, Promise!Sizes, Sizes

\* GetValues keeps the invariant and leaves the sequence as it is.
LEMMA ReadValuesStep ==
  ASSUME Consistent, NEW a \in Arrays, CallReadValues(a)
  PROVE  Step
<1>o. PICK o, p : o = Object(a) /\ p = ReadValues(o)  OBVIOUS
<1>1. Sound(o) /\ o.this = a /\ View(o) = View(arr[a])
  BY <1>o, ObjectSound
<1>2. Sound(p) /\ p.this = a /\ View(p) = View(arr[a])
  BY <1>1, <1>o, ReadValuesSound, PlainIsSound DEF Same
<1> QED  BY <1>2, <1>o, UnseenStep DEF CallReadValues

\* GetCompressedBlob keeps the invariant and leaves the sequence as it is.
LEMMA GetCompressedBlobStep ==
  ASSUME Consistent, ClientRules = AllRules, NEW a \in Arrays, CallGetCompressedBlob(a)
  PROVE  Step
<1>o. PICK o, p : o = Object(a) /\ p = GetCompressedBlob(o)  OBVIOUS
<1>1. /\ Sound(o) /\ o.this = a /\ View(o) = View(arr[a])
      /\ IsLz4(o) /\ (o.m_size > 0 \/ is_trivial_type(o.m_valueType))
  BY <1>o, ObjectSound DEF CallGetCompressedBlob, Compressible, Rule, AllRules
<1>2. Sound(p) /\ p.this = a /\ View(p) = View(arr[a])
  BY <1>1, <1>o, CompressSound DEF Same, GetCompressedBlob
<1> QED  BY <1>2, <1>o, UnseenStep DEF CallGetCompressedBlob

\* Saving and loading keeps the invariant and leaves the sequence as it is.
LEMMA SaveAndLoadStep ==
  ASSUME Consistent, ClientRules = AllRules, NEW a \in Arrays, CallSaveAndLoad(a)
  PROVE  Step
<1>o. PICK o, p : o = Object(a) /\ p = SaveAndLoad(o)  OBVIOUS
<1>1. /\ Sound(o) /\ o.outcome = "ok" /\ o.this = a /\ View(o) = View(arr[a])
      /\ IsLz4(o) => o.m_size > 0 \/ is_trivial_type(o.m_valueType)
      /\ ~IsLz4(o) => o.m_valueType # "Struct"
  BY <1>o, ObjectSound DEF CallSaveAndLoad, Compressible, Rule, AllRules
<1>2. Sound(p) /\ p.this = a /\ View(p) = View(arr[a])
  BY <1>1, <1>o, SaveAndLoadSound DEF Restored
<1> QED  BY <1>2, <1>o, UnseenStep DEF CallSaveAndLoad

\* What the rules for assignments say of the two arrays.
LEMMA CopyableArrays ==
  ASSUME Consistent, ClientRules = AllRules, NEW a \in Arrays, NEW b \in Arrays \ {a},
         Assignable(arr[a]), Copyable(arr[a], arr[b]),
         NEW o, o = Object(a), NEW p, p = Object(b)
  PROVE  /\ Plain(o) /\ o.outcome = "ok" /\ o.this = a /\ o.m_valueType # "Struct"
         /\ Sound(p) /\ p.outcome = "ok" /\ p.this = b /\ p.m_valueType # "Struct"
         /\ IsLz4(o) => IsValueTypeSupported(p.m_valueType)
         /\ o.m_size = arr[a].m_size /\ p.m_size = arr[b].m_size
         /\ Seqs[a] = View(o) /\ Seqs[b] = View(p)
<1>1. o.m_state = "Uncompressed"
  BY ObjectSound DEF Assignable, Rule, AllRules
<1>2. /\ o.m_valueType # "Struct" /\ p.m_valueType # "Struct"
      /\ IsLz4(o) => IsValueTypeSupported(p.m_valueType)
  BY ObjectSound DEF Copyable, Rule, AllRules
<1>3. Seqs[a] = View(o) /\ Seqs[b] = View(p)
  BY ObjectSeq
<1> QED  BY <1>1, <1>2, <1>3, ObjectSound, PlainIsSound

\* A call after which a is a copy of b.
LEMMA CopiedStep ==
  ASSUME Consistent, NEW a \in Arrays, NEW b \in Arrays \ {a},
         NEW o, o.this = a, NEW p, p.this = b, p.m_valueType # "Struct", Seqs[b] = View(p),
         NEW pair, Copied(o, p, pair), LeaveBoth(a, b, pair)
  PROVE  Step
<1>1. /\ Consistent'
      /\ Seqs' = [Seqs EXCEPT ![a] = View(pair.self), ![b] = View(pair.other)]
  BY LeaveBothSound DEF Copied, Same
<1>2. View(pair.self) = View(p) /\ View(pair.other) = View(p)
  BY DEF Copied, Same, View
<1>3. Promise!CopyFrom(a, b)
  BY <1>1, <1>2 DEF Promise!CopyFrom, Promise!Change, Seqs
<1> QED  BY <1>1, <1>3 DEF Step, Promise!Next

\* Assigning a copy keeps the invariant and gives the target the other's sequence.
LEMMA CopyAssignStep ==
  ASSUME Consistent, ClientRules = AllRules, NEW a \in Arrays, NEW b \in Arrays \ {a},
         CallCopyAssign(a, b)
  PROVE  Step
<1>o. PICK o, p, pair : o = Object(a) /\ p = Object(b) /\ pair = CopyAssign(o, p)  OBVIOUS
<1>1. /\ Plain(o) /\ o.outcome = "ok" /\ o.this = a /\ o.m_valueType # "Struct"
      /\ Sound(p) /\ p.outcome = "ok" /\ p.this = b /\ p.m_valueType # "Struct"
      /\ IsLz4(o) => IsValueTypeSupported(p.m_valueType)
      /\ Seqs[b] = View(p)
  BY <1>o, CopyableArrays DEF CallCopyAssign
<1>2. Copied(o, p, pair)
  BY <1>1, <1>o, CopyAssignSound
<1> QED  BY <1>1, <1>2, <1>o, CopiedStep DEF CallCopyAssign

\* Assigning by a move keeps the invariant and gives the target the other's sequence.
LEMMA MoveAssignStep ==
  ASSUME Consistent, ClientRules = AllRules, NEW a \in Arrays, NEW b \in Arrays \ {a},
         CallMoveAssign(a, b)
  PROVE  Step
<1>o. PICK o, p, pair : o = Object(a) /\ p = Object(b) /\ pair = MoveAssign(o, p)  OBVIOUS
<1>1. /\ Plain(o) /\ o.outcome = "ok" /\ o.this = a
      /\ Plain(p) /\ p.outcome = "ok" /\ p.this = b
      /\ Seqs[b] = View(p)
  <2>1. o.m_state = "Uncompressed" /\ p.m_state = "Uncompressed"
    BY <1>o, ObjectSound DEF CallMoveAssign, Assignable, Rule, AllRules
  <2> QED  BY <1>o, <2>1, ObjectSound, ObjectSeq, PlainIsSound
<1>2. /\ Sound(pair.self) /\ Sound(pair.other) /\ pair.self.this = a
      /\ pair.self.m_valueType = p.m_valueType /\ pair.self.m_size = p.m_size
      /\ Contents(pair.self) = Contents(p) /\ LayoutOf(pair.self) = LayoutOf(p)
      /\ Emptied(p, "Nil", pair.other)
  BY <1>1, <1>o, MoveAssignSound
<1>3. /\ Consistent'
      /\ Seqs' = [Seqs EXCEPT ![a] = View(pair.self), ![b] = View(pair.other)]
  BY <1>1, <1>2, <1>o, LeaveBothSound DEF CallMoveAssign, Emptied
<1>4. View(pair.self) = View(p)
  BY <1>2 DEF View, LayoutOf
<1>5. View(pair.other) = Promise!EmptySeq("Nil")
  BY <1>2, EmptiedView DEF Emptied
<1>6. Promise!MoveFrom(a, b)
  BY <1>1, <1>3, <1>4, <1>5 DEF Promise!MoveFrom
<1> QED  BY <1>3, <1>6 DEF Step, Promise!Next

\* Merge keeps the invariant and appends the other's sequence or does nothing.
LEMMA MergeStep ==
  ASSUME Consistent, ClientRules = AllRules, NEW a \in Arrays, NEW b \in Arrays \ {a},
         NEW overwrite \in BOOLEAN, CallMerge(a, b, overwrite)
  PROVE  Step
<1>o. PICK o, p, pair : o = Object(a) /\ p = Object(b) /\ pair = Merge(o, p, overwrite)
  OBVIOUS
<1>1. /\ Plain(o) /\ o.outcome = "ok" /\ o.this = a /\ o.m_valueType # "Struct"
      /\ Sound(p) /\ p.outcome = "ok" /\ p.this = b /\ p.m_valueType # "Struct"
      /\ IsLz4(o) => IsValueTypeSupported(p.m_valueType)
      /\ o.m_size = arr[a].m_size /\ p.m_size = arr[b].m_size
      /\ Seqs[a] = View(o) /\ Seqs[b] = View(p)
  BY <1>o, CopyableArrays DEF CallMerge
<1>2. LeaveBoth(a, b, pair)
  BY <1>o DEF CallMerge
<1>3. CASE overwrite \/ o.m_valueType # p.m_valueType
  <2>1. Copied(o, p, pair)
    BY <1>1, <1>3, <1>o, MergeFreshSound
  <2> QED  BY <1>1, <1>2, <2>1, CopiedStep
<1>4. CASE ~overwrite /\ o.m_valueType = p.m_valueType
  <2>1. o.m_size + p.m_size \in Sizes
    BY <1>1, <1>4, ContentsItems, PlainIsSound, SizeAssumption DEF CallMerge, Sizes
  <2>2. /\ Sound(pair.self) /\ Sound(pair.other) /\ Same(p, pair.other)
        /\ pair.self.this = o.this /\ pair.self.m_valueType = o.m_valueType
        /\ pair.self.m_size = o.m_size + p.m_size
        /\ Contents(pair.self) = Joined(Contents(o), o.m_size, Contents(p), p.m_size)
    BY <1>1, <1>4, <1>o, <2>1, MergeAppendSound
  <2>3. /\ Consistent'
        /\ Seqs' = [Seqs EXCEPT ![a] = View(pair.self), ![b] = View(pair.other)]
    BY <1>1, <1>2, <2>2, LeaveBothSound DEF Same
  <2>4. View(pair.other) = Seqs[b] /\ Seqs[a].type = Seqs[b].type
    BY <1>1, <1>4, <2>2 DEF Same, View
  <2>5. Seqs' = [Seqs EXCEPT ![a] = View(pair.self)]
    BY <2>3, <2>4 DEF Seqs
  <2>6. /\ Seqs[a].size = o.m_size /\ Seqs[a].items = Contents(o)
        /\ Seqs[b].size = p.m_size /\ Seqs[b].items = Contents(p)
    BY <1>o, ObjectSeq
  <2>7. View(pair.self) =
          Promise!WithItems(Seqs[a], pair.self.m_size, Contents(pair.self))
    BY <1>1, <2>2, ViewWithItems DEF LayoutOf
  <2>8. Promise!Append(a, b)
    <3>1. Contents(pair.self) = [i \in 0..(Seqs[a].size + Seqs[b].size - 1) |->
                                   IF i < Seqs[a].size THEN Seqs[a].items[i]
                                   ELSE Seqs[b].items[i - Seqs[a].size]]
      <4>1. o.m_size \in Nat /\ p.m_size \in Nat
        BY <1>1, ContentsItems, PlainIsSound
      <4> QED  BY <2>2, <2>6, <4>1 DEF Joined, Indices
    <3>2. Seqs' = [Seqs EXCEPT ![a] =
                     Promise!WithItems(Seqs[a], Seqs[a].size + Seqs[b].size,
                                       Contents(pair.self))]
      BY <2>2, <2>5, <2>6, <2>7
    <3> QED  BY <2>4, <3>1, <3>2 DEF Promise!Append, Promise!Change
  <2> QED  BY <2>3, <2>8 DEF Step, Promise!Next
<1> QED  BY <1>3, <1>4

-----------------------------------------------------------------------------

\* Every step keeps the invariant and is a step of ArraySeq or stutters.
LEMMA NextStep ==
  ASSUME Consistent, ClientRules = AllRules, [Next]_vars
  PROVE  Step
<1>1. CASE UNCHANGED vars
  <2>1. arr' = arr
    BY <1>1 DEF vars
  <2>2. Consistent'
    BY <2>1 DEF Consistent, TypeOK
  <2> QED  BY <2>1, <2>2 DEF Step, Seqs
<1>2. CASE Next
  <2> PICK a \in Arrays :
        \/ \E t \in Types : CallSetValueType(a, t)
        \/ \E d \in Descs, n \in Sizes : "Struct" \in Types /\ CallAddStructArray(a, d, n)
        \/ \E n \in Sizes : CallResize(a, n)
        \/ \E idx \in Sizes, v \in Values \cup {Unconvertible} :
             CallInsertValue(a, idx, v) \/ CallSetValue(a, idx, v)
        \/ \E idx \in Sizes : CallRemoveValue(a, idx)
        \/ \E start \in Sizes, count \in Sizes :
             CallAddValueRange(a, start, count) \/ CallRemoveValueRange(a, start, count)
        \/ CallReadValues(a)
        \/ CallGetCompressedBlob(a)
        \/ CallSaveAndLoad(a)
        \/ \E b \in Arrays \ {a} :
             \/ CallCopyAssign(a, b)
             \/ CallMoveAssign(a, b)
             \/ \E f \in BOOLEAN : CallMerge(a, b, f)
    BY <1>2 DEF Next
  <2>1. CASE \E t \in Types : CallSetValueType(a, t)
    BY <2>1, SetValueTypeStep
  <2>2. CASE \E d \in Descs, n \in Sizes : "Struct" \in Types /\ CallAddStructArray(a, d, n)
    BY <2>2, AddStructArrayStep
  <2>3. CASE \E n \in Sizes : CallResize(a, n)
    BY <2>3, ResizeStep
  <2>4. CASE \E idx \in Sizes, v \in Values \cup {Unconvertible} :
               CallInsertValue(a, idx, v) \/ CallSetValue(a, idx, v)
    BY <2>4, InsertValueStep, SetValueStep
  <2>5. CASE \E idx \in Sizes : CallRemoveValue(a, idx)
    BY <2>5, RemoveValueStep
  <2>6. CASE \E start \in Sizes, count \in Sizes :
               CallAddValueRange(a, start, count) \/ CallRemoveValueRange(a, start, count)
    BY <2>6, AddValueRangeStep, RemoveValueRangeStep
  <2>7. CASE CallReadValues(a)
    BY <2>7, ReadValuesStep
  <2>8. CASE CallGetCompressedBlob(a)
    BY <2>8, GetCompressedBlobStep
  <2>9. CASE CallSaveAndLoad(a)
    BY <2>9, SaveAndLoadStep
  <2>10. CASE \E b \in Arrays \ {a} : CallCopyAssign(a, b)
    BY <2>10, CopyAssignStep
  <2>11. CASE \E b \in Arrays \ {a} : CallMoveAssign(a, b)
    BY <2>11, MoveAssignStep
  <2>12. CASE \E b \in Arrays \ {a} : \E f \in BOOLEAN : CallMerge(a, b, f)
    BY <2>12, MergeStep
  <2> QED  BY <2>1, <2>2, <2>3, <2>4, <2>5, <2>6, <2>7, <2>8, <2>9, <2>10, <2>11, <2>12
<1> QED  BY <1>1, <1>2

\* The new arrays satisfy the invariant and are the empty sequences of ArraySeq.
LEMMA InitSound ==
  ASSUME Init
  PROVE  Consistent /\ Promise!Init
<1>1. \A a \in Arrays :
        /\ Sound(arr[a]) /\ arr[a].this = a
        /\ View(arr[a]) = Promise!EmptySeq("Nil")
  <2>1. ASSUME NEW a \in Arrays, NEW o, o = NewObject(a)
        PROVE  Sound(o) /\ o.this = a /\ View(o) = Promise!EmptySeq("Nil")
    <3>1. /\ Plain(o) /\ o.this = a /\ o.m_size = 0 /\ o.m_valueType = "Nil"
      BY <2>1, NewObjectSound
    <3> QED  BY <3>1, PlainIsSound, EmptiedView
  <2> QED  BY <2>1 DEF Init
<1>2. Consistent
  BY <1>1 DEF Init, Consistent, TypeOK, Sound
<1>3. Promise!Init
  BY <1>1 DEF Promise!Init, Seqs
<1> QED  BY <1>2, <1>3

\* Consistent is an invariant of every program that observes the rules.
THEOREM ConsistentAlways ==
  ASSUME ClientRules = AllRules
  PROVE  Spec => []Consistent
<1>1. Init => Consistent
  BY InitSound
<1>2. Consistent /\ [Next]_vars => Consistent'
  BY NextStep DEF Step
<1> QED  BY <1>1, <1>2, PTL DEF Spec

\* Every object always has the fields of its class, each of its type.
THEOREM TypeCorrect ==
  ASSUME ClientRules = AllRules
  PROVE  Spec => []TypeOK
<1>1. Consistent => TypeOK
  BY DEF Consistent
<1> QED  BY <1>1, ConsistentAlways, PTL

\* Compressing and decompressing never lose or duplicate items.
THEOREM ItemsAlwaysInOnePlace ==
  ASSUME ClientRules = AllRules
  PROVE  Spec => []ItemsInOnePlace
<1>1. Consistent => ItemsInOnePlace
  BY DEF Consistent, Sound, ItemsInOnePlace
<1> QED  BY <1>1, ConsistentAlways, PTL

\* The items of a struct array are always read under the description that they
\* were written under.
THEOREM DescriptionAlwaysFits ==
  ASSUME ClientRules = AllRules
  PROVE  Spec => []DescriptionFits
<1>1. Consistent => DescriptionFits
  BY DEF Consistent, Sound, DescriptionFits
<1> QED  BY <1>1, ConsistentAlways, PTL

\* No call of a program that observes the rules is undefined or throws, but for
\* the refusal of a value type.
THEOREM NothingEverGoesWrong ==
  ASSUME ClientRules = AllRules
  PROVE  Spec => []NothingGoesWrong
<1>1. Consistent => NothingGoesWrong
  BY DEF Consistent, Sound, Ruled, NothingGoesWrong
<1> QED  BY <1>1, ConsistentAlways, PTL

\* The two classes implement the sequences of ArraySeq.
THEOREM ImplementsSequences ==
  ASSUME ClientRules = AllRules
  PROVE  Spec => KeepsPromise
<1>1. Init => Promise!Init
  BY InitSound
<1>2. Consistent /\ [Next]_vars => [Promise!Next]_Seqs
  BY NextStep DEF Step
<1> QED  BY <1>1, <1>2, ConsistentAlways, PTL DEF Spec, KeepsPromise, Promise!Spec
-----------------------------------------------------------------------------
(***************************************************************************)
(* Proofs about programs that go on after calls that failed half-way: what *)
(* a failed call leaves is as sound as any other array, and has all the    *)
(* items it had.  Only the rules of Careless are assumed.                  *)
(***************************************************************************)
Settled(x) == [x EXCEPT !.outcome = "ok"]

Endings == {"ok", "InvalidUsageError", "LogicError"}

\* x is what a call may leave behind.
Whole(x) == IsObject(x) /\ Sound(Settled(x)) /\ x.outcome \in Endings

(***************************************************************************)
(* Objects that differ in the outcome of the last call.                    *)
(***************************************************************************)
OutcomeApart(x, y) ==
  /\ HasFields(y)
  /\ y.this = x.this /\ y.m_values = x.m_values /\ y.m_size = x.m_size
  /\ y.m_valueType = x.m_valueType /\ y.fromProperty = x.fromProperty
  /\ y.m_structuredDataInfo = x.m_structuredDataInfo /\ y.m_state = x.m_state
  /\ y.m_compressedBlob = x.m_compressedBlob

\* Writing the outcome of a call changes nothing else of the object.
LEMMA OutcomeChanged ==
  ASSUME NEW x, HasFields(x), NEW what
  PROVE  /\ OutcomeApart(x, [x EXCEPT !.outcome = what])
         /\ [x EXCEPT !.outcome = what].outcome = what
<1>f. PICK y : y = [x EXCEPT !.outcome = what]  OBVIOUS
<1>1. OutcomeApart(x, y) /\ y.outcome = what
  BY <1>f DEF HasFields, Fields, OutcomeApart
<1> QED  BY <1>1, <1>f

\* The outcome is no part of what the array holds.
LEMMA SameStorage ==
  ASSUME NEW x, NEW y, OutcomeApart(x, y)
  PROVE  /\ IsObject(x) /\ y.outcome \in Outcomes => IsObject(y)
         /\ Sound(x) /\ y.outcome \in {"ok", "InvalidUsageError"} => Sound(y)
         /\ (OnePlace(x) <=> OnePlace(y)) /\ (Described(x) <=> Described(y))
         /\ (IsLz4(x) <=> IsLz4(y)) /\ (HasBytes(x) <=> HasBytes(y))
         /\ View(y) = View(x)
<1>1. GetStructuredDataInfo(y) = GetStructuredDataInfo(x)
  BY DEF OutcomeApart, GetStructuredDataInfo, HasHeader
<1>2. /\ (HasBytes(x) <=> HasBytes(y)) /\ LayoutOf(y) = LayoutOf(x)
      /\ (IsLz4(x) <=> IsLz4(y)) /\ View(y) = View(x)
  BY <1>1 DEF OutcomeApart, HasBytes, LayoutOf, IsLz4, View, Contents
<1>3. IsObject(x) /\ y.outcome \in Outcomes => IsObject(y)
  BY DEF OutcomeApart, IsObject
<1>4. OnePlace(x) <=> OnePlace(y)
  BY DEF OutcomeApart, OnePlace
<1>5. Described(x) <=> Described(y)
  BY <1>1, <1>2 DEF OutcomeApart, Described
<1>6. Ruled(x) /\ y.outcome \in {"ok", "InvalidUsageError"} => Ruled(y)
  BY <1>2 DEF OutcomeApart, Ruled
<1> QED  BY <1>2, <1>3, <1>4, <1>5, <1>6 DEF Sound, Outcomes

\* What a call that keeps the rules leaves, and what one that fails leaves.
LEMMA SoundIsWhole ==
  ASSUME NEW p, Sound(p)
  PROVE  Whole(p) /\ p.outcome # "LogicError"
<1>1. HasFields(p) /\ IsObject(p) /\ p.outcome \in {"ok", "InvalidUsageError"}
  BY DEF Sound, IsObject, Ruled
<1>2. OutcomeApart(p, Settled(p)) /\ Settled(p).outcome = "ok"
  BY <1>1, OutcomeChanged DEF Settled
<1> QED  BY <1>1, <1>2, SameStorage DEF Whole, Endings

\* A call that fails before it changes anything leaves the array as it was.
LEMMA FailedIsWhole ==
  ASSUME NEW o, Sound(o), o.outcome = "ok", NEW p, p = Fail(o, "LogicError")
  PROVE  Whole(p) /\ p.this = o.this /\ View(p) = View(o)
<1>1. HasFields(o) /\ IsObject(o)
  BY DEF Sound, IsObject
<1>2. OutcomeApart(o, p) /\ p.outcome = "LogicError"
  BY <1>1, OutcomeChanged DEF Fail
<1>3. HasFields(p) /\ IsObject(p) /\ View(p) = View(o) /\ p.this = o.this
  BY <1>1, <1>2, SameStorage DEF OutcomeApart, Outcomes
<1>4. OutcomeApart(p, Settled(p)) /\ Settled(p).outcome = "ok"
  BY <1>3, OutcomeChanged DEF Settled
<1>5. OutcomeApart(o, Settled(p))
  BY <1>2, <1>4 DEF OutcomeApart
<1> QED  BY <1>2, <1>3, <1>4, <1>5, SameStorage DEF Whole, Endings

\* The object a call starts from.
LEMMA ObjectOfUndamaged ==
  ASSUME Undamaged, NEW a \in Arrays, NEW o, o = Object(a)
  PROVE  /\ Sound(o) /\ o.outcome = "ok" /\ o.this = a
         /\ o.m_size = arr[a].m_size /\ o.m_valueType = arr[a].m_valueType
         /\ o.m_state = arr[a].m_state /\ o.fromProperty = arr[a].fromProperty
         /\ (IsLz4(o) <=> IsLz4(arr[a])) /\ (HasBytes(o) <=> HasBytes(arr[a]))
         /\ View(o) = View(arr[a])
         /\ Whole(arr[a])
<1>x. PICK x : x = arr[a]  OBVIOUS
<1>1. HasFields(x) /\ IsObject(x) /\ x.this = a /\ x.outcome \in Endings /\ Sound(o)
  BY <1>x DEF Undamaged, TypeOK, IsObject, Endings
<1>2. o = Settled(x)
  BY <1>x DEF Object, Settled
<1>3. OutcomeApart(x, o) /\ o.outcome = "ok"
  BY <1>1, <1>2, OutcomeChanged DEF Settled
<1>4. (IsLz4(o) <=> IsLz4(x)) /\ (HasBytes(o) <=> HasBytes(x)) /\ View(o) = View(x)
  BY <1>3, SameStorage
<1> QED  BY <1>1, <1>2, <1>3, <1>4, <1>x DEF OutcomeApart, Whole

(***************************************************************************)
(* What the calls leave.  Only an insertion and an assignment of an item   *)
(* can fail with LogicError.                                               *)
(***************************************************************************)
\* pos leads every item to its place in the longer array.
LEMMA EmbeddedBy ==
  ASSUME NEW s, NEW t, s.size \in Nat, t.size \in Nat,
         NEW pos \in [0..(s.size - 1) -> 0..(t.size - 1)],
         \A i, j \in 0..(s.size - 1) : i < j => pos[i] < pos[j],
         \A i \in 0..(s.size - 1) : t.items[pos[i]] = s.items[i]
  PROVE  Embeds(s, t)
BY DEF Embeds

\* Every sequence is embedded in itself.
LEMMA EmbedsItself ==
  ASSUME NEW s, s.size \in Nat
  PROVE  Embeds(s, s)
<1>p. PICK pos : pos = [i \in 0..(s.size - 1) |-> i]  OBVIOUS
<1>1. /\ pos \in [0..(s.size - 1) -> 0..(s.size - 1)]
      /\ \A i, j \in 0..(s.size - 1) : i < j => pos[i] < pos[j]
      /\ \A i \in 0..(s.size - 1) : s.items[pos[i]] = s.items[i]
  BY <1>p
<1> QED  BY <1>1, EmbeddedBy

\* A hole at idx.
LEMMA EmbedsAround ==
  ASSUME NEW s, NEW t, s.size \in Nat, t.size = s.size + 1, NEW idx \in Nat,
         \A i \in 0..s.size : /\ i < idx => t.items[i] = s.items[i]
                              /\ i > idx => t.items[i] = s.items[i - 1]
  PROVE  Embeds(s, t)
<1>p. PICK pos : pos = [i \in 0..(s.size - 1) |-> IF i < idx THEN i ELSE i + 1]  OBVIOUS
<1>1. pos \in [0..(s.size - 1) -> 0..(t.size - 1)]
  BY <1>p
<1>2. \A i, j \in 0..(s.size - 1) : i < j => pos[i] < pos[j]
  BY <1>p
<1>3. ASSUME NEW i \in 0..(s.size - 1)  PROVE t.items[pos[i]] = s.items[i]
  <2>1. CASE i < idx
    <3>1. i \in 0..s.size /\ pos[i] = i
      BY <1>p, <2>1
    <3> QED  BY <2>1, <3>1
  <2>2. CASE ~(i < idx)
    <3>1. i + 1 \in 0..s.size /\ i + 1 > idx /\ pos[i] = i + 1 /\ (i + 1) - 1 = i
      BY <1>p, <2>2
    <3> QED  BY <3>1
  <2> QED  BY <2>1, <2>2
<1>4. t.size \in Nat
  OBVIOUS
<1> QED  BY <1>1, <1>2, <1>3, <1>4, EmbeddedBy

\* The growth that an insertion begins with, whatever becomes of the value.
LEMMA GrownByInsertion ==
  ASSUME NEW o, Sound(o), o.outcome = "ok", HasBytes(o), o.m_size + 1 \in Sizes,
         NEW idx \in Nat, idx <= o.m_size,
         NEW q, q = Resize(o, o.m_size + 1, InsertRanges(o.m_size, idx)[1],
                           InsertRanges(o.m_size, idx)[2], FALSE)
  PROVE  /\ Keeps(o, q) /\ q.m_size = o.m_size + 1
         /\ \A i \in Indices(o.m_size + 1) :
              /\ i < idx => Contents(q)[i] = Contents(o)[i]
              /\ i > idx => Contents(q)[i] = Contents(o)[i - 1]
<1> DEFINE m == o.m_size
<1>r. PICK r0, r1 : r0 = Range(0, 0, idx) /\ r1 = Range(idx, idx + 1, m - idx)  OBVIOUS
<1>1. m \in Nat
  BY ContentsItems
<1>2. /\ r0 \in Ranges /\ r0.src = 0 /\ r0.dst = 0 /\ r0.count = idx
      /\ r1 \in Ranges /\ r1.src = idx /\ r1.dst = idx + 1 /\ r1.count = m - idx
  BY <1>1, <1>r DEF Ranges, Range
<1>3. ASSUME NEW i \in Indices(m + 1)
      PROVE  /\ Writes(r1, i) <=> i > idx
             /\ Writes(r0, i) <=> i < idx
             /\ i < idx => ~(i > idx)
             /\ r0.src + (i - r0.dst) = i /\ r1.src + (i - r1.dst) = i - 1
             /\ i > idx \/ i < idx => m > 0
  BY <1>1, <1>2 DEF Indices, Writes, DstEnd
<1>4. Fitting(r0, r1, m, m + 1)
  BY <1>1, <1>2 DEF Fitting, Ordered, InBounds, SrcEnd, DstEnd
<1>5. Relocated(o, m + 1, r0, r1, FALSE, q)
  <2>1. Relocated(o, m + 1, r0, r1, FALSE, Resize(o, m + 1, r0, r1, FALSE))
    BY <1>4, ResizeLeaves
  <2>2. InsertRanges(m, idx)[1] = r0 /\ InsertRanges(m, idx)[2] = r1
    BY <1>r DEF InsertRanges
  <2> QED  BY <2>1, <2>2
<1> QED  BY <1>3, <1>5 DEF Relocated, Kept

\* An insertion at its own place is sound, one that fails leaves a hole.
LEMMA InsertionLeaves ==
  ASSUME NEW o, Sound(o), o.outcome = "ok", HasBytes(o), o.m_size + 1 \in Sizes,
         NEW idx \in Nat, NEW v \in Values \cup {Unconvertible},
         NEW p, p = InsertValue(o, idx, v)
  PROVE  /\ Whole(p) /\ p.this = o.this
         /\ p.outcome = "LogicError" => Embeds(View(o), View(p))
<1>1. o.m_size \in Nat
  BY ContentsItems
<1>2. CASE idx > o.m_size
  <2>1. p = o
    BY <1>2 DEF InsertValue
  <2> QED  BY <2>1, SoundIsWhole
<1>3. CASE idx <= o.m_size /\ o.fromProperty = o.this /\ v \in Values
  <2>1. Keeps(o, p)
    BY <1>3, InsertValueSound
  <2> QED  BY <2>1, SoundIsWhole DEF Keeps
<1>4. CASE idx <= o.m_size /\ (o.fromProperty # o.this \/ v = Unconvertible)
  <2>q. PICK q : q = Resize(o, o.m_size + 1, InsertRanges(o.m_size, idx)[1],
                            InsertRanges(o.m_size, idx)[2], FALSE)
    OBVIOUS
  <2>1. /\ Keeps(o, q) /\ q.m_size = o.m_size + 1
        /\ \A i \in Indices(o.m_size + 1) :
             /\ i < idx => Contents(q)[i] = Contents(o)[i]
             /\ i > idx => Contents(q)[i] = Contents(o)[i - 1]
    BY <1>4, <2>q, GrownByInsertion
  <2>2. /\ Sound(q) /\ q.outcome = "ok" /\ q.this = o.this /\ ~Failed(q)
        /\ q.fromProperty = o.fromProperty
    BY <2>1 DEF Keeps, Failed
  <2>3. q.m_valueType = "Struct" => GetStructuredDataInfo(q) # Null
    BY <2>2 DEF Sound, Described
  <2>4. p = Fail(q, "LogicError")
    <3>0. ~(idx > o.m_size)
      BY <1>1, <1>4
    <3>1. p = IF q.fromProperty # q.this THEN Fail(q, "LogicError") ELSE SetValue(q, idx, v)
      BY <2>q, <2>2, <3>0, Zenon DEF InsertValue
    <3>2. v = Unconvertible => SetValue(q, idx, v) = Fail(q, "LogicError")
      BY <2>3 DEF SetValue
    <3> QED  BY <1>4, <2>2, <3>1, <3>2
  <2>5. Whole(p) /\ p.this = o.this /\ View(p) = View(q)
    BY <2>2, <2>4, FailedIsWhole
  <2>6. Embeds(View(o), View(q))
    <3>1. /\ View(o).size = o.m_size /\ View(o).items = Contents(o)
          /\ View(q).size = o.m_size + 1 /\ View(q).items = Contents(q)
      BY <2>1 DEF View
    <3>2. Indices(o.m_size + 1) = 0..o.m_size
      BY <1>1 DEF Indices
    <3>s. PICK s, t : s = View(o) /\ t = View(q)  OBVIOUS
    <3>3. /\ s.size \in Nat /\ t.size = s.size + 1
          /\ \A i \in 0..s.size : /\ i < idx => t.items[i] = s.items[i]
                                  /\ i > idx => t.items[i] = s.items[i - 1]
      BY <1>1, <2>1, <3>1, <3>2, <3>s
    <3> QED  BY <3>3, <3>s, EmbedsAround
  <2> QED  BY <2>5, <2>6
<1> QED  BY <1>1, <1>2, <1>3, <1>4

\* SetValue, which fails if the value does not convert, leaves a whole array that has
\* all its items.
LEMMA AssignmentLeaves ==
  ASSUME NEW o, Sound(o), o.outcome = "ok", NEW idx \in Nat, idx < o.m_size,
         NEW v \in Values \cup {Unconvertible}, NEW p, p = SetValue(o, idx, v)
  PROVE  /\ Whole(p) /\ p.this = o.this
         /\ p.outcome = "LogicError" => Embeds(View(o), View(p))
<1>1. CASE v \in Values
  BY <1>1, SetValueSound, SoundIsWhole DEF Keeps
<1>2. CASE v = Unconvertible
  <2>1. o.m_valueType = "Struct" => GetStructuredDataInfo(o) # Null
    BY DEF Sound, Described
  <2>2. p = Fail(o, "LogicError")
    BY <1>2, <2>1 DEF SetValue
  <2>3. View(o).size \in Nat
    BY ContentsItems DEF View
  <2> QED  BY <2>2, <2>3, FailedIsWhole, EmbedsItself
<1> QED  BY <1>1, <1>2

(***************************************************************************)
(* The program.                                                            *)
(***************************************************************************)
StepEndured ==
  /\ Undamaged'
  /\ \A a \in Arrays :
       arr'[a].outcome = "LogicError" => Embeds(View(arr[a]), View(arr'[a]))

\* An array that a call leaves alone keeps its items.
LEMMA LeftAlone ==
  ASSUME Undamaged, NEW x \in Arrays
  PROVE  Whole(arr[x]) /\ arr[x].this = x /\ Embeds(View(arr[x]), View(arr[x]))
<1>o. PICK o : o = Object(x)  OBVIOUS
<1>1. Sound(o) /\ View(o) = View(arr[x]) /\ Whole(arr[x]) /\ arr[x].this = x
  BY <1>o, ObjectOfUndamaged DEF Undamaged, TypeOK
<1>2. View(o).size \in Nat
  BY <1>1, ContentsItems DEF View
<1> QED  BY <1>1, <1>2, EmbedsItself

\* If every object is whole after a call, Undamaged holds again.
LEMMA UndamagedAfter ==
  ASSUME arr' = [x \in Arrays |-> arr'[x]],
         \A x \in Arrays : Whole(arr'[x]) /\ arr'[x].this = x
  PROVE  Undamaged'
BY DEF Undamaged, TypeOK, Whole, Object, Settled, Endings

\* A call that leaves one object whole, with its items if it failed, keeps Undamaged.
LEMMA LeaveWhole ==
  ASSUME Undamaged, NEW a \in Arrays, NEW p, Whole(p), p.this = a, Leave(a, p),
         p.outcome = "LogicError" => Embeds(View(arr[a]), View(p))
  PROVE  StepEndured
<1>1. /\ arr' = [x \in Arrays |-> arr'[x]]
      /\ arr'[a] = p
      /\ \A x \in Arrays : x # a => arr'[x] = arr[x]
  BY DEF Undamaged, TypeOK, Leave
<1>2. \A x \in Arrays : /\ Whole(arr'[x]) /\ arr'[x].this = x
                        /\ arr'[x].outcome = "LogicError" => Embeds(View(arr[x]), View(arr'[x]))
  BY <1>1, LeftAlone
<1>3. Undamaged'
  BY <1>1, <1>2, UndamagedAfter
<1> QED  BY <1>2, <1>3 DEF StepEndured

\* A call that leaves one object sound keeps Undamaged.
LEMMA LeaveSoundly ==
  ASSUME Undamaged, NEW a \in Arrays, NEW p, Sound(p), p.this = a, Leave(a, p)
  PROVE  StepEndured
BY SoundIsWhole, LeaveWhole

\* A call that leaves two objects sound keeps Undamaged.
LEMMA LeaveBothSoundly ==
  ASSUME Undamaged, NEW a \in Arrays, NEW b \in Arrays, a # b,
         NEW pair, Sound(pair.self), pair.self.this = a,
         Sound(pair.other), pair.other.this = b, LeaveBoth(a, b, pair)
  PROVE  StepEndured
<1>1. /\ arr' = [x \in Arrays |-> arr'[x]]
      /\ arr'[a] = pair.self /\ arr'[b] = pair.other
      /\ \A x \in Arrays : x # a /\ x # b => arr'[x] = arr[x]
  BY DEF Undamaged, TypeOK, LeaveBoth
<1>2. \A x \in Arrays : /\ Whole(arr'[x]) /\ arr'[x].this = x
                        /\ arr'[x].outcome = "LogicError" => Embeds(View(arr[x]), View(arr'[x]))
  BY <1>1, LeftAlone, SoundIsWhole
<1>3. Undamaged'
  BY <1>1, <1>2, UndamagedAfter
<1> QED  BY <1>2, <1>3 DEF StepEndured

\* The two calls that may fail half-way.
LEMMA InsertValueEndured ==
  ASSUME Undamaged, Careless \subseteq ClientRules, NEW a \in Arrays, NEW idx \in Sizes,
         NEW v \in Values \cup {Unconvertible}, CallInsertValue(a, idx, v)
  PROVE  StepEndured
<1>o. PICK o, p : o = Object(a) /\ p = InsertValue(o, idx, v)  OBVIOUS
<1>1. /\ Sound(o) /\ o.outcome = "ok" /\ o.this = a /\ View(o) = View(arr[a])
      /\ HasBytes(o) /\ o.m_size < MaxSize
  BY <1>o, ObjectOfUndamaged DEF CallInsertValue, Shaped, Rule, Careless, AllRules
<1>2. o.m_size + 1 \in Sizes /\ idx \in Nat
  BY <1>1, ContentsItems, SizeAssumption DEF Sizes
<1>3. /\ Whole(p) /\ p.this = a
      /\ p.outcome = "LogicError" => Embeds(View(arr[a]), View(p))
  BY <1>1, <1>2, <1>o, InsertionLeaves
<1> QED  BY <1>3, <1>o, LeaveWhole DEF CallInsertValue

\* SetValue keeps Undamaged, also if the value does not convert.
LEMMA SetValueEndured ==
  ASSUME Undamaged, Careless \subseteq ClientRules, NEW a \in Arrays, NEW idx \in Sizes,
         NEW v \in Values \cup {Unconvertible}, CallSetValue(a, idx, v)
  PROVE  StepEndured
<1>o. PICK o, p : o = Object(a) /\ p = SetValue(o, idx, v)  OBVIOUS
<1>1. /\ Sound(o) /\ o.outcome = "ok" /\ o.this = a /\ View(o) = View(arr[a])
      /\ idx < o.m_size /\ idx \in Nat
  BY <1>o, ObjectOfUndamaged, SizeAssumption
  DEF CallSetValue, Index, Rule, Careless, AllRules, Sizes
<1>2. /\ Whole(p) /\ p.this = a
      /\ p.outcome = "LogicError" => Embeds(View(arr[a]), View(p))
  BY <1>1, <1>o, AssignmentLeaves
<1> QED  BY <1>2, <1>o, LeaveWhole DEF CallSetValue

\* The others leave sound arrays, as in a program that observes every rule.
LEMMA SetValueTypeEndured ==
  ASSUME Undamaged, Careless \subseteq ClientRules, NEW a \in Arrays, NEW t \in Types,
         CallSetValueType(a, t)
  PROVE  StepEndured
<1>o. PICK o, p : o = Object(a) /\ p = SetValueType(o, t)  OBVIOUS
<1>1. Sound(o) /\ Plain(o) /\ o.outcome = "ok" /\ o.this = a
  <2>1. o.m_state = "Uncompressed"
    BY <1>o, ObjectOfUndamaged DEF CallSetValueType, Assignable, Rule, Careless, AllRules
  <2> QED  BY <1>o, <2>1, ObjectOfUndamaged, PlainIsSound
<1>2. Sound(p) /\ p.this = a
  <2>1. CASE IsLz4(o) /\ ~IsValueTypeSupported(t)
    <3>1. p = [o EXCEPT !.outcome = "InvalidUsageError"]
      BY <1>o, <2>1 DEF SetValueType, Fail
    <3>2. OutcomeApart(o, p) /\ p.outcome = "InvalidUsageError"
      BY <1>1, <3>1, OutcomeChanged DEF Plain
    <3> QED  BY <1>1, <3>2, SameStorage DEF OutcomeApart
  <2>2. CASE (IsLz4(o) => IsValueTypeSupported(t)) /\ t = o.m_valueType
    BY <1>1, <1>o, <2>2 DEF SetValueType
  <2>3. CASE (IsLz4(o) => IsValueTypeSupported(t)) /\ t # o.m_valueType
    BY <1>1, <1>o, <2>3, SetValueTypeSound, PlainIsSound DEF Emptied
  <2> QED  BY <2>1, <2>2, <2>3
<1> QED  BY <1>2, <1>o, LeaveSoundly DEF CallSetValueType

\* AddArray with a description keeps Undamaged.
LEMMA AddStructArrayEndured ==
  ASSUME Undamaged, Careless \subseteq ClientRules, NEW a \in Arrays, NEW d \in Descs,
         NEW n \in Sizes, "Struct" \in Types, CallAddStructArray(a, d, n)
  PROVE  StepEndured
<1>o. PICK o, p : o = Object(a) /\ p = AddStructArray(o, d, n)  OBVIOUS
<1>1. /\ Plain(o) /\ o.outcome = "ok" /\ o.this = a
      /\ o.m_valueType = "Struct" => o.m_size = 0
  <2>1. /\ o.m_state = "Uncompressed"
        /\ o.m_valueType = "Struct" => o.m_size = 0
    BY <1>o, ObjectOfUndamaged DEF CallAddStructArray, Assignable, Rule, Careless, AllRules
  <2> QED  BY <1>o, <2>1, ObjectOfUndamaged, PlainIsSound
<1>2. Sound(p) /\ p.this = a
  BY <1>1, <1>o, AddStructArraySound
<1> QED  BY <1>2, <1>o, LeaveSoundly DEF CallAddStructArray

\* Resize keeps Undamaged.
LEMMA ResizeEndured ==
  ASSUME Undamaged, Careless \subseteq ClientRules, NEW a \in Arrays, NEW n \in Sizes,
         CallResize(a, n)
  PROVE  StepEndured
<1>o. PICK o, p : o = Object(a) /\ p = ResizeTo(o, n)  OBVIOUS
<1>1. Sound(o) /\ o.outcome = "ok" /\ o.this = a /\ HasBytes(o)
  BY <1>o, ObjectOfUndamaged DEF CallResize, Shaped, Rule, Careless, AllRules
<1>2. Keeps(o, p)
  BY <1>1, <1>o, ResizeToSound
<1> QED  BY <1>1, <1>2, <1>o, LeaveSoundly DEF CallResize, Keeps

\* RemoveValue keeps Undamaged.
LEMMA RemoveValueEndured ==
  ASSUME Undamaged, NEW a \in Arrays, NEW idx \in Sizes, CallRemoveValue(a, idx)
  PROVE  StepEndured
<1>o. PICK o, p : o = Object(a) /\ p = RemoveValue(o, idx)  OBVIOUS
<1>1. Sound(o) /\ o.outcome = "ok" /\ o.this = a /\ idx \in Nat /\ o.m_size \in Nat
  BY <1>o, ObjectOfUndamaged, ContentsItems, SizeAssumption DEF Sizes
<1>2. Sound(p) /\ p.this = a
  <2>1. CASE idx >= o.m_size
    BY <1>1, <1>o, <2>1 DEF RemoveValue
  <2>2. CASE idx < o.m_size
    BY <1>1, <1>o, <2>2, RemoveValueSound DEF Keeps
  <2> QED  BY <1>1, <2>1, <2>2
<1> QED  BY <1>2, <1>o, LeaveSoundly DEF CallRemoveValue

\* AddValueRange keeps Undamaged.
LEMMA AddValueRangeEndured ==
  ASSUME Undamaged, Careless \subseteq ClientRules, NEW a \in Arrays, NEW start \in Sizes,
         NEW count \in Sizes, CallAddValueRange(a, start, count)
  PROVE  StepEndured
<1>o. PICK o, p : o = Object(a) /\ p = AddValueRange(o, start, count)  OBVIOUS
<1>1. /\ Sound(o) /\ o.outcome = "ok" /\ o.this = a /\ HasBytes(o) /\ start <= o.m_size
      /\ o.m_size + count <= MaxSize
  BY <1>o, ObjectOfUndamaged DEF CallAddValueRange, Shaped, Rule, Careless, AllRules
<1>2. start \in Nat /\ count \in Nat /\ o.m_size + count \in Sizes
  BY <1>1, ContentsItems, SizeAssumption DEF Sizes
<1>3. Keeps(o, p)
  BY <1>1, <1>2, <1>o, AddValueRangeSound
<1> QED  BY <1>1, <1>3, <1>o, LeaveSoundly DEF CallAddValueRange, Keeps

\* RemoveValueRange keeps Undamaged.
LEMMA RemoveValueRangeEndured ==
  ASSUME Undamaged, Careless \subseteq ClientRules, NEW a \in Arrays, NEW start \in Sizes,
         NEW count \in Sizes, CallRemoveValueRange(a, start, count)
  PROVE  StepEndured
<1>o. PICK o, p : o = Object(a) /\ p = RemoveValueRange(o, start, count)  OBVIOUS
<1>1. Sound(o) /\ o.outcome = "ok" /\ o.this = a /\ start + count <= o.m_size
  BY <1>o, ObjectOfUndamaged DEF CallRemoveValueRange, Rule, Careless, AllRules
<1>2. start \in Nat /\ count \in Nat
  BY SizeAssumption DEF Sizes
<1>3. Keeps(o, p)
  BY <1>1, <1>2, <1>o, RemoveValueRangeSound
<1> QED  BY <1>1, <1>3, <1>o, LeaveSoundly DEF CallRemoveValueRange, Keeps

\* GetValues keeps Undamaged.
LEMMA ReadValuesEndured ==
  ASSUME Undamaged, NEW a \in Arrays, CallReadValues(a)
  PROVE  StepEndured
<1>o. PICK o, p : o = Object(a) /\ p = ReadValues(o)  OBVIOUS
<1>1. Sound(o) /\ o.this = a
  BY <1>o, ObjectOfUndamaged
<1>2. Sound(p) /\ p.this = a
  BY <1>1, <1>o, ReadValuesSound, PlainIsSound DEF Same
<1> QED  BY <1>2, <1>o, LeaveSoundly DEF CallReadValues

\* GetCompressedBlob keeps Undamaged.
LEMMA GetCompressedBlobEndured ==
  ASSUME Undamaged, Careless \subseteq ClientRules, NEW a \in Arrays, CallGetCompressedBlob(a)
  PROVE  StepEndured
<1>o. PICK o, p : o = Object(a) /\ p = GetCompressedBlob(o)  OBVIOUS
<1>1. /\ Sound(o) /\ o.this = a /\ IsLz4(o)
      /\ o.m_size > 0 \/ is_trivial_type(o.m_valueType)
  BY <1>o, ObjectOfUndamaged DEF CallGetCompressedBlob, Compressible, Rule, Careless, AllRules
<1>2. Sound(p) /\ p.this = a
  BY <1>1, <1>o, CompressSound DEF Same, GetCompressedBlob
<1> QED  BY <1>2, <1>o, LeaveSoundly DEF CallGetCompressedBlob

\* Saving and loading keeps Undamaged.
LEMMA SaveAndLoadEndured ==
  ASSUME Undamaged, Careless \subseteq ClientRules, NEW a \in Arrays, CallSaveAndLoad(a)
  PROVE  StepEndured
<1>o. PICK o, p : o = Object(a) /\ p = SaveAndLoad(o)  OBVIOUS
<1>1. /\ Sound(o) /\ o.outcome = "ok" /\ o.this = a
      /\ IsLz4(o) => o.m_size > 0 \/ is_trivial_type(o.m_valueType)
      /\ ~IsLz4(o) => o.m_valueType # "Struct"
  BY <1>o, ObjectOfUndamaged DEF CallSaveAndLoad, Compressible, Rule, Careless, AllRules
<1>2. Sound(p) /\ p.this = a
  BY <1>1, <1>o, SaveAndLoadSound DEF Restored
<1> QED  BY <1>2, <1>o, LeaveSoundly DEF CallSaveAndLoad

\* What the rules for assignments say of the two arrays.
LEMMA CopyableObjects ==
  ASSUME Undamaged, Careless \subseteq ClientRules, NEW a \in Arrays, NEW b \in Arrays \ {a},
         Assignable(arr[a]), Copyable(arr[a], arr[b]),
         NEW o, o = Object(a), NEW p, p = Object(b)
  PROVE  /\ Plain(o) /\ o.outcome = "ok" /\ o.this = a /\ o.m_valueType # "Struct"
         /\ Sound(p) /\ p.outcome = "ok" /\ p.this = b /\ p.m_valueType # "Struct"
         /\ IsLz4(o) => IsValueTypeSupported(p.m_valueType)
         /\ o.m_size = arr[a].m_size /\ p.m_size = arr[b].m_size
<1>1. o.m_state = "Uncompressed"
  BY ObjectOfUndamaged DEF Assignable, Rule, Careless, AllRules
<1>2. /\ o.m_valueType # "Struct" /\ p.m_valueType # "Struct"
      /\ IsLz4(o) => IsValueTypeSupported(p.m_valueType)
  BY ObjectOfUndamaged DEF Copyable, Rule, Careless, AllRules
<1> QED  BY <1>1, <1>2, ObjectOfUndamaged, PlainIsSound

\* Assigning a copy keeps Undamaged.
LEMMA CopyAssignEndured ==
  ASSUME Undamaged, Careless \subseteq ClientRules, NEW a \in Arrays, NEW b \in Arrays \ {a},
         CallCopyAssign(a, b)
  PROVE  StepEndured
<1>o. PICK o, p, pair : o = Object(a) /\ p = Object(b) /\ pair = CopyAssign(o, p)  OBVIOUS
<1>1. /\ Plain(o) /\ o.outcome = "ok" /\ o.this = a /\ o.m_valueType # "Struct"
      /\ Sound(p) /\ p.outcome = "ok" /\ p.this = b /\ p.m_valueType # "Struct"
      /\ IsLz4(o) => IsValueTypeSupported(p.m_valueType)
  BY <1>o, CopyableObjects DEF CallCopyAssign
<1>2. Copied(o, p, pair)
  BY <1>1, <1>o, CopyAssignSound
<1> QED  BY <1>1, <1>2, <1>o, LeaveBothSoundly DEF CallCopyAssign, Copied, Same

\* Assigning by a move keeps Undamaged.
LEMMA MoveAssignEndured ==
  ASSUME Undamaged, Careless \subseteq ClientRules, NEW a \in Arrays, NEW b \in Arrays \ {a},
         CallMoveAssign(a, b)
  PROVE  StepEndured
<1>o. PICK o, p, pair : o = Object(a) /\ p = Object(b) /\ pair = MoveAssign(o, p)  OBVIOUS
<1>1. /\ Plain(o) /\ o.outcome = "ok" /\ o.this = a
      /\ Plain(p) /\ p.outcome = "ok" /\ p.this = b
  <2>1. o.m_state = "Uncompressed" /\ p.m_state = "Uncompressed"
    BY <1>o, ObjectOfUndamaged DEF CallMoveAssign, Assignable, Rule, Careless, AllRules
  <2> QED  BY <1>o, <2>1, ObjectOfUndamaged, PlainIsSound
<1>2. /\ Sound(pair.self) /\ Sound(pair.other)
      /\ pair.self.this = a /\ Emptied(p, "Nil", pair.other)
  BY <1>1, <1>o, MoveAssignSound
<1> QED  BY <1>1, <1>2, <1>o, LeaveBothSoundly DEF CallMoveAssign, Emptied

\* Merge keeps Undamaged.
LEMMA MergeEndured ==
  ASSUME Undamaged, Careless \subseteq ClientRules, NEW a \in Arrays, NEW b \in Arrays \ {a},
         NEW overwrite \in BOOLEAN, CallMerge(a, b, overwrite)
  PROVE  StepEndured
<1>o. PICK o, p, pair : o = Object(a) /\ p = Object(b) /\ pair = Merge(o, p, overwrite)
  OBVIOUS
<1>1. /\ Plain(o) /\ o.outcome = "ok" /\ o.this = a /\ o.m_valueType # "Struct"
      /\ Sound(p) /\ p.outcome = "ok" /\ p.this = b /\ p.m_valueType # "Struct"
      /\ IsLz4(o) => IsValueTypeSupported(p.m_valueType)
      /\ o.m_size = arr[a].m_size /\ p.m_size = arr[b].m_size
  BY <1>o, CopyableObjects DEF CallMerge
<1>2. Sound(pair.self) /\ Sound(pair.other) /\ pair.self.this = a /\ pair.other.this = b
  <2>1. CASE overwrite \/ o.m_valueType # p.m_valueType
    BY <1>1, <1>o, <2>1, MergeFreshSound DEF Copied, Same
  <2>2. CASE ~overwrite /\ o.m_valueType = p.m_valueType
    <3>1. o.m_size + p.m_size \in Sizes
      BY <1>1, <2>2, ContentsItems, PlainIsSound, SizeAssumption DEF CallMerge, Sizes
    <3> QED  BY <1>1, <1>o, <2>2, <3>1, MergeAppendSound DEF Same
  <2> QED  BY <2>1, <2>2
<1> QED  BY <1>2, <1>o, LeaveBothSoundly DEF CallMerge

-----------------------------------------------------------------------------

\* Every step keeps Undamaged, and a failed call leaves the items it found.
LEMMA NextEndured ==
  ASSUME Undamaged, Careless \subseteq ClientRules, [Next]_vars
  PROVE  Undamaged' /\ (UNCHANGED vars \/ StepEndured)
<1>1. CASE UNCHANGED vars
  BY <1>1 DEF vars, Undamaged, TypeOK, Object
<1>2. CASE Next
  <2> SUFFICES StepEndured
    BY DEF StepEndured
  <2> PICK a \in Arrays :
        \/ \E t \in Types : CallSetValueType(a, t)
        \/ \E d \in Descs, n \in Sizes : "Struct" \in Types /\ CallAddStructArray(a, d, n)
        \/ \E n \in Sizes : CallResize(a, n)
        \/ \E idx \in Sizes, v \in Values \cup {Unconvertible} :
             CallInsertValue(a, idx, v) \/ CallSetValue(a, idx, v)
        \/ \E idx \in Sizes : CallRemoveValue(a, idx)
        \/ \E start \in Sizes, count \in Sizes :
             CallAddValueRange(a, start, count) \/ CallRemoveValueRange(a, start, count)
        \/ CallReadValues(a)
        \/ CallGetCompressedBlob(a)
        \/ CallSaveAndLoad(a)
        \/ \E b \in Arrays \ {a} :
             \/ CallCopyAssign(a, b)
             \/ CallMoveAssign(a, b)
             \/ \E f \in BOOLEAN : CallMerge(a, b, f)
    BY <1>2 DEF Next
  <2>1. CASE \E t \in Types : CallSetValueType(a, t)
    BY <2>1, SetValueTypeEndured
  <2>2. CASE \E d \in Descs, n \in Sizes : "Struct" \in Types /\ CallAddStructArray(a, d, n)
    BY <2>2, AddStructArrayEndured
  <2>3. CASE \E n \in Sizes : CallResize(a, n)
    BY <2>3, ResizeEndured
  <2>4. CASE \E idx \in Sizes, v \in Values \cup {Unconvertible} :
               CallInsertValue(a, idx, v) \/ CallSetValue(a, idx, v)
    BY <2>4, InsertValueEndured, SetValueEndured
  <2>5. CASE \E idx \in Sizes : CallRemoveValue(a, idx)
    BY <2>5, RemoveValueEndured
  <2>6. CASE \E start \in Sizes, count \in Sizes :
               CallAddValueRange(a, start, count) \/ CallRemoveValueRange(a, start, count)
    BY <2>6, AddValueRangeEndured, RemoveValueRangeEndured
  <2>7. CASE CallReadValues(a)
    BY <2>7, ReadValuesEndured
  <2>8. CASE CallGetCompressedBlob(a)
    BY <2>8, GetCompressedBlobEndured
  <2>9. CASE CallSaveAndLoad(a)
    BY <2>9, SaveAndLoadEndured
  <2>10. CASE \E b \in Arrays \ {a} : CallCopyAssign(a, b)
    BY <2>10, CopyAssignEndured
  <2>11. CASE \E b \in Arrays \ {a} : CallMoveAssign(a, b)
    BY <2>11, MoveAssignEndured
  <2>12. CASE \E b \in Arrays \ {a} : \E f \in BOOLEAN : CallMerge(a, b, f)
    BY <2>12, MergeEndured
  <2> QED  BY <2>1, <2>2, <2>3, <2>4, <2>5, <2>6, <2>7, <2>8, <2>9, <2>10, <2>11, <2>12
<1> QED  BY <1>1, <1>2

\* Whatever fails half-way leaves sound arrays behind: Undamaged is an invariant of
\* every program that observes all rules but Convertible and InsertAtHome.
THEOREM UndamagedAlways ==
  ASSUME Careless \subseteq ClientRules
  PROVE  Spec => []Undamaged
<1>1. Init => Undamaged
  <2>1. Init => Consistent
    BY InitSound
  <2>2. ASSUME Consistent  PROVE Undamaged
    <3>1. ASSUME NEW a \in Arrays  PROVE Sound(Object(a)) /\ arr[a].outcome \in Endings
      BY <2>2, ObjectSound DEF Consistent, Sound, Ruled, Endings
    <3> QED  BY <2>2, <3>1 DEF Undamaged, Consistent, Endings
  <2> QED  BY <2>1, <2>2
<1>2. Undamaged /\ [Next]_vars => Undamaged'
  BY NextEndured
<1> QED  BY <1>1, <1>2, PTL DEF Spec

\* Calls that fail half-way neither lose items nor leave them in two places.
THEOREM ItemsStayInOnePlace ==
  ASSUME Careless \subseteq ClientRules
  PROVE  Spec => []ItemsInOnePlace
<1>1. Undamaged => ItemsInOnePlace
  <2>1. ASSUME Undamaged, NEW a \in Arrays  PROVE OnePlace(arr[a])
    <3>1. OutcomeApart(arr[a], Object(a))
      BY <2>1, OutcomeChanged DEF Undamaged, TypeOK, IsObject, Object
    <3> QED  BY <2>1, <3>1, SameStorage DEF Undamaged, Sound
  <2> QED  BY <2>1 DEF ItemsInOnePlace
<1> QED  BY <1>1, UndamagedAlways, PTL

\* Nor do they leave struct items under a description that is not theirs.
THEOREM DescriptionStillFits ==
  ASSUME Careless \subseteq ClientRules
  PROVE  Spec => []DescriptionFits
<1>1. Undamaged => DescriptionFits
  <2>1. ASSUME Undamaged, NEW a \in Arrays  PROVE Described(arr[a])
    <3>1. OutcomeApart(arr[a], Object(a))
      BY <2>1, OutcomeChanged DEF Undamaged, TypeOK, IsObject, Object
    <3> QED  BY <2>1, <3>1, SameStorage DEF Undamaged, Sound
  <2> QED  BY <2>1 DEF DescriptionFits
<1> QED  BY <1>1, UndamagedAlways, PTL

\* A call that throws LogicError loses, overwrites and reorders no item.
THEOREM FailedCallsKeepItems ==
  ASSUME Careless \subseteq ClientRules
  PROVE  Spec => FailedCallKeepsItems
<1>1. Undamaged /\ [Next]_vars =>
        [\A a \in Arrays :
           arr'[a].outcome = "LogicError" => Embeds(View(arr[a]), View(arr'[a]))]_vars
  BY NextEndured DEF StepEndured
<1> QED  BY <1>1, UndamagedAlways, PTL DEF Spec, FailedCallKeepsItems
=============================================================================
