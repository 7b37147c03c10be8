------------------------------ MODULE BlobFormat ------------------------------
(***************************************************************************)
(* What is packed into LZ4 blobs: the strings and elements of a compressed *)
(* array (src/src/array.cpp, ArrayLz4::Compress and Decompress), and whole *)
(* arrays and blobs that a program packs and fetches by hand               *)
(* (src/src/property.cpp, Property::Compress, Decompress and GetBlobData). *)
(***************************************************************************)
EXTENDS BinaryFormat

CONSTANT Unpacked   \* LZ4: what the compressed arrays of the program decompress to

\* LZ4 is external: its output is one character that stands for what went in.
compress_lz4_blob(bytes) ==
  [uncompressedSize |-> Len(bytes),
   compressedData |-> IF bytes = <<>> THEN <<>> ELSE <<bytes>>]

decompress_lz4_blob(blob) ==
  IF blob.uncompressedSize = 0 THEN <<>> ELSE blob.compressedData[1]

(***************************************************************************)
(* ArrayLz4::Compress and Decompress of objects.                           *)
(***************************************************************************)
GetStringPrefixSizeRequirement(str) ==
  IF Len(str) < EXTENDED_STRING_IDENTIFIER THEN Width("u8") ELSE Width("u32")

\* The size of the buffer that Compress allocates for strings.
BufferSize(strings) ==
  FoldLeft(LAMBDA n, str : n + GetStringPrefixSizeRequirement(str) + Len(str),
           Width("u32"), strings)

PackedBytes(valueType, items, order) ==
  IF items = <<>> THEN <<>>
  ELSE Field("u32", Len(items))
       \o Concat(LAMBDA x : IF valueType = "String" THEN StringBytes(x)
                                                    ELSE ElementBytes(x, order), items)

UnpackedItemsAsWritten(valueType, bytes) ==  \* mutant: strings have one byte for their length
  Then(Get(bytes, 0, "u32"), LAMBDA p, n :
    GetMany(LAMBDA q, i : IF valueType = "String"
                            THEN Then(Get(bytes, q, "u8"), LAMBDA r, len : GetChars(bytes, r, len))
                            ELSE ReadElement(bytes, q), n, p))

UnpackedItems(valueType, bytes) ==
  Then(Get(bytes, 0, "u32"), LAMBDA p, n :
    GetMany(LAMBDA q, i : IF valueType = "String" THEN GetString(bytes, q)
                                                  ELSE ReadElement(bytes, q), n, p))

(***************************************************************************)
(* Property::Compress, Decompress and GetBlobData.  Arrays of trivial      *)
(* values and of structs are a number of bytes in memory.                  *)
(***************************************************************************)
ItemsOf(p) == IF p.type = "ArrayLz4" THEN Unpacked[p.value] ELSE p.value.items

IsBytes(p) ==
  \/ p.type = "Blob"
  \/ p.type \in {"Array", "ArrayLz4"} /\ p.value.valueType \in Trivial \cup {"Struct"}

InMemory(p) ==
  IF p.type = "Blob" THEN [type |-> "Blob", value |-> Chars(p.value)]
  ELSE [type |-> p.type, value |->
          [valueType |-> p.value.valueType, size |-> Len(ItemsOf(p)),
           bytes |-> Concat(LAMBDA x : IF p.value.valueType = "Struct"
                                         THEN StructData(p.value.strct, x)
                                         ELSE Field(p.value.valueType, x), ItemsOf(p))]]

BlobOf(bytes) == [type |-> "BlobLz4", value |-> compress_lz4_blob(bytes)]

\* The property afterwards, itself if it is refused.
Compress(p) ==
  CASE p.type = "Blob" -> BlobOf(p.value)
    [] p.type \in {"Array", "ArrayLz4"} ->
         IF p.value.valueType \in Trivial
           THEN BlobOf(SubSeq(p.value.bytes, 1, Width(p.value.valueType) * p.value.size))
           ELSE p
    [] OTHER -> p

DecompressAnyway(p, valueType) ==  \* mutant: what is left of the last item is dropped
  IF p.type # "BlobLz4" THEN p
  ELSE LET bytes == decompress_lz4_blob(p.value) IN
    IF valueType = "none" THEN [type |-> "Blob", value |-> bytes]
    ELSE LET size == p.value.uncompressedSize \div Width(valueType)
         IN  [type |-> "Array", value |->
                [valueType |-> valueType, size |-> size,
                 bytes |-> SubSeq(bytes, 1, size * Width(valueType))]]

\* As an array of a type, if that divides the bytes, or as a blob.  The size of
\* the type is not zero: the code divides by it.
Decompress(p, valueType) ==
  IF p.type # "BlobLz4" THEN p
  ELSE IF valueType = "none"
    THEN [type |-> "Blob", value |-> decompress_lz4_blob(p.value)]
  ELSE IF valueType \notin Trivial \/ p.value.uncompressedSize % Width(valueType) # 0 THEN p
  ELSE [type |-> "Array", value |->
          [valueType |-> valueType, size |-> p.value.uncompressedSize \div Width(valueType),
           bytes |-> decompress_lz4_blob(p.value)]]

BlobBytes(p) ==
  CASE p.type = "Blob" -> p.value
    [] p.type = "BlobLz4" -> decompress_lz4_blob(p.value)
    [] p.type \in {"Array", "ArrayLz4"} -> p.value.bytes

\* A buffer of a size, or none, that the bytes are copied to if it is just large
\* enough; the size it takes is returned in any case.
GetBlobData(p, buffer) ==
  IF p.type \notin {"Blob", "BlobLz4", "Array", "ArrayLz4"}
    THEN [result |-> "NotABlobType", size |-> 0, bytes |-> <<>>]
  ELSE LET bytes == BlobBytes(p)
       IN  IF buffer.null \/ buffer.size # Len(bytes)
             THEN [result |-> "InsufficientSize", size |-> Len(bytes), bytes |-> <<>>]
             ELSE [result |-> "Success", size |-> Len(bytes), bytes |-> bytes]

\* Into a vector of n items, which is resized if need be.  A vector without items
\* has no buffer; one that loses all of its items keeps it.
GetBlobDataInto(p, n, itemSize) ==
  LET first == GetBlobData(p, [null |-> n = 0, size |-> n * itemSize])
  IN  IF first.result # "InsufficientSize" \/ n * itemSize = first.size THEN first
      ELSE IF first.size % itemSize > 0 THEN [first EXCEPT !.result = "ValueTypeMismatch"]
      ELSE GetBlobData(p, [null |-> FALSE, size |-> first.size])
=============================================================================
