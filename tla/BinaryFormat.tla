---------------------------- MODULE BinaryFormat ----------------------------
(***************************************************************************)
(* The binary file format: what Property::Write puts into a file, what     *)
(* Property::Read makes of it, and the two ways through a file that read   *)
(* only some of it, Data::SkipProperty and Data::LoadProperty              *)
(* (src/src/property.cpp, src/src/data.cpp).                               *)
(*                                                                         *)
(* A property is a record [type, value].  A file is a sequence of bytes,   *)
(* and a byte knows the field it is part of: reading a field anywhere but  *)
(* where one of that kind was written is a misread.                        *)
(***************************************************************************)
EXTENDS Integers, SequencesExt

CONSTANTS
  EXTENDED_STRING_IDENTIFIER,  \* the length of 255 that announces a longer one
  MaxKeyLength                 \* 255, the length that fits the byte of a key

ASSUME LengthAssumption == EXTENDED_STRING_IDENTIFIER \in Nat /\ MaxKeyLength \in Nat

(***************************************************************************)
(* Fields and bytes.  These types stand for all the trivial ones.           *)
(***************************************************************************)
Trivial == {"Nil", "Int8", "UInt32", "Float", "Vector2", "Quaternion", "Transform"}

Width(kind) ==
  CASE kind = "Nil" -> 0
    [] kind \in {"char", "type", "u8", "Int8"} -> 1
    [] kind = "u16" -> 2
    [] kind \in {"u32", "UInt32", "Float"} -> 4
    [] kind \in {"u64", "header", "Vector2"} -> 8
    [] kind = "Quaternion" -> 16
    [] kind = "Transform" -> 28

Field(kind, v) == [i \in 1..Width(kind) |-> <<kind, i, v>>]

Chars(s) == FlattenSeq([i \in DOMAIN s |-> Field("char", s[i])])

\* The size of a block is written in front of it, in a field of its own.
Sized(kind, block) ==
  Field(kind, IF kind = "u16" THEN Len(block) % 65536 ELSE Len(block)) \o block

Concat(F(_), s) == FlattenSeq([i \in DOMAIN s |-> F(s[i])])

(***************************************************************************)
(* Property::Write.  order is the order in which the hash tables of the    *)
(* elements iterate over their keys.                                       *)
(***************************************************************************)
KeysOf(children, order) == SelectSeq(order, LAMBDA key : key \in DOMAIN children)

StringBytesShort(str) ==  \* mutant: a length of 255 is written as it is
  (IF Len(str) <= EXTENDED_STRING_IDENTIFIER
     THEN Field("u8", Len(str))
     ELSE Field("u8", EXTENDED_STRING_IDENTIFIER) \o Field("u32", Len(str)))
  \o Chars(str)

StringBytes(str) ==
  (IF Len(str) < EXTENDED_STRING_IDENTIFIER
     THEN Field("u8", Len(str))
     ELSE Field("u8", EXTENDED_STRING_IDENTIFIER) \o Field("u32", Len(str)))
  \o Chars(str)

Cut(key) == SubSeq(key, 1, IF Len(key) > MaxKeyLength THEN MaxKeyLength ELSE Len(key))

WriteKey(key) == Field("u8", Len(Cut(key))) \o Chars(Cut(key))

StructHeader(strct) ==
  Field("u8", Len(strct)) \o Concat(LAMBDA m : Field("type", m.type), strct)
                          \o Concat(LAMBDA m : StringBytes(m.name), strct)

StructData(strct, data) ==
  FlattenSeq([i \in DOMAIN strct |-> Field(strct[i].type, data[i])])

ArrayLz4Bytes(a) ==
  Field("u64", Len(a.blob.compressedData)) \o Field("type", a.valueType)
  \o (IF a.valueType = "Struct" THEN Sized("u16", StructHeader(a.strct))
      ELSE IF a.valueType \in {"Element", "String"} THEN Field("u64", a.blob.uncompressedSize)
      ELSE <<>>)
  \o Field("u32", a.size) \o Chars(a.blob.compressedData)

RECURSIVE Write(_, _, _)

WriteProperty(p, order) == Field("type", p.type) \o Write(p.type, p.value, order)

ElementBytes(children, order) ==
  LET keys == KeysOf(children, order)
  IN  Sized("u64", Field("u32", Len(keys)) \o Concat(WriteKey, keys)
                   \o Concat(LAMBDA key : WriteProperty(children[key], order), keys))

ArrayBytes(a, order) ==
  Field("type", a.valueType) \o Field("u32", Len(a.items))
  \o (IF a.valueType \in Trivial
        THEN Concat(LAMBDA x : Field(a.valueType, x), a.items)
      ELSE IF a.valueType = "Struct"
        THEN Sized("u64", Sized("u16", StructHeader(a.strct))
                          \o Concat(LAMBDA x : StructData(a.strct, x), a.items))
      ELSE Sized("u64", Concat(LAMBDA x : Write(a.valueType, x, order), a.items)))

Write(type, v, order) ==
  CASE type \in Trivial -> Field(type, v)
    [] type \in {"String", "Reference"} -> StringBytes(v)
    [] type = "Utf8String" -> Field("u32", Len(v)) \o Chars(v)
    [] type = "Blob" -> Field("u64", Len(v)) \o Chars(v)
    [] type = "BlobLz4" -> Field("u64", Len(v.compressedData))
                           \o Field("u64", v.uncompressedSize) \o Chars(v.compressedData)
    [] type = "Element" -> ElementBytes(v, order)
    [] type = "Array" -> ArrayBytes(v, order)
    [] type = "ArrayLz4" -> ArrayLz4Bytes(v)
    [] type = "Struct" -> Sized("u16", StructHeader(v.strct) \o StructData(v.strct, v.data))

(***************************************************************************)
(* Reading.  A reader returns the value and the position behind it, or why *)
(* there is none.                                                          *)
(***************************************************************************)
Got(at, v) == [ok |-> TRUE, at |-> at, val |-> v]
Failed(why) == [ok |-> FALSE, at |-> 0, val |-> why]

Then(got, Continue(_, _)) == IF got.ok THEN Continue(got.at, got.val) ELSE got

IsField(f, at, kind) ==
  /\ at + Width(kind) <= Len(f)
  /\ \A i \in 1..Width(kind) : f[at + i][1] = kind /\ f[at + i][2] = i

Get(f, at, kind) ==
  IF kind = "Nil" THEN Got(at, "nil")
  ELSE IF IsField(f, at, kind) THEN Got(at + Width(kind), f[at + 1][3])
  ELSE Failed("misread")

Seek(at) == Got(at, "skipped")

\* n values in a row, the i-th read by GetAt(at, i).
GetMany(GetAt(_, _), n, start) ==
  FoldLeft(LAMBDA got, i : Then(got, LAMBDA at, s :
             Then(GetAt(at, i), LAMBDA next, v : Got(next, Append(s, v)))),
           Got(start, <<>>), [i \in 1..n |-> i])

GetChars(f, at, n) == GetMany(LAMBDA p, i : Get(f, p, "char"), n, at)

\* The length of a String or Reference, and the position of its characters.
GetStringLength(f, at) ==
  Then(Get(f, at, "u8"), LAMBDA p, len :
    IF len = EXTENDED_STRING_IDENTIFIER THEN Get(f, p, "u32") ELSE Got(p, len))

GetString(f, at) == Then(GetStringLength(f, at), LAMBDA p, len : GetChars(f, p, len))

ReadKey(f, at) == Then(Get(f, at, "u8"), LAMBDA p, len : GetChars(f, p, len))

ReadStructHeader(f, at) ==
  Then(Get(f, at, "u8"), LAMBDA p, n :
  Then(GetMany(LAMBDA q, i : Get(f, q, "type"), n, p), LAMBDA q, types :
  Then(GetMany(LAMBDA r, i : GetString(f, r), n, q), LAMBDA r, names :
    Got(r, [i \in 1..n |-> [type |-> types[i], name |-> names[i]]]))))

GetDataSizeRequirement(strct) == FoldLeft(LAMBDA n, m : (n + Width(m.type)) % 65536, 0, strct)

GetStructData(f, at, strct) ==
  GetMany(LAMBDA p, i : Get(f, p, strct[i].type), Len(strct), at)

ReadStruct(f, at) ==
  Then(ReadStructHeader(f, at + Width("u16")), LAMBDA p, strct :
  Then(GetStructData(f, p, strct), LAMBDA q, data :
    Got(q, [strct |-> strct, data |-> data])))

ReadBlobLz4(f, at) ==
  Then(Get(f, at, "u64"), LAMBDA p, compressedSize :
  Then(Get(f, p, "u64"), LAMBDA q, uncompressedSize :
  Then(GetChars(f, q, compressedSize), LAMBDA r, data :
    Got(r, [compressedData |-> data, uncompressedSize |-> uncompressedSize]))))

\* The uncompressed size of bytes is computed, that of objects is in the file.
ReadArrayLz4(f, at) ==
  Then(Get(f, at, "u64"), LAMBDA p, compressedSize :
  Then(Get(f, p, "type"), LAMBDA q, valueType :
  Then(IF valueType = "Struct" THEN ReadStructHeader(f, q + Width("u16"))
                               ELSE Got(q, <<>>), LAMBDA r, strct :
  Then(IF valueType \in {"Element", "String"} THEN Get(f, r, "u64")
                                              ELSE Got(r, 0), LAMBDA s, stored :
  Then(Get(f, s, "u32"), LAMBDA t, size :
  Then(GetChars(f, t, compressedSize), LAMBDA u, data :
    Got(u, [valueType |-> valueType, strct |-> strct, size |-> size,
            blob |-> [compressedData |-> data, uncompressedSize |->
              IF valueType \in Trivial THEN size * Width(valueType)
              ELSE IF valueType = "Struct" THEN size * GetDataSizeRequirement(strct)
              ELSE stored]])))))))

RECURSIVE Read(_, _, _)

ReadProperty(f, at) ==
  Then(Get(f, at, "type"), LAMBDA p, type :
  Then(Read(f, p, type), LAMBDA q, v : Got(q, [type |-> type, value |-> v])))

\* Of two equal keys the later one stays.
ReadElement(f, at) ==
  Then(Get(f, at + Width("u64"), "u32"), LAMBDA p, n :
  Then(GetMany(LAMBDA q, i : ReadKey(f, q), n, p), LAMBDA q, keys :
  Then(GetMany(LAMBDA r, i : ReadProperty(f, r), n, q), LAMBDA r, props :
    Got(r, [key \in {keys[i] : i \in 1..n} |->
              props[CHOOSE i \in 1..n : keys[i] = key /\ \A j \in (i + 1)..n : keys[j] # key]]))))

\* The block of a struct array with items is too small for what is read into
\* it (ArrayStorage, ReadArray).
ReadArray(f, at) ==
  Then(Get(f, at, "type"), LAMBDA p, valueType :
  Then(Get(f, p, "u32"), LAMBDA q, n :
    IF valueType \in Trivial
      THEN Then(GetMany(LAMBDA r, i : Get(f, r, valueType), n, q), LAMBDA s, items :
             Got(s, [valueType |-> valueType, strct |-> <<>>, items |-> items]))
    ELSE IF valueType # "Struct"
      THEN Then(GetMany(LAMBDA r, i : Read(f, r, valueType), n, q + Width("u64")),
             LAMBDA s, items :
             Got(s, [valueType |-> valueType, strct |-> <<>>, items |-> items]))
    ELSE IF n > 0 THEN Failed("undefined")
    ELSE Then(ReadStructHeader(f, q + Width("u64") + Width("u16")), LAMBDA s, strct :
           Got(s, [valueType |-> valueType, strct |-> strct, items |-> <<>>]))))

Read(f, at, type) ==
  CASE type \in Trivial -> Get(f, at, type)
    [] type \in {"String", "Reference"} -> GetString(f, at)
    [] type = "Utf8String" -> Then(Get(f, at, "u32"), LAMBDA p, n : GetChars(f, p, n))
    [] type = "Blob" -> Then(Get(f, at, "u64"), LAMBDA p, n : GetChars(f, p, n))
    [] type = "BlobLz4" -> ReadBlobLz4(f, at)
    [] type = "Element" -> ReadElement(f, at)
    [] type = "Array" -> ReadArray(f, at)
    [] type = "ArrayLz4" -> ReadArrayLz4(f, at)
    [] type = "Struct" -> ReadStruct(f, at)

(***************************************************************************)
(* Data::SkipProperty.                                                     *)
(***************************************************************************)
SkipSized(f, at, kind) == Then(Get(f, at, kind), LAMBDA p, n : Seek(p + n))

SkipArray(f, at) ==
  Then(Get(f, at, "type"), LAMBDA p, valueType :
    IF valueType \in Trivial
      THEN Then(Get(f, p, "u32"), LAMBDA q, n : Seek(q + n * Width(valueType)))
      ELSE SkipSized(f, p + Width("u32"), "u64"))

SkipArrayLz4Plain(f, at) ==  \* mutant: objects and descriptions are overlooked
  Then(Get(f, at, "u64"), LAMBDA p, compressedSize :
    Seek(p + Width("type") + Width("u32") + compressedSize))

SkipArrayLz4(f, at) ==
  Then(Get(f, at, "u64"), LAMBDA p, compressedSize :
  Then(Get(f, p, "type"), LAMBDA q, valueType :
  Then(IF valueType = "Struct" THEN SkipSized(f, q, "u16")
       ELSE IF valueType = "Element" THEN Seek(q + Width("u64"))
       ELSE Seek(q), LAMBDA r, skipped :
    Seek(r + Width("u32") + compressedSize))))

SkipProperty(f, at, type) ==
  CASE type \in Trivial -> Seek(at + Width(type))
    [] type \in {"String", "Reference"} ->
         Then(GetStringLength(f, at), LAMBDA p, len : Seek(p + len))
    [] type = "Utf8String" -> SkipSized(f, at, "u32")
    [] type \in {"Blob", "Element"} -> SkipSized(f, at, "u64")
    [] type = "BlobLz4" ->
         Then(Get(f, at, "u64"), LAMBDA p, compressedSize :
           Seek(p + Width("u64") + compressedSize))
    [] type = "Array" -> SkipArray(f, at)
    [] type = "ArrayLz4" -> SkipArrayLz4(f, at)
    [] type = "Struct" -> SkipSized(f, at, "u16")

(***************************************************************************)
(* Data::LoadProperty: the property at a path, a sequence of keys and of   *)
(* indices, without reading the others.                                    *)
(***************************************************************************)
Digits == << <<"0">>, <<"1">> >>
IsInteger(name) == \E i \in DOMAIN Digits : Digits[i] = name
ToInt(name) == (CHOOSE i \in DOMAIN Digits : Digits[i] = name) - 1

NotFound == Failed("PropertyLoadError")

ReadAs(f, at, type) ==
  Then(Read(f, at, type), LAMBDA p, v : Got(p, [type |-> type, value |-> v]))

RECURSIVE LoadFrom(_, _, _, _)

LoadItem(f, at, path) ==
  Then(Get(f, at, "type"), LAMBDA p, valueType :
  Then(Get(f, p, "u32"), LAMBDA q, n :
    IF ~IsInteger(Head(path)) \/ ToInt(Head(path)) >= n THEN NotFound
    ELSE LET i == ToInt(Head(path)) IN
      IF valueType \in Trivial
        THEN IF Len(path) > 1 THEN NotFound
             ELSE ReadAs(f, q + i * Width(valueType), valueType)
      ELSE Then(GetMany(LAMBDA r, j : SkipProperty(f, r, valueType), i, q + Width("u64")),
             LAMBDA r, skipped :
               IF Len(path) = 1 THEN ReadAs(f, r, valueType)
               ELSE LoadFrom(f, r, valueType, Tail(path)))))

LoadChildFirst(f, at, path) ==  \* mutant: of two equal keys the first one counts
  Then(Get(f, at + Width("u64"), "u32"), LAMBDA p, n :
  Then(GetMany(LAMBDA q, i : ReadKey(f, q), n, p), LAMBDA q, keys :
    IF \A i \in 1..n : keys[i] # Head(path) THEN NotFound
    ELSE LET ichild == SelectInSeq(keys, LAMBDA key : key = Head(path))
         IN  Then(GetMany(LAMBDA r, i : Then(Get(f, r, "type"), LAMBDA s, type :
                                               SkipProperty(f, s, type)), ichild - 1, q),
               LAMBDA r, skipped :
                 IF Len(path) = 1 THEN ReadProperty(f, r)
                 ELSE Then(Get(f, r, "type"), LAMBDA s, type :
                        LoadFrom(f, s, type, Tail(path))))))

LoadChild(f, at, path) ==
  Then(Get(f, at + Width("u64"), "u32"), LAMBDA p, n :
  Then(GetMany(LAMBDA q, i : ReadKey(f, q), n, p), LAMBDA q, keys :
    IF \A i \in 1..n : keys[i] # Head(path) THEN NotFound
    ELSE LET ichild == CHOOSE i \in 1..n : keys[i] = Head(path)
                                           /\ \A j \in (i + 1)..n : keys[j] # Head(path)
         IN  Then(GetMany(LAMBDA r, i : Then(Get(f, r, "type"), LAMBDA s, type :
                                               SkipProperty(f, s, type)), ichild - 1, q),
               LAMBDA r, skipped :
                 IF Len(path) = 1 THEN ReadProperty(f, r)
                 ELSE Then(Get(f, r, "type"), LAMBDA s, type :
                        LoadFrom(f, s, type, Tail(path))))))

LoadFrom(f, at, type, path) ==
  CASE type = "Element" -> LoadChild(f, at, path)
    [] type = "Array" -> LoadItem(f, at, path)
    [] type \notin {"Element", "Array"} -> NotFound
=============================================================================
