---------------------------- MODULE AsciiFormat ----------------------------
(***************************************************************************)
(* The text format: what ToAscii makes of a property and what the parser   *)
(* of LoadAscii makes of a text (src/src/ascii.cpp).                       *)
(*                                                                         *)
(* A text is a sequence of characters.  A numeral and the name of a type   *)
(* count as one character: the parser never looks inside them.  White      *)
(* space is one character wherever it is written, and base64 data are the  *)
(* bytes themselves, none of which is a bracket.                           *)
(***************************************************************************)
EXTENDS BlobFormat

CONSTANT Sorted   \* all keys of the program, in the order of std::sort

EOF == "EOF"
QUOTE == "\""
BACKSLASH == "\\"

CONTROL_CHARACTERS == {"{", "}", "[", "]", "<", ">", "$", ",", ":", ";"}
WHITESPACE_CHARACTERS == {" ", "\t", "\n", "\r"}

does_key_require_quotes(key) ==
  \E i \in DOMAIN key : key[i] \in CONTROL_CHARACTERS \cup WHITESPACE_CHARACTERS \cup {"/"}

enum_type_to_ascii ==
  [ Nil |-> "nil", Int8 |-> "int8", UInt32 |-> "uint32", Float |-> "float",
    Vector2 |-> "vec2", Quaternion |-> "quat", Transform |-> "transform",
    String |-> "string", Reference |-> "ref", Utf8String |-> "utf8",
    Blob |-> "blob", BlobLz4 |-> "lz4", Element |-> "element", Struct |-> "struct",
    Array |-> "array", ArrayLz4 |-> "arrayLz4" ]

\* A word of the text as the type it names.
ascii_type_to_enum(word) ==
  IF \E type \in DOMAIN enum_type_to_ascii : word = <<enum_type_to_ascii[type]>>
    THEN CHOOSE type \in DOMAIN enum_type_to_ascii : word = <<enum_type_to_ascii[type]>>
    ELSE "Invalid"

\* Numerals, up to a bound that no number here exceeds; other words are 0.
MaxNumeral == 20
to_number(word) ==
  IF \E n \in 0..MaxNumeral : word = <<ToString(n)>>
    THEN CHOOSE n \in 0..MaxNumeral : word = <<ToString(n)>> ELSE 0

(***************************************************************************)
(* Writing.                                                                *)
(***************************************************************************)
\* Floats are written with four decimals; the odd ones here have more.
FourDecimals(v) == v - (v % 2)

NumericTypeToString(type, v) == <<ToString(IF type = "Float" THEN FourDecimals(v) ELSE v)>>

Quoted(s) == <<QUOTE>> \o s \o <<QUOTE>>
Bracketed(s) == <<"[">> \o s \o <<"]">>

Listed(F(_), s) ==
  FlattenSeq([i \in DOMAIN s |-> (IF i > 1 THEN <<",">> ELSE <<>>) \o F(s[i])])

Floats(s) == Bracketed(Listed(LAMBDA x : NumericTypeToString("Float", x), s))

\* A quaternion is x, y, z, w in memory and w, x, y, z in the text.
QuatToAscii(q) == Floats(<<q[4], q[1], q[2], q[3]>>)

TransformToAscii(t) == Bracketed(Floats(SubSeq(t, 1, 3)) \o QuatToAscii(SubSeq(t, 4, 7)))

TrivialToAscii(type, v) ==
  CASE type = "Nil" -> <<>>
    [] type \in {"Int8", "UInt32", "Float"} -> NumericTypeToString(type, v)
    [] type = "Vector2" -> Floats(v)
    [] type = "Quaternion" -> QuatToAscii(v)
    [] type = "Transform" -> TransformToAscii(v)

\* Backslashes are doubled; quotes stay as they are.
StringToAscii(s) ==
  Quoted(FlattenSeq([i \in DOMAIN s |->
                       IF s[i] = BACKSLASH THEN <<BACKSLASH, BACKSLASH>> ELSE <<s[i]>>]))

GetTemplateArgumentList(strct) ==
  <<"<">> \o Listed(LAMBDA m : <<enum_type_to_ascii[m.type]>>
                      \o (IF m.name = <<>> THEN <<>> ELSE <<":">> \o m.name), strct) \o <<">">>

StructToAsciiValue(strct, data) ==
  Bracketed(Listed(LAMBDA i : TrivialToAscii(strct[i].type, data[i]), [i \in DOMAIN strct |-> i]))

TypeToAscii(type, strct) ==
  <<enum_type_to_ascii[type]>> \o IF type = "Struct" THEN GetTemplateArgumentList(strct) ELSE <<>>

RECURSIVE ToAsciiValue(_, _, _), ElementToAscii(_, _)

Block(flags, children) == <<"{", "\n">> \o ElementToAscii(flags, children) \o <<"\n", "}">>

ArrayValuesToAscii(flags, valueType, strct, items) ==
  Bracketed(Listed(LAMBDA x :
    IF valueType = "Element" THEN <<"\n">> \o Block(flags, x)
    ELSE IF valueType = "Struct" THEN StructToAsciiValue(strct, x)
    ELSE ToAsciiValue(flags, valueType, x), items))

ArrayToAscii(flags, a) ==
  Bracketed(TypeToAscii(a.valueType, a.strct) \o <<";", ToString(Len(a.items))>>)
  \o ArrayValuesToAscii(flags, a.valueType, a.strct, a.items)

ArrayLz4ToAscii(flags, a) ==
  IF "DontCompressLz4Arrays" \in flags
    THEN Bracketed(TypeToAscii(a.valueType, a.strct) \o <<";", ToString(a.size)>>)
         \o ArrayValuesToAscii(flags, a.valueType, a.strct, Unpacked[a])
    ELSE Bracketed(TypeToAscii(a.valueType, a.strct)
                   \o <<";", ToString(a.size), ";", ToString(a.blob.uncompressedSize)>>)
         \o Bracketed(a.blob.compressedData)

ToAsciiValue(flags, type, v) ==
  CASE type \in Trivial -> TrivialToAscii(type, v)
    [] type \in {"String", "Reference"} -> StringToAscii(v)
    [] type = "Utf8String" -> Bracketed(<<"base64">>) \o Bracketed(v)
    [] type = "Blob" -> Bracketed(v)
    [] type = "BlobLz4" -> Bracketed(<<ToString(v.uncompressedSize)>>)
                           \o Bracketed(v.compressedData)
    [] type = "Struct" -> StructToAsciiValue(v.strct, v.data)
    [] type = "Array" -> ArrayToAscii(flags, v)
    [] type = "ArrayLz4" -> ArrayLz4ToAscii(flags, v)

PropertyToAscii(flags, key, p) ==
  IF p.type = "Element" THEN Quoted(key) \o <<"\n">> \o Block(flags, p.value)
  ELSE <<"$">> \o TypeToAscii(p.type, IF p.type = "Struct" THEN p.value.strct ELSE <<>>)
       \o <<" ">> \o (IF does_key_require_quotes(key) THEN Quoted(key) ELSE key)
       \o <<" ">> \o ToAsciiValue(flags, p.type, p.value)

\* The children are sorted by name, whatever order the hash table has.
ElementToAscii(flags, children) ==
  LET names == KeysOf(children, Sorted)
  IN  FlattenSeq([i \in DOMAIN names |->
        (IF i > 1 THEN <<"\n">> ELSE <<>>) \o PropertyToAscii(flags, names[i], children[names[i]])])

(***************************************************************************)
(* The scanner.  at is the number of characters that have been read.       *)
(***************************************************************************)
SyntaxError == Failed("SyntaxError")

PeekNextChar(t, at) == IF at < Len(t) THEN t[at + 1] ELSE EOF

\* Where the first c at or behind a position has been read, or the end.
ReadUntil(t, at, c) ==
  LET i == SelectInSubSeq(t, at + 1, Len(t), LAMBDA x : x = c)
  IN  IF i = 0 THEN Len(t) + 1 ELSE i

RECURSIVE AfterComment(_, _), ReadNextToken(_, _), ReadQuoted(_, _)

AfterComment(t, at) ==
  IF at > Len(t) \/ PeekNextChar(t, at) = "/" THEN at + 1 ELSE AfterComment(t, ReadUntil(t, at, "*"))

ReadNextToken(t, at) ==
  LET c == PeekNextChar(t, at)
      d == PeekNextChar(t, at + 1)
  IN  IF c = EOF THEN Got(at, EOF)
      ELSE IF c \in WHITESPACE_CHARACTERS THEN ReadNextToken(t, at + 1)
      ELSE IF c = "/" /\ d = "/" THEN ReadNextToken(t, ReadUntil(t, at + 2, "\n"))
      ELSE IF c = "/" /\ d = "*"
        THEN ReadNextToken(t, AfterComment(t, ReadUntil(t, at + 2, "*")))
      ELSE Got(at + 1, c)

\* The position in front of the next token.
SeekNextToken(t, at) ==
  Then(ReadNextToken(t, at), LAMBDA p, c : Got(IF c = EOF THEN p ELSE p - 1, c))

Expect(t, at, c) == Then(ReadNextToken(t, at), LAMBDA p, d : IF d = c THEN Got(p, c) ELSE SyntaxError)

\* A quote behind a backslash does not end the string, but what was read up to
\* there is dropped.
ReadQuoted(t, at) ==
  LET end == ReadUntil(t, at, QUOTE)
      str == SubSeq(t, at + 1, end - 1)
  IN  IF end > Len(t) THEN SyntaxError
      ELSE IF Len(str) <= 1 \/ Last(str) # BACKSLASH THEN Got(end, str)
      ELSE ReadQuoted(t, end)

\* ReadString with the first character already read, in front of at.
ReadStringFrom(t, at, initialC) ==
  IF initialC = EOF THEN Got(at, <<>>)
  ELSE IF initialC \in CONTROL_CHARACTERS THEN SyntaxError
  ELSE IF initialC = QUOTE THEN ReadQuoted(t, at)
  ELSE LET i == SelectInSubSeq(t, at, Len(t),
                  LAMBDA x : x \in CONTROL_CHARACTERS \cup WHITESPACE_CHARACTERS)
           end == IF i = 0 THEN Len(t) ELSE i - 1
       IN  Got(end, SubSeq(t, at, end))

ReadString(t, at) == ReadStringFrom(t, at + 1, PeekNextChar(t, at))

ReadName(t, at) == Then(ReadNextToken(t, at), LAMBDA p, c : ReadStringFrom(t, p, c))

(***************************************************************************)
(* Reading values.                                                         *)
(***************************************************************************)
\* The description behind the name of a struct type.
RECURSIVE TemplateParameters(_, _, _)

TemplateParameters(t, at, strct) ==
  Then(SeekNextToken(t, at), LAMBDA p, c :
    IF c = ">" THEN IF strct = <<>> THEN SyntaxError ELSE Got(p + 1, strct)
    ELSE IF c \in {":", EOF} \/ (strct # <<>> /\ c # ",") THEN SyntaxError
    ELSE Then(ReadString(t, IF strct = <<>> THEN p ELSE p + 1), LAMBDA q, word :
      LET type == ascii_type_to_enum(word) IN
      IF type \notin Trivial THEN SyntaxError
      ELSE Then(SeekNextToken(t, q), LAMBDA r, d :
        IF d # ":" THEN TemplateParameters(t, r, Append(strct, [type |-> type, name |-> <<>>]))
        ELSE Then(ReadString(t, r + 1), LAMBDA s, name :
          IF PeekNextChar(t, s) \in {",", ">"}
            THEN TemplateParameters(t, s, Append(strct, [type |-> type, name |-> name]))
            ELSE SyntaxError))))

ReadTemplateParameterList(t, at, type) ==
  IF type # "Struct" THEN Got(at, <<>>)
  ELSE Then(Expect(t, at, "<"), LAMBDA p, c : TemplateParameters(t, p, <<>>))

RECURSIVE ValuesInList(_, _, _, _, _), ReadValue(_, _, _, _), ReadBlockKeyValues(_, _, _)

\* ReadValueList: values of one type, or structs of one description.  The commas
\* between them are optional.  Brackets inside the list only group its values,
\* unless the values have brackets of their own (enableSubLists is false).  Some
\* lists have room for a number of values and fail when there is one more.
ValuesInList(t, at, list, depth, values) ==
  Then(ReadNextToken(t, at), LAMBDA p, c :
    IF c = "[" /\ list.enableSubLists THEN ValuesInList(t, p, list, depth + 1, values)
    ELSE IF c = "]"
      THEN IF depth = 1 THEN Got(p, values) ELSE ValuesInList(t, p, list, depth - 1, values)
    ELSE IF c = EOF THEN SyntaxError
    ELSE Then(IF c = "," THEN SeekNextToken(t, p) ELSE Got(p - 1, c), LAMBDA q, d :
         IF Len(values) = list.room THEN Failed(list.full)
         ELSE Then(ReadValue(t, q, list.type, list.strct), LAMBDA r, v :
                ValuesInList(t, r, list, depth, Append(values, v)))))

ReadValueList(t, at, list) ==
  Then(Expect(t, at, "["), LAMBDA p, c : ValuesInList(t, p, list, 1, <<>>))

NoLimit == -1

ListOf(type) ==
  [type |-> type, strct |-> <<>>, enableSubLists |-> TRUE, room |-> NoLimit, full |-> "never"]

NumbersUpTo(n) == [ListOf("Float") EXCEPT !.room = n, !.full = "DataError"]

\* A list of as many numbers as the type has.
ReadTypedValueList(t, at, n) ==
  Then(ReadValueList(t, at, NumbersUpTo(n)), LAMBDA p, values :
    IF Len(values) = n THEN Got(p, values) ELSE SyntaxError)

fixQuatComponentOrderAsIs(q) == q  \* mutant: the order of the text is kept

\* What was read in the order of the text, and is now in that of the memory.
fixQuatComponentOrder(q) == <<q[2], q[3], q[4], q[1]>>

\* uquat::create: the quaternion of three angles, here any that tells them apart.
uquat_create(a) == <<a[1], a[2], a[3], a[1] + a[2]>>

ReadTransformUnturned(t, at) ==  \* mutant: the quaternion of the angles is not turned first
  Then(ReadValueList(t, at, NumbersUpTo(7)), LAMBDA p, v :
    IF Len(v) = 7 THEN Got(p, SubSeq(v, 1, 3) \o fixQuatComponentOrder(SubSeq(v, 4, 7)))
    ELSE IF Len(v) = 6
      THEN Got(p, SubSeq(v, 1, 3) \o fixQuatComponentOrder(uquat_create(SubSeq(v, 4, 6))))
    ELSE SyntaxError)

\* A rotation of three angles is turned into a quaternion whose components are
\* then arranged such that fixing their order puts them right.
ReadTransform(t, at) ==
  Then(ReadValueList(t, at, NumbersUpTo(7)), LAMBDA p, v :
    LET rot == uquat_create(SubSeq(v, 4, 6)) IN
    IF Len(v) = 7 THEN Got(p, SubSeq(v, 1, 3) \o fixQuatComponentOrder(SubSeq(v, 4, 7)))
    ELSE IF Len(v) = 6
      THEN Got(p, SubSeq(v, 1, 3)
                  \o fixQuatComponentOrder(<<rot[4], rot[1], rot[2], rot[3]>>))
    ELSE SyntaxError)

\* The bytes up to the next bracket.  Where there is none the last byte of the
\* file is taken for it; with no byte at all the size, one less, wraps around.
ReadBlobData(t, at) ==
  Then(Expect(t, at, "["), LAMBDA p, c :
    LET bracket == ReadUntil(t, p, "]")
        end == IF bracket > Len(t) THEN Len(t) ELSE bracket
    IN  IF end = p THEN Failed("length_error") ELSE Got(end, SubSeq(t, p + 1, end - 1)))

RECURSIVE ReadMembers(_, _, _, _)

ReadMembers(t, at, strct, data) ==
  IF Len(data) = Len(strct) THEN Got(at, data)
  ELSE Then(IF data = <<>> THEN Got(at, ",") ELSE Expect(t, at, ","), LAMBDA p, c :
       Then(ReadValue(t, p, strct[Len(data) + 1].type, <<>>), LAMBDA q, v :
         ReadMembers(t, q, strct, Append(data, v))))

ReadStructValue(t, at, strct) ==
  Then(Expect(t, at, "["), LAMBDA p, c :
  Then(ReadMembers(t, p, strct, <<>>), LAMBDA q, data :
  Then(Expect(t, q, "]"), LAMBDA r, d : Got(r, data))))

\* The number behind a semicolon in the head of an array, or -1.
OptionalNumber(t, at) ==
  Then(ReadNextToken(t, at), LAMBDA p, c :
    IF c # ";" THEN Got(at, -1)
    ELSE Then(ReadString(t, p), LAMBDA q, word : Got(q, to_number(word))))

\* The head of an array: [type<description>;size;uncompressedSize].
ReadArrayHead(t, at, type) ==
  Then(Expect(t, at, "["), LAMBDA p, c :
  Then(ReadString(t, p), LAMBDA q, word :
    LET valueType == ascii_type_to_enum(word) IN
    IF valueType = "Invalid" THEN SyntaxError
    ELSE IF type = "ArrayLz4" /\ valueType \notin Trivial \cup {"Struct", "Element", "String"}
      THEN Failed("InvalidUsageError")
    ELSE Then(ReadTemplateParameterList(t, q, valueType), LAMBDA r, strct :
         Then(OptionalNumber(t, r), LAMBDA s, size :
         Then(IF size = -1 THEN Got(s, -1) ELSE OptionalNumber(t, s), LAMBDA u, uncompressed :
         Then(Expect(t, u, "]"), LAMBDA v, d :
           Got(v, [valueType |-> valueType, strct |-> strct, size |-> size,
                   uncompressed |-> uncompressed])))))))

\* The compressed array with these items: LZ4 makes the same blob of the same.
Repacked(valueType, strct, items) ==
  CHOOSE a \in DOMAIN Unpacked :
    a.valueType = valueType /\ a.strct = strct /\ Unpacked[a] = items

ItemList(head) == [ListOf(head.valueType) EXCEPT !.enableSubLists = FALSE]

ItemsThatFit(head) ==  \* mutant: no array grows
  [ItemList(head) EXCEPT !.type = IF head.valueType = "Struct" THEN "StructItem" ELSE @,
                         !.strct = head.strct, !.room = head.size, !.full = "undefined"]

\* The array grows when more items follow than it has room for.  The structs are
\* read with the description where it was at first: to grow destroys it with the
\* old items or, where there were none yet, leaves it there without members.
ItemsIn(head) ==
  IF head.valueType # "Struct" THEN ItemList(head)
  ELSE [ItemList(head) EXCEPT
          !.type = "StructItem",
          !.strct = IF head.size = 0 THEN <<>> ELSE head.strct,
          !.room = IF head.size = 0 THEN NoLimit ELSE head.size,
          !.full = "undefined"]

\* There are as many items as follow.
ReadItems(t, at, type, head) ==
  Then(ReadValueList(t, at, ItemsIn(head)), LAMBDA p, items :
    Got(p, IF type = "ArrayLz4" THEN Repacked(head.valueType, head.strct, items)
           ELSE [valueType |-> head.valueType, strct |-> head.strct, items |-> items]))

\* Only a compressed array with both sizes has its blob in the text.  A raw one
\* whose size is missing assigns to the value of an empty optional.
ReadAsciiArray(t, at, type) ==
  Then(ReadArrayHead(t, at, type), LAMBDA p, head :
    IF type = "ArrayLz4" /\ head.uncompressed # -1
      THEN Then(ReadBlobData(t, p), LAMBDA q, data :
             Got(q, [valueType |-> head.valueType, strct |-> head.strct, size |-> head.size,
                     blob |-> [compressedData |-> data, uncompressedSize |-> head.uncompressed]]))
    ELSE IF head.size = -1 THEN Failed("undefined")
    ELSE ReadItems(t, p, type, head))

ReadUtf8String(t, at) ==
  Then(ReadValueList(t, at, ListOf("String")), LAMBDA p, words :
    IF \E i \in DOMAIN words : words[i] # <<"base64">> THEN Failed("DataError")
    ELSE ReadBlobData(t, p))

ReadAsciiBlobLz4(t, at) ==
  Then(ReadValueList(t, at, ListOf("UInt32")), LAMBDA p, sizes :
  Then(ReadBlobData(t, p), LAMBDA q, data :
    Got(q, [compressedData |-> data,
            uncompressedSize |-> IF sizes = <<>> THEN 0 ELSE Last(sizes)])))


ReadElementBlock(t, at) ==
  Then(Expect(t, at, "{"), LAMBDA p, c :
  Then(ReadBlockKeyValues(t, p, <<>>), LAMBDA q, block :
    IF block.result = "EndOfFile" THEN SyntaxError ELSE Got(q, block.children)))

ReadValue(t, at, type, strct) ==
  CASE type = "Nil" -> Got(at, "nil")
    [] type \in {"Int8", "UInt32", "Float"} ->
         Then(ReadString(t, at), LAMBDA p, word : Got(p, to_number(word)))
    [] type = "Vector2" -> ReadTypedValueList(t, at, 2)
    [] type = "Quaternion" ->
         Then(ReadTypedValueList(t, at, 4), LAMBDA p, v : Got(p, fixQuatComponentOrder(v)))
    [] type = "Transform" -> ReadTransform(t, at)
    [] type \in {"String", "Reference"} -> ReadString(t, at)
    [] type = "Utf8String" -> ReadUtf8String(t, at)
    [] type = "Blob" -> ReadBlobData(t, at)
    [] type = "BlobLz4" -> ReadAsciiBlobLz4(t, at)
    [] type = "Element" -> ReadElementBlock(t, at)
    [] type \in {"Array", "ArrayLz4"} -> ReadAsciiArray(t, at, type)
    [] type = "StructItem" -> ReadStructValue(t, at, strct)
    [] type = "Struct" ->
         Then(ReadStructValue(t, at, strct), LAMBDA p, data :
           Got(p, [strct |-> strct, data |-> data]))

\* $type<description> key value
ReadVariable(t, at) ==
  Then(ReadString(t, at), LAMBDA p, word :
    LET type == ascii_type_to_enum(word) IN
    IF type = "Invalid" THEN SyntaxError
    ELSE Then(ReadTemplateParameterList(t, p, type), LAMBDA q, strct :
         Then(ReadName(t, q), LAMBDA r, key :
         Then(SeekNextToken(t, r), LAMBDA s, c :
         Then(ReadValue(t, s, type, strct), LAMBDA u, v :
           Got(u, [key |-> key, prop |-> [type |-> type, value |-> v]]))))))

\* key { ... }
ReadChildBlock(t, at, initialC) ==
  Then(ReadStringFrom(t, at, initialC), LAMBDA p, key :
  Then(ReadElementBlock(t, p), LAMBDA q, children :
    Got(q, [key |-> key, prop |-> [type |-> "Element", value |-> children]])))

\* Of two equal keys the later one stays.
ReadBlockKeyValues(t, at, children) ==
  Then(ReadNextToken(t, at), LAMBDA p, c :
    IF c = "}" THEN Got(p, [result |-> "EndOfBlock", children |-> children])
    ELSE IF c = EOF THEN Got(p, [result |-> "EndOfFile", children |-> children])
    ELSE IF c \in CONTROL_CHARACTERS \ {"$"} THEN SyntaxError
    ELSE Then(IF c = "$" THEN ReadVariable(t, p) ELSE ReadChildBlock(t, p, c), LAMBDA q, child :
           ReadBlockKeyValues(t, q, (child.key :> child.prop) @@ children)))

\* load_ascii reads the whole file into memory; the block of the root ends with it.
LoadAscii(t) ==
  Then(ReadBlockKeyValues(t, 0, <<>>), LAMBDA p, block :
    IF block.result = "EndOfFile" THEN Got(p, block.children) ELSE SyntaxError)
=============================================================================
