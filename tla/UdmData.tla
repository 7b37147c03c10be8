------------------------------ MODULE UdmData ------------------------------
(***************************************************************************)
(* udm::Data: a tree of properties under a root element, saved to a binary *)
(* or a text file, loaded from either as a whole, or from a binary one a   *)
(* property at a time, and resolves its references (src/src/data.cpp).     *)
(***************************************************************************)
EXTENDS AsciiFormat, References

CONSTANTS
  Keys,         \* the keys of the program, sequences of characters
  Props,        \* the properties it adds under them
  Orders,       \* orders in which the hash tables may iterate, over all keys
  TextFlags,    \* the sets of AsciiSaveFlags it saves texts with
  Comments,     \* the comments with which somebody annotates a text
  MaxAdded      \* bound on the properties below the asset data

VARIABLES
  root,    \* m_rootProperty
  file,    \* the bytes of the file
  saved,   \* the tree that was last saved
  format   \* how it was saved

vars == <<root, file, saved, format>>

NoFile == [kind |-> "none", flags |-> {}]
BinaryFile == [kind |-> "binary", flags |-> {}]
TextFile(flags) == [kind |-> "text", flags |-> flags]

VERSION == 2
KEY_ASSET_TYPE == <<"assetType">>
KEY_ASSET_VERSION == <<"assetVersion">>
KEY_ASSET_DATA == <<"assetData">>

Property(type, v) == [type |-> type, value |-> v]

NoChildren == [key \in {} |-> Property("Nil", "nil")]

EmptyData ==
  Property("Element",
    [key \in {KEY_ASSET_TYPE, KEY_ASSET_VERSION, KEY_ASSET_DATA} |->
       IF key = KEY_ASSET_TYPE THEN Property("String", <<>>)
       ELSE IF key = KEY_ASSET_VERSION THEN Property("UInt32", 0)
       ELSE Property("Element", NoChildren)])

(***************************************************************************)
(* Element::AddChild: a new child, or a new property under an old key.     *)
(***************************************************************************)
AddChild(el, key, p) ==
  [el EXCEPT !.value = (key :> p) @@ @]

(***************************************************************************)
(* Save, Open and Load.                                                    *)
(***************************************************************************)
SaveFile(data, order) == Field("header", VERSION) \o WriteProperty(data, order)

RequiredTypes ==
  { <<KEY_ASSET_TYPE, "String">>, <<KEY_ASSET_VERSION, "UInt32">>,
    <<KEY_ASSET_DATA, "Element">> }

ValidateHeaderProperties(o) ==
  \A required \in RequiredTypes :
    required[1] \in DOMAIN o.value /\ o.value[required[1]].type = required[2]

InvalidFormat == Failed("InvalidFormatError")

Open(f) ==
  Then(Get(f, 0, "header"), LAMBDA p, version :
    IF version \in 1..VERSION THEN Got(p, version) ELSE InvalidFormat)

Validated(at, o) ==
  IF o.type = "Element" /\ ValidateHeaderProperties(o) THEN Got(at, o) ELSE InvalidFormat

\* A text is the asset data alone, unless the header is asked for.
SaveTextFile(data, flags) ==
  LET text == ElementToAscii(flags, IF "IncludeHeader" \in flags THEN data.value
                                    ELSE data.value[KEY_ASSET_DATA].value)
  IN  [i \in DOMAIN text |-> <<"ascii", 1, text[i]>>]

\* What has no header gets one.
WithHeader(children) ==
  IF KEY_ASSET_DATA \in DOMAIN children THEN Property("Element", children)
  ELSE Property("Element", (KEY_ASSET_DATA :> Property("Element", children))
                           @@ (KEY_ASSET_VERSION :> Property("UInt32", 1))
                           @@ (KEY_ASSET_TYPE :> Property("String", <<"nil">>)))

LoadTextFile(f) ==
  Then(LoadAscii([i \in DOMAIN f |-> f[i][3]]), LAMBDA p, children :
    Validated(p, WithHeader(children)))

\* A file that does not open as a binary one is read as a text.
LoadFile(f) ==
  IF Open(f).ok
    THEN Then(ReadProperty(f, Open(f).at), LAMBDA p, o : Validated(p, o))
    ELSE LoadTextFile(f)

LoadProperty(f, path) ==
  Then(Get(f, Width("header"), "type"), LAMBDA p, type :
    LoadFrom(f, p, type, <<KEY_ASSET_DATA>> \o path))

(***************************************************************************)
(* The program: it edits the asset data, saves it and loads it again.      *)
(***************************************************************************)
Init == root = EmptyData /\ file = <<>> /\ saved = EmptyData /\ format = NoFile

Data == root.value[KEY_ASSET_DATA]

\* Bounds: the program edits first and saves afterwards, and adds few properties.
PathsBelow(el) ==
  UNION {{<<key>>} \cup IF el.value[key].type = "Element"
                          THEN {<<key, sub>> : sub \in DOMAIN el.value[key].value} ELSE {} :
           key \in DOMAIN el.value}

MayAdd == format = NoFile /\ Cardinality(PathsBelow(Data)) < MaxAdded

\* Bound: what was loaded is not saved again.
MaySave == format = NoFile

Add(key, p) ==
  /\ MayAdd
  /\ root' = AddChild(root, KEY_ASSET_DATA, AddChild(Data, key, p))
  /\ UNCHANGED <<file, saved, format>>

AddTo(parent, key, p) ==
  /\ MayAdd
  /\ parent \in DOMAIN Data.value /\ Data.value[parent].type = "Element"
  /\ root' = AddChild(root, KEY_ASSET_DATA,
               AddChild(Data, parent, AddChild(Data.value[parent], key, p)))
  /\ UNCHANGED <<file, saved, format>>

Save(order) ==
  /\ MaySave
  /\ file' = SaveFile(root, order)
  /\ saved' = root /\ format' = BinaryFile
  /\ UNCHANGED root

SaveAscii(flags) ==
  /\ MaySave
  /\ file' = SaveTextFile(root, flags)
  /\ saved' = root /\ format' = TextFile(flags)
  /\ UNCHANGED root

\* Nothing has happened to the file since it was saved.
TextJustSaved ==
  format.kind = "text" /\ root = saved /\ file = SaveTextFile(saved, format.flags)

\* Somebody puts a comment in front of every line but the first (bound: once,
\* before the text is loaded).
Annotate(comment) ==
  /\ TextJustSaved
  /\ file' = FlattenSeq([i \in DOMAIN file |->
                IF file[i][3] # "\n" THEN <<file[i]>>
                ELSE <<file[i]>> \o [j \in DOMAIN comment |-> <<"ascii", 1, comment[j]>>]])
  /\ UNCHANGED <<root, saved, format>>

\* Load makes a new document or fails with an exception.
Load ==
  /\ format # NoFile
  /\ \E loaded \in {LoadFile(file)} : root' = IF loaded.ok THEN loaded.val ELSE root
  /\ UNCHANGED <<file, saved, format>>

Next ==
  \/ \E key \in Keys, p \in Props : Add(key, p) \/ \E parent \in Keys : AddTo(parent, key, p)
  \/ \E order \in Orders : Save(order)
  \/ \E flags \in TextFlags : SaveAscii(flags)
  \/ \E comment \in Comments : Annotate(comment)
  \/ Load

Spec == Init /\ [][Next]_vars

-----------------------------------------------------------------------------
(***************************************************************************)
(* What the saved file must be good for.                                   *)
(***************************************************************************)
RECURSIVE Parts(_)

\* A property with everything below it that is written like a property.
Parts(p) ==
  {p} \cup
    CASE p.type = "Element" -> UNION {Parts(p.value[key]) : key \in DOMAIN p.value}
      [] p.type = "Array" /\ p.value.valueType # "Struct" ->
           UNION {Parts(Property(p.value.valueType, p.value.items[i])) :
                    i \in DOMAIN p.value.items}
      [] OTHER -> {}

StructItems(p) == p.type = "Array" /\ p.value.valueType = "Struct" /\ p.value.items # <<>>

RECURSIVE Lookup(_, _)

\* The property at a path in memory.
Lookup(p, path) ==
  IF path = <<>> THEN Got(0, p)
  ELSE IF p.type = "Element" /\ Head(path) \in DOMAIN p.value
    THEN Lookup(p.value[Head(path)], Tail(path))
  ELSE IF p.type = "Array" /\ IsInteger(Head(path)) /\ ToInt(Head(path)) < Len(p.value.items)
    THEN LET item == p.value.items[ToInt(Head(path)) + 1]
         IN  Lookup(IF p.value.valueType = "Struct"
                      THEN Property("Struct", [strct |-> p.value.strct, data |-> item])
                      ELSE Property(p.value.valueType, item), Tail(path))
  ELSE NotFound

\* A later item of a struct array: LoadProperty takes each item for a struct
\* with a header of its own, and finds only the first.
RECURSIVE LaterStructItem(_, _)

LaterStructItem(p, path) ==
  /\ path # <<>>
  /\ \/ StructItems(p) /\ Head(path) # <<"0">>
     \/ Lookup(p, <<Head(path)>>).ok
          /\ LaterStructItem(Lookup(p, <<Head(path)>>).val, Tail(path))

Names == Keys \cup {Cut(key) : key \in Keys} \cup {Digits[i] : i \in DOMAIN Digits}

Paths == {<<a>> : a \in Names} \cup {<<a, b>> : a, b \in Names}
           \cup {<<a, b, c>> : a, b, c \in Names}

KeysFit(p) == \A q \in Parts(p) : q.type = "Element" =>
                \A key \in DOMAIN q.value : Len(key) <= MaxKeyLength

HasStructItems(p) == \E q \in Parts(p) : StructItems(q)

\* Load reads back the very tree that Save wrote and ends where the file ends,
\* whatever order the hash tables iterate in, whatever is inside it
\* (data.cpp, Save and Load), unless keys are too long for their length byte;
\* only struct arrays with items cannot be loaded.
LoadRestoresSaved ==
  format.kind = "binary" =>
    \A loaded \in {LoadFile(file)} :
      IF HasStructItems(saved) THEN ~loaded.ok /\ loaded.val = "undefined"
      ELSE /\ loaded.ok /\ loaded.at = Len(file)
           /\ KeysFit(saved) => loaded.val = saved

\* LoadProperty finds at every path what a full Load would have there, and
\* finds nothing where there is nothing (data.cpp, LoadProperty, SkipProperty).
\* Where Load cuts keys, the tree is the one with the keys cut.  To load changes
\* nothing about the file, which need only be looked at before.
LoadPropertyAgreesWithLoad ==
  format.kind = "binary" /\ root = saved =>
    \A loaded \in {LoadFile(file)} :
      loaded.ok \/ KeysFit(saved) =>
        \A data \in {(IF loaded.ok THEN loaded.val ELSE saved).value[KEY_ASSET_DATA]} :
          \A path \in Paths :
            \/ LaterStructItem(data, path)
            \/ \A found \in {LoadProperty(file, path)}, there \in {Lookup(data, path)} :
                 IF there.ok /\ HasStructItems(there.val)
                   THEN ~found.ok /\ found.val = "undefined"
                   ELSE found.ok = there.ok /\ found.val = there.val

\* What the text can tell of a value: four decimals of every float.
Rounded(type, v) ==
  CASE type = "Float" -> FourDecimals(v)
    [] type \in {"Vector2", "Quaternion", "Transform"} -> [i \in DOMAIN v |-> FourDecimals(v[i])]
    [] OTHER -> v

RoundedStruct(strct, data) == [i \in DOMAIN data |-> Rounded(strct[i].type, data[i])]

RECURSIVE Told(_, _)

Told(type, v) ==
  CASE type = "Element" -> [key \in DOMAIN v |-> Property(v[key].type, Told(v[key].type, v[key].value))]
    [] type = "Struct" -> [v EXCEPT !.data = RoundedStruct(v.strct, @)]
    [] type = "Array" ->
         [v EXCEPT !.items = [i \in DOMAIN @ |->
            IF v.valueType = "Struct" THEN RoundedStruct(v.strct, @[i]) ELSE Told(v.valueType, @[i])]]
    [] OTHER -> Rounded(type, v)

\* Without the flag, the header is not in the text and Load makes one up.
HeaderFor(p, flags) ==
  IF "IncludeHeader" \in flags THEN p
  ELSE [p EXCEPT !.value[KEY_ASSET_TYPE].value = <<"nil">>, !.value[KEY_ASSET_VERSION].value = 1]

\* The data that a text can hold: the quotes and backslashes in a string are not
\* read as they are written, an array of nils has one comma less than items, and
\* the packed arrays here hold only floats of four decimals.
NoQuotes(s) == \A i \in DOMAIN s : s[i] \notin {QUOTE, BACKSLASH}

FitsText(p) ==
  \A q \in Parts(p) :
    /\ q.type \in {"String", "Reference"} => NoQuotes(q.value)
    /\ q.type = "Element" => \A key \in DOMAIN q.value : key # <<>> /\ NoQuotes(key)
    /\ q.type = "Array" /\ q.value.valueType = "Nil" => q.value.items = <<>>

\* Load reads back from a text what SaveAscii wrote into it, to four decimals,
\* with or without the header, the packed arrays written packed or unpacked,
\* and whatever comments stand between the lines (ascii.cpp, ToAscii and
\* ReadBlockKeyValues).
TextRestoresSaved ==
  format.kind = "text" /\ root = saved /\ FitsText(saved) =>
    \A loaded \in {LoadFile(file)} :
      loaded.ok /\ loaded.val = HeaderFor(Property("Element", Told("Element", saved.value)),
                                          format.flags)

\* What a scalar is when its value is missing.
Missing == [ Nil |-> "nil", Int8 |-> 0, UInt32 |-> 0, Float |-> 0,
             String |-> <<>>, Reference |-> <<>> ]

\* Some, but not all, of the bytes that were saved.
BytesBrokenOff(type, v, whole) ==
  LET Fewer(bytes, all) == IsPrefix(bytes, all) /\ Len(bytes) < Len(all)
  IN  CASE type \in {"Utf8String", "Blob"} -> Fewer(v, whole)
        [] type = "BlobLz4" ->
             /\ v = [whole EXCEPT !.compressedData = v.compressedData]
             /\ Fewer(v.compressedData, whole.compressedData)
        [] type = "ArrayLz4" ->
             /\ v = [whole EXCEPT !.blob.compressedData = v.blob.compressedData]
             /\ Fewer(v.blob.compressedData, whole.blob.compressedData)
        [] OTHER -> FALSE

\* What is left of a property that the text breaks off in: a scalar that its
\* value is missing of, under what there is of its key, or a value under its own
\* key of which bytes are missing.
BrokenOff(key, p, wholeKey, whole) ==
  /\ p.type = whole.type
  /\ \/ p.type \in DOMAIN Missing /\ p.value = Missing[p.type] /\ IsPrefix(key, wholeKey)
     \/ key = wholeKey /\ BytesBrokenOff(p.type, p.value, whole.value)


\* The number in the head of an array, which somebody may not have kept up to
\* date, only makes room: however many items follow, all of them are read.  Not
\* so structs, which must be no more than the head says (ascii.cpp:425).
NumberOnlyMakesRoom ==
  \A p \in Parts(Data) : p.type = "Array" /\ FitsText(p) =>
    \A n \in 0..(Len(p.value.items) + 1) :
      LET text == Bracketed(TypeToAscii(p.value.valueType, p.value.strct) \o <<";", ToString(n)>>)
                  \o ArrayValuesToAscii({}, p.value.valueType, p.value.strct, p.value.items)
      IN  ReadAsciiArray(text, 0, "Array") =
            IF p.value.valueType # "Struct" \/ Len(p.value.items) <= n
              THEN Got(Len(text), Told("Array", p.value))
            ELSE IF n = 0 THEN SyntaxError ELSE Failed("undefined")

\* "Transform and ScaledTransform values have an alternative valid
\* representation, where the rotation is represented as euler angles"
\* (ascii.cpp:242): the three angles are read as the quaternion they make.
AnglesRead ==
  \A p \in Parts(root) : p.type = "Transform" =>
    LET position == SubSeq(p.value, 1, 3)
        angles == SubSeq(p.value, 4, 6)
        text == Bracketed(Floats(position) \o Floats(angles))
    IN  ReadTransform(text, 0) =
          Got(Len(text), [i \in 1..3 |-> FourDecimals(position[i])]
                         \o uquat_create([i \in 1..3 |-> FourDecimals(angles[i])]))

\* "Any changes made here may affect udm::Data::SkipProperty as well", says
\* each function of property.cpp that writes a value (property.cpp:380):
\* skipping a value ends where its bytes do.
SkipEndsWithValue ==
  \A p \in Parts(root), order \in Orders :
    LET bytes == Write(p.type, p.value, order)
    IN  SkipProperty(bytes, 0, p.type) = Seek(Len(bytes))

\* A compressed array of strings or elements decompresses to the items that it
\* was compressed from, in the order they had, whatever order the hash tables
\* iterate in, with keys cut and struct arrays lost as in files, and the buffer
\* for strings is filled just to its end (array.cpp, ArrayLz4::Compress).  Two
\* limits of the code: the blob of no items lacks the number that Decompress reads,
\* and the buffer has no room for the length bytes of long strings.
PackedItemsUnpack ==
  \A p \in Parts(root) : p.type = "Array" /\ p.value.valueType \in {"String", "Element"} =>
    \A items \in Prefixes(p.value.items), order \in Orders :
    \A bytes \in {PackedBytes(p.value.valueType, items, order)} :
    \A unpacked \in {UnpackedItems(p.value.valueType, bytes)} :
      IF items = <<>> \/ HasStructItems([p EXCEPT !.value.items = items]) THEN ~unpacked.ok
      ELSE /\ unpacked.ok /\ unpacked.at = Len(bytes)
           /\ KeysFit(p) => unpacked.val = items
           /\ p.value.valueType = "String" =>
                Len(bytes) - BufferSize(items) =
                  Cardinality({i \in DOMAIN items : Len(items[i]) >= EXTENDED_STRING_IDENTIFIER})

\* The bytes of a blob or an array are the same before and after it is compressed
\* and decompressed, as whatever type; with its own type an array is what it was
\* (property.cpp, Compress and Decompress); and a vector of any size and type of
\* items receives all of them, if they make whole items, or none (udm.hpp:1029).
\* A vector without items is told that it is too small for no bytes.
CompressKeepsBytes ==
  \A part \in Parts(root) : IsBytes(part) =>
    \A p \in {InMemory(part)} : \A bytes \in {BlobBytes(p)}, packed \in {Compress(p)} :
      /\ BlobBytes(packed) = bytes
      /\ p.type = "Blob" => Decompress(packed, "none") = p
      /\ packed.type = "BlobLz4" /\ p.type # "Blob" /\ p.value.valueType # "Nil" =>
           Decompress(packed, p.value.valueType) = [p EXCEPT !.type = "Array"]
      /\ \A type \in (Trivial \ {"Nil"}) \cup {"none"} :
           BlobBytes(Decompress(packed, type)) = bytes
      /\ \A q \in {p, packed}, n \in 0..2, itemSize \in {1, 4, 8} :
           \A got \in {GetBlobDataInto(q, n, itemSize)} :
             IF Len(bytes) % itemSize # 0 THEN got.result = "ValueTypeMismatch"
             ELSE IF bytes = <<>> /\ n = 0 THEN got.result = "InsufficientSize"
             ELSE got.result = "Success" /\ got.bytes = bytes

\* A path that leads through elements to a child.
ElementsOnly(p, path) ==
  /\ Lookup(p, path).ok
  /\ \A n \in 0..(Len(path) - 1) : Lookup(p, SubSeq(path, 1, n)).val.type = "Element"

\* ResolveReferences leads every reference to what is at its path, wherever in
\* elements and arrays of elements the reference is (data.cpp:383).  One whose path
\* goes through another is resolved only after that, and which is the first is up to
\* a hash table: when the program has called it as many times as there are
\* references, each leads to the same place in any order, and stays there.
ReferencesResolve ==
  \A order \in Orders :
  \A unresolved \in {Unresolved(Data, order)} :
  \A once \in {ResolveReferences(Data, unresolved, order)} :
    LET Often(o) == FoldLeft(LAMBDA property, i : ResolveReferences(Data, property, o),
                             unresolved, SetToSeq(DOMAIN unresolved))
    IN  /\ \A q \in Parts(Data) : q.type = "Reference" =>
             \E place \in DOMAIN once : At(Data, place) = q
        /\ \A place \in DOMAIN once : \A steps \in {Steps(At(Data, place).value)} :
             ElementsOnly(Data, steps) => once[place] = steps
        /\ \A often \in {Often(order)} :
             /\ \A other \in Orders : often = Often(other)
             /\ often = ResolveReferences(Data, often, order)
             /\ \A place \in DOMAIN once : once[place] \in {Nothing, often[place]}

\* Element::operator==: every child has its like in the other element.  What else
\* there is in the other one does not count.  References are equal if they lead to
\* the same property, and without being resolved all of them lead nowhere.
RECURSIVE SameElement(_, _)

SameElement(children, other) ==
  \A key \in DOMAIN children :
    /\ key \in DOMAIN other /\ children[key].type = other[key].type
    /\ CASE children[key].type = "Element" ->
              SameElement(children[key].value, other[key].value)
         [] children[key].type = "Reference" -> TRUE
         [] OTHER -> children[key].value = other[key].value

\* Data::operator== compares the asset data and no header.
SameData(p, other) ==
  SameElement(p.value[KEY_ASSET_DATA].value, other.value[KEY_ASSET_DATA].value)

\* "Mismatch between written data and loaded data!" (data.cpp:273): the test
\* loads its text file and expects the data that it wrote.
WrittenTextLoads ==
  format.kind = "text" =>
    \A loaded \in {LoadFile(file)} : loaded.ok /\ SameData(saved, loaded.val)
=============================================================================
