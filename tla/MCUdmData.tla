----------------------------- MODULE MCUdmData -----------------------------
(***************************************************************************)
(* Instances of UdmData for TLC.  The lengths of 255 are scaled down so    *)
(* that short strings and keys reach them.                                 *)
(***************************************************************************)
EXTENDS UdmData

\* One of the keys begins another and is what is left of that when it is cut, and
\* one needs quotes in a text.
MCKeys == { <<" ">>, <<"k">>, <<"k", "x">> }

\* An order and its reverse; long keys come in both orders, too.
MCOrder == << KEY_ASSET_TYPE, <<"k", "x">>, <<"a">>, KEY_ASSET_DATA, <<"0">>,
              <<"k", " ">>, <<"k">>, <<" ">>, KEY_ASSET_VERSION >>
MCOrders == { MCOrder, Reverse(MCOrder) }

MCSorted == << <<" ">>, <<"0">>, <<"a">>, KEY_ASSET_DATA, KEY_ASSET_TYPE, KEY_ASSET_VERSION,
               <<"k">>, <<"k", " ">>, <<"k", "x">> >>

\* The flags have nothing to do with each other.
MCTextFlags == { {}, {"IncludeHeader"}, {"DontCompressLz4Arrays"} }

\* A block with stars inside, and behind it a line with a bracket.
MCComments == { <<"/", "*", "*", "*", "/", "/", "/", "}", "\n">> }

NoFlags == {}
NoComments == {}

Pixel == << [type |-> "Float", name |-> <<"x">>], [type |-> "Int8", name |-> <<>>] >>

AnArray(valueType, strct, items) ==
  Property("Array", [valueType |-> valueType, strct |-> strct, items |-> items])

Packed(valueType, strct, size, uncompressedSize) ==
  Property("ArrayLz4",
    [valueType |-> valueType, strct |-> strct, size |-> size,
     blob |-> [compressedData |-> <<"z", "z">>, uncompressedSize |-> uncompressedSize]])

Children(children) == Property("Element", FoldLeft(LAMBDA f, c : (c[1] :> c[2]) @@ f, <<>>, children))

\* In the last one, a reference leads back to it if its key is k, and another one
\* leads through that.
Elements ==
  { Property("Element", NoChildren),
    Children(<< << <<"k", "x">>, Property("Utf8String", <<"u">>) >>,
                << <<"0">>, Property("Struct", [strct |-> Pixel, data |-> <<5, 6>>]) >>,
                << <<"a">>, Property("BlobLz4", [compressedData |-> <<"z">>,
                                                 uncompressedSize |-> 3]) >> >>),
    Children(<< << <<"k", "x">>, Property("Reference", <<"k">>) >>,
                << <<"k", " ">>, Property("Nil", "nil") >>,
                << <<"0">>, Property("Reference", <<"k", "/", "k", "x", "/", "a">>) >>,
                << <<"a">>, Property("Blob", <<"b", "b">>) >> >>) }

\* A string just as long as the identifier of the extended ones, with characters
\* that mean something elsewhere in a text; an odd float has more than four decimals.
Scalars == { Property("String", <<"]", "/">>), Property("Transform", <<1, 2, 3, 4, 5, 6, 7>>),
             Property("UInt32", 5) }

\* What is written in base64, as packed arrays are.
Bytes == { Property("Blob", <<"b", "b">>),
           Property("BlobLz4", [compressedData |-> <<"z", "z">>, uncompressedSize |-> 3]) }

Arrays ==
  { AnArray("String", <<>>, << <<>>, <<"s", ",">> >>),
    AnArray("Array", <<>>,
      << [valueType |-> "Int8", strct |-> <<>>, items |-> <<1>>],
         [valueType |-> "Nil", strct |-> <<>>, items |-> <<>>] >>),
    AnArray("Element", <<>>,
      << NoChildren, [key \in {<<"a">>} |-> Property("Reference", <<"k">>)] >>),
    AnArray("Struct", Pixel, <<>>), AnArray("Struct", Pixel, << <<1, 2>>, <<3, 4>> >>) }

PackedArrays ==
  { Packed("Float", <<>>, 2, 8), Packed("Element", <<>>, 1, 16), Packed("Struct", Pixel, 1, 5) }

\* What was packed into them.
MCUnpacked ==
  [ a \in {p.value : p \in PackedArrays} |->
      CASE a.valueType = "Float" -> <<2, 4>>
        [] a.valueType = "Element" -> << [key \in {<<"0">>} |-> Property("Int8", 7)] >>
        [] a.valueType = "Struct" -> << <<6, 1>> >> ]

PackedStrings == { Packed("String", <<>>, 2, 6) }

MCProps == Scalars \cup Bytes \cup Elements \cup Arrays \cup PackedArrays
MCBackslash == { Property("String", <<"\\", "s">>) }
MCPropsWithStrings == Elements \cup PackedArrays \cup PackedStrings
=============================================================================
