----------------------------- MODULE MCUdmArray -----------------------------
(***************************************************************************)
(* Instances of UdmArray for TLC.                                          *)
(***************************************************************************)
EXTENDS UdmArray

CONSTANTS packed1, packed2, plain1   \* two compressed arrays and a raw one

\* The class of the arrays an instance has.
MCKind == [a \in Arrays |-> IF a = plain1 THEN "Raw" ELSE "Compressed"]

(***************************************************************************)
(* Programs that neglect a rule.                                           *)
(***************************************************************************)
\* Assigns to compressed arrays, merges into them, gives them new types.
AssignsCompressed == AllRules \ {"AssignDecompressed"}

\* Keeps raw struct arrays in binary files, as DebugTest does.
StoresStructs == AllRules \ {"NoRawStructFile"}

-----------------------------------------------------------------------------
\* array.cpp:461 calls the throw of Decompress "Unreachable": a compressed array
\* never still has its uncompressed items.
DecompressNeverMeetsValues == \A a \in Arrays : arr[a].outcome # "ValidDataPointer"

\* array.cpp:283 calls the throw of GetByteSize "Unreachable": a struct array of
\* either class always knows its description.
DescriptionNeverMissing == \A a \in Arrays : arr[a].outcome # "NoStructInfo"

\* DebugTest saves and loads arrays of every kind and demands that what was
\* written and what is loaded compare equal (data.cpp:272): neither the loading
\* nor the reading that the comparison starts with may be undefined.
NothingUndefined == \A a \in Arrays : arr[a].outcome # "undefined"
=============================================================================
