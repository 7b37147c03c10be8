------------------------------ MODULE ArraySeq ------------------------------
(***************************************************************************)
(* What a udm::Array promises its users, whether it is compressed or not:  *)
(* a typed sequence of items, indexed from 0.  Nothing here knows of       *)
(* buffers, headers or compressed blobs; compression, decompression,       *)
(* reading and storing to a file change nothing.                           *)
(***************************************************************************)
EXTENDS Integers

CONSTANTS
  Arrays,     \* the arrays of the program
  Types,      \* the value types an array may be given
  Values,     \* the values the program stores
  Default,    \* the default-initialised item
  Garbage,    \* an item nobody has initialised yet
  Descs,      \* the struct descriptions in use
  EmptyDesc,  \* the description of a struct without members
  MaxSize     \* bound on the length of the sequences

VARIABLE seqs  \* [Arrays -> [type, desc, size, items]]

Item == Values \cup {Default, Garbage}

\* What an item may be that is neither a copy nor the caller's value.
Unset == {Default, Garbage}

\* Growing an array that has items resets the new ones; an empty array gets
\* them as the allocation left them.
Grown(s) == IF s.size = 0 THEN Unset ELSE {Default}

EmptySeq(t) ==
  [type |-> t, desc |-> EmptyDesc, size |-> 0, items |-> [i \in {} |-> Default]]

\* s with its items replaced by the n items that F gives.
WithItems(s, n, f) == [s EXCEPT !.size = n, !.items = f]

Init == seqs \in [Arrays -> {EmptySeq("Nil")}]

Change(a, s) == seqs' = [seqs EXCEPT ![a] = s]

SetValueType(a, t) ==
  /\ t # seqs[a].type
  /\ Change(a, EmptySeq(t))

Describe(a, d, n) ==
  \E f \in [0..(n - 1) -> Unset] :
    Change(a, [type |-> "Struct", desc |-> d, size |-> n, items |-> f])

\* The first items survive, up to the smaller of both sizes.
Resize(a, n) ==
  \E f \in [0..(n - 1) -> Grown(seqs[a])] :
    Change(a, WithItems(seqs[a], n,
      [i \in 0..(n - 1) |-> IF i < seqs[a].size THEN seqs[a].items[i] ELSE f[i]]))

InsertValue(a, idx, v) ==
  /\ idx <= seqs[a].size
  /\ Change(a, WithItems(seqs[a], seqs[a].size + 1,
       [i \in 0..seqs[a].size |->
          IF i < idx THEN seqs[a].items[i]
          ELSE IF i = idx THEN v
          ELSE seqs[a].items[i - 1]]))

RemoveValue(a, idx) ==
  /\ idx < seqs[a].size
  /\ Change(a, WithItems(seqs[a], seqs[a].size - 1,
       [i \in 0..(seqs[a].size - 2) |->
          IF i < idx THEN seqs[a].items[i] ELSE seqs[a].items[i + 1]]))

AddValueRange(a, start, count) ==
  /\ start <= seqs[a].size
  /\ \E f \in [0..(seqs[a].size + count - 1) -> Unset] :
       Change(a, WithItems(seqs[a], seqs[a].size + count,
         [i \in 0..(seqs[a].size + count - 1) |->
            IF i < start THEN seqs[a].items[i]
            ELSE IF i < start + count THEN f[i]
            ELSE seqs[a].items[i - count]]))

RemoveValueRange(a, start, count) ==
  /\ start + count <= seqs[a].size
  /\ Change(a, WithItems(seqs[a], seqs[a].size - count,
       [i \in 0..(seqs[a].size - count - 1) |->
          IF i < start THEN seqs[a].items[i] ELSE seqs[a].items[i + count]]))

SetValue(a, idx, v) ==
  /\ idx < seqs[a].size
  /\ Change(a, WithItems(seqs[a], seqs[a].size, [seqs[a].items EXCEPT ![idx] = v]))

CopyFrom(a, b) == Change(a, seqs[b])

\* The source of a move is left empty, of no type.
MoveFrom(a, b) == seqs' = [seqs EXCEPT ![a] = seqs[b], ![b] = EmptySeq("Nil")]

Append(a, b) ==
  /\ seqs[a].type = seqs[b].type
  /\ Change(a, WithItems(seqs[a], seqs[a].size + seqs[b].size,
       [i \in 0..(seqs[a].size + seqs[b].size - 1) |->
          IF i < seqs[a].size THEN seqs[a].items[i]
                              ELSE seqs[b].items[i - seqs[a].size]]))

Sizes == 0..MaxSize

Next ==
  \E a \in Arrays :
    \/ \E t \in Types : SetValueType(a, t)
    \/ \E d \in Descs, n \in Sizes : Describe(a, d, n)
    \/ \E n \in Sizes : Resize(a, n)
    \/ \E idx \in Sizes, v \in Values : InsertValue(a, idx, v) \/ SetValue(a, idx, v)
    \/ \E idx \in Sizes : RemoveValue(a, idx)
    \/ \E start \in Sizes, count \in Sizes :
         AddValueRange(a, start, count) \/ RemoveValueRange(a, start, count)
    \/ \E b \in Arrays \ {a} : CopyFrom(a, b) \/ MoveFrom(a, b) \/ Append(a, b)

Spec == Init /\ [][Next]_seqs
=============================================================================
