---------------------------- MODULE FlattenWords ----------------------------
(***************************************************************************)
(* FLATTEN of the array module, which descends into nested containers.     *)
(***************************************************************************)
EXTENDS ArrayWords

\* depth bounds the descent; NoLimit is the option left out.
NoLimit == MaxInt

RECURSIVE flatten_array(_, _)
flatten_array(items, depth) ==
    FlattenSeq([i \in 1..Len(items) |->
        IF Kind(items[i]) = "array" /\ depth > 0
        THEN flatten_array(items[i][2], depth - 1) ELSE <<items[i]>>])

\* The path of a leaf is its keys joined by tabs; an empty record is a leaf.
RECURSIVE flatten_record(_, _, _)
flatten_record(pairs, depth, path) ==
    FlattenSeq([i \in 1..Len(pairs) |->
        IF Kind(pairs[i][2]) = "record" /\ Size(pairs[i][2]) > 0 /\ depth > 0
        THEN flatten_record(pairs[i][2][2], depth - 1, path \o pairs[i][1] \o "\t")
        ELSE <<<<path \o pairs[i][1], pairs[i][2]>>>>])

FlattenOf(c, depth) ==
    CASE Kind(c) = "null"   -> EmptyArr
      [] Kind(c) = "array"  -> Arr(flatten_array(c[2], depth))
      [] Kind(c) = "record" -> Rec(Collected(flatten_record(c[2], depth, "")))
      [] OTHER              -> c
=============================================================================
