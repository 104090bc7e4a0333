---------------------------- MODULE StandardWords ----------------------------
(***************************************************************************)
(* The standard words that run no code, at work on one stack: every action *)
(* is the handler of one word, from the pops to the pushes.                *)
(***************************************************************************)
EXTENDS CuttingWords, ShapingWords, FlattenWords, RecordWords

-----------------------------------------------------------------------------
\* The words that go deeper into their containers.
word_flatten   == Pops(Beneath, 1, LAMBDA a :
                      <<FlattenOf(a[1], Option("depth", "int", NoLimit))>>)
word_jq_at      == Binary(JqAt)
word_jq_set     == Ternary(JqSet)
word_jq_del     == Binary(JqDel)
word_rec_at     == Binary(RecAt)
word_set_rec    == Ternary(SetRec)

ArrayWord  == CuttingWord \/ SortingWord \/ KeyedWord \/ word_flatten
RecordWord == ShapeWord \/ word_jq_at \/ word_jq_set \/ word_jq_del \/ word_rec_at \/ word_set_rec

-----------------------------------------------------------------------------
Next == ArrayWord \/ RecordWord \/ BooleanWord \/ CoreWord

Spec == Init /\ [][Next]_vars

-----------------------------------------------------------------------------
\* Every value the words build is a value of the language: whatever inserts,
\* renames, inverts, merges or flattens records leaves one entry for a key.
TypeOK ==
    /\ StackShaped
    /\ \A i \in 1..Len(stack) : WellFormed(stack[i])
    /\ res \in {"ok", "StackUnderflow", "InvalidOperation"}
    /\ executed \in 0..MaxWords

-----------------------------------------------------------------------------
\* An index that meets a record sets a key and gets a position.
IndexMeetsRecord(c, segs) ==
    \E k \in 1..Len(segs) : /\ segs[k][1] = "index"
                            /\ Kind(jq_get(c, SubSeq(segs, 1, k - 1))) = "record"

\* A path as it would be written, every field in quotes.
PathText(segs) ==
    FoldLeft(LAMBDA t, seg : t \o (IF seg[1] = "field" THEN "['" \o seg[2] \o "']"
                                   ELSE "[" \o ToString(seg[2]) \o "]"), "", segs)

\* JQ!, JQ@, JQ-DEL, <REC! and REC@ mean the same place by the same path: what
\* was put is found, putting back what was found changes nothing, a deleted
\* new key leaves the container as it was, and nothing beside the path moves.
PathsPutGet ==
    \A i \in 1..Len(stack) - 2 :
        LET c    == stack[i]
            v    == stack[i + 1]
            p    == stack[i + 2]
            path == parse_jq_path(p)
            segs == path[2]
            new  == JqSet(c, v, p)
            old  == JqAt(c, p)
            up   == jq_get(c, Front(segs))
        IN  ~Failed(path) =>
              /\ Iterate \notin ToSet(segs) => parse_string_path(PathText(segs)) = path
              /\ ~Failed(new) =>
                    /\ IndexMeetsRecord(new, segs) \/ JqAt(new, p) = v
                    /\ JqSet(new, v, p) = new
                    /\ segs # <<>> /\ Last(segs)[1] = "field" /\ Kind(up) = "record"
                       /\ ~Has(up[2], Last(segs)[2]) /\ ~IndexMeetsRecord(c, segs) =>
                          JqDel(new, p) = c
                    /\ segs # <<>> /\ Kind(c) = "record" /\ Head(segs)[1] = "field" =>
                          ShiftRemove(new[2], Head(segs)[2]) = ShiftRemove(c[2], Head(segs)[2])
                    /\ old # Nil /\ ~IndexMeetsRecord(c, segs) => JqSet(c, old, p) = c
              /\ Kind(c) = "record" /\ v # Nil /\ p # EmptyArr
                 /\ (\A s \in ToSet(segs) : s[1] = "field")
                 /\ (\A k \in 1..Len(segs) - 1 :
                        Kind(jq_get(c, SubSeq(segs, 1, k))) \in {"record", "null"})
                 /\ Kind(p) = "array" /\ (\A e \in ToSet(p[2]) : Kind(e) = "string") =>
                    RecAt(SetRec(c, v, p), p) \in {v, Nil}
                    /\ (RecAt(SetRec(c, v, p), p) = v => SetRec(c, v, p) = new)

\* No key with a tab in it looks like the path of another entry: FLATTEN would
\* keep one of the two.
PathsApart(c, depth) ==
    Kind(c) = "record" => IsInjective(KeysOf(flatten_record(c[2], depth, "")))

\* A FLATTEN that stops halfway and is taken up again is one that does not stop.
FlattensOn ==
    \A i \in 1..Len(stack) : \A d \in {0, 1, NoLimit} :
        LET c == stack[i]
        IN  IsContainer(c) /\ PathsApart(c, d) =>
                FlattenOf(FlattenOf(c, d), NoLimit) = FlattenOf(c, NoLimit)

\* Words that go down a path reach the same place, in one go or in two.
PathsAgree == PathsPutGet /\ FlattensOn
=============================================================================
