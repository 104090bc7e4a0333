----------------------------- MODULE RecordWords -----------------------------
(***************************************************************************)
(* The words of the record module that reach into a record, and the jq     *)
(* paths that JQ@, JQ! and JQ-DEL follow: what each word makes of its      *)
(* arguments, a value or Fail.                                             *)
(***************************************************************************)
EXTENDS RecordShapes

-----------------------------------------------------------------------------
\* REC@ and <REC!, by a key or by an array of keys.
DrillStep(v, field) ==
    IF Kind(v) = "record" /\ Kind(field) = "string" THEN Get(v[2], field[2]) ELSE Nil

\* A field that is no string ends the drill: the fold stays at null.
drill_for_value(v, fields) == FoldLeft(DrillStep, v, fields)

RecAt(r, field) ==
    CASE Kind(r) = "record" /\ Kind(field) = "string" -> Get(r[2], field[2])
      [] Kind(r) = "record" /\ Kind(field) = "array"  -> drill_for_value(r, field[2])
      [] OTHER -> Nil

\* A value on the way that is no record, and a field that is no string, leave
\* the record as it is; a missing one is created.
RECURSIVE set_nested_value(_, _, _)
set_nested_value(pairs, fields, v) ==
    CASE fields = <<>> -> pairs
      [] fields # <<>> /\ Kind(Head(fields)) # "string" -> pairs
      [] Len(fields) = 1 /\ Kind(Head(fields)) = "string" -> Put(pairs, Head(fields)[2], v)
      [] OTHER ->
            LET k     == Head(fields)[2]
                child == IF Has(pairs, k) THEN Get(pairs, k) ELSE EmptyRec
            IN  IF Kind(child) # "record" THEN pairs
                ELSE Put(pairs, k, Rec(set_nested_value(child[2], Tail(fields), v)))

SetRec(r, v, field) ==
    CASE Kind(r) \notin {"record", "null"} -> r
      [] Kind(r) \in {"record", "null"} /\ Kind(field) = "string" ->
            Rec(Put(PairsOf(r), field[2], v))
      [] Kind(r) \in {"record", "null"} /\ Kind(field) = "array" ->
            Rec(set_nested_value(PairsOf(r), field[2], v))
      [] OTHER -> Rec(PairsOf(r))

-----------------------------------------------------------------------------
\* Paths: sequences of segments <<kind, payload>>.
Field(s)   == <<"field", s>>
Index(n)   == <<"index", n>>
Iterate    == <<"iterate", 0>>
Path(segs) == <<"path", segs>>

\* A string path.  Scan gives the position of the first of these characters
\* at or after i, or the end of the text.
Scan(s, i, stops) == Min({j \in i..Len(s) : CharAt(s, j) \in stops} \cup {Len(s) + 1})

Digits == -9..9
IsIndexText(t) == \E n \in Digits : ToString(n) = t
IndexText(t)   == CHOOSE n \in Digits : ToString(n) = t

RECURSIVE path_from(_, _)
path_from(s, i) ==
    LET Then(seg, j) == LET rest == path_from(s, j) IN
                        IF Failed(rest) THEN rest ELSE Path(<<seg>> \o rest[2])
        c     == CharAt(s, i)
        q     == CharAt(s, i + 1)
        close == Scan(s, i + 2, {q})          \* the quote that closes a quoted key
        brack == Scan(s, i + 1, {"]"})
        name  == Scan(s, i, {".", "["})
        inner == SubSeq(s, i + 1, brack - 1)
    IN  CASE i > Len(s) -> Path(<<>>)
          [] i <= Len(s) /\ c = "." -> path_from(s, i + 1)
          [] i <= Len(s) /\ c = "[" /\ q \in {"\"", "'"} ->
                IF close < Len(s) /\ CharAt(s, close + 1) = "]"
                THEN Then(Field(SubSeq(s, i + 2, close - 1)), close + 2)
                ELSE BadOperation
          [] i <= Len(s) /\ c = "[" /\ q \notin {"\"", "'"} ->
                CASE brack > Len(s) -> BadOperation
                  [] brack = i + 1 -> Then(Iterate, brack + 1)
                  [] brack \in i+2..Len(s) /\ IsIndexText(inner) ->
                        Then(Index(IndexText(inner)), brack + 1)
                  [] OTHER -> BadOperation
          [] OTHER -> Then(Field(SubSeq(s, i, name - 1)), name)

parse_string_path(s) == path_from(s, 1)

PathElement(v) ==
    CASE IsInteger(v) -> Index(AsI64(v))
      [] Kind(v) \in {"string", "bool", "null"} -> Field(ScalarText(v))
      [] OTHER -> BadOperation

parse_jq_path(path) ==
    CASE Kind(path) = "string" -> parse_string_path(path[2])
      [] Kind(path) = "array"  ->
            LET segs == [i \in 1..Len(path[2]) |-> PathElement(path[2][i])] IN
            IF \E i \in 1..Len(segs) : Failed(segs[i]) THEN BadOperation ELSE Path(segs)
      [] OTHER -> BadOperation

-----------------------------------------------------------------------------
\* Any miss is null.  [] maps over the elements, and splats what a later []
\* made of one of them.
RECURSIVE jq_get(_, _)
jq_get(c, segs) ==
    IF segs = <<>> THEN c
    ELSE LET head == Head(segs)
             rest == Tail(segs)
             i    == normalize_index(head[2], Len(Elements(c)))
             subs == [k \in 1..Len(Elements(c)) |-> jq_get(Elements(c)[k], rest)]
             Splat(v) == IF Kind(v) = "array" /\ Iterate \in ToSet(rest) THEN v[2] ELSE <<v>>
         IN  CASE head[1] = "field" ->
                    IF Has(PairsOf(c), head[2]) THEN jq_get(Get(c[2], head[2]), rest) ELSE Nil
               [] head[1] = "index" -> IF i = 0 THEN Nil ELSE jq_get(Elements(c)[i], rest)
               [] OTHER -> Arr(FlattenSeq([k \in 1..Len(subs) |-> Splat(subs[k])]))

new_container_for(segs) ==
    IF segs # <<>> /\ Head(segs)[1] = "index" THEN EmptyArr ELSE EmptyRec
fresh_container(v, segs) == new_container_for(segs)  \* Bug: what was there is lost.
ensure_container(v, segs) == IF IsContainer(v) THEN v ELSE new_container_for(segs)

Padded(s, n) == [k \in 1..Max({n, Len(s)}) |-> IF k <= Len(s) THEN s[k] ELSE Nil]

\* The kind of a created container is that of the next segment; a scalar on
\* the way is replaced.
RECURSIVE jq_set(_, _, _)
jq_set(container, segs, v) ==
    IF segs = <<>> THEN v
    ELSE LET head == Head(segs)
             rest == Tail(segs)
             c    == ensure_container(container, segs)
             key  == IF head[1] = "index" THEN ToString(head[2]) ELSE head[2]
             s    == IF Kind(c) = "array" THEN Padded(c[2], head[2] + 1) ELSE c[2]
             old  == IF Kind(c) = "array" THEN s[head[2] + 1] ELSE Get(c[2], key)
             new  == IF rest = <<>> THEN v
                     ELSE jq_set(ensure_container(old, rest), rest, v)
         IN  CASE head = Iterate -> BadOperation
               [] head # Iterate /\ Kind(c) = "array" /\ (head[1] = "field" \/ head[2] < 0) ->
                    BadOperation
               [] head # Iterate /\ Kind(c) = "array" /\ head[1] = "index" /\ head[2] >= 0 ->
                    IF Failed(new) THEN new ELSE Arr([s EXCEPT ![head[2] + 1] = new])
               [] OTHER -> IF Failed(new) THEN new ELSE Rec(Put(s, key, new))

\* Nothing is created, and what is missing is left alone.
RECURSIVE jq_del(_, _)
jq_del(c, segs) ==
    IF segs = <<>> THEN c
    ELSE LET head == Head(segs)
             rest == Tail(segs)
             key  == IF head[1] = "index" THEN ToString(head[2]) ELSE head[2]
             i    == normalize_index(head[2], Len(c[2]))
             child == IF Kind(c) = "array" THEN jq_del(c[2][i], rest)
                      ELSE jq_del(Get(c[2], key), rest)
         IN  CASE Iterate \in ToSet(segs) -> BadOperation
               [] Iterate \notin ToSet(segs) /\ Kind(c) = "record" ->
                    IF ~Has(c[2], key) THEN c
                    ELSE IF rest = <<>> THEN Rec(ShiftRemove(c[2], key))
                    ELSE IF Failed(child) THEN child ELSE Rec(Put(c[2], key, child))
               [] Iterate \notin ToSet(segs) /\ Kind(c) = "array" /\ head[1] = "index" ->
                    IF i = 0 THEN c
                    ELSE IF rest = <<>> THEN Arr(RemoveAt(c[2], i))
                    ELSE IF Failed(child) THEN child ELSE Arr([c[2] EXCEPT ![i] = child])
               [] OTHER -> c

JqAt(c, path) ==
    LET p == parse_jq_path(path) IN IF Failed(p) THEN p ELSE jq_get(c, p[2])

JqSet(c, v, path) ==
    LET p == parse_jq_path(path) IN IF Failed(p) THEN p ELSE jq_set(c, p[2], v)

\* A null container is left alone, whatever the path.
JqDel(c, path) ==
    LET p == parse_jq_path(path)
    IN  IF Failed(p) THEN p ELSE IF Kind(c) = "null" THEN c ELSE jq_del(c, p[2])
=============================================================================
