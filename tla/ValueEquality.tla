---------------------------- MODULE ValueEquality ----------------------------
(***************************************************************************)
(* What goes through a value to its depth: the equality of the standard    *)
(* words, and the form a value has.                                        *)
(*                                                                         *)
(* The code recurs.  Here one layer of elements follows another, down to   *)
(* MaxNesting of them, and what has been reached is a set that grows.      *)
(***************************************************************************)
EXTENDS ForthicValues

CONSTANT MaxNesting  \* how deep values are nested; the code has no bound

ASSUME NestingAssumption == MaxNesting \in Nat

\* What == asks of two values before it looks at their elements.
Matches(a, b) ==
    CASE IsNumber(a) /\ IsNumber(b) ->
            /\ NaN \notin {a, b}
            /\ IF Kind(a) = Kind(b) THEN a = b ELSE AsF64(a) = AsF64(b)
      [] Kind(a) = "array" /\ Kind(b) = "array" -> Len(a[2]) = Len(b[2])
      [] Kind(a) = "record" /\ Kind(b) = "record" ->
            /\ Len(a[2]) = Len(b[2])
            /\ \A i \in 1..Len(a[2]) : Has(b[2], a[2][i][1])
      [] Kind(a) \in {"null", "bool", "string", "datetime"} -> a = b
      [] OTHER -> FALSE

\* The elements it then compares: those of arrays by position, those of
\* records by key.
Opposite(a, b) ==
    IF ~Matches(a, b) THEN {}
    ELSE CASE Kind(a) = "array"  -> {<<a[2][i], b[2][i]>> : i \in 1..Len(a[2])}
           [] Kind(a) = "record" ->
                 {<<a[2][i][2], Get(b[2], a[2][i][1])>> : i \in 1..Len(a[2])}
           [] OTHER -> {}

\* The words == and CONTAINS?, and every word that compares whole values.
values_equal(a, b) ==
    LET compared[n \in 0..MaxNesting] ==
            IF n = 0 THEN {<<a, b>>}
            ELSE LET above == compared[n - 1]
                 IN  above \cup UNION {Opposite(p[1], p[2]) : p \in above}
    IN  /\ Matches(a, b)
        /\ Opposite(a, b) # {} => \A p \in compared[MaxNesting] : Matches(p[1], p[2])

-----------------------------------------------------------------------------
\* What a value may look like: integers in their width, records with one
\* entry for a key, at any depth.
Formed(v) ==
    CASE Kind(v) = "int"   -> v[2] \in MinInt..MaxInt
      [] Kind(v) = "bool"  -> v[2] \in BOOLEAN
      [] Kind(v) = "array" -> TRUE
      [] Kind(v) \in {"record", "options"} -> IsInjective(KeysOf(v[2]))
      [] OTHER -> Kind(v) \in {"null", "float", "negzero", "nan", "string", "datetime"}

Parts(v) ==
    CASE Kind(v) = "array" -> ToSet(v[2])
      [] Kind(v) \in {"record", "options"} -> {v[2][i][2] : i \in 1..Len(v[2])}
      [] OTHER -> {}

WellFormed(v) ==
    LET within[n \in 0..MaxNesting] ==
            IF n = 0 THEN {v}
            ELSE LET outer == within[n - 1] IN outer \cup UNION {Parts(w) : w \in outer}
    IN  /\ Formed(v)
        /\ Parts(v) # {} => \A w \in within[MaxNesting] : Formed(w)
=============================================================================
