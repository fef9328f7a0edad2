--------------------------- MODULE PropertyValues ---------------------------
(***************************************************************************)
(* Property values as the query engine and the store compare them, and the *)
(* part of the read planner that turns a property map of a pattern into    *)
(* the predicates it hands to the store.                                   *)
(*                                                                         *)
(* The engine compares numbers by value across Go representations; the     *)
(* store compares encoded bytes, so the integer 1, the float 1.0, and the  *)
(* floats 0.0 and -0.0 are all different there.  A value is a pair: its    *)
(* representation and its payload.  Above Exact, which stands for 2^53, a  *)
(* float holds even numbers only; MaxInteger stands for 2^63 - 1.          *)
(***************************************************************************)
EXTENDS Integers, FiniteSets

CONSTANTS Exact,          \* largest number up to which every integer is a float
          MaxInteger,     \* largest integer of the int64 representation
          ShortestDigits(_),  \* the number that the JSON text of a float names: its
                              \* shortest digits, padded with zeros
          PredicateTerms  \* iteratorPredicateTerms: labels, types or properties of a predicate

ASSUME ValuesAssumption ==
    /\ Exact \in Nat /\ Exact % 4 = 0
    /\ MaxInteger \in Nat
    /\ \A n \in 0..Exact : ShortestDigits(n) = n
    /\ PredicateTerms \in Nat \ {0}

Null == <<"null", 0>>
Integer(n) == <<"integer", n>>
Float(n) == <<"float", n>>
NegativeZero == <<"negative_zero", 0>>
NaN == <<"nan", 0>>
Text(t) == <<"text", t>>
List(v) == <<"list", v>>        \* a list of one scalar

number(v) == v[1] \in {"integer", "float", "negative_zero", "nan"}

\* float64(n), rounding to nearest, ties to even.
ToFloat(n) ==
    IF n <= Exact \/ n % 2 = 0 THEN n
    ELSE IF (n \div 2) % 2 = 1 THEN n + 1 ELSE n - 1

\* compareNumbers: exact across the representations, unordered for NaN.
numbersEqual(v, w) == v[1] # "nan" /\ w[1] # "nan" /\ v[2] = w[2]

scalarsEqual(v, w) == IF number(v) /\ number(w) THEN numbersEqual(v, w) ELSE v = w

equalValues(v, w) ==
    IF v[1] = "list" /\ w[1] = "list" THEN scalarsEqual(v[2], w[2]) ELSE scalarsEqual(v, w)

\* valueKey: the JSON text of the value under the name of its Go type.  Inside
\* a list the type is lost, so 1 and 1.0 share a text; 0 and -0 do not, nor do
\* a large integer and the float equal to it.
valueKey(v) ==
    CASE v[1] = "list" /\ v[2][1] = "integer" -> <<"list", <<"number", v[2][2]>>>>
      [] v[1] = "list" /\ v[2][1] = "float" -> <<"list", <<"number", ShortestDigits(v[2][2])>>>>
      [] OTHER -> v

\* An equal list may have another key: it holds -0.0, or a number beyond Exact.
LossyKey(v) ==
    \/ v = List(NegativeZero)
    \/ v[1] = "list" /\ v[2][1] \in {"integer", "float"} /\ v[2][2] > Exact

\* What the store compares: the encoded bytes of both values.
storeEqual(v, w) == v = w

storeExactPropertyValue(v) == v[1] = "text"

\* The values there are: a float holds what a float can, and text and lists
\* are told apart by their payload.
IsScalar(v) ==
    \/ v[1] = "integer" /\ v = Integer(v[2]) /\ v[2] \in 0..MaxInteger
    \/ v[1] = "float" /\ v = Float(v[2]) /\ v[2] \in Nat /\ ToFloat(v[2]) = v[2]
    \/ v \in {NegativeZero, NaN}
    \/ v[1] = "text" /\ v = Text(v[2])

IsValue(v) == IsScalar(v) \/ (v[1] = "list" /\ v = List(v[2]) /\ IsScalar(v[2]))

-----------------------------------------------------------------------------
\* Variant: the float nearest to an integer is a candidate although it differs.
numericIndexCandidatesRounded(v) ==
    LET floats(n) == IF n = 0 THEN {Float(0), NegativeZero} ELSE {Float(n)}
    IN  CASE v[1] = "nan" -> {}
          [] v[1] = "integer" -> {v} \cup floats(ToFloat(v[2]))
          [] OTHER -> floats(v[2]) \cup (IF v[2] <= MaxInteger THEN {Integer(v[2])} ELSE {})

\* The representations of a number that are equal to it.
numericIndexCandidates(v) ==
    LET floats == IF v[2] = 0 THEN {Float(0), NegativeZero} ELSE {Float(v[2])}
    IN  CASE v[1] = "nan" -> {}
          [] v[1] = "integer" -> {v} \cup (IF ToFloat(v[2]) = v[2] THEN floats ELSE {})
          [] OTHER -> floats \cup (IF v[2] <= MaxInteger THEN {Integer(v[2])} ELSE {})

Only(map, keys) == [k \in keys |-> map[k]]

With(map, key, value) ==
    [k \in DOMAIN map \cup {key} |-> IF k = key THEN value ELSE map[k]]

NoProperties == Only(<<>>, {})

\* Keys are ordered; 0 is the special one, body of a node or position of an
\* edge, which is a column of its own in the store.
Special == 0

\* buildPropertyScanPlan.  The first numeric key becomes one alternative per
\* representation, other keys are pushed only when the store's equality is
\* the engine's, and what is left (complete = FALSE) is the matcher's.
buildPropertyScanPlan(properties, known) ==
    LET keys == IF known THEN DOMAIN properties ELSE {}
        numeric == {k \in keys \ {Special} : number(properties[k])}
        first == {k \in numeric : \A j \in numeric : k <= j}
        candidates == UNION {numericIndexCandidates(properties[k]) : k \in first}
        limit == PredicateTerms - Cardinality(first)
        exact == {k \in keys \ (first \cup {Special}) : storeExactPropertyValue(properties[k])}
        pushed == {k \in exact : Cardinality({j \in exact : j < k}) < limit}
        base == Only(properties, pushed)
    IN  IF first # {} /\ candidates = {}
        THEN [base |-> NoProperties, alternatives |-> {}, complete |-> TRUE, empty |-> TRUE]
        ELSE [base |-> base,
              alternatives |-> IF first = {} THEN {base}
                               ELSE {With(base, CHOOSE k \in first : TRUE, c) : c \in candidates},
              complete |-> known /\ keys = pushed \cup first,
              empty |-> FALSE]
=============================================================================
