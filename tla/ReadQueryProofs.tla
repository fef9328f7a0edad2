-------------------------- MODULE ReadQueryProofs ---------------------------
(***************************************************************************)
(* What the planner loads is enough: for every revision, every query of    *)
(* the model's language and every budget.                                  *)
(*                                                                         *)
(* The first half is about the matcher.  The levels of an expansion are    *)
(* covered by a working set if every edge that the pushed predicate admits *)
(* leads from one level into the next (LevelStep, Covers).  Over covered   *)
(* levels the steps, walks, patterns and clauses of the part are those of  *)
(* the whole revision, and their rows bind nodes the bindings know (Fits), *)
(* so that a later pattern may start from those: SameSteps, SameWalk,      *)
(* SamePattern, SameClauses, SameRows.  The in-memory indexes find what a  *)
(* look at every node finds, unless a list holds -0.0 (IndexesExact).      *)
(*                                                                         *)
(* The second half shows that the iterator covers what it passes.  The     *)
(* invariant Inv says, at every cursor, that the patterns before it are    *)
(* covered, that the relationships before it in its pattern are, and that  *)
(* the levels before its depth are (AtRoot, InPattern, InLevels); the node *)
(* scan and the snapshot cover all at once.                                *)
(***************************************************************************)
EXTENDS ReadQuery, FiniteSetTheorems, TLAPS

-----------------------------------------------------------------------------
(* Values, and the predicates pushed to the store.                         *)

\* The candidates of a number by its representation.
LEMMA CandidatesByKind ==
    ASSUME NEW v, NEW floats,
           floats = IF v[2] = 0 THEN {Float(0), NegativeZero} ELSE {Float(v[2])}
    PROVE  /\ v[1] = "nan" => numericIndexCandidates(v) = {}
           /\ v[1] = "integer" =>
                 numericIndexCandidates(v) = {v} \cup (IF ToFloat(v[2]) = v[2] THEN floats ELSE {})
           /\ v[1] \in {"float", "negative_zero"} =>
                 numericIndexCandidates(v) = floats \cup (IF v[2] <= MaxInteger THEN {Integer(v[2])} ELSE {})
<1>1. "nan" # "integer" /\ "float" # "nan" /\ "float" # "integer"
      /\ "negative_zero" # "nan" /\ "negative_zero" # "integer"
  OBVIOUS
<1>2. v[1] = "nan" => numericIndexCandidates(v) = {}
  BY <1>1, Zenon DEF numericIndexCandidates
<1>3. v[1] = "integer" =>
          numericIndexCandidates(v) = {v} \cup (IF ToFloat(v[2]) = v[2] THEN floats ELSE {})
  BY <1>1, Zenon DEF numericIndexCandidates
<1>4. v[1] # "nan" /\ v[1] # "integer" =>
          numericIndexCandidates(v) = floats \cup (IF v[2] <= MaxInteger THEN {Integer(v[2])} ELSE {})
  BY Zenon DEF numericIndexCandidates
<1>5. v[1] \in {"float", "negative_zero"} => v[1] # "nan" /\ v[1] # "integer"
  BY <1>1
<1> QED BY <1>2, <1>3, <1>4, <1>5

\* A number is stored as one of the representations that are looked up for a
\* number it is equal to, and only as one of those.
LEMMA NumericCandidates ==
    ASSUME NEW v, IsScalar(v), number(v), NEW w, IsValue(w)
    PROVE  equalValues(w, v) <=> w \in numericIndexCandidates(v)
<1> DEFINE floats == IF v[2] = 0 THEN {Float(0), NegativeZero} ELSE {Float(v[2])}
<1>0. v[1] # "list" /\ v[1] # "text"
  BY DEF number
<1>5. /\ v[1] = "nan" => numericIndexCandidates(v) = {}
      /\ v[1] = "integer" =>
            numericIndexCandidates(v) = {v} \cup (IF ToFloat(v[2]) = v[2] THEN floats ELSE {})
      /\ v[1] \in {"float", "negative_zero"} =>
            numericIndexCandidates(v) = floats \cup (IF v[2] <= MaxInteger THEN {Integer(v[2])} ELSE {})
  BY CandidatesByKind
<1>6. \A x \in numericIndexCandidates(v) : x = v \/ x[1] \in {"integer", "float", "negative_zero"}
  BY <1>5 DEF number, Float, NegativeZero, Integer
<1>1. equalValues(w, v) <=> scalarsEqual(w, v)
  BY <1>0 DEF equalValues
<1>2. CASE w[1] = "list"
  <2>1. ~number(w)
    BY <1>2 DEF number
  <2>2. w # v
    BY <1>0, <1>2
  <2>3. ~equalValues(w, v)
    BY <1>1, <2>1, <2>2 DEF scalarsEqual
  <2>4. w \notin numericIndexCandidates(v)
    BY <1>2, <2>2, <1>6
  <2> QED BY <2>3, <2>4
<1>3. CASE w[1] = "text"
  <2>1. ~number(w)
    BY <1>3 DEF number
  <2>2. w # v
    BY <1>0, <1>3
  <2>3. ~equalValues(w, v)
    BY <1>1, <2>1, <2>2 DEF scalarsEqual
  <2>4. w \notin numericIndexCandidates(v)
    BY <1>3, <2>2, <1>6
  <2> QED BY <2>3, <2>4
<1>4. CASE IsScalar(w) /\ w[1] # "text"
  <2>1. number(w)
    BY <1>4 DEF IsScalar, number, NegativeZero, NaN
  <2>2. equalValues(w, v) <=> v[1] # "nan" /\ w[1] # "nan" /\ w[2] = v[2]
    BY <1>1, <2>1 DEF scalarsEqual, numbersEqual
  <2>3. CASE v[1] = "nan"
    BY <1>5, <2>2, <2>3
  <2>6. ToFloat(0) = 0
    BY ValuesAssumption DEF ToFloat
  <2>4. CASE v[1] = "integer"
    BY <1>4, <1>5, <2>2, <2>4, <2>6 DEF IsScalar, Integer, Float, NegativeZero, NaN
  <2>5. CASE v[1] \in {"float", "negative_zero"}
    BY <1>4, <1>5, <2>2, <2>5 DEF IsScalar, Integer, Float, NegativeZero, NaN
  <2> QED BY <2>3, <2>4, <2>5 DEF number
<1> QED BY <1>2, <1>3, <1>4 DEF IsValue

\* Text is compared by the engine as it is by the store.
LEMMA TextExact ==
    ASSUME NEW v, v[1] = "text", NEW w
    PROVE  equalValues(w, v) <=> w = v
BY DEF equalValues, scalarsEqual, number

\* A property map as the plan sees it: static values by key.
Known(properties) ==
    /\ DOMAIN properties \subseteq Nat
    /\ \A k \in DOMAIN properties : properties[k] = Null \/ IsValue(properties[k])

\* The parts of a plan: its numeric key, the other keys it pushes, and the
\* representations of the number.
PlanParts(properties, plan, first, pushed, candidates) ==
    /\ first \subseteq DOMAIN properties /\ pushed \subseteq DOMAIN properties
    /\ \A k \in first : number(properties[k]) /\ candidates = numericIndexCandidates(properties[k])
    /\ \A k, j \in first : j = k
    /\ \A k \in pushed : properties[k][1] = "text"
    /\ (first # {} /\ candidates = {}) => (plan.empty /\ plan.alternatives = {} /\ plan.complete)
    /\ ~(first # {} /\ candidates = {}) =>
          /\ ~plan.empty
          /\ plan.base = Only(properties, pushed)
          /\ first = {} => plan.alternatives = {plan.base}
          /\ \A k \in first : plan.alternatives = {With(plan.base, k, c) : c \in candidates}
          /\ plan.complete => DOMAIN properties = pushed \cup first

\* Every plan of buildPropertyScanPlan has those parts.
LEMMA PlanHasParts ==
    ASSUME NEW properties, Known(properties), NEW known \in BOOLEAN, known = TRUE,
           NEW plan, plan = buildPropertyScanPlan(properties, known)
    PROVE  \E first, pushed, candidates : PlanParts(properties, plan, first, pushed, candidates)
<1> DEFINE keys == IF known THEN DOMAIN properties ELSE {}
           numeric == {k \in keys \ {Special} : number(properties[k])}
           first == {k \in numeric : \A j \in numeric : k <= j}
           candidates == UNION {numericIndexCandidates(properties[k]) : k \in first}
           limit == PredicateTerms - Cardinality(first)
           exact == {k \in keys \ (first \cup {Special}) : storeExactPropertyValue(properties[k])}
           pushed == {k \in exact : Cardinality({j \in exact : j < k}) < limit}
           base == Only(properties, pushed)
           some == CHOOSE k \in first : TRUE
           full == known /\ keys = pushed \cup first
           alternatives == IF first = {} THEN {base} ELSE {With(base, some, c) : c \in candidates}
<1>1. first \subseteq DOMAIN properties /\ pushed \subseteq DOMAIN properties
  OBVIOUS
<1>2. \A k \in first : number(properties[k])
  OBVIOUS
<1>3. \A k, j \in first : j = k
  <2>1. first \subseteq Nat
    BY DEF Known
  <2>2. \A k, j \in first : k <= j /\ j <= k
    OBVIOUS
  <2> HIDE DEF first
  <2> QED BY <2>1, <2>2
<1>4. \A k \in pushed : properties[k][1] = "text"
  BY DEF storeExactPropertyValue
<1>6. plan = IF first # {} /\ candidates = {}
             THEN [base |-> NoProperties, alternatives |-> {}, complete |-> TRUE, empty |-> TRUE]
             ELSE [base |-> base, alternatives |-> alternatives, complete |-> full, empty |-> FALSE]
  BY Zenon DEF buildPropertyScanPlan
<1>11. full => DOMAIN properties = pushed \cup first
  OBVIOUS
<1>13. full \in BOOLEAN
  OBVIOUS
<1>12. alternatives = IF first = {} THEN {base} ELSE {With(base, some, c) : c \in candidates}
  OBVIOUS
<1>7. base = Only(properties, pushed)
  OBVIOUS
<1>8. \A k \in first : some = k
  <2> HIDE DEF first
  <2> QED BY <1>3
<1>5. \A k \in first : candidates = numericIndexCandidates(properties[k])
  <2> HIDE DEF first
  <2> QED BY <1>3
<1> HIDE DEF keys, numeric, first, limit, exact, pushed, candidates, base, some, full, alternatives
<1>9. CASE first # {} /\ candidates = {}
  <2>1. plan = [base |-> NoProperties, alternatives |-> {}, complete |-> TRUE, empty |-> TRUE]
    BY <1>6, <1>9
  <2>2. plan.empty /\ plan.alternatives = {} /\ plan.complete
    BY <2>1
  <2>3. PlanParts(properties, plan, first, pushed, candidates)
    BY <1>1, <1>2, <1>3, <1>4, <1>5, <2>2, <1>9 DEF PlanParts
  <2> QED BY <2>3
<1>10. CASE ~(first # {} /\ candidates = {})
  <2>1. plan = [base |-> base, alternatives |-> alternatives, complete |-> full, empty |-> FALSE]
    BY <1>6, <1>10
  <2>2. /\ ~plan.empty /\ plan.base = base /\ plan.alternatives = alternatives
    BY <2>1
  <2>6. plan.complete = full
    BY <2>1
  <2>3. plan.complete => DOMAIN properties = pushed \cup first
    BY <1>11, <1>13, <2>6
  <2>4. \A k \in first : plan.alternatives = {With(plan.base, k, c) : c \in candidates}
    BY <1>8, <1>12, <2>2
  <2>5. first = {} => plan.alternatives = {plan.base}
    BY <1>12, <2>2
  <2>7. plan.base = Only(properties, pushed) /\ ~plan.empty
    BY <1>7, <2>2
  <2>8. PlanParts(properties, plan, first, pushed, candidates)
    BY <1>1, <1>2, <1>3, <1>4, <1>5, <1>10, <2>3, <2>4, <2>5, <2>7 DEF PlanParts
  <2> QED BY <2>8
<1> QED BY <1>9, <1>10

\* What the plan of a property map says of an entity.
Admits(plan, entity) ==
    /\ ~plan.empty
    /\ StoreHas(entity, plan.base)
    /\ \A k \in DOMAIN plan.base : equalValues(property(entity, k), plan.base[k])
    /\ \E a \in plan.alternatives : StoreHas(entity, a)

\* No match is lost: what the matcher accepts, the pushed predicates accept.
LEMMA PlanSound ==
    ASSUME NEW properties, Known(properties), NEW known \in BOOLEAN, known = TRUE,
           NEW plan, plan = buildPropertyScanPlan(properties, known),
           NEW entity, Stored(entity), propertiesMatch(entity, properties)
    PROVE  Admits(plan, entity)
<1>1. PICK first, pushed, candidates : PlanParts(properties, plan, first, pushed, candidates)
  BY PlanHasParts
<1>2. \A k \in DOMAIN properties :
          /\ k \in DOMAIN entity.properties
          /\ property(entity, k) = entity.properties[k]
          /\ equalValues(entity.properties[k], properties[k])
          /\ IsValue(entity.properties[k]) /\ IsValue(properties[k])
  BY DEF propertiesMatch, property, Stored, Known
<1>3. \A k \in pushed : entity.properties[k] = properties[k]
  BY <1>1, <1>2, TextExact DEF PlanParts
<1>4. \A k \in first : entity.properties[k] \in candidates
  <2> TAKE k \in first
  <2>1. number(properties[k]) /\ IsValue(properties[k]) /\ IsValue(entity.properties[k])
        /\ equalValues(entity.properties[k], properties[k]) /\ candidates = numericIndexCandidates(properties[k])
    BY <1>1, <1>2 DEF PlanParts
  <2>2. IsScalar(properties[k])
    BY <2>1 DEF IsValue, number
  <2> QED BY <2>1, <2>2, NumericCandidates
<1>5. /\ ~plan.empty
      /\ plan.base = Only(properties, pushed)
      /\ first = {} => plan.alternatives = {plan.base}
      /\ \A k \in first : plan.alternatives = {With(plan.base, k, c) : c \in candidates}
  BY <1>1, <1>4 DEF PlanParts
<1>6. pushed \subseteq DOMAIN properties /\ first \subseteq DOMAIN properties
  BY <1>1 DEF PlanParts
<1>7. DOMAIN plan.base = pushed /\ \A k \in pushed : plan.base[k] = properties[k]
  BY <1>5 DEF Only
<1>8. StoreHas(entity, plan.base)
  BY <1>2, <1>3, <1>6, <1>7 DEF StoreHas, storeEqual
<1>9. \A k \in DOMAIN plan.base : equalValues(property(entity, k), plan.base[k])
  BY <1>2, <1>6, <1>7
<1>10. \E a \in plan.alternatives : StoreHas(entity, a)
  <2>1. CASE first = {}
    BY <1>5, <1>8, <2>1
  <2>2. CASE first # {}
    <3>1. PICK k \in first : TRUE
      BY <2>2
    <3> DEFINE a == With(plan.base, k, entity.properties[k])
    <3>2. a \in plan.alternatives
      BY <1>4, <1>5
    <3>3. DOMAIN a = pushed \cup {k} /\ a[k] = entity.properties[k]
          /\ \A j \in pushed : j # k => a[j] = properties[j]
      BY <1>7 DEF With
    <3> HIDE DEF a
    <3>4. StoreHas(entity, a)
      BY <1>2, <1>3, <1>6, <3>1, <3>3 DEF StoreHas, storeEqual
    <3> QED BY <3>2, <3>4
  <2> QED BY <2>1, <2>2
<1> QED BY <1>5, <1>8, <1>9, <1>10 DEF Admits

\* A complete plan leaves nothing to the matcher, and an entity satisfies one
\* alternative only: counting the alternatives counts the entities.
LEMMA PlanExact ==
    ASSUME NEW properties, Known(properties), NEW known \in BOOLEAN, known = TRUE,
           NEW plan, plan = buildPropertyScanPlan(properties, known), plan.complete,
           NEW entity, Stored(entity), NEW a \in plan.alternatives, StoreHas(entity, a)
    PROVE  /\ propertiesMatch(entity, properties)
           /\ \A b \in plan.alternatives : StoreHas(entity, b) => b = a
<1>1. PICK first, pushed, candidates : PlanParts(properties, plan, first, pushed, candidates)
  BY PlanHasParts
<1>2. ~(first # {} /\ candidates = {})
  BY <1>1 DEF PlanParts
<1>5. /\ plan.base = Only(properties, pushed)
      /\ first = {} => plan.alternatives = {plan.base}
      /\ \A k \in first : plan.alternatives = {With(plan.base, k, c) : c \in candidates}
      /\ DOMAIN properties = pushed \cup first
      /\ \A k \in first : number(properties[k]) /\ candidates = numericIndexCandidates(properties[k])
      /\ \A k, j \in first : j = k
      /\ \A k \in pushed : properties[k][1] = "text"
  BY <1>1, <1>2 DEF PlanParts
<1>7. DOMAIN plan.base = pushed /\ \A k \in pushed : plan.base[k] = properties[k]
  BY <1>5 DEF Only
<1>14. \A k \in pushed : k \notin first
  BY <1>5 DEF number
<1>8. \A b \in plan.alternatives :
          /\ DOMAIN b = DOMAIN properties
          /\ \A k \in pushed : b[k] = properties[k]
          /\ \A k \in first : b = With(plan.base, k, b[k]) /\ b[k] \in candidates
          /\ first = {} => b = plan.base
  <2> TAKE b \in plan.alternatives
  <2>1. CASE first = {}
    BY <1>5, <1>7, <2>1
  <2>2. CASE first # {}
    <3>1. PICK k \in first : TRUE
      BY <2>2
    <3>4. b \in {With(plan.base, k, c) : c \in candidates}
      BY <1>5, <3>1
    <3>2. PICK c \in candidates : b = With(plan.base, k, c)
      BY <3>4
    <3>3. DOMAIN b = pushed \cup {k} /\ b[k] = c /\ \A j \in pushed : j # k => b[j] = properties[j]
      BY <1>7, <3>2 DEF With
    <3> QED BY <1>5, <1>14, <3>1, <3>2, <3>3
  <2> QED BY <2>1, <2>2
<1>9. \A b \in plan.alternatives : StoreHas(entity, b) =>
          \A k \in DOMAIN properties : k \in DOMAIN entity.properties /\ entity.properties[k] = b[k]
  BY <1>8 DEF StoreHas, storeEqual
<1>10. \A k \in DOMAIN properties : property(entity, k) = entity.properties[k] /\ IsValue(entity.properties[k])
  BY <1>9 DEF property, Stored
<1>11. \A v : IsValue(v) => v # Null
  BY DEF IsValue, IsScalar, Null, Integer, Float, NegativeZero, NaN, Text, List
<1>12. \A k \in DOMAIN properties : properties[k] # Null /\ equalValues(entity.properties[k], properties[k])
  <2> TAKE k \in DOMAIN properties
  <2>1. CASE k \in pushed
    <3>3. a[k] = properties[k] /\ entity.properties[k] = a[k]
      BY <1>8, <1>9, <2>1
    <3>1. properties[k][1] = "text" /\ entity.properties[k] = properties[k]
      BY <1>5, <2>1, <3>3
    <3>2. equalValues(entity.properties[k], properties[k])
      BY <3>1, TextExact
    <3> QED BY <3>1, <3>2 DEF Null
  <2>2. CASE k \in first
    <3>6. a[k] \in candidates
      BY <1>8, <2>2
    <3>4. entity.properties[k] \in candidates
      BY <1>9, <3>6
    <3>5. number(properties[k]) /\ candidates = numericIndexCandidates(properties[k])
      BY <1>5, <2>2
    <3>1. number(properties[k]) /\ entity.properties[k] \in numericIndexCandidates(properties[k])
      BY <3>4, <3>5
    <3>2. IsValue(properties[k])
      BY <3>1 DEF Known, number, Null
    <3>3. IsScalar(properties[k])
      BY <3>1, <3>2 DEF IsValue, number
    <3> QED BY <1>10, <1>11, <3>1, <3>2, <3>3, NumericCandidates
  <2> QED BY <1>5, <2>1, <2>2
<1>13. \A b \in plan.alternatives : StoreHas(entity, b) => b = a
  <2> SUFFICES ASSUME NEW b \in plan.alternatives, StoreHas(entity, b) PROVE b = a
    OBVIOUS
  <2>1. \A k \in DOMAIN properties : a[k] = b[k]
    BY <1>9
  <2>2. CASE first = {}
    BY <1>8, <2>2
  <2>3. CASE first # {}
    <3>1. PICK k \in first : TRUE
      BY <2>3
    <3>2. a[k] = b[k]
      BY <1>5, <2>1, <3>1
    <3>3. a = With(plan.base, k, a[k]) /\ b = With(plan.base, k, b[k])
      BY <1>8, <3>1
    <3> QED BY <3>2, <3>3
  <2> QED BY <2>2, <2>3
<1> QED BY <1>10, <1>11, <1>12, <1>13 DEF propertiesMatch

\* A plan of expressions that are not all static pushes nothing.
LEMMA UnknownPlan ==
    ASSUME NEW properties, NEW known \in BOOLEAN, known = FALSE,
           NEW plan, plan = buildPropertyScanPlan(properties, known)
    PROVE  /\ ~plan.empty /\ ~plan.complete
           /\ DOMAIN plan.base = {} /\ plan.alternatives = {plan.base}
<1> DEFINE keys == IF known THEN DOMAIN properties ELSE {}
           numeric == {k \in keys \ {Special} : number(properties[k])}
           first == {k \in numeric : \A j \in numeric : k <= j}
           candidates == UNION {numericIndexCandidates(properties[k]) : k \in first}
           limit == PredicateTerms - Cardinality(first)
           exact == {k \in keys \ (first \cup {Special}) : storeExactPropertyValue(properties[k])}
           pushed == {k \in exact : Cardinality({j \in exact : j < k}) < limit}
           base == Only(properties, pushed)
           some == CHOOSE k \in first : TRUE
           full == known /\ keys = pushed \cup first
           alternatives == IF first = {} THEN {base} ELSE {With(base, some, c) : c \in candidates}
<1>1. first = {} /\ pushed = {}
  OBVIOUS
<1>2. plan = IF first # {} /\ candidates = {}
             THEN [base |-> NoProperties, alternatives |-> {}, complete |-> TRUE, empty |-> TRUE]
             ELSE [base |-> base, alternatives |-> alternatives, complete |-> full, empty |-> FALSE]
  BY Zenon DEF buildPropertyScanPlan
<1>3. alternatives = IF first = {} THEN {base} ELSE {With(base, some, c) : c \in candidates}
  OBVIOUS
<1>4. full = FALSE
  OBVIOUS
<1>5. base = Only(properties, pushed)
  OBVIOUS
<1> HIDE DEF keys, numeric, first, limit, exact, pushed, candidates, base, some, full, alternatives
<1>6. plan = [base |-> base, alternatives |-> alternatives, complete |-> full, empty |-> FALSE]
  BY <1>1, <1>2
<1>7. alternatives = {base} /\ DOMAIN base = {}
  BY <1>1, <1>3, <1>5 DEF Only
<1> QED BY <1>4, <1>6, <1>7

\* The static values of a property map.
Statics(properties) == [k \in DOMAIN properties |-> properties[k][1]]

\* The plan of a property map, by whether it is static.
LEMMA PropertyPlanCases ==
    ASSUME NEW properties
    PROVE  \E known \in BOOLEAN : \E values :
              /\ PropertyPlan(properties) = buildPropertyScanPlan(values, known)
              /\ known = TRUE => IsStatic(properties) /\ values = Statics(properties)
              /\ known = FALSE => ~IsStatic(properties)
<1> DEFINE keys == IF IsStatic(properties) THEN DOMAIN properties ELSE {}
           values == [k \in keys |-> properties[k][1]]
<1>1. PropertyPlan(properties) = buildPropertyScanPlan(values, IsStatic(properties))
  BY Zenon DEF PropertyPlan
<1>2. IsStatic(properties) \in BOOLEAN
  BY DEF IsStatic
<1>3. IsStatic(properties) => values = Statics(properties)
  BY DEF Statics
<1> HIDE DEF values
<1>4. IsStatic(properties) = TRUE => IsStatic(properties)
  OBVIOUS
<1>5. IsStatic(properties) = FALSE => ~IsStatic(properties)
  OBVIOUS
<1> QED BY <1>1, <1>2, <1>3, <1>4, <1>5, Zenon

\* What the matcher expects of a key with a static value is that value.
LEMMA StaticExpected ==
    ASSUME NEW g, NEW row, NEW properties
    PROVE  /\ DOMAIN expectedProperties(g, row, properties) = DOMAIN properties
           /\ \A k \in DOMAIN properties :
                 Len(properties[k]) = 1 => expectedProperties(g, row, properties)[k] = properties[k][1]
           /\ IsStatic(properties) => expectedProperties(g, row, properties) = Statics(properties)
BY DEF expectedProperties, Evaluate, IsStatic, Statics

\* The same for the property map of a pattern, whose expressions may refer to
\* the row.
LEMMA PropertyPlanSound ==
    ASSUME NEW g, NEW row, NEW properties, NEW names, AreProperties(properties, names),
           NEW entity, Stored(entity), propertiesMatch(entity, expectedProperties(g, row, properties))
    PROVE  Admits(PropertyPlan(properties), entity)
<1>4. PICK known \in BOOLEAN : \E values :
          /\ PropertyPlan(properties) = buildPropertyScanPlan(values, known)
          /\ known = TRUE => IsStatic(properties) /\ values = Statics(properties)
          /\ known = FALSE => ~IsStatic(properties)
  BY PropertyPlanCases, Zenon
<1>1. PICK values :
          /\ PropertyPlan(properties) = buildPropertyScanPlan(values, known)
          /\ known = TRUE => IsStatic(properties) /\ values = Statics(properties)
          /\ known = FALSE => ~IsStatic(properties)
  BY <1>4, Zenon
<1>2. CASE known = TRUE
  <2>1. expectedProperties(g, row, properties) = values /\ values = Statics(properties)
    BY <1>1, <1>2, StaticExpected
  <2>2. Known(values)
    BY <1>1, <1>2, <2>1 DEF Known, AreProperties, Statics, IsStatic
  <2> QED BY <1>1, <1>2, <2>1, <2>2, PlanSound
<1>3. CASE known = FALSE
  <2> DEFINE plan == PropertyPlan(properties)
  <2>1. /\ ~plan.empty /\ DOMAIN plan.base = {} /\ plan.alternatives = {plan.base}
    BY <1>1, <1>3, UnknownPlan
  <2> HIDE DEF plan
  <2>2. StoreHas(entity, plan.base)
    BY <2>1 DEF StoreHas
  <2>3. Admits(plan, entity)
    BY <2>1, <2>2 DEF Admits
  <2> QED BY <2>3 DEF plan
<1> QED BY <1>2, <1>3

\* A complete plan of a pattern is exact whatever the row.
LEMMA PropertyPlanExact ==
    ASSUME NEW g, NEW row, NEW properties, NEW names, AreProperties(properties, names),
           PropertyPlan(properties).complete,
           NEW entity, Stored(entity),
           NEW a \in PropertyPlan(properties).alternatives, StoreHas(entity, a)
    PROVE  /\ propertiesMatch(entity, expectedProperties(g, row, properties))
           /\ \A b \in PropertyPlan(properties).alternatives : StoreHas(entity, b) => b = a
<1>4. PICK known \in BOOLEAN : \E values :
          /\ PropertyPlan(properties) = buildPropertyScanPlan(values, known)
          /\ known = TRUE => IsStatic(properties) /\ values = Statics(properties)
          /\ known = FALSE => ~IsStatic(properties)
  BY PropertyPlanCases, Zenon
<1>1. PICK values :
          /\ PropertyPlan(properties) = buildPropertyScanPlan(values, known)
          /\ known = TRUE => IsStatic(properties) /\ values = Statics(properties)
          /\ known = FALSE => ~IsStatic(properties)
  BY <1>4, Zenon
<1>2. CASE known = TRUE
  <2>1. expectedProperties(g, row, properties) = values /\ values = Statics(properties)
    BY <1>1, <1>2, StaticExpected
  <2>2. Known(values)
    BY <1>1, <1>2, <2>1 DEF Known, AreProperties, Statics, IsStatic
  <2> QED BY <1>1, <1>2, <2>1, <2>2, PlanExact
<1>3. CASE known = FALSE
  BY <1>1, <1>3, UnknownPlan
<1> QED BY <1>2, <1>3

\* What the plan of a pattern says of a node, and of an edge.
NodeAdmitted(node, pattern) ==
    HasLabels(node, FirstTerms(pattern.labels)) /\ Admits(PropertyPlan(pattern.properties), node)
EdgeAdmitted(edge, pattern) ==
    LET plan == buildEdgeScanPlan(pattern) IN
    HasType(edge, plan.types) /\ \E a \in plan.alternatives : StoreHas(edge, a)

\* A list of labels that is cut asks for less.
LEMMA CutLabels ==
    ASSUME NEW list, IsSequence(list), NEW node
    PROVE  /\ HasLabels(node, list) => HasLabels(node, FirstTerms(list))
           /\ Len(list) <= PredicateTerms => FirstTerms(list) = list
<1>1. PredicateTerms \in Nat /\ Len(list) \in Nat /\ DOMAIN list = 1..Len(list)
  BY ValuesAssumption DEF IsSequence
<1>2. CASE Len(list) > PredicateTerms
  <2>1. /\ DOMAIN SubSeq(list, 1, PredicateTerms) = 1..PredicateTerms
        /\ \A i \in 1..PredicateTerms : SubSeq(list, 1, PredicateTerms)[i] = list[i]
    BY <1>1, <1>2 DEF IsSequence
  <2>2. FirstTerms(list) = SubSeq(list, 1, PredicateTerms)
    BY <1>2 DEF FirstTerms
  <2>3. DOMAIN FirstTerms(list) \subseteq DOMAIN list /\ \A i \in DOMAIN FirstTerms(list) : FirstTerms(list)[i] = list[i]
    BY <1>1, <1>2, <2>1, <2>2
  <2>4. HasLabels(node, list) => HasLabels(node, FirstTerms(list))
    BY <2>3 DEF HasLabels
  <2>5. ~(Len(list) <= PredicateTerms)
    BY <1>1, <1>2
  <2> QED BY <2>4, <2>5
<1>3. CASE ~(Len(list) > PredicateTerms)
  BY <1>3 DEF FirstTerms
<1> QED BY <1>1, <1>2, <1>3

\* What the matcher accepts, the plan of the pattern admits.
LEMMA NodePlanSound ==
    ASSUME NEW g, NEW row, NEW id, NEW pattern, NEW names,
           IsSequence(pattern.labels), AreProperties(pattern.properties, names),
           Stored(g.nodes[id]), nodePatternMatches(g, row, id, pattern)
    PROVE  NodeAdmitted(g.nodes[id], pattern)
BY CutLabels, PropertyPlanSound DEF NodeAdmitted, nodePatternMatches

\* The same for relationships.
LEMMA EdgePlanSound ==
    ASSUME NEW g, NEW row, NEW id, NEW pattern, NEW names,
           AreProperties(pattern.properties, names),
           Stored(g.edges[id]), relationshipPatternMatches(g, row, id, pattern)
    PROVE  EdgeAdmitted(g.edges[id], pattern)
<1>1. Admits(PropertyPlan(pattern.properties), g.edges[id])
  BY PropertyPlanSound DEF relationshipPatternMatches
<1>2. buildEdgeScanPlan(pattern).alternatives = PropertyPlan(pattern.properties).alternatives
      /\ buildEdgeScanPlan(pattern).types = IF Len(pattern.types) > PredicateTerms THEN <<>> ELSE pattern.types
  BY DEF buildEdgeScanPlan
<1>3. HasType(g.edges[id], buildEdgeScanPlan(pattern).types)
  BY <1>2 DEF HasType, relationshipPatternMatches
<1> QED BY <1>1, <1>2, <1>3 DEF EdgeAdmitted, Admits

-----------------------------------------------------------------------------
(* The indexes of the graph in memory.                                     *)

\* A nonempty set of naturals has a least element.
LEMMA Least ==
    ASSUME NEW T \in SUBSET Nat, T # {}
    PROVE  \E x \in T : \A y \in T : x <= y
<1> DEFINE below == OpToRel(<, Nat)
<1>1. IsWellFoundedOn(below, Nat)
  BY NatLessThanWellFounded
<1>2. \A x, y \in Nat : y < x => <<y, x>> \in below
  BY DEF OpToRel
<1> HIDE DEF below
<1>3. PICK x \in T : \A y \in T : ~(<<y, x>> \in below)
  BY <1>1, WFMin
<1>4. \A y \in T : ~(y < x) /\ x \in Nat /\ y \in Nat
  BY <1>2, <1>3
<1> QED BY <1>4

\* Equal values that are no numbers are filed under one key, unless one is a
\* list of -0.0 or of a number beyond Exact.
LEMMA SameKey ==
    ASSUME NEW v, IsValue(v), ~LossyKey(v), NEW w, IsValue(w), w # List(NegativeZero),
           ~number(w), equalValues(v, w)
    PROVE  valueKey(v) = valueKey(w)
<1>1. CASE v[1] = "list" /\ w[1] = "list"
  <2>1. /\ v = List(v[2]) /\ IsScalar(v[2]) /\ v[2] # NegativeZero
        /\ w = List(w[2]) /\ IsScalar(w[2]) /\ w[2] # NegativeZero
    BY <1>1 DEF LossyKey, IsValue, IsScalar, Integer, Float, NegativeZero, NaN, Text
  <2>2. scalarsEqual(v[2], w[2])
    BY <1>1 DEF equalValues
  <2>3. CASE number(v[2]) /\ number(w[2])
    <3>1. v[2][1] # "nan" /\ w[2][1] # "nan" /\ v[2][2] = w[2][2]
      BY <2>2, <2>3 DEF scalarsEqual, numbersEqual
    <3>2. v[2][1] \in {"integer", "float"} /\ w[2][1] \in {"integer", "float"}
      BY <2>1, <2>3, <3>1 DEF IsScalar, number, NaN
    <3>3. v[2][2] \in 0..Exact
      BY <1>1, <2>1, <3>2, ValuesAssumption DEF LossyKey, IsScalar, NegativeZero, NaN, Text
    <3>4. ShortestDigits(v[2][2]) = v[2][2]
      BY <3>3, ValuesAssumption
    <3>5. valueKey(v) = <<"list", <<"number", v[2][2]>>>>
      BY <1>1, <3>2, <3>4 DEF valueKey
    <3>6. valueKey(w) = <<"list", <<"number", v[2][2]>>>>
      BY <1>1, <3>1, <3>2, <3>4 DEF valueKey
    <3> QED BY <3>5, <3>6
  <2>4. CASE ~(number(v[2]) /\ number(w[2]))
    BY <2>1, <2>2, <2>4 DEF scalarsEqual
  <2> QED BY <2>3, <2>4
<1>2. CASE ~(v[1] = "list" /\ w[1] = "list")
  BY <1>2 DEF equalValues, scalarsEqual
<1> QED BY <1>1, <1>2

\* No node stores a list whose key an equal list may not have, the limit of the
\* index by keys.
NoLossyKey(g) ==
    \A id \in DOMAIN g.nodes : \A k \in DOMAIN g.nodes[id].properties :
        ~LossyKey(g.nodes[id].properties[k])

\* What the row gives for the expressions of a pattern are values.
Evaluates(g, row, properties) ==
    \A k \in DOMAIN properties :
        Evaluate(g, row, properties[k]) = Null \/ IsValue(Evaluate(g, row, properties[k]))

\* Every entry that a pattern selects holds all the nodes it admits.
LEMMA EntriesComplete ==
    ASSUME NEW g, \A id \in DOMAIN g.nodes : Stored(g.nodes[id]), NoLossyKey(g),
           NEW row, NEW pattern, Evaluates(g, row, pattern.properties),
           NEW id \in DOMAIN g.nodes, nodePatternMatches(g, row, id, pattern),
           NEW entry \in IndexEntries(g, row, pattern)
    PROVE  id \in entry
<1> DEFINE expected == expectedProperties(g, row, pattern.properties)
           labelled == {{n \in DOMAIN g.nodes : l \in g.nodes[n].labels} :
                            l \in {pattern.labels[i] : i \in DOMAIN pattern.labels}}
           filed(k) == {n \in DOMAIN g.nodes :
                           /\ property(g.nodes[n], k) # Null
                           /\ valueKey(property(g.nodes[n], k)) = valueKey(expected[k])}
           keyed == {filed(k) : k \in {j \in DOMAIN expected : ~number(expected[j])}}
<1>1. entry \in (labelled \cup keyed) \ {{}}
  BY Zenon DEF IndexEntries
<1>2. CASE entry \in labelled
  <2>1. PICK i \in DOMAIN pattern.labels : entry = {n \in DOMAIN g.nodes : pattern.labels[i] \in g.nodes[n].labels}
    BY <1>2
  <2>2. pattern.labels[i] \in g.nodes[id].labels
    BY DEF nodePatternMatches, HasLabels
  <2> QED BY <2>1, <2>2
<1>3. CASE entry \in keyed
  <2>1. PICK k \in DOMAIN expected : ~number(expected[k]) /\ entry = filed(k)
    BY <1>3
  <2>2. property(g.nodes[id], k) # Null /\ expected[k] # Null /\ equalValues(property(g.nodes[id], k), expected[k])
    BY DEF nodePatternMatches, propertiesMatch
  <2>3. k \in DOMAIN pattern.properties /\ expected[k] = Evaluate(g, row, pattern.properties[k])
    BY <2>1 DEF expectedProperties
  <2>4. IsValue(expected[k])
    BY <2>2, <2>3 DEF Evaluates
  <2>5. \A n \in DOMAIN g.nodes : property(g.nodes[n], k) # Null =>
            ~LossyKey(property(g.nodes[n], k)) /\ IsValue(property(g.nodes[n], k))
    BY DEF property, Stored, NoLossyKey
  <2> HIDE DEF expected
  <2>6. expected[k] # List(NegativeZero)
    <3> SUFFICES ASSUME expected[k] = List(NegativeZero) PROVE FALSE
      OBVIOUS
    <3>1. PICK n \in DOMAIN g.nodes : property(g.nodes[n], k) # Null /\ valueKey(property(g.nodes[n], k)) = valueKey(expected[k])
      BY <1>1, <2>1
    <3>2. valueKey(expected[k]) = List(NegativeZero)
      BY DEF valueKey, List, NegativeZero
    <3>3. \A v : valueKey(v) = List(NegativeZero) => v = List(NegativeZero)
      BY DEF valueKey, List, NegativeZero
    <3>4. LossyKey(List(NegativeZero))
      BY DEF LossyKey
    <3> QED BY <2>5, <3>1, <3>2, <3>3, <3>4
  <2>7. valueKey(property(g.nodes[id], k)) = valueKey(expected[k])
    BY <2>1, <2>2, <2>4, <2>5, <2>6, SameKey
  <2> QED BY <2>1, <2>2, <2>7
<1> QED BY <1>1, <1>2, <1>3

\* The smallest index entry gives the candidates that a look at every node
\* gives.
LEMMA IndexesExact ==
    ASSUME NEW g, IsFiniteSet(DOMAIN g.nodes), \A id \in DOMAIN g.nodes : Stored(g.nodes[id]), NoLossyKey(g),
           NEW row, NEW pattern, IsBound(row, pattern) \/ Evaluates(g, row, pattern.properties)
    PROVE  candidateNodes(g, row, pattern) = AllCandidates(g, row, pattern)
<1> DEFINE entries == IndexEntries(g, row, pattern)
           smallest == CHOOSE e \in entries : \A f \in entries : Cardinality(e) <= Cardinality(f)
           all == AllCandidates(g, row, pattern)
<1>1. candidateNodes(g, row, pattern) = IF IsBound(row, pattern) \/ entries = {} THEN all ELSE all \cap smallest
  BY Zenon DEF candidateNodes
<1>2. SUFFICES ASSUME ~IsBound(row, pattern), entries # {} PROVE all \subseteq smallest
  BY <1>1
<1>3. \A e \in entries : e \subseteq DOMAIN g.nodes
  BY DEF IndexEntries
<1>4. \A e \in entries : Cardinality(e) \in Nat
  BY <1>3, FS_Subset, FS_CardinalityType
<1>5. \E e \in entries : \A f \in entries : Cardinality(e) <= Cardinality(f)
  <2> DEFINE sizes == {Cardinality(e) : e \in entries}
  <2>1. sizes \in SUBSET Nat /\ sizes # {}
    BY <1>2, <1>4
  <2>2. PICK x \in sizes : \A y \in sizes : x <= y
    BY <2>1, Least
  <2> QED BY <2>2
<1>6. smallest \in entries
  BY <1>5
<1>7. all \subseteq DOMAIN g.nodes /\ \A id \in all : nodePatternMatches(g, row, id, pattern)
  BY <1>2 DEF AllCandidates
<1> HIDE DEF entries, smallest, all
<1>8. \A id \in all : id \in smallest
  BY <1>2, <1>6, <1>7, EntriesComplete DEF entries
<1> QED BY <1>8
-----------------------------------------------------------------------------
(* The matcher over a part of a graph.                                     *)

\* The part that was loaded: a set of nodes, and edges between them.
GraphOf(g, loaded) == [nodes |-> Only(g.nodes, loaded.nodes), edges |-> Only(g.edges, loaded.edges)]

IsPart(g, loaded) ==
    /\ loaded.nodes \subseteq DOMAIN g.nodes /\ loaded.edges \subseteq DOMAIN g.edges
    /\ \A e \in loaded.edges : {g.edges[e].from, g.edges[e].to} \subseteq loaded.nodes

\* Entities of the part are those of the graph.
LEMMA PartEntities ==
    ASSUME NEW g, NEW loaded
    PROVE  /\ DOMAIN GraphOf(g, loaded).nodes = loaded.nodes
           /\ DOMAIN GraphOf(g, loaded).edges = loaded.edges
           /\ \A id \in loaded.nodes : GraphOf(g, loaded).nodes[id] = g.nodes[id]
           /\ \A e \in loaded.edges : GraphOf(g, loaded).edges[e] = g.edges[e]
BY DEF GraphOf, Only

\* The expressions of a pattern refer to nodes among those given, or to null.
Refers(row, properties, nodes) ==
    \A k \in DOMAIN properties :
        \/ Len(properties[k]) = 1
        \/ row[properties[k][1]] = Null
        \/ \E id \in nodes : row[properties[k][1]] = NodeValue(id)

\* Such expressions have the same values over the part.
LEMMA SameExpected ==
    ASSUME NEW g, NEW loaded, NEW row, NEW properties, Refers(row, properties, loaded.nodes)
    PROVE  expectedProperties(GraphOf(g, loaded), row, properties) = expectedProperties(g, row, properties)
<1>1. \A k \in DOMAIN properties :
          Evaluate(GraphOf(g, loaded), row, properties[k]) = Evaluate(g, row, properties[k])
  <2> TAKE k \in DOMAIN properties
  <2>1. CASE Len(properties[k]) = 1
    BY <2>1 DEF Evaluate
  <2>2. CASE Len(properties[k]) # 1 /\ row[properties[k][1]] = Null
    BY <2>2 DEF Evaluate
  <2>3. CASE Len(properties[k]) # 1 /\ row[properties[k][1]] # Null
    <3>1. PICK id \in loaded.nodes : row[properties[k][1]] = NodeValue(id)
      BY <2>3 DEF Refers
    <3>2. GraphOf(g, loaded).nodes[id] = g.nodes[id]
      BY PartEntities
    <3>3. row[properties[k][1]][2] = id
      BY <3>1 DEF NodeValue
    <3> QED BY <2>3, <3>2, <3>3 DEF Evaluate
  <2> QED BY <2>1, <2>2, <2>3
<1> QED BY <1>1 DEF expectedProperties

\* And they are values.
LEMMA ExpectedValues ==
    ASSUME NEW g, \A id \in DOMAIN g.nodes : Stored(g.nodes[id]),
           NEW row, NEW properties, NEW names, AreProperties(properties, names),
           Refers(row, properties, DOMAIN g.nodes)
    PROVE  Evaluates(g, row, properties)
<1> SUFFICES ASSUME NEW k \in DOMAIN properties
             PROVE  Evaluate(g, row, properties[k]) = Null \/ IsValue(Evaluate(g, row, properties[k]))
  BY DEF Evaluates
<1>1. CASE Len(properties[k]) = 1
  BY <1>1 DEF Evaluate, AreProperties
<1>2. CASE Len(properties[k]) # 1 /\ row[properties[k][1]] = Null
  BY <1>2 DEF Evaluate
<1>3. CASE Len(properties[k]) # 1 /\ row[properties[k][1]] # Null
  <2>1. PICK id \in DOMAIN g.nodes : row[properties[k][1]] = NodeValue(id)
    BY <1>3 DEF Refers
  <2>2. Evaluate(g, row, properties[k]) = property(g.nodes[id], properties[k][2])
    BY <1>3, <2>1 DEF Evaluate, NodeValue
  <2> QED BY <2>2 DEF property, Stored
<1> QED BY <1>1, <1>2, <1>3

\* A loaded node matches in the part as it does in the graph.
LEMMA SameNodeMatches ==
    ASSUME NEW g, NEW loaded, NEW row, NEW pattern, Refers(row, pattern.properties, loaded.nodes),
           NEW id \in loaded.nodes
    PROVE  nodePatternMatches(GraphOf(g, loaded), row, id, pattern) <=> nodePatternMatches(g, row, id, pattern)
BY SameExpected, PartEntities DEF nodePatternMatches

\* And so does a loaded relationship.
LEMMA SameEdgeMatches ==
    ASSUME NEW g, NEW loaded, NEW row, NEW pattern, Refers(row, pattern.properties, loaded.nodes),
           NEW id \in loaded.edges
    PROVE  relationshipPatternMatches(GraphOf(g, loaded), row, id, pattern)
              <=> relationshipPatternMatches(g, row, id, pattern)
BY SameExpected, PartEntities DEF relationshipPatternMatches

\* One level of an expansion: the admitted edges at the nodes of C are loaded
\* and their other ends are in D.
LevelStep(g, loaded, pattern, C, D) ==
    \A e \in DOMAIN g.edges :
        EdgeAdmitted(g.edges[e], pattern) =>
            /\ Outgoing(pattern.direction) /\ g.edges[e].from \in C => e \in loaded.edges /\ g.edges[e].to \in D
            /\ Incoming(pattern.direction) /\ g.edges[e].to \in C => e \in loaded.edges /\ g.edges[e].from \in D

\* The adjacency of a node, edge by edge.
LEMMA Adjacent ==
    ASSUME NEW g, NEW id, NEW direction, NEW s
    PROVE  s \in adjacentEdges(g, id, direction) <=>
              \E e \in DOMAIN g.edges :
                  \/ Outgoing(direction) /\ g.edges[e].from = id /\ s = <<e, g.edges[e].to>>
                  \/ Incoming(direction) /\ g.edges[e].to = id /\ s = <<e, g.edges[e].from>>
BY DEF adjacentEdges

\* The steps from a node of C are the same in the part, and lead into D.
LEMMA SameSteps ==
    ASSUME NEW g, NEW loaded, IsPart(g, loaded), \A e \in DOMAIN g.edges : Stored(g.edges[e]),
           NEW row, NEW pattern, NEW names, AreProperties(pattern.properties, names),
           Refers(row, pattern.properties, loaded.nodes),
           NEW C, NEW D \in SUBSET loaded.nodes, LevelStep(g, loaded, pattern, C, D),
           NEW path, End(path) \in C
    PROVE  /\ Steps(GraphOf(g, loaded), row, pattern, path) = Steps(g, row, pattern, path)
           /\ \A s \in Steps(g, row, pattern, path) : s = <<s[1], s[2]>> /\ s[1] \in DOMAIN g.edges /\ s[2] \in D
<1> DEFINE w == GraphOf(g, loaded)
           x == End(path)
<1>1. /\ DOMAIN w.nodes = loaded.nodes /\ DOMAIN w.edges = loaded.edges
      /\ \A e \in loaded.edges : w.edges[e] = g.edges[e]
  BY PartEntities
<1>2. \A e \in loaded.edges : relationshipPatternMatches(w, row, e, pattern)
                                  <=> relationshipPatternMatches(g, row, e, pattern)
  BY SameEdgeMatches
<1>3. \A e \in DOMAIN g.edges : relationshipPatternMatches(g, row, e, pattern) => EdgeAdmitted(g.edges[e], pattern)
  BY EdgePlanSound
<1>4. loaded.nodes \subseteq DOMAIN g.nodes /\ loaded.edges \subseteq DOMAIN g.edges
  BY DEF IsPart
<1>5. \A H, s : s \in Steps(H, row, pattern, path) <=>
          /\ s \in adjacentEdges(H, x, pattern.direction)
          /\ s[1] \notin Edges(path)
          /\ relationshipPatternMatches(H, row, s[1], pattern)
          /\ s[2] \in DOMAIN H.nodes
  BY DEF Steps
<1> HIDE DEF w, x
<1>6. ASSUME NEW s \in Steps(g, row, pattern, path)
      PROVE  s \in Steps(w, row, pattern, path) /\ s = <<s[1], s[2]>> /\ s[1] \in DOMAIN g.edges /\ s[2] \in D
  <2>1. s \in adjacentEdges(g, x, pattern.direction) /\ s[1] \notin Edges(path)
        /\ relationshipPatternMatches(g, row, s[1], pattern)
    BY <1>5, <1>6
  <2>2. PICK e \in DOMAIN g.edges :
            \/ Outgoing(pattern.direction) /\ g.edges[e].from = x /\ s = <<e, g.edges[e].to>>
            \/ Incoming(pattern.direction) /\ g.edges[e].to = x /\ s = <<e, g.edges[e].from>>
    BY <2>1, Adjacent
  <2>3. s[1] = e /\ EdgeAdmitted(g.edges[e], pattern) /\ x \in C
    BY <1>3, <2>1, <2>2 DEF x
  <2>4. e \in loaded.edges /\ s[2] \in D /\ s = <<s[1], s[2]>>
    BY <2>2, <2>3 DEF LevelStep
  <2>5. s \in adjacentEdges(w, x, pattern.direction)
    BY <1>1, <2>2, <2>4, Adjacent
  <2>6. relationshipPatternMatches(w, row, s[1], pattern) /\ s[2] \in DOMAIN w.nodes
    BY <1>1, <1>2, <2>1, <2>3, <2>4
  <2> QED BY <1>5, <2>1, <2>3, <2>4, <2>5, <2>6
<1>7. ASSUME NEW s \in Steps(w, row, pattern, path)
      PROVE  s \in Steps(g, row, pattern, path)
  <2>1. s \in adjacentEdges(w, x, pattern.direction) /\ s[1] \notin Edges(path)
        /\ relationshipPatternMatches(w, row, s[1], pattern) /\ s[2] \in DOMAIN g.nodes
    BY <1>1, <1>4, <1>5, <1>7
  <2>2. PICK e \in loaded.edges :
            \/ Outgoing(pattern.direction) /\ g.edges[e].from = x /\ s = <<e, g.edges[e].to>>
            \/ Incoming(pattern.direction) /\ g.edges[e].to = x /\ s = <<e, g.edges[e].from>>
    BY <1>1, <2>1, Adjacent
  <2>3. s[1] = e /\ s \in adjacentEdges(g, x, pattern.direction)
    BY <1>4, <2>2, Adjacent
  <2> QED BY <1>2, <1>5, <2>1, <2>2, <2>3
<1> QED BY <1>6, <1>7 DEF w

-----------------------------------------------------------------------------
(* A walk, depth by depth.                                                 *)

Longer(g, row, pattern, paths) ==
    UNION {{Along(p, s) : s \in Steps(g, row, pattern, p)} : p \in paths}

\* Paths with the same steps grow alike.
LEMMA SameLonger ==
    ASSUME NEW g, NEW w, NEW row, NEW pattern, NEW paths,
           \A p \in paths : Steps(w, row, pattern, p) = Steps(g, row, pattern, p)
    PROVE  Longer(w, row, pattern, paths) = Longer(g, row, pattern, paths)
BY DEF Longer

\* f[d] holds the paths that extend those of start by d relationships.
Depths(g, row, pattern, start, n, f) ==
    f = [d \in 0..n |-> IF d = 0 THEN start ELSE Longer(g, row, pattern, f[d - 1])]

\* The levels one by one.
LEMMA DepthsValues ==
    ASSUME NEW g, NEW row, NEW pattern, NEW start, NEW n \in Nat, NEW f, Depths(g, row, pattern, start, n, f)
    PROVE  /\ DOMAIN f = 0..n /\ f[0] = start
           /\ \A d \in 1..n : f[d] = Longer(g, row, pattern, f[d - 1])
BY DEF Depths

\* There are such levels up to every depth.
LEMMA DepthsExist ==
    ASSUME NEW g, NEW row, NEW pattern, NEW start, NEW n \in Nat
    PROVE  \E f : Depths(g, row, pattern, start, n, f)
<1> DEFINE Bad == {m \in Nat : ~\E f : Depths(g, row, pattern, start, m, f)}
<1>1. SUFFICES ASSUME Bad # {} PROVE FALSE
  OBVIOUS
<1>2. PICK m \in Bad : \A y \in Bad : m <= y
  BY <1>1, Least
<1>3. m \in Nat /\ ~\E f : Depths(g, row, pattern, start, m, f)
  BY <1>2
<1>4. CASE m = 0
  <2> DEFINE f == [d \in 0..0 |-> start]
  <2>1. f = [d \in 0..0 |-> IF d = 0 THEN start ELSE Longer(g, row, pattern, f[d - 1])]
    OBVIOUS
  <2> QED BY <1>3, <1>4, <2>1 DEF Depths
<1>5. CASE m # 0
  <2>1. m - 1 \in Nat /\ m - 1 \notin Bad
    BY <1>2, <1>3, <1>5
  <2>2. PICK f : Depths(g, row, pattern, start, m - 1, f)
    BY <2>1
  <2>3. /\ DOMAIN f = 0..m - 1 /\ f[0] = start
        /\ \A d \in 1..m - 1 : f[d] = Longer(g, row, pattern, f[d - 1])
    BY <2>1, <2>2, DepthsValues
  <2> DEFINE top == Longer(g, row, pattern, f[m - 1])
             h == [d \in 0..m |-> IF d = m THEN top ELSE f[d]]
  <2>4. h[0] = start /\ \A d \in 1..m : h[d] = Longer(g, row, pattern, h[d - 1])
    <3>1. h[0] = start
      BY <1>3, <1>5, <2>3
    <3>2. \A d \in 1..m : h[d - 1] = f[d - 1]
      BY <1>3, <1>5
    <3>3. \A d \in 1..m - 1 : h[d] = f[d]
      BY <1>3, <1>5
    <3>4. h[m] = top
      BY <1>3
    <3> HIDE DEF h
    <3>5. \A d \in 1..m : d = m \/ d \in 1..m - 1
      BY <1>3
    <3> QED BY <2>3, <3>1, <3>2, <3>3, <3>4, <3>5
  <2>5. h = [d \in 0..m |-> IF d = 0 THEN start ELSE Longer(g, row, pattern, h[d - 1])]
    <3>1. h = [d \in 0..m |-> h[d]]
      OBVIOUS
    <3> HIDE DEF h
    <3>2. \A d \in 0..m : h[d] = IF d = 0 THEN start ELSE Longer(g, row, pattern, h[d - 1])
      BY <1>3, <2>4
    <3> QED BY <3>1, <3>2
  <2> HIDE DEF h
  <2> QED BY <1>3, <2>5 DEF Depths
<1> QED BY <1>4, <1>5

\* The levels f make up the walk.
WalksBy(g, row, pattern, base, n, f) ==
    /\ Depths(g, row, pattern, {base}, n, f)
    /\ walk(g, row, pattern, base) = UNION {f[d] : d \in lower(pattern.length)..n}

\* walk is the union of its levels between the bounds of the length.
LEMMA WalkLevels ==
    ASSUME NEW g, NEW row, NEW pattern, NEW base,
           NEW n \in Nat, n = upper(pattern.length, Cardinality(DOMAIN g.edges))
    PROVE  \E f : WalksBy(g, row, pattern, base, n, f)
<1> DEFINE f == CHOOSE h : Depths(g, row, pattern, {base}, n, h)
<1>1. Depths(g, row, pattern, {base}, n, f)
  BY DepthsExist
<1>2. walk(g, row, pattern, base) = UNION {f[d] : d \in lower(pattern.length)..n}
  BY Zenon DEF walk, Depths, Longer
<1>3. WalksBy(g, row, pattern, base, n, f)
  BY <1>1, <1>2 DEF WalksBy
<1> QED BY <1>3

\* One element more.
LEMMA Appended ==
    ASSUME NEW S, NEW q \in Seq(S), NEW x \in S
    PROVE  /\ Append(q, x) \in Seq(S) /\ Append(q, x) # <<>>
           /\ Len(Append(q, x)) = Len(q) + 1 /\ Append(q, x)[Len(q) + 1] = x
OBVIOUS

\* The empty sequence has no elements.
LEMMA EmptyLength == Len(<<>>) = 0
OBVIOUS

\* A sequence with elements is not empty.
LEMMA NotEmpty ==
    ASSUME NEW q, Len(q) # 0
    PROVE  q # <<>>
BY EmptyLength

\* The elements of a sequence of natural numbers.
LEMMA NatAt ==
    ASSUME NEW q \in Seq(Nat), NEW i \in 1..Len(q)
    PROVE  q[i] \in Nat
OBVIOUS

\* The bounds of a length are natural numbers.
LEMMA Bounds ==
    ASSUME NEW length, IsLength(length), NEW most \in Nat
    PROVE  lower(length) \in Nat /\ upper(length, most) \in Nat
<1>1. CASE length = <<>>
  BY <1>1 DEF upper, lower
<1>2. CASE Len(length) = 1 /\ length \in Seq(Nat)
  <2>3. Len(length) # 0
    BY <1>2
  <2>1. length # <<>>
    BY <2>3, NotEmpty
  <2>4. 1 \in 1..Len(length)
    BY <1>2
  <2>2. length[1] \in Nat
    BY <1>2, <2>4, NatAt
  <2> QED BY <1>2, <2>1, <2>2 DEF upper, lower
<1>3. CASE Len(length) = 2 /\ length \in Seq(Nat)
  <2>3. Len(length) # 0 /\ Len(length) # 1
    BY <1>3
  <2>1. length # <<>>
    BY <2>3, NotEmpty
  <2>4. 1 \in 1..Len(length) /\ 2 \in 1..Len(length)
    BY <1>3
  <2>2. length[1] \in Nat /\ length[2] \in Nat
    BY <1>3, <2>4, NatAt
  <2> QED BY <2>1, <2>2, <2>3 DEF upper, lower
<1> QED BY <1>1, <1>2, <1>3 DEF IsLength

\* Paths of the graph.
IsPath(g, p) ==
    p \in [nodes : Seq(DOMAIN g.nodes), edges : Seq(DOMAIN g.edges)] /\ p.nodes # <<>>

\* A path grows by one relationship and ends where that leads.
LEMMA PathGrows ==
    ASSUME NEW g, NEW p, IsPath(g, p), NEW s, s[1] \in DOMAIN g.edges, s[2] \in DOMAIN g.nodes
    PROVE  IsPath(g, Along(p, s)) /\ End(Along(p, s)) = s[2]
<1>1. p.nodes \in Seq(DOMAIN g.nodes) /\ p.edges \in Seq(DOMAIN g.edges)
  BY DEF IsPath
<1>2. Append(p.nodes, s[2]) \in Seq(DOMAIN g.nodes) /\ Append(p.edges, s[1]) \in Seq(DOMAIN g.edges)
  BY <1>1, Appended
<1>3. /\ Len(Append(p.nodes, s[2])) = Len(p.nodes) + 1 /\ Append(p.nodes, s[2])[Len(p.nodes) + 1] = s[2]
      /\ Append(p.nodes, s[2]) # <<>>
  BY <1>1, Appended
<1>4. Along(p, s).nodes = Append(p.nodes, s[2]) /\ Along(p, s).edges = Append(p.edges, s[1])
      /\ Along(p, s) = [nodes |-> Append(p.nodes, s[2]), edges |-> Append(p.edges, s[1])]
  BY DEF Along
<1> QED BY <1>2, <1>3, <1>4 DEF IsPath, End

\* An expansion from the nodes X through pattern that leaves nothing out: the
\* levels L are loaded, and the admitted targets among them are in Y.
Covers(g, loaded, pattern, target, X, Y) ==
    \E L \in [Nat -> SUBSET loaded.nodes] :
        /\ X \subseteq L[0]
        /\ \A d \in Nat : d < upper(pattern.length, Cardinality(DOMAIN g.edges)) =>
              LevelStep(g, loaded, pattern, L[d], L[d + 1])
        /\ \A d \in Nat :
              lower(pattern.length) <= d /\ d <= upper(pattern.length, Cardinality(DOMAIN g.edges)) =>
                  \A y \in L[d] : NodeAdmitted(g.nodes[y], target) => y \in Y

\* A length means the same in the part: it has an upper bound, or all edges
\* are loaded.
SameLength(g, loaded, length) == Len(length) # 1 \/ loaded.edges = DOMAIN g.edges

\* Over such an expansion the walks of the part are those of the graph, and
\* those that may stop end in Y.
LEMMA SameWalk ==
    ASSUME NEW g, IsGraph(g), NEW loaded, IsPart(g, loaded),
           NEW row, NEW pattern, NEW names, AreProperties(pattern.properties, names),
           IsLength(pattern.length), SameLength(g, loaded, pattern.length),
           Refers(row, pattern.properties, loaded.nodes),
           NEW target, NEW X, NEW Y, Covers(g, loaded, pattern, target, X, Y),
           NEW base, IsPath(g, base), End(base) \in X
    PROVE  /\ walk(GraphOf(g, loaded), row, pattern, base) = walk(g, row, pattern, base)
           /\ \A p \in walk(g, row, pattern, base) :
                 /\ IsPath(g, p) /\ End(p) \in loaded.nodes
                 /\ NodeAdmitted(g.nodes[End(p)], target) => End(p) \in Y
<1> DEFINE w == GraphOf(g, loaded)
           n == upper(pattern.length, Cardinality(DOMAIN g.edges))
           least == lower(pattern.length)
<1>1. n \in Nat /\ least \in Nat
  <2>1. Cardinality(DOMAIN g.edges) \in Nat
    BY FS_CardinalityType DEF IsGraph
  <2> QED BY <2>1, Bounds
<1>2. n = upper(pattern.length, Cardinality(DOMAIN w.edges))
  <2>1. DOMAIN w.edges = loaded.edges
    BY PartEntities
  <2>2. CASE loaded.edges = DOMAIN g.edges
    BY <2>1, <2>2
  <2>3. CASE Len(pattern.length) # 1
    BY <2>3 DEF upper
  <2> QED BY <2>2, <2>3 DEF SameLength
<1>13. n = upper(pattern.length, Cardinality(DOMAIN g.edges)) /\ least = lower(pattern.length)
  OBVIOUS
<1> DEFINE start == {base}
<1>3. PICK f : Depths(g, row, pattern, start, n, f) /\ walk(g, row, pattern, base) = UNION {f[d] : d \in least..n}
  <2> HIDE DEF n, least
  <2>1. PICK f : WalksBy(g, row, pattern, base, n, f)
    BY <1>1, <1>13, WalkLevels
  <2> QED BY <1>13, <2>1 DEF WalksBy
<1>4. PICK h : Depths(w, row, pattern, start, n, h) /\ walk(w, row, pattern, base) = UNION {h[d] : d \in least..n}
  <2> HIDE DEF n, least, w
  <2>1. PICK k : WalksBy(w, row, pattern, base, n, k)
    BY <1>1, <1>2, WalkLevels
  <2> QED BY <1>13, <2>1 DEF WalksBy
<1>5. PICK L \in [Nat -> SUBSET loaded.nodes] :
        /\ X \subseteq L[0]
        /\ \A d \in Nat : d < n => LevelStep(g, loaded, pattern, L[d], L[d + 1])
        /\ \A d \in Nat : least <= d /\ d <= n => \A y \in L[d] : NodeAdmitted(g.nodes[y], target) => y \in Y
  BY DEF Covers
<1>12. start = {base}
  OBVIOUS
<1> HIDE DEF w, n, least, start
<1>6. /\ f[0] = start /\ \A d \in 1..n : f[d] = Longer(g, row, pattern, f[d - 1])
      /\ h[0] = start /\ \A d \in 1..n : h[d] = Longer(w, row, pattern, h[d - 1])
  <2>1. n \in Nat /\ Depths(g, row, pattern, start, n, f) /\ Depths(w, row, pattern, start, n, h)
    BY <1>1, <1>3, <1>4
  <2>2. f[0] = start /\ \A d \in 1..n : f[d] = Longer(g, row, pattern, f[d - 1])
    BY <2>1, DepthsValues
  <2>3. h[0] = start /\ \A d \in 1..n : h[d] = Longer(w, row, pattern, h[d - 1])
    BY <2>1, DepthsValues
  <2> QED BY <2>2, <2>3
<1> DEFINE Good(d) == f[d] = h[d] /\ \A p \in f[d] : IsPath(g, p) /\ End(p) \in L[d]
           Bad == {d \in 0..n : ~Good(d)}
<1>7. Bad = {}
  <2>1. SUFFICES ASSUME Bad # {} PROVE FALSE
    OBVIOUS
  <2>6. Bad \in SUBSET Nat
    BY <1>1
  <2>2. PICK m \in Bad : \A y \in Bad : m <= y
    <3> HIDE DEF Bad
    <3> QED BY <2>1, <2>6, Least
  <2>3. m \in 0..n /\ ~Good(m)
    BY <2>2
  <2>4. CASE m = 0
    <3>1. Good(0)
      BY <1>5, <1>6, <1>12
    <3> QED BY <2>3, <2>4, <3>1
  <2>5. CASE m # 0
    <3>1. m - 1 \in 0..n /\ m - 1 \notin Bad /\ m \in 1..n /\ m - 1 \in Nat /\ m - 1 < n
      BY <1>1, <2>2, <2>3, <2>5
    <3>2. Good(m - 1)
      BY <3>1
    <3>3. LevelStep(g, loaded, pattern, L[m - 1], L[m]) /\ L[m] \in SUBSET loaded.nodes
      BY <1>1, <1>5, <2>3, <3>1
    <3>4. \A p \in f[m - 1] :
              /\ Steps(w, row, pattern, p) = Steps(g, row, pattern, p)
              /\ \A s \in Steps(g, row, pattern, p) : s[1] \in DOMAIN g.edges /\ s[2] \in L[m]
      <4> TAKE p \in f[m - 1]
      <4>1. End(p) \in L[m - 1] /\ \A e \in DOMAIN g.edges : Stored(g.edges[e])
        BY <3>2 DEF IsGraph
      <4> QED BY <3>3, <4>1, SameSteps DEF w
    <3>7. h[m - 1] = f[m - 1] /\ f[m] = Longer(g, row, pattern, f[m - 1]) /\ h[m] = Longer(w, row, pattern, f[m - 1])
      BY <1>6, <3>1, <3>2
    <3>5. f[m] = h[m]
      BY <3>4, <3>7, SameLonger
    <3>6. \A p \in f[m] : IsPath(g, p) /\ End(p) \in L[m]
      <4> TAKE p \in f[m]
      <4>3. PICK q \in f[m - 1] : p \in {Along(q, s) : s \in Steps(g, row, pattern, q)}
        BY <1>6, <3>1 DEF Longer
      <4>1. PICK s \in Steps(g, row, pattern, q) : p = Along(q, s)
        BY <4>3
      <4>2. s[1] \in DOMAIN g.edges /\ s[2] \in L[m] /\ s[2] \in DOMAIN g.nodes /\ IsPath(g, q)
        BY <3>2, <3>3, <3>4 DEF IsPart
      <4> QED BY <4>1, <4>2, PathGrows
    <3> QED BY <2>3, <3>5, <3>6
  <2> QED BY <2>4, <2>5
<1>8. \A d \in 0..n : Good(d)
  BY <1>7
<1> HIDE DEF Good, Bad
<1>9. \A d \in least..n : d \in 0..n /\ d \in Nat /\ f[d] = h[d]
  BY <1>1, <1>8 DEF Good
<1>10. walk(w, row, pattern, base) = walk(g, row, pattern, base)
  BY <1>3, <1>4, <1>9
<1>11. \A p \in walk(g, row, pattern, base) :
           /\ IsPath(g, p) /\ End(p) \in loaded.nodes
           /\ NodeAdmitted(g.nodes[End(p)], target) => End(p) \in Y
  <2> TAKE p \in walk(g, row, pattern, base)
  <2>1. PICK d \in least..n : p \in f[d]
    BY <1>3
  <2>2. IsPath(g, p) /\ End(p) \in L[d] /\ L[d] \subseteq loaded.nodes
    BY <1>5, <1>8, <1>9, <2>1 DEF Good
  <2>3. least <= d /\ d <= n /\ d \in Nat
    BY <1>1, <2>1
  <2> QED BY <1>5, <2>2, <2>3
<1> QED BY <1>10, <1>11 DEF w

-----------------------------------------------------------------------------
(* A pattern, relationship by relationship.                                *)

\* The nodes that are known for a variable.
Bound(b, name) == IF name \in DOMAIN b THEN b[name] ELSE {}

\* A row binds the names to null or to known nodes, and other names besides.
Fits(row, names, others, b) ==
    /\ names \subseteq DOMAIN row /\ DOMAIN row \subseteq names \cup others
    /\ \A v \in names : row[v] = Null \/ \E id \in Bound(b, v) : row[v] = NodeValue(id)

\* The known nodes are loaded.
Holds(b, loaded) == \A v : Bound(b, v) \subseteq loaded.nodes

\* Expressions over the names of a row that fits refer to loaded nodes.
LEMMA FitsRefers ==
    ASSUME NEW row, NEW names, NEW others, NEW b, Fits(row, names, others, b),
           NEW loaded, Holds(b, loaded), NEW properties, AreProperties(properties, names)
    PROVE  Refers(row, properties, loaded.nodes)
<1> SUFFICES ASSUME NEW k \in DOMAIN properties, Len(properties[k]) # 1, row[properties[k][1]] # Null
             PROVE  \E id \in loaded.nodes : row[properties[k][1]] = NodeValue(id)
  BY DEF Refers
<1>1. properties[k][1] \in names
  BY DEF AreProperties
<1>2. PICK id \in Bound(b, properties[k][1]) : row[properties[k][1]] = NodeValue(id)
  BY <1>1 DEF Fits
<1> QED BY <1>2 DEF Holds

\* A name or none.
Named(name) == {name} \ {""}

\* Binding a node variable to a known node keeps a row fitting.
LEMMA BindNode ==
    ASSUME NEW row, NEW names, NEW others, NEW b, Fits(row, names, others, b),
           NEW name, NEW id, name # "" => id \in Bound(b, name)
    PROVE  Fits(Bind(row, name, NodeValue(id)), names \cup Named(name), others, b)
<1>1. CASE name = ""
  BY <1>1 DEF Bind, Named
<1>2. CASE name # ""
  <2> DEFINE new == With(row, name, NodeValue(id))
  <2>1. /\ Bind(row, name, NodeValue(id)) = new /\ Named(name) = {name}
    BY <1>2 DEF Bind, Named
  <2>2. DOMAIN new = DOMAIN row \cup {name} /\ new[name] = NodeValue(id)
        /\ \A v \in DOMAIN row : v # name => new[v] = row[v]
    BY DEF With
  <2> HIDE DEF new
  <2>3. Fits(new, names \cup {name}, others, b)
    BY <1>2, <2>2 DEF Fits
  <2> QED BY <2>1, <2>3
<1> QED BY <1>1, <1>2

\* Binding a relationship variable leaves the node variables alone.
LEMMA BindEdge ==
    ASSUME NEW row, NEW names, NEW others, NEW b, Fits(row, names, others, b),
           NEW name, name # "" => name \in others /\ name \notin names, NEW value
    PROVE  Fits(Bind(row, name, value), names, others, b)
<1>1. CASE name = ""
  BY <1>1 DEF Bind
<1>2. CASE name # ""
  <2> DEFINE new == With(row, name, value)
  <2>1. Bind(row, name, value) = new
    BY <1>2 DEF Bind
  <2>2. DOMAIN new = DOMAIN row \cup {name} /\ \A v \in DOMAIN row : v # name => new[v] = row[v]
    BY DEF With
  <2> HIDE DEF new
  <2>3. Fits(new, names, others, b)
    BY <1>2, <2>2 DEF Fits
  <2> QED BY <2>1, <2>3
<1> QED BY <1>1, <1>2

\* The parts of Through: the row at the end of a path, the value of the
\* relationship, and the paths that may stop.
Arrived(element, i, match, path) == Bind(match.row, element.nodes[i + 1].variable, NodeValue(End(path)))
Passed(element, i, match, path) == RelationshipValue(element.edges[i], match.path, path)
Stopped(element, i, match, path) ==
    [row |-> Bind(Arrived(element, i, match, path), element.edges[i].variable, Passed(element, i, match, path)),
     path |-> path]
Stops(g, element, i, match) ==
    {path \in walk(g, match.row, element.edges[i], match.path) :
        /\ nodePatternMatches(g, match.row, End(path), element.nodes[i + 1])
        /\ CanBind(match.row, element.nodes[i + 1].variable, NodeValue(End(path)))
        /\ CanBind(Arrived(element, i, match, path), element.edges[i].variable, Passed(element, i, match, path))}

\* Through in those parts.
LEMMA ThroughStops ==
    ASSUME NEW g, NEW element, NEW i, NEW match
    PROVE  Through(g, element, i, match) = {Stopped(element, i, match, path) : path \in Stops(g, element, i, match)}
BY Zenon DEF Through, Stopped, Stops, Arrived, Passed

\* A match so far: a row that fits, and a path that ends in X.
Reaches(g, m, names, others, b, X) ==
    /\ Fits(m.row, names, others, b)
    /\ IsPath(g, m.path) /\ End(m.path) \in X

\* One relationship and its target: the part gives the matches that the graph
\* gives, and they reach Y.
LEMMA SameThrough ==
    ASSUME NEW g, IsGraph(g), NEW loaded, IsPart(g, loaded),
           NEW element, NEW i, NEW names, NEW others, NEW b, Holds(b, loaded),
           AreProperties(element.edges[i].properties, names),
           IsSequence(element.nodes[i + 1].labels), AreProperties(element.nodes[i + 1].properties, names),
           IsLength(element.edges[i].length), SameLength(g, loaded, element.edges[i].length),
           NEW X, NEW Y, Covers(g, loaded, element.edges[i], element.nodes[i + 1], X, Y),
           element.nodes[i + 1].variable # "" => Y \subseteq Bound(b, element.nodes[i + 1].variable),
           element.edges[i].variable # "" =>
               /\ element.edges[i].variable \in others
               /\ element.edges[i].variable \notin names \cup Named(element.nodes[i + 1].variable),
           NEW m, Reaches(g, m, names, others, b, X)
    PROVE  /\ Through(GraphOf(g, loaded), element, i, m) = Through(g, element, i, m)
           /\ \A x \in Through(g, element, i, m) :
                 Reaches(g, x, names \cup Named(element.nodes[i + 1].variable), others, b, Y)
<1> DEFINE w == GraphOf(g, loaded)
           pattern == element.edges[i]
           target == element.nodes[i + 1]
<1>1. Refers(m.row, pattern.properties, loaded.nodes) /\ Refers(m.row, target.properties, loaded.nodes)
  BY FitsRefers DEF Reaches
<1>8. /\ AreProperties(pattern.properties, names) /\ IsLength(pattern.length) /\ SameLength(g, loaded, pattern.length)
      /\ Covers(g, loaded, pattern, target, X, Y)
  OBVIOUS
<1> HIDE DEF pattern, target, w
<1>2. /\ walk(w, m.row, pattern, m.path) = walk(g, m.row, pattern, m.path)
      /\ \A p \in walk(g, m.row, pattern, m.path) :
            /\ IsPath(g, p) /\ End(p) \in loaded.nodes
            /\ NodeAdmitted(g.nodes[End(p)], target) => End(p) \in Y
  <2>1. IsPath(g, m.path) /\ End(m.path) \in X
    BY DEF Reaches
  <2> QED BY <1>1, <1>8, <2>1, SameWalk DEF w
<1>3. \A id \in loaded.nodes :
          nodePatternMatches(w, m.row, id, target) <=> nodePatternMatches(g, m.row, id, target)
  BY <1>1, SameNodeMatches DEF w
<1>4. \A id \in loaded.nodes : nodePatternMatches(g, m.row, id, target) => NodeAdmitted(g.nodes[id], target)
  <2>1. \A id \in loaded.nodes : Stored(g.nodes[id])
    BY DEF IsPart, IsGraph
  <2> QED BY <2>1, NodePlanSound DEF target
<1>5. Stops(w, element, i, m) = Stops(g, element, i, m)
  BY <1>2, <1>3 DEF Stops, pattern, target
<1>6. Through(w, element, i, m) = Through(g, element, i, m)
  BY <1>5, ThroughStops
<1>7. ASSUME NEW x \in Through(g, element, i, m)
      PROVE  Reaches(g, x, names \cup Named(target.variable), others, b, Y)
  <2>1. PICK path \in Stops(g, element, i, m) : x = Stopped(element, i, m, path)
    BY <1>7, ThroughStops
  <2>2. path \in walk(g, m.row, pattern, m.path) /\ nodePatternMatches(g, m.row, End(path), target)
    BY DEF Stops, pattern, target
  <2>3. IsPath(g, path) /\ End(path) \in Y
    BY <1>2, <1>4, <2>2
  <2>4. Fits(Arrived(element, i, m, path), names \cup Named(target.variable), others, b)
    BY <2>3, BindNode DEF Arrived, Reaches, target
  <2>5. Fits(x.row, names \cup Named(target.variable), others, b) /\ x.path = path
    BY <2>1, <2>4, BindEdge DEF Stopped, target
  <2> QED BY <2>3, <2>5 DEF Reaches
<1> QED BY <1>6, <1>7 DEF w, target

-----------------------------------------------------------------------------
(* The four recursive functions of the matcher and the planner that go     *)
(* through a list: layer i comes from layer i - 1 and element i.           *)

\* The matches of one match over one pattern of a clause.
Extended(g, indexed, m, element) ==
    {[row |-> x.row, trace |-> Append(m.trace, x.path)] :
        x \in matchPattern(g, m.row, element, Candidates(indexed, g, m.row, element.nodes[1]))}

Layer(s, i, x) ==
    IF s.by = "relationships" THEN UNION {Through(s.graph, s.element, i, m) : m \in x}
    ELSE IF s.by = "patterns" THEN UNION {Extended(s.graph, s.indexed, m, s.patterns[i]) : m \in x}
    ELSE IF s.by = "clauses" THEN UNION {Clause(s.graph, s.indexed, m, s.clauses[i]) : m \in x}
    ELSE x \o s.clauses[i].patterns

Layers(s, start, n, f) == f = [i \in 0..n |-> IF i = 0 THEN start ELSE Layer(s, i, f[i - 1])]

\* The layers one by one.
LEMMA LayersValues ==
    ASSUME NEW s, NEW start, NEW n \in Nat, NEW f, Layers(s, start, n, f)
    PROVE  DOMAIN f = 0..n /\ f[0] = start /\ \A i \in 1..n : f[i] = Layer(s, i, f[i - 1])
BY DEF Layers

\* There are such layers for every list.
LEMMA LayersExist ==
    ASSUME NEW s, NEW start, NEW n \in Nat
    PROVE  \E f : Layers(s, start, n, f)
<1> DEFINE Bad == {m \in Nat : ~\E f : Layers(s, start, m, f)}
<1>1. SUFFICES ASSUME Bad # {} PROVE FALSE
  OBVIOUS
<1>2. PICK m \in Bad : \A y \in Bad : m <= y
  BY <1>1, Least
<1>3. m \in Nat /\ ~\E f : Layers(s, start, m, f)
  BY <1>2
<1>4. CASE m = 0
  <2> DEFINE f == [i \in 0..0 |-> start]
  <2>1. f = [i \in 0..0 |-> IF i = 0 THEN start ELSE Layer(s, i, f[i - 1])]
    OBVIOUS
  <2> QED BY <1>3, <1>4, <2>1 DEF Layers
<1>5. CASE m # 0
  <2>1. m - 1 \in Nat /\ m - 1 \notin Bad
    BY <1>2, <1>3, <1>5
  <2>2. PICK f : Layers(s, start, m - 1, f)
    BY <2>1
  <2>3. DOMAIN f = 0..m - 1 /\ f[0] = start /\ \A i \in 1..m - 1 : f[i] = Layer(s, i, f[i - 1])
    BY <2>1, <2>2, LayersValues
  <2> DEFINE top == Layer(s, m, f[m - 1])
             h == [i \in 0..m |-> IF i = m THEN top ELSE f[i]]
  <2>4. h[0] = start /\ \A i \in 1..m : h[i] = Layer(s, i, h[i - 1])
    <3>1. h[0] = start
      BY <1>3, <1>5, <2>3
    <3>2. \A i \in 1..m : h[i - 1] = f[i - 1]
      BY <1>3, <1>5
    <3>3. \A i \in 1..m - 1 : h[i] = f[i]
      BY <1>3, <1>5
    <3>4. h[m] = top
      BY <1>3
    <3> HIDE DEF h
    <3>5. \A i \in 1..m : i = m \/ i \in 1..m - 1
      BY <1>3
    <3> QED BY <2>3, <3>1, <3>2, <3>3, <3>4, <3>5
  <2>5. h = [i \in 0..m |-> IF i = 0 THEN start ELSE Layer(s, i, h[i - 1])]
    <3>1. h = [i \in 0..m |-> h[i]]
      OBVIOUS
    <3> HIDE DEF h
    <3>2. \A i \in 0..m : h[i] = IF i = 0 THEN start ELSE Layer(s, i, h[i - 1])
      BY <1>3, <2>4
    <3> QED BY <3>1, <3>2
  <2> HIDE DEF h
  <2> QED BY <1>3, <2>5 DEF Layers
<1> QED BY <1>4, <1>5

\* extendPattern, relationship by relationship.
ExtendsBy(g, element, first, n, f) ==
    /\ DOMAIN f = 0..n /\ f[0] = first
    /\ \A i \in 1..n : f[i] = UNION {Through(g, element, i, m) : m \in f[i - 1]}
    /\ extendPattern(g, element, first) = f[n]

\* extendPattern has such layers.
LEMMA ExtendLayers ==
    ASSUME NEW g, NEW element, NEW first, NEW n \in Nat, n = Len(element.edges)
    PROVE  \E f : ExtendsBy(g, element, first, n, f)
<1> DEFINE s == [by |-> "relationships", graph |-> g, element |-> element]
           step(i, x) == UNION {Through(g, element, i, m) : m \in x}
           f == CHOOSE h : h = [i \in 0..n |-> IF i = 0 THEN first ELSE step(i, h[i - 1])]
<1>1. PICK h : Layers(s, first, n, h)
  BY LayersExist
<1>2. \A i, x : Layer(s, i, x) = step(i, x)
  BY DEF Layer
<1> HIDE DEF s
<1>3. h = [i \in 0..n |-> IF i = 0 THEN first ELSE step(i, h[i - 1])]
  <2> HIDE DEF step
  <2> QED BY <1>1, <1>2 DEF Layers
<1>4. f = [i \in 0..n |-> IF i = 0 THEN first ELSE step(i, f[i - 1])]
  BY <1>3, Zenon
<1>5. extendPattern(g, element, first) = f[n]
  BY Zenon DEF extendPattern
<1> HIDE DEF f
<1>6. DOMAIN f = 0..n /\ f[0] = first /\ \A i \in 1..n : f[i] = step(i, f[i - 1])
  <2> HIDE DEF step
  <2> QED BY <1>4
<1>7. ExtendsBy(g, element, first, n, f)
  BY <1>5, <1>6 DEF ExtendsBy
<1> QED BY <1>7

-----------------------------------------------------------------------------
(* A whole pattern.                                                        *)

\* The names of the first i nodes of a pattern.
FirstNames(p, i) == {p.nodes[j].variable : j \in 1..i} \ {""}

\* The known nodes of every variable are known in the other bindings too.
Grows(b, b2) == \A v : Bound(b, v) \subseteq Bound(b2, v)

\* The nodes T at which the pattern was expanded: T[0] holds every node its
\* first node admits that is not already excluded by its variable, each T[i]
\* what relationship i reaches, and the bindings b2 know all of them.
Expanded(g, loaded, p, names, b, b2, T) ==
    /\ \A id \in DOMAIN g.nodes : NodeAdmitted(g.nodes[id], p.nodes[1]) =>
          \/ id \in T[0]
          \/ p.nodes[1].variable \in names /\ id \notin Bound(b, p.nodes[1].variable)
    /\ \A i \in 1..Len(p.edges) :
          /\ SameLength(g, loaded, p.edges[i].length)
          /\ Covers(g, loaded, p.edges[i], p.nodes[i + 1], T[i - 1], T[i])
    /\ \A i \in 1..Len(p.nodes) :
          p.nodes[i].variable # "" => T[i - 1] \subseteq Bound(b2, p.nodes[i].variable)

CoversPattern(g, loaded, p, names, b, b2) ==
    /\ Grows(b, b2)
    /\ \E T \in [Nat -> SUBSET loaded.nodes] : Expanded(g, loaded, p, names, b, b2, T)

\* Names of variables: none is empty.
AreNames(names) == "" \notin names

\* A row keeps fitting when more is known.
LEMMA FitsMore ==
    ASSUME NEW row, NEW names, NEW others, NEW b, Fits(row, names, others, b),
           NEW more, others \subseteq more, NEW b2, Grows(b, b2)
    PROVE  Fits(row, names, more, b2)
BY DEF Fits, Grows

\* The indexes of a sequence.
LEMMA SequenceDomain ==
    ASSUME NEW s, IsSequence(s)
    PROVE  Len(s) \in Nat /\ DOMAIN s = 1..Len(s)
BY DEF IsSequence

\* The indexes of a pattern.
LEMMA PatternShape ==
    ASSUME NEW p, NEW names, NEW others, IsPattern(p, names, others)
    PROVE  /\ Len(p.edges) \in Nat /\ Len(p.nodes) = Len(p.edges) + 1
           /\ DOMAIN p.edges = 1..Len(p.edges) /\ DOMAIN p.nodes = 1..Len(p.edges) + 1
           /\ 1 \in DOMAIN p.nodes
<1>1. IsSequence(p.nodes) /\ IsSequence(p.edges) /\ Len(p.nodes) = Len(p.edges) + 1
  BY DEF IsPattern
<1>2. Len(p.nodes) \in Nat /\ DOMAIN p.nodes = 1..Len(p.nodes)
  BY <1>1, SequenceDomain
<1>3. Len(p.edges) \in Nat /\ DOMAIN p.edges = 1..Len(p.edges)
  BY <1>1, SequenceDomain
<1> QED BY <1>1, <1>2, <1>3

\* Intervals of no and of one number.
LEMMA SmallIntervals == 1..0 = {} /\ 1..1 = {1} /\ 1 - 1 = 0
OBVIOUS

\* A node value holds its id.
LEMMA NodeValueId ==
    ASSUME NEW id
    PROVE  NodeValue(id)[2] = id
BY DEF NodeValue

\* The path of one node.
LEMMA SinglePath ==
    ASSUME NEW g, NEW id \in DOMAIN g.nodes
    PROVE  /\ IsPath(g, [nodes |-> <<id>>, edges |-> <<>>])
           /\ End([nodes |-> <<id>>, edges |-> <<>>]) = id
<1> DEFINE D == DOMAIN g.nodes
<1>5. id \in D
  OBVIOUS
<1>1. <<id>> \in Seq(DOMAIN g.nodes) /\ Len(<<id>>) = 1 /\ <<id>>[1] = id
  <2> HIDE DEF D
  <2>1. <<id>> \in Seq(D)
    BY <1>5
  <2>2. Len(<<id>>) = 1 /\ <<id>>[1] = id
    OBVIOUS
  <2> QED BY <2>1, <2>2 DEF D
<1>2. <<id>> # <<>>
  BY <1>1, NotEmpty
<1>3. <<>> \in Seq(DOMAIN g.edges)
  OBVIOUS
<1> DEFINE s == <<id>>
<1> HIDE DEF s
<1>4. IsPath(g, [nodes |-> s, edges |-> <<>>]) /\ End([nodes |-> s, edges |-> <<>>]) = id
  <2>1. s \in Seq(DOMAIN g.nodes) /\ Len(s) = 1 /\ s[1] = id /\ s # <<>>
    BY <1>1, <1>2 DEF s
  <2> QED BY <1>3, <2>1 DEF IsPath, End
<1> QED BY <1>4 DEF s

\* The relationships of a pattern from matches of its first node on: the part
\* gives what the graph gives.
LEMMA SameExtend ==
    ASSUME NEW g, IsGraph(g), NEW loaded, IsPart(g, loaded),
           NEW p, NEW names, NEW others, IsPattern(p, names, others),
           NEW b, NEW b2, Holds(b2, loaded),
           NEW T \in [Nat -> SUBSET loaded.nodes], Expanded(g, loaded, p, names, b, b2, T),
           NEW first,
           \A m \in first : Reaches(g, m, names \cup FirstNames(p, 1), others \cup EdgeNames(p), b2, T[0])
    PROVE  /\ extendPattern(GraphOf(g, loaded), p, first) = extendPattern(g, p, first)
           /\ \A x \in extendPattern(g, p, first) :
                 Fits(x.row, names \cup NodeNames(p), others \cup EdgeNames(p), b2)
<1> DEFINE w == GraphOf(g, loaded)
           n == Len(p.edges)
           all == others \cup EdgeNames(p)
<1>1. n \in Nat /\ Len(p.nodes) = n + 1 /\ DOMAIN p.edges = 1..n /\ DOMAIN p.nodes = 1..n + 1
  BY PatternShape
<1>2. PICK f : ExtendsBy(g, p, first, n, f)
  BY <1>1, ExtendLayers
<1>3. PICK h : ExtendsBy(w, p, first, n, h)
  <2> HIDE DEF w
  <2> QED BY <1>1, ExtendLayers
<1> DEFINE Good(i) == f[i] = h[i] /\ \A m \in f[i] : Reaches(g, m, names \cup FirstNames(p, i + 1), all, b2, T[i])
           Bad == {i \in 0..n : ~Good(i)}
<1>4. Good(0)
  <2>1. f[0] = first /\ h[0] = first /\ 0 + 1 = 1
    BY <1>2, <1>3 DEF ExtendsBy
  <2> QED BY <2>1
<1>5. ASSUME NEW i \in 1..n, Good(i - 1)
      PROVE  Good(i)
  <2>1. i \in Nat /\ i - 1 \in Nat /\ i \in DOMAIN p.edges /\ i + 1 \in DOMAIN p.nodes /\ (i - 1) + 1 = i
        /\ (i + 1) - 1 = i
    BY <1>1
  <2> DEFINE known == names \cup FirstNames(p, i)
             target == p.nodes[i + 1]
             pattern == p.edges[i]
  <2>2. /\ AreProperties(pattern.properties, known)
        /\ IsLength(pattern.length)
        /\ IsSequence(target.labels) /\ AreProperties(target.properties, known)
    BY <1>1, <2>1 DEF IsPattern, FirstNames
  <2>3. /\ SameLength(g, loaded, pattern.length)
        /\ Covers(g, loaded, pattern, target, T[i - 1], T[i])
    BY <1>1, <2>1 DEF Expanded
  <2>4. target.variable # "" => T[i] \subseteq Bound(b2, target.variable)
    BY <1>1, <2>1 DEF Expanded
  <2>5. FirstNames(p, i + 1) = FirstNames(p, i) \cup Named(target.variable)
    <3>1. \A j \in 1..i + 1 : j \in 1..i \/ j = i + 1
      BY <2>1
    <3>2. \A j \in 1..i : j \in 1..i + 1
      BY <2>1
    <3>3. i + 1 \in 1..i + 1
      BY <2>1
    <3> QED BY <3>1, <3>2, <3>3 DEF FirstNames, Named
  <2>6. pattern.variable # "" => pattern.variable \in all /\ pattern.variable \notin known \cup Named(target.variable)
    <3>1. pattern.variable # "" => pattern.variable \in EdgeNames(p)
      BY <2>1 DEF EdgeNames
    <3>2. FirstNames(p, i + 1) \subseteq NodeNames(p)
      <4>1. 1..i + 1 \subseteq DOMAIN p.nodes
        BY <1>1, <2>1
      <4> QED BY <4>1 DEF FirstNames, NodeNames
    <3> QED BY <2>5, <3>1, <3>2 DEF IsPattern
  <2>7. \A m \in f[i - 1] : Reaches(g, m, known, all, b2, T[i - 1])
    BY <1>5, <2>1
  <2>8. /\ f[i] = UNION {Through(g, p, i, m) : m \in f[i - 1]}
        /\ h[i] = UNION {Through(w, p, i, m) : m \in f[i - 1]}
    BY <1>2, <1>3, <1>5 DEF ExtendsBy
  <2> HIDE DEF known, all, w
  <2>9. \A m \in f[i - 1] :
            /\ Through(w, p, i, m) = Through(g, p, i, m)
            /\ \A x \in Through(g, p, i, m) : Reaches(g, x, known \cup Named(target.variable), all, b2, T[i])
    BY <2>2, <2>3, <2>4, <2>6, <2>7, SameThrough DEF w
  <2>10. f[i] = h[i]
    BY <2>8, <2>9
  <2>11. \A x \in f[i] : Reaches(g, x, known \cup Named(target.variable), all, b2, T[i])
    BY <2>8, <2>9
  <2>12. known \cup Named(target.variable) = names \cup FirstNames(p, i + 1)
    BY <2>5 DEF known
  <2> QED BY <2>10, <2>11, <2>12
<1> HIDE DEF Good
<1>6. Bad = {}
  <2>1. SUFFICES ASSUME Bad # {} PROVE FALSE
    OBVIOUS
  <2>2. Bad \in SUBSET Nat
    BY <1>1
  <2>3. PICK m \in Bad : \A y \in Bad : m <= y
    <3> HIDE DEF Bad
    <3> QED BY <2>1, <2>2, Least
  <2>4. m # 0 => m - 1 \in 0..n /\ m - 1 \notin Bad /\ m \in 1..n
    BY <1>1, <2>3
  <2> QED BY <1>4, <1>5, <2>3, <2>4
<1>7. Good(n)
  BY <1>1, <1>6
<1>8. FirstNames(p, n + 1) = NodeNames(p)
  BY <1>1 DEF FirstNames, NodeNames
<1> QED BY <1>2, <1>3, <1>7, <1>8 DEF Good, ExtendsBy, Reaches

\* The first node of a pattern: the indexes of the part find the nodes that
\* the whole graph has for it, and they are among those expanded.
LEMMA SameCandidates ==
    ASSUME NEW g, IsGraph(g), NoLossyKey(g), NEW loaded, IsPart(g, loaded),
           NEW node, NEW names, NEW others, AreNames(names), node.variable # "" => node.variable \notin others,
           IsSequence(node.labels), AreProperties(node.properties, names),
           NEW b, Holds(b, loaded), NEW row, Fits(row, names, others, b),
           NEW F \in SUBSET loaded.nodes,
           \A id \in DOMAIN g.nodes : NodeAdmitted(g.nodes[id], node) =>
               id \in F \/ (node.variable \in names /\ id \notin Bound(b, node.variable))
    PROVE  /\ candidateNodes(GraphOf(g, loaded), row, node) = AllCandidates(g, row, node)
           /\ AllCandidates(g, row, node) \subseteq F
<1> DEFINE w == GraphOf(g, loaded)
<1>1. Refers(row, node.properties, loaded.nodes)
  BY FitsRefers
<1>2. DOMAIN w.nodes = loaded.nodes /\ \A id \in loaded.nodes : w.nodes[id] = g.nodes[id]
  BY PartEntities
<1>3. \A id \in loaded.nodes : nodePatternMatches(w, row, id, node) <=> nodePatternMatches(g, row, id, node)
  BY <1>1, SameNodeMatches
<1>4. loaded.nodes \subseteq DOMAIN g.nodes /\ IsFiniteSet(DOMAIN g.nodes) /\ \A id \in DOMAIN g.nodes : Stored(g.nodes[id])
  BY DEF IsPart, IsGraph
<1>5. \A id \in DOMAIN g.nodes : nodePatternMatches(g, row, id, node) =>
          id \in F \/ (node.variable \in names /\ id \notin Bound(b, node.variable))
  BY <1>4, NodePlanSound
<1> HIDE DEF w
<1>6. candidateNodes(w, row, node) = AllCandidates(w, row, node)
  <2>1. IsFiniteSet(DOMAIN w.nodes)
    BY <1>2, <1>4, FS_Subset
  <2>2. \A id \in DOMAIN w.nodes : Stored(w.nodes[id])
    BY <1>2, <1>4
  <2>3. NoLossyKey(w)
    BY <1>2, <1>4 DEF NoLossyKey
  <2>4. Evaluates(w, row, node.properties)
    BY <1>1, <1>2, <2>2, ExpectedValues
  <2> QED BY <2>1, <2>2, <2>3, <2>4, IndexesExact
<1>7. CASE IsBound(row, node)
  <2>1. node.variable \in names
    BY <1>7 DEF IsBound, Fits
  <2>2. AllCandidates(w, row, node) = BoundCandidates(w, row, node) /\ AllCandidates(g, row, node) = BoundCandidates(g, row, node)
    BY <1>7 DEF AllCandidates
  <2>3. CASE row[node.variable] = Null
    <3>1. Null[1] # "node"
      BY DEF Null
    <3>2. BoundCandidates(w, row, node) = {} /\ BoundCandidates(g, row, node) = {}
      BY <2>3, <3>1 DEF BoundCandidates
    <3> QED BY <1>6, <2>2, <3>2 DEF w
  <2>4. CASE row[node.variable] # Null
    <3>1. PICK id \in Bound(b, node.variable) : row[node.variable] = NodeValue(id)
      BY <2>1, <2>4 DEF Fits
    <3>2. id \in loaded.nodes /\ row[node.variable][2] = id
      BY <3>1, NodeValueId DEF Holds
    <3>6. row[node.variable][1] = "node"
      <4>1. \A i : NodeValue(i)[1] = "node"
        BY DEF NodeValue
      <4> QED BY <3>1, <4>1
    <3>3. /\ BoundCandidates(w, row, node) = {x \in {id} : nodePatternMatches(w, row, x, node)}
          /\ BoundCandidates(g, row, node) = {x \in {id} : nodePatternMatches(g, row, x, node)}
      BY <3>2, <3>6 DEF BoundCandidates
    <3>4. BoundCandidates(w, row, node) = BoundCandidates(g, row, node)
      BY <1>3, <3>2, <3>3
    <3>5. BoundCandidates(g, row, node) \subseteq F
      BY <1>4, <1>5, <3>1, <3>2, <3>3
    <3> QED BY <1>6, <2>2, <3>4, <3>5 DEF w
  <2> QED BY <2>3, <2>4
<1>8. CASE ~IsBound(row, node)
  <2>1. node.variable \notin names
    BY <1>8 DEF IsBound, Fits, AreNames
  <2>2. /\ AllCandidates(w, row, node) = {id \in loaded.nodes : nodePatternMatches(w, row, id, node)}
        /\ AllCandidates(g, row, node) = {id \in DOMAIN g.nodes : nodePatternMatches(g, row, id, node)}
    BY <1>2, <1>8 DEF AllCandidates
  <2>3. AllCandidates(g, row, node) \subseteq F
    BY <1>5, <2>1, <2>2
  <2>4. AllCandidates(w, row, node) = AllCandidates(g, row, node)
    BY <1>3, <1>4, <2>2, <2>3
  <2> QED BY <1>6, <2>3, <2>4 DEF w
<1> QED BY <1>7, <1>8

\* One pattern over one row: the part gives what the graph gives.
LEMMA SamePattern ==
    ASSUME NEW g, IsGraph(g), NoLossyKey(g), NEW loaded, IsPart(g, loaded),
           NEW p, NEW names, NEW others, AreNames(names), IsPattern(p, names, others),
           NEW b, Holds(b, loaded), NEW b2, Holds(b2, loaded), CoversPattern(g, loaded, p, names, b, b2),
           NEW row, Fits(row, names, others, b),
           NEW found, found = candidateNodes(GraphOf(g, loaded), row, p.nodes[1]),
           NEW all, all = AllCandidates(g, row, p.nodes[1])
    PROVE  /\ matchPattern(GraphOf(g, loaded), row, p, found) = matchPattern(g, row, p, all)
           /\ \A x \in matchPattern(g, row, p, all) :
                 Fits(x.row, names \cup NodeNames(p), others \cup EdgeNames(p), b2)
<1> DEFINE node == p.nodes[1]
           first == {[row |-> Bind(row, node.variable, NodeValue(id)), path |-> [nodes |-> <<id>>, edges |-> <<>>]] :
                        id \in {c \in all : CanBind(row, node.variable, NodeValue(c))}}
<1>1. PICK T \in [Nat -> SUBSET loaded.nodes] : Expanded(g, loaded, p, names, b, b2, T)
  BY DEF CoversPattern
<1>2. Grows(b, b2)
  BY DEF CoversPattern
<1>3. 1 \in DOMAIN p.nodes /\ 1 \in 1..Len(p.nodes) /\ 1 - 1 = 0
  <2>1. 1 \in DOMAIN p.nodes /\ DOMAIN p.nodes = 1..Len(p.edges) + 1 /\ Len(p.nodes) = Len(p.edges) + 1
    BY PatternShape
  <2> QED BY <2>1, SmallIntervals
<1>4. /\ IsSequence(node.labels) /\ AreProperties(node.properties, names)
      /\ node.variable # "" => node.variable \notin others
  <2>1. {p.nodes[j].variable : j \in 1..1 - 1} = {}
    BY <1>3, SmallIntervals
  <2>2. AreProperties(node.properties, names \cup ({} \ {""}))
    BY <1>3, <2>1 DEF IsPattern
  <2>3. names \cup ({} \ {""}) = names
    OBVIOUS
  <2>4. node.variable # "" => node.variable \notin others
    BY <1>3 DEF IsPattern, NodeNames
  <2> QED BY <1>3, <2>2, <2>3, <2>4 DEF IsPattern
<1>5. found = all /\ all \subseteq T[0]
  <2>1. T[0] \in SUBSET loaded.nodes
    OBVIOUS
  <2>2. \A id \in DOMAIN g.nodes : NodeAdmitted(g.nodes[id], node) =>
            id \in T[0] \/ (node.variable \in names /\ id \notin Bound(b, node.variable))
    BY <1>1 DEF Expanded
  <2> HIDE DEF node
  <2>3. candidateNodes(GraphOf(g, loaded), row, node) = AllCandidates(g, row, node) /\ AllCandidates(g, row, node) \subseteq T[0]
    BY <1>4, <2>1, <2>2, SameCandidates
  <2> QED BY <2>3 DEF node
<1>6. /\ matchPattern(GraphOf(g, loaded), row, p, found) = extendPattern(GraphOf(g, loaded), p, first)
      /\ matchPattern(g, row, p, all) = extendPattern(g, p, first)
  BY <1>5 DEF matchPattern
<1>7. FirstNames(p, 1) = Named(node.variable)
  BY SmallIntervals DEF FirstNames, Named
<1>8. ASSUME NEW m \in first
      PROVE  Reaches(g, m, names \cup FirstNames(p, 1), others \cup EdgeNames(p), b2, T[0])
  <2>1. PICK id \in all : m = [row |-> Bind(row, node.variable, NodeValue(id)), path |-> [nodes |-> <<id>>, edges |-> <<>>]]
    BY <1>8
  <2>2. id \in T[0] /\ id \in DOMAIN g.nodes
    BY <1>5 DEF IsPart
  <2>3. Fits(row, names, others \cup EdgeNames(p), b2)
    BY <1>2, FitsMore
  <2>4. node.variable # "" => T[1 - 1] \subseteq Bound(b2, node.variable)
    BY <1>1, <1>3 DEF Expanded
  <2>5. Fits(m.row, names \cup Named(node.variable), others \cup EdgeNames(p), b2)
    BY <1>3, <2>1, <2>2, <2>3, <2>4, BindNode
  <2>6. m.path = [nodes |-> <<id>>, edges |-> <<>>]
    BY <2>1
  <2>7. IsPath(g, m.path) /\ End(m.path) \in T[0]
    BY <2>2, <2>6, SinglePath
  <2> QED BY <1>7, <2>5, <2>7 DEF Reaches
<1> HIDE DEF first
<1>9. /\ extendPattern(GraphOf(g, loaded), p, first) = extendPattern(g, p, first)
      /\ \A x \in extendPattern(g, p, first) :
            Fits(x.row, names \cup NodeNames(p), others \cup EdgeNames(p), b2)
  BY <1>1, <1>8, SameExtend
<1> QED BY <1>6, <1>9

-----------------------------------------------------------------------------
(* The patterns of a clause, and the clauses of a query.                   *)

\* With the indexes of the part, as the engine runs; without, as it means.
Indexed == TRUE
Scanned == FALSE

\* One pattern over one match.
LEMMA SameExtended ==
    ASSUME NEW g, IsGraph(g), NoLossyKey(g), NEW loaded, IsPart(g, loaded),
           NEW p, NEW names, NEW others, AreNames(names), IsPattern(p, names, others),
           NEW b, Holds(b, loaded), NEW b2, Holds(b2, loaded), CoversPattern(g, loaded, p, names, b, b2),
           NEW m, Fits(m.row, names, others, b)
    PROVE  /\ Extended(GraphOf(g, loaded), Indexed, m, p) = Extended(g, Scanned, m, p)
           /\ \A x \in Extended(g, Scanned, m, p) : Fits(x.row, names \cup NodeNames(p), others \cup EdgeNames(p), b2)
<1> DEFINE w == GraphOf(g, loaded)
           found == candidateNodes(w, m.row, p.nodes[1])
           all == AllCandidates(g, m.row, p.nodes[1])
<1>1. /\ matchPattern(w, m.row, p, found) = matchPattern(g, m.row, p, all)
      /\ \A x \in matchPattern(g, m.row, p, all) :
            Fits(x.row, names \cup NodeNames(p), others \cup EdgeNames(p), b2)
  BY SamePattern
<1>2. Candidates(Indexed, w, m.row, p.nodes[1]) = found /\ Candidates(Scanned, g, m.row, p.nodes[1]) = all
  BY DEF Candidates, Indexed, Scanned
<1> HIDE DEF w, found, all
<1>3. /\ Extended(w, Indexed, m, p) =
            {[row |-> x.row, trace |-> Append(m.trace, x.path)] : x \in matchPattern(w, m.row, p, found)}
      /\ Extended(g, Scanned, m, p) =
            {[row |-> x.row, trace |-> Append(m.trace, x.path)] : x \in matchPattern(g, m.row, p, all)}
  BY <1>2 DEF Extended
<1>4. \A x \in Extended(g, Scanned, m, p) : Fits(x.row, names \cup NodeNames(p), others \cup EdgeNames(p), b2)
  <2> TAKE x \in Extended(g, Scanned, m, p)
  <2>1. PICK y \in matchPattern(g, m.row, p, all) : x = [row |-> y.row, trace |-> Append(m.trace, y.path)]
    BY <1>3
  <2>2. x.row = y.row
    BY <2>1
  <2> QED BY <1>1, <2>2
<1> QED BY <1>1, <1>3, <1>4 DEF w

\* MatchPatterns, pattern by pattern.
PatternsBy(g, indexed, match, patterns, n, f) ==
    /\ DOMAIN f = 0..n /\ f[0] = {match}
    /\ \A i \in 1..n : f[i] = UNION {Extended(g, indexed, m, patterns[i]) : m \in f[i - 1]}
    /\ MatchPatterns(g, indexed, match, patterns) = f[n]

\* MatchPatterns has such layers.
LEMMA PatternLayers ==
    ASSUME NEW g, NEW indexed, NEW match, NEW patterns, NEW n \in Nat, n = Len(patterns)
    PROVE  \E f : PatternsBy(g, indexed, match, patterns, n, f)
<1> DEFINE s == [by |-> "patterns", graph |-> g, indexed |-> indexed, patterns |-> patterns]
           start == {match}
           step(i, x) == UNION {Extended(g, indexed, m, patterns[i]) : m \in x}
           f == CHOOSE h : h = [i \in 0..n |-> IF i = 0 THEN start ELSE step(i, h[i - 1])]
<1>5. MatchPatterns(g, indexed, match, patterns) = f[n]
  BY Zenon DEF MatchPatterns, Extended
<1>8. start = {match}
  OBVIOUS
<1> HIDE DEF start
<1>1. PICK h : Layers(s, start, n, h)
  BY LayersExist
<1>2. \A i, x : Layer(s, i, x) = step(i, x)
  BY DEF Layer
<1> HIDE DEF s
<1>3. h = [i \in 0..n |-> IF i = 0 THEN start ELSE step(i, h[i - 1])]
  <2> HIDE DEF step
  <2> QED BY <1>1, <1>2 DEF Layers
<1>4. f = [i \in 0..n |-> IF i = 0 THEN start ELSE step(i, f[i - 1])]
  BY <1>3, Zenon
<1> HIDE DEF f
<1>6. DOMAIN f = 0..n /\ f[0] = start /\ \A i \in 1..n : f[i] = step(i, f[i - 1])
  <2> HIDE DEF step
  <2> QED BY <1>4
<1>7. PatternsBy(g, indexed, match, patterns, n, f)
  BY <1>5, <1>6, <1>8 DEF PatternsBy
<1> QED BY <1>7

\* Clauses, clause by clause.
ClausesBy(g, indexed, clauses, n, f) ==
    /\ DOMAIN f = 0..n /\ f[0] = {NoMatch}
    /\ \A i \in 1..n : f[i] = UNION {Clause(g, indexed, m, clauses[i]) : m \in f[i - 1]}
    /\ Clauses(g, indexed, clauses) = f[n]

\* Clauses has such layers.
LEMMA ClauseLayers ==
    ASSUME NEW g, NEW indexed, NEW clauses, NEW n \in Nat, n = Len(clauses)
    PROVE  \E f : ClausesBy(g, indexed, clauses, n, f)
<1> DEFINE s == [by |-> "clauses", graph |-> g, indexed |-> indexed, clauses |-> clauses]
           start == {NoMatch}
           step(i, x) == UNION {Clause(g, indexed, m, clauses[i]) : m \in x}
           f == CHOOSE h : h = [i \in 0..n |-> IF i = 0 THEN start ELSE step(i, h[i - 1])]
<1>5. Clauses(g, indexed, clauses) = f[n]
  BY Zenon DEF Clauses
<1>8. start = {NoMatch}
  OBVIOUS
<1> HIDE DEF start
<1>1. PICK h : Layers(s, start, n, h)
  BY LayersExist
<1>2. \A i, x : Layer(s, i, x) = step(i, x)
  BY DEF Layer
<1> HIDE DEF s
<1>3. h = [i \in 0..n |-> IF i = 0 THEN start ELSE step(i, h[i - 1])]
  <2> HIDE DEF step
  <2> QED BY <1>1, <1>2 DEF Layers
<1>4. f = [i \in 0..n |-> IF i = 0 THEN start ELSE step(i, f[i - 1])]
  BY <1>3, Zenon
<1> HIDE DEF f
<1>6. DOMAIN f = 0..n /\ f[0] = start /\ \A i \in 1..n : f[i] = step(i, f[i - 1])
  <2> HIDE DEF step
  <2> QED BY <1>4
<1>7. ClausesBy(g, indexed, clauses, n, f)
  BY <1>5, <1>6, <1>8 DEF ClausesBy
<1> QED BY <1>7

\* The patterns of a clause from o on in the list of all patterns: H has what
\* is known before and after each, and the part covers it.
Loads(g, loaded, c, names, H, o) ==
    /\ \A k \in Nat : Holds(H[k], loaded)
    /\ \A j, k \in Nat : j <= k => Grows(H[j], H[k])
    /\ \A j \in 1..Len(c.patterns) :
          CoversPattern(g, loaded, c.patterns[j], names \cup NodesOf(c, j - 1), H[o + (j - 1)], H[o + j])

\* The names of one more pattern.
LEMMA NextNames ==
    ASSUME NEW c, NEW j \in Nat \ {0}
    PROVE  /\ NodesOf(c, j) = NodesOf(c, j - 1) \cup NodeNames(c.patterns[j])
           /\ EdgesOf(c, j) = EdgesOf(c, j - 1) \cup EdgeNames(c.patterns[j])
<1>1. 1..j = (1..j - 1) \cup {j}
  OBVIOUS
<1> QED BY <1>1 DEF NodesOf, EdgesOf

\* No name is empty.
LEMMA NamesNotEmpty ==
    ASSUME NEW c, NEW j
    PROVE  AreNames(NodesOf(c, j))
BY DEF AreNames, NodesOf, NodeNames

\* The patterns of a clause over one match.
LEMMA SamePatterns ==
    ASSUME NEW g, IsGraph(g), NoLossyKey(g), NEW loaded, IsPart(g, loaded),
           NEW c, NEW names, NEW others, AreNames(names), IsClause(c, names, others),
           NEW H, NEW o \in Nat, Loads(g, loaded, c, names, H, o),
           NEW m, Fits(m.row, names, others, H[o]),
           NEW n \in Nat, n = Len(c.patterns)
    PROVE  /\ MatchPatterns(GraphOf(g, loaded), Indexed, m, c.patterns) = MatchPatterns(g, Scanned, m, c.patterns)
           /\ \A x \in MatchPatterns(g, Scanned, m, c.patterns) :
                 Fits(x.row, names \cup NodesOf(c, n), others \cup EdgesOf(c, n), H[o + n])
<1> DEFINE w == GraphOf(g, loaded)
<1>1. DOMAIN c.patterns = 1..n
  BY SequenceDomain DEF IsClause
<1>2. PICK f : PatternsBy(g, Scanned, m, c.patterns, n, f)
  BY PatternLayers
<1>3. PICK h : PatternsBy(w, Indexed, m, c.patterns, n, h)
  <2> HIDE DEF w
  <2> QED BY PatternLayers
<1> DEFINE Fit(j, x) == Fits(x.row, names \cup NodesOf(c, j), others \cup EdgesOf(c, j), H[o + j])
           Good(j) == f[j] = h[j] /\ \A x \in f[j] : Fit(j, x)
           Bad == {j \in 0..n : ~Good(j)}
<1>4. Good(0)
  <2>1. f[0] = {m} /\ h[0] = {m}
    BY <1>2, <1>3 DEF PatternsBy
  <2>2. NodesOf(c, 0) = {} /\ EdgesOf(c, 0) = {} /\ o + 0 = o
    BY SmallIntervals DEF NodesOf, EdgesOf
  <2>3. Fit(0, m)
    BY <2>2
  <2> HIDE DEF Fit
  <2> QED BY <2>1, <2>3
<1>5. ASSUME NEW j \in 1..n, Good(j - 1)
      PROVE  Good(j)
  <2> DEFINE p == c.patterns[j]
             before == names \cup NodesOf(c, j - 1)
             others2 == others \cup EdgesOf(c, j - 1)
  <2>1. j \in Nat \ {0} /\ j - 1 \in Nat /\ o + (j - 1) \in Nat /\ o + j \in Nat /\ j \in DOMAIN c.patterns
        /\ j \in 1..Len(c.patterns)
    BY <1>1
  <2>2. AreNames(before)
    <3>1. AreNames(NodesOf(c, j - 1))
      BY NamesNotEmpty
    <3> QED BY <3>1 DEF AreNames
  <2>3. IsPattern(p, before, others2)
    BY <2>1 DEF IsClause
  <2>4. CoversPattern(g, loaded, p, before, H[o + (j - 1)], H[o + j]) /\ Holds(H[o + (j - 1)], loaded) /\ Holds(H[o + j], loaded)
    BY <2>1 DEF Loads
  <2>5. \A x \in f[j - 1] : Fits(x.row, before, others2, H[o + (j - 1)])
    BY <1>5
  <2>6. /\ f[j] = UNION {Extended(g, Scanned, x, p) : x \in f[j - 1]}
        /\ h[j] = UNION {Extended(w, Indexed, x, p) : x \in f[j - 1]}
    BY <1>2, <1>3, <1>5 DEF PatternsBy
  <2>7. names \cup NodesOf(c, j) = before \cup NodeNames(p) /\ others \cup EdgesOf(c, j) = others2 \cup EdgeNames(p)
    BY <2>1, NextNames
  <2> HIDE DEF p, before, others2, w
  <2>8. \A x \in f[j - 1] :
            /\ Extended(w, Indexed, x, p) = Extended(g, Scanned, x, p)
            /\ \A y \in Extended(g, Scanned, x, p) : Fits(y.row, before \cup NodeNames(p), others2 \cup EdgeNames(p), H[o + j])
    <3> DEFINE b == H[o + (j - 1)]
               b2 == H[o + j]
    <3>1. /\ AreNames(before) /\ IsPattern(p, before, others2) /\ CoversPattern(g, loaded, p, before, b, b2)
          /\ Holds(b, loaded) /\ Holds(b2, loaded) /\ \A x \in f[j - 1] : Fits(x.row, before, others2, b)
      BY <2>2, <2>3, <2>4, <2>5
    <3> HIDE DEF b, b2
    <3>2. \A x \in f[j - 1] :
            /\ Extended(w, Indexed, x, p) = Extended(g, Scanned, x, p)
            /\ \A y \in Extended(g, Scanned, x, p) : Fits(y.row, before \cup NodeNames(p), others2 \cup EdgeNames(p), b2)
      BY <3>1, SameExtended DEF w
    <3> QED BY <3>2 DEF b2
  <2>9. f[j] = h[j]
    BY <2>6, <2>8
  <2>10. \A y \in f[j] : Fits(y.row, before \cup NodeNames(p), others2 \cup EdgeNames(p), H[o + j])
    BY <2>6, <2>8
  <2> QED BY <2>7, <2>9, <2>10
<1> HIDE DEF Good
<1>6. Bad = {}
  <2>1. SUFFICES ASSUME Bad # {} PROVE FALSE
    OBVIOUS
  <2>2. Bad \in SUBSET Nat
    OBVIOUS
  <2>3. PICK k \in Bad : \A y \in Bad : k <= y
    <3> HIDE DEF Bad
    <3> QED BY <2>1, <2>2, Least
  <2>4. k # 0 => k - 1 \in 0..n /\ k - 1 \notin Bad /\ k \in 1..n
    BY <2>3
  <2> QED BY <1>4, <1>5, <2>3, <2>4
<1>7. Good(n)
  BY <1>6
<1> QED BY <1>2, <1>3, <1>7 DEF Good, PatternsBy

\* WHERE over a row that fits.
LEMMA SameWhere ==
    ASSUME NEW g, NEW loaded, NEW names, NEW others, NEW b, Holds(b, loaded),
           NEW row, Fits(row, names, others, b),
           NEW where, \A i \in DOMAIN where : where[i].variable \in names
    PROVE  WhereHolds(GraphOf(g, loaded), row, where) <=> WhereHolds(g, row, where)
<1> DEFINE w == GraphOf(g, loaded)
<1>1. \A i \in DOMAIN where :
          Evaluate(w, row, <<where[i].variable, where[i].key>>) = Evaluate(g, row, <<where[i].variable, where[i].key>>)
  <2> TAKE i \in DOMAIN where
  <2> DEFINE v == where[i].variable
             key == where[i].key
  <2>1. row[v] = Null \/ \E id \in loaded.nodes : row[v] = NodeValue(id)
    BY DEF Fits, Holds
  <2>2. \A x : Evaluate(x, row, <<v, key>>) = IF row[v] = Null THEN Null ELSE property(x.nodes[row[v][2]], key)
    <3> HIDE DEF v, key
    <3>1. Len(<<v, key>>) = 2 /\ <<v, key>>[1] = v /\ <<v, key>>[2] = key
      OBVIOUS
    <3> DEFINE e == <<v, key>>
    <3> HIDE DEF e
    <3>2. Len(e) = 2 /\ e[1] = v /\ e[2] = key
      BY <3>1 DEF e
    <3>3. \A x : Evaluate(x, row, e) = IF row[v] = Null THEN Null ELSE property(x.nodes[row[v][2]], key)
      BY <3>2 DEF Evaluate
    <3> QED BY <3>3 DEF e
  <2>3. \A id \in loaded.nodes : w.nodes[id] = g.nodes[id]
    BY PartEntities
  <2>4. row[v] # Null => row[v][2] \in loaded.nodes
    BY <2>1, NodeValueId
  <2> HIDE DEF w, v, key
  <2>5. Evaluate(w, row, <<v, key>>) = Evaluate(g, row, <<v, key>>)
    BY <2>2, <2>3, <2>4
  <2> QED BY <2>5 DEF v, key
<1> HIDE DEF w
<1>2. WhereHolds(w, row, where) <=> WhereHolds(g, row, where)
  BY <1>1 DEF WhereHolds
<1> QED BY <1>2 DEF w

\* The names that a clause introduces are those of its patterns.
LEMMA IntroducedNames ==
    ASSUME NEW c, NEW n \in Nat, DOMAIN c.patterns = 1..n
    PROVE  Introduced(c) = NodesOf(c, n) \cup EdgesOf(c, n)
<1>1. Range(c.patterns) = {c.patterns[i] : i \in 1..n}
  BY DEF Range
<1>2. ASSUME NEW v PROVE v \in Introduced(c) <=> v \in NodesOf(c, n) \cup EdgesOf(c, n)
  <2>1. v \in Introduced(c) <=>
            v # "" /\ \E i \in 1..n : \/ \E j \in DOMAIN c.patterns[i].nodes : v = c.patterns[i].nodes[j].variable
                                      \/ \E j \in DOMAIN c.patterns[i].edges : v = c.patterns[i].edges[j].variable
    <3> DEFINE Of(p) == {p.nodes[i].variable : i \in DOMAIN p.nodes} \cup {p.edges[i].variable : i \in DOMAIN p.edges}
    <3>1. Introduced(c) = (UNION {Of(p) : p \in Range(c.patterns)}) \ {""}
      BY Zenon DEF Introduced
    <3>2. \A p : v \in Of(p) <=> \/ \E j \in DOMAIN p.nodes : v = p.nodes[j].variable
                                \/ \E j \in DOMAIN p.edges : v = p.edges[j].variable
      OBVIOUS
    <3> HIDE DEF Of
    <3>3. v \in Introduced(c) <=> v # "" /\ \E i \in 1..n : v \in Of(c.patterns[i])
      BY <1>1, <3>1
    <3> QED BY <3>2, <3>3
  <2>2. v \in NodesOf(c, n) <=> \E i \in 1..n : v \in NodeNames(c.patterns[i])
    BY DEF NodesOf
  <2>3. v \in EdgesOf(c, n) <=> \E i \in 1..n : v \in EdgeNames(c.patterns[i])
    BY DEF EdgesOf
  <2>4. \A i : v \in NodeNames(c.patterns[i]) <=> v # "" /\ \E j \in DOMAIN c.patterns[i].nodes : v = c.patterns[i].nodes[j].variable
    BY DEF NodeNames
  <2>5. \A i : v \in EdgeNames(c.patterns[i]) <=> v # "" /\ \E j \in DOMAIN c.patterns[i].edges : v = c.patterns[i].edges[j].variable
    BY DEF EdgeNames
  <2> QED BY <2>1, <2>2, <2>3, <2>4, <2>5, Zenon
<1> QED BY <1>2

\* A row filled with nulls for what an OPTIONAL MATCH did not find.
Filled(row, c) ==
    [v \in Introduced(c) \cup DOMAIN row |-> IF v \in DOMAIN row THEN row[v] ELSE Null]

\* Such a row fits what is known after the clause.
LEMMA FilledFits ==
    ASSUME NEW c, NEW names, NEW others, IsClause(c, names, others), NEW n \in Nat, n = Len(c.patterns),
           NEW b, NEW b2, Grows(b, b2), NEW row, Fits(row, names, others, b)
    PROVE  Fits(Filled(row, c), names \cup NodesOf(c, n), others \cup EdgesOf(c, n), b2)
<1>1. DOMAIN c.patterns = 1..n
  BY SequenceDomain DEF IsClause
<1>2. Introduced(c) = NodesOf(c, n) \cup EdgesOf(c, n)
  BY <1>1, IntroducedNames
<1>3. NodesOf(c, n) \cap others = {}
  <2>1. \A i \in 1..n : NodeNames(c.patterns[i]) \cap others = {}
    BY <1>1 DEF IsClause, IsPattern
  <2> QED BY <2>1 DEF NodesOf
<1> DEFINE new == Filled(row, c)
<1>4. DOMAIN new = Introduced(c) \cup DOMAIN row
  BY DEF Filled
<1>5. \A v \in DOMAIN new : (v \in DOMAIN row => new[v] = row[v]) /\ (v \notin DOMAIN row => new[v] = Null)
  BY <1>4 DEF Filled
<1> HIDE DEF new
<1>6. names \subseteq DOMAIN row /\ DOMAIN row \subseteq names \cup others
      /\ \A v \in names : row[v] = Null \/ \E id \in Bound(b2, v) : row[v] = NodeValue(id)
  BY FitsMore DEF Fits, Grows
<1>7. names \cup NodesOf(c, n) \subseteq DOMAIN new
  BY <1>2, <1>4, <1>6
<1>8. DOMAIN new \subseteq (names \cup NodesOf(c, n)) \cup (others \cup EdgesOf(c, n))
  BY <1>2, <1>4, <1>6
<1>9. ASSUME NEW v \in names \cup NodesOf(c, n)
      PROVE  new[v] = Null \/ \E id \in Bound(b2, v) : new[v] = NodeValue(id)
  <2>1. CASE v \in names
    BY <1>5, <1>6, <1>7, <2>1
  <2>2. CASE v \notin names
    <3>1. v \notin DOMAIN row
      BY <1>3, <1>6, <1>9, <2>2
    <3> QED BY <1>5, <1>7, <1>9, <3>1
  <2> QED BY <2>1, <2>2
<1>10. Fits(new, names \cup NodesOf(c, n), others \cup EdgesOf(c, n), b2)
  BY <1>7, <1>8, <1>9 DEF Fits
<1> QED BY <1>10 DEF new

\* Two sets of matches agree, and their rows fit.
Agree(A, B, names, others, b) == A = B /\ \A x \in B : Fits(x.row, names, others, b)

\* A MATCH clause over one match.
LEMMA SameMatchClause ==
    ASSUME NEW g, IsGraph(g), NoLossyKey(g), NEW loaded, IsPart(g, loaded),
           NEW c, NEW names, NEW others, AreNames(names), IsClause(c, names, others),
           NEW H, NEW o \in Nat, Loads(g, loaded, c, names, H, o),
           NEW m, Fits(m.row, names, others, H[o]),
           NEW n \in Nat, n = Len(c.patterns), NEW b2, b2 = H[o + n]
    PROVE  Agree(MatchClause(GraphOf(g, loaded), Indexed, m, c), MatchClause(g, Scanned, m, c),
                 names \cup NodesOf(c, n), others \cup EdgesOf(c, n), b2)
<1>12. /\ MatchPatterns(GraphOf(g, loaded), Indexed, m, c.patterns) = MatchPatterns(g, Scanned, m, c.patterns)
       /\ \A x \in MatchPatterns(g, Scanned, m, c.patterns) :
             Fits(x.row, names \cup NodesOf(c, n), others \cup EdgesOf(c, n), H[o + n])
  <2>1. n = Len(c.patterns) /\ n \in Nat /\ o \in Nat
    OBVIOUS
  <2> QED BY <2>1, SamePatterns
<1> DEFINE w == GraphOf(g, loaded)
           Kept1(x, indexed) == {y \in MatchPatterns(x, indexed, m, c.patterns) : WhereHolds(x, y.row, c.where)}
           here == Kept1(g, Scanned)
           nulls == [row |-> Filled(m.row, c), trace |-> Append(m.trace, "optional")]
           after == names \cup NodesOf(c, n)
           others2 == others \cup EdgesOf(c, n)
<1>1. /\ MatchPatterns(w, Indexed, m, c.patterns) = MatchPatterns(g, Scanned, m, c.patterns)
      /\ \A x \in MatchPatterns(g, Scanned, m, c.patterns) : Fits(x.row, after, others2, b2)
  BY <1>12
<1>2. \A i \in DOMAIN c.where : c.where[i].variable \in after
  BY DEF IsClause
<1>3. o + n \in Nat /\ o <= o + n
  OBVIOUS
<1>4. Holds(b2, loaded) /\ Grows(H[o], b2)
  BY <1>3 DEF Loads
<1>5. Fits(nulls.row, after, others2, b2)
  <2>1. Fits(Filled(m.row, c), after, others2, b2)
    BY <1>4, FilledFits
  <2> QED BY <2>1
<1>6. /\ MatchClause(w, Indexed, m, c) =
            IF Kept1(w, Indexed) = {} /\ c.optional THEN {nulls} ELSE Kept1(w, Indexed)
      /\ MatchClause(g, Scanned, m, c) = IF here = {} /\ c.optional THEN {nulls} ELSE here
  BY Zenon DEF MatchClause, Filled
<1> HIDE DEF w, nulls, after, others2
<1>7. \A x \in MatchPatterns(g, Scanned, m, c.patterns) : WhereHolds(w, x.row, c.where) <=> WhereHolds(g, x.row, c.where)
  BY <1>1, <1>2, <1>4, SameWhere DEF w
<1>8. Kept1(w, Indexed) = here
  BY <1>1, <1>7
<1>9. \A x \in here : Fits(x.row, after, others2, b2)
  BY <1>1
<1> HIDE DEF Kept1, here
<1>10. MatchClause(w, Indexed, m, c) = MatchClause(g, Scanned, m, c)
  BY <1>6, <1>8
<1>11. \A x \in MatchClause(g, Scanned, m, c) : Fits(x.row, after, others2, b2)
  BY <1>5, <1>6, <1>9
<1> QED BY <1>10, <1>11 DEF Agree, w, after, others2

\* The names in scope after a clause: what a WITH keeps, or what a MATCH adds.
LEMMA NextScope ==
    ASSUME NEW clauses, NEW n \in Nat \ {0},
           clauses[n].kind \in {"match", "with"},
           clauses[n].kind = "with" => clauses[n].patterns = <<>>
    PROVE  /\ clauses[n].kind = "with" =>
                 /\ NodeScope(clauses, n + 1) = NodeScope(clauses, n) \cap clauses[n].keep
                 /\ EdgeScope(clauses, n + 1) = EdgeScope(clauses, n) \cap clauses[n].keep
           /\ clauses[n].kind # "with" =>
                 /\ NodeScope(clauses, n + 1) = NodeScope(clauses, n) \cup NodesOf(clauses[n], Len(clauses[n].patterns))
                 /\ EdgeScope(clauses, n + 1) = EdgeScope(clauses, n) \cup EdgesOf(clauses[n], Len(clauses[n].patterns))
<1> DEFINE N(i) == NodesOf(clauses[i], Len(clauses[i].patterns))
           E(i) == EdgesOf(clauses[i], Len(clauses[i].patterns))
<1>1. n \in Nat /\ (n + 1) - 1 = n /\ 1..n = (1..n - 1) \cup {n} /\ \A i \in 1..n - 1 : i # n
  OBVIOUS
<1>2. \A m : NodeScope(clauses, m) = UNION {{name \in N(i) : Kept(clauses, m, name, i)} : i \in 1..m - 1}
  BY DEF NodeScope
<1>3. \A m : EdgeScope(clauses, m) = UNION {{name \in E(i) : Kept(clauses, m, name, i)} : i \in 1..m - 1}
  BY DEF EdgeScope
<1>4. \A name : \A i \in 1..n - 1 :
          Kept(clauses, n + 1, name, i) <=> Kept(clauses, n, name, i) /\ (clauses[n].kind = "with" => name \in clauses[n].keep)
  <2> TAKE name
  <2> TAKE i \in 1..n - 1
  <2>1. i + 1..(n + 1) - 1 = (i + 1..n - 1) \cup {n}
    BY <1>1
  <2> QED BY <2>1 DEF Kept
<1>5. \A name : Kept(clauses, n + 1, name, n)
  <2>1. n + 1..(n + 1) - 1 = {}
    BY <1>1
  <2> QED BY <2>1 DEF Kept
<1>6. clauses[n].kind = "with" => N(n) = {} /\ E(n) = {}
  BY EmptyLength, SmallIntervals DEF NodesOf, EdgesOf
<1> HIDE DEF N, E
<1>7. ASSUME NEW name
      PROVE  /\ name \in NodeScope(clauses, n) <=> \E i \in 1..n - 1 : name \in N(i) /\ Kept(clauses, n, name, i)
             /\ name \in EdgeScope(clauses, n) <=> \E i \in 1..n - 1 : name \in E(i) /\ Kept(clauses, n, name, i)
             /\ name \in NodeScope(clauses, n + 1) <=> \E i \in 1..n : name \in N(i) /\ Kept(clauses, n + 1, name, i)
             /\ name \in EdgeScope(clauses, n + 1) <=> \E i \in 1..n : name \in E(i) /\ Kept(clauses, n + 1, name, i)
  <2>1. name \in NodeScope(clauses, n) <=> \E i \in 1..n - 1 : name \in N(i) /\ Kept(clauses, n, name, i)
    BY <1>2
  <2>2. name \in EdgeScope(clauses, n) <=> \E i \in 1..n - 1 : name \in E(i) /\ Kept(clauses, n, name, i)
    BY <1>3
  <2>3. NodeScope(clauses, n + 1) = UNION {{x \in N(i) : Kept(clauses, n + 1, x, i)} : i \in 1..n}
    BY <1>1, <1>2
  <2>4. EdgeScope(clauses, n + 1) = UNION {{x \in E(i) : Kept(clauses, n + 1, x, i)} : i \in 1..n}
    BY <1>1, <1>3
  <2>5. name \in NodeScope(clauses, n + 1) <=> \E i \in 1..n : name \in N(i) /\ Kept(clauses, n + 1, name, i)
    BY <2>3
  <2>6. name \in EdgeScope(clauses, n + 1) <=> \E i \in 1..n : name \in E(i) /\ Kept(clauses, n + 1, name, i)
    BY <2>4
  <2> QED BY <2>1, <2>2, <2>5, <2>6
<1>8. ASSUME NEW name
      PROVE  /\ name \in NodeScope(clauses, n + 1) <=>
                   \/ name \in NodeScope(clauses, n) /\ (clauses[n].kind = "with" => name \in clauses[n].keep)
                   \/ name \in N(n)
             /\ name \in EdgeScope(clauses, n + 1) <=>
                   \/ name \in EdgeScope(clauses, n) /\ (clauses[n].kind = "with" => name \in clauses[n].keep)
                   \/ name \in E(n)
  BY <1>1, <1>4, <1>5, <1>7
<1>9. CASE clauses[n].kind = "with"
  <2>1. NodeScope(clauses, n + 1) = NodeScope(clauses, n) \cap clauses[n].keep
    BY <1>6, <1>8, <1>9
  <2>2. EdgeScope(clauses, n + 1) = EdgeScope(clauses, n) \cap clauses[n].keep
    BY <1>6, <1>8, <1>9
  <2> QED BY <1>9, <2>1, <2>2
<1>10. CASE clauses[n].kind # "with"
  <2>1. NodeScope(clauses, n + 1) = NodeScope(clauses, n) \cup N(n)
    BY <1>8, <1>10
  <2>2. EdgeScope(clauses, n + 1) = EdgeScope(clauses, n) \cup E(n)
    BY <1>8, <1>10
  <2> QED BY <1>10, <2>1, <2>2 DEF N, E
<1> QED BY <1>9, <1>10

\* No name in scope is empty.
LEMMA ScopeNames ==
    ASSUME NEW clauses, NEW n
    PROVE  AreNames(NodeScope(clauses, n))
<1>1. \A i : AreNames(NodesOf(clauses[i], Len(clauses[i].patterns)))
  BY NamesNotEmpty
<1> QED BY <1>1 DEF NodeScope, AreNames

\* A projection keeps a row fitting.
LEMMA OnlyFits ==
    ASSUME NEW row, NEW names, NEW others, NEW b, Fits(row, names, others, b), NEW keep
    PROVE  Fits(Only(row, keep \cap DOMAIN row), names \cap keep, others \cap keep, b)
<1> DEFINE new == Only(row, keep \cap DOMAIN row)
<1>1. DOMAIN new = keep \cap DOMAIN row /\ \A v \in keep \cap DOMAIN row : new[v] = row[v]
  BY DEF Only
<1> HIDE DEF new
<1>2. Fits(new, names \cap keep, others \cap keep, b)
  BY <1>1 DEF Fits
<1> QED BY <1>2 DEF new

\* The clauses of a branch, and where the patterns of each begin in the list
\* of all patterns.
AreClauses(clauses) ==
    /\ IsSequence(clauses)
    /\ \A n \in DOMAIN clauses : IsClause(clauses[n], NodeScope(clauses, n), EdgeScope(clauses, n))

Offsets(clauses, off) ==
    /\ off[0] = 0
    /\ \A n \in 1..Len(clauses) : off[n - 1] \in Nat /\ off[n] = off[n - 1] + Len(clauses[n].patterns)

\* The part has what a branch needs.
Sufficient(g, loaded, clauses, off, H) ==
    \A n \in 1..Len(clauses) : Loads(g, loaded, clauses[n], NodeScope(clauses, n), H, off[n - 1])

\* The clauses of a branch: the part gives what the graph gives.
LEMMA SameClauses ==
    ASSUME NEW g, IsGraph(g), NoLossyKey(g), NEW loaded, IsPart(g, loaded),
           NEW clauses, AreClauses(clauses),
           NEW off, Offsets(clauses, off), NEW H, Sufficient(g, loaded, clauses, off, H)
    PROVE  Clauses(GraphOf(g, loaded), Indexed, clauses) = Clauses(g, Scanned, clauses)
<1> DEFINE w == GraphOf(g, loaded)
           n == Len(clauses)
<1>1. n \in Nat /\ DOMAIN clauses = 1..n
  BY SequenceDomain DEF AreClauses
<1>13. n = Len(clauses)
  OBVIOUS
<1> HIDE DEF n
<1>2. PICK f : ClausesBy(g, Scanned, clauses, n, f)
  BY <1>1, <1>13, ClauseLayers
<1>3. PICK h : ClausesBy(w, Indexed, clauses, n, h)
  <2> HIDE DEF w
  <2> QED BY <1>1, <1>13, ClauseLayers
<1> DEFINE Fit(i, x) == Fits(x.row, NodeScope(clauses, i + 1), EdgeScope(clauses, i + 1), H[off[i]])
           Good(i) == f[i] = h[i] /\ \A x \in f[i] : Fit(i, x)
           Bad == {i \in 0..n : ~Good(i)}
<1>4. Good(0)
  <2>1. f[0] = {NoMatch} /\ h[0] = {NoMatch}
    BY <1>2, <1>3 DEF ClausesBy
  <2>2. NodeScope(clauses, 0 + 1) = {} /\ EdgeScope(clauses, 0 + 1) = {}
    <3>1. 1..(0 + 1) - 1 = {}
      OBVIOUS
    <3> QED BY <3>1 DEF NodeScope, EdgeScope
  <2>3. DOMAIN NoMatch.row = {}
    BY DEF NoMatch, Only
  <2>4. Fits(NoMatch.row, {}, {}, H[off[0]])
    BY <2>3 DEF Fits
  <2>5. Fit(0, NoMatch)
    BY <2>2, <2>4
  <2> HIDE DEF Fit
  <2> QED BY <2>1, <2>5
<1>5. ASSUME NEW i \in 1..n, Good(i - 1)
      PROVE  Good(i)
  <2> DEFINE c == clauses[i]
             names == NodeScope(clauses, i)
             others == EdgeScope(clauses, i)
             o == off[i - 1]
             k == Len(c.patterns)
  <2>1. i \in Nat \ {0} /\ i - 1 \in Nat /\ (i - 1) + 1 = i /\ i \in DOMAIN clauses /\ i \in 1..Len(clauses)
    BY <1>1, <1>13
  <2>2. IsClause(c, names, others)
    BY <2>1 DEF AreClauses
  <2>3. Loads(g, loaded, c, names, H, o)
    BY <2>1 DEF Sufficient
  <2>4. o \in Nat /\ off[i] = o + k
    BY <2>1 DEF Offsets
  <2>5. k \in Nat /\ c.kind \in {"match", "with"} /\ (c.kind = "with" => c.patterns = <<>>)
    BY <2>2, SequenceDomain DEF IsClause
  <2>6. AreNames(names)
    BY ScopeNames
  <2>7. \A x \in f[i - 1] : Fits(x.row, names, others, H[o])
    BY <1>5, <2>1
  <2>8. /\ f[i] = UNION {Clause(g, Scanned, x, c) : x \in f[i - 1]}
        /\ h[i] = UNION {Clause(w, Indexed, x, c) : x \in f[i - 1]}
    BY <1>2, <1>3, <1>5 DEF ClausesBy
  <2>9. /\ c.kind = "with" =>
              /\ NodeScope(clauses, i + 1) = names \cap c.keep /\ EdgeScope(clauses, i + 1) = others \cap c.keep
        /\ c.kind # "with" =>
              /\ NodeScope(clauses, i + 1) = names \cup NodesOf(c, k)
              /\ EdgeScope(clauses, i + 1) = others \cup EdgesOf(c, k)
    BY <2>1, <2>5, NextScope
  <2>14. k = Len(c.patterns)
    OBVIOUS
  <2> HIDE DEF c, names, others, o, k, w
  <2>10. ASSUME NEW x \in f[i - 1]
         PROVE  /\ Clause(w, Indexed, x, c) = Clause(g, Scanned, x, c)
                /\ \A y \in Clause(g, Scanned, x, c) :
                      Fits(y.row, NodeScope(clauses, i + 1), EdgeScope(clauses, i + 1), H[off[i]])
    <3>1. CASE c.kind = "with"
      <4> DEFINE y == [row |-> Only(x.row, c.keep \cap DOMAIN x.row), trace |-> x.trace]
      <4>1. Clause(w, Indexed, x, c) = {y} /\ Clause(g, Scanned, x, c) = {y}
        BY <3>1 DEF Clause
      <4>2. Fits(y.row, names \cap c.keep, others \cap c.keep, H[o])
        <5>1. Fits(Only(x.row, c.keep \cap DOMAIN x.row), names \cap c.keep, others \cap c.keep, H[o])
          BY <2>7, <2>10, OnlyFits
        <5> QED BY <5>1
      <4>3. off[i] = o
        BY <2>4, <2>5, <2>14, <3>1, EmptyLength
      <4> HIDE DEF y
      <4> QED BY <2>9, <3>1, <4>1, <4>2, <4>3
    <3>2. CASE c.kind # "with"
      <4>1. Clause(w, Indexed, x, c) = MatchClause(w, Indexed, x, c) /\ Clause(g, Scanned, x, c) = MatchClause(g, Scanned, x, c)
        BY <3>2 DEF Clause
      <4> DEFINE b2 == H[o + k]
      <4>2. Fits(x.row, names, others, H[o]) /\ o \in Nat /\ k \in Nat /\ b2 = H[o + k]
        BY <2>4, <2>5, <2>7, <2>10
      <4>3. b2 = H[off[i]]
        BY <2>4
      <4> HIDE DEF b2
      <4>4. /\ MatchClause(w, Indexed, x, c) = MatchClause(g, Scanned, x, c)
            /\ \A y \in MatchClause(g, Scanned, x, c) : Fits(y.row, names \cup NodesOf(c, k), others \cup EdgesOf(c, k), b2)
        <5>1. PICK from \in Nat : from = o
          BY <4>2
        <5>2. PICK many \in Nat : many = k
          BY <4>2
        <5>3. /\ IsClause(c, names, others) /\ Loads(g, loaded, c, names, H, from) /\ AreNames(names)
              /\ many = Len(c.patterns) /\ b2 = H[from + many] /\ Fits(x.row, names, others, H[from])
          BY <2>2, <2>3, <2>6, <2>14, <4>2, <5>1, <5>2
        <5>4. Agree(MatchClause(GraphOf(g, loaded), Indexed, x, c), MatchClause(g, Scanned, x, c),
                    names \cup NodesOf(c, many), others \cup EdgesOf(c, many), b2)
          BY <5>3, SameMatchClause
        <5> QED BY <5>2, <5>4 DEF Agree, w
      <4> QED BY <2>9, <3>2, <4>1, <4>3, <4>4
    <3> QED BY <3>1, <3>2
  <2>11. f[i] = h[i]
    BY <2>8, <2>10
  <2>12. \A y \in f[i] : Fits(y.row, NodeScope(clauses, i + 1), EdgeScope(clauses, i + 1), H[off[i]])
    BY <2>8, <2>10
  <2> QED BY <2>11, <2>12
<1> HIDE DEF Good
<1>6. Bad = {}
  <2>1. SUFFICES ASSUME Bad # {} PROVE FALSE
    OBVIOUS
  <2>2. Bad \in SUBSET Nat
    BY <1>1
  <2>3. PICK k \in Bad : \A y \in Bad : k <= y
    <3> HIDE DEF Bad
    <3> QED BY <2>1, <2>2, Least
  <2>4. k # 0 => k - 1 \in 0..n /\ k - 1 \notin Bad /\ k \in 1..n
    BY <1>1, <2>3
  <2> QED BY <1>4, <1>5, <2>3, <2>4
<1>7. Good(n)
  BY <1>1, <1>6
<1> QED BY <1>2, <1>3, <1>7 DEF Good, ClausesBy

-----------------------------------------------------------------------------
(* The list of all patterns of a branch.                                   *)

\* Patterns, clause by clause.
PatternsOf(clauses, n, f) ==
    /\ DOMAIN f = 0..n /\ f[0] = <<>>
    /\ \A i \in 1..n : f[i] = f[i - 1] \o clauses[i].patterns
    /\ Patterns(clauses) = f[n]

\* Patterns has such layers.
LEMMA PatternsLayers ==
    ASSUME NEW clauses, NEW n \in Nat, n = Len(clauses)
    PROVE  \E f : PatternsOf(clauses, n, f)
<1> DEFINE s == [by |-> "lists", clauses |-> clauses]
           start == <<>>
           step(i, x) == x \o clauses[i].patterns
           f == CHOOSE h : h = [i \in 0..n |-> IF i = 0 THEN start ELSE step(i, h[i - 1])]
<1>5. Patterns(clauses) = f[n]
  BY Zenon DEF Patterns
<1>8. start = <<>>
  OBVIOUS
<1> HIDE DEF start
<1>1. PICK h : Layers(s, start, n, h)
  BY LayersExist
<1>2. \A i, x : Layer(s, i, x) = step(i, x)
  BY DEF Layer
<1> HIDE DEF s
<1>3. h = [i \in 0..n |-> IF i = 0 THEN start ELSE step(i, h[i - 1])]
  <2> HIDE DEF step
  <2> QED BY <1>1, <1>2 DEF Layers
<1>4. f = [i \in 0..n |-> IF i = 0 THEN start ELSE step(i, f[i - 1])]
  BY <1>3, Zenon
<1> HIDE DEF f
<1>6. DOMAIN f = 0..n /\ f[0] = start /\ \A i \in 1..n : f[i] = step(i, f[i - 1])
  <2> HIDE DEF step
  <2> QED BY <1>4
<1>7. PatternsOf(clauses, n, f)
  BY <1>5, <1>6, <1>8 DEF PatternsOf
<1> QED BY <1>7

\* A sequence of no elements.
LEMMA NoElements ==
    ASSUME NEW S, NEW s \in Seq(S), Len(s) = 0
    PROVE  s = <<>>
OBVIOUS

\* Two lists in a row.
LEMMA Concatenated ==
    ASSUME NEW S, NEW s \in Seq(S), NEW t \in Seq(S)
    PROVE  /\ s \o t \in Seq(S) /\ Len(s \o t) = Len(s) + Len(t)
           /\ \A i \in 1..Len(s) : (s \o t)[i] = s[i]
           /\ \A i \in 1..Len(t) : (s \o t)[Len(s) + i] = t[i]
OBVIOUS

\* The first i clauses: their patterns are in the list, and nothing else.
Listed(clauses, off, list, i) ==
    /\ off[i] \in Nat /\ Len(list) = off[i] /\ DOMAIN list = 1..Len(list) /\ (Len(list) = 0 => list = <<>>)
    /\ \A n \in 1..i : /\ off[n - 1] \in Nat /\ off[n] = off[n - 1] + Len(clauses[n].patterns)
                      /\ off[n] <= off[i]
    /\ \A n \in 1..i : \A j \in 1..Len(clauses[n].patterns) : list[off[n - 1] + j] = clauses[n].patterns[j]
    /\ \A k \in 1..off[i] : \E n \in 1..i : \E j \in 1..Len(clauses[n].patterns) : k = off[n - 1] + j

\* The list of all patterns holds the patterns of clause n after off[n - 1].
LEMMA PatternsListed ==
    ASSUME NEW clauses, AreClauses(clauses), NEW last, last = Len(clauses)
    PROVE  \E off : /\ Offsets(clauses, off)
                    /\ \A i \in 0..last : off[i] \in Nat /\ \A n \in 1..i : off[n] <= off[i]
                    /\ Listed(clauses, off, Patterns(clauses), last)
<1>1. last \in Nat /\ DOMAIN clauses = 1..last
  BY SequenceDomain DEF AreClauses
<1>2. PICK f : PatternsOf(clauses, last, f)
  BY <1>1, PatternsLayers
<1>3. /\ f[0] = <<>> /\ \A i \in 1..last : f[i] = f[i - 1] \o clauses[i].patterns
      /\ Patterns(clauses) = f[last]
  BY <1>2 DEF PatternsOf
<1> DEFINE S == UNION {Range(clauses[i].patterns) : i \in 1..last}
<1>4. \A i \in 1..last : clauses[i].patterns \in Seq(S)
  <2> TAKE i \in 1..last
  <2>1. clauses[i].patterns \in Seq(Range(clauses[i].patterns))
    BY <1>1 DEF AreClauses, IsClause, IsSequence
  <2>2. Range(clauses[i].patterns) \subseteq S
    OBVIOUS
  <2> HIDE DEF S
  <2> QED BY <2>1, <2>2
<1> HIDE DEF S
<1> DEFINE off == [i \in 0..last |-> Len(f[i])]
           Good(i) == f[i] \in Seq(S) /\ Listed(clauses, off, f[i], i)
           Bad == {i \in 0..last : ~Good(i)}
<1>5. \A i \in 0..last : off[i] = Len(f[i])
  OBVIOUS
<1> HIDE DEF off
<1>6. Good(0)
  <2>1. off[0] = 0 /\ f[0] \in Seq(S) /\ Len(f[0]) = 0
    BY <1>1, <1>3, <1>5
  <2>2. 1..off[0] = {} /\ 1..0 = {}
    BY <2>1, SmallIntervals
  <2> QED BY <1>3, <2>1, <2>2 DEF Listed
<1>7. ASSUME NEW i \in 1..last, Good(i - 1)
      PROVE  Good(i)
  <2> DEFINE s == f[i - 1]
             t == clauses[i].patterns
             list == f[i]
             o == off[i - 1]
  <2>1. s \in Seq(S) /\ t \in Seq(S) /\ list = s \o t
    BY <1>3, <1>4, <1>7
  <2>2. i \in Nat /\ i \in 0..last /\ i - 1 \in 0..last /\ i - 1 \in Nat /\ \A n \in 1..i : n \in 1..i - 1 \/ n = i
    BY <1>1
  <2>3. o = Len(s) /\ off[i] = Len(list)
    BY <1>5, <2>2
  <2>4. /\ o \in Nat
        /\ \A n \in 1..i - 1 : /\ off[n - 1] \in Nat /\ off[n] = off[n - 1] + Len(clauses[n].patterns)
                               /\ off[n] <= o
        /\ \A n \in 1..i - 1 : \A j \in 1..Len(clauses[n].patterns) : s[off[n - 1] + j] = clauses[n].patterns[j]
        /\ \A k \in 1..o : \E n \in 1..i - 1 : \E j \in 1..Len(clauses[n].patterns) : k = off[n - 1] + j
    BY <1>7 DEF Listed
  <2>5. t = clauses[i].patterns /\ list = f[i] /\ o = off[i - 1]
    OBVIOUS
  <2>6. \A n \in 1..i - 1 : n \in 1..last /\ Len(clauses[n].patterns) \in Nat
    <3>1. \A n \in 1..i - 1 : n \in 1..last
      BY <1>1, <2>2
    <3>2. \A n \in 1..last : clauses[n].patterns \in Seq(S)
      BY <1>4
    <3>3. \A x \in Seq(S) : Len(x) \in Nat
      OBVIOUS
    <3> QED BY <3>1, <3>2, <3>3
  <2> HIDE DEF s, t, list, o, Good, Bad
  <2>7. /\ list \in Seq(S) /\ Len(list) = Len(s) + Len(t) /\ Len(t) \in Nat
        /\ \A k \in 1..Len(s) : list[k] = s[k]
        /\ \A k \in 1..Len(t) : list[Len(s) + k] = t[k]
    BY <2>1, Concatenated
  <2>8. off[i] \in Nat /\ off[i] = o + Len(t) /\ o <= off[i] /\ Len(list) = off[i]
    BY <2>3, <2>4, <2>7
  <2>9. \A n \in 1..i : /\ off[n - 1] \in Nat /\ off[n] = off[n - 1] + Len(clauses[n].patterns)
                        /\ off[n] <= off[i]
    <3> TAKE n \in 1..i
    <3>1. CASE n = i
      BY <2>4, <2>5, <2>8, <3>1
    <3>2. CASE n \in 1..i - 1
      <4>1. off[n - 1] \in Nat /\ off[n] = off[n - 1] + Len(clauses[n].patterns) /\ off[n] <= o /\ Len(clauses[n].patterns) \in Nat
        BY <2>4, <2>6, <3>2
      <4> QED BY <2>4, <2>8, <4>1
    <3> QED BY <2>2, <3>1, <3>2
  <2>10. \A n \in 1..i : \A j \in 1..Len(clauses[n].patterns) : list[off[n - 1] + j] = clauses[n].patterns[j]
    <3> TAKE n \in 1..i
    <3>1. CASE n = i
      BY <2>3, <2>5, <2>7, <3>1
    <3>2. CASE n \in 1..i - 1
      <4> TAKE j \in 1..Len(clauses[n].patterns)
      <4>1. off[n - 1] \in Nat /\ off[n] = off[n - 1] + Len(clauses[n].patterns) /\ off[n] <= o /\ Len(clauses[n].patterns) \in Nat
        BY <2>4, <2>6, <3>2
      <4>2. off[n - 1] + j \in 1..o
        <5>1. PICK x, y, z : x = off[n - 1] /\ y = off[n] /\ z = Len(clauses[n].patterns)
          OBVIOUS
        <5>2. o \in Nat /\ x \in Nat /\ z \in Nat /\ y = x + z /\ y <= o /\ j \in 1..z
          BY <2>4, <4>1, <5>1
        <5>3. x + j \in 1..o
          BY <5>2
        <5> QED BY <5>1, <5>3
      <4>3. list[off[n - 1] + j] = s[off[n - 1] + j]
        BY <2>3, <2>7, <4>2
      <4> QED BY <2>4, <3>2, <4>3
    <3> QED BY <2>2, <3>1, <3>2
  <2>11. \A k \in 1..off[i] : \E n \in 1..i : \E j \in 1..Len(clauses[n].patterns) : k = off[n - 1] + j
    <3> TAKE k \in 1..off[i]
    <3>1. CASE k \in 1..o
      <4>1. PICK n \in 1..i - 1 : \E j \in 1..Len(clauses[n].patterns) : k = off[n - 1] + j
        BY <2>4, <3>1
      <4>2. n \in 1..i
        BY <2>2
      <4> QED BY <4>1, <4>2
    <3>2. CASE k \notin 1..o
      <4>1. k - o \in 1..Len(t) /\ k = o + (k - o) /\ i \in 1..i
        BY <2>2, <2>4, <2>7, <2>8, <3>2
      <4> QED BY <2>5, <4>1
    <3> QED BY <3>1, <3>2
  <2>12. Listed(clauses, off, list, i)
    <3>1. Len(list) = 0 => list = <<>>
      BY <2>7, NoElements
    <3>2. DOMAIN list = 1..Len(list)
      BY <2>7
    <3> QED BY <2>8, <2>9, <2>10, <2>11, <3>1, <3>2 DEF Listed
  <2> QED BY <2>5, <2>7, <2>12 DEF Good
<1> HIDE DEF Good
<1>8. Bad = {}
  <2>1. SUFFICES ASSUME Bad # {} PROVE FALSE
    OBVIOUS
  <2>2. Bad \in SUBSET Nat
    BY <1>1
  <2>3. PICK k \in Bad : \A y \in Bad : k <= y
    <3> HIDE DEF Bad
    <3> QED BY <2>1, <2>2, Least
  <2>4. k # 0 => k - 1 \in 0..last /\ k - 1 \notin Bad /\ k \in 1..last
    BY <1>1, <2>3
  <2> QED BY <1>6, <1>7, <2>3, <2>4
<1>9. \A i \in 0..last : Listed(clauses, off, f[i], i)
  BY <1>8 DEF Good
<1>10. \A i \in 0..last : off[i] \in Nat /\ \A n \in 1..i : off[n] <= off[i]
  BY <1>9 DEF Listed
<1>11. Listed(clauses, off, Patterns(clauses), last)
  BY <1>1, <1>3, <1>9
<1>12. off[0] = 0
  BY <1>1, <1>3, <1>5, EmptyLength
<1>13. Offsets(clauses, off)
  BY <1>11, <1>12 DEF Listed, Offsets
<1> QED BY <1>10, <1>11, <1>13

-----------------------------------------------------------------------------
(* What is enough for a query.                                             *)

Enough(g, loaded, clauses) == \E off, H : Offsets(clauses, off) /\ Sufficient(g, loaded, clauses, off, H)

\* The rows of a query: the part gives what the graph gives.
LEMMA SameRows ==
    ASSUME NEW g, IsGraph(g), NoLossyKey(g), NEW loaded, IsPart(g, loaded), NEW q, IsQuery(q),
           \A b \in DOMAIN q.branches : Enough(g, loaded, q.branches[b])
    PROVE  Rows(GraphOf(g, loaded), TRUE, q) = Rows(g, FALSE, q)
<1> DEFINE w == GraphOf(g, loaded)
<1>1. \A b \in DOMAIN q.branches : Clauses(w, Indexed, q.branches[b]) = Clauses(g, Scanned, q.branches[b])
  <2> TAKE b \in DOMAIN q.branches
  <2>1. AreClauses(q.branches[b])
    BY DEF IsQuery, AreClauses
  <2>2. PICK off, H : Offsets(q.branches[b], off) /\ Sufficient(g, loaded, q.branches[b], off, H)
    BY DEF Enough
  <2> QED BY <2>1, <2>2, SameClauses
<1>2. /\ Rows(w, Indexed, q) = UNION {{<<b, m>> : m \in Clauses(w, Indexed, q.branches[b])} : b \in DOMAIN q.branches}
      /\ Rows(g, Scanned, q) = UNION {{<<b, m>> : m \in Clauses(g, Scanned, q.branches[b])} : b \in DOMAIN q.branches}
  BY DEF Rows
<1>3. \A b \in DOMAIN q.branches :
          {<<b, m>> : m \in Clauses(w, Indexed, q.branches[b])} = {<<b, m>> : m \in Clauses(g, Scanned, q.branches[b])}
  BY <1>1
<1> HIDE DEF w
<1>4. Rows(w, Indexed, q) = Rows(g, Scanned, q)
  BY <1>2, <1>3
<1> QED BY <1>4, Zenon DEF w, Indexed, Scanned

\* More names only excuse more.
LEMMA MoreNames ==
    ASSUME NEW g, NEW loaded, NEW p, NEW names, NEW b, NEW b2, CoversPattern(g, loaded, p, names, b, b2),
           NEW more, names \subseteq more
    PROVE  CoversPattern(g, loaded, p, more, b, b2)
<1>1. PICK T \in [Nat -> SUBSET loaded.nodes] : Expanded(g, loaded, p, names, b, b2, T)
  BY DEF CoversPattern
<1>2. Expanded(g, loaded, p, more, b, b2, T)
  BY <1>1 DEF Expanded
<1> QED BY <1>1, <1>2 DEF CoversPattern

\* The names of the patterns before the k-th.
KnownBefore(all, k) == UNION {NodeNames(all[i]) : i \in 1..k - 1}

\* The iterator is taken only when these names are still in scope: there is no
\* WITH between two MATCH clauses.
LEMMA KnownInScope ==
    ASSUME NEW clauses, AreClauses(clauses), ~iteratorFallback(clauses), NEW last, last = Len(clauses),
           NEW off, Offsets(clauses, off),
           \A i \in 0..last : off[i] \in Nat /\ \A n \in 1..i : off[n] <= off[i],
           NEW all, Listed(clauses, off, all, last),
           NEW n \in 1..last, NEW j \in 1..Len(clauses[n].patterns)
    PROVE  KnownBefore(all, off[n - 1] + j) \subseteq NodeScope(clauses, n) \cup NodesOf(clauses[n], j - 1)
<1>1. last \in Nat /\ DOMAIN clauses = 1..last
  BY SequenceDomain DEF AreClauses
<1>2. \A i \in 1..last : Len(clauses[i].patterns) \in Nat /\ clauses[i].kind \in {"match", "with"}
                         /\ (clauses[i].kind = "with" => clauses[i].patterns = <<>>)
  <2> TAKE i \in 1..last
  <2>1. IsClause(clauses[i], NodeScope(clauses, i), EdgeScope(clauses, i))
    BY <1>1 DEF AreClauses
  <2>2. IsSequence(clauses[i].patterns)
    BY <2>1 DEF IsClause
  <2>3. Len(clauses[i].patterns) \in Nat
    BY <2>2, SequenceDomain
  <2> QED BY <2>1, <2>3 DEF IsClause
<1>3. \A i \in 1..last : \A k \in 1..Len(clauses[i].patterns) : clauses[i].kind = "match"
  <2> TAKE i \in 1..last
  <2> TAKE k \in 1..Len(clauses[i].patterns)
  <2>1. Len(clauses[i].patterns) # 0
    BY <1>2
  <2>2. clauses[i].patterns # <<>>
    BY <2>1, NotEmpty
  <2> QED BY <1>2, <2>2
<1>4. \A i \in 1..last : off[i - 1] \in Nat /\ off[i] = off[i - 1] + Len(clauses[i].patterns)
  BY DEF Offsets
<1> DEFINE at == off[n - 1] + j
<1>5. at \in Nat /\ at <= off[n] /\ at <= off[last] /\ j \in Nat
  <2>1. off[n - 1] \in Nat /\ off[n] = off[n - 1] + Len(clauses[n].patterns) /\ Len(clauses[n].patterns) \in Nat
    BY <1>2, <1>4
  <2>2. off[n] <= off[last] /\ off[last] \in Nat
    BY <1>1
  <2> QED BY <2>1, <2>2
<1>6. SUFFICES ASSUME NEW k \in 1..at - 1, NEW name \in NodeNames(all[k])
               PROVE  name \in NodeScope(clauses, n) \cup NodesOf(clauses[n], j - 1)
  BY DEF KnownBefore
<1>7. k \in 1..off[last] /\ k < at /\ k \in Nat
  BY <1>1, <1>5
<1>8. PICK m \in 1..last : \E i \in 1..Len(clauses[m].patterns) : k = off[m - 1] + i
  BY <1>7 DEF Listed
<1>9. PICK i \in 1..Len(clauses[m].patterns) : k = off[m - 1] + i
  BY <1>8
<1>10. all[k] = clauses[m].patterns[i]
  BY <1>9 DEF Listed
<1>11. off[m - 1] \in Nat /\ i \in Nat /\ Len(clauses[m].patterns) \in Nat /\ m \in Nat /\ n \in Nat
  BY <1>1, <1>2, <1>4
<1>12. m <= n
  <2>1. SUFFICES ASSUME n < m PROVE FALSE
    BY <1>11
  <2>2. m - 1 \in 0..last /\ n \in 1..m - 1 /\ n \in 0..last
    BY <1>1, <1>11, <2>1
  <2>3. off[n] <= off[m - 1] /\ off[n] \in Nat
    BY <2>2
  <2>4. PICK x, y, z : x = off[n] /\ y = off[m - 1] /\ z = at
    OBVIOUS
  <2>5. x \in Nat /\ y \in Nat /\ z \in Nat /\ i \in Nat /\ k \in Nat
    BY <1>5, <1>7, <1>11, <2>3, <2>4
  <2>6. z <= x /\ x <= y
    BY <1>5, <2>3, <2>4
  <2>7. k < z
    BY <1>7, <2>4
  <2>8. k = y + i
    BY <1>9, <2>4
  <2> HIDE DEF at
  <2> QED BY <2>5, <2>6, <2>7, <2>8
<1>13. CASE m = n
  <2>1. i \in 1..j - 1
    BY <1>5, <1>7, <1>9, <1>11, <1>13
  <2> QED BY <1>6, <1>10, <1>13, <2>1 DEF NodesOf
<1>14. CASE m # n
  <2>1. m < n /\ m \in 1..n - 1
    BY <1>11, <1>12, <1>14
  <2>2. name \in NodesOf(clauses[m], Len(clauses[m].patterns))
    BY <1>6, <1>9, <1>10 DEF NodesOf
  <2>3. clauses[m].kind = "match" /\ clauses[n].kind = "match"
    BY <1>3, <1>9
  <2>4. Kept(clauses, n, name, m)
    <3>1. \A x \in m + 1..n - 1 : x \in DOMAIN clauses /\ m < x /\ x < n
      BY <1>1, <1>11
    <3>2. m \in DOMAIN clauses /\ n \in DOMAIN clauses
      BY <1>1
    <3> QED BY <2>3, <3>1, <3>2 DEF Kept, iteratorFallback
  <2>5. name \in NodeScope(clauses, n)
    BY <2>1, <2>2, <2>4 DEF NodeScope
  <2> QED BY <2>5
<1> QED BY <1>13, <1>14

\* What the iterator knows pattern by pattern.
Recorded(g, loaded, all, k, H) ==
    /\ \A i \in Nat : Holds(H[i], loaded)
    /\ \A i, j \in Nat : i <= j => Grows(H[i], H[j])
    /\ \A i \in 1..k : CoversPattern(g, loaded, all[i], KnownBefore(all, i), H[i - 1], H[i])

\* When all patterns of a branch are covered, it has what it needs.
LEMMA RecordedEnough ==
    ASSUME NEW g, NEW loaded, NEW clauses, AreClauses(clauses), ~iteratorFallback(clauses),
           NEW all, all = Patterns(clauses), NEW H, Recorded(g, loaded, all, Len(all), H)
    PROVE  Enough(g, loaded, clauses)
<1> DEFINE last == Len(clauses)
<1>1. last \in Nat /\ last = Len(clauses)
  BY SequenceDomain DEF AreClauses
<1> HIDE DEF last
<1>2. PICK off : /\ Offsets(clauses, off)
                 /\ \A i \in 0..last : off[i] \in Nat /\ \A n \in 1..i : off[n] <= off[i]
                 /\ Listed(clauses, off, all, last)
  BY <1>1, PatternsListed
<1>3. ASSUME NEW n \in 1..last
      PROVE  Loads(g, loaded, clauses[n], NodeScope(clauses, n), H, off[n - 1])
  <2>1. \A i \in Nat : Holds(H[i], loaded)
    BY DEF Recorded
  <2>2. \A i, j \in Nat : i <= j => Grows(H[i], H[j])
    BY DEF Recorded
  <2>3. ASSUME NEW j \in 1..Len(clauses[n].patterns)
        PROVE  CoversPattern(g, loaded, clauses[n].patterns[j], NodeScope(clauses, n) \cup NodesOf(clauses[n], j - 1),
                             H[off[n - 1] + (j - 1)], H[off[n - 1] + j])
    <3> DEFINE at == off[n - 1] + j
    <3>1. off[n - 1] \in Nat /\ off[n] = off[n - 1] + Len(clauses[n].patterns) /\ off[n] <= off[last] /\ off[last] \in Nat
      BY <1>1, <1>2, <1>3 DEF Offsets
    <3>2. IsSequence(clauses[n].patterns)
      BY <1>1, <1>3, SequenceDomain DEF AreClauses, IsClause
    <3>3. Len(clauses[n].patterns) \in Nat
      BY <3>2, SequenceDomain
    <3>4. at \in 1..Len(all) /\ at - 1 = off[n - 1] + (j - 1)
      <4>1. Len(all) = off[last]
        BY <1>2 DEF Listed
      <4>2. PICK x, y, w, t : x = off[n - 1] /\ y = off[n] /\ w = Len(clauses[n].patterns) /\ t = off[last]
        OBVIOUS
      <4>3. x \in Nat /\ t \in Nat /\ w \in Nat /\ y = x + w /\ y <= t
        BY <3>1, <3>3, <4>2
      <4>4. j \in 1..w
        BY <4>2
      <4>5. x + j \in 1..t /\ (x + j) - 1 = x + (j - 1)
        BY <4>3, <4>4
      <4> QED BY <4>1, <4>2, <4>5
    <3>5. all[at] = clauses[n].patterns[j]
      BY <1>2, <1>3, <2>3 DEF Listed
    <3>6. KnownBefore(all, at) \subseteq NodeScope(clauses, n) \cup NodesOf(clauses[n], j - 1)
      BY <1>1, <1>2, <1>3, <2>3, KnownInScope
    <3>7. CoversPattern(g, loaded, all[at], KnownBefore(all, at), H[at - 1], H[at])
      BY <3>4 DEF Recorded
    <3> HIDE DEF at
    <3>8. CoversPattern(g, loaded, all[at], NodeScope(clauses, n) \cup NodesOf(clauses[n], j - 1), H[at - 1], H[at])
      BY <3>6, <3>7, MoreNames
    <3> QED BY <3>4, <3>5, <3>8 DEF at
  <2> QED BY <2>1, <2>2, <2>3 DEF Loads
<1>4. Sufficient(g, loaded, clauses, off, H)
  BY <1>1, <1>3 DEF Sufficient
<1> QED BY <1>2, <1>4 DEF Enough

\* A pattern for which everything that is loaded counts as reached.
CoveredByAll(g, loaded, p) ==
    /\ \A id \in DOMAIN g.nodes : NodeAdmitted(g.nodes[id], p.nodes[1]) => id \in loaded.nodes
    /\ \A i \in 1..Len(p.edges) :
          /\ SameLength(g, loaded, p.edges[i].length)
          /\ Covers(g, loaded, p.edges[i], p.nodes[i + 1], loaded.nodes, loaded.nodes)

\* When all patterns are like that, nothing needs to be known of the variables
\* but that they are loaded.
LEMMA CoveredEnough ==
    ASSUME NEW g, NEW loaded, NEW clauses, AreClauses(clauses),
           \A n \in DOMAIN clauses : \A j \in DOMAIN clauses[n].patterns : CoveredByAll(g, loaded, clauses[n].patterns[j])
    PROVE  Enough(g, loaded, clauses)
<1> DEFINE last == Len(clauses)
           V == UNION {NodesOf(clauses[n], Len(clauses[n].patterns)) : n \in 1..last}
           b == [v \in V |-> loaded.nodes]
           H == [i \in Nat |-> b]
           T == [i \in Nat |-> loaded.nodes]
<1>1. last \in Nat /\ last = Len(clauses) /\ DOMAIN clauses = 1..last
  BY SequenceDomain DEF AreClauses
<1>2. (\A v \in V : Bound(b, v) = loaded.nodes) /\ Holds(b, loaded) /\ Grows(b, b)
  BY DEF Bound, Holds, Grows
<1>3. \A i \in Nat : H[i] = b /\ T[i] = loaded.nodes
  OBVIOUS
<1>4. T \in [Nat -> SUBSET loaded.nodes]
  OBVIOUS
<1>5. PICK off : /\ Offsets(clauses, off)
                 /\ \A i \in 0..last : off[i] \in Nat /\ \A n \in 1..i : off[n] <= off[i]
                 /\ Listed(clauses, off, Patterns(clauses), last)
  <2> HIDE DEF last
  <2> QED BY <1>1, PatternsListed
<1>9. \A n \in 1..last : NodesOf(clauses[n], Len(clauses[n].patterns)) \subseteq V
  OBVIOUS
<1> HIDE DEF last, b, H, T, V
<1>6. ASSUME NEW n \in 1..last
      PROVE  Loads(g, loaded, clauses[n], NodeScope(clauses, n), H, off[n - 1])
  <2> DEFINE c == clauses[n]
             o == off[n - 1]
  <2>1. IsClause(c, NodeScope(clauses, n), EdgeScope(clauses, n))
    BY <1>1, <1>6 DEF AreClauses
  <2>2. Len(c.patterns) \in Nat /\ DOMAIN c.patterns = 1..Len(c.patterns)
    BY <2>1, SequenceDomain DEF IsClause
  <2>3. o \in Nat
    BY <1>1, <1>5, <1>6 DEF Offsets
  <2>6. NodesOf(c, Len(c.patterns)) \subseteq V
    BY <1>6, <1>9
  <2>7. \A j \in DOMAIN c.patterns : CoveredByAll(g, loaded, c.patterns[j])
    BY <1>1, <1>6
  <2> HIDE DEF c, o
  <2>4. ASSUME NEW j \in 1..Len(c.patterns), NEW names
        PROVE  CoversPattern(g, loaded, c.patterns[j], names, H[o + (j - 1)], H[o + j])
    <3> DEFINE p == c.patterns[j]
    <3>1. CoveredByAll(g, loaded, p)
      BY <2>2, <2>4, <2>7
    <3>2. IsPattern(p, NodeScope(clauses, n) \cup NodesOf(c, j - 1), EdgeScope(clauses, n) \cup EdgesOf(c, j - 1))
      BY <2>1, <2>2, <2>4 DEF IsClause
    <3>3. Len(p.edges) \in Nat /\ Len(p.nodes) = Len(p.edges) + 1 /\ DOMAIN p.nodes = 1..Len(p.edges) + 1
      BY <3>2, PatternShape
    <3>4. NodeNames(p) \subseteq V
      BY <2>4, <2>6 DEF NodesOf
    <3>5. \A i \in 1..Len(p.nodes) : p.nodes[i].variable # "" => loaded.nodes \subseteq Bound(b, p.nodes[i].variable)
      <4>1. \A i \in 1..Len(p.nodes) : p.nodes[i].variable # "" => p.nodes[i].variable \in NodeNames(p)
        BY <3>3 DEF NodeNames
      <4> QED BY <1>2, <3>4, <4>1
    <3>6. \A i \in 1..Len(p.edges) : T[i - 1] = loaded.nodes /\ T[i] = loaded.nodes
      BY <1>3, <3>3
    <3>7. \A i \in 1..Len(p.nodes) : T[i - 1] = loaded.nodes
      BY <1>3, <3>3
    <3>8. T[0] = loaded.nodes
      BY <1>3
    <3>9. o + (j - 1) \in Nat /\ o + j \in Nat
      BY <2>2, <2>3
    <3> HIDE DEF p
    <3>10. Expanded(g, loaded, p, names, b, b, T)
      BY <3>1, <3>5, <3>6, <3>7, <3>8 DEF Expanded, CoveredByAll
    <3>11. CoversPattern(g, loaded, p, names, b, b)
      BY <1>2, <1>4, <3>10 DEF CoversPattern
    <3> QED BY <1>3, <3>9, <3>11 DEF p
  <2>5. /\ \A k \in Nat : Holds(H[k], loaded)
        /\ \A j, k \in Nat : j <= k => Grows(H[j], H[k])
    BY <1>2, <1>3
  <2>8. Loads(g, loaded, c, NodeScope(clauses, n), H, o)
    BY <2>4, <2>5 DEF Loads
  <2> QED BY <2>8 DEF c, o
<1>7. Sufficient(g, loaded, clauses, off, H)
  BY <1>1, <1>6 DEF Sufficient
<1> QED BY <1>5, <1>7 DEF Enough

\* The complete snapshot covers every pattern.
LEMMA SnapshotCovers ==
    ASSUME NEW g, IsGraph(g), NEW loaded, loaded.nodes = DOMAIN g.nodes, loaded.edges = DOMAIN g.edges, NEW p
    PROVE  CoveredByAll(g, loaded, p)
<1> DEFINE L == [d \in Nat |-> loaded.nodes]
<1>1. L \in [Nat -> SUBSET loaded.nodes] /\ \A d \in Nat : L[d] = loaded.nodes /\ L[d + 1] = loaded.nodes
  OBVIOUS
<1>2. \A pattern : LevelStep(g, loaded, pattern, loaded.nodes, loaded.nodes)
  BY DEF LevelStep, IsGraph
<1> HIDE DEF L
<1>3. \A pattern, target : Covers(g, loaded, pattern, target, loaded.nodes, loaded.nodes)
  <2> TAKE pattern, target
  <2>1. loaded.nodes \subseteq L[0]
    BY <1>1
  <2>2. \A d \in Nat : LevelStep(g, loaded, pattern, L[d], L[d + 1])
    BY <1>1, <1>2
  <2>3. \A d \in Nat : \A y \in L[d] : y \in loaded.nodes
    BY <1>1
  <2> QED BY <1>1, <2>1, <2>2, <2>3 DEF Covers
<1> QED BY <1>3 DEF CoveredByAll, SameLength

\* Every pattern of a clause is in the list of all patterns.
LEMMA InList ==
    ASSUME NEW clauses, AreClauses(clauses), NEW n \in DOMAIN clauses, NEW j \in DOMAIN clauses[n].patterns
    PROVE  clauses[n].patterns[j] \in Range(Patterns(clauses))
<1> DEFINE last == Len(clauses)
<1>1. last \in Nat /\ last = Len(clauses) /\ DOMAIN clauses = 1..last
  BY SequenceDomain DEF AreClauses
<1> HIDE DEF last
<1>2. PICK off : /\ Offsets(clauses, off)
                 /\ \A i \in 0..last : off[i] \in Nat /\ \A m \in 1..i : off[m] <= off[i]
                 /\ Listed(clauses, off, Patterns(clauses), last)
  BY <1>1, PatternsListed
<1>3. Len(clauses[n].patterns) \in Nat /\ DOMAIN clauses[n].patterns = 1..Len(clauses[n].patterns)
  <2>1. IsSequence(clauses[n].patterns)
    BY DEF AreClauses, IsClause
  <2> QED BY <2>1, SequenceDomain
<1>4. Patterns(clauses)[off[n - 1] + j] = clauses[n].patterns[j]
  BY <1>1, <1>2, <1>3 DEF Listed
<1>5. off[n - 1] \in Nat /\ off[n] = off[n - 1] + Len(clauses[n].patterns) /\ off[n] <= off[last] /\ off[last] \in Nat
  BY <1>1, <1>2 DEF Offsets
<1>6. off[n - 1] + j \in 1..Len(Patterns(clauses))
  <2>1. Len(Patterns(clauses)) = off[last]
    BY <1>2 DEF Listed
  <2> QED BY <1>3, <1>5, <2>1
<1>7. DOMAIN Patterns(clauses) = 1..Len(Patterns(clauses))
  BY <1>2 DEF Listed
<1> QED BY <1>4, <1>6, <1>7 DEF Range

-----------------------------------------------------------------------------
(* The iterator: what it has loaded stays loaded, level by level.          *)

\* More is loaded.
More(loaded, more) == loaded.nodes \subseteq more.nodes /\ loaded.edges \subseteq more.edges

\* A level stays loaded.
LEMMA LevelStepMore ==
    ASSUME NEW g, NEW loaded, NEW more, More(loaded, more),
           NEW pattern, NEW C, NEW D, LevelStep(g, loaded, pattern, C, D)
    PROVE  LevelStep(g, more, pattern, C, D)
BY DEF LevelStep, More

\* An expansion stays loaded.
LEMMA CoversMore ==
    ASSUME NEW g, NEW loaded, NEW more, More(loaded, more),
           NEW pattern, NEW target, NEW X, NEW Y, Covers(g, loaded, pattern, target, X, Y)
    PROVE  Covers(g, more, pattern, target, X, Y)
<1>1. PICK L \in [Nat -> SUBSET loaded.nodes] :
        /\ X \subseteq L[0]
        /\ \A d \in Nat : d < upper(pattern.length, Cardinality(DOMAIN g.edges)) =>
              LevelStep(g, loaded, pattern, L[d], L[d + 1])
        /\ \A d \in Nat :
              lower(pattern.length) <= d /\ d <= upper(pattern.length, Cardinality(DOMAIN g.edges)) =>
                  \A y \in L[d] : NodeAdmitted(g.nodes[y], target) => y \in Y
  BY DEF Covers
<1>2. L \in [Nat -> SUBSET more.nodes]
  BY DEF More
<1>3. \A d \in Nat : d < upper(pattern.length, Cardinality(DOMAIN g.edges)) =>
              LevelStep(g, more, pattern, L[d], L[d + 1])
  BY <1>1, LevelStepMore
<1> QED BY <1>1, <1>2, <1>3 DEF Covers

\* A pattern stays covered.
LEMMA CoversPatternMore ==
    ASSUME NEW g, NEW loaded, NEW more, More(loaded, more), more.edges \subseteq DOMAIN g.edges,
           NEW p, NEW names, NEW b, NEW b2, CoversPattern(g, loaded, p, names, b, b2)
    PROVE  CoversPattern(g, more, p, names, b, b2)
<1>1. PICK T \in [Nat -> SUBSET loaded.nodes] : Expanded(g, loaded, p, names, b, b2, T)
  BY DEF CoversPattern
<1>2. T \in [Nat -> SUBSET more.nodes]
  BY DEF More
<1>3. \A i \in 1..Len(p.edges) :
          /\ SameLength(g, more, p.edges[i].length)
          /\ Covers(g, more, p.edges[i], p.nodes[i + 1], T[i - 1], T[i])
  <2> TAKE i \in 1..Len(p.edges)
  <2>1. SameLength(g, loaded, p.edges[i].length) /\ Covers(g, loaded, p.edges[i], p.nodes[i + 1], T[i - 1], T[i])
    BY <1>1 DEF Expanded
  <2>2. SameLength(g, more, p.edges[i].length)
    BY <2>1 DEF SameLength, More
  <2> QED BY <2>1, <2>2, CoversMore
<1>4. Expanded(g, more, p, names, b, b2, T)
  BY <1>1, <1>3 DEF Expanded
<1> QED BY <1>2, <1>4 DEF CoversPattern

\* So does everything that was recorded.
LEMMA RecordedMore ==
    ASSUME NEW g, NEW loaded, NEW more, More(loaded, more), more.edges \subseteq DOMAIN g.edges,
           NEW all, NEW k, NEW H, Recorded(g, loaded, all, k, H)
    PROVE  Recorded(g, more, all, k, H)
<1>1. \A i \in Nat : Holds(H[i], more)
  BY DEF Recorded, Holds, More
<1>2. \A i \in 1..k : CoversPattern(g, more, all[i], KnownBefore(all, i), H[i - 1], H[i])
  BY CoversPatternMore DEF Recorded
<1> QED BY <1>1, <1>2 DEF Recorded

\* The first n nodes of a pattern were reached: Expanded, as far as it goes.
Partial(g, loaded, p, names, b, b2, n, T) ==
    /\ T \in [Nat -> SUBSET loaded.nodes]
    /\ \A id \in DOMAIN g.nodes : NodeAdmitted(g.nodes[id], p.nodes[1]) =>
          \/ id \in T[0]
          \/ p.nodes[1].variable \in names /\ id \notin Bound(b, p.nodes[1].variable)
    /\ \A i \in 1..n - 1 : Covers(g, loaded, p.edges[i], p.nodes[i + 1], T[i - 1], T[i])
    /\ \A i \in 1..n : p.nodes[i].variable # "" => T[i - 1] \subseteq Bound(b2, p.nodes[i].variable)

\* It stays so when more is loaded and more is known.
LEMMA PartialMore ==
    ASSUME NEW g, NEW loaded, NEW more, More(loaded, more), NEW p, NEW names,
           NEW b, NEW b2, NEW n, NEW T, Partial(g, loaded, p, names, b, b2, n, T)
    PROVE  Partial(g, more, p, names, b, b2, n, T)
<1>1. T \in [Nat -> SUBSET more.nodes]
  BY DEF Partial, More
<1>2. \A i \in 1..n - 1 : Covers(g, more, p.edges[i], p.nodes[i + 1], T[i - 1], T[i])
  <2> TAKE i \in 1..n - 1
  <2>1. Covers(g, loaded, p.edges[i], p.nodes[i + 1], T[i - 1], T[i])
    BY DEF Partial
  <2>2. PICK e, target, Y, Z : e = p.edges[i] /\ target = p.nodes[i + 1] /\ Y = T[i - 1] /\ Z = T[i]
    OBVIOUS
  <2>3. Covers(g, loaded, e, target, Y, Z)
    BY <2>1, <2>2
  <2>4. Covers(g, more, e, target, Y, Z)
    BY <2>3, CoversMore
  <2> QED BY <2>2, <2>4
<1> QED BY <1>1, <1>2 DEF Partial

\* From nothing, nothing is missed.
LEMMA CoversNothing ==
    ASSUME NEW g, NEW loaded, NEW pattern, NEW target, NEW Y
    PROVE  Covers(g, loaded, pattern, target, {}, Y)
<1> DEFINE L == [d \in Nat |-> {}]
<1>1. L \in [Nat -> SUBSET loaded.nodes] /\ \A d \in Nat : L[d] = {} /\ L[d + 1] = {}
  OBVIOUS
<1> HIDE DEF L
<1>2. LevelStep(g, loaded, pattern, {}, {})
  BY DEF LevelStep
<1>3. {} \subseteq L[0]
  OBVIOUS
<1>4. \A d \in Nat : LevelStep(g, loaded, pattern, L[d], L[d + 1])
  BY <1>1, <1>2
<1>5. \A d \in Nat : \A y \in L[d] : y \in Y
  BY <1>1
<1> QED BY <1>1, <1>3, <1>4, <1>5 DEF Covers

\* At its last node, or where nothing was reached, a pattern is covered.
LEMMA PatternEnds ==
    ASSUME NEW g, NEW loaded, NEW p, NEW names, NEW b, NEW b2, Grows(b, b2),
           NEW m \in Nat, Len(p.edges) = m, Len(p.nodes) = m + 1,
           \A i \in 1..m : SameLength(g, loaded, p.edges[i].length),
           NEW n \in 1..m + 1, NEW T, Partial(g, loaded, p, names, b, b2, n, T),
           n = m + 1 \/ T[n - 1] = {}
    PROVE  CoversPattern(g, loaded, p, names, b, b2)
<1> DEFINE T2 == [i \in Nat |-> IF i < n THEN T[i] ELSE {}]
<1>1. T2 \in [Nat -> SUBSET loaded.nodes]
  BY DEF Partial
<1>2. \A i \in Nat : T2[i] = IF i < n THEN T[i] ELSE {}
  OBVIOUS
<1> HIDE DEF T2
<1>3. T2[0] = T[0]
  BY <1>2
<1>4. \A i \in 1..m : Covers(g, loaded, p.edges[i], p.nodes[i + 1], T2[i - 1], T2[i])
  <2> TAKE i \in 1..m
  <2>1. CASE i < n
    <3>1. i \in 1..n - 1 /\ T2[i - 1] = T[i - 1] /\ T2[i] = T[i]
      BY <1>2, <2>1
    <3> QED BY <3>1 DEF Partial
  <2>2. CASE ~(i < n)
    <3>1. T2[i - 1] = {}
      BY <1>2, <2>2
    <3> QED BY <3>1, CoversNothing
  <2> QED BY <2>1, <2>2
<1>5. \A i \in 1..m + 1 : p.nodes[i].variable # "" => T2[i - 1] \subseteq Bound(b2, p.nodes[i].variable)
  <2> TAKE i \in 1..m + 1
  <2>1. CASE i <= n
    <3>1. i \in 1..n /\ T2[i - 1] = T[i - 1]
      BY <1>2, <2>1
    <3> QED BY <3>1 DEF Partial
  <2>2. CASE ~(i <= n)
    <3>1. T2[i - 1] = {}
      BY <1>2, <2>2
    <3> QED BY <3>1
  <2> QED BY <2>1, <2>2
<1>6. Expanded(g, loaded, p, names, b, b2, T2)
  BY <1>3, <1>4, <1>5 DEF Expanded, Partial
<1> QED BY <1>1, <1>6 DEF CoversPattern

\* The nodes of a variable, if it has a name, are known.
Knows(b, name, ids) == name # "" => ids \subseteq Bound(b, name)

\* The node n of a pattern was reached at X.
PartialAt(g, loaded, p, names, b, b2, n, X) ==
    \E T : Partial(g, loaded, p, names, b, b2, n, T) /\ T[n - 1] = X

\* The next node of a pattern was reached.
LEMMA PartialNext ==
    ASSUME NEW g, NEW loaded, NEW p, NEW names, NEW b, NEW b2, NEW n \in Nat \ {0},
           NEW T, Partial(g, loaded, p, names, b, b2, n, T),
           NEW X, X = T[n - 1], NEW r, r = p.edges[n], NEW target, target = p.nodes[n + 1],
           NEW Y \in SUBSET loaded.nodes, Covers(g, loaded, r, target, X, Y),
           NEW b3, Grows(b2, b3), Knows(b3, target.variable, Y)
    PROVE  PartialAt(g, loaded, p, names, b, b3, n + 1, Y)
<1> DEFINE T2 == [i \in Nat |-> IF i < n THEN T[i] ELSE Y]
<1>1. T2 \in [Nat -> SUBSET loaded.nodes]
  BY DEF Partial
<1>2. \A i \in Nat : T2[i] = IF i < n THEN T[i] ELSE Y
  OBVIOUS
<1> HIDE DEF T2
<1>3. T2[0] = T[0] /\ T2[n] = Y /\ T2[n - 1] = T[n - 1]
  BY <1>2
<1>4. \A i \in 1..(n + 1) - 1 : Covers(g, loaded, p.edges[i], p.nodes[i + 1], T2[i - 1], T2[i])
  <2> TAKE i \in 1..(n + 1) - 1
  <2>1. CASE i < n
    <3>1. i \in 1..n - 1 /\ T2[i - 1] = T[i - 1] /\ T2[i] = T[i]
      BY <1>2, <2>1
    <3> QED BY <3>1 DEF Partial
  <2>2. CASE ~(i < n)
    <3>1. i = n
      BY <2>2
    <3> QED BY <1>3, <3>1
  <2> QED BY <2>1, <2>2
<1>5. \A i \in 1..n + 1 : p.nodes[i].variable # "" => T2[i - 1] \subseteq Bound(b3, p.nodes[i].variable)
  <2> TAKE i \in 1..n + 1
  <2>1. CASE i <= n
    <3>1. i \in 1..n /\ T2[i - 1] = T[i - 1]
      BY <1>2, <2>1
    <3>2. p.nodes[i].variable # "" => T[i - 1] \subseteq Bound(b2, p.nodes[i].variable)
      BY <3>1 DEF Partial
    <3> QED BY <3>1, <3>2 DEF Grows
  <2>2. CASE ~(i <= n)
    <3>1. i = n + 1 /\ i - 1 = n
      BY <2>2
    <3> QED BY <1>3, <3>1 DEF Knows
  <2> QED BY <2>1, <2>2
<1>6. Partial(g, loaded, p, names, b, b3, n + 1, T2)
  BY <1>1, <1>3, <1>4, <1>5 DEF Partial
<1>7. T2[(n + 1) - 1] = Y
  BY <1>3
<1> QED BY <1>6, <1>7 DEF PartialAt

\* An expansion after depth levels, the last of them current: seen has the
\* targets that were met on the levels the length allows.
Levels(g, loaded, pattern, target, X, current, depth, seen, L) ==
    /\ L \in [Nat -> SUBSET loaded.nodes]
    /\ L[0] = X /\ L[depth] = current
    /\ \A d \in Nat : d < depth => LevelStep(g, loaded, pattern, L[d], L[d + 1])
    /\ \A d \in Nat : lower(pattern.length) <= d /\ d <= depth =>
          \A y \in L[d] : NodeAdmitted(g.nodes[y], target) => y \in seen

\* It stays so when more is loaded.
LEMMA LevelsMore ==
    ASSUME NEW g, NEW loaded, NEW more, More(loaded, more), NEW pattern, NEW target, NEW X,
           NEW current, NEW depth, NEW seen, NEW L, Levels(g, loaded, pattern, target, X, current, depth, seen, L)
    PROVE  Levels(g, more, pattern, target, X, current, depth, seen, L)
<1>1. L \in [Nat -> SUBSET more.nodes]
  BY DEF Levels, More
<1>2. \A d \in Nat : d < depth => LevelStep(g, more, pattern, L[d], L[d + 1])
  BY LevelStepMore DEF Levels
<1> QED BY <1>1, <1>2 DEF Levels

\* Before the first level.
LEMMA LevelsBegin ==
    ASSUME NEW g, NEW loaded, NEW pattern, NEW target, NEW X \in SUBSET loaded.nodes, NEW seen,
           lower(pattern.length) \in Nat,
           lower(pattern.length) = 0 => \A y \in X : NodeAdmitted(g.nodes[y], target) => y \in seen
    PROVE  \E L : Levels(g, loaded, pattern, target, X, X, 0, seen, L)
<1> DEFINE L == [d \in Nat |-> X]
<1>1. L \in [Nat -> SUBSET loaded.nodes] /\ \A d \in Nat : L[d] = X
  OBVIOUS
<1> HIDE DEF L
<1>2. L[0] = X
  BY <1>1
<1>3. \A d \in Nat : ~(d < 0)
  OBVIOUS
<1>4. \A d \in Nat : lower(pattern.length) <= d /\ d <= 0 => lower(pattern.length) = 0
  OBVIOUS
<1> QED BY <1>1, <1>2, <1>3, <1>4 DEF Levels

\* One level more.
LEMMA LevelsNext ==
    ASSUME NEW g, NEW loaded, NEW pattern, NEW target, NEW X, NEW current, NEW depth \in Nat, NEW seen, NEW L,
           Levels(g, loaded, pattern, target, X, current, depth, seen, L),
           NEW reached \in SUBSET loaded.nodes, LevelStep(g, loaded, pattern, current, reached),
           NEW more, seen \subseteq more,
           lower(pattern.length) <= depth + 1 => \A y \in reached : NodeAdmitted(g.nodes[y], target) => y \in more
    PROVE  \E L2 : Levels(g, loaded, pattern, target, X, reached, depth + 1, more, L2)
<1> DEFINE L2 == [d \in Nat |-> IF d <= depth THEN L[d] ELSE reached]
<1>1. L2 \in [Nat -> SUBSET loaded.nodes]
  BY DEF Levels
<1>2. \A d \in Nat : L2[d] = IF d <= depth THEN L[d] ELSE reached
  OBVIOUS
<1> HIDE DEF L2
<1>3. L2[0] = X /\ L2[depth + 1] = reached
  BY <1>2 DEF Levels
<1>4. \A d \in Nat : d < depth + 1 => LevelStep(g, loaded, pattern, L2[d], L2[d + 1])
  <2> TAKE d \in Nat
  <2>1. CASE d < depth
    <3>1. L2[d] = L[d] /\ L2[d + 1] = L[d + 1]
      BY <1>2, <2>1
    <3> QED BY <2>1, <3>1 DEF Levels
  <2>2. CASE d = depth
    <3>1. L2[d] = current /\ L2[d + 1] = reached
      BY <1>2, <2>2 DEF Levels
    <3> QED BY <3>1
  <2> QED BY <2>1, <2>2
<1>5. \A d \in Nat : lower(pattern.length) <= d /\ d <= depth + 1 =>
          \A y \in L2[d] : NodeAdmitted(g.nodes[y], target) => y \in more
  <2> TAKE d \in Nat
  <2>1. CASE d <= depth
    <3>1. L2[d] = L[d]
      BY <1>2, <2>1
    <3> QED BY <2>1, <3>1 DEF Levels
  <2>2. CASE d = depth + 1
    <3>1. L2[d] = reached
      BY <1>2, <2>2
    <3> QED BY <2>2, <3>1
  <2> QED BY <2>1, <2>2
<1> QED BY <1>1, <1>3, <1>4, <1>5 DEF Levels

\* At its greatest length, or when nothing is left, an expansion is complete.
LEMMA LevelsEnd ==
    ASSUME NEW g, NEW loaded, NEW pattern, NEW target, NEW X, NEW current, NEW depth \in Nat, NEW seen, NEW L,
           Levels(g, loaded, pattern, target, X, current, depth, seen, L),
           NEW most \in Nat, most = upper(pattern.length, Cardinality(DOMAIN g.edges)),
           most <= depth \/ current = {}
    PROVE  Covers(g, loaded, pattern, target, X, seen)
<1> DEFINE L2 == [d \in Nat |-> IF d <= depth THEN L[d] ELSE {}]
<1>1. L2 \in [Nat -> SUBSET loaded.nodes]
  BY DEF Levels
<1>2. \A d \in Nat : L2[d] = IF d <= depth THEN L[d] ELSE {}
  OBVIOUS
<1> HIDE DEF L2
<1>3. X \subseteq L2[0]
  BY <1>2 DEF Levels
<1>4. \A d \in Nat : d < most => LevelStep(g, loaded, pattern, L2[d], L2[d + 1])
  <2> TAKE d \in Nat
  <2>1. CASE d < depth
    <3>1. L2[d] = L[d] /\ L2[d + 1] = L[d + 1]
      BY <1>2, <2>1
    <3> QED BY <2>1, <3>1 DEF Levels
  <2>2. CASE ~(d < depth) /\ d < most
    <3>1. current = {}
      BY <2>2
    <3>2. L2[d] = {}
      <4>1. CASE d = depth
        BY <1>2, <3>1, <4>1 DEF Levels
      <4>2. CASE d # depth
        BY <1>2, <2>2, <4>2
      <4> QED BY <4>1, <4>2
    <3>3. LevelStep(g, loaded, pattern, {}, L2[d + 1])
      BY DEF LevelStep
    <3> QED BY <3>2, <3>3
  <2> QED BY <2>1, <2>2
<1>5. \A d \in Nat : lower(pattern.length) <= d /\ d <= most =>
          \A y \in L2[d] : NodeAdmitted(g.nodes[y], target) => y \in seen
  <2> TAKE d \in Nat
  <2>1. CASE d <= depth
    <3>1. L2[d] = L[d]
      BY <1>2, <2>1
    <3> QED BY <2>1, <3>1 DEF Levels
  <2>2. CASE ~(d <= depth)
    <3>1. L2[d] = {}
      BY <1>2, <2>2
    <3> QED BY <3>1
  <2> QED BY <2>1, <2>2
<1> QED BY <1>1, <1>3, <1>4, <1>5 DEF Covers

\* filterNodes keeps the nodes that a pattern admits.
LEMMA AdmittedKept ==
    ASSUME NEW ids, NEW pattern, NEW y \in ids, NodeAdmitted(graph.nodes[y], pattern),
           NEW plan, plan = buildNodeScanPlan(pattern)
    PROVE  y \in filterNodes(ids, plan.labels, plan.base)
<1>1. plan.labels = FirstTerms(pattern.labels) /\ plan.base = PropertyPlan(pattern.properties).base
  BY DEF buildNodeScanPlan
<1> QED BY <1>1 DEF NodeAdmitted, Admits, filterNodes

\* A scan by any of the alternatives, or by the base, finds them.
LEMMA AdmittedScanned ==
    ASSUME NEW pattern, NEW y \in Nodes, NodeAdmitted(graph.nodes[y], pattern),
           NEW plan, plan = buildNodeScanPlan(pattern)
    PROVE  /\ ~plan.empty
           /\ y \in ScanNodes(plan.labels, plan.base)
           /\ \E a \in plan.alternatives : y \in ScanNodes(plan.labels, a)
<1>1. /\ plan.labels = FirstTerms(pattern.labels) /\ plan.base = PropertyPlan(pattern.properties).base
      /\ plan.alternatives = PropertyPlan(pattern.properties).alternatives
      /\ plan.empty = PropertyPlan(pattern.properties).empty
  BY DEF buildNodeScanPlan
<1> QED BY <1>1 DEF NodeAdmitted, Admits, ScanNodes

\* The other ends of the edges that scanAdjacent finds.
Ends(C, pattern) == UNION {edgeTargets(graph.edges[e], pattern.direction, C) : e \in scanAdjacent(C, pattern)}

\* What scanAdjacent and edgeTargets give is a level.
LEMMA AdjacentLevel ==
    ASSUME NEW loaded, NEW pattern, NEW C, NEW D,
           scanAdjacent(C, pattern) \subseteq loaded.edges,
           D = Ends(C, pattern)
    PROVE  LevelStep(graph, loaded, pattern, C, D)
<1> SUFFICES ASSUME NEW e \in DOMAIN graph.edges, EdgeAdmitted(graph.edges[e], pattern)
             PROVE  /\ Outgoing(pattern.direction) /\ graph.edges[e].from \in C =>
                          e \in loaded.edges /\ graph.edges[e].to \in D
                    /\ Incoming(pattern.direction) /\ graph.edges[e].to \in C =>
                          e \in loaded.edges /\ graph.edges[e].from \in D
  BY DEF LevelStep
<1>1. \/ Outgoing(pattern.direction) /\ graph.edges[e].from \in C
      \/ Incoming(pattern.direction) /\ graph.edges[e].to \in C
      => e \in scanAdjacent(C, pattern)
  BY DEF scanAdjacent, EdgeAdmitted, AllEdges
<1>2. Outgoing(pattern.direction) /\ graph.edges[e].from \in C =>
          graph.edges[e].to \in edgeTargets(graph.edges[e], pattern.direction, C)
  BY DEF edgeTargets
<1>3. Incoming(pattern.direction) /\ graph.edges[e].to \in C =>
          graph.edges[e].from \in edgeTargets(graph.edges[e], pattern.direction, C)
  BY DEF edgeTargets
<1> QED BY <1>1, <1>2, <1>3 DEF Ends

\* Its nodes are in the graph, and its edges have both ends there or in C.
LEMMA AdjacentPart ==
    ASSUME IsGraph(graph), NEW pattern, NEW C, NEW D,
           D = Ends(C, pattern)
    PROVE  /\ D \subseteq Nodes /\ scanAdjacent(C, pattern) \subseteq AllEdges
           /\ \A e \in scanAdjacent(C, pattern) : {graph.edges[e].from, graph.edges[e].to} \subseteq C \cup D
<1>1. scanAdjacent(C, pattern) \subseteq AllEdges
  BY DEF scanAdjacent
<1>2. \A e \in AllEdges : edgeTargets(graph.edges[e], pattern.direction, C) \subseteq {graph.edges[e].from, graph.edges[e].to}
  BY DEF edgeTargets
<1>3. \A e \in AllEdges : {graph.edges[e].from, graph.edges[e].to} \subseteq Nodes
  BY DEF IsGraph, Nodes, AllEdges
<1>4. D \subseteq Nodes
  BY <1>1, <1>2, <1>3 DEF Ends
<1>5. ASSUME NEW e \in scanAdjacent(C, pattern)
      PROVE  {graph.edges[e].from, graph.edges[e].to} \subseteq C \cup D
  <2>1. \/ Outgoing(pattern.direction) /\ graph.edges[e].from \in C
        \/ Incoming(pattern.direction) /\ graph.edges[e].to \in C
    BY <1>5 DEF scanAdjacent
  <2>2. edgeTargets(graph.edges[e], pattern.direction, C) \subseteq D
    BY <1>5 DEF Ends
  <2>3. CASE Outgoing(pattern.direction) /\ graph.edges[e].from \in C
    BY <2>2, <2>3 DEF edgeTargets
  <2>4. CASE Incoming(pattern.direction) /\ graph.edges[e].to \in C
    BY <2>2, <2>4 DEF edgeTargets
  <2> QED BY <2>1, <2>3, <2>4
<1> QED BY <1>1, <1>4, <1>5

-----------------------------------------------------------------------------
(* The iterator: pattern by pattern.                                       *)

\* Before pattern k of all: the patterns before it are covered, and b is what
\* is known of the variables.
AtRoot(g, loaded, all, k, b) ==
    \E H : /\ Recorded(g, loaded, all, k - 1, H)
           /\ \A i \in Nat : k - 1 <= i => H[i] = b
           /\ DOMAIN b \subseteq KnownBefore(all, k)

\* Within pattern k: its first n nodes were reached, the last of them at X.
InPattern(g, loaded, all, k, b, n, X) ==
    \E H, T : /\ Recorded(g, loaded, all, k - 1, H)
              /\ \A i \in Nat : k <= i => H[i] = b
              /\ Partial(g, loaded, all[k], KnownBefore(all, k), H[k - 1], b, n, T)
              /\ T[n - 1] = X
              /\ DOMAIN b \subseteq KnownBefore(all, k + 1)

\* Within a relationship.
InLevels(g, loaded, pattern, target, X, current, depth, seen) ==
    \E L : Levels(g, loaded, pattern, target, X, current, depth, seen, L)

\* bind adds the nodes of one name.
LEMMA BindKnows ==
    ASSUME NEW name, NEW ids, NEW b, b = bind(name, ids)
    PROVE  /\ Grows(bindings, b) /\ Knows(b, name, ids)
           /\ DOMAIN b \subseteq DOMAIN bindings \cup Named(name)
           /\ \A loaded : Holds(bindings, loaded) /\ ids \subseteq loaded.nodes => Holds(b, loaded)
<1>1. CASE name = "" \/ ids = {}
  <2>1. b = bindings
    BY <1>1 DEF bind
  <2> QED BY <1>1, <2>1 DEF Grows, Knows
<1>2. CASE ~(name = "" \/ ids = {})
  <2>1. b = With(bindings, name, ids \cup Bound(bindings, name))
    BY <1>2 DEF bind, Bound
  <2>2. /\ DOMAIN b = DOMAIN bindings \cup {name}
        /\ \A v \in DOMAIN b : b[v] = IF v = name THEN ids \cup Bound(bindings, name) ELSE bindings[v]
    BY <2>1 DEF With
  <2>3. \A v : Bound(b, v) = IF v = name THEN ids \cup Bound(bindings, name) ELSE Bound(bindings, v)
    BY <2>2 DEF Bound
  <2>4. name \in Named(name)
    BY <1>2 DEF Named
  <2>5. Grows(bindings, b) /\ Knows(b, name, ids)
    BY <2>3 DEF Grows, Knows
  <2>6. DOMAIN b \subseteq DOMAIN bindings \cup Named(name)
    BY <2>2, <2>4
  <2>7. \A loaded : Holds(bindings, loaded) /\ ids \subseteq loaded.nodes => Holds(b, loaded)
    BY <2>3 DEF Holds
  <2> QED BY <2>5, <2>6, <2>7
<1> QED BY <1>1, <1>2

\* What is recorded holds with more known from pattern k on.
LEMMA Replaced ==
    ASSUME NEW g, NEW loaded, NEW all, NEW k \in Nat \ {0}, NEW H, Recorded(g, loaded, all, k - 1, H),
           NEW b, \A i \in Nat : k <= i => H[i] = b,
           NEW b2, Grows(b, b2), Holds(b2, loaded)
    PROVE  \E H2 : /\ Recorded(g, loaded, all, k - 1, H2) /\ H2[k - 1] = H[k - 1]
                   /\ \A i \in Nat : k <= i => H2[i] = b2
<1> DEFINE H2 == [i \in Nat |-> IF i < k THEN H[i] ELSE b2]
<1>1. \A i \in Nat : H2[i] = IF i < k THEN H[i] ELSE b2
  OBVIOUS
<1> HIDE DEF H2
<1>2. H2[k - 1] = H[k - 1] /\ \A i \in Nat : k <= i => H2[i] = b2
  BY <1>1
<1>3. \A i \in Nat : Holds(H2[i], loaded)
  <2> TAKE i \in Nat
  <2>1. CASE i < k
    BY <1>1, <2>1 DEF Recorded
  <2>2. CASE ~(i < k)
    BY <1>1, <2>2
  <2> QED BY <2>1, <2>2
<1>4. \A i, j \in Nat : i <= j => Grows(H2[i], H2[j])
  <2> SUFFICES ASSUME NEW i \in Nat, NEW j \in Nat, i <= j PROVE Grows(H2[i], H2[j])
    OBVIOUS
  <2>1. CASE j < k
    <3>1. H2[i] = H[i] /\ H2[j] = H[j]
      BY <1>1, <2>1
    <3> QED BY <3>1 DEF Recorded
  <2>2. CASE i < k /\ ~(j < k)
    <3>1. H2[i] = H[i] /\ H2[j] = b2 /\ H[k] = b
      BY <1>1, <2>2
    <3>2. Grows(H[i], H[k])
      BY <2>2 DEF Recorded
    <3> QED BY <3>1, <3>2 DEF Grows
  <2>3. CASE ~(i < k)
    <3>1. H2[i] = b2 /\ H2[j] = b2
      BY <1>1, <2>3
    <3> QED BY <3>1 DEF Grows
  <2> QED BY <2>1, <2>2, <2>3
<1>5. \A i \in 1..k - 1 : CoversPattern(g, loaded, all[i], KnownBefore(all, i), H2[i - 1], H2[i])
  <2> TAKE i \in 1..k - 1
  <2>1. H2[i - 1] = H[i - 1] /\ H2[i] = H[i]
    BY <1>1
  <2> QED BY <2>1 DEF Recorded
<1>6. Recorded(g, loaded, all, k - 1, H2)
  BY <1>3, <1>4, <1>5 DEF Recorded
<1> QED BY <1>2, <1>6

\* One pattern more is known.
LEMMA KnownNext ==
    ASSUME NEW all, NEW k \in Nat \ {0}
    PROVE  KnownBefore(all, k + 1) = KnownBefore(all, k) \cup NodeNames(all[k])
<1>1. 1..(k + 1) - 1 = (1..k - 1) \cup {k}
  OBVIOUS
<1> QED BY <1>1 DEF KnownBefore

\* It stays so when more is loaded.
LEMMA AtRootMore ==
    ASSUME NEW g, NEW loaded, NEW more, More(loaded, more), more.edges \subseteq DOMAIN g.edges,
           NEW all, NEW k, NEW b, AtRoot(g, loaded, all, k, b)
    PROVE  AtRoot(g, more, all, k, b)
BY RecordedMore DEF AtRoot

\* The same within a pattern.
LEMMA InPatternMore ==
    ASSUME NEW g, NEW loaded, NEW more, More(loaded, more), more.edges \subseteq DOMAIN g.edges,
           NEW all, NEW k \in Nat, NEW b, NEW n \in Nat, NEW X, InPattern(g, loaded, all, k, b, n, X)
    PROVE  InPattern(g, more, all, k, b, n, X)
<1>1. PICK H, T : /\ Recorded(g, loaded, all, k - 1, H)
              /\ \A i \in Nat : k <= i => H[i] = b
              /\ Partial(g, loaded, all[k], KnownBefore(all, k), H[k - 1], b, n, T)
              /\ T[n - 1] = X
              /\ DOMAIN b \subseteq KnownBefore(all, k + 1)
  BY DEF InPattern
<1>2. Recorded(g, more, all, k - 1, H)
  BY <1>1, RecordedMore
<1>3. Partial(g, more, all[k], KnownBefore(all, k), H[k - 1], b, n, T)
  <2>1. PICK p, h, names : p = all[k] /\ h = H[k - 1] /\ names = KnownBefore(all, k)
    OBVIOUS
  <2>2. Partial(g, loaded, p, names, h, b, n, T)
    BY <1>1, <2>1
  <2>3. Partial(g, more, p, names, h, b, n, T)
    BY <2>2, PartialMore
  <2> QED BY <2>1, <2>3
<1> QED BY <1>1, <1>2, <1>3 DEF InPattern

\* The first node of pattern k was reached at X.
LEMMA RootReached ==
    ASSUME NEW g, NEW loaded, NEW all, NEW k \in Nat \ {0}, NEW b, AtRoot(g, loaded, all, k, b),
           NEW X \in SUBSET loaded.nodes, NEW p, p = all[k], 1 \in DOMAIN p.nodes,
           NEW b2, Grows(b, b2), Holds(b2, loaded), Knows(b2, p.nodes[1].variable, X),
           DOMAIN b2 \subseteq DOMAIN b \cup Named(p.nodes[1].variable),
           \A id \in DOMAIN g.nodes : NodeAdmitted(g.nodes[id], p.nodes[1]) =>
              \/ id \in X
              \/ p.nodes[1].variable \in KnownBefore(all, k) /\ id \notin Bound(b, p.nodes[1].variable)
    PROVE  InPattern(g, loaded, all, k, b2, 1, X)
<1>1. PICK H : /\ Recorded(g, loaded, all, k - 1, H)
           /\ \A i \in Nat : k - 1 <= i => H[i] = b
           /\ DOMAIN b \subseteq KnownBefore(all, k)
  BY DEF AtRoot
<1>2. H[k - 1] = b /\ \A i \in Nat : k <= i => H[i] = b
  BY <1>1
<1>3. PICK H2 : /\ Recorded(g, loaded, all, k - 1, H2) /\ H2[k - 1] = H[k - 1]
                /\ \A i \in Nat : k <= i => H2[i] = b2
  BY <1>1, <1>2, Replaced
<1> DEFINE T == [i \in Nat |-> X]
<1>4. T \in [Nat -> SUBSET loaded.nodes] /\ T[0] = X /\ T[1 - 1] = X
  OBVIOUS
<1> HIDE DEF T
<1>5. \A i \in 1..1 : i = 1 /\ T[i - 1] = X
  BY <1>4
<1>6. \A i \in 1..1 : p.nodes[i].variable # "" => T[i - 1] \subseteq Bound(b2, p.nodes[i].variable)
  BY <1>5 DEF Knows
<1>7. 1..1 - 1 = {}
  OBVIOUS
<1>8. Partial(g, loaded, p, KnownBefore(all, k), b, b2, 1, T)
  BY <1>4, <1>6, <1>7 DEF Partial
<1>9. Named(p.nodes[1].variable) \subseteq NodeNames(p)
  BY DEF Named, NodeNames
<1>10. DOMAIN b2 \subseteq KnownBefore(all, k + 1)
  BY <1>1, <1>9, KnownNext
<1> QED BY <1>2, <1>3, <1>4, <1>8, <1>10 DEF InPattern

\* Its next node was reached at Y.
LEMMA NextReached ==
    ASSUME NEW g, NEW loaded, NEW all, NEW k \in Nat \ {0}, NEW b, NEW n \in Nat \ {0}, NEW X,
           InPattern(g, loaded, all, k, b, n, X), NEW p, p = all[k], n + 1 \in DOMAIN p.nodes,
           NEW Y \in SUBSET loaded.nodes, Covers(g, loaded, p.edges[n], p.nodes[n + 1], X, Y),
           NEW b2, Grows(b, b2), Holds(b2, loaded), Knows(b2, p.nodes[n + 1].variable, Y),
           DOMAIN b2 \subseteq DOMAIN b \cup Named(p.nodes[n + 1].variable)
    PROVE  InPattern(g, loaded, all, k, b2, n + 1, Y)
<1>1. PICK H, T : /\ Recorded(g, loaded, all, k - 1, H)
              /\ \A i \in Nat : k <= i => H[i] = b
              /\ Partial(g, loaded, all[k], KnownBefore(all, k), H[k - 1], b, n, T)
              /\ T[n - 1] = X
              /\ DOMAIN b \subseteq KnownBefore(all, k + 1)
  BY DEF InPattern
<1>2. PICK H2 : /\ Recorded(g, loaded, all, k - 1, H2) /\ H2[k - 1] = H[k - 1]
                /\ \A i \in Nat : k <= i => H2[i] = b2
  BY <1>1, Replaced
<1>3. PICK T2 : Partial(g, loaded, p, KnownBefore(all, k), H[k - 1], b2, n + 1, T2) /\ T2[n] = Y
  <2>1. PICK h, names : h = H[k - 1] /\ names = KnownBefore(all, k)
    OBVIOUS
  <2>2. Partial(g, loaded, p, names, h, b, n, T) /\ T[n - 1] = X
    BY <1>1, <2>1
  <2>4. PICK r, target : r = p.edges[n] /\ target = p.nodes[n + 1]
    OBVIOUS
  <2>5. Covers(g, loaded, r, target, X, Y) /\ Knows(b2, target.variable, Y) /\ X = T[n - 1]
    BY <2>2, <2>4
  <2>3. PartialAt(g, loaded, p, names, h, b2, n + 1, Y)
    BY <2>2, <2>4, <2>5, PartialNext
  <2>6. PICK T2 : Partial(g, loaded, p, names, h, b2, n + 1, T2) /\ T2[(n + 1) - 1] = Y
    BY <2>3 DEF PartialAt
  <2>7. T2[n] = Y
    BY <2>6
  <2> QED BY <2>1, <2>6, <2>7
<1>4. Named(p.nodes[n + 1].variable) \subseteq NodeNames(p)
  BY DEF Named, NodeNames
<1>5. DOMAIN b2 \subseteq KnownBefore(all, k + 1)
  BY <1>1, <1>4, KnownNext
<1>6. T2[(n + 1) - 1] = Y
  BY <1>3
<1> QED BY <1>2, <1>3, <1>5, <1>6 DEF InPattern

\* The pattern ends.
LEMMA PatternDone ==
    ASSUME NEW g, NEW loaded, NEW all, NEW k \in Nat \ {0}, NEW b, NEW n, NEW X,
           InPattern(g, loaded, all, k, b, n, X), NEW p, p = all[k],
           NEW m \in Nat, Len(p.edges) = m, Len(p.nodes) = m + 1,
           \A i \in 1..m : SameLength(g, loaded, p.edges[i].length),
           n \in 1..m + 1, n = m + 1 \/ X = {}
    PROVE  AtRoot(g, loaded, all, k + 1, b)
<1>1. PICK H, T : /\ Recorded(g, loaded, all, k - 1, H)
              /\ \A i \in Nat : k <= i => H[i] = b
              /\ Partial(g, loaded, all[k], KnownBefore(all, k), H[k - 1], b, n, T)
              /\ T[n - 1] = X
              /\ DOMAIN b \subseteq KnownBefore(all, k + 1)
  BY DEF InPattern
<1>2. H[k] = b /\ k - 1 \in Nat /\ k - 1 <= k /\ (k + 1) - 1 = k
  BY <1>1
<1>3. Grows(H[k - 1], b)
  BY <1>1, <1>2 DEF Recorded
<1>4. CoversPattern(g, loaded, p, KnownBefore(all, k), H[k - 1], b)
  <2>1. PICK names, b0 : names = KnownBefore(all, k) /\ b0 = H[k - 1]
    OBVIOUS
  <2>2. Partial(g, loaded, p, names, b0, b, n, T) /\ T[n - 1] = X /\ Grows(b0, b)
    BY <1>1, <1>3, <2>1
  <2>3. CoversPattern(g, loaded, p, names, b0, b)
    BY <2>2, PatternEnds
  <2> QED BY <2>1, <2>3
<1>5. \A i \in 1..k : i \in 1..k - 1 \/ i = k
  OBVIOUS
<1>6. \A i \in 1..k : CoversPattern(g, loaded, all[i], KnownBefore(all, i), H[i - 1], H[i])
  BY <1>1, <1>2, <1>4, <1>5 DEF Recorded
<1>7. Recorded(g, loaded, all, k, H)
  BY <1>1, <1>6 DEF Recorded
<1> QED BY <1>1, <1>2, <1>7 DEF AtRoot

-----------------------------------------------------------------------------
(* The inductive invariant.                                                *)

\* The patterns that the iterator expands.
All == Patterns(query.branches[1])

\* The cursor, and the nodes it holds, are of the working set.
Cursors(nodes) ==
    [pattern : Nat, edge : Nat, depth : Nat, frontier : SUBSET nodes, current : SUBSET nodes, seen : SUBSET nodes]

CursorOK == cursor \in Cursors(working.nodes)

\* The iterator: the patterns and relationships before the cursor are covered.
\* When the query is evaluated, enough is loaded for every branch.
Iterates ==
    /\ phase \in {"root", "expand"} => UsesIterator(query) /\ cursor.pattern \in 1..Len(All)
    /\ phase = "root" => AtRoot(graph, working, All, cursor.pattern, bindings)
    /\ phase = "expand" =>
          /\ cursor.edge \in 1..Len(Pattern.edges)
          /\ InPattern(graph, working, All, cursor.pattern, bindings, cursor.edge, cursor.frontier)
          /\ InLevels(graph, working, Relationship, Target, cursor.frontier, cursor.current, cursor.depth, cursor.seen)
    /\ phase = "evaluate" => \A b \in DOMAIN query.branches : Enough(graph, working, query.branches[b])

\* The clauses of a query.
LEMMA QueryClauses ==
    ASSUME NEW q, IsQuery(q)
    PROVE  /\ Len(q.branches) \in Nat /\ DOMAIN q.branches = 1..Len(q.branches)
           /\ \A b \in DOMAIN q.branches : AreClauses(q.branches[b])
<1>1. IsSequence(q.branches)
  BY DEF IsQuery
<1> QED BY <1>1, SequenceDomain DEF IsQuery, AreClauses

\* A pattern of the iterator: well formed, and every length has an upper bound.
LEMMA IteratorPattern ==
    ASSUME NEW clauses, AreClauses(clauses), ~iteratorFallback(clauses), NEW all, all = Patterns(clauses)
    PROVE  /\ Len(all) \in Nat /\ DOMAIN all = 1..Len(all) /\ (Len(all) = 0 => all = <<>>)
           /\ \A k \in 1..Len(all) :
                 /\ \E names, others : IsPattern(all[k], names, others)
                 /\ \A i \in DOMAIN all[k].edges : Len(all[k].edges[i].length) # 1
<1> DEFINE last == Len(clauses)
<1>1. last \in Nat /\ last = Len(clauses) /\ DOMAIN clauses = 1..last
  BY SequenceDomain DEF AreClauses
<1> HIDE DEF last
<1>2. PICK off : /\ Offsets(clauses, off)
                 /\ \A i \in 0..last : off[i] \in Nat /\ \A n \in 1..i : off[n] <= off[i]
                 /\ Listed(clauses, off, all, last)
  BY <1>1, PatternsListed
<1>3. Len(all) \in Nat /\ DOMAIN all = 1..Len(all) /\ (Len(all) = 0 => all = <<>>) /\ Len(all) = off[last]
  BY <1>2 DEF Listed
<1>4. ASSUME NEW k \in 1..Len(all)
      PROVE  \E names, others : IsPattern(all[k], names, others)
  <2>1. PICK n \in 1..last : \E j \in 1..Len(clauses[n].patterns) : k = off[n - 1] + j
    BY <1>2, <1>3, <1>4 DEF Listed
  <2>2. PICK j \in 1..Len(clauses[n].patterns) : k = off[n - 1] + j
    BY <2>1
  <2>3. all[k] = clauses[n].patterns[j]
    BY <1>2, <2>2 DEF Listed
  <2>4. IsClause(clauses[n], NodeScope(clauses, n), EdgeScope(clauses, n))
    BY <1>1 DEF AreClauses
  <2>5. DOMAIN clauses[n].patterns = 1..Len(clauses[n].patterns)
    BY <2>4, SequenceDomain DEF IsClause
  <2> QED BY <2>3, <2>4, <2>5 DEF IsClause
<1>5. ASSUME NEW k \in 1..Len(all), NEW i \in DOMAIN all[k].edges
      PROVE  Len(all[k].edges[i].length) # 1
  <2>1. all[k] \in Range(all)
    BY <1>3, <1>5 DEF Range
  <2> QED BY <1>5, <2>1 DEF iteratorFallback
<1> QED BY <1>3, <1>4, <1>5

\* The shape of the pattern under the cursor.
LEMMA CursorPattern ==
    ASSUME NEW q, IsQuery(q), UsesIterator(q), NEW all, all = Patterns(q.branches[1]),
           NEW k \in 1..Len(all), NEW p, p = all[k]
    PROVE  /\ DOMAIN q.branches = {1} /\ AreClauses(q.branches[1]) /\ ~iteratorFallback(q.branches[1])
           /\ Len(all) \in Nat /\ k \in Nat \ {0}
           /\ Len(p.edges) \in Nat /\ Len(p.nodes) = Len(p.edges) + 1
           /\ DOMAIN p.edges = 1..Len(p.edges) /\ DOMAIN p.nodes = 1..Len(p.edges) + 1
           /\ \A i \in 1..Len(p.edges) : IsLength(p.edges[i].length) /\ Len(p.edges[i].length) # 1
<1>1. /\ ~iteratorFallback(q.branches[1]) /\ Len(q.branches) = 1
  BY DEF UsesIterator
<1>2. DOMAIN q.branches = {1} /\ AreClauses(q.branches[1])
  BY <1>1, QueryClauses
<1>3. Len(all) \in Nat /\ DOMAIN all = 1..Len(all)
  BY <1>1, <1>2, IteratorPattern
<1>4. PICK names, others : IsPattern(p, names, others)
  BY <1>1, <1>2, IteratorPattern
<1>5. /\ Len(p.edges) \in Nat /\ Len(p.nodes) = Len(p.edges) + 1
      /\ DOMAIN p.edges = 1..Len(p.edges) /\ DOMAIN p.nodes = 1..Len(p.edges) + 1
  BY <1>4, PatternShape
<1>6. \A i \in DOMAIN p.edges : Len(p.edges[i].length) # 1
  BY <1>1, <1>2, IteratorPattern
<1>7. \A i \in DOMAIN p.edges : IsLength(p.edges[i].length)
  BY <1>4 DEF IsPattern
<1>8. \A i \in 1..Len(p.edges) : IsLength(p.edges[i].length) /\ Len(p.edges[i].length) # 1
  BY <1>5, <1>6, <1>7
<1>9. k \in Nat \ {0}
  BY <1>3
<1> QED BY <1>1, <1>2, <1>3, <1>5, <1>8, <1>9

\* The same under one name.
CursorShape(q, all, k, p) ==
    /\ DOMAIN q.branches = {1} /\ AreClauses(q.branches[1]) /\ ~iteratorFallback(q.branches[1])
    /\ Len(all) \in Nat /\ k \in Nat \ {0}
    /\ Len(p.edges) \in Nat /\ Len(p.nodes) = Len(p.edges) + 1
    /\ DOMAIN p.edges = 1..Len(p.edges) /\ DOMAIN p.nodes = 1..Len(p.edges) + 1
    /\ \A i \in 1..Len(p.edges) : IsLength(p.edges[i].length) /\ Len(p.edges[i].length) # 1

\* What a cursor points at has that shape.
LEMMA CursorShaped ==
    ASSUME NEW q, IsQuery(q), UsesIterator(q), NEW all, all = Patterns(q.branches[1]),
           NEW k \in 1..Len(all), NEW p, p = all[k]
    PROVE  CursorShape(q, all, k, p)
BY CursorPattern DEF CursorShape

\* The nodes that filterNodes returns are among those it was given.
LEMMA FilterSubset ==
    ASSUME NEW ids, NEW labels, NEW properties
    PROVE  filterNodes(ids, labels, properties) \subseteq ids
BY DEF filterNodes

\* A cursor that moves to a relationship.
LEMMA MovedCursor ==
    ASSUME NEW A, NEW c \in Cursors(A), NEW B, NEW e \in Nat, NEW f \in SUBSET B, NEW s \in SUBSET B
    PROVE  [c EXCEPT !.edge = e, !.depth = 0, !.frontier = f, !.current = f, !.seen = s] \in Cursors(B)
<1> DEFINE R(f0, c0, s0) ==
        [pattern : Nat, edge : Nat, depth : Nat, frontier : SUBSET f0, current : SUBSET c0, seen : SUBSET s0]
<1>1. c \in R(A, A, A)
  BY DEF Cursors
<1> DEFINE c1 == [c EXCEPT !.edge = e]
<1>2. c1 \in R(A, A, A)
  BY <1>1
<1> HIDE DEF c1
<1> DEFINE c2 == [c1 EXCEPT !.depth = 0]
<1>3. c2 \in R(A, A, A)
  BY <1>2
<1> HIDE DEF c2
<1> DEFINE c3 == [c2 EXCEPT !.frontier = f]
<1>4. c3 \in R(B, A, A)
  BY <1>3
<1> HIDE DEF c3
<1> DEFINE c4 == [c3 EXCEPT !.current = f]
<1>5. c4 \in R(B, B, A)
  BY <1>4
<1> HIDE DEF c4
<1>6. [c4 EXCEPT !.seen = s] \in R(B, B, B)
  BY <1>5
<1>7. [c EXCEPT !.edge = e, !.depth = 0, !.frontier = f, !.current = f, !.seen = s] = [c4 EXCEPT !.seen = s]
  BY Zenon DEF c1, c2, c3, c4
<1> QED BY <1>6, <1>7 DEF Cursors

\* A cursor at the root of a pattern is a cursor of that graph.
LEMMA RootCursor ==
    ASSUME NEW A, NEW n \in Nat
    PROVE  [NoCursor EXCEPT !.pattern = n] \in Cursors(A)
<1>1. NoCursor \in Cursors(A)
  BY DEF NoCursor, Cursors
<1> QED BY <1>1 DEF Cursors

\* Proceed: with one more node of the pattern reached, the next relationship
\* begins, or the pattern is covered.
LEMMA ProceedKeeps ==
    ASSUME IsGraph(graph), IsQuery(query), UsesIterator(query), CursorOK, cursor.pattern \in 1..Len(All),
           graph' = graph, query' = query, NEW loaded, working' = loaded,
           NEW edge \in Nat, edge <= Len(Pattern.edges), NEW frontier \in SUBSET loaded.nodes,
           InPattern(graph, loaded, All, cursor.pattern, bindings', edge + 1, frontier),
           Proceed(edge, frontier)
    PROVE  phase' \in {"root", "expand", "evaluate"} /\ CursorOK' /\ Iterates'
<1> DEFINE k == cursor.pattern
           p == All[k]
           m == Len(p.edges)
<1>1. Pattern = p /\ p = All[k] /\ m = Len(p.edges) /\ All = Patterns(query.branches[1])
  BY DEF Pattern, All
<1>2. All' = All
  BY DEF All
<1>3. k \in 1..Len(All) /\ k = cursor.pattern
  OBVIOUS
<1> HIDE DEF k, p, m
<1>4. /\ DOMAIN query.branches = {1} /\ AreClauses(query.branches[1]) /\ ~iteratorFallback(query.branches[1])
      /\ Len(All) \in Nat /\ k \in Nat \ {0}
      /\ m \in Nat /\ Len(p.nodes) = m + 1
      /\ DOMAIN p.edges = 1..m /\ DOMAIN p.nodes = 1..m + 1
      /\ \A i \in 1..m : IsLength(p.edges[i].length) /\ Len(p.edges[i].length) # 1
  <2>1. PICK all : all = All
    OBVIOUS
  <2>2. IsQuery(query) /\ UsesIterator(query) /\ all = Patterns(query.branches[1]) /\ k \in 1..Len(all) /\ p = all[k]
    BY <1>1, <1>3, <2>1 DEF All
  <2>3. CursorShape(query, all, k, p)
    BY <2>2, CursorShaped
  <2>4. Len(p.edges) = m
    BY <1>1
  <2> QED BY <2>1, <2>3, <2>4 DEF CursorShape
<1>5. InPattern(graph, loaded, All, k, bindings', edge + 1, frontier)
  BY <1>3
<1>6. CASE edge < m /\ (edge = 0 \/ frontier # {})
  <2> DEFINE length == p.edges[edge + 1].length
             target == p.nodes[edge + 2]
             plan == buildNodeScanPlan(target)
             seen == IF lower(length) = 0 THEN filterNodes(frontier, plan.labels, plan.base) ELSE {}
  <2>1. /\ phase' = "expand"
        /\ cursor' = [cursor EXCEPT !.edge = edge + 1, !.depth = 0, !.frontier = frontier, !.current = frontier,
                                    !.seen = seen]
    BY <1>1, <1>6, Zenon DEF Proceed
  <2>2. /\ lower(length) = 0 => \A y \in frontier : NodeAdmitted(graph.nodes[y], target) => y \in seen
        /\ seen \in SUBSET loaded.nodes
    <3>1. filterNodes(frontier, plan.labels, plan.base) \subseteq frontier
      BY FilterSubset
    <3>2. \A y \in frontier : NodeAdmitted(graph.nodes[y], target) => y \in filterNodes(frontier, plan.labels, plan.base)
      BY AdmittedKept
    <3> HIDE DEF plan, target, length
    <3> QED BY <3>1, <3>2
  <2> HIDE DEF seen
  <2>3. /\ cursor'.pattern = k /\ cursor'.edge = edge + 1 /\ cursor'.depth = 0 /\ cursor'.frontier = frontier
        /\ cursor'.current = frontier /\ cursor'.seen = seen
    BY <1>3, <2>1 DEF CursorOK, Cursors
  <2>4. CursorOK'
    <3>1. cursor' \in Cursors(loaded.nodes)
      <4>1. PICK e \in Nat : e = edge + 1
        OBVIOUS
      <4> QED BY <2>1, <2>2, <4>1, MovedCursor DEF CursorOK
    <3> QED BY <3>1 DEF CursorOK
  <2>5. Pattern' = p /\ Relationship' = p.edges[edge + 1] /\ Target' = target
    <3>1. Pattern' = p
      BY <1>1, <1>2, <2>3 DEF Pattern, All
    <3>2. (edge + 1) + 1 = edge + 2
      OBVIOUS
    <3> QED BY <2>3, <3>1, <3>2 DEF Relationship, Target
  <2>6. edge + 1 \in 1..m
    BY <1>4, <1>6
  <2>7. InLevels(graph, loaded, p.edges[edge + 1], target, frontier, frontier, 0, seen)
    <3>1. lower(length) \in Nat
      BY <1>4, <2>6, Bounds
    <3>2. PICK r, t, s : r = p.edges[edge + 1] /\ t = target /\ s = seen
      OBVIOUS
    <3> HIDE DEF target
    <3>3. lower(r.length) \in Nat /\ (lower(r.length) = 0 => \A y \in frontier : NodeAdmitted(graph.nodes[y], t) => y \in s)
      BY <2>2, <3>1, <3>2
    <3>4. \E L : Levels(graph, loaded, r, t, frontier, frontier, 0, s, L)
      BY <3>3, LevelsBegin
    <3> QED BY <3>2, <3>4 DEF InLevels
  <2> HIDE DEF length, target, plan
  <2>8. UsesIterator(query') /\ cursor'.pattern \in 1..Len(All')
    BY <1>2, <1>3, <2>3
  <2>9. cursor'.edge \in 1..Len(Pattern'.edges)
    BY <1>1, <2>3, <2>5, <2>6
  <2>10. InPattern(graph', working', All', cursor'.pattern, bindings', cursor'.edge, cursor'.frontier)
    BY <1>2, <1>5, <2>3
  <2>11. InLevels(graph', working', Relationship', Target', cursor'.frontier, cursor'.current, cursor'.depth, cursor'.seen)
    BY <2>3, <2>5, <2>7
  <2>12. phase' # "root" /\ phase' # "evaluate"
    BY <2>1
  <2>13. Iterates'
    BY <2>8, <2>9, <2>10, <2>11, <2>12 DEF Iterates
  <2> QED BY <2>1, <2>4, <2>13
<1>7. CASE ~(edge < m /\ (edge = 0 \/ frontier # {}))
  <2>1. AtRoot(graph, loaded, All, k + 1, bindings')
    <3>1. edge + 1 \in 1..m + 1 /\ (edge + 1 = m + 1 \/ frontier = {})
      <4>1. edge <= m
        BY <1>1
      <4>2. m \in Nat
        BY <1>4
      <4> QED BY <4>1, <4>2, <1>7
    <3>2. \A i \in 1..m : SameLength(graph, loaded, p.edges[i].length)
      BY <1>4 DEF SameLength
    <3>3. PICK n, b : n = edge + 1 /\ b = bindings'
      OBVIOUS
    <3>4. InPattern(graph, loaded, All, k, b, n, frontier) /\ n \in 1..m + 1 /\ (n = m + 1 \/ frontier = {})
      BY <1>5, <3>1, <3>3
    <3>6. PICK all : all = All
      OBVIOUS
    <3>7. InPattern(graph, loaded, all, k, b, n, frontier) /\ p = all[k]
      BY <1>1, <3>4, <3>6 DEF Pattern
    <3>8. k \in Nat \ {0} /\ m \in Nat /\ Len(p.edges) = m /\ Len(p.nodes) = m + 1
      BY <1>1, <1>4
    <3>5. AtRoot(graph, loaded, all, k + 1, b)
      BY <3>2, <3>4, <3>7, <3>8, PatternDone
    <3> QED BY <3>3, <3>5, <3>6
  <2>2. CASE k < Len(All)
    <3>1. phase' = "root" /\ cursor' = [NoCursor EXCEPT !.pattern = k + 1]
      BY <1>1, <1>3, <1>7, <2>2, Zenon DEF Proceed
    <3>2. cursor'.pattern = k + 1
      BY <3>1 DEF NoCursor
    <3>3. CursorOK'
      <4>1. k + 1 \in Nat
        BY <1>4
      <4>2. cursor' \in Cursors(working'.nodes)
        BY <3>1, <4>1, RootCursor
      <4> QED BY <4>2 DEF CursorOK
    <3>4. cursor'.pattern \in 1..Len(All') /\ UsesIterator(query')
      BY <1>2, <1>4, <2>2, <3>2
    <3>5. AtRoot(graph', working', All', cursor'.pattern, bindings')
      BY <1>2, <2>1, <3>2
    <3>6. phase' # "expand" /\ phase' # "evaluate"
      BY <3>1
    <3>7. Iterates'
      BY <3>4, <3>5, <3>6 DEF Iterates
    <3> QED BY <3>1, <3>3, <3>7
  <2>3. CASE ~(k < Len(All))
    <3>1. phase' = "evaluate" /\ cursor' = NoCursor
      BY <1>1, <1>3, <1>7, <2>3, Zenon DEF Proceed
    <3>2. CursorOK'
      BY <3>1 DEF NoCursor, CursorOK, Cursors
    <3>3. k = Len(All)
      BY <1>3, <1>4, <2>3
    <3>4. (k + 1) - 1 = Len(All)
      BY <1>4, <3>3
    <3>5. PICK H : Recorded(graph, loaded, All, Len(All), H)
      BY <2>1, <3>4 DEF AtRoot
    <3>6. Enough(graph, loaded, query.branches[1])
      BY <1>1, <1>4, <3>5, RecordedEnough
    <3>7. \A b \in DOMAIN query'.branches : Enough(graph', working', query'.branches[b])
      BY <1>4, <3>6
    <3>8. phase' # "root" /\ phase' # "expand"
      BY <3>1
    <3>9. Iterates'
      BY <3>7, <3>8 DEF Iterates
    <3> QED BY <3>1, <3>2, <3>9
  <2> QED BY <2>2, <2>3
<1> QED BY <1>6, <1>7

\* What an answer is, unless the search for a shortest path gave it.
Answered ==
    /\ phase = "done" /\ query.shortest = <<>> /\ NoLossyKey(graph) => answer = Result(query, Rows(graph, FALSE, query))
    /\ phase \in {"shortest", "search"} => query.shortest # <<>>

\* The inductive invariant.
Inv ==
    /\ IsGraph(graph) /\ IsQuery(query) /\ IsPart(graph, working) /\ CursorOK /\ Holds(bindings, working)
    /\ phase \in {"plan", "root", "expand", "evaluate", "shortest", "search", "done", "failed"}
    /\ phase = "plan" => bindings = Only(<<>>, {}) /\ cursor = NoCursor
    /\ Iterates
    /\ Answered

\* A step of the iterator.
LEMMA IteratorStep ==
    ASSUME Inv, graph' = graph, query' = query, IsPart(graph, working'), CursorOK', Holds(bindings', working'),
           phase' \in {"root", "expand", "evaluate", "failed"}, Iterates'
    PROVE  Inv'
<1>1. IsGraph(graph') /\ IsQuery(query') /\ IsPart(graph', working')
  BY DEF Inv
<1>2. phase' # "plan" /\ phase' # "done" /\ phase' \notin {"shortest", "search"}
  OBVIOUS
<1>3. Answered'
  BY <1>2 DEF Answered
<1> QED BY <1>1, <1>2, <1>3 DEF Inv

\* A cursor stays one when more is loaded.
LEMMA CursorsMore ==
    ASSUME NEW A, NEW B, A \subseteq B, NEW c \in Cursors(A)
    PROVE  c \in Cursors(B)
BY DEF Cursors

\* A budget that is exceeded ends the query.
LEMMA FailKeeps ==
    ASSUME Inv, graph' = graph, query' = query, IsPart(graph, working'), More(working, working'), Fail
    PROVE  Inv'
<1>1. phase' = "failed" /\ bindings' = bindings /\ cursor' = cursor
  BY DEF Fail
<1>2. CursorOK'
  BY <1>1, CursorsMore DEF CursorOK, Inv, More
<1>3. Holds(bindings', working')
  BY <1>1 DEF Holds, Inv, More
<1>4. Iterates'
  BY <1>1 DEF Iterates
<1> QED BY <1>1, <1>2, <1>3, <1>4, IteratorStep

\* The root of a pattern.
LEMMA RootScanKeeps ==
    ASSUME Inv, RootScan
    PROVE  Inv'
<1> DEFINE k == cursor.pattern
           first == Pattern.nodes[1]
           plan == buildNodeScanPlan(first)
           bound == Bound(bindings, first.variable)
           scanned == UNION {ScanNodes(plan.labels, a) : a \in plan.alternatives}
           frontier == IF bound = {} THEN scanned
                       ELSE IF plan.empty THEN {} ELSE filterNodes(bound, plan.labels, plan.base)
<1>1. /\ phase = "root" /\ graph' = graph /\ query' = query
      /\ working' = IF bound = {} THEN Load(scanned, {}) ELSE working
      /\ IF OverBudget(working') THEN Fail
         ELSE bindings' = bind(first.variable, frontier) /\ Proceed(0, frontier)
  BY Zenon DEF RootScan, Bound
<1>2. /\ UsesIterator(query) /\ k \in 1..Len(All) /\ AtRoot(graph, working, All, k, bindings)
      /\ IsGraph(graph) /\ IsQuery(query) /\ IsPart(graph, working) /\ CursorOK /\ Holds(bindings, working)
  BY <1>1 DEF Inv, Iterates
<1>3. Pattern = All[k] /\ All = Patterns(query.branches[1])
  BY DEF Pattern, All
<1>4. scanned \subseteq Nodes
  BY DEF ScanNodes
<1>5. \A id \in Nodes : NodeAdmitted(graph.nodes[id], first) => ~plan.empty /\ id \in scanned
  BY AdmittedScanned
<1>6. \A id \in bound : NodeAdmitted(graph.nodes[id], first) => id \in filterNodes(bound, plan.labels, plan.base)
  BY AdmittedKept
<1>7. filterNodes(bound, plan.labels, plan.base) \subseteq bound
  BY FilterSubset
<1>8. bound \subseteq working.nodes
  BY <1>2 DEF Holds
<1>9. /\ DOMAIN query.branches = {1} /\ AreClauses(query.branches[1]) /\ ~iteratorFallback(query.branches[1])
      /\ k \in Nat \ {0} /\ Len(Pattern.edges) \in Nat /\ DOMAIN Pattern.nodes = 1..Len(Pattern.edges) + 1
  BY <1>2, <1>3, CursorPattern
<1>10. bound # {} => first.variable \in KnownBefore(All, k)
  <2>1. DOMAIN bindings \subseteq KnownBefore(All, k)
    BY <1>2 DEF AtRoot
  <2> QED BY <2>1 DEF Bound
<1>11. bound = Bound(bindings, first.variable) /\ first = Pattern.nodes[1]
  OBVIOUS
<1> HIDE DEF k, first, plan, bound, scanned
<1>12. PICK loaded : loaded = working'
  OBVIOUS
<1>13. More(working, loaded) /\ IsPart(graph, loaded) /\ frontier \subseteq loaded.nodes
  <2>1. CASE bound = {}
    <3>1. loaded = [nodes |-> working.nodes \cup scanned, edges |-> working.edges]
      BY <1>1, <1>12, <2>1 DEF Load
    <3>2. loaded.nodes = working.nodes \cup scanned /\ loaded.edges = working.edges
      BY <3>1
    <3>3. More(working, loaded) /\ IsPart(graph, loaded)
      BY <1>2, <1>4, <3>2 DEF More, IsPart, Nodes
    <3> QED BY <2>1, <3>2, <3>3
  <2>2. CASE bound # {}
    <3>1. loaded = working
      BY <1>1, <1>12, <2>2
    <3>2. More(working, loaded) /\ IsPart(graph, loaded)
      BY <1>2, <3>1 DEF More
    <3> QED BY <1>7, <1>8, <2>2, <3>1, <3>2
  <2> QED BY <2>1, <2>2
<1>14. \A id \in DOMAIN graph.nodes : NodeAdmitted(graph.nodes[id], first) =>
          \/ id \in frontier
          \/ first.variable \in KnownBefore(All, k) /\ id \notin Bound(bindings, first.variable)
  BY <1>5, <1>6, <1>10, <1>11 DEF Nodes
<1>15. CASE OverBudget(working')
  <2>1. Fail
    BY <1>1, <1>15
  <2> QED BY <1>1, <1>12, <1>13, <2>1, FailKeeps
<1>16. CASE ~OverBudget(working')
  <2> HIDE DEF frontier
  <2>1. bindings' = bind(first.variable, frontier) /\ Proceed(0, frontier)
    BY <1>1, <1>16
  <2>2. PICK b2, p : b2 = bindings' /\ p = All[k]
    OBVIOUS
  <2>3. /\ Grows(bindings, b2) /\ Knows(b2, first.variable, frontier)
        /\ DOMAIN b2 \subseteq DOMAIN bindings \cup Named(first.variable)
        /\ (Holds(bindings, loaded) => Holds(b2, loaded))
    BY <1>13, <2>1, <2>2, BindKnows
  <2>4. Holds(bindings, loaded)
    BY <1>2, <1>13 DEF Holds, More
  <2>5. AtRoot(graph, loaded, All, k, bindings)
    BY <1>2, <1>13, AtRootMore DEF IsPart
  <2>6. 1 \in DOMAIN p.nodes /\ p.nodes[1] = first
    BY <1>3, <1>9, <1>11, <2>2
  <2>7. InPattern(graph, loaded, All, k, b2, 1, frontier)
    BY <1>9, <1>13, <1>14, <2>2, <2>3, <2>4, <2>5, <2>6, RootReached
  <2>8. 0 \in Nat /\ 0 + 1 = 1 /\ 0 <= Len(Pattern.edges)
    BY <1>9
  <2>9. InPattern(graph, loaded, All, cursor.pattern, bindings', 0 + 1, frontier)
    BY <2>2, <2>7, <2>8 DEF k
  <2>10. phase' \in {"root", "expand", "evaluate"} /\ CursorOK' /\ Iterates'
    BY <1>1, <1>2, <1>12, <1>13, <2>1, <2>8, <2>9, ProceedKeeps DEF k
  <2>11. Holds(bindings', working') /\ IsPart(graph, working')
    BY <1>12, <1>13, <2>2, <2>3, <2>4
  <2> QED BY <1>1, <2>10, <2>11, IteratorStep
<1> QED BY <1>15, <1>16

\* The facts of an expansion in progress.
LEMMA InExpansion ==
    ASSUME Inv, phase = "expand",
           NEW k, k = cursor.pattern, NEW p, p = All[k], NEW e, e = cursor.edge
    PROVE  /\ UsesIterator(query) /\ k \in 1..Len(All) /\ k \in Nat \ {0} /\ Pattern = p
           /\ IsGraph(graph) /\ IsQuery(query) /\ IsPart(graph, working) /\ CursorOK /\ Holds(bindings, working)
           /\ Len(p.edges) \in Nat /\ e \in 1..Len(p.edges) /\ e + 1 \in DOMAIN p.nodes
           /\ Relationship = p.edges[e] /\ Target = p.nodes[e + 1]
           /\ IsLength(p.edges[e].length) /\ Len(p.edges[e].length) # 1
           /\ InPattern(graph, working, All, k, bindings, e, cursor.frontier)
           /\ InLevels(graph, working, p.edges[e], p.nodes[e + 1], cursor.frontier, cursor.current, cursor.depth, cursor.seen)
           /\ cursor.depth \in Nat /\ cursor.frontier \subseteq working.nodes
           /\ cursor.current \subseteq working.nodes /\ cursor.seen \subseteq working.nodes
<1>1. Pattern = p /\ Relationship = p.edges[e] /\ Target = p.nodes[e + 1] /\ All = Patterns(query.branches[1])
  BY DEF Pattern, All, Relationship, Target
<1>2. /\ UsesIterator(query) /\ k \in 1..Len(All)
      /\ IsGraph(graph) /\ IsQuery(query) /\ IsPart(graph, working) /\ CursorOK /\ Holds(bindings, working)
      /\ e \in 1..Len(p.edges)
      /\ InPattern(graph, working, All, k, bindings, e, cursor.frontier)
      /\ InLevels(graph, working, p.edges[e], p.nodes[e + 1], cursor.frontier, cursor.current, cursor.depth, cursor.seen)
  BY <1>1 DEF Inv, Iterates
<1>3. /\ k \in Nat \ {0} /\ Len(p.edges) \in Nat /\ DOMAIN p.nodes = 1..Len(p.edges) + 1
      /\ \A i \in 1..Len(p.edges) : IsLength(p.edges[i].length) /\ Len(p.edges[i].length) # 1
  <2>1. PICK all : all = All
    OBVIOUS
  <2>2. IsQuery(query) /\ UsesIterator(query) /\ all = Patterns(query.branches[1]) /\ k \in 1..Len(all) /\ p = all[k]
    BY <1>1, <1>2, <2>1
  <2>3. CursorShape(query, all, k, p)
    BY <2>2, CursorShaped
  <2> QED BY <2>3 DEF CursorShape
<1>4. /\ cursor.depth \in Nat /\ cursor.frontier \subseteq working.nodes
      /\ cursor.current \subseteq working.nodes /\ cursor.seen \subseteq working.nodes
  BY <1>2 DEF CursorOK, Cursors
<1>5. e + 1 \in DOMAIN p.nodes
  BY <1>2, <1>3
<1> QED BY <1>1, <1>2, <1>3, <1>4, <1>5

\* A cursor that moves one level on.
Deeper(c, f, s) == [c EXCEPT !.depth = @ + 1, !.current = f, !.seen = @ \cup s]

Deepened(c, f, s, nodes, c2) ==
    /\ c2 \in Cursors(nodes) /\ c2.pattern = c.pattern /\ c2.edge = c.edge /\ c2.frontier = c.frontier
    /\ c2.depth = c.depth + 1 /\ c2.current = f /\ c2.seen = c.seen \cup s

\* It stays on its relationship.
LEMMA DeeperCursor ==
    ASSUME NEW A, NEW B, A \subseteq B, NEW c \in Cursors(A), NEW f \in SUBSET B, NEW s \in SUBSET B, NEW c2,
           c2 = Deeper(c, f, s)
    PROVE  Deepened(c, f, s, B, c2)
<1> DEFINE R(f0, c0, s0) ==
        [pattern : Nat, edge : Nat, depth : Nat, frontier : SUBSET f0, current : SUBSET c0, seen : SUBSET s0]
<1>1. c \in R(B, B, B)
  BY DEF Cursors
<1> DEFINE d1 == [c EXCEPT !.depth = c.depth + 1]
<1>2. /\ d1 \in R(B, B, B) /\ d1.pattern = c.pattern /\ d1.edge = c.edge /\ d1.frontier = c.frontier
      /\ d1.depth = c.depth + 1 /\ d1.seen = c.seen
  BY <1>1
<1> HIDE DEF d1
<1> DEFINE d2 == [d1 EXCEPT !.current = f]
<1>3. /\ d2 \in R(B, B, B) /\ d2.pattern = c.pattern /\ d2.edge = c.edge /\ d2.frontier = c.frontier
      /\ d2.depth = c.depth + 1 /\ d2.current = f /\ d2.seen = c.seen
  BY <1>2
<1> HIDE DEF d2
<1> DEFINE d3 == [d2 EXCEPT !.seen = c.seen \cup s]
<1>4. /\ d3 \in R(B, B, B) /\ d3.pattern = c.pattern /\ d3.edge = c.edge /\ d3.frontier = c.frontier
      /\ d3.depth = c.depth + 1 /\ d3.current = f /\ d3.seen = c.seen \cup s
  <2>1. c.seen \cup s \in SUBSET B
    BY <1>1
  <2> QED BY <1>3, <2>1
<1>5. c2 = d3
  BY Zenon DEF d1, d2, d3, Deeper
<1> HIDE DEF d3
<1> QED BY <1>4, <1>5 DEF Cursors, Deepened

\* One level of an expansion.
LEMMA ExpandLevelKeeps ==
    ASSUME Inv, ExpandLevel
    PROVE  Inv'
<1> DEFINE r == Relationship
           target == Target
           edges == scanAdjacent(cursor.current, r)
           reached == UNION {edgeTargets(graph.edges[e], r.direction, cursor.current) : e \in edges}
           plan == buildNodeScanPlan(target)
           hits == IF cursor.depth + 1 >= lower(r.length) THEN filterNodes(reached, plan.labels, plan.base) ELSE {}
<1>1. /\ phase = "expand" /\ graph' = graph /\ query' = query
      /\ working' = Load(reached, edges)
      /\ IF OverBudget(working') THEN Fail
         ELSE /\ cursor' = [cursor EXCEPT !.depth = @ + 1, !.current = reached, !.seen = @ \cup hits]
              /\ phase' = phase /\ bindings' = bindings
  BY Zenon DEF ExpandLevel, Fetched
<1>2. PICK k, p, e : k = cursor.pattern /\ p = All[k] /\ e = cursor.edge
  OBVIOUS
<1>3. /\ UsesIterator(query) /\ k \in 1..Len(All) /\ k \in Nat \ {0} /\ Pattern = p
      /\ IsGraph(graph) /\ IsQuery(query) /\ IsPart(graph, working) /\ CursorOK /\ Holds(bindings, working)
      /\ Len(p.edges) \in Nat /\ e \in 1..Len(p.edges) /\ e + 1 \in DOMAIN p.nodes
      /\ r = p.edges[e] /\ target = p.nodes[e + 1]
      /\ IsLength(r.length) /\ Len(r.length) # 1
      /\ InPattern(graph, working, All, k, bindings, e, cursor.frontier)
      /\ InLevels(graph, working, r, target, cursor.frontier, cursor.current, cursor.depth, cursor.seen)
      /\ cursor.depth \in Nat /\ cursor.frontier \subseteq working.nodes
      /\ cursor.current \subseteq working.nodes /\ cursor.seen \subseteq working.nodes
  BY <1>1, <1>2, InExpansion
<1>4. /\ reached \subseteq Nodes /\ edges \subseteq AllEdges
      /\ \A x \in edges : {graph.edges[x].from, graph.edges[x].to} \subseteq cursor.current \cup reached
  <2>1. PICK C, D, t : C = cursor.current /\ D = reached /\ t = r
    OBVIOUS
  <2>2. D = Ends(C, t) /\ edges = scanAdjacent(C, t)
    BY <2>1 DEF Ends
  <2>3. /\ D \subseteq Nodes /\ scanAdjacent(C, t) \subseteq AllEdges
        /\ \A x \in scanAdjacent(C, t) : {graph.edges[x].from, graph.edges[x].to} \subseteq C \cup D
    BY <1>3, <2>2, AdjacentPart
  <2> HIDE DEF reached, edges, r
  <2> QED BY <2>1, <2>2, <2>3
<1>5. filterNodes(reached, plan.labels, plan.base) \subseteq reached
  BY FilterSubset
<1>6. \A y \in reached : NodeAdmitted(graph.nodes[y], target) => y \in filterNodes(reached, plan.labels, plan.base)
  BY AdmittedKept
<1>7. PICK loaded : loaded = working'
  OBVIOUS
<1>8. loaded.nodes = working.nodes \cup reached /\ loaded.edges = working.edges \cup edges
  BY <1>1, <1>7 DEF Load
<1>9. LevelStep(graph, loaded, r, cursor.current, reached)
  <2>1. scanAdjacent(cursor.current, r) \subseteq loaded.edges
    BY <1>8
  <2>2. reached = Ends(cursor.current, r)
    BY DEF Ends
  <2> QED BY <2>1, <2>2, AdjacentLevel
<1> HIDE DEF r, target, edges, reached, plan
<1>10. More(working, loaded) /\ IsPart(graph, loaded)
  BY <1>3, <1>4, <1>8 DEF More, IsPart, Nodes, AllEdges
<1>11. hits \subseteq reached /\ reached \subseteq loaded.nodes
  BY <1>5, <1>8
<1>12. lower(r.length) <= cursor.depth + 1 => \A y \in reached : NodeAdmitted(graph.nodes[y], target) => y \in hits
  <2>1. lower(r.length) \in Nat
    BY <1>3, Bounds
  <2> QED BY <1>3, <1>6, <2>1
<1> HIDE DEF hits
<1>13. CASE OverBudget(working')
  <2>1. Fail
    BY <1>1, <1>13
  <2> QED BY <1>1, <1>7, <1>10, <2>1, FailKeeps
<1>14. CASE ~OverBudget(working')
  <2>1. /\ cursor' = [cursor EXCEPT !.depth = @ + 1, !.current = reached, !.seen = @ \cup hits]
        /\ phase' = "expand" /\ bindings' = bindings
    BY <1>1, <1>14
  <2>2. /\ cursor' \in Cursors(loaded.nodes)
        /\ cursor'.pattern = k /\ cursor'.edge = e /\ cursor'.frontier = cursor.frontier
        /\ cursor'.depth = cursor.depth + 1 /\ cursor'.current = reached /\ cursor'.seen = cursor.seen \cup hits
    <3>1. PICK c2 : c2 = cursor'
      OBVIOUS
    <3>2. hits \in SUBSET loaded.nodes /\ reached \in SUBSET loaded.nodes /\ working.nodes \subseteq loaded.nodes
      BY <1>8, <1>11
    <3>3. cursor \in Cursors(working.nodes)
      BY <1>3 DEF CursorOK
    <3>4. /\ c2 \in Cursors(loaded.nodes) /\ c2.pattern = cursor.pattern /\ c2.edge = cursor.edge
          /\ c2.frontier = cursor.frontier
          /\ c2.depth = cursor.depth + 1 /\ c2.current = reached /\ c2.seen = cursor.seen \cup hits
      <4>1. c2 = Deeper(cursor, reached, hits)
        BY <2>1, <3>1, Zenon DEF Deeper
      <4>2. PICK A, B, c, f, h : A = working.nodes /\ B = loaded.nodes /\ c = cursor /\ f = reached /\ h = hits
        OBVIOUS
      <4>3. A \subseteq B /\ c \in Cursors(A) /\ f \in SUBSET B /\ h \in SUBSET B /\ c2 = Deeper(c, f, h)
        BY <3>2, <3>3, <4>1, <4>2
      <4>4. Deepened(c, f, h, B, c2)
        BY <4>3, DeeperCursor
      <4> QED BY <4>2, <4>4 DEF Deepened
    <3> QED BY <1>2, <3>1, <3>4
  <2>3. CursorOK'
    BY <1>7, <2>2 DEF CursorOK
  <2>4. InPattern(graph, loaded, All, k, bindings, e, cursor.frontier)
    <3>1. k \in Nat /\ e \in Nat /\ loaded.edges \subseteq DOMAIN graph.edges
      BY <1>3, <1>10 DEF IsPart
    <3> QED BY <1>3, <1>10, <3>1, InPatternMore
  <2>5. InLevels(graph, loaded, r, target, cursor.frontier, reached, cursor.depth + 1, cursor.seen \cup hits)
    <3>1. PICK X, current, depth, seen : X = cursor.frontier /\ current = cursor.current /\ depth = cursor.depth /\ seen = cursor.seen
      OBVIOUS
    <3>2. PICK L : Levels(graph, working, r, target, X, current, depth, seen, L)
      BY <1>3, <3>1 DEF InLevels
    <3>3. Levels(graph, loaded, r, target, X, current, depth, seen, L)
      BY <1>10, <3>2, LevelsMore
    <3>4. PICK more : more = seen \cup hits
      OBVIOUS
    <3>5. /\ depth \in Nat /\ seen \subseteq more /\ LevelStep(graph, loaded, r, current, reached)
          /\ (lower(r.length) <= depth + 1 => \A y \in reached : NodeAdmitted(graph.nodes[y], target) => y \in more)
      BY <1>3, <1>9, <1>12, <3>1, <3>4
    <3>6. \E L2 : Levels(graph, loaded, r, target, X, reached, depth + 1, more, L2)
      BY <1>11, <3>3, <3>5, LevelsNext
    <3> QED BY <3>1, <3>4, <3>6 DEF InLevels
  <2>6. All' = All
    BY <1>1 DEF All
  <2>7. Pattern' = p /\ Relationship' = r /\ Target' = target
    <3>1. Pattern' = p
      BY <1>1, <1>2, <2>2, <2>6 DEF Pattern, All
    <3> QED BY <1>3, <2>2, <3>1 DEF Relationship, Target
  <2>8. UsesIterator(query') /\ cursor'.pattern \in 1..Len(All')
    BY <1>1, <1>3, <2>2, <2>6
  <2>9. cursor'.edge \in 1..Len(Pattern'.edges)
    BY <1>3, <2>2, <2>7
  <2>10. InPattern(graph', working', All', cursor'.pattern, bindings', cursor'.edge, cursor'.frontier)
    BY <1>1, <1>7, <2>1, <2>2, <2>4, <2>6
  <2>11. InLevels(graph', working', Relationship', Target', cursor'.frontier, cursor'.current, cursor'.depth, cursor'.seen)
    BY <1>1, <1>7, <2>2, <2>5, <2>7
  <2>12. phase' # "root" /\ phase' # "evaluate"
    BY <2>1
  <2>13. Iterates'
    BY <2>8, <2>9, <2>10, <2>11, <2>12 DEF Iterates
  <2>14. Holds(bindings', working') /\ IsPart(graph, working')
    BY <1>3, <1>7, <1>10, <2>1 DEF Holds, More
  <2> QED BY <1>1, <2>1, <2>3, <2>13, <2>14, IteratorStep
<1> QED BY <1>13, <1>14

\* Under an upper bound, the length of a relationship does not depend on the
\* graph.
LEMMA SameUpper ==
    ASSUME NEW length, Len(length) # 1, NEW x, NEW y
    PROVE  upper(length, x) = upper(length, y)
<1>1. CASE length = <<>>
  BY <1>1 DEF upper
<1>2. CASE length # <<>>
  BY <1>2 DEF upper
<1> QED BY <1>1, <1>2

\* The end of an expansion.
LEMMA ExpandEndKeeps ==
    ASSUME Inv, ExpandEnd
    PROVE  Inv'
<1> DEFINE r == Relationship
           target == Target
<1>1. /\ phase = "expand" /\ graph' = graph /\ query' = query /\ working' = working
      /\ Exhausted /\ bindings' = bind(target.variable, cursor.seen) /\ Proceed(cursor.edge, cursor.seen)
  BY DEF ExpandEnd
<1>2. PICK k, p, e : k = cursor.pattern /\ p = All[k] /\ e = cursor.edge
  OBVIOUS
<1>3. /\ UsesIterator(query) /\ k \in 1..Len(All) /\ k \in Nat \ {0} /\ Pattern = p
      /\ IsGraph(graph) /\ IsQuery(query) /\ IsPart(graph, working) /\ CursorOK /\ Holds(bindings, working)
      /\ Len(p.edges) \in Nat /\ e \in 1..Len(p.edges) /\ e + 1 \in DOMAIN p.nodes
      /\ r = p.edges[e] /\ target = p.nodes[e + 1]
      /\ IsLength(r.length) /\ Len(r.length) # 1
      /\ InPattern(graph, working, All, k, bindings, e, cursor.frontier)
      /\ InLevels(graph, working, r, target, cursor.frontier, cursor.current, cursor.depth, cursor.seen)
      /\ cursor.depth \in Nat /\ cursor.frontier \subseteq working.nodes
      /\ cursor.current \subseteq working.nodes /\ cursor.seen \subseteq working.nodes
  BY <1>1, <1>2, InExpansion
<1>4. PICK most : most = upper(r.length, Cardinality(DOMAIN graph.edges))
  OBVIOUS
<1>5. most \in Nat /\ (most <= cursor.depth \/ cursor.current = {})
  <2>1. most = upper(r.length, MaxDepth)
    BY <1>3, <1>4, SameUpper
  <2>2. upper(r.length, MaxDepth) \in Nat
    BY <1>3, Bounds, ReadAssumption
  <2>3. cursor.depth >= upper(r.length, MaxDepth) \/ cursor.current = {}
    BY <1>1 DEF Exhausted, Longest
  <2> QED BY <1>3, <2>1, <2>2, <2>3
<1> HIDE DEF r, target
<1>6. PICK X, Y, b2 : X = cursor.frontier /\ Y = cursor.seen /\ b2 = bindings'
  OBVIOUS
<1>7. Covers(graph, working, r, target, X, Y)
  <2>1. PICK current, depth : current = cursor.current /\ depth = cursor.depth
    OBVIOUS
  <2>2. PICK L : Levels(graph, working, r, target, X, current, depth, Y, L)
    BY <1>3, <1>6, <2>1 DEF InLevels
  <2>3. depth \in Nat /\ (most <= depth \/ current = {})
    BY <1>3, <1>5, <2>1
  <2> QED BY <1>4, <1>5, <2>2, <2>3, LevelsEnd
<1>8. /\ Grows(bindings, b2) /\ Knows(b2, target.variable, Y)
      /\ DOMAIN b2 \subseteq DOMAIN bindings \cup Named(target.variable)
      /\ (Holds(bindings, working) /\ Y \subseteq working.nodes => Holds(b2, working))
  BY <1>1, <1>6, BindKnows
<1>9. InPattern(graph, working, All, k, b2, e + 1, Y)
  <2>1. e \in Nat \ {0} /\ Y \in SUBSET working.nodes /\ Holds(b2, working) /\ InPattern(graph, working, All, k, bindings, e, X)
    BY <1>3, <1>6, <1>8
  <2>2. /\ Covers(graph, working, p.edges[e], p.nodes[e + 1], X, Y) /\ Knows(b2, p.nodes[e + 1].variable, Y)
        /\ DOMAIN b2 \subseteq DOMAIN bindings \cup Named(p.nodes[e + 1].variable)
    BY <1>3, <1>7, <1>8
  <2> QED BY <1>2, <1>3, <1>8, <2>1, <2>2, NextReached
<1>10. phase' \in {"root", "expand", "evaluate"} /\ CursorOK' /\ Iterates'
  <2>1. e \in Nat /\ e <= Len(Pattern.edges) /\ Y \in SUBSET working.nodes
    BY <1>3, <1>6
  <2>2. InPattern(graph, working, All, cursor.pattern, bindings', e + 1, Y) /\ Proceed(e, Y)
    BY <1>1, <1>2, <1>6, <1>9
  <2> QED BY <1>1, <1>2, <1>3, <2>1, <2>2, ProceedKeeps
<1>11. Holds(bindings', working') /\ IsPart(graph, working')
  BY <1>1, <1>3, <1>6, <1>8
<1> QED BY <1>1, <1>10, <1>11, IteratorStep

\* The depth budget ends the query.
LEMMA RefuseDepthKeeps ==
    ASSUME Inv, RefuseDepth
    PROVE  Inv'
<1>1. Fail /\ graph' = graph /\ query' = query /\ working' = working
  BY DEF RefuseDepth
<1>2. IsPart(graph, working') /\ More(working, working')
  BY <1>1 DEF Inv, More
<1> QED BY <1>1, <1>2, FailKeeps

-----------------------------------------------------------------------------
(* The other actions.                                                      *)

\* Before anything is known.
LEMMA NothingKnown ==
    ASSUME NEW b, b = Only(<<>>, {}), NEW loaded
    PROVE  DOMAIN b = {} /\ Holds(b, loaded) /\ Grows(b, b)
<1>1. DOMAIN b = {}
  BY DEF Only
<1>2. \A v : Bound(b, v) = {}
  BY <1>1 DEF Bound
<1> QED BY <1>1, <1>2 DEF Holds, Grows

\* The cursor at rest.
LEMMA CursorAtRest ==
    ASSUME NEW A, NEW k \in Nat
    PROVE  /\ NoCursor \in Cursors(A) /\ [NoCursor EXCEPT !.pattern = k] \in Cursors(A)
           /\ [NoCursor EXCEPT !.pattern = k].pattern = k
BY DEF NoCursor, Cursors

\* The initial states.
LEMMA InitInv ==
    ASSUME Init
    PROVE  Inv
<1>1. IsGraph(graph) /\ IsQuery(query)
  BY ReadAssumption DEF Init
<1>2. /\ phase = "plan" /\ working = [nodes |-> {}, edges |-> {}] /\ bindings = Only(<<>>, {}) /\ cursor = NoCursor
  BY DEF Init
<1>3. IsPart(graph, working)
  BY <1>2 DEF IsPart
<1>4. CursorOK
  BY <1>2, CursorAtRest DEF CursorOK
<1>5. Holds(bindings, working)
  BY <1>2, NothingKnown
<1>6. Iterates /\ Answered
  BY <1>2 DEF Iterates, Answered
<1> QED BY <1>1, <1>2, <1>3, <1>4, <1>5, <1>6 DEF Inv

\* The iterator begins with the first pattern.
LEMMA OpenIteratorKeeps ==
    ASSUME Inv, OpenIterator
    PROVE  Inv'
<1>1. /\ phase = "plan" /\ UsesIterator(query) /\ phase' = "root" /\ cursor' = [NoCursor EXCEPT !.pattern = 1]
      /\ graph' = graph /\ query' = query /\ working' = working /\ bindings' = bindings
  BY DEF OpenIterator
<1>2. IsGraph(graph) /\ IsQuery(query) /\ IsPart(graph, working) /\ Holds(bindings, working) /\ bindings = Only(<<>>, {})
  BY <1>1 DEF Inv
<1>3. cursor'.pattern = 1 /\ CursorOK'
  BY <1>1, CursorAtRest DEF CursorOK
<1>4. All' = All
  BY <1>1 DEF All
<1>5. Len(All) \in Nat /\ Len(All) # 0
  <2>1. ~iteratorFallback(query.branches[1]) /\ Len(query.branches) = 1 /\ All # <<>>
    BY <1>1 DEF UsesIterator, All
  <2>2. AreClauses(query.branches[1])
    BY <1>2, <2>1, QueryClauses
  <2> QED BY <2>1, <2>2, IteratorPattern DEF All
<1>6. AtRoot(graph, working, All, 1, bindings)
  <2> DEFINE H == [i \in Nat |-> bindings]
  <2>1. \A i \in Nat : H[i] = bindings
    OBVIOUS
  <2> HIDE DEF H
  <2>2. Grows(bindings, bindings) /\ DOMAIN bindings = {}
    BY <1>2, NothingKnown
  <2>3. 1 - 1 = 0 /\ 1..1 - 1 = {} /\ 1..0 = {}
    OBVIOUS
  <2>4. Recorded(graph, working, All, 1 - 1, H)
    BY <1>2, <2>1, <2>2, <2>3 DEF Recorded
  <2> QED BY <2>1, <2>2, <2>4 DEF AtRoot
<1>7. cursor'.pattern \in 1..Len(All')
  BY <1>3, <1>4, <1>5
<1>8. AtRoot(graph', working', All', cursor'.pattern, bindings')
  BY <1>1, <1>3, <1>4, <1>6
<1>9. Iterates'
  BY <1>1, <1>7, <1>8 DEF Iterates
<1> QED BY <1>1, <1>2, <1>3, <1>9, IteratorStep

\* A working set that covers every pattern is enough.
LEMMA LoadedKeeps ==
    ASSUME Inv, phase = "plan", graph' = graph, query' = query, bindings' = bindings, cursor' = cursor,
           phase' = "evaluate", NEW loaded, working' = loaded, IsPart(graph, loaded),
           \A b \in DOMAIN query.branches : \A p \in Range(Patterns(query.branches[b])) : CoveredByAll(graph, loaded, p)
    PROVE  Inv'
<1>1. IsGraph(graph) /\ IsQuery(query) /\ cursor = NoCursor /\ bindings = Only(<<>>, {})
  BY DEF Inv
<1>2. CursorOK'
  BY <1>1, CursorAtRest DEF CursorOK
<1>3. Holds(bindings', working')
  BY <1>1, NothingKnown
<1>4. \A b \in DOMAIN query.branches : Enough(graph, loaded, query.branches[b])
  <2> TAKE b \in DOMAIN query.branches
  <2>1. AreClauses(query.branches[b])
    BY <1>1, QueryClauses
  <2>2. PICK clauses : clauses = query.branches[b]
    OBVIOUS
  <2>3. \A n \in DOMAIN clauses : \A j \in DOMAIN clauses[n].patterns : clauses[n].patterns[j] \in Range(Patterns(clauses))
    BY <2>1, <2>2, InList
  <2>4. \A n \in DOMAIN clauses : \A j \in DOMAIN clauses[n].patterns : CoveredByAll(graph, loaded, clauses[n].patterns[j])
    BY <2>2, <2>3
  <2> QED BY <2>1, <2>2, <2>4, CoveredEnough
<1>5. Iterates'
  BY <1>4 DEF Iterates
<1> QED BY <1>2, <1>3, <1>5, IteratorStep

\* The complete snapshot.
LEMMA LoadGraphKeeps ==
    ASSUME Inv, LoadGraph
    PROVE  Inv'
<1>1. /\ phase = "plan" /\ graph' = graph /\ query' = query /\ bindings' = bindings /\ cursor' = cursor
      /\ phase' = "evaluate" /\ working' = [nodes |-> Nodes, edges |-> AllEdges]
  BY DEF LoadGraph
<1>2. IsGraph(graph)
  BY DEF Inv
<1>3. PICK loaded : loaded = [nodes |-> Nodes, edges |-> AllEdges]
  OBVIOUS
<1>4. loaded.nodes = DOMAIN graph.nodes /\ loaded.edges = DOMAIN graph.edges
  BY <1>3 DEF Nodes, AllEdges
<1>5. IsPart(graph, loaded)
  BY <1>2, <1>4 DEF IsPart, IsGraph
<1>6. \A p : CoveredByAll(graph, loaded, p)
  BY <1>2, <1>4, SnapshotCovers
<1> QED BY <1>1, <1>3, <1>5, <1>6, LoadedKeeps

\* Single nodes, by their base predicate.
LEMMA LoadNodesKeeps ==
    ASSUME Inv, LoadNodeWorkingSet
    PROVE  Inv'
<1> DEFINE scan(x) == ScanNodes(buildNodeScanPlan(x).labels, buildNodeScanPlan(x).base)
<1>1. /\ phase = "plan" /\ graph' = graph /\ query' = query /\ bindings' = bindings /\ cursor' = cursor
      /\ phase' = "evaluate" /\ UsesNodeScan(query)
      /\ working' = [nodes |-> UNION {scan(x) : x \in NodePatterns(query)}, edges |-> {}]
  BY Zenon DEF LoadNodeWorkingSet
<1>2. \A x : scan(x) \subseteq DOMAIN graph.nodes
  BY DEF ScanNodes, Nodes
<1>3. \A x : \A id \in DOMAIN graph.nodes : NodeAdmitted(graph.nodes[id], x) => id \in scan(x)
  BY AdmittedScanned DEF Nodes
<1> HIDE DEF scan
<1>4. PICK loaded : loaded = [nodes |-> UNION {scan(x) : x \in NodePatterns(query)}, edges |-> {}]
  OBVIOUS
<1>5. loaded.edges = {} /\ loaded.nodes \subseteq DOMAIN graph.nodes /\ \A x \in NodePatterns(query) : scan(x) \subseteq loaded.nodes
  BY <1>2, <1>4
<1>6. IsPart(graph, loaded)
  BY <1>5 DEF IsPart
<1>7. ASSUME NEW b \in DOMAIN query.branches, NEW p \in Range(Patterns(query.branches[b]))
      PROVE  CoveredByAll(graph, loaded, p)
  <2>1. p.edges = <<>>
    BY <1>1, <1>7 DEF UsesNodeScan
  <2>2. p.nodes[1] \in NodePatterns(query)
    BY <1>7 DEF NodePatterns
  <2>3. 1..Len(p.edges) = {}
    BY <2>1, EmptyLength, SmallIntervals
  <2>4. \A id \in DOMAIN graph.nodes : NodeAdmitted(graph.nodes[id], p.nodes[1]) => id \in loaded.nodes
    BY <1>3, <1>5, <2>2
  <2> QED BY <2>3, <2>4 DEF CoveredByAll
<1>8. working' = loaded
  BY <1>1, <1>4
<1> QED BY <1>1, <1>6, <1>7, <1>8, LoadedKeeps

\* A step that changes nothing but the phase, the search and the answer.
LEMMA AnswerStep ==
    ASSUME Inv, graph' = graph, query' = query, working' = working, bindings' = bindings, cursor' = cursor,
           phase' \in {"shortest", "search", "done"}, Answered'
    PROVE  Inv'
<1>1. CursorOK'
  BY DEF CursorOK, Inv
<1>2. Iterates'
  BY DEF Iterates
<1> QED BY <1>1, <1>2 DEF Inv

\* The evaluation over what was loaded.
LEMMA ExecuteKeeps ==
    ASSUME Inv, Execute
    PROVE  Inv'
<1> DEFINE rows == Rows(WorkingGraph, TRUE, query)
<1>1. /\ phase = "evaluate" /\ graph' = graph /\ query' = query /\ working' = working
      /\ bindings' = bindings /\ cursor' = cursor
      /\ \/ answer' = Result(query, rows) /\ phase' = "done"
         \/ query.shortest # <<>> /\ phase' = "shortest"
  BY DEF Execute
<1>2. IsGraph(graph) /\ IsQuery(query) /\ IsPart(graph, working)
      /\ \A b \in DOMAIN query.branches : Enough(graph, working, query.branches[b])
  BY <1>1 DEF Inv, Iterates
<1>3. WorkingGraph = GraphOf(graph, working)
  BY DEF WorkingGraph, GraphOf
<1>4. NoLossyKey(graph) => rows = Rows(graph, FALSE, query)
  BY <1>2, <1>3, SameRows
<1> HIDE DEF rows
<1>5. Answered'
  BY <1>1, <1>4 DEF Answered
<1> QED BY <1>1, <1>5, AnswerStep

\* The search for shortest paths.
LEMMA SearchKeeps ==
    ASSUME Inv, GenericShortest \/ BeginSearch \/ SearchFrom \/ SearchLevel \/ SearchEnd \/ FinishShortest
    PROVE  Inv'
<1>1. /\ phase \in {"shortest", "search"} /\ phase' \in {"shortest", "search", "done"}
      /\ graph' = graph /\ query' = query /\ working' = working /\ bindings' = bindings /\ cursor' = cursor
  BY DEF GenericShortest, BeginSearch, SearchFrom, SearchLevel, SearchEnd, FinishShortest
<1>2. query.shortest # <<>>
  BY <1>1 DEF Inv, Answered
<1>3. Answered'
  BY <1>1, <1>2 DEF Answered
<1> QED BY <1>1, <1>3, AnswerStep

-----------------------------------------------------------------------------
(* The count that the store takes.                                         *)

\* Two sets in bijection have the same number of elements.
LEMMA SameCount ==
    ASSUME NEW S, IsFiniteSet(S), NEW T, NEW f \in [S -> T],
           \A x, y \in S : f[x] = f[y] => x = y,
           \A t \in T : \E x \in S : f[x] = t
    PROVE  Cardinality(T) = Cardinality(S)
<1>1. f \in Bijection(S, T)
  BY DEF Bijection, Injection, Surjection, IsInjective
<1>2. ExistsBijection(S, T)
  BY <1>1 DEF ExistsBijection
<1> QED BY <1>2, FS_Bijection

\* The match and the row of a query of one node.
FirstOf(variable, id) ==
    [row |-> Bind(NoMatch.row, variable, NodeValue(id)), path |-> [nodes |-> <<id>>, edges |-> <<>>]]
Traced(x) == [row |-> x.row, trace |-> Append(NoMatch.trace, x.path)]
RowOf(variable, id) == <<1, Traced(FirstOf(variable, id))>>

\* The nodes that match, and what the store counts for them.
Matching(g, row, node) == {id \in DOMAIN g.nodes : nodePatternMatches(g, row, id, node)}
Counted(plan) == {x \in plan.alternatives \X Nodes : x[2] \in ScanNodes(plan.labels, x[1])}

\* Different nodes give different rows.
LEMMA RowsDiffer ==
    ASSUME NEW variable, NEW id, NEW other, RowOf(variable, id) = RowOf(variable, other)
    PROVE  id = other
<1> DEFINE P(i) == [nodes |-> <<i>>, edges |-> <<>>]
<1>1. RowOf(variable, id)[2].trace = RowOf(variable, other)[2].trace
  OBVIOUS
<1>2. \A i : RowOf(variable, i)[2].trace = Append(<<>>, P(i))
  BY DEF RowOf, Traced, FirstOf, NoMatch
<1>3. \A i : Append(<<>>, P(i))[1] = P(i) /\ P(i).nodes[1] = i
  OBVIOUS
<1> HIDE DEF P
<1> QED BY <1>1, <1>2, <1>3

MatchPerNode(matches, v, M) == \A y : y \in matches <=> \E id \in M : y = Traced(FirstOf(v, id))

\* One node: each that matches, once.
LEMMA OneNodeMatches ==
    ASSUME NEW g, NEW p, Len(p.edges) = 0, NEW node, node = p.nodes[1],
           NEW M, M = Matching(g, NoMatch.row, node), NEW v, v = node.variable
    PROVE  MatchPerNode(Extended(g, Scanned, NoMatch, p), v, M)
<1> SUFFICES ASSUME NEW y
             PROVE  y \in Extended(g, Scanned, NoMatch, p) <=> \E id \in M : y = Traced(FirstOf(v, id))
  BY DEF MatchPerNode
<1> DEFINE row == NoMatch.row
           first == {[row |-> Bind(row, v, NodeValue(id)), path |-> [nodes |-> <<id>>, edges |-> <<>>]] :
                        id \in {x \in M : CanBind(row, v, NodeValue(x))}}
<1>1. DOMAIN row = {} /\ row = NoMatch.row
  BY DEF NoMatch, Only
<1>2. AllCandidates(g, row, node) = M
  BY <1>1 DEF AllCandidates, IsBound, Matching
<1>3. Candidates(Scanned, g, row, node) = M
  BY <1>2 DEF Candidates, Scanned
<1> HIDE DEF row
<1>4. \A id : CanBind(row, v, NodeValue(id))
  BY <1>1 DEF CanBind
<1>5. matchPattern(g, row, p, M) = extendPattern(g, p, first)
  BY Zenon DEF matchPattern
<1>6. \A x : x \in first <=> \E id \in M : x = FirstOf(v, id)
  BY <1>1, <1>4 DEF FirstOf
<1> HIDE DEF first
<1>7. extendPattern(g, p, first) = first
  <2>1. PICK n \in Nat : n = Len(p.edges) /\ n = 0
    OBVIOUS
  <2>2. PICK f : ExtendsBy(g, p, first, n, f)
    BY <2>1, ExtendLayers
  <2> QED BY <2>1, <2>2 DEF ExtendsBy
<1>8. Extended(g, Scanned, NoMatch, p) = {Traced(x) : x \in first}
  BY <1>1, <1>3, <1>5, <1>7, Zenon DEF Extended, Traced
<1>9. y \in Extended(g, Scanned, NoMatch, p) <=> \E x \in first : y = Traced(x)
  BY <1>8, Zenon
<1> DEFINE F(x) == FirstOf(v, x)
           T(x) == Traced(x)
<1>10. \A x : x \in first <=> \E id \in M : x = F(id)
  BY <1>6
<1>11. y \in Extended(g, Scanned, NoMatch, p) <=> \E x \in first : y = T(x)
  BY <1>9
<1> HIDE DEF F, T
<1>12. y \in Extended(g, Scanned, NoMatch, p) <=> \E id \in M : y = T(F(id))
  BY <1>10, <1>11
<1> QED BY <1>12 DEF F, T

\* The matches of one clause of one node.
LEMMA OneClauseMatches ==
    ASSUME NEW g, NEW c, c.kind = "match", ~c.optional, c.where = <<>>, Len(c.patterns) = 1,
           NEW p, p = c.patterns[1], NEW matches, matches = Extended(g, Scanned, NoMatch, p)
    PROVE  Clause(g, Scanned, NoMatch, c) = matches
<1>10. MatchPatterns(g, Scanned, NoMatch, c.patterns) = matches
  <2>1. PICK f : PatternsBy(g, Scanned, NoMatch, c.patterns, 1, f)
    BY PatternLayers
  <2>2. f[0] = {NoMatch} /\ f[1] = UNION {Extended(g, Scanned, m, p) : m \in f[0]} /\ MatchPatterns(g, Scanned, NoMatch, c.patterns) = f[1]
    BY <2>1, SmallIntervals DEF PatternsBy
  <2>3. f[1] = Extended(g, Scanned, NoMatch, p)
    BY <2>2
  <2> QED BY <2>2, <2>3
<1>11. MatchClause(g, Scanned, NoMatch, c) = matches
  <2>1. \A r : WhereHolds(g, r, c.where)
    BY DEF WhereHolds
  <2>2. MatchClause(g, Scanned, NoMatch, c) = {m \in MatchPatterns(g, Scanned, NoMatch, c.patterns) : WhereHolds(g, m.row, c.where)}
    BY Zenon DEF MatchClause
  <2> QED BY <1>10, <2>1, <2>2
<1>12. Clause(g, Scanned, NoMatch, c) = MatchClause(g, Scanned, NoMatch, c)
  BY DEF Clause
<1> QED BY <1>11, <1>12

OneClause(q, clauses) ==
    Len(q.branches) = 1 /\ DOMAIN q.branches = {1} /\ clauses = q.branches[1] /\ Len(clauses) = 1
RowPerNode(rows, v, M) == \A y : y \in rows <=> \E id \in M : y = RowOf(v, id)

\* The rows of such a query: one for each node that matches.
LEMMA OneNodeRows ==
    ASSUME NEW g, NEW q, NEW clauses, OneClause(q, clauses), NEW p, Len(p.edges) = 0, NEW node, node = p.nodes[1],
           NEW M, M = Matching(g, NoMatch.row, node),
           Clause(g, Scanned, NoMatch, clauses[1]) = Extended(g, Scanned, NoMatch, p), NEW v, v = node.variable
    PROVE  RowPerNode(Rows(g, Scanned, q), v, M)
<1> SUFFICES ASSUME NEW y
             PROVE  y \in Rows(g, Scanned, q) <=> \E id \in M : y = RowOf(v, id)
  BY DEF RowPerNode
<1> USE DEF OneClause
<1> DEFINE matches == Extended(g, Scanned, NoMatch, p)
<1>1. Clauses(g, Scanned, clauses) = matches
  <2>1. PICK f : ClausesBy(g, Scanned, clauses, 1, f)
    BY ClauseLayers
  <2>2. f[0] = {NoMatch} /\ f[1] = UNION {Clause(g, Scanned, m, clauses[1]) : m \in f[0]} /\ Clauses(g, Scanned, clauses) = f[1]
    BY <2>1, SmallIntervals DEF ClausesBy
  <2>4. f[1] = Clause(g, Scanned, NoMatch, clauses[1])
    BY <2>2
  <2> QED BY <2>2, <2>4
<1>2. Rows(g, Scanned, q) = {<<1, m>> : m \in Clauses(g, Scanned, clauses)}
  BY DEF Rows
<1>3. \A id : RowOf(v, id) = <<1, Traced(FirstOf(v, id))>>
  BY DEF RowOf
<1>4. \A m : m \in matches <=> \E id \in M : m = Traced(FirstOf(v, id))
  <2>1. MatchPerNode(matches, v, M)
    BY OneNodeMatches
  <2> QED BY <2>1 DEF MatchPerNode
<1> HIDE DEF matches
<1>5. y \in Rows(g, Scanned, q) <=> \E m \in matches : y = <<1, m>>
  BY <1>1, <1>2
<1> DEFINE T(id) == Traced(FirstOf(v, id))
<1>6. \A m : m \in matches <=> \E id \in M : m = T(id)
  BY <1>4
<1> HIDE DEF T
<1>7. y \in Rows(g, Scanned, q) <=> \E id \in M : y = <<1, T(id)>>
  BY <1>5, <1>6
<1> QED BY <1>3, <1>7 DEF T

\* What the store counts: each matching node once.
LEMMA CountOfNodes ==
    ASSUME IsGraph(graph), NEW node, NEW names, IsSequence(node.labels), AreProperties(node.properties, names),
           NEW plan, plan = buildNodeScanPlan(node), plan.complete, NEW row,
           NEW M, M = Matching(graph, row, node)
    PROVE  Cardinality(Counted(plan)) = Cardinality(M)
<1> DEFINE D == {x \in plan.alternatives \X Nodes : x[2] \in ScanNodes(plan.labels, x[1])}
           property0 == PropertyPlan(node.properties)
<1>1. /\ plan.labels = FirstTerms(node.labels) /\ plan.alternatives = property0.alternatives
      /\ property0.complete /\ Len(node.labels) <= PredicateTerms
  BY DEF buildNodeScanPlan
<1>2. \A n : HasLabels(n, plan.labels) <=> HasLabels(n, node.labels)
  BY <1>1, CutLabels
<1>3. \A id \in Nodes : Stored(graph.nodes[id])
  BY DEF IsGraph, Nodes
<1>4. ASSUME NEW id \in Nodes, NEW a \in plan.alternatives, id \in ScanNodes(plan.labels, a)
      PROVE  id \in M /\ \A b \in plan.alternatives : id \in ScanNodes(plan.labels, b) => b = a
  <2>1. HasLabels(graph.nodes[id], node.labels) /\ StoreHas(graph.nodes[id], a)
    BY <1>2, <1>4 DEF ScanNodes
  <2>2. /\ propertiesMatch(graph.nodes[id], expectedProperties(graph, row, node.properties))
        /\ \A b \in property0.alternatives : StoreHas(graph.nodes[id], b) => b = a
    BY <1>1, <1>3, <1>4, <2>1, PropertyPlanExact
  <2>3. id \in M
    BY <1>4, <2>1, <2>2 DEF nodePatternMatches, Matching, Nodes
  <2> QED BY <1>1, <2>2, <2>3 DEF ScanNodes
<1>5. ASSUME NEW id \in M
      PROVE  \E a \in plan.alternatives : id \in ScanNodes(plan.labels, a)
  <2>1. id \in Nodes /\ nodePatternMatches(graph, row, id, node)
    BY <1>5 DEF Matching, Nodes
  <2>2. NodeAdmitted(graph.nodes[id], node)
    BY <1>3, <2>1, NodePlanSound
  <2> QED BY <2>1, <2>2, AdmittedScanned
<1> DEFINE at(id) == CHOOSE a \in plan.alternatives : id \in ScanNodes(plan.labels, a)
           f == [id \in M |-> <<at(id), id>>]
<1>6. \A id \in M : at(id) \in plan.alternatives /\ id \in ScanNodes(plan.labels, at(id)) /\ id \in Nodes
  BY <1>5 DEF Matching, Nodes
<1> HIDE DEF at
<1>7. f \in [M -> D] /\ \A id \in M : f[id] = <<at(id), id>>
  BY <1>6
<1>8. \A x \in D : x[2] \in M /\ f[x[2]] = x
  <2> TAKE x \in D
  <2>1. PICK a \in plan.alternatives, id \in Nodes : x = <<a, id>>
    OBVIOUS
  <2>2. id \in ScanNodes(plan.labels, a)
    BY <2>1
  <2>3. id \in M /\ at(id) = a
    BY <1>4, <1>6, <2>2
  <2> QED BY <1>7, <2>1, <2>3
<1>9. \A x, y \in M : f[x] = f[y] => x = y
  BY <1>7
<1>10. IsFiniteSet(M)
  <2>1. IsFiniteSet(Nodes)
    BY DEF IsGraph, Nodes
  <2>2. M \subseteq Nodes
    BY DEF Matching, Nodes
  <2> QED BY <2>1, <2>2, FS_Subset
<1> HIDE DEF D, f
<1>11. \A x \in D : \E id \in M : f[id] = x
  BY <1>8
<1>12. Cardinality(D) = Cardinality(M)
  BY <1>7, <1>9, <1>10, <1>11, SameCount
<1> QED BY <1>12 DEF D, Counted

\* The direct count.
LEMMA DirectCountKeeps ==
    ASSUME Inv, ExecuteDirectCount
    PROVE  Inv'
<1>1. /\ phase = "plan" /\ DirectCount(query) /\ phase' = "done"
      /\ graph' = graph /\ query' = query /\ working' = working /\ bindings' = bindings /\ cursor' = cursor
      /\ answer' = {Cardinality(Counted(buildNodeScanPlan(query.branches[1][1].patterns[1].nodes[1])))}
  BY Zenon DEF ExecuteDirectCount, Counted
<1>2. PICK clauses, c, p, node, plan, M :
          /\ clauses = query.branches[1] /\ c = clauses[1] /\ p = c.patterns[1] /\ node = p.nodes[1]
          /\ plan = buildNodeScanPlan(node) /\ M = Matching(graph, NoMatch.row, node)
  OBVIOUS
<1>3. Len(query.branches) = 1 /\ Len(clauses) = 1 /\ Len(c.patterns) = 1 /\ Len(p.nodes) = 1
  BY <1>1, <1>2 DEF DirectCount
<1>16. c.kind = "match" /\ ~c.optional /\ c.where = <<>>
  BY <1>1, <1>2 DEF DirectCount
<1>17. query.count /\ plan.complete
  BY <1>1, <1>2 DEF DirectCount
<1>4. IsGraph(graph) /\ IsQuery(query)
  BY DEF Inv
<1>5. DOMAIN query.branches = {1} /\ AreClauses(clauses)
  <2>1. DOMAIN query.branches = {1}
    BY <1>3, <1>4, QueryClauses, SmallIntervals
  <2>2. AreClauses(query.branches[1])
    BY <1>4, <2>1, QueryClauses
  <2> QED BY <1>2, <2>1, <2>2
<1>6. IsClause(c, NodeScope(clauses, 1), EdgeScope(clauses, 1))
  <2>1. IsSequence(clauses)
    BY <1>5 DEF AreClauses
  <2>2. DOMAIN clauses = {1}
    BY <1>3, <2>1, SequenceDomain
  <2> QED BY <1>2, <1>5, <2>2 DEF AreClauses
<1>7. PICK names, others : IsPattern(p, names, others)
  <2>1. IsSequence(c.patterns)
    BY <1>6 DEF IsClause
  <2>2. 1 \in DOMAIN c.patterns
    BY <1>3, <2>1, SequenceDomain
  <2> QED BY <1>2, <1>6, <2>2 DEF IsClause
<1>8. Len(p.edges) = 0 /\ 1 \in DOMAIN p.nodes
  <2>1. Len(p.edges) \in Nat /\ Len(p.nodes) = Len(p.edges) + 1 /\ 1 \in DOMAIN p.nodes
    BY <1>7, PatternShape
  <2>2. Len(p.nodes) = 1
    BY <1>3
  <2>3. PICK n, l : n = Len(p.edges) /\ l = Len(p.nodes)
    OBVIOUS
  <2>4. n \in Nat /\ l = n + 1 /\ l = 1
    BY <2>1, <2>2, <2>3
  <2>5. n = 0
    BY <2>4
  <2> QED BY <2>1, <2>3, <2>5
<1>9. PICK known : IsSequence(node.labels) /\ AreProperties(node.properties, known)
  BY <1>2, <1>7, <1>8 DEF IsPattern
<1>10. Cardinality(Counted(plan)) = Cardinality(M)
  <2>1. PICK row : row = NoMatch.row
    OBVIOUS
  <2>2. M = Matching(graph, row, node) /\ plan = buildNodeScanPlan(node) /\ IsGraph(graph)
    BY <1>2, <1>4, <2>1
  <2>3. plan.complete
    BY <1>17
  <2> QED BY <1>9, <2>2, <2>3, CountOfNodes
<1>18. Clause(graph, Scanned, NoMatch, c) = Extended(graph, Scanned, NoMatch, p)
  BY <1>2, <1>3, <1>16, OneClauseMatches
<1>11. PICK v : v = node.variable
  OBVIOUS
<1>19. RowPerNode(Rows(graph, Scanned, query), v, M)
  <2>1. Clause(graph, Scanned, NoMatch, clauses[1]) = Extended(graph, Scanned, NoMatch, p)
    BY <1>2, <1>18
  <2>2. node = p.nodes[1] /\ M = Matching(graph, NoMatch.row, node) /\ v = node.variable
    BY <1>2, <1>11
  <2>3. OneClause(query, clauses)
    BY <1>2, <1>3, <1>5 DEF OneClause
  <2>4. Len(p.edges) = 0
    BY <1>8
  <2> QED BY <2>1, <2>2, <2>3, <2>4, OneNodeRows
<1>12. IsFiniteSet(M)
  <2>1. IsFiniteSet(DOMAIN graph.nodes) /\ M \subseteq DOMAIN graph.nodes
    BY <1>2, <1>4 DEF IsGraph, Matching
  <2> QED BY <2>1, FS_Subset
<1>13. Cardinality(Rows(graph, Scanned, query)) = Cardinality(M)
  <2> DEFINE f == [id \in M |-> RowOf(v, id)]
             T == Rows(graph, Scanned, query)
  <2>5. \A y : y \in T <=> \E id \in M : y = RowOf(v, id)
    BY <1>19 DEF RowPerNode
  <2> HIDE DEF T
  <2>1. f \in [M -> T] /\ (\A t \in T : \E id \in M : f[id] = t) /\ \A id \in M : f[id] = RowOf(v, id)
    BY <2>5
  <2>2. \A x, y \in M : f[x] = f[y] => x = y
    BY <2>1, RowsDiffer
  <2> HIDE DEF f
  <2>4. Cardinality(T) = Cardinality(M)
    BY <1>12, <2>1, <2>2, SameCount
  <2> QED BY <2>4 DEF T
<1>14. answer' = Result(query, Rows(graph, FALSE, query))
  <2>1. answer' = {Cardinality(Rows(graph, Scanned, query))}
    BY <1>1, <1>2, <1>10, <1>13
  <2> QED BY <1>17, <2>1 DEF Result, Scanned
<1>15. Answered'
  BY <1>1, <1>14 DEF Answered
<1> QED BY <1>1, <1>15, AnswerStep

-----------------------------------------------------------------------------
(* What rows and searches refer to is loaded.                              *)

\* Counting up from 0, nothing goes wrong first.
LEMMA NoneBad ==
    ASSUME NEW n \in Nat, NEW Bad \in SUBSET (0..n), 0 \notin Bad, \A j \in 1..n : j - 1 \notin Bad => j \notin Bad
    PROVE  Bad = {}
<1> SUFFICES ASSUME Bad # {}
             PROVE  FALSE
  OBVIOUS
<1>1. Bad \in SUBSET Nat
  OBVIOUS
<1>2. PICK m \in Bad : \A y \in Bad : m <= y
  BY <1>1, Least
<1>3. m \in 1..n
  BY <1>2
<1>4. m - 1 \notin Bad
  BY <1>2, <1>3
<1> QED BY <1>2, <1>3, <1>4

\* The nodes that a row binds are among those given.
Inside(row, nodes) == \A v \in DOMAIN row : row[v][1] = "node" => row[v][2] \in nodes

\* A match whose row and path are of the graph.
InGraph(g, m) == Inside(m.row, DOMAIN g.nodes) /\ IsPath(g, m.path)

\* Binding a node that is there, or something that is no node.
LEMMA BindInside ==
    ASSUME NEW row, NEW nodes, Inside(row, nodes), NEW name, NEW value, value[1] = "node" => value[2] \in nodes
    PROVE  Inside(Bind(row, name, value), nodes)
BY DEF Inside, Bind, With

\* The values of a row.
LEMMA ValueSorts ==
    ASSUME NEW id
    PROVE  /\ NodeValue(id)[1] = "node" /\ NodeValue(id)[2] = id
           /\ EdgeValue(id)[1] # "node" /\ EdgeList(id)[1] # "node" /\ Null[1] # "node"
BY DEF NodeValue, EdgeValue, EdgeList, Null

\* The candidates for a first node are nodes of the graph.
LEMMA CandidatesInside ==
    ASSUME NEW g, NEW row, Inside(row, DOMAIN g.nodes), NEW pattern
    PROVE  candidateNodes(g, row, pattern) \subseteq DOMAIN g.nodes
<1>1. candidateNodes(g, row, pattern) \subseteq AllCandidates(g, row, pattern)
  BY Zenon DEF candidateNodes
<1>2. BoundCandidates(g, row, pattern) \subseteq DOMAIN g.nodes \/ ~IsBound(row, pattern)
  BY DEF BoundCandidates, IsBound, Inside
<1>3. AllCandidates(g, row, pattern) \subseteq DOMAIN g.nodes
  <2>1. CASE IsBound(row, pattern)
    BY <1>2, <2>1 DEF AllCandidates
  <2>2. CASE ~IsBound(row, pattern)
    BY <2>2 DEF AllCandidates
  <2> QED BY <2>1, <2>2
<1> QED BY <1>1, <1>3

\* A walk stays in the graph.
LEMMA WalkInside ==
    ASSUME NEW g, IsFiniteSet(DOMAIN g.edges), NEW row, NEW pattern, IsLength(pattern.length),
           NEW base, IsPath(g, base), NEW p \in walk(g, row, pattern, base)
    PROVE  IsPath(g, p)
<1>1. PICK n \in Nat : n = upper(pattern.length, Cardinality(DOMAIN g.edges))
  <2>1. Cardinality(DOMAIN g.edges) \in Nat
    BY FS_CardinalityType
  <2> QED BY <2>1, Bounds
<1>2. PICK f : WalksBy(g, row, pattern, base, n, f)
  BY <1>1, WalkLevels
<1>3. PICK start, least : start = {base} /\ least = lower(pattern.length)
  OBVIOUS
<1>4. Depths(g, row, pattern, start, n, f) /\ walk(g, row, pattern, base) = UNION {f[d] : d \in least..n}
  BY <1>2, <1>3 DEF WalksBy
<1>5. f[0] = start /\ \A d \in 1..n : f[d] = Longer(g, row, pattern, f[d - 1])
  BY <1>4, DepthsValues
<1> DEFINE Bad == {d \in 0..n : ~\A q \in f[d] : IsPath(g, q)}
<1>6. 0 \notin Bad
  BY <1>3, <1>5
<1>7. ASSUME NEW d \in 1..n, d - 1 \notin Bad
      PROVE  d \notin Bad
  <2>1. \A q \in f[d - 1] : IsPath(g, q)
    BY <1>7
  <2>2. SUFFICES ASSUME NEW q \in f[d]
                 PROVE  IsPath(g, q)
    OBVIOUS
  <2>3. PICK o \in f[d - 1] : q \in {Along(o, s) : s \in Steps(g, row, pattern, o)}
    BY <1>5, <2>2 DEF Longer
  <2>4. PICK s \in Steps(g, row, pattern, o) : q = Along(o, s)
    BY <2>3
  <2>5. s \in adjacentEdges(g, End(o), pattern.direction) /\ s[2] \in DOMAIN g.nodes
    BY DEF Steps
  <2>6. PICK e \in DOMAIN g.edges : s = <<e, g.edges[e].to>> \/ s = <<e, g.edges[e].from>>
    BY <2>5, Adjacent
  <2>7. s[1] \in DOMAIN g.edges
    BY <2>6
  <2> QED BY <2>1, <2>4, <2>5, <2>7, PathGrows
<1>8. Bad \in SUBSET (0..n)
  OBVIOUS
<1>9. Bad = {}
  <2> HIDE DEF Bad
  <2> QED BY <1>6, <1>7, <1>8, NoneBad
<1>10. PICK d \in least..n : p \in f[d]
  BY <1>4
<1>11. least \in Nat
  <2>1. 0 \in Nat
    OBVIOUS
  <2> QED BY <1>3, <2>1, Bounds
<1>12. d \in 0..n
  BY <1>10, <1>11
<1> QED BY <1>9, <1>10, <1>12

\* One relationship.
LEMMA ThroughInside ==
    ASSUME NEW g, IsFiniteSet(DOMAIN g.edges), NEW element, NEW i, IsLength(element.edges[i].length),
           NEW m, InGraph(g, m), NEW x \in Through(g, element, i, m)
    PROVE  InGraph(g, x)
<1> DEFINE pattern == element.edges[i]
           target == element.nodes[i + 1]
           bound(path) == Bind(m.row, target.variable, NodeValue(End(path)))
           value(path) == RelationshipValue(pattern, m.path, path)
<1>1. PICK path \in walk(g, m.row, pattern, m.path) :
          x = [row |-> Bind(bound(path), pattern.variable, value(path)), path |-> path]
  BY DEF Through
<1>2. IsPath(g, path)
  BY <1>1, WalkInside DEF InGraph
<1>3. End(path) \in DOMAIN g.nodes
  <2>1. path.nodes \in Seq(DOMAIN g.nodes) /\ path.nodes # <<>>
    BY <1>2 DEF IsPath
  <2> QED BY <2>1 DEF End
<1>4. value(path)[1] # "node"
  BY ValueSorts DEF RelationshipValue
<1>5. NodeValue(End(path))[2] \in DOMAIN g.nodes
  BY <1>3, ValueSorts
<1>6. Inside(bound(path), DOMAIN g.nodes)
  BY <1>5, BindInside DEF InGraph
<1> HIDE DEF bound, value
<1>7. Inside(Bind(bound(path), pattern.variable, value(path)), DOMAIN g.nodes)
  BY <1>4, <1>6, BindInside
<1>8. x.row = Bind(bound(path), pattern.variable, value(path)) /\ x.path = path
  BY <1>1
<1> QED BY <1>2, <1>7, <1>8 DEF InGraph

\* One pattern over one match.
LEMMA ExtendedInside ==
    ASSUME NEW g, IsFiniteSet(DOMAIN g.edges), NEW p, NEW names, NEW others, IsPattern(p, names, others),
           NEW m, Inside(m.row, DOMAIN g.nodes), NEW x \in Extended(g, Indexed, m, p)
    PROVE  Inside(x.row, DOMAIN g.nodes)
<1> DEFINE row == m.row
           v == p.nodes[1].variable
           all == candidateNodes(g, row, p.nodes[1])
           first == {[row |-> Bind(row, v, NodeValue(id)), path |-> [nodes |-> <<id>>, edges |-> <<>>]] :
                        id \in {c \in all : CanBind(row, v, NodeValue(c))}}
<1>1. all \subseteq DOMAIN g.nodes
  BY CandidatesInside
<1>2. Candidates(Indexed, g, row, p.nodes[1]) = all
  BY DEF Candidates, Indexed
<1> HIDE DEF all
<1>3. matchPattern(g, row, p, all) = extendPattern(g, p, first)
  BY Zenon DEF matchPattern
<1>4. PICK y \in matchPattern(g, row, p, all) : x.row = y.row
  BY <1>2 DEF Extended
<1>5. \A y0 \in first : InGraph(g, y0)
  <2> TAKE y0 \in first
  <2>1. PICK id \in all : y0 = [row |-> Bind(row, v, NodeValue(id)), path |-> [nodes |-> <<id>>, edges |-> <<>>]]
    OBVIOUS
  <2>2. id \in DOMAIN g.nodes
    BY <1>1
  <2>3. Inside(Bind(row, v, NodeValue(id)), DOMAIN g.nodes)
    <3>1. NodeValue(id)[2] \in DOMAIN g.nodes
      BY <2>2, ValueSorts
    <3> QED BY <3>1, BindInside
  <2>4. IsPath(g, [nodes |-> <<id>>, edges |-> <<>>])
    BY <2>2, SinglePath
  <2> QED BY <2>1, <2>3, <2>4 DEF InGraph
<1> HIDE DEF first
<1>6. PICK n \in Nat : n = Len(p.edges) /\ DOMAIN p.edges = 1..n
  BY PatternShape
<1>7. PICK f : ExtendsBy(g, p, first, n, f)
  BY <1>6, ExtendLayers
<1>8. f[0] = first /\ (\A i \in 1..n : f[i] = UNION {Through(g, p, i, z) : z \in f[i - 1]}) /\ y \in f[n]
  BY <1>3, <1>4, <1>7 DEF ExtendsBy
<1> DEFINE Bad == {d \in 0..n : ~\A z \in f[d] : InGraph(g, z)}
<1>9. 0 \notin Bad
  BY <1>5, <1>8
<1>10. ASSUME NEW d \in 1..n, d - 1 \notin Bad
       PROVE  d \notin Bad
  <2>1. d - 1 \in 0..n
    BY <1>10
  <2>2. \A z \in f[d - 1] : InGraph(g, z)
    BY <1>10, <2>1
  <2>3. IsLength(p.edges[d].length)
    BY <1>6 DEF IsPattern
  <2>4. \A z \in f[d] : \E o \in f[d - 1] : z \in Through(g, p, d, o)
    BY <1>8
  <2>5. \A z \in f[d] : InGraph(g, z)
    BY <2>2, <2>3, <2>4, ThroughInside
  <2> QED BY <2>5
<1>11. Bad \in SUBSET (0..n)
  OBVIOUS
<1>12. Bad = {}
  <2> HIDE DEF Bad
  <2> QED BY <1>9, <1>10, <1>11, NoneBad
<1>13. n \in 0..n
  OBVIOUS
<1> QED BY <1>4, <1>8, <1>12, <1>13 DEF InGraph

\* The patterns of a clause over one match.
LEMMA PatternsInside ==
    ASSUME NEW g, IsFiniteSet(DOMAIN g.edges), NEW c, NEW names, NEW others, IsClause(c, names, others),
           NEW m, Inside(m.row, DOMAIN g.nodes), NEW x \in MatchPatterns(g, Indexed, m, c.patterns)
    PROVE  Inside(x.row, DOMAIN g.nodes)
<1>1. PICK n \in Nat : n = Len(c.patterns) /\ DOMAIN c.patterns = 1..n
  BY SequenceDomain DEF IsClause
<1>2. PICK f : PatternsBy(g, Indexed, m, c.patterns, n, f)
  BY <1>1, PatternLayers
<1>3. f[0] = {m} /\ (\A i \in 1..n : f[i] = UNION {Extended(g, Indexed, z, c.patterns[i]) : z \in f[i - 1]}) /\ x \in f[n]
  BY <1>2 DEF PatternsBy
<1> DEFINE Bad == {d \in 0..n : ~\A z \in f[d] : Inside(z.row, DOMAIN g.nodes)}
<1>4. 0 \notin Bad
  BY <1>3
<1>5. ASSUME NEW d \in 1..n, d - 1 \notin Bad
      PROVE  d \notin Bad
  <2>1. d - 1 \in 0..n
    BY <1>5
  <2>2. \A z \in f[d - 1] : Inside(z.row, DOMAIN g.nodes)
    BY <1>5, <2>1
  <2>3. PICK p, known, rest : p = c.patterns[d] /\ IsPattern(p, known, rest)
    BY <1>1 DEF IsClause
  <2>4. \A z \in f[d] : \E o \in f[d - 1] : z \in Extended(g, Indexed, o, p)
    BY <1>3, <2>3
  <2>5. \A z \in f[d] : Inside(z.row, DOMAIN g.nodes)
    BY <2>2, <2>3, <2>4, ExtendedInside
  <2> QED BY <2>5
<1>6. Bad \in SUBSET (0..n)
  OBVIOUS
<1>7. Bad = {}
  <2> HIDE DEF Bad
  <2> QED BY <1>4, <1>5, <1>6, NoneBad
<1>8. n \in 0..n
  OBVIOUS
<1> QED BY <1>3, <1>7, <1>8

\* One clause over one match.
LEMMA ClauseInside ==
    ASSUME NEW g, IsFiniteSet(DOMAIN g.edges), NEW c, NEW names, NEW others, IsClause(c, names, others),
           NEW m, Inside(m.row, DOMAIN g.nodes), NEW x \in Clause(g, Indexed, m, c)
    PROVE  Inside(x.row, DOMAIN g.nodes)
<1>1. CASE c.kind = "with"
  <2>1. x.row = Only(m.row, c.keep \cap DOMAIN m.row)
    BY <1>1 DEF Clause
  <2>2. Inside(Only(m.row, c.keep \cap DOMAIN m.row), DOMAIN g.nodes)
    BY DEF Inside, Only
  <2> QED BY <2>1, <2>2
<1>2. CASE c.kind # "with"
  <2>1. x \in MatchClause(g, Indexed, m, c)
    BY <1>2 DEF Clause
  <2>2. x \in MatchPatterns(g, Indexed, m, c.patterns) \/ x = [row |-> Filled(m.row, c), trace |-> Append(m.trace, "optional")]
    BY <2>1, Zenon DEF MatchClause, Filled
  <2>3. CASE x \in MatchPatterns(g, Indexed, m, c.patterns)
    BY <2>3, PatternsInside
  <2>4. CASE x = [row |-> Filled(m.row, c), trace |-> Append(m.trace, "optional")]
    <3>1. x.row = Filled(m.row, c)
      BY <2>4
    <3>2. Null[1] # "node"
      BY ValueSorts
    <3>3. Inside(Filled(m.row, c), DOMAIN g.nodes)
      BY <3>2 DEF Inside, Filled
    <3> QED BY <3>1, <3>3
  <2> QED BY <2>2, <2>3, <2>4
<1> QED BY <1>1, <1>2

\* The clauses of a branch.
LEMMA ClausesInside ==
    ASSUME NEW g, IsFiniteSet(DOMAIN g.edges), NEW clauses, AreClauses(clauses), NEW x \in Clauses(g, Indexed, clauses)
    PROVE  Inside(x.row, DOMAIN g.nodes)
<1>1. PICK n \in Nat : n = Len(clauses) /\ DOMAIN clauses = 1..n
  BY SequenceDomain DEF AreClauses
<1>2. PICK f : ClausesBy(g, Indexed, clauses, n, f)
  BY <1>1, ClauseLayers
<1>3. f[0] = {NoMatch} /\ (\A i \in 1..n : f[i] = UNION {Clause(g, Indexed, z, clauses[i]) : z \in f[i - 1]}) /\ x \in f[n]
  BY <1>2 DEF ClausesBy
<1> DEFINE Bad == {d \in 0..n : ~\A z \in f[d] : Inside(z.row, DOMAIN g.nodes)}
<1>4. 0 \notin Bad
  <2>1. DOMAIN NoMatch.row = {}
    BY DEF NoMatch, Only
  <2>2. Inside(NoMatch.row, DOMAIN g.nodes)
    BY <2>1 DEF Inside
  <2> QED BY <1>3, <2>2
<1>5. ASSUME NEW d \in 1..n, d - 1 \notin Bad
      PROVE  d \notin Bad
  <2>1. d - 1 \in 0..n
    BY <1>5
  <2>2. \A z \in f[d - 1] : Inside(z.row, DOMAIN g.nodes)
    BY <1>5, <2>1
  <2>3. PICK c, names, others : c = clauses[d] /\ IsClause(c, names, others)
    BY <1>1 DEF AreClauses
  <2>4. \A z \in f[d] : \E o \in f[d - 1] : z \in Clause(g, Indexed, o, c)
    BY <1>3, <2>3
  <2>5. \A z \in f[d] : Inside(z.row, DOMAIN g.nodes)
    BY <2>2, <2>3, <2>4, ClauseInside
  <2> QED BY <2>5
<1>6. Bad \in SUBSET (0..n)
  OBVIOUS
<1>7. Bad = {}
  <2> HIDE DEF Bad
  <2> QED BY <1>4, <1>5, <1>6, NoneBad
<1>8. n \in 0..n
  OBVIOUS
<1> QED BY <1>3, <1>7, <1>8

\* The rows of a query.
LEMMA RowsInside ==
    ASSUME NEW g, IsFiniteSet(DOMAIN g.edges), NEW q, IsQuery(q), NEW r \in Rows(g, TRUE, q)
    PROVE  Inside(r[2].row, DOMAIN g.nodes)
<1>1. PICK b \in DOMAIN q.branches : r \in {<<b, m>> : m \in Clauses(g, TRUE, q.branches[b])}
  BY DEF Rows
<1>4. PICK m \in Clauses(g, TRUE, q.branches[b]) : r = <<b, m>>
  BY <1>1
<1>2. m \in Clauses(g, Indexed, q.branches[b]) /\ r[2] = m
  <2>1. m \in Clauses(g, Indexed, q.branches[b])
    BY <1>4, Zenon DEF Indexed
  <2> QED BY <1>4, <2>1
<1>3. AreClauses(q.branches[b])
  BY QueryClauses
<1> QED BY <1>2, <1>3, ClausesInside

-----------------------------------------------------------------------------
(* The search.                                                             *)

\* What the search refers to is loaded; it is idle until the rows are there.
SearchIn(s, nodes) ==
    DOMAIN s = DOMAIN NoSearch /\ Inside(s.row, nodes) /\ s.starts \subseteq nodes /\ s.frontier \subseteq nodes

SearchOK ==
    /\ phase \notin {"shortest", "search", "done"} => search = NoSearch
    /\ SearchIn(search, working.nodes)

\* An idle search refers to nothing.
LEMMA IdleSearch ==
    ASSUME NEW nodes
    PROVE  SearchIn(NoSearch, nodes)
<1>1. DOMAIN NoSearch.row = {} /\ NoSearch.starts = {} /\ NoSearch.frontier = {}
  BY DEF NoSearch, Only
<1> QED BY <1>1 DEF SearchIn, Inside

\* The graph in memory is the part that is loaded.
LEMMA WorkingPart ==
    ASSUME Inv
    PROVE  /\ DOMAIN WorkingGraph.nodes = working.nodes /\ IsFiniteSet(DOMAIN WorkingGraph.edges)
           /\ \A e \in DOMAIN WorkingGraph.edges :
                 {WorkingGraph.edges[e].from, WorkingGraph.edges[e].to} \subseteq working.nodes
<1>1. WorkingGraph = GraphOf(graph, working)
  BY DEF WorkingGraph, GraphOf
<1>2. /\ DOMAIN WorkingGraph.nodes = working.nodes /\ DOMAIN WorkingGraph.edges = working.edges
      /\ \A e \in working.edges : WorkingGraph.edges[e] = graph.edges[e]
  BY <1>1, PartEntities
<1>3. IsPart(graph, working) /\ IsGraph(graph)
  BY DEF Inv
<1>4. IsFiniteSet(working.edges)
  <2>1. IsFiniteSet(DOMAIN graph.edges) /\ working.edges \subseteq DOMAIN graph.edges
    BY <1>3 DEF IsPart, IsGraph
  <2> QED BY <2>1, FS_Subset
<1> QED BY <1>2, <1>3, <1>4 DEF IsPart

\* A row is taken for the search.
LEMMA ExecuteSearch ==
    ASSUME Inv, SearchOK, Execute
    PROVE  SearchOK'
<1>1. working' = working /\ phase' \in {"done", "shortest"}
  BY DEF Execute
<1>2. search' = search \/ \E r \in Rows(WorkingGraph, TRUE, query) :
          search' = [NoSearch EXCEPT !.active = TRUE, !.row = r[2].row]
  BY Zenon DEF Execute
<1>3. CASE search' = search
  BY <1>1, <1>3 DEF SearchOK
<1>4. CASE \E r \in Rows(WorkingGraph, TRUE, query) : search' = [NoSearch EXCEPT !.active = TRUE, !.row = r[2].row]
  <2>1. PICK r \in Rows(WorkingGraph, TRUE, query) : search' = [NoSearch EXCEPT !.active = TRUE, !.row = r[2].row]
    BY <1>4
  <2>2. IsQuery(query)
    BY DEF Inv
  <2>3. Inside(r[2].row, working.nodes)
    <3>1. PICK g : g = WorkingGraph
      OBVIOUS
    <3>2. DOMAIN g.nodes = working.nodes /\ IsFiniteSet(DOMAIN g.edges)
      BY <3>1, WorkingPart
    <3>3. r \in Rows(g, TRUE, query)
      BY <3>1
    <3> QED BY <2>2, <3>2, <3>3, RowsInside
  <2>4. DOMAIN search' = DOMAIN NoSearch /\ search'.row = r[2].row /\ search'.starts = {} /\ search'.frontier = {}
    BY <2>1 DEF NoSearch
  <2> QED BY <1>1, <2>3, <2>4 DEF SearchOK, SearchIn
<1> QED BY <1>2, <1>3, <1>4

\* The starts are candidates.
LEMMA BeginKeeps ==
    ASSUME Inv, SearchOK, BeginSearch
    PROVE  SearchOK'
<1> DEFINE found == candidateNodes(WorkingGraph, search.row, Element.nodes[1])
<1>1. working' = working /\ phase' = "search" /\ search' = [search EXCEPT !.starts = found]
  BY Zenon DEF BeginSearch
<1>2. SearchIn(search, working.nodes)
  BY DEF SearchOK
<1>3. found \subseteq working.nodes
  <2>1. PICK g, first : g = WorkingGraph /\ first = Element.nodes[1]
    OBVIOUS
  <2>2. DOMAIN g.nodes = working.nodes
    BY <2>1, WorkingPart
  <2>3. candidateNodes(g, search.row, first) \subseteq DOMAIN g.nodes
    BY <1>2, <2>2, CandidatesInside DEF SearchIn
  <2> QED BY <2>1, <2>2, <2>3
<1> HIDE DEF found
<1>4. DOMAIN search' = DOMAIN search /\ search'.row = search.row /\ search'.frontier = search.frontier /\ search'.starts = found
  BY <1>1, <1>2 DEF SearchIn, NoSearch
<1> QED BY <1>1, <1>2, <1>3, <1>4 DEF SearchOK, SearchIn

\* A start is a candidate.
LEMMA SearchFromKeeps ==
    ASSUME Inv, SearchOK, SearchFrom
    PROVE  SearchOK'
<1> DEFINE start == CHOOSE s \in search.starts : \A t \in search.starts : s <= t
           rest == search.starts \ {start}
           found == search.paths \cup {[nodes |-> <<start>>, edges |-> <<>>]}
<1>1. working' = working /\ phase' = phase /\ phase = "search" /\ search.starts # {}
  BY DEF SearchFrom
<1>2. \/ search' = [search EXCEPT !.starts = rest, !.paths = found]
      \/ search' = [NoSearch EXCEPT !.active = TRUE, !.row = search.row, !.paths = search.paths,
                                    !.starts = rest, !.start = start, !.frontier = {start}, !.visited = {start}]
  BY Zenon DEF SearchFrom
<1>3. SearchIn(search, working.nodes)
  BY DEF SearchOK
<1>4. start \in working.nodes
  <2>1. search.starts \in SUBSET Nat
    <3>1. search.starts \subseteq DOMAIN graph.nodes
      BY <1>3 DEF SearchIn, Inv, IsPart
    <3> QED BY <3>1 DEF Inv, IsGraph
  <2>2. PICK s \in search.starts : \A t \in search.starts : s <= t
    BY <1>1, <2>1, Least
  <2>3. start \in search.starts
    BY <2>2
  <2> QED BY <1>3, <2>3 DEF SearchIn
<1>5. rest \subseteq working.nodes
  BY <1>3 DEF SearchIn
<1> HIDE DEF start, rest, found
<1>6. CASE search' = [search EXCEPT !.starts = rest, !.paths = found]
  <2>1. DOMAIN search' = DOMAIN search /\ search'.row = search.row /\ search'.frontier = search.frontier /\ search'.starts = rest
    BY <1>3, <1>6 DEF SearchIn, NoSearch
  <2> QED BY <1>1, <1>3, <1>5, <2>1 DEF SearchOK, SearchIn
<1>7. CASE search' = [NoSearch EXCEPT !.active = TRUE, !.row = search.row, !.paths = search.paths,
                                     !.starts = rest, !.start = start, !.frontier = {start}, !.visited = {start}]
  <2>1. DOMAIN search' = DOMAIN NoSearch /\ search'.row = search.row /\ search'.frontier = {start} /\ search'.starts = rest
    BY <1>7 DEF NoSearch
  <2> QED BY <1>1, <1>3, <1>4, <1>5, <2>1 DEF SearchOK, SearchIn
<1> QED BY <1>2, <1>6, <1>7

\* A level leads along edges that are loaded.
LEMMA SearchLevelKeeps ==
    ASSUME Inv, SearchOK, SearchLevel
    PROVE  SearchOK'
<1> DEFINE steps == UNION {{[from |-> id, edge |-> a[1], node |-> a[2]] :
                            a \in {x \in adjacentEdges(WorkingGraph, id, Hop.direction) : HopMatches(x[1])}} :
                        id \in search.frontier}
           closing == {s \in steps : s.node = search.start /\ TargetMatches(search.start)}
           cycles(s) == {Along(p, <<s.edge, s.node>>) :
                        p \in {q \in reconstructShortestPaths(s.from) : s.edge \notin Edges(q)}}
           fresh == NewlyReached(steps)
           reached == {s.node : s \in fresh}
           targets == {id \in reached : TargetMatches(id)}
           completed == UNION {cycles(s) : s \in closing}
<1>1. /\ working' = working /\ phase' = phase /\ phase = "search"
      /\ search' = [search EXCEPT !.depth = search.depth + 1, !.frontier = reached, !.visited = search.visited \cup reached,
                                  !.predecessors = search.predecessors \cup fresh, !.targets = targets, !.completed = completed]
  BY Zenon DEF SearchLevel
<1>2. SearchIn(search, working.nodes)
  BY DEF SearchOK
<1>3. ASSUME NEW s \in steps
      PROVE  s.node \in working.nodes
  <2>1. PICK id \in search.frontier : s \in {[from |-> id, edge |-> a[1], node |-> a[2]] :
                            a \in {x \in adjacentEdges(WorkingGraph, id, Hop.direction) : HopMatches(x[1])}}
    BY <1>3
  <2>2. PICK a \in adjacentEdges(WorkingGraph, id, Hop.direction) : s = [from |-> id, edge |-> a[1], node |-> a[2]]
    BY <2>1
  <2>3. PICK e \in DOMAIN WorkingGraph.edges : a = <<e, WorkingGraph.edges[e].to>> \/ a = <<e, WorkingGraph.edges[e].from>>
    BY Adjacent
  <2>4. a[2] \in {WorkingGraph.edges[e].from, WorkingGraph.edges[e].to}
    BY <2>3
  <2>5. a[2] \in working.nodes
    BY <2>4, WorkingPart
  <2> QED BY <2>2, <2>5
<1>4. reached \subseteq working.nodes
  <2>1. \A s \in fresh : s \in steps
    BY DEF NewlyReached
  <2> HIDE DEF steps, fresh
  <2> QED BY <1>3, <2>1
<1> HIDE DEF steps, closing, fresh, reached, targets, completed
<1>5. DOMAIN search' = DOMAIN search /\ search'.row = search.row /\ search'.frontier = reached /\ search'.starts = search.starts
  BY <1>1, <1>2 DEF SearchIn, NoSearch
<1> QED BY <1>1, <1>2, <1>4, <1>5 DEF SearchOK, SearchIn

\* The search for one start is over.
LEMMA SearchEndKeeps ==
    ASSUME Inv, SearchOK, SearchEnd
    PROVE  SearchOK'
<1> DEFINE found == search.paths \cup search.completed \cup UNION {reconstructShortestPaths(t) : t \in search.targets}
<1>1. working' = working /\ phase' = phase /\ search' = [search EXCEPT !.start = 0, !.paths = found]
  BY Zenon DEF SearchEnd
<1>2. SearchIn(search, working.nodes) /\ (phase \notin {"shortest", "search", "done"} => search = NoSearch)
  BY DEF SearchOK
<1>3. phase = "search"
  BY DEF SearchEnd
<1> HIDE DEF found
<1>4. DOMAIN search' = DOMAIN search /\ search'.row = search.row /\ search'.frontier = search.frontier /\ search'.starts = search.starts
  BY <1>1, <1>2 DEF SearchIn, NoSearch
<1> QED BY <1>1, <1>2, <1>3, <1>4 DEF SearchOK, SearchIn

\* All other steps leave the search alone.
LEMMA NoSearchKeeps ==
    ASSUME SearchOK, search' = search,
           phase \notin {"shortest", "search", "done"} \/ (working' = working /\ phase' \in {"shortest", "search", "done"})
    PROVE  SearchOK'
<1>1. CASE phase \notin {"shortest", "search", "done"}
  <2>1. search' = NoSearch
    BY <1>1 DEF SearchOK
  <2>2. SearchIn(search', working'.nodes)
    BY <2>1, IdleSearch
  <2> QED BY <2>1, <2>2 DEF SearchOK
<1>2. CASE working' = working /\ phase' \in {"shortest", "search", "done"}
  BY <1>2 DEF SearchOK
<1> QED BY <1>1, <1>2

\* Every step preserves what is known of the search.
LEMMA NextSearch ==
    ASSUME Inv, SearchOK, [Next]_vars
    PROVE  SearchOK'
<1>1. CASE ExecuteDirectCount
  BY <1>1, NoSearchKeeps DEF ExecuteDirectCount
<1>2. CASE OpenIterator
  BY <1>2, NoSearchKeeps DEF OpenIterator
<1>3. CASE LoadNodeWorkingSet
  BY <1>3, NoSearchKeeps DEF LoadNodeWorkingSet
<1>4. CASE LoadGraph
  BY <1>4, NoSearchKeeps DEF LoadGraph
<1>5. CASE RootScan
  <2>1. phase = "root" /\ search' = search
    BY <1>5, Zenon DEF RootScan
  <2> QED BY <2>1, NoSearchKeeps
<1>6. CASE RefuseDepth
  <2>1. phase = "expand" /\ search' = search
    BY <1>6, Zenon DEF RefuseDepth
  <2> QED BY <2>1, NoSearchKeeps
<1>7. CASE ExpandLevel
  <2>1. phase = "expand" /\ search' = search
    BY <1>7, Zenon DEF ExpandLevel
  <2> QED BY <2>1, NoSearchKeeps
<1>8. CASE ExpandEnd
  <2>1. phase = "expand" /\ search' = search
    BY <1>8, Zenon DEF ExpandEnd
  <2> QED BY <2>1, NoSearchKeeps
<1>9. CASE Execute
  BY <1>9, ExecuteSearch
<1>10. CASE GenericShortest
  BY <1>10, NoSearchKeeps DEF GenericShortest
<1>11. CASE BeginSearch
  BY <1>11, BeginKeeps
<1>12. CASE SearchFrom
  BY <1>12, SearchFromKeeps
<1>13. CASE SearchLevel
  BY <1>13, SearchLevelKeeps
<1>14. CASE SearchEnd
  BY <1>14, SearchEndKeeps
<1>15. CASE FinishShortest
  BY <1>15, NoSearchKeeps DEF FinishShortest
<1>16. CASE UNCHANGED vars
  <2>1. phase' = phase /\ working' = working /\ search' = search
    BY <1>16 DEF vars
  <2> QED BY <2>1 DEF SearchOK
<1> QED BY <1>1, <1>2, <1>3, <1>4, <1>5, <1>6, <1>7, <1>8, <1>9, <1>10, <1>11, <1>12, <1>13, <1>14, <1>15, <1>16, Zenon DEF Next

-----------------------------------------------------------------------------
(* The theorems.                                                           *)

\* Every step of a query preserves the invariant.
LEMMA NextInv ==
    ASSUME Inv, [Next]_vars
    PROVE  Inv'
<1>1. CASE ExecuteDirectCount
  BY <1>1, DirectCountKeeps
<1>2. CASE OpenIterator
  BY <1>2, OpenIteratorKeeps
<1>3. CASE LoadNodeWorkingSet
  BY <1>3, LoadNodesKeeps
<1>4. CASE LoadGraph
  BY <1>4, LoadGraphKeeps
<1>5. CASE RootScan
  BY <1>5, RootScanKeeps
<1>6. CASE RefuseDepth
  BY <1>6, RefuseDepthKeeps
<1>7. CASE ExpandLevel
  BY <1>7, ExpandLevelKeeps
<1>8. CASE ExpandEnd
  BY <1>8, ExpandEndKeeps
<1>9. CASE Execute
  BY <1>9, ExecuteKeeps
<1>10. CASE GenericShortest \/ BeginSearch \/ SearchFrom \/ SearchLevel \/ SearchEnd \/ FinishShortest
  BY <1>10, SearchKeeps
<1>11. CASE UNCHANGED vars
  <2>1. /\ graph' = graph /\ query' = query /\ phase' = phase /\ working' = working
        /\ bindings' = bindings /\ cursor' = cursor /\ answer' = answer
    BY <1>11 DEF vars
  <2>2. CursorOK'
    BY <2>1 DEF CursorOK, Inv
  <2>3. Iterates'
    <3>1. All' = All /\ Pattern' = Pattern
      BY <2>1 DEF All, Pattern
    <3>2. Relationship' = Relationship /\ Target' = Target
      BY <2>1, <3>1 DEF Relationship, Target
    <3>3. Iterates
      BY DEF Inv
    <3> QED BY <2>1, <3>1, <3>2, <3>3 DEF Iterates
  <2>4. Answered'
    BY <2>1 DEF Answered, Inv
  <2> QED BY <2>1, <2>2, <2>3, <2>4 DEF Inv
<1> QED BY <1>1, <1>2, <1>3, <1>4, <1>5, <1>6, <1>7, <1>8, <1>9, <1>10, <1>11, Zenon DEF Next

\* The invariant holds throughout.
THEOREM ReadInvariant == Spec => []Inv
<1>1. Init => Inv
  BY InitInv
<1>2. Inv /\ [Next]_vars => Inv'
  BY NextInv
<1> QED BY <1>1, <1>2, PTL DEF Spec

\* The exception of the theorems is the one the properties make.
LEMMA LossyKeys ==
    ASSUME ~LossyKeyStored
    PROVE  NoLossyKey(graph)
BY DEF LossyKeyStored, NoLossyKey, Nodes, Range

\* Whatever part of the revision the planner has loaded, by iterator, node
\* scan or snapshot, the rows over it are those over the whole revision.
THEOREM WorkingSetEnough == Spec => []WorkingSetIsEnough
<1>1. ASSUME Inv
      PROVE  WorkingSetIsEnough
  <2> SUFFICES ASSUME phase = "done", ~query.count, query.shortest = <<>>, ~LossyKeyStored
               PROVE  answer = Rows(graph, FALSE, query)
    BY Zenon DEF WorkingSetIsEnough
  <2>1. NoLossyKey(graph)
    BY LossyKeys
  <2>2. Answered
    BY <1>1 DEF Inv
  <2>3. answer = Result(query, Rows(graph, FALSE, query))
    BY <2>1, <2>2 DEF Answered
  <2> QED BY <2>3, Zenon DEF Result
<1> QED BY <1>1, ReadInvariant, PTL

\* A count, from the store's indexes or from the working set, is the number of
\* rows over the whole revision.
THEOREM CountExact == Spec => []CountIsExact
<1>1. ASSUME Inv
      PROVE  CountIsExact
  <2> SUFFICES ASSUME phase = "done", query.count, ~LossyKeyStored
               PROVE  answer = {Cardinality(Rows(graph, FALSE, query))}
    BY Zenon DEF CountIsExact
  <2>1. NoLossyKey(graph)
    BY LossyKeys
  <2>2. Answered /\ IsQuery(query)
    BY <1>1 DEF Inv
  <2>3. query.shortest = <<>>
    BY <2>2, Zenon DEF IsQuery
  <2>4. answer = Result(query, Rows(graph, FALSE, query))
    BY <2>1, <2>2, <2>3 DEF Answered
  <2> QED BY <2>4, Zenon DEF Result
<1> QED BY <1>1, ReadInvariant, PTL

\* What the search refers to is loaded, throughout.
THEOREM SearchInvariant == Spec => []SearchOK
<1>1. Init => SearchOK
  <2> SUFFICES ASSUME Init
               PROVE  SearchOK
    OBVIOUS
  <2>1. search = NoSearch
    BY DEF Init
  <2>2. SearchIn(search, working.nodes)
    BY <2>1, IdleSearch
  <2> QED BY <2>1, <2>2 DEF SearchOK
<1>2. Inv /\ SearchOK /\ [Next]_vars => SearchOK'
  BY NextSearch
<1> QED BY <1>1, <1>2, ReadInvariant, PTL DEF Spec

\* Both ends of every edge that is loaded are loaded, and so is every node that
\* the cursor, the bindings and the search refer to.
THEOREM ReadTypes == Spec => []TypeOK
<1>1. ASSUME Inv, SearchOK
      PROVE  TypeOK
  <2>1. IsPart(graph, working) /\ CursorOK /\ Holds(bindings, working)
    BY <1>1 DEF Inv
  <2>2. /\ working.nodes \subseteq Nodes /\ working.edges \subseteq AllEdges
        /\ \A e \in working.edges : {graph.edges[e].from, graph.edges[e].to} \subseteq working.nodes
    BY <2>1 DEF IsPart, Nodes, AllEdges
  <2>3. cursor.current \subseteq working.nodes
    BY <2>1 DEF CursorOK, Cursors
  <2>4. search.frontier \subseteq working.nodes
    BY <1>1 DEF SearchOK, SearchIn
  <2>5. \A v \in DOMAIN bindings : bindings[v] \subseteq working.nodes
    BY <2>1 DEF Holds, Bound
  <2>6. phase \in {"plan", "root", "expand", "evaluate", "shortest", "search", "done", "failed"}
    BY <1>1 DEF Inv
  <2> QED BY <2>2, <2>3, <2>4, <2>5, <2>6 DEF TypeOK
<1> QED BY <1>1, ReadInvariant, SearchInvariant, PTL
=============================================================================
