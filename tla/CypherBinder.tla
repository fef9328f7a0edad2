---------------------------- MODULE CypherBinder ----------------------------
(***************************************************************************)
(* The bridge from the parser's concrete tree to the program's AST: one    *)
(* definition per bind function of binder.go, binder_pattern.go and        *)
(* binder_expression.go.                                                   *)
(*                                                                         *)
(* A bind function looks at one node: its shape s (CypherGrammar) and, for *)
(* a few functions, facts f about the text below the node.  It makes an    *)
(* AST node, whose slots hold the subtrees it reads (by their rank among   *)
(* the node's subtrees) and whose attributes hold what it takes from the   *)
(* tokens.  Spans are left out.  A function that reads through an          *)
(* intermediate node (where.OC_Expression()) has one definition per level. *)
(* Where a rule is passed through (a Through node, as for parentheses, or a *)
(* sequence of one operand) the AST is that of the subtree.                 *)
(***************************************************************************)
EXTENDS CypherGrammar, Integers

LOCAL INSTANCE Functions

CONSTANT Half   \* half of the words of an integer's width: 2^63 in the program

ASSUME WordAssumption == Half \in Nat \ {0}

-----------------------------------------------------------------------------
(* Trees and the accessors of the generated contexts. *)

Punctuation == {"OC_LeftArrowHead", "OC_RightArrowHead", "OC_Dash"}

IsSubtree(symbol) == symbol \notin Tokens \cup Punctuation

Subtrees(s) == SelectSeq(s, IsSubtree)

(* AllOC_R(): the ranks of the subtrees of rule R, in order. *)
All(s, R) ==
    SelectSeq([k \in DOMAIN Subtrees(s) |-> k], LAMBDA k : Subtrees(s)[k] = R)

(* OC_R(): the first of them, or nothing. *)
One(s, R) == IF All(s, R) = <<>> THEN <<>> ELSE <<Head(All(s, R))>>

Has(s, symbol) == \E i \in DOMAIN s : s[i] = symbol

(* Where in the shape the subtree of rank k stands. *)
Place(s, k) ==
    CHOOSE i \in DOMAIN s : IsSubtree(s[i]) /\ Len(Subtrees(SubSeq(s, 1, i))) = k

(* The place of the first child token with that text; 0 is Go's nil. *)
directToken(s, text) ==
    IF Has(s, text) THEN CHOOSE i \in DOMAIN s :
                            s[i] = text /\ \A j \in 1..(i - 1) : s[j] # text
                    ELSE 0

(* The tokens between two sibling subtrees. *)
operatorBetween(s, left, right) ==
    SubSeq(s, Place(s, left) + 1, Place(s, right) - 1)

Plain == <<>>

Node(kind, slots, attributes) ==
    [kind |-> kind, slots |-> slots, attributes |-> attributes]

(* UnsupportedFeatureError, for what the language has and sheets has not. *)
Refused(feature) == Node("unsupported", <<>>, feature)

(* The branches for trees "successful generated parses" do not have. *)
Impossible == Node("impossible", <<>>, Plain)

(* A nil pointer is dereferenced. *)
Panic == Node("panic", <<>>, Plain)

Failures == {"unsupported", "impossible", "panic"}

(* The subtrees an AST node reads. *)
Reads(ast) == UNION {Range(ast.slots[x]) : x \in DOMAIN ast.slots}

(* A function that only reads one accessor of the node. *)
Through(s, R) == Node("through", [Child |-> One(s, R)], Plain)

(* A switch over the accessors of a node, in the order of its cases. *)
Switch(s, cases) ==
    LET present == SelectSeq(cases, LAMBDA symbol : Has(s, symbol)) IN
    IF present = <<>> THEN Impossible
    ELSE Node("switch", [Child |-> One(s, Head(present))], Head(present))

-----------------------------------------------------------------------------
(* binder.go: statements and clauses. *)

bindCypher(s) ==
    Node("QueryStatement", [Query |-> One(s, "OC_Statement")],
         [Explain |-> Has(s, "EXPLAIN"), Profile |-> Has(s, "PROFILE")])

bindQuery(s) ==
    Switch(s, <<"OC_RegularQuery", "OC_StandaloneCall", "OC_SubqueryCall">>)

(* f: which of the branches do not conclude with RETURN. *)
bindRegularQuery(s, f) ==
    LET unions == All(s, "OC_Union") IN
    IF unions # <<>> /\ f # {} THEN Refused("updating UNION branch")
    ELSE Node("QueryStatement",
              [First |-> One(s, "OC_SingleQuery"), UnionBranches |-> unions], Plain)

bindUnion(s) ==
    Node("UnionBranch", [Query |-> One(s, "OC_SingleQuery")], [All |-> Has(s, "ALL")])

bindSingleQuery(s) == Switch(s, <<"OC_SinglePartQuery", "OC_MultiPartQuery">>)

appendQueryChildren(s) ==
    LET children == Subtrees(s)
        handled == {"OC_ReadingClause", "OC_UpdatingClause", "OC_With", "OC_Return",
                    "OC_SinglePartQuery"}
    IN IF children = <<>> \/ ~(Range(children) \subseteq handled) THEN Impossible
       ELSE Node("Clauses", [Clauses |-> [k \in DOMAIN children |-> k]], Plain)

bindReadingClause(s) ==
    Switch(s, <<"OC_Match", "OC_Unwind", "OC_InQueryCall", "OC_SubqueryCall">>)

bindUpdatingClause(s) ==
    Switch(s, <<"OC_Create", "OC_Merge", "OC_Delete", "OC_Set", "OC_Remove">>)

bindMatch(s) ==
    Node("MatchClause",
         [Patterns |-> One(s, "OC_Pattern"), Where |-> One(s, "OC_Where")],
         [Optional |-> Has(s, "OPTIONAL")])

bindUnwind(s) ==
    Node("UnwindClause",
         [Expression |-> One(s, "OC_Expression"), Alias |-> One(s, "OC_Variable")],
         Plain)

(* WITH and RETURN: only a WITH has the accessor OC_Where. *)
bindProjection(s) ==
    Node("ProjectionClause",
         [Body |-> One(s, "OC_ProjectionBody"), Where |-> One(s, "OC_Where")], Plain)

bindProjectionBody(s) ==
    Node("ProjectionClause",
         [Items |-> One(s, "OC_ProjectionItems"), OrderBy |-> One(s, "OC_Order"),
          Skip |-> One(s, "OC_Skip"), Limit |-> One(s, "OC_Limit")],
         [Distinct |-> Has(s, "DISTINCT")])

bindProjectionItems(s) ==
    Node("ProjectionItems", [Items |-> All(s, "OC_ProjectionItem")],
         [Star |-> directToken(s, "*") # 0])

bindProjectionItem(s) ==
    Node("ProjectionItem",
         [Expression |-> One(s, "OC_Expression"), Alias |-> One(s, "OC_Variable")],
         Plain)

(* Variant: one of the two spellings is forgotten. *)
bindSortItemShort(s) ==
    Node("SortItem", [Expression |-> One(s, "OC_Expression")],
         [Descending |-> Has(s, "DESC")])

bindSortItem(s) ==
    Node("SortItem", [Expression |-> One(s, "OC_Expression")],
         [Descending |-> Has(s, "DESC") \/ Has(s, "DESCENDING")])

bindMerge(s) ==
    Node("MergeClause",
         [Pattern |-> One(s, "OC_PatternPart"), Actions |-> All(s, "OC_MergeAction")],
         Plain)

bindMergeAction(s) ==
    Node("MergeAction", [Set |-> One(s, "OC_Set")],
         [Kind |-> IF Has(s, "CREATE") THEN "OnCreate" ELSE "OnMatch"])

bindSetItems(s) == Node("SetItems", [Items |-> All(s, "OC_SetItem")], Plain)

bindSetItem(s) ==
    LET variable == One(s, "OC_Variable")
        value == One(s, "OC_Expression")
    IN CASE Has(s, "OC_PropertyExpression") ->
              Node("SetItem",
                   [Target |-> One(s, "OC_PropertyExpression"), Value |-> value],
                   [Operator |-> <<"=">>])
         [] Has(s, "OC_NodeLabels") /\ ~Has(s, "OC_PropertyExpression") ->
              Node("SetItem", [Target |-> variable, Value |-> value,
                               Labels |-> One(s, "OC_NodeLabels")], Plain)
         [] Has(s, "OC_Variable") /\ ~Has(s, "OC_NodeLabels") ->
              Node("SetItem", [Target |-> variable, Value |-> value],
                   [Operator |-> operatorBetween(s, variable[1], value[1])])
         [] OTHER -> Impossible

bindDelete(s) ==
    Node("DeleteClause", [Expressions |-> All(s, "OC_Expression")],
         [Detach |-> Has(s, "DETACH")])

bindRemove(s) == Node("RemoveClause", [Items |-> All(s, "OC_RemoveItem")], Plain)

bindRemoveItem(s) ==
    IF Has(s, "OC_PropertyExpression")
    THEN Node("RemoveItem", [Target |-> One(s, "OC_PropertyExpression")], Plain)
    ELSE Node("RemoveItem", [Target |-> One(s, "OC_Variable"),
                             Labels |-> One(s, "OC_NodeLabels")], Plain)

(* f: whether the name is outside supportedProcedure's catalog. *)
bindProcedureCall(s, f) ==
    LET explicit == One(s, "OC_ExplicitProcedureInvocation")
        implicit == One(s, "OC_ImplicitProcedureInvocation")
        procedure == IF explicit # <<>> THEN explicit ELSE implicit
    IN IF procedure = <<>> THEN Impossible
       ELSE IF f # {} THEN Refused("procedure invocation")
       ELSE Node("CallClause",
                 [Procedure |-> procedure, Yield |-> One(s, "OC_YieldItems")],
                 [Star |-> directToken(s, "*") # 0])

bindInvocation(s) ==
    Node("Invocation", [Name |-> One(s, "OC_ProcedureName"),
                        Arguments |-> All(s, "OC_Expression")], Plain)

bindYieldItems(s) ==
    Node("YieldItems",
         [Items |-> All(s, "OC_YieldItem"), Where |-> One(s, "OC_Where")], Plain)

bindYieldItem(s) ==
    IF Has(s, "OC_ProcedureResultField")
    THEN Node("YieldItem", [Name |-> One(s, "OC_ProcedureResultField"),
                            Alias |-> One(s, "OC_Variable")], Plain)
    ELSE Node("YieldItem", [Name |-> One(s, "OC_Variable"), Alias |-> <<>>], Plain)

bindSubqueryCall(s) == Through(s, "OC_RegularQuery")

(* bindProcedureName and bindFunctionName, and the namespace they walk. *)
bindQualifiedName(s) ==
    Node("QualifiedName", [Namespace |-> One(s, "OC_Namespace"),
                           Name |-> One(s, "OC_SymbolicName")], Plain)

bindNamespace(s) == Node("Parts", [Parts |-> All(s, "OC_SymbolicName")], Plain)

(* The text of the node, whatever it is made of. *)
bindIdentifier(s) ==
    Node("Identifier", [Text |-> [k \in DOMAIN Subtrees(s) |-> k]],
         SelectSeq(s, LAMBDA symbol : ~IsSubtree(symbol)))

-----------------------------------------------------------------------------
(* binder_pattern.go: patterns. *)

bindPattern(s) == Node("Patterns", [Parts |-> All(s, "OC_PatternPart")], Plain)

bindPatternPart(s) ==
    Node("PatternPart", [Variable |-> One(s, "OC_Variable"),
                         Element |-> One(s, "OC_AnonymousPatternPart")], Plain)

(* Shared with bindRelationshipsPattern, whose nodes have no nested element. *)
bindPatternElement(s) ==
    IF Has(s, "OC_PatternElement") THEN Through(s, "OC_PatternElement")
    ELSE Node("PatternElement", [First |-> One(s, "OC_NodePattern"),
                                 Chain |-> All(s, "OC_PatternElementChain")], Plain)

bindPatternElementChain(s) ==
    Node("Chain", [Relationship |-> One(s, "OC_RelationshipPattern"),
                   Node |-> One(s, "OC_NodePattern")], Plain)

bindNodePattern(s) ==
    Node("NodePattern",
         [Variable |-> One(s, "OC_Variable"), Labels |-> One(s, "OC_NodeLabels"),
          Properties |-> One(s, "OC_Properties")], Plain)

bindNodeLabels(s) == Node("Labels", [Labels |-> All(s, "OC_NodeLabel")], Plain)

bindRelationshipPattern(s) ==
    LET left == Has(s, "OC_LeftArrowHead")
        right == Has(s, "OC_RightArrowHead")
    IN Node("RelationshipPattern", [Detail |-> One(s, "OC_RelationshipDetail")],
            [Direction |-> CASE left /\ right -> "Bidirectional"
                             [] left /\ ~right -> "Incoming"
                             [] ~left /\ right -> "Outgoing"
                             [] OTHER -> "Undirected"])

bindRelationshipDetail(s) ==
    Node("RelationshipPattern",
         [Variable |-> One(s, "OC_Variable"), Types |-> One(s, "OC_RelationshipTypes"),
          Length |-> One(s, "OC_RangeLiteral"), Properties |-> One(s, "OC_Properties")],
         Plain)

bindRelationshipTypes(s) ==
    Node("Types", [Types |-> All(s, "OC_RelTypeName")], Plain)

(* strings.Contains(ctx.GetText(), ".."): the text of the whole subtree,     *)
(* with its strings and comments.  f: whether ".." occurs below the node.    *)
containsRange(s, f) == Has(s, "..") \/ "dots" \in f

(* integer.GetStart() < rangeStart, where no token at all is rangeStart -1. *)
BeforeRange(s, k) == Place(s, k) < directToken(s, "..")

bindRelationshipLength(s, f) ==
    LET integers == All(s, "OC_IntegerLiteral")
        Length(lower, upper, exact) ==
            Node("RelationshipLength", [Lower |-> lower, Upper |-> upper],
                 [Exact |-> exact])
    IN IF ~containsRange(s, f)
       THEN Length(integers, integers, Len(integers) = 1)
       ELSE Length(SelectSeq(integers, LAMBDA k : BeforeRange(s, k)),
                   SelectSeq(integers, LAMBDA k : ~BeforeRange(s, k)), FALSE)

bindProperties(s) == Switch(s, <<"OC_MapLiteral", "OC_Parameter">>)

-----------------------------------------------------------------------------
(* binder_expression.go: expressions. *)

(* bindOrExpression, bindXorExpression, bindAndExpression and               *)
(* bindPowerExpression, whose rules have one operator each.                  *)
bindBinarySequence(s, R) ==
    LET operands == All(s, R) IN
    IF operands = <<>> THEN Impossible
    ELSE IF Len(operands) = 1 THEN Through(s, R)
    ELSE Node("BinaryExpression", [Operands |-> operands], Plain)

(* bindAddExpression and bindMultiplyExpression, which read the operator. *)
bindOperatorSequence(s, R) ==
    LET operands == All(s, R) IN
    IF operands = <<>> THEN Impossible
    ELSE IF Len(operands) = 1 THEN Through(s, R)
    ELSE Node("BinaryExpression", [Operands |-> operands],
              [k \in 1..(Len(operands) - 1) |->
                  operatorBetween(s, operands[k], operands[k + 1])])

bindNotExpression(s) ==
    Node("UnaryExpression", [Expression |-> One(s, "OC_ComparisonExpression")],
         Len(SelectSeq(s, LAMBDA symbol : symbol = "NOT")))

(* a < b < c is (a < b) AND (b < c): every operand but the last is the left  *)
(* side of a comparison, every operand but the first the right side of one,  *)
(* and AND joins the comparisons.                                            *)
bindComparisonExpression(s) ==
    LET left == One(s, "OC_StringListNullPredicateExpression")
        operands == left \o All(s, "OC_PartialComparisonExpression")
        count == Len(operands) - 1
    IN IF count = 0 THEN Through(s, "OC_StringListNullPredicateExpression")
       ELSE Node("BinaryExpression",
                 [Left |-> SubSeq(operands, 1, count),
                  Right |-> SubSeq(operands, 2, count + 1)],
                 [Joined |-> [n \in 2..count |-> "AND"]])

(* comparisonOperator tries the operators in this order. *)
bindPartialComparison(s) ==
    LET operators == SelectSeq(<<"=", "<>", "!=", "=~", "<=", ">=", "<", ">">>,
                               LAMBDA text : directToken(s, text) # 0)
    IN Node("BinaryExpression",
            [Right |-> One(s, "OC_StringListNullPredicateExpression")],
            [Operator |-> IF operators = <<>> THEN "" ELSE Head(operators)])

bindPredicateExpression(s) ==
    LET children == Subtrees(s)
        handled == {"OC_AddOrSubtractExpression", "OC_StringPredicateExpression",
                    "OC_ListPredicateExpression", "OC_NullPredicateExpression"}
    IN IF ~(Range(children) \subseteq handled) THEN Impossible
       ELSE Node("Predicates",
                 [Expression |-> One(s, "OC_AddOrSubtractExpression"),
                  Predicates |-> SelectSeq([k \in DOMAIN children |-> k],
                      LAMBDA k : children[k] # "OC_AddOrSubtractExpression")], Plain)

bindStringPredicate(s) ==
    Node("BinaryExpression", [Right |-> One(s, "OC_AddOrSubtractExpression")],
         [Operator |-> CASE Has(s, "STARTS") -> "STARTS WITH"
                         [] ~Has(s, "STARTS") /\ Has(s, "ENDS") -> "ENDS WITH"
                         [] OTHER -> "CONTAINS"])

bindListPredicate(s) ==
    Node("BinaryExpression", [Right |-> One(s, "OC_AddOrSubtractExpression")],
         [Operator |-> IF Has(s, "NOT") THEN "NOT IN" ELSE "IN"])

bindNullPredicate(s) == Node("IsNullExpression", <<>>, [Not |-> Has(s, "NOT")])

(* f: whether the operand is a bare integer literal (bareIntegerLiteral).   *)
(* The literal takes the sign; a plus sign leaves no trace on it.            *)
bindUnaryExpression(s, f) ==
    LET operator == IF directToken(s, "+") # 0 THEN "+"
                    ELSE IF directToken(s, "-") # 0 THEN "-" ELSE ""
    IN Node("UnaryExpression",
            [Expression |-> One(s, "OC_NonArithmeticOperatorExpression")],
            [Operator |-> IF operator = "+" /\ f # {} THEN "" ELSE operator])

bindNonArithmeticExpression(s) ==
    LET children == Subtrees(s)
        operators == {"OC_PropertyLookup", "OC_ListOperatorExpression"}
    IN IF ~(Range(children) \subseteq operators \cup {"OC_Atom", "OC_NodeLabels"})
       THEN Impossible
       ELSE Node("Operators",
                 [Atom |-> One(s, "OC_Atom"),
                  Operators |-> SelectSeq([k \in DOMAIN children |-> k],
                                          LAMBDA k : children[k] \in operators),
                  Labels |-> One(s, "OC_NodeLabels")], Plain)

(* An index or a slice, told apart by the text of the whole operator.  The  *)
(* slice takes the start of the ".." token of the node itself.               *)
bindListOperator(s, f) ==
    LET expressions == All(s, "OC_Expression") IN
    IF ~containsRange(s, f)
    THEN Node("IndexExpression", [Index |-> <<expressions[1]>>], Plain)
    ELSE IF directToken(s, "..") = 0 THEN Panic
    ELSE Node("SliceExpression",
              [Start |-> SelectSeq(expressions, LAMBDA k : BeforeRange(s, k)),
               End |-> SelectSeq(expressions, LAMBDA k : ~BeforeRange(s, k))], Plain)

bindAtom(s) ==
    Switch(s, <<"OC_Literal", "OC_Parameter", "OC_CaseExpression", "COUNT",
                "OC_ListComprehension", "OC_PatternComprehension", "OC_Quantifier",
                "OC_Reduce", "OC_PatternPredicate", "OC_ParenthesizedExpression",
                "OC_FunctionInvocation", "OC_ExistentialSubquery", "OC_Variable">>)

bindPropertyExpression(s) ==
    Node("PropertyExpression", [Expression |-> One(s, "OC_Atom"),
                                Properties |-> All(s, "OC_PropertyLookup")], Plain)

(* f: whether the string has an escape that decodeStringLiteral refuses. *)
bindLiteral(s, f) ==
    IF Has(s, "StringLiteral") /\ f # {} THEN Refused("escape")
    ELSE Switch(s, <<"NULL", "OC_BooleanLiteral", "OC_NumberLiteral", "StringLiteral",
                     "OC_ListLiteral", "OC_MapLiteral">>)

bindBooleanLiteral(s) == Node("Literal", <<>>, [Value |-> Has(s, "TRUE")])

bindNumberLiteral(s) == Switch(s, <<"OC_IntegerLiteral", "OC_DoubleLiteral">>)

(* f: whether ParseFloat finds the number out of range. *)
bindDoubleLiteral(s, f) ==
    IF f # {} THEN Refused("float") ELSE Node("Literal", <<>>, [Value |-> "float"])

(* Variant: the magnitude is held against the largest integer under a minus  *)
(* sign too.                                                                 *)
parseIntegerLiteralSymmetric(magnitude, negative) ==
    IF magnitude > Half - 1 THEN Refused("integer")
    ELSE Node("Literal", <<>>,
              [Value |-> IF negative THEN -magnitude ELSE magnitude])

(* ParseUint reads a whole word; the literal under a minus sign may be one   *)
(* larger than the largest integer.  f: the magnitude the digits denote.     *)
parseIntegerLiteral(magnitude, negative) ==
    LET MaxInt == Half - 1
        int64(n) == IF n > MaxInt THEN n - 2 * Half ELSE n
    IN IF \/ magnitude >= 2 * Half
          \/ negative /\ magnitude > MaxInt + 1
          \/ ~negative /\ magnitude > MaxInt
       THEN Refused("integer")
       ELSE Node("Literal", <<>>,
                 [Value |-> IF ~negative THEN int64(magnitude)
                            ELSE IF magnitude = MaxInt + 1 THEN -Half
                            ELSE -int64(magnitude)])

bindIntegerLiteral(f, negative) ==
    parseIntegerLiteral(CHOOSE magnitude \in f : TRUE, negative)

bindParameter(s) ==
    Switch(s, <<"OC_SymbolicName", "OC_ReservedWord", "DecimalInteger">>)

bindListLiteral(s) ==
    Node("ListLiteral", [Elements |-> All(s, "OC_Expression")], Plain)

(* Keys and values are paired by their rank. *)
bindMapLiteral(s) ==
    LET keys == All(s, "OC_PropertyKeyName")
        values == All(s, "OC_Expression")
    IN IF Len(keys) # Len(values) THEN Impossible
       ELSE Node("MapLiteral", [Keys |-> keys, Values |-> values], Plain)

(* f: whether the name is a supported scalar function. *)
bindFunctionInvocation(s, f) ==
    IF Has(s, "DISTINCT") /\ f # {} THEN Refused("DISTINCT scalar function")
    ELSE Node("FunctionInvocation",
              [Name |-> One(s, "OC_FunctionName"), Arguments |-> All(s, "OC_Expression")],
              [Distinct |-> Has(s, "DISTINCT")])

(* The operand is the direct expression before the first alternative, the   *)
(* ELSE the last direct expression that is left.                             *)
bindCaseExpression(s) ==
    LET direct == All(s, "OC_Expression")
        alternatives == All(s, "OC_CaseAlternative")
        operand == direct # <<>> /\ direct[1] < alternatives[1]
        rest == IF operand THEN Tail(direct) ELSE direct
    IN IF alternatives = <<>> THEN Impossible
       ELSE Node("CaseExpression",
                 [Operand |-> IF operand THEN <<direct[1]>> ELSE <<>>,
                  Alternatives |-> alternatives,
                  Else |-> IF Has(s, "ELSE") /\ rest # <<>> THEN <<rest[Len(rest)]>>
                           ELSE <<>>], Plain)

bindCaseAlternative(s) ==
    LET expressions == All(s, "OC_Expression") IN
    Node("CaseAlternative",
         [When |-> <<expressions[1]>>, Then |-> <<expressions[2]>>], Plain)

bindListComprehension(s) ==
    Node("ListComprehension", [Filter |-> One(s, "OC_FilterExpression"),
                               Projection |-> One(s, "OC_Expression")], Plain)

bindPatternComprehension(s) ==
    IF One(s, "OC_Expression") = <<>> THEN Impossible
    ELSE Node("PatternComprehension",
              [Variable |-> One(s, "OC_Variable"),
               Pattern |-> One(s, "OC_RelationshipsPattern"),
               Where |-> One(s, "OC_Where"), Projection |-> One(s, "OC_Expression")],
              Plain)

bindQuantifier(s) ==
    Node("ListPredicate", [Filter |-> One(s, "OC_FilterExpression")],
         [Operator |-> CASE Has(s, "ANY") -> "ANY"
                         [] Has(s, "NONE") -> "NONE"
                         [] Has(s, "SINGLE") -> "SINGLE"
                         [] OTHER -> "ALL"])

(* The filter of a comprehension, which may have no condition, and of a      *)
(* quantifier, whose condition is then the variable of its OC_IdInColl.      *)
bindFilter(s) ==
    Node("Filter", [Id |-> One(s, "OC_IdInColl"), Where |-> One(s, "OC_Where")], Plain)

bindQuantifierFilter(s) ==
    LET id == One(s, "OC_IdInColl") IN
    Node("Filter", [Id |-> id, Where |-> IF Has(s, "OC_Where") THEN One(s, "OC_Where")
                                         ELSE id], Plain)

bindIdInColl(s) ==
    Node("IdInColl",
         [Variable |-> One(s, "OC_Variable"), List |-> One(s, "OC_Expression")], Plain)

bindReduce(s) ==
    LET expressions == All(s, "OC_Expression") IN
    IF Len(expressions) # 2 THEN Impossible
    ELSE Node("ReduceExpression",
              [Accumulator |-> One(s, "OC_Variable"), Initial |-> <<expressions[1]>>,
               Id |-> One(s, "OC_IdInColl"), Expression |-> <<expressions[2]>>], Plain)

(* Variant: the condition of a pattern subquery is not read. *)
bindExistentialSubqueryBare(s) ==
    IF Has(s, "OC_Pattern")
    THEN Node("MatchClause",
              [Patterns |-> One(s, "OC_Pattern"), Where |-> <<>>], Plain)
    ELSE Switch(s, <<"OC_RegularQuery", "OC_ExistentialMatchQuery">>)

bindExistentialSubquery(s) ==
    IF Has(s, "OC_Pattern") /\ ~Has(s, "OC_RegularQuery")
                            /\ ~Has(s, "OC_ExistentialMatchQuery")
    THEN Node("MatchClause",
              [Patterns |-> One(s, "OC_Pattern"), Where |-> One(s, "OC_Where")], Plain)
    ELSE Switch(s, <<"OC_RegularQuery", "OC_ExistentialMatchQuery">>)

bindExistentialMatchQuery(s) ==
    Node("Clauses", [Clauses |-> All(s, "OC_Match")], Plain)
=============================================================================
