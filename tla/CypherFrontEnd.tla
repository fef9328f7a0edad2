--------------------------- MODULE CypherFrontEnd ---------------------------
(***************************************************************************)
(* Parse: a document is split at its semicolons, and each segment that is  *)
(* not empty is recognised by the generated parser and bound.               *)
(*                                                                         *)
(* The binding of a statement is a walk down one branch of its tree: Visit  *)
(* binds the node the walk has reached, whatever shape the parser gave it,  *)
(* and Descend goes to a subtree the binder reads.  Every node of every     *)
(* tree is on some walk, however deep it is, so that an invariant of the    *)
(* walk holds at every node of every statement.  A failure at a node fails  *)
(* the statement; a walk that ends at a leaf stands for a tree that bound.  *)
(***************************************************************************)
EXTENDS CypherBinder, FiniteSets

CONSTANT MaxSource   \* bound: the lexical elements of a document

ASSUME SourceAssumption == MaxSource \in Nat

VARIABLES source,    \* the document
          at,        \* splitDocument: the next element, and where the segment
          start,     \* that it belongs to starts
          todo,      \* the segments still to be parsed
          outcomes,  \* what Parse has answered so far
          stage,     \* what Parse does next
          negative,  \* binder: the literal stands under a minus sign
          node, ast  \* binder: the node reached, and what it was bound to

vars == <<source, at, start, todo, outcomes, stage, negative, node, ast>>

(* What the lexer makes of a stretch of text: layout (comments included), a *)
(* semicolon outside quotes, a token, or text for which it has no token.     *)
Elements == {"SP", "semicolon", "word", "junk"}

Sources == UNION {[1..n -> Elements] : n \in 0..MaxSource}

NoNode == [rule |-> "none", shape |-> <<>>, facts |-> {}]

NoAst == Node("none", <<>>, Plain)

-----------------------------------------------------------------------------
(* parser.go *)

(* Variant: a segment without a token is empty, whatever the lexer reports. *)
emptySegmentTokens(segment) ==
    \A i \in DOMAIN segment.text : segment.text[i] # "word"

(* makeSegment: a segment is empty when its only tokens are layout and the  *)
(* lexer reports nothing.                                                    *)
emptySegment(segment) ==
    \A i \in DOMAIN segment.text : segment.text[i] = "SP"

(* The segment that ends before the element the split has reached. *)
makeSegment == [number |-> Len(todo) + 1, text |-> SubSeq(source, start, at - 1)]

(* What the text around a node may be like, where a bind function asks. *)
Facts(rule, s) ==
    CASE rule = "OC_RegularQuery" -> SUBSET {"first", "branch"}
      [] rule \in {"OC_InQueryCall", "OC_StandaloneCall"} ->
            SUBSET {"unknown"}
      [] rule = "OC_FunctionInvocation" -> SUBSET {"scalar"}
      [] rule \in {"OC_ListOperatorExpression", "OC_RangeLiteral"} ->
            SUBSET {"dots"}
      [] rule = "OC_UnaryAddOrSubtractExpression" -> SUBSET {"bare"}
      [] rule = "OC_FilterExpression" -> SUBSET {"quantifier"}
      [] rule \in {"OC_Literal", "OC_DoubleLiteral"} -> SUBSET {"malformed"}
      [] rule = "OC_IntegerLiteral" -> {{magnitude} : magnitude \in 0..(2 * Half)}
      [] OTHER -> {{}}

(* The bind function that reads the nodes of each rule. *)
Bind(rule, s, f) ==
    CASE rule = "OC_Cypher" -> bindCypher(s)
      [] rule = "OC_Statement" -> Through(s, "OC_Query")
      [] rule = "OC_Query" -> bindQuery(s)
      [] rule = "OC_RegularQuery" -> bindRegularQuery(s, f)
      [] rule = "OC_Union" -> bindUnion(s)
      [] rule = "OC_SingleQuery" -> bindSingleQuery(s)
      [] rule \in {"OC_SinglePartQuery", "OC_MultiPartQuery"} -> appendQueryChildren(s)
      [] rule = "OC_ReadingClause" -> bindReadingClause(s)
      [] rule = "OC_UpdatingClause" -> bindUpdatingClause(s)
      [] rule = "OC_SubqueryCall" -> bindSubqueryCall(s)
      [] rule = "OC_Match" -> bindMatch(s)
      [] rule = "OC_Unwind" -> bindUnwind(s)
      [] rule = "OC_Merge" -> bindMerge(s)
      [] rule = "OC_MergeAction" -> bindMergeAction(s)
      [] rule = "OC_Create" -> Through(s, "OC_Pattern")
      [] rule = "OC_Set" -> bindSetItems(s)
      [] rule = "OC_SetItem" -> bindSetItem(s)
      [] rule = "OC_Delete" -> bindDelete(s)
      [] rule = "OC_Remove" -> bindRemove(s)
      [] rule = "OC_RemoveItem" -> bindRemoveItem(s)
      [] rule \in {"OC_InQueryCall", "OC_StandaloneCall"} -> bindProcedureCall(s, f)
      [] rule \in {"OC_ExplicitProcedureInvocation", "OC_ImplicitProcedureInvocation"}
            -> bindInvocation(s)
      [] rule = "OC_YieldItems" -> bindYieldItems(s)
      [] rule = "OC_YieldItem" -> bindYieldItem(s)
      [] rule \in {"OC_With", "OC_Return"} -> bindProjection(s)
      [] rule = "OC_ProjectionBody" -> bindProjectionBody(s)
      [] rule = "OC_ProjectionItems" -> bindProjectionItems(s)
      [] rule = "OC_ProjectionItem" -> bindProjectionItem(s)
      [] rule = "OC_Order" -> Node("OrderBy", [Items |-> All(s, "OC_SortItem")], Plain)
      [] rule = "OC_SortItem" -> bindSortItem(s)
      [] rule \in {"OC_Skip", "OC_Limit", "OC_Where", "OC_ParenthesizedExpression"}
            -> Through(s, "OC_Expression")
      [] rule = "OC_Pattern" -> bindPattern(s)
      [] rule = "OC_PatternPart" -> bindPatternPart(s)
      [] rule = "OC_AnonymousPatternPart" -> Through(s, "OC_PatternElement")
      [] rule \in {"OC_PatternElement", "OC_RelationshipsPattern"}
            -> bindPatternElement(s)
      [] rule = "OC_PatternElementChain" -> bindPatternElementChain(s)
      [] rule = "OC_NodePattern" -> bindNodePattern(s)
      [] rule = "OC_NodeLabels" -> bindNodeLabels(s)
      [] rule = "OC_NodeLabel" -> Through(s, "OC_LabelName")
      [] rule \in {"OC_LabelName", "OC_RelTypeName", "OC_PropertyKeyName"}
            -> Through(s, "OC_SchemaName")
      [] rule = "OC_RelationshipPattern" -> bindRelationshipPattern(s)
      [] rule = "OC_RelationshipDetail" -> bindRelationshipDetail(s)
      [] rule = "OC_RelationshipTypes" -> bindRelationshipTypes(s)
      [] rule = "OC_RangeLiteral" -> bindRelationshipLength(s, f)
      [] rule = "OC_Properties" -> bindProperties(s)
      [] rule = "OC_Expression" -> Through(s, "OC_OrExpression")
      [] rule = "OC_OrExpression" -> bindBinarySequence(s, "OC_XorExpression")
      [] rule = "OC_XorExpression" -> bindBinarySequence(s, "OC_AndExpression")
      [] rule = "OC_AndExpression" -> bindBinarySequence(s, "OC_NotExpression")
      [] rule = "OC_NotExpression" -> bindNotExpression(s)
      [] rule = "OC_ComparisonExpression" -> bindComparisonExpression(s)
      [] rule = "OC_PartialComparisonExpression" -> bindPartialComparison(s)
      [] rule = "OC_StringListNullPredicateExpression" -> bindPredicateExpression(s)
      [] rule = "OC_StringPredicateExpression" -> bindStringPredicate(s)
      [] rule = "OC_ListPredicateExpression" -> bindListPredicate(s)
      [] rule = "OC_NullPredicateExpression" -> bindNullPredicate(s)
      [] rule = "OC_AddOrSubtractExpression"
            -> bindOperatorSequence(s, "OC_MultiplyDivideModuloExpression")
      [] rule = "OC_MultiplyDivideModuloExpression"
            -> bindOperatorSequence(s, "OC_PowerOfExpression")
      [] rule = "OC_PowerOfExpression"
            -> bindBinarySequence(s, "OC_UnaryAddOrSubtractExpression")
      [] rule = "OC_UnaryAddOrSubtractExpression" -> bindUnaryExpression(s, f)
      [] rule = "OC_NonArithmeticOperatorExpression" -> bindNonArithmeticExpression(s)
      [] rule = "OC_ListOperatorExpression" -> bindListOperator(s, f)
      [] rule = "OC_PropertyLookup" -> Through(s, "OC_PropertyKeyName")
      [] rule = "OC_PropertyExpression" -> bindPropertyExpression(s)
      [] rule = "OC_Atom" -> bindAtom(s)
      [] rule = "OC_Reduce" -> bindReduce(s)
      [] rule = "OC_CaseExpression" -> bindCaseExpression(s)
      [] rule = "OC_CaseAlternative" -> bindCaseAlternative(s)
      [] rule = "OC_ListComprehension" -> bindListComprehension(s)
      [] rule = "OC_PatternComprehension" -> bindPatternComprehension(s)
      [] rule = "OC_Quantifier" -> bindQuantifier(s)
      [] rule = "OC_FilterExpression" ->
            IF f = {} THEN bindFilter(s) ELSE bindQuantifierFilter(s)
      [] rule = "OC_PatternPredicate" -> Through(s, "OC_RelationshipsPattern")
      [] rule = "OC_IdInColl" -> bindIdInColl(s)
      [] rule = "OC_FunctionInvocation" -> bindFunctionInvocation(s, f)
      [] rule \in {"OC_FunctionName", "OC_ProcedureName"} -> bindQualifiedName(s)
      [] rule = "OC_Namespace" -> bindNamespace(s)
      [] rule = "OC_ExistentialSubquery" -> bindExistentialSubquery(s)
      [] rule = "OC_ExistentialMatchQuery" -> bindExistentialMatchQuery(s)
      [] rule \in {"OC_ProcedureResultField", "OC_Variable"}
            -> Through(s, "OC_SymbolicName")
      [] rule = "OC_Literal" -> bindLiteral(s, f)
      [] rule = "OC_BooleanLiteral" -> bindBooleanLiteral(s)
      [] rule = "OC_NumberLiteral" -> bindNumberLiteral(s)
      [] rule = "OC_IntegerLiteral" -> bindIntegerLiteral(f, negative)
      [] rule = "OC_DoubleLiteral" -> bindDoubleLiteral(s, f)
      [] rule = "OC_ListLiteral" -> bindListLiteral(s)
      [] rule = "OC_MapLiteral" -> bindMapLiteral(s)
      [] rule = "OC_Parameter" -> bindParameter(s)
      [] OTHER -> bindIdentifier(s)   \* OC_SymbolicName, OC_SchemaName, ...

-----------------------------------------------------------------------------
Init ==
    /\ source \in Sources
    /\ at = 1
    /\ start = 1
    /\ todo = <<>>
    /\ outcomes = <<>>
    /\ stage = "split"
    /\ negative = FALSE
    /\ node = NoNode
    /\ ast = NoAst

(* splitDocument: the next element, which ends a segment if it is a semicolon. *)
Split ==
    /\ stage = "split" /\ at <= Len(source)
    /\ at' = at + 1
    /\ IF source[at] = "semicolon"
       THEN todo' = Append(todo, makeSegment) /\ start' = at + 1
       ELSE UNCHANGED <<todo, start>>
    /\ UNCHANGED <<source, outcomes, stage, negative, node, ast>>

(* ... and after the last one the segment that is left, empty or not. *)
SplitEnd ==
    /\ stage = "split" /\ at > Len(source)
    /\ todo' = Append(todo, makeSegment)
    /\ stage' = "next"
    /\ UNCHANGED <<source, at, start, outcomes, negative, node, ast>>

Record(outcome) ==
    /\ outcomes' = Append(outcomes, [segment |-> Head(todo).number, result |-> outcome])
    /\ todo' = Tail(todo)
    /\ stage' = "next"
    /\ negative' = FALSE
    /\ node' = NoNode
    /\ ast' = NoAst
    /\ UNCHANGED <<source, at, start>>

SkipSegment ==
    /\ stage = "next" /\ todo # <<>>
    /\ emptySegment(Head(todo))
    /\ todo' = Tail(todo)
    /\ UNCHANGED <<source, at, start, outcomes, stage, negative, node, ast>>

(* parseCST reports syntax errors: always for text that has no token. *)
RejectSegment ==
    /\ stage = "next" /\ todo # <<>>
    /\ ~emptySegment(Head(todo))
    /\ Record("error")

(* parseCST returns a tree, and bindCypher starts at its root. *)
AcceptSegment ==
    /\ stage = "next" /\ todo # <<>>
    /\ ~emptySegment(Head(todo))
    /\ \A i \in DOMAIN Head(todo).text : Head(todo).text[i] # "junk"
    /\ stage' = "visit"
    /\ node' = [NoNode EXCEPT !.rule = "OC_Cypher"]
    /\ UNCHANGED <<source, at, start, todo, outcomes, negative, ast>>

(* The parser gave the node this shape; its bind function reads it. *)
Visit ==
    /\ stage = "visit"
    /\ \E s \in Grammar[node.rule] : \E f \in Facts(node.rule, s) :
          LET bound == Bind(node.rule, s, f) IN
          /\ node' = [node EXCEPT !.shape = s, !.facts = f]
          /\ ast' = bound
          /\ stage' = CASE bound.kind = "panic" -> "panicked"
                        [] bound.kind \in {"unsupported", "impossible"} -> "failed"
                        [] OTHER -> "bound"
    /\ UNCHANGED <<source, at, start, todo, outcomes, negative>>

(* bindUnaryExpression hands a bare integer and its sign to the literal. *)
SignedLiteral ==
    /\ node.rule = "OC_UnaryAddOrSubtractExpression"
    /\ node.facts # {}
    /\ Len(node.shape) = 2

Descend ==
    /\ stage = "bound"
    /\ \E k \in Reads(ast) :
          node' = [NoNode EXCEPT !.rule =
                      IF SignedLiteral THEN "OC_IntegerLiteral"
                      ELSE Subtrees(node.shape)[k]]
    /\ negative' = (SignedLiteral /\ directToken(node.shape, "-") # 0)
    /\ ast' = NoAst
    /\ stage' = "visit"
    /\ UNCHANGED <<source, at, start, todo, outcomes>>

(* The bind error of the statement; the loop goes on with the next one. *)
BindFails ==
    /\ stage = "failed"
    /\ Record("error")

BindSucceeds ==
    /\ stage = "bound" /\ Reads(ast) = {}
    /\ Record("statement")

Return ==
    /\ stage = "next" /\ todo = <<>>
    /\ stage' = "returned"
    /\ UNCHANGED <<source, at, start, todo, outcomes, negative, node, ast>>

Next ==
    \/ Split \/ SplitEnd
    \/ SkipSegment \/ RejectSegment \/ AcceptSegment \/ Visit \/ Descend
    \/ BindFails \/ BindSucceeds \/ Return

Spec == Init /\ [][Next]_vars

-----------------------------------------------------------------------------
(* The state of Parse and of the binder is well formed. *)
TypeOK ==
    /\ source \in Sources
    /\ \A i \in DOMAIN todo : todo[i].number \in 1..(MaxSource + 1)
    /\ \A i \in DOMAIN outcomes : outcomes[i].result \in {"error", "statement"}
    /\ at \in 1..(MaxSource + 1) /\ start \in 1..at
    /\ stage \in {"split", "next", "visit", "bound", "failed", "panicked", "returned"}
    /\ negative \in BOOLEAN
    /\ node.rule \in Rules \cup {"none"}
    /\ stage \in {"bound", "failed", "panicked"} =>
          node.shape \in Grammar[node.rule] /\ node.facts \in Facts(node.rule, node.shape)

(* Spellings that mean the same: an order that is ascending anyway, SKIP and *)
(* OFFSET, a colon before a further relationship type, an open range, the    *)
(* final semicolon, the base of an integer, the exponent of a float, a plus  *)
(* sign on a literal, and the Unicode arrows and dashes.                     *)
Canonical(rule, s, f) ==
    LET Without(symbols) == SelectSeq(s, LAMBDA x : x \notin symbols)
        Spelled(from, to) == [i \in DOMAIN s |-> IF s[i] \in from THEN to ELSE s[i]]
    IN CASE rule = "OC_SortItem" ->
              SelectSeq(Spelled({"DESCENDING"}, "DESC"),
                        LAMBDA x : x \notin {"ASC", "ASCENDING"})
         [] rule = "OC_Skip" -> Spelled({"OFFSET"}, "L_SKIP")
         [] rule = "OC_RelationshipTypes" -> Without({":"})
         [] rule = "OC_RangeLiteral" /\ s = <<"*", "..">> -> <<"*">>
         [] rule = "OC_Cypher" -> Without({";"})
         [] rule = "OC_IntegerLiteral" -> <<"DecimalInteger">>
         [] rule = "OC_DoubleLiteral" -> <<"RegularDecimalReal">>
         [] rule = "OC_UnaryAddOrSubtractExpression" /\ f # {} -> Without({"+"})
         [] OTHER -> s

(* A comment that holds two dots inside a range literal: *3 /* .. */ is     *)
(* bound as *..3.  See the README.                                          *)
CommentedRange == node.rule = "OC_RangeLiteral" /\ node.facts # {}

(* No node ignores a choice of the writer: two ways to write a node with the *)
(* same subtrees (a keyword given or left out, one operator or another, an   *)
(* expression on either side of a token) are bound to the same AST only if   *)
(* they are spellings of one thing.  Trees that differ in their subtrees may *)
(* share an AST, and some do: parentheses leave none, a chain of comparisons *)
(* is bound like the conjunction written out, and a quantifier without a     *)
(* condition like one whose condition is its variable.                       *)
NoChoiceIgnored ==
    stage = "bound" /\ ~CommentedRange =>
        \A s \in Grammar[node.rule] :
            /\ node.facts \in Facts(node.rule, s)
            /\ Bind(node.rule, s, node.facts) = ast
            /\ Subtrees(s) = Subtrees(node.shape)
            => Canonical(node.rule, s, node.facts) =
                 Canonical(node.rule, node.shape, node.facts)

(* The branches for trees that "successful generated parses" do not have     *)
(* (binder_expression.go:111) are never taken, and the binder reads every    *)
(* subtree of a tree it accepts: no clause, item or operand the user wrote   *)
(* is refused as impossible or left out of the AST.                          *)
NothingDropped ==
    /\ ast.kind # "impossible"
    /\ stage = "bound" => Reads(ast) = DOMAIN Subtrees(node.shape)

(* An integer literal denotes its own value, negated under a minus sign, and *)
(* is refused exactly when the word cannot hold it.                          *)
LiteralIsExact ==
    node.rule = "OC_IntegerLiteral" /\ ast.kind # "none" =>
        LET magnitude == CHOOSE m \in node.facts : TRUE
            value == IF negative THEN -magnitude ELSE magnitude
        IN IF value \in -Half..(Half - 1)
           THEN ast.kind = "Literal" /\ ast.attributes.Value = value
           ELSE ast.kind = "unsupported"

(* Where the document holds one of the elements kinds, and the number of the *)
(* segment that a place is in: one more than the semicolons up to it.        *)
Written(kinds) == {i \in DOMAIN source : source[i] \in kinds}
SegmentOf(i) == 1 + Cardinality({j \in 1..i : source[j] = "semicolon"})

(* When Parse returns, each segment with anything but layout in it has been *)
(* answered once, in order, and one the lexer cannot read with an error: a   *)
(* failed statement does not prevent later ones from being parsed.           *)
EveryStatementAnswered ==
    stage = "returned" =>
        /\ {outcomes[n].segment : n \in DOMAIN outcomes}
              = {SegmentOf(i) : i \in Written({"word", "junk"})}
        /\ \A m, n \in DOMAIN outcomes :
              m < n => outcomes[m].segment < outcomes[n].segment
        /\ \A n \in DOMAIN outcomes :
              outcomes[n].segment \in {SegmentOf(i) : i \in Written({"junk"})} =>
                  outcomes[n].result = "error"

(* Binding a statement the parser accepted ends in an AST or in an error, so *)
(* that later statements are still parsed (parser.go:26-28).                 *)
BinderNeverPanics == stage # "panicked"
=============================================================================
