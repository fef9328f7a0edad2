---------------------------- MODULE CypherGrammar ----------------------------
(***************************************************************************)
(* The grammar the generated parser recognises: one definition per rule    *)
(* method of cypher_parser.go, read off the Match, rule and prediction      *)
(* calls of the method.  A definition is the set of the shapes a context    *)
(* node of its rule can have, a shape being the sequence of the node's      *)
(* children: a token by its name or spelling, a subtree by its rule.        *)
(*                                                                         *)
(* Layout (the SP token) is left out: the binder skips it wherever it looks *)
(* at children.  A loop is unrolled at most twice, which is enough for      *)
(* first, middle and last elements to differ; the grammar is still          *)
(* recursive, so nesting has no bound.  The Unicode spellings of arrows and *)
(* dashes stand for one another: one of them is kept beside the ASCII one.  *)
(***************************************************************************)
EXTENDS Naturals, Sequences

Lit(symbols) == {symbols}
Any(S) == {<<x>> : x \in S}
A ** B == {a \o b : a \in A, b \in B}
Opt(A) == A \cup {<<>>}
Some(A) == A \cup A ** A
Many(A) == Opt(Some(A))

ReservedWords == {
    "EXPLAIN", "PROFILE", "UNION", "ALL", "OPTIONAL", "MATCH", "UNWIND",
    "AS", "MERGE", "ON", "CREATE", "SET", "DETACH", "DELETE", "REMOVE",
    "WITH", "RETURN", "DISTINCT", "ORDER", "BY", "L_SKIP", "OFFSET",
    "LIMIT", "ASCENDING", "ASC", "DESCENDING", "DESC", "WHERE", "OR",
    "XOR", "AND", "NOT", "STARTS", "ENDS", "CONTAINS", "IN", "IS", "NULL",
    "CASE", "ELSE", "END", "WHEN", "THEN", "EXISTS", "TRUE", "FALSE",
    "CONSTRAINT", "DO", "FOR", "REQUIRE", "UNIQUE", "MANDATORY", "SCALAR",
    "OF", "ADD", "DROP"}

SymbolicWords == {
    "ALL", "REDUCE", "COUNT", "ANY", "NONE", "SINGLE", "HexLetter",
    "FILTER", "EXTRACT"}

(* What a child of a node can be besides a subtree. *)
Tokens ==
    ReservedWords \cup SymbolicWords \cup {
    "CALL", "YIELD", "EOF", "StringLiteral", "DecimalInteger", "HexInteger",
    "OctalInteger", "RegularDecimalReal", "ExponentDecimalReal",
    "UnescapedSymbolicName", "EscapedSymbolicName", "dash", "leftArrow",
    "rightArrow", "(", ")", "[", "]", "{", "}", "*", "+", "-", "/", "%", "^",
    "=", "<>", "!=", "<", ">", "<=", ">=", "=~", "+=", ",", ".", "..", ":",
    ";", "|", "$"}

OC_Cypher ==
    Opt(Any({"EXPLAIN", "PROFILE"})) ** Lit(<<"OC_Statement">>)
    ** Opt(Lit(<<";">>)) ** Lit(<<"EOF">>)
OC_Statement == Lit(<<"OC_Query">>)
OC_Query == Any({"OC_RegularQuery", "OC_StandaloneCall", "OC_SubqueryCall"})
OC_RegularQuery == Lit(<<"OC_SingleQuery">>) ** Many(Lit(<<"OC_Union">>))
OC_Union ==
    Lit(<<"UNION", "ALL", "OC_SingleQuery">>)
    \cup Lit(<<"UNION", "OC_SingleQuery">>)
OC_SingleQuery == Any({"OC_SinglePartQuery", "OC_MultiPartQuery"})
OC_SinglePartQuery ==
    Many(Lit(<<"OC_ReadingClause">>)) ** Lit(<<"OC_Return">>)
    \cup Many(Lit(<<"OC_ReadingClause">>)) ** Lit(<<"OC_UpdatingClause">>)
         ** Many(Lit(<<"OC_UpdatingClause">>)) ** Opt(Lit(<<"OC_Return">>))
OC_MultiPartQuery ==
    Some(Many(Lit(<<"OC_ReadingClause">>)) ** Many(Lit(<<"OC_UpdatingClause">>))
         ** Lit(<<"OC_With">>))
    ** Lit(<<"OC_SinglePartQuery">>)
OC_UpdatingClause ==
    Any({"OC_Create", "OC_Merge", "OC_Delete", "OC_Set", "OC_Remove"})
OC_ReadingClause ==
    Any({"OC_Match", "OC_Unwind", "OC_InQueryCall", "OC_SubqueryCall"})
OC_SubqueryCall == Lit(<<"CALL", "{", "OC_RegularQuery", "}">>)
OC_Match ==
    Opt(Lit(<<"OPTIONAL">>)) ** Lit(<<"MATCH", "OC_Pattern">>)
    ** Opt(Lit(<<"OC_Where">>))
OC_Unwind == Lit(<<"UNWIND", "OC_Expression", "AS", "OC_Variable">>)
OC_Merge ==
    Lit(<<"MERGE", "OC_PatternPart">>) ** Many(Lit(<<"OC_MergeAction">>))
OC_MergeAction ==
    Lit(<<"ON", "MATCH", "OC_Set">>)
    \cup Lit(<<"ON", "CREATE", "OC_Set">>)
OC_Create == Lit(<<"CREATE", "OC_Pattern">>)
OC_Set == Lit(<<"SET", "OC_SetItem">>) ** Many(Lit(<<",", "OC_SetItem">>))
OC_SetItem ==
    Lit(<<"OC_PropertyExpression", "=", "OC_Expression">>)
    \cup Lit(<<"OC_Variable", "=", "OC_Expression">>)
    \cup Lit(<<"OC_Variable", "+=", "OC_Expression">>)
    \cup Lit(<<"OC_Variable", "OC_NodeLabels">>)
OC_Delete ==
    Opt(Lit(<<"DETACH">>)) ** Lit(<<"DELETE", "OC_Expression">>)
    ** Many(Lit(<<",", "OC_Expression">>))
OC_Remove ==
    Lit(<<"REMOVE", "OC_RemoveItem">>) ** Many(Lit(<<",", "OC_RemoveItem">>))
OC_RemoveItem ==
    Lit(<<"OC_Variable", "OC_NodeLabels">>)
    \cup Lit(<<"OC_PropertyExpression">>)
OC_InQueryCall ==
    Lit(<<"CALL", "OC_ExplicitProcedureInvocation">>)
    ** Opt(Lit(<<"YIELD">>) ** Any({"*", "OC_YieldItems"}))
OC_StandaloneCall ==
    Lit(<<"CALL">>)
    ** Any({"OC_ExplicitProcedureInvocation", "OC_ImplicitProcedureInvocation"})
    ** Opt(Lit(<<"YIELD">>) ** Any({"*", "OC_YieldItems"}))
OC_YieldItems ==
    Lit(<<"OC_YieldItem">>) ** Many(Lit(<<",", "OC_YieldItem">>))
    ** Opt(Lit(<<"OC_Where">>))
OC_YieldItem ==
    Opt(Lit(<<"OC_ProcedureResultField", "AS">>)) ** Lit(<<"OC_Variable">>)
OC_With == Lit(<<"WITH", "OC_ProjectionBody">>) ** Opt(Lit(<<"OC_Where">>))
OC_Return == Lit(<<"RETURN", "OC_ProjectionBody">>)
OC_ProjectionBody ==
    Opt(Lit(<<"DISTINCT">>)) ** Lit(<<"OC_ProjectionItems">>)
    ** Opt(Lit(<<"OC_Order">>)) ** Opt(Lit(<<"OC_Skip">>))
    ** Opt(Lit(<<"OC_Limit">>))
OC_ProjectionItems ==
    Lit(<<"*">>) ** Many(Lit(<<",", "OC_ProjectionItem">>))
    \cup Lit(<<"OC_ProjectionItem">>) ** Many(Lit(<<",", "OC_ProjectionItem">>))
OC_ProjectionItem ==
    Lit(<<"OC_Expression", "AS", "OC_Variable">>)
    \cup Lit(<<"OC_Expression">>)
OC_Order ==
    Lit(<<"ORDER", "BY", "OC_SortItem">>) ** Many(Lit(<<",", "OC_SortItem">>))
OC_Skip == Any({"L_SKIP", "OFFSET"}) ** Lit(<<"OC_Expression">>)
OC_Limit == Lit(<<"LIMIT", "OC_Expression">>)
OC_SortItem ==
    Lit(<<"OC_Expression">>)
    ** Opt(Any({"ASCENDING", "ASC", "DESCENDING", "DESC"}))
OC_Where == Lit(<<"WHERE", "OC_Expression">>)
OC_Pattern == Lit(<<"OC_PatternPart">>) ** Many(Lit(<<",", "OC_PatternPart">>))
OC_PatternPart ==
    Lit(<<"OC_Variable", "=", "OC_AnonymousPatternPart">>)
    \cup Lit(<<"OC_AnonymousPatternPart">>)
OC_AnonymousPatternPart == Lit(<<"OC_PatternElement">>)
OC_PatternElement ==
    Lit(<<"OC_NodePattern">>) ** Many(Lit(<<"OC_PatternElementChain">>))
    \cup Lit(<<"(", "OC_PatternElement", ")">>)
OC_RelationshipsPattern ==
    Lit(<<"OC_NodePattern">>) ** Some(Lit(<<"OC_PatternElementChain">>))
OC_NodePattern ==
    Lit(<<"(">>) ** Opt(Lit(<<"OC_Variable">>)) ** Opt(Lit(<<"OC_NodeLabels">>))
    ** Opt(Lit(<<"OC_Properties">>)) ** Lit(<<")">>)
OC_PatternElementChain == Lit(<<"OC_RelationshipPattern", "OC_NodePattern">>)
OC_RelationshipPattern ==
    Lit(<<"OC_LeftArrowHead", "OC_Dash">>) ** Opt(Lit(<<"OC_RelationshipDetail">>))
         ** Lit(<<"OC_Dash", "OC_RightArrowHead">>)
    \cup Lit(<<"OC_LeftArrowHead", "OC_Dash">>)
         ** Opt(Lit(<<"OC_RelationshipDetail">>)) ** Lit(<<"OC_Dash">>)
    \cup Lit(<<"OC_Dash">>) ** Opt(Lit(<<"OC_RelationshipDetail">>))
         ** Lit(<<"OC_Dash", "OC_RightArrowHead">>)
    \cup Lit(<<"OC_Dash">>) ** Opt(Lit(<<"OC_RelationshipDetail">>))
         ** Lit(<<"OC_Dash">>)
OC_RelationshipDetail ==
    Lit(<<"[">>) ** Opt(Lit(<<"OC_Variable">>))
    ** Opt(Lit(<<"OC_RelationshipTypes">>)) ** Opt(Lit(<<"OC_RangeLiteral">>))
    ** Opt(Lit(<<"OC_Properties">>)) ** Lit(<<"]">>)
OC_Properties == Any({"OC_MapLiteral", "OC_Parameter"})
OC_RelationshipTypes ==
    Lit(<<":", "OC_RelTypeName">>)
    ** Many(Lit(<<"|">>) ** Opt(Lit(<<":">>)) ** Lit(<<"OC_RelTypeName">>))
OC_NodeLabels == Lit(<<"OC_NodeLabel">>) ** Many(Lit(<<"OC_NodeLabel">>))
OC_NodeLabel == Lit(<<":", "OC_LabelName">>)
OC_RangeLiteral ==
    Lit(<<"*">>) ** Opt(Lit(<<"OC_IntegerLiteral">>))
    ** Opt(Lit(<<"..">>) ** Opt(Lit(<<"OC_IntegerLiteral">>)))
OC_LabelName == Lit(<<"OC_SchemaName">>)
OC_RelTypeName == Lit(<<"OC_SchemaName">>)
OC_PropertyExpression ==
    Lit(<<"OC_Atom">>) ** Some(Lit(<<"OC_PropertyLookup">>))
OC_Expression == Lit(<<"OC_OrExpression">>)
OC_OrExpression ==
    Lit(<<"OC_XorExpression">>) ** Many(Lit(<<"OR", "OC_XorExpression">>))
OC_XorExpression ==
    Lit(<<"OC_AndExpression">>) ** Many(Lit(<<"XOR", "OC_AndExpression">>))
OC_AndExpression ==
    Lit(<<"OC_NotExpression">>) ** Many(Lit(<<"AND", "OC_NotExpression">>))
OC_NotExpression == Many(Lit(<<"NOT">>)) ** Lit(<<"OC_ComparisonExpression">>)
OC_ComparisonExpression ==
    Lit(<<"OC_StringListNullPredicateExpression">>)
    ** Many(Lit(<<"OC_PartialComparisonExpression">>))
OC_PartialComparisonExpression ==
    Any({"=", "<>", "!=", "=~", "<", ">", "<=", ">="})
    ** Lit(<<"OC_StringListNullPredicateExpression">>)
OC_StringListNullPredicateExpression ==
    Lit(<<"OC_AddOrSubtractExpression">>)
    ** Many(Any({"OC_StringPredicateExpression", "OC_ListPredicateExpression",
                 "OC_NullPredicateExpression"}))
OC_StringPredicateExpression ==
    (Lit(<<"STARTS", "WITH">>) \cup Lit(<<"ENDS", "WITH">>)
     \cup Lit(<<"CONTAINS">>)) ** Lit(<<"OC_AddOrSubtractExpression">>)
OC_ListPredicateExpression ==
    Lit(<<"IN", "OC_AddOrSubtractExpression">>)
    \cup Lit(<<"NOT", "IN", "OC_AddOrSubtractExpression">>)
OC_NullPredicateExpression ==
    Lit(<<"IS", "NULL">>)
    \cup Lit(<<"IS", "NOT", "NULL">>)
OC_AddOrSubtractExpression ==
    Lit(<<"OC_MultiplyDivideModuloExpression">>)
    ** Many(Any({"+", "-"}) ** Lit(<<"OC_MultiplyDivideModuloExpression">>))
OC_MultiplyDivideModuloExpression ==
    Lit(<<"OC_PowerOfExpression">>)
    ** Many(Any({"*", "/", "%"}) ** Lit(<<"OC_PowerOfExpression">>))
OC_PowerOfExpression ==
    Lit(<<"OC_UnaryAddOrSubtractExpression">>)
    ** Many(Lit(<<"^", "OC_UnaryAddOrSubtractExpression">>))
OC_UnaryAddOrSubtractExpression ==
    Lit(<<"OC_NonArithmeticOperatorExpression">>)
    \cup Any({"+", "-"}) ** Lit(<<"OC_NonArithmeticOperatorExpression">>)
OC_NonArithmeticOperatorExpression ==
    Lit(<<"OC_Atom">>)
    ** Many(Any({"OC_ListOperatorExpression", "OC_PropertyLookup"}))
    ** Opt(Lit(<<"OC_NodeLabels">>))
OC_ListOperatorExpression ==
    Lit(<<"[", "OC_Expression", "]">>)
    \cup Lit(<<"[">>) ** Opt(Lit(<<"OC_Expression">>)) ** Lit(<<"..">>)
         ** Opt(Lit(<<"OC_Expression">>)) ** Lit(<<"]">>)
OC_PropertyLookup == Lit(<<".", "OC_PropertyKeyName">>)
OC_Atom ==
    Any({"OC_Literal", "OC_Parameter", "OC_CaseExpression",
         "OC_ListComprehension", "OC_PatternComprehension", "OC_Quantifier",
         "OC_Reduce", "OC_PatternPredicate", "OC_ParenthesizedExpression",
         "OC_FunctionInvocation", "OC_ExistentialSubquery", "OC_Variable"})
    \cup Lit(<<"COUNT", "(", "*", ")">>)
OC_Reduce ==
    Lit(<<"REDUCE", "(", "OC_Variable", "=", "OC_Expression", ",">>)
    ** Lit(<<"OC_IdInColl", "|", "OC_Expression", ")">>)
OC_CaseExpression ==
    (Lit(<<"CASE">>) ** Some(Lit(<<"OC_CaseAlternative">>))
     \cup Lit(<<"CASE", "OC_Expression">>) ** Some(Lit(<<"OC_CaseAlternative">>)))
    ** Opt(Lit(<<"ELSE", "OC_Expression">>)) ** Lit(<<"END">>)
OC_CaseAlternative == Lit(<<"WHEN", "OC_Expression", "THEN", "OC_Expression">>)
OC_ListComprehension ==
    Lit(<<"[", "OC_FilterExpression">>) ** Opt(Lit(<<"|", "OC_Expression">>))
    ** Lit(<<"]">>)
OC_PatternComprehension ==
    Lit(<<"[">>) ** Opt(Lit(<<"OC_Variable", "=">>))
    ** Lit(<<"OC_RelationshipsPattern">>) ** Opt(Lit(<<"OC_Where">>))
    ** Lit(<<"|", "OC_Expression", "]">>)
OC_Quantifier ==
    Any({"ALL", "ANY", "NONE", "SINGLE"})
    ** Lit(<<"(", "OC_FilterExpression", ")">>)
OC_FilterExpression == Lit(<<"OC_IdInColl">>) ** Opt(Lit(<<"OC_Where">>))
OC_PatternPredicate == Lit(<<"OC_RelationshipsPattern">>)
OC_ParenthesizedExpression == Lit(<<"(", "OC_Expression", ")">>)
OC_IdInColl == Lit(<<"OC_Variable", "IN", "OC_Expression">>)
OC_FunctionInvocation ==
    Lit(<<"OC_FunctionName", "(">>) ** Opt(Lit(<<"DISTINCT">>))
    ** Opt(Lit(<<"OC_Expression">>) ** Many(Lit(<<",", "OC_Expression">>)))
    ** Lit(<<")">>)
OC_FunctionName == Lit(<<"OC_Namespace", "OC_SymbolicName">>)
OC_ExistentialSubquery ==
    Lit(<<"EXISTS", "{">>)
    ** (Any({"OC_RegularQuery", "OC_ExistentialMatchQuery"})
        \cup Lit(<<"OC_Pattern">>) ** Opt(Lit(<<"OC_Where">>)))
    ** Lit(<<"}">>)
OC_ExistentialMatchQuery == Lit(<<"OC_Match">>) ** Many(Lit(<<"OC_Match">>))
OC_ExplicitProcedureInvocation ==
    Lit(<<"OC_ProcedureName", "(">>)
    ** Opt(Lit(<<"OC_Expression">>) ** Many(Lit(<<",", "OC_Expression">>)))
    ** Lit(<<")">>)
OC_ImplicitProcedureInvocation == Lit(<<"OC_ProcedureName">>)
OC_ProcedureResultField == Lit(<<"OC_SymbolicName">>)
OC_ProcedureName == Lit(<<"OC_Namespace", "OC_SymbolicName">>)
OC_Namespace == Many(Lit(<<"OC_SymbolicName", ".">>))
OC_Variable == Lit(<<"OC_SymbolicName">>)
OC_Literal ==
    Any({"OC_BooleanLiteral", "NULL", "OC_NumberLiteral", "StringLiteral",
         "OC_ListLiteral", "OC_MapLiteral"})
OC_BooleanLiteral == Any({"TRUE", "FALSE"})
OC_NumberLiteral == Any({"OC_DoubleLiteral", "OC_IntegerLiteral"})
OC_IntegerLiteral == Any({"HexInteger", "DecimalInteger", "OctalInteger"})
OC_DoubleLiteral == Any({"ExponentDecimalReal", "RegularDecimalReal"})
OC_ListLiteral ==
    Lit(<<"[">>)
    ** Opt(Lit(<<"OC_Expression">>) ** Many(Lit(<<",", "OC_Expression">>)))
    ** Lit(<<"]">>)
OC_MapLiteral ==
    Lit(<<"{">>) ** Opt(Lit(<<"OC_PropertyKeyName", ":", "OC_Expression">>)
    ** Many(Lit(<<",", "OC_PropertyKeyName", ":", "OC_Expression">>)))
    ** Lit(<<"}">>)
OC_PropertyKeyName == Lit(<<"OC_SchemaName">>)
OC_Parameter ==
    Lit(<<"$">>)
    ** Any({"OC_SymbolicName", "OC_ReservedWord", "DecimalInteger"})
OC_SchemaName == Any({"OC_SymbolicName", "OC_ReservedWord"})
OC_ReservedWord == Any(ReservedWords)
OC_SymbolicName ==
    Any(SymbolicWords \cup {"UnescapedSymbolicName", "EscapedSymbolicName"})
OC_LeftArrowHead == Any({"<", "leftArrow"})
OC_RightArrowHead == Any({">", "rightArrow"})
OC_Dash == Any({"-", "dash"})

(* The shapes of the nodes of every rule. *)
Grammar == [
    OC_Cypher |-> OC_Cypher,
    OC_Statement |-> OC_Statement,
    OC_Query |-> OC_Query,
    OC_RegularQuery |-> OC_RegularQuery,
    OC_Union |-> OC_Union,
    OC_SingleQuery |-> OC_SingleQuery,
    OC_SinglePartQuery |-> OC_SinglePartQuery,
    OC_MultiPartQuery |-> OC_MultiPartQuery,
    OC_UpdatingClause |-> OC_UpdatingClause,
    OC_ReadingClause |-> OC_ReadingClause,
    OC_SubqueryCall |-> OC_SubqueryCall,
    OC_Match |-> OC_Match,
    OC_Unwind |-> OC_Unwind,
    OC_Merge |-> OC_Merge,
    OC_MergeAction |-> OC_MergeAction,
    OC_Create |-> OC_Create,
    OC_Set |-> OC_Set,
    OC_SetItem |-> OC_SetItem,
    OC_Delete |-> OC_Delete,
    OC_Remove |-> OC_Remove,
    OC_RemoveItem |-> OC_RemoveItem,
    OC_InQueryCall |-> OC_InQueryCall,
    OC_StandaloneCall |-> OC_StandaloneCall,
    OC_YieldItems |-> OC_YieldItems,
    OC_YieldItem |-> OC_YieldItem,
    OC_With |-> OC_With,
    OC_Return |-> OC_Return,
    OC_ProjectionBody |-> OC_ProjectionBody,
    OC_ProjectionItems |-> OC_ProjectionItems,
    OC_ProjectionItem |-> OC_ProjectionItem,
    OC_Order |-> OC_Order,
    OC_Skip |-> OC_Skip,
    OC_Limit |-> OC_Limit,
    OC_SortItem |-> OC_SortItem,
    OC_Where |-> OC_Where,
    OC_Pattern |-> OC_Pattern,
    OC_PatternPart |-> OC_PatternPart,
    OC_AnonymousPatternPart |-> OC_AnonymousPatternPart,
    OC_PatternElement |-> OC_PatternElement,
    OC_RelationshipsPattern |-> OC_RelationshipsPattern,
    OC_NodePattern |-> OC_NodePattern,
    OC_PatternElementChain |-> OC_PatternElementChain,
    OC_RelationshipPattern |-> OC_RelationshipPattern,
    OC_RelationshipDetail |-> OC_RelationshipDetail,
    OC_Properties |-> OC_Properties,
    OC_RelationshipTypes |-> OC_RelationshipTypes,
    OC_NodeLabels |-> OC_NodeLabels,
    OC_NodeLabel |-> OC_NodeLabel,
    OC_RangeLiteral |-> OC_RangeLiteral,
    OC_LabelName |-> OC_LabelName,
    OC_RelTypeName |-> OC_RelTypeName,
    OC_PropertyExpression |-> OC_PropertyExpression,
    OC_Expression |-> OC_Expression,
    OC_OrExpression |-> OC_OrExpression,
    OC_XorExpression |-> OC_XorExpression,
    OC_AndExpression |-> OC_AndExpression,
    OC_NotExpression |-> OC_NotExpression,
    OC_ComparisonExpression |-> OC_ComparisonExpression,
    OC_PartialComparisonExpression |-> OC_PartialComparisonExpression,
    OC_StringListNullPredicateExpression |-> OC_StringListNullPredicateExpression,
    OC_StringPredicateExpression |-> OC_StringPredicateExpression,
    OC_ListPredicateExpression |-> OC_ListPredicateExpression,
    OC_NullPredicateExpression |-> OC_NullPredicateExpression,
    OC_AddOrSubtractExpression |-> OC_AddOrSubtractExpression,
    OC_MultiplyDivideModuloExpression |-> OC_MultiplyDivideModuloExpression,
    OC_PowerOfExpression |-> OC_PowerOfExpression,
    OC_UnaryAddOrSubtractExpression |-> OC_UnaryAddOrSubtractExpression,
    OC_NonArithmeticOperatorExpression |-> OC_NonArithmeticOperatorExpression,
    OC_ListOperatorExpression |-> OC_ListOperatorExpression,
    OC_PropertyLookup |-> OC_PropertyLookup,
    OC_Atom |-> OC_Atom,
    OC_Reduce |-> OC_Reduce,
    OC_CaseExpression |-> OC_CaseExpression,
    OC_CaseAlternative |-> OC_CaseAlternative,
    OC_ListComprehension |-> OC_ListComprehension,
    OC_PatternComprehension |-> OC_PatternComprehension,
    OC_Quantifier |-> OC_Quantifier,
    OC_FilterExpression |-> OC_FilterExpression,
    OC_PatternPredicate |-> OC_PatternPredicate,
    OC_ParenthesizedExpression |-> OC_ParenthesizedExpression,
    OC_IdInColl |-> OC_IdInColl,
    OC_FunctionInvocation |-> OC_FunctionInvocation,
    OC_FunctionName |-> OC_FunctionName,
    OC_ExistentialSubquery |-> OC_ExistentialSubquery,
    OC_ExistentialMatchQuery |-> OC_ExistentialMatchQuery,
    OC_ExplicitProcedureInvocation |-> OC_ExplicitProcedureInvocation,
    OC_ImplicitProcedureInvocation |-> OC_ImplicitProcedureInvocation,
    OC_ProcedureResultField |-> OC_ProcedureResultField,
    OC_ProcedureName |-> OC_ProcedureName,
    OC_Namespace |-> OC_Namespace,
    OC_Variable |-> OC_Variable,
    OC_Literal |-> OC_Literal,
    OC_BooleanLiteral |-> OC_BooleanLiteral,
    OC_NumberLiteral |-> OC_NumberLiteral,
    OC_IntegerLiteral |-> OC_IntegerLiteral,
    OC_DoubleLiteral |-> OC_DoubleLiteral,
    OC_ListLiteral |-> OC_ListLiteral,
    OC_MapLiteral |-> OC_MapLiteral,
    OC_PropertyKeyName |-> OC_PropertyKeyName,
    OC_Parameter |-> OC_Parameter,
    OC_SchemaName |-> OC_SchemaName,
    OC_ReservedWord |-> OC_ReservedWord,
    OC_SymbolicName |-> OC_SymbolicName,
    OC_LeftArrowHead |-> OC_LeftArrowHead,
    OC_RightArrowHead |-> OC_RightArrowHead,
    OC_Dash |-> OC_Dash]

Rules == DOMAIN Grammar
=============================================================================
