------------------------------- MODULE Descent ------------------------------
(***************************************************************************)
(* The procedures parse_* of the parser, as rules of a pushdown machine.   *)
(* A goal is what is still to be done, as a tuple: its name and arguments. *)
(* A procedure replaces itself by the goals of its body up to the next     *)
(* decision, which depends on the kind of the next token, "look", alone;   *)
(* what the decision chooses is a procedure of its own.  The elementary    *)
(* goals, which module Parser carries out, are                             *)
(*   consume(kind), consume_only(kind)  with and without the white space   *)
(*                                      behind the token                   *)
(*   skip             next_non_whitespace(), whatever the token            *)
(*   rewind(n)        back by n tokens                                     *)
(*   fail(id)         return an error                                      *)
(*   node(kind, n)    allocate a node on the last n nodes made             *)
(*   payload(n)       the last n nodes made go into a payload              *)
(*   range(n)         the last n nodes made become a NodeRange             *)
(***************************************************************************)
EXTENDS TokenKinds, Sequences

Consume(kind) == <<"consume", kind>>
Node(kind, n) == <<"node", kind, n>>
Fail(id) == << <<"fail", id>> >>

Nothing == << >>

expression == <<"expression">>
block == <<"block">>
path == <<"path">>
type == <<"type">>
statement == <<"statement">>
parameters == <<"list", "parameter", ")">>
fields == <<"list", "field", "}">>

-----------------------------------------------------------------------------
(* Lists                                                                   *)

\* while (!eof() && !check(closer)) { one; if (!check(",")) break; next }
List(look, one, closer) ==
  IF look \in {"eof", closer} THEN Nothing
  ELSE << <<one>>, <<"list_more", one, closer>> >>

ListMore(look, one, closer) ==
  IF look = "," THEN <<Consume(","), <<"list", one, closer>> >> ELSE Nothing

ParseExpressionSequence(look, n) ==
  IF look = "eof" THEN << <<"range", n>> >>
  ELSE <<expression, <<"sequence_more", n + 1>> >>

SequenceMore(look, n) ==
  IF look = "," THEN <<Consume(","), <<"sequence", n>> >>
  ELSE << <<"range", n>> >>

\* The statements, or declarations, up to a closing brace.
Body(look, one, n) ==
  IF look \in {"eof", "}"} THEN <<Consume("}"), <<"range", n>> >>
  ELSE << <<one>>, <<"body", one, n + 1>> >>

-----------------------------------------------------------------------------
(* Paths, types, storage attributes                                        *)

ParsePath(look) ==
  IF look = "::" THEN <<Consume("::"), <<"path_parts", 0>> >>
  ELSE << <<"path_parts", 0>> >>

\* Behind a last "::" the end of the file is accepted.
PathParts(look, n) ==
  IF look # "eof" THEN <<Consume("identifier"), <<"path_more", n + 1>> >>
  ELSE IF n = 0 THEN Fail("kExpectedButFound") ELSE Nothing

PathMore(look, n) ==
  IF look = "::" THEN <<Consume("::"), <<"path_parts", n>> >> ELSE Nothing

\* Behind the element type one token is skipped, whatever it is.
ParseTypeReference(look) ==
  CASE look = "i32" -> <<Consume("i32")>>
    [] look \in {"identifier", "::"} -> <<path>>
    [] look = "[" -> <<Consume("["), type, <<"skip">>, <<"array_size">> >>
    [] OTHER -> Fail("kExpectedButFound")

ArraySize(look) ==
  IF look = "]" THEN <<Consume("]")>>
  ELSE << <<"consume_only", ";">>, expression, <<"payload", 1>> >>

Conflict(seen) == {"mut", "const"} \subseteq seen \/ {"extern", "static"} \subseteq seen

\* A wrong version: the parser stays behind the attributes that conflict.
StorageAttributes_NoRewind(look, seen) ==
  CASE look \in Attributes ->
         << <<"consume_only", look>>, <<"storage_attributes", seen \cup {look}>> >>
    [] look \notin Attributes /\ Conflict(seen) ->
         Fail("kConflictingStorageSpecifiers")
    [] OTHER -> Nothing

StorageAttributes(look, seen) ==
  CASE look \in Attributes ->
         << <<"consume_only", look>>, <<"storage_attributes", seen \cup {look}>> >>
    [] look \notin Attributes /\ Conflict(seen) ->
         << <<"rewind", 1>> >> \o Fail("kConflictingStorageSpecifiers")
    [] OTHER -> Nothing

ParseCapture == <<path, Consume(":"), type>>
ParseField == <<path, Consume(":"), type>>
ParseParameter == <<path, Consume(":"), type>>

ParseAttributeUse == <<path, <<"attribute_arguments">> >>

AttributeArguments(look) ==
  IF look = "(" THEN <<Consume("("), <<"sequence", 0>>, Consume(")")>>
  ELSE Nothing

-----------------------------------------------------------------------------
(* Operators                                                               *)

ParseRange == << <<"binary", kLowest>>, <<"range_operator">> >>

RangeOperator(look) ==
  IF look = ".." THEN <<Consume(".."), <<"range_end">> >> ELSE Nothing

\* The "<" or "=" behind ".." is looked at and not consumed.
RangeEnd(look) ==
  IF look \in {"<", "="} THEN << <<"binary", kLowest>>, Node("..", 2)>>
  ELSE Fail("kUnexpectedToken")

ParseBinary(weakest) == << <<"unary">>, <<"climb", weakest>> >>

\* A wrong version: every operator associates from right to left.
Climb_RightToLeft(look, weakest) ==
  IF look \notin BinaryOperators \/ Precedence[look] > weakest THEN Nothing
  ELSE <<Consume(look), <<"binary", Precedence[look]>>, Node(look, 2),
         <<"climb", weakest>> >>

\* Goes on with operators that bind at least as tight as "weakest".
Climb(look, weakest) ==
  IF look \notin BinaryOperators \/ Precedence[look] > weakest THEN Nothing
  ELSE LET level == Precedence[look]
           right == IF level \in RightToLeft THEN level ELSE level - 1
       IN  <<Consume(look), <<"binary", right>>, Node(look, 2),
             <<"climb", weakest>> >>

\* Counts the prefix operators.  Behind the operand the stream goes back by
\* that number of tokens.
Prefix(look, n) ==
  IF look \in UnaryOperators THEN <<Consume(look), <<"prefix", n + 1>> >>
  ELSE IF n = 0 THEN << <<"primary">> >>
  ELSE << <<"primary">>, <<"rewind", n>>, <<"apply_prefix", n>>, <<"postfix_operators">> >>

\* The n operators are read at the places n .. 1 behind the current token; a
\* token that is none gives the unknown operator.
ApplyPrefix(ahead, n) ==
  [i \in 1 .. n |->
     Node(IF ahead[n + 1 - i] \in UnaryOperators THEN "prefix" ELSE "unknown", 1)]

\* Every unary operator passes is_postfix_operator().
PostfixOperators(look) ==
  IF look \in UnaryOperators
  THEN <<Consume(look), Node("postfix", 1), <<"postfix_operators">> >>
  ELSE Nothing

-----------------------------------------------------------------------------
(* Primary and postfix expressions                                         *)

ParsePrimary(look) ==
  CASE look = "literal" -> <<Consume("literal"), Node("literal", 0)>>
    [] look = "identifier" -> << <<"postfix">> >>
    [] look \in {"break", "continue", "ret"} ->
         << <<"consume_only", look>>, <<"value", look>> >>
    [] look \in {"(", "{", "if", "loop", "while", "for", "match", "["} ->
         << <<look>> >>
    [] OTHER -> Fail("kUnexpectedToken")

\* parse_break_expr, parse_continue_expr and parse_return_expr
JumpValue(look, keyword) ==
  IF look \in {"newline", ";"} THEN <<Node(keyword, 0)>>
  ELSE <<expression, Node(keyword, 1)>>

ParsePostfix == << <<"unary">>, <<"postfix_form">> >>

PostfixForm(look) ==
  CASE look = "[" -> <<Consume("["), expression, Consume("]"), Node("index", 2)>>
    [] look = "(" -> << <<"call", "call">> >>
    [] look = "#" -> <<Consume("#"), <<"macro_call">> >>
    [] look = "{" -> <<Consume("{"), <<"construct", 0>> >>
    [] look = "." -> <<Consume("."), path, <<"member">> >>
    [] OTHER -> Nothing

Member(look) ==
  CASE look = "(" -> << <<"call", "method call">> >>
    [] look = "#" -> <<Consume("#"), <<"macro_call">> >>
    [] OTHER -> <<Node("field access", 1)>>

ParseCall(kind) ==
  <<Consume("("), <<"sequence", 0>>, Consume(")"), Node(kind, 1), <<"await">> >>

ParseMacroCall ==
  <<Consume("("), <<"sequence", 0>>, Consume(")"), Node("macro call", 1)>>

ParseAwait(look) ==
  IF look = "->" THEN <<Consume("->"), Consume("await"), Node("await", 1)>>
  ELSE Nothing

ParseConstruct(look, n) ==
  IF look = "." THEN <<Consume("."), path, Consume("="), expression,
                       <<"construct_more", n + 1>> >>
  ELSE <<Consume("}"), <<"range", n>>, Node("construct", 1)>>

ConstructMore(look, n) ==
  IF look = "," THEN <<Consume(","), <<"construct", n>> >>
  ELSE <<Consume("}"), <<"range", n>>, Node("construct", 1)>>

-----------------------------------------------------------------------------
(* Expressions with a block                                                *)

ParseGrouped == <<Consume("("), expression, Consume(")"), Node("grouped", 1)>>

ParseBlock ==
  << <<"storage_attributes", {}>>, Consume("{"), <<"body", "statement", 0>> >>

ParseIf == <<Consume("if"), <<"branch">>, Node("if", 0)>>

IfBranch == <<expression, block, <<"payload", 1>>, <<"else">> >>

ElseBranch(look) ==
  IF look = "else" THEN <<Consume("else"), <<"else_branch">> >> ELSE Nothing

\* A wrong version: another else may follow the last one.
LastBranch_Loops(look) ==
  IF look = "if" THEN <<Consume("if"), <<"branch">> >> ELSE <<block, <<"else">> >>

LastBranch(look) ==
  IF look = "if" THEN <<Consume("if"), <<"branch">> >> ELSE <<block>>

ParseLoop == <<Consume("loop"), block, Node("loop", 0)>>

ParseWhile == <<Consume("while"), expression, block, Node("while", 1)>>

ParseFor == <<Consume("for"), path, Consume(":"), expression, block, Node("for", 1)>>

ParseMatch ==
  <<Consume("match"), expression, Consume("{"), <<"arms">>, Consume("}"),
    Node("match", 1)>>

MatchArms(look) ==
  IF look \in {"eof", "}"} THEN Nothing
  ELSE <<expression, Consume("->"), expression, <<"payload", 2>>, <<"arms">> >>

\* The parameters have no parentheses of their own.
ParseClosure ==
  <<Consume("["), <<"list", "capture", "]">>, Consume("]"), parameters,
    expression, Node("closure", 1)>>

-----------------------------------------------------------------------------
(* Statements                                                              *)

ParseStatement(look, ahead) ==
  CASE look \in Declarations \cup Attributes -> << <<"declaration">> >>
    [] look = "identifier" ->
         IF ahead[1] \in {":=", "=", ":"}
         THEN << <<"assign">>, Node("assign", 1)>>
         ELSE Fail("kUnexpectedToken")
    [] look = "#" ->
         <<Consume("#"), Consume("["), <<"list", "attribute_use", "]">>,
           Consume("]"), Node("attribute", 0)>>
    [] look = "use" -> <<Consume("use"), <<"use">>, Node("use", 0)>>
    [] OTHER -> <<expression>>

\* In the list of paths neither brace is consumed.
ParseUse(look) ==
  IF look = "{" THEN << <<"list", "path", "}">> >> ELSE <<path>>

ParseAssign == <<path, <<"assign_operator">>, expression>>

AssignOperator(look) ==
  CASE look \in {":=", "="} -> <<Consume(look)>>
    [] look = ":" -> <<Consume(":"), type, Consume("=")>>
    [] OTHER -> Nothing

ParseDeclaration == << <<"storage_attributes", {}>>, <<"declared">> >>

Declared(look) ==
  CASE look \in Declarations -> <<Consume(look), path, <<look>>, Node(look, 0)>>
    [] look = "identifier" -> << <<"assign">>, Node("assign", 1)>>
    [] OTHER -> Fail("kExpectedButFound")

ParseFunction ==
  <<Consume("("), parameters, Consume(")"), <<"return_type">>, <<"function_body">> >>

ReturnType(look) == IF look = "->" THEN <<Consume("->"), type>> ELSE Nothing

\* Every caller needs a body.
FunctionBody(look) == IF look = "{" THEN <<block>> ELSE <<Consume("{")>>

\* A wrong version: the brace is left to the list of fields.
ParseFields_ListCloses == <<Consume("{"), fields>>

\* parse_struct_decl_stmt and parse_union_decl_stmt
ParseFields == <<Consume("{"), fields, Consume("}")>>

ParseEnumeration == <<Consume("{"), <<"list", "variant", "}">>, Consume("}")>>

ParseEnumVariant == <<path, <<"variant_kind">> >>

\* The brace that closes the fields of a variant is not consumed.
VariantKind(look) ==
  CASE look \in {",", "}"} -> Nothing
    [] look = "=" -> <<Consume("="), expression, <<"payload", 1>> >>
    [] look = "{" -> <<Consume("{"), fields>>
    [] look = "(" -> <<Consume("("), <<"list", "type", ")">>, Consume(")")>>
    [] OTHER -> Fail("kUnexpectedToken")

ParseTrait == <<Consume("{"), <<"body", "declaration", 0>> >>

ParseImplementation == << <<"trait_name">>, Consume("{"), <<"body", "declaration", 0>> >>

TraitName(look) == IF look = "for" THEN <<Consume("for"), path>> ELSE Nothing

ParseModule == <<Consume("{"), <<"body", "statement", 0>> >>

ParseRedirect == <<Consume("->"), path>>

-----------------------------------------------------------------------------
Elementary ==
  {"consume", "consume_only", "skip", "rewind", "fail", "node", "payload", "range"}

\* The body of a procedure; ahead[i] is the kind of the i-th token behind the
\* current one.
Steps(goal, look, ahead) ==
  CASE goal[1] = "list" -> List(look, goal[2], goal[3])
    [] goal[1] = "list_more" -> ListMore(look, goal[2], goal[3])
    [] goal[1] = "sequence" -> ParseExpressionSequence(look, goal[2])
    [] goal[1] = "sequence_more" -> SequenceMore(look, goal[2])
    [] goal[1] = "body" -> Body(look, goal[2], goal[3])
    [] goal[1] = "path" -> ParsePath(look)
    [] goal[1] = "path_parts" -> PathParts(look, goal[2])
    [] goal[1] = "path_more" -> PathMore(look, goal[2])
    [] goal[1] = "type" -> ParseTypeReference(look)
    [] goal[1] = "array_size" -> ArraySize(look)
    [] goal[1] = "storage_attributes" -> StorageAttributes(look, goal[2])
    [] goal[1] = "capture" -> ParseCapture
    [] goal[1] = "field" -> ParseField
    [] goal[1] = "parameter" -> ParseParameter
    [] goal[1] = "attribute_use" -> ParseAttributeUse
    [] goal[1] = "attribute_arguments" -> AttributeArguments(look)
    [] goal[1] = "expression" -> ParseRange
    [] goal[1] = "range_operator" -> RangeOperator(look)
    [] goal[1] = "range_end" -> RangeEnd(look)
    [] goal[1] = "binary" -> ParseBinary(goal[2])
    [] goal[1] = "climb" -> Climb(look, goal[2])
    [] goal[1] = "unary" -> << <<"prefix", 0>> >>
    [] goal[1] = "prefix" -> Prefix(look, goal[2])
    [] goal[1] = "apply_prefix" -> ApplyPrefix(ahead, goal[2])
    [] goal[1] = "postfix_operators" -> PostfixOperators(look)
    [] goal[1] = "primary" -> ParsePrimary(look)
    [] goal[1] = "value" -> JumpValue(look, goal[2])
    [] goal[1] = "postfix" -> ParsePostfix
    [] goal[1] = "postfix_form" -> PostfixForm(look)
    [] goal[1] = "member" -> Member(look)
    [] goal[1] = "call" -> ParseCall(goal[2])
    [] goal[1] = "macro_call" -> ParseMacroCall
    [] goal[1] = "await" -> ParseAwait(look)
    [] goal[1] = "construct" -> ParseConstruct(look, goal[2])
    [] goal[1] = "construct_more" -> ConstructMore(look, goal[2])
    [] goal[1] = "(" -> ParseGrouped
    [] goal[1] = "{" -> <<block, Node("block", 0)>>
    [] goal[1] = "block" -> ParseBlock
    [] goal[1] = "if" -> ParseIf
    [] goal[1] = "branch" -> IfBranch
    [] goal[1] = "else" -> ElseBranch(look)
    [] goal[1] = "else_branch" -> LastBranch(look)
    [] goal[1] = "loop" -> ParseLoop
    [] goal[1] = "while" -> ParseWhile
    [] goal[1] = "for" -> ParseFor
    [] goal[1] = "match" -> ParseMatch
    [] goal[1] = "arms" -> MatchArms(look)
    [] goal[1] = "[" -> ParseClosure
    [] goal[1] = "statement" -> ParseStatement(look, ahead)
    [] goal[1] = "use" -> ParseUse(look)
    [] goal[1] = "assign" -> ParseAssign
    [] goal[1] = "assign_operator" -> AssignOperator(look)
    [] goal[1] = "declaration" -> ParseDeclaration
    [] goal[1] = "declared" -> Declared(look)
    [] goal[1] = "fn" -> ParseFunction
    [] goal[1] = "return_type" -> ReturnType(look)
    [] goal[1] = "function_body" -> FunctionBody(look)
    [] goal[1] \in {"struct", "union"} -> ParseFields
    [] goal[1] = "enum" -> ParseEnumeration
    [] goal[1] = "variant" -> ParseEnumVariant
    [] goal[1] = "variant_kind" -> VariantKind(look)
    [] goal[1] = "trait" -> ParseTrait
    [] goal[1] = "impl" -> ParseImplementation
    [] goal[1] = "trait_name" -> TraitName(look)
    [] goal[1] = "mod" -> ParseModule
    [] goal[1] = "redirect" -> ParseRedirect
=============================================================================
