------------------------------- MODULE Parser -------------------------------
(***************************************************************************)
(* parser::Parser over a base::TokenStream: parse_all() parses statements  *)
(* until the end-of-file token; an error ends the statement, and either    *)
(* the parse (strict) or what synchronize() skips.                         *)
(*                                                                         *)
(* The call stack of the recursive descent is the sequence of goals, the   *)
(* next one first; module Descent has the procedures.  An error returns    *)
(* through every procedure to parse_all(), so it drops all goals.  made    *)
(* holds the NodeIds that procedures have returned and no caller has used; *)
(* nodes is the arena of ast::Node, ids counted from 1.  Payloads have no  *)
(* arenas here: a node has the nodes that its payload refers to.           *)
(***************************************************************************)
EXTENDS Descent, Integers, SequencesExt

CONSTANTS
  Sources,   \* the sequences of token kinds parsed, each with its "eof"
  Strict,    \* the arguments of parse_all() tried
  MaxGoals   \* bound on the goals, which stands for the size of the call stack

ASSUME ParserAssumption ==
  /\ \A s \in Sources :
       /\ s \in Seq(TokenKind)
       /\ Len(s) > 0
       /\ \A i \in DOMAIN s : s[i] = "eof" <=> i = Len(s)
  /\ Strict \subseteq BOOLEAN
  /\ MaxGoals \in Nat

VARIABLES
  tokens,    \* stream_->tokens_
  strict,    \* the argument of parse_all()
  position,  \* stream_->pos_
  status,    \* status_
  pc,        \* "next", "statement", "synchronize"; "done", "overflow" (of the
             \* call stack), "aborted" (by the DCHECK of TokenStream::next())
  goals,
  made,
  nodes,     \* context_'s arena of nodes
  ranges,    \* the NodeRanges stored in payloads, as the nodes meant
  errors     \* errors_, each with the position of the stream

vars == <<tokens, strict, position, status, pc, goals, made, nodes, ranges, errors>>
tree == <<made, nodes, ranges>>

-----------------------------------------------------------------------------
(* TokenStream                                                             *)

\* peek_at(i): the last token stands for those behind it.
PeekAt(i) ==
  IF position + i < Len(tokens) THEN tokens[position + i + 1] ELSE Last(tokens)

Peek == PeekAt(0)

Ahead == [i \in 1 .. Len(tokens) |-> PeekAt(i)]

\* The position after next_non_whitespace().
NextNonWhitespace ==
  CHOOSE q \in position + 1 .. Len(tokens) - 1 :
    /\ tokens[q + 1] \notin {"newline", "whitespace"}
    /\ \A k \in position + 1 .. q - 1 : tokens[k + 1] \in {"newline", "whitespace"}

-----------------------------------------------------------------------------
(* parse_all() and parse_next()                                            *)

Init ==
  /\ tokens \in Sources
  /\ strict \in Strict
  /\ position = 0
  /\ status = "kReadyToParse"
  /\ pc = "next"
  /\ goals = << >>
  /\ made = << >> /\ nodes = << >> /\ ranges = << >>
  /\ errors = << >>

ParseAllReturns ==
  /\ pc = "next"
  /\ Peek = "eof"
  /\ status' = IF errors = << >> THEN "kParseCompleted" ELSE "kErrorOccured"
  /\ pc' = "done"
  /\ UNCHANGED <<tokens, strict, position, goals, tree, errors>>

\* A wrong version: the token is recognised and not consumed.
SkipToken_Peeks ==
  /\ pc = "next"
  /\ Peek \in {"comment", ";"}
  /\ UNCHANGED vars

SkipToken ==
  /\ pc = "next"
  /\ Peek \in {"comment", ";"}
  /\ position' = position + 1
  /\ UNCHANGED <<tokens, strict, status, pc, goals, tree, errors>>

ParseNext ==
  /\ pc = "next"
  /\ Peek \notin {"eof", "comment", ";"}
  /\ goals' = <<statement>>
  /\ pc' = "statement"
  /\ UNCHANGED <<tokens, strict, position, status, tree, errors>>

\* parse_next() does not use the node that parse_statement() returns.
StatementParsed ==
  /\ pc = "statement"
  /\ goals = << >>
  /\ made' = << >>
  /\ pc' = "next"
  /\ UNCHANGED <<tokens, strict, position, status, goals, nodes, ranges, errors>>

-----------------------------------------------------------------------------
(* Goals                                                                   *)

Goal(name) == pc = "statement" /\ goals # << >> /\ goals[1][1] = name

argument == goals[1][2]

\* consume(argument, ...), which finds the token expected.
Consuming ==
  /\ \/ Goal("consume") /\ Peek = argument /\ position' = NextNonWhitespace
     \/ Goal("consume_only") /\ Peek = argument /\ position' = position + 1
  /\ goals' = Tail(goals)
  /\ UNCHANGED <<tokens, strict, status, pc, tree, errors>>

\* next_non_whitespace() on any token.
Skip ==
  /\ Goal("skip")
  /\ Peek # "eof"
  /\ position' = NextNonWhitespace
  /\ goals' = Tail(goals)
  /\ UNCHANGED <<tokens, strict, status, pc, tree, errors>>

\* The DCHECK of TokenStream::next(); without it, a read behind the tokens.
SkipEof ==
  /\ Goal("skip")
  /\ Peek = "eof"
  /\ pc' = "aborted"
  /\ UNCHANGED <<tokens, strict, position, status, goals, tree, errors>>

Rewind ==
  /\ Goal("rewind")
  /\ position' = position - argument
  /\ goals' = Tail(goals)
  /\ UNCHANGED <<tokens, strict, status, pc, tree, errors>>

\* The last n of the nodes made, and the others.
LastMade(n) == SubSeq(made, Len(made) - n + 1, Len(made))
Rest(n) == SubSeq(made, 1, Len(made) - n)

\* A wrong version: the id is the size of the arena after the node is in it.
AllocNode_IdAfterAppend ==
  /\ Goal("node")
  /\ nodes' = Append(nodes, [kind |-> argument, children |-> LastMade(goals[1][3])])
  /\ made' = Append(Rest(goals[1][3]), Len(nodes) + 2)
  /\ goals' = Tail(goals)
  /\ UNCHANGED <<tokens, strict, position, status, pc, ranges, errors>>

\* A wrong version: the children stay with those no parent has.
AllocNode_KeepsChildren ==
  /\ Goal("node")
  /\ nodes' = Append(nodes, [kind |-> argument, children |-> LastMade(goals[1][3])])
  /\ made' = Append(made, Len(nodes) + 1)
  /\ goals' = Tail(goals)
  /\ UNCHANGED <<tokens, strict, position, status, pc, ranges, errors>>

AllocNode ==
  /\ Goal("node")
  /\ nodes' = Append(nodes, [kind |-> argument, children |-> LastMade(goals[1][3])])
  /\ made' = Append(Rest(goals[1][3]), Len(nodes) + 1)
  /\ goals' = Tail(goals)
  /\ UNCHANGED <<tokens, strict, position, status, pc, ranges, errors>>

AllocPayload ==
  /\ Goal("payload")
  /\ made' = Rest(argument)
  /\ goals' = Tail(goals)
  /\ UNCHANGED <<tokens, strict, position, status, pc, nodes, ranges, errors>>

StoreRange ==
  /\ Goal("range")
  /\ ranges' = Append(ranges, LastMade(argument))
  /\ made' = Rest(argument)
  /\ goals' = Tail(goals)
  /\ UNCHANGED <<tokens, strict, position, status, pc, nodes, errors>>

\* parse_all() gets the error.
Report(id) ==
  /\ errors' = Append(errors, [id |-> id, at |-> position])
  /\ goals' = << >>
  /\ made' = << >>
  /\ pc' = IF strict THEN "done" ELSE "synchronize"
  /\ status' = IF strict THEN "kErrorOccured" ELSE status
  /\ UNCHANGED <<tokens, strict, position, nodes, ranges>>

Failing == Goal("fail") /\ Report(argument)

ConsumeFails ==
  /\ Goal("consume") \/ Goal("consume_only")
  /\ Peek # argument
  /\ Report("kExpectedButFound")

\* A procedure is called: its body up to the next decision takes its place.
Call ==
  /\ pc = "statement" /\ goals # << >> /\ goals[1][1] \notin Elementary
  /\ goals' = Steps(goals[1], Peek, Ahead) \o Tail(goals)
  /\ pc' = IF Len(goals') > MaxGoals THEN "overflow" ELSE pc
  /\ UNCHANGED <<tokens, strict, position, status, tree, errors>>

-----------------------------------------------------------------------------
(* synchronize()                                                           *)

IsSyncPoint(kind) == kind \in ControlFlow \cup Declarations \cup Attributes

\* Where synchronize() stops, and the delimiters it stops behind.
Stops(q) ==
  \/ IsSyncPoint(tokens[q + 1])
  \/ tokens[q + 1] \in {"eof", ";", "}", "newline"}

\* A wrong version: the token that caused the error is not consumed first.
Synchronize_KeepsToken ==
  /\ pc = "synchronize"
  /\ LET q == CHOOSE q \in position .. Len(tokens) - 1 :
                Stops(q) /\ \A k \in position .. q - 1 : ~ Stops(k)
     IN  position' = IF tokens[q + 1] \in {";", "}", "newline"} THEN q + 1 ELSE q
  /\ pc' = "next"
  /\ UNCHANGED <<tokens, strict, status, goals, tree, errors>>

Synchronize ==
  /\ pc = "synchronize"
  /\ IF Peek = "eof" THEN UNCHANGED position
     ELSE LET q == CHOOSE q \in position + 1 .. Len(tokens) - 1 :
                     Stops(q) /\ \A k \in position + 1 .. q - 1 : ~ Stops(k)
          IN  position' = IF tokens[q + 1] \in {";", "}", "newline"} THEN q + 1
                          ELSE q
  /\ pc' = "next"
  /\ UNCHANGED <<tokens, strict, status, goals, tree, errors>>

-----------------------------------------------------------------------------
Next ==
  \/ ParseAllReturns \/ SkipToken \/ ParseNext \/ StatementParsed
  \/ Consuming \/ Skip \/ SkipEof \/ Rewind
  \/ AllocNode \/ AllocPayload \/ StoreRange
  \/ Failing \/ ConsumeFails \/ Call \/ Synchronize

Spec == Init /\ [][Next]_vars

\* One thread runs parse_all(): it takes its next step as long as it has one.
FairSpec == Spec /\ WF_vars(Next)

-----------------------------------------------------------------------------
(* Properties                                                              *)

TypeOK ==
  /\ position \in 0 .. Len(tokens) - 1
  /\ status \in {"kReadyToParse", "kParseCompleted", "kErrorOccured"}
  /\ pc \in {"next", "statement", "synchronize", "done", "overflow", "aborted"}
  /\ \A i \in DOMAIN made : made[i] \in DOMAIN nodes
  /\ \A i \in DOMAIN errors : errors[i].at \in 0 .. Len(tokens) - 1

\* parse_all() comes to an end, be it by the DCHECK of TokenStream::next():
\* every error is left behind, and no procedure calls itself for ever.
ParseReturns == <>(pc \in {"done", "aborted"})

\* Errors are reported in the order of the source, and no token is the cause
\* of two: synchronize() gets past the token that caused the error, and no
\* rewind() undoes that.
ErrorsAdvance ==
  \A i \in 1 .. Len(errors) - 1 : errors[i].at < errors[i + 1].at

\* The nodes are a forest in the order the procedures return: the children of
\* a node come before it, and no node is the child of two, be it by a
\* payload's NodeId or by a NodeRange.
NodesAreForest ==
  LET parents == [i \in DOMAIN nodes |-> nodes[i].children] \o ranges
  IN  /\ \A i \in DOMAIN nodes : \A j \in DOMAIN nodes[i].children :
           nodes[i].children[j] < i
      /\ \A p, q \in DOMAIN parents :
           p # q => ToSet(parents[p]) \cap ToSet(parents[q]) = {}
      /\ \A p \in DOMAIN parents : \A j \in 1 .. Len(parents[p]) - 1 :
           parents[p][j] < parents[p][j + 1]

\* The tree of a binary expression is the one that the table of operators
\* demands (base/operator/README.md): its operands bind tighter, or as tight
\* on the side the operator associates to.
PrecedenceRespected ==
  \A i \in DOMAIN nodes :
    LET n == nodes[i]
        Level(id) == IF nodes[id].kind \in BinaryOperators
                     THEN Precedence[nodes[id].kind] ELSE 0
    IN  n.kind \in BinaryOperators =>
          LET level == Precedence[n.kind]
          IN  IF level \in RightToLeft
              THEN Level(n.children[1]) < level /\ Level(n.children[2]) <= level
              ELSE Level(n.children[1]) <= level /\ Level(n.children[2]) < level

Accepted == pc = "done" /\ errors = << >>

Brackets == {<<"(", ")">>, <<"{", "}">>, <<"[", "]">>}

\* How many of the first n tokens are of the kind.
Count(kind, n) == Cardinality({i \in 1 .. n : tokens[i] = kind})

\* The n-th token stands right behind one of the kinds, white space aside.
IsBehind(kinds, n) ==
  \E m \in 1 .. n - 1 :
    /\ tokens[m] \in kinds
    /\ \A k \in m + 1 .. n - 1 : tokens[k] \in {"newline", "whitespace"}

\* The tokens in front of the n-th, back to one of the kinds, are a path's.
IsPathBehind(kinds, n) ==
  \E m \in 1 .. n - 1 :
    /\ tokens[m] \in kinds
    /\ \A k \in m + 1 .. n - 1 :
         tokens[k] \in {"identifier", "::", "newline", "whitespace"}

\* A "[" where a type may begin.
HasArrayType ==
  \E n \in DOMAIN tokens :
    tokens[n] = "[" /\ IsBehind({":", "->", "(", ","}, n)

\* A "{" behind the name of what may be a variant of an enumeration.
HasVariantFields ==
  \E n \in DOMAIN tokens :
    /\ tokens[n] = "{"
    /\ IsBehind({"identifier"}, n)
    /\ IsPathBehind({"{", ","}, n)

HasPrefixOperator == \E i \in DOMAIN nodes : nodes[i].kind \in {"prefix", "unknown"}

\* An accepted source closes every bracket it opens, and opens it first, but
\* for what the code reads otherwise than it is written: behind a prefix
\* operator the stream goes back into the operand (parse_unary_expr()), behind
\* the element type of an array it skips a token unseen
\* (parse_type_reference()), and the fields of a variant leave their brace to
\* the enumeration (parse_enum_variant()).
AcceptedIsBalanced ==
  Accepted /\ ~ HasPrefixOperator /\ ~ HasArrayType /\ ~ HasVariantFields =>
    \A pair \in Brackets :
      /\ Count(pair[1], Len(tokens)) = Count(pair[2], Len(tokens))
      /\ \A n \in DOMAIN tokens : Count(pair[2], n) <= Count(pair[1], n)

\* The token that rewind() goes back to is a prefix operator (comment in
\* parse_unary_expr(): "rewind to first unary operator position").
RewindsToOperator ==
  Goal("apply_prefix") => Peek \in UnaryOperators
=============================================================================
