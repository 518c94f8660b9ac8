------------------------------- MODULE Parser -------------------------------
(***************************************************************************)
(* Parser::ParseProgram over one token stream (compiler/parser): the       *)
(* recursive descent of the declaration, statement, expression and type    *)
(* parsers.  calls is the call stack; a step runs the function on its top  *)
(* from one call to the next, and returned is what the last call answered. *)
(* Only the building of one-token nodes is fused with its caller, and a    *)
(* function that ends by returning what another returns is replaced by it. *)
(***************************************************************************)
EXTENDS SyntaxTree

VARIABLES
  calls,          (* the stack of the functions that run, the innermost first *)
  returned        (* the node the last call returned, 0 for null            *)

vars == <<text, configuration, context, nodes, calls, returned>>

Named == {"Function", "Struct", "Class", "Trait", "Enum", "Module"}
Routines ==
  UNION {Named, {"Program", "Declaration", "Import", "Package", "Identifier", "Type"},
         {"Statement", "Variable", "Return", "If", "While", "For", "Block", "MatchStatement",
          "ExpressionStatement"}, {"Assignment", "Binary", "Unary", "Primary"}}

(* A frame: the function, the point it is at, where the text it parses     *)
(* begins, the token its span starts with, min_precedence, and the nodes   *)
(* its locals hold.                                                        *)
Frame(routine, c) ==
  [routine |-> routine, point |-> "start", from |-> c.position, start |-> c.position,
   least |-> 0, parts |-> <<>>]

frame == Head(calls)
Running == calls # <<>>
At(routine, point) == Running /\ frame.routine = routine /\ frame.point = point
StartSpan == TokenSpan(frame.start)

(* The list or the members of the frame, with what was returned. *)
Held == Append(frame.parts, returned)
Kept == IF returned = 0 THEN frame.parts ELSE Held

(* The node a step makes from the text between the start of the frame and  *)
(* the cursor.                                                             *)
Fresh == Len(nodes) + 1
NodeFrom(from, c, kind, span, parts) ==
  [kind |-> kind, span |-> span, from |-> from, to |-> c.position, parts |-> parts]
NewNode(c, kind, span, parts) == NodeFrom(frame.from, c, kind, span, parts)

(* The ways a segment ends: it goes on in the same function, with or       *)
(* without a node made; calls another; becomes another; or returns.        *)
Resume(point, parts) == [frame EXCEPT !.point = point, !.parts = parts]
Unchanging == UNCHANGED <<text, configuration>>

Continue(point, c, parts) ==
  /\ context' = c
  /\ calls' = <<Resume(point, parts)>> \o Tail(calls)
  /\ returned' = 0
  /\ UNCHANGED nodes /\ Unchanging

ContinueWith(point, c, node, parts) ==
  /\ context' = c
  /\ calls' = <<Resume(point, parts)>> \o Tail(calls)
  /\ returned' = 0
  /\ nodes' = Append(nodes, node)
  /\ Unchanging

InvokeFrame(callee, point, c, parts) ==
  /\ context' = c
  /\ calls' = <<callee, Resume(point, parts)>> \o Tail(calls)
  /\ returned' = 0
  /\ UNCHANGED nodes /\ Unchanging
Invoke(routine, point, c, parts) == InvokeFrame(Frame(routine, c), point, c, parts)

Become(routine, c) ==
  /\ context' = c
  /\ calls' = <<[frame EXCEPT !.routine = routine, !.point = "start", !.start = c.position]>>
                \o Tail(calls)
  /\ returned' = 0
  /\ UNCHANGED nodes /\ Unchanging

Return(c, node) ==
  /\ context' = c
  /\ calls' = Tail(calls)
  /\ returned' = node
  /\ UNCHANGED nodes /\ Unchanging

ReturnNode(c, kind, span, parts) ==
  /\ context' = c
  /\ calls' = Tail(calls)
  /\ returned' = Fresh
  /\ nodes' = Append(nodes, NewNode(c, kind, span, parts))
  /\ Unchanging

(* The ending many functions share: expect a token, extend the span to it  *)
(* or report and recover, and return the node.                             *)
ReturnClosed(type, kind, span, parts) ==
  ReturnNode(ExpectedOrRecovered(context, type), kind,
             IF Peek(context) = type
               THEN ExtendSpan(span, TokenSpan(context.position)) ELSE span,
             parts)

-----------------------------------------------------------------------------
(* Programs and declarations. *)

Init ==
  /\ text \in Texts
  /\ configuration \in Configurations
  /\ context = FreshContext
  /\ nodes = <<>>
  /\ calls = <<[Frame("Program", FreshContext) EXCEPT !.point = "declarations"]>>
  /\ returned = 0

(* ParseProgram's span, over the declarations. *)
SpanOfAll(parts) ==
  IF parts = <<>> THEN NoSpan
  ELSE [start |-> CHOOSE p \in {nodes[i].span.start : i \in Indices(parts)} :
                    \A i \in Indices(parts) : p <= nodes[i].span.start,
        end |-> CHOOSE p \in {nodes[i].span.end : i \in Indices(parts)} :
                  \A i \in Indices(parts) : p >= nodes[i].span.end]

ParseDeclarations ==
  /\ At("Program", "declarations")
  /\ \/ /\ IsDone(context)
        /\ ReturnNode(context, "Program", SpanOfAll(frame.parts), frame.parts)
     \/ /\ ~IsDone(context) /\ ~IsDeclarationStart(context)
        /\ Continue("declarations", Recovered(Reported(context)), frame.parts)
     \/ /\ ~IsDone(context) /\ IsDeclarationStart(context)
        /\ Invoke("Declaration", "parsed", context, frame.parts)

DeclarationParsed ==
  /\ At("Program", "parsed")
  /\ Continue("declarations", IF returned = 0 THEN Recovered(context) ELSE context, Kept)

(* ParseAttributes, one annotation at a time. *)
ParseAttribute ==
  /\ At("Declaration", "start") \/ At("Declaration", "attributes")
  /\ Peek(context) = "@"
  /\ ContinueWith("attributes", Consumed(context),
                  NodeFrom(context.position, Consumed(context), "Attribute",
                           TokenSpan(context.position), <<>>),
                  Append(frame.parts, Fresh))

(* ParseDeclaration.  Only a function takes the attributes along, which    *)
(* are still in the frame it becomes; the others destroy them.             *)
RoutineOf ==
  [t \in DeclarationKeywords |->
     CASE t = "fn" -> "Function" [] t = "struct" -> "Struct" [] t = "class" -> "Class"
       [] t = "trait" -> "Trait" [] t = "enum" -> "Enum" [] t = "mod" -> "Module"]

ParseDeclaration ==
  /\ At("Declaration", "start") \/ At("Declaration", "attributes")
  /\ Peek(context) # "@"
  /\ LET modified == Matched(Matched(context, "pub"), "async")
     IN  CASE frame.point = "start" /\ Peek(context) = "import" -> Become("Import", context)
           [] frame.point = "start" /\ Peek(context) = "package" -> Become("Package", context)
           [] OTHER ->
                IF Peek(modified) \in DeclarationKeywords
                  THEN Become(RoutineOf[Peek(modified)], modified)
                  ELSE Return(Reported(modified), 0)

(* ParseIdentifier of the declaration and of the statement parser. *)
ParseIdentifier ==
  /\ At("Identifier", "start")
  /\ IF Peek(context) = "name"
       THEN ReturnNode(Consumed(context), "Identifier", StartSpan, <<>>)
       ELSE Return(Reported(context), 0)

(* The keyword and the name that six declarations begin with. *)
ParseKeyword(routine) ==
  /\ At(routine, "start")
  /\ Invoke("Identifier", "name", Consumed(context),
            IF routine = "Function" THEN frame.parts ELSE <<>>)

NameMissing(routine) ==
  At(routine, "name") /\ returned = 0 /\ Return(context, 0)

NameFound(routine) == At(routine, "name") /\ returned # 0

(* ParseFunctionDeclaration and ParseParameters. *)
FunctionNamed ==
  /\ NameFound("Function")
  /\ LET c == ExpectedOrRecovered(context, "(")
     IN  IF Peek(c) = ")" THEN Continue("close", c, Held)
                          ELSE Invoke("Identifier", "parameter", c, Held)

ParameterNamed ==
  /\ At("Function", "parameter")
  /\ CASE returned = 0 -> Continue("close", context, frame.parts)
       [] returned # 0 /\ Peek(context) # ":" ->
            Continue("close", Recovered(Reported(context)), frame.parts)
       [] OTHER -> Invoke("Type", "parameter type", Consumed(context), Held)

(* The end of a parameter and of a field: name, which is the last part of  *)
(* the frame, and the type that was returned.                              *)
TypedName(kind, more, done) ==
  LET name == Last(frame.parts)
      node == NodeFrom(nodes[name].from, context, kind, Extended(nodes[name].span, returned),
                       <<name, returned>>)
      parts == [frame.parts EXCEPT ![Len(frame.parts)] = Fresh]
  IN  IF Peek(context) = "," THEN ContinueWith(more, Consumed(context), node, parts)
                             ELSE ContinueWith(done, context, node, parts)

ParameterTyped ==
  At("Function", "parameter type") /\ TypedName("Parameter", "next parameter", "close")

NextParameter ==
  At("Function", "next parameter") /\ Invoke("Identifier", "parameter", context, frame.parts)

FunctionClosed ==
  /\ At("Function", "close")
  /\ LET c == ExpectedOrRecovered(context, ")")
     IN  IF Peek(c) = ":" THEN Invoke("Type", "return type", Consumed(c), frame.parts)
                          ELSE Continue("return type", c, frame.parts)

FunctionTyped ==
  At("Function", "return type") /\ Invoke("Block", "body", context, Held)

EndFunction ==
  At("Function", "body")
    /\ ReturnNode(context, "Function", Extended(StartSpan, returned), Held)

(* A "{" that is taken when it is there and not asked for otherwise. *)
StructNamedUnbraced ==
  NameFound("Struct") /\ Continue("fields", Matched(context, "{"), Held)

(* ParseStructDeclaration and ParseFields. *)
StructNamed ==
  NameFound("Struct") /\ Continue("fields", ExpectedOrRecovered(context, "{"), Held)

NextField ==
  /\ At("Struct", "fields")
  /\ IF EndOfBody(context) THEN Continue("close", context, frame.parts)
                           ELSE Invoke("Identifier", "field", context, frame.parts)

FieldNamed ==
  /\ At("Struct", "field")
  /\ CASE returned = 0 -> Continue("fields", SynchronizedDeclaration(context), frame.parts)
       [] returned # 0 /\ Peek(context) # ":" ->
            Continue("fields", Recovered(Reported(context)), frame.parts)
       [] OTHER -> Invoke("Type", "field type", Consumed(context), Held)

FieldTyped == At("Struct", "field type") /\ TypedName("Field", "fields", "close")

EndStruct ==
  /\ At("Struct", "close")
  /\ LET closed == Peek(context) = "}"
     IN  ReturnNode(Matched(ExpectedOrRecovered(context, "}"), ";"), "Struct",
                    IF closed THEN ExtendSpan(StartSpan, TokenSpan(context.position))
                              ELSE StartSpan,
                    frame.parts)

(* ParseClassDeclaration and ParseTraitDeclaration, the same code twice.   *)
(* What is no declaration is skipped without a word.                       *)
BodyNamed(kind) ==
  /\ NameFound(kind)
  /\ IF Peek(context) = "{" THEN Continue("members", Consumed(context), Held)
                            ELSE ReturnNode(context, kind, StartSpan, Held)

NextMember(kind) ==
  /\ At(kind, "members")
  /\ CASE EndOfBody(context) ->
            ReturnNode(Expected(context, "}"), kind, StartSpan, frame.parts)
       [] ~EndOfBody(context) /\ IsDeclarationStart(context) ->
            Invoke("Declaration", "member", context, frame.parts)
       [] OTHER -> Continue("members", SynchronizedDeclaration(context), frame.parts)

MemberParsed(kind) == At(kind, "member") /\ Continue("members", context, Kept)

(* ParseEnumDeclaration. *)
EnumNamed ==
  /\ NameFound("Enum")
  /\ IF Peek(context) = "{"
       THEN Continue("variants", Consumed(context), Held)
       ELSE ReturnNode(Matched(context, ";"), "Enum", StartSpan, Held)

EndEnum(parts) ==
  ReturnNode(Matched(Expected(context, "}"), ";"), "Enum", StartSpan, parts)

NextVariant ==
  /\ At("Enum", "variants")
  /\ IF EndOfBody(context) THEN EndEnum(frame.parts)
                           ELSE Invoke("Identifier", "variant", context, frame.parts)

VariantParsed ==
  /\ At("Enum", "variant")
  /\ IF Peek(context) = "," THEN Continue("variants", Consumed(context), Kept)
                            ELSE EndEnum(Kept)

(* ParseModuleDeclaration: the body is a block of statements. *)
ModuleNamed ==
  /\ NameFound("Module")
  /\ IF Peek(context) = "{" THEN Invoke("Block", "body", context, Held)
                            ELSE Continue("body", context, Held)

EndModule ==
  At("Module", "body") /\ ReturnNode(context, "Module", Extended(StartSpan, returned), Held)

(* ParsePackageDeclaration: a package without a name is a node as well. *)
ParsePackage ==
  At("Package", "start") /\ Invoke("Identifier", "name", Consumed(context), <<>>)
EndPackage == At("Package", "name") /\ ReturnClosed(";", "Package", StartSpan, Held)

(* ParseImport and ParsePath, one segment at a time. *)
ParseImport == At("Import", "start") /\ Continue("path", Consumed(context), <<>>)

ParseSegment ==
  /\ At("Import", "path")
  /\ IF Peek(context) # "name"
       THEN Continue("close", Reported(context), frame.parts)
       ELSE LET c == Consumed(context)
                more == Peek(c) = "::"
            IN  ContinueWith(IF more THEN "path" ELSE "close", Matched(c, "::"),
                             NodeFrom(context.position, c, "Identifier",
                                      TokenSpan(context.position), <<>>),
                             Append(frame.parts, Fresh))

EndImport ==
  /\ At("Import", "close")
  /\ ReturnClosed(";", "Import",
                  Extended(StartSpan, IF frame.parts = <<>> THEN 0 ELSE Last(frame.parts)),
                  frame.parts)

(* ParseType. *)
ParseType ==
  /\ At("Type", "start")
  /\ CASE Peek(context) = "type" ->
            ReturnNode(Consumed(context), "PrimitiveType", StartSpan, <<>>)
       [] Peek(context) = "name" ->
            ReturnNode(Consumed(context), "NamedType", StartSpan, <<>>)
       [] OTHER -> Return(Reported(context), 0)

-----------------------------------------------------------------------------
(* Statements. *)

(* ParseStatement. *)
ParseStatement ==
  /\ At("Statement", "start")
  /\ Become(CASE Peek(context) = "let" -> "Variable"
              [] Peek(context) = "return" -> "Return"
              [] Peek(context) = "if" -> "If"
              [] Peek(context) = "while" -> "While"
              [] Peek(context) = "for" -> "For"
              [] Peek(context) = "{" -> "Block"
              [] Peek(context) = "match" -> "MatchStatement"
              [] OTHER -> "ExpressionStatement",
            context)

(* ParseBlock.  A statement that took no token and reports the same error  *)
(* for ever is kept once, in nodes and here: see EndExpressionStatement.   *)
ParseBlock ==
  /\ At("Block", "start")
  /\ IF Peek(context) = "{" THEN Continue("statements", Consumed(context), <<>>)
                            ELSE Return(Recovered(Reported(context)), 0)

NextStatement ==
  /\ At("Block", "statements")
  /\ IF EndOfBody(context)
       THEN ReturnClosed("}", "Block", StartSpan, frame.parts)
       ELSE Invoke("Statement", "statement", context, frame.parts)

StatementParsed ==
  /\ At("Block", "statement")
  /\ IF returned = 0
       THEN Continue("statements", SynchronizedStatement(context), frame.parts)
       ELSE Continue("statements", context,
                     IF returned \in Indices(frame.parts) THEN frame.parts ELSE Held)

(* An if that keeps its first branch only when there is a second. *)
ThenParsedForElse ==
  /\ At("If", "body")
  /\ IF Peek(context) = "else" THEN Invoke("Statement", "else", Consumed(context), Held)
                               ELSE Continue("else", context, Append(frame.parts, 0))

(* A while that spans its condition only. *)
EndWhileShort ==
  /\ At("While", "body") /\ ReturnNode(context, "While", Extended(StartSpan, Held[1]), Held)

(* ParseIfStatement and ParseWhileStatement. *)
ParseCondition(routine) ==
  At(routine, "start") /\ Invoke("Assignment", "condition", Consumed(context), <<>>)

ConditionParsed(routine) ==
  At(routine, "condition") /\ Invoke("Statement", "body", context, Held)

ThenParsed ==
  /\ At("If", "body")
  /\ IF Peek(context) = "else" THEN Invoke("Statement", "else", Consumed(context), Held)
                               ELSE Continue("else", context, Held)

EndIf ==
  /\ At("If", "else")
  /\ ReturnNode(context, "If",
                Extended(Extended(Extended(StartSpan, Held[1]), Held[2]), Held[3]), Held)

EndWhile ==
  /\ At("While", "body")
  /\ ReturnNode(context, "While", Extended(Extended(StartSpan, Held[1]), Held[2]), Held)

(* ParseForStatement. *)
ParseFor ==
  At("For", "start") /\ Invoke("Identifier", "iterator", Consumed(context), <<>>)

IteratorParsed ==
  /\ At("For", "iterator")
  /\ Invoke("Assignment", "iterable", ExpectedOrRecovered(context, "in"), Held)

IterableParsed == At("For", "iterable") /\ Invoke("Statement", "body", context, Held)

EndFor == At("For", "body") /\ ReturnNode(context, "For", Extended(StartSpan, returned), Held)

(* ParseReturnStatement. *)
ParseReturn ==
  /\ At("Return", "start")
  /\ LET c == Consumed(context)
     IN  IF Peek(c) = ";" THEN Continue("value", c, <<>>)
                          ELSE Invoke("Assignment", "value", c, <<>>)

EndReturn == At("Return", "value") /\ ReturnClosed(";", "Return", StartSpan, Held)

(* A let that does not know mut. *)
ParseVariableConstant ==
  At("Variable", "start") /\ Invoke("Identifier", "name", Consumed(context), <<>>)

(* ParseVariableDeclaration. *)
ParseVariable ==
  /\ At("Variable", "start")
  /\ Invoke("Identifier", "name", Matched(Consumed(context), "mut"), <<>>)

VariableNamed ==
  /\ At("Variable", "name")
  /\ CASE returned = 0 -> Return(context, 0)
       [] returned # 0 /\ Peek(context) = ":" -> Invoke("Type", "type", Consumed(context), Held)
       [] OTHER -> Continue("type", context, Held)

VariableTyped ==
  /\ At("Variable", "type")
  /\ IF Peek(context) = "=" THEN Invoke("Assignment", "initializer", Consumed(context), Held)
                            ELSE Continue("initializer", context, Held)

EndVariable == At("Variable", "initializer") /\ ReturnClosed(";", "Variable", StartSpan, Held)

(* ParseStatement at a match, which takes no ";" after it. *)
ParseMatchStatement ==
  At("MatchStatement", "start") /\ Invoke("Assignment", "expression", context, <<>>)

EndMatchStatement ==
  /\ At("MatchStatement", "expression")
  /\ ReturnNode(context, "ExpressionStatement", SpanOf(returned, StartSpan), Held)

(* ParseExpressionStatement: a statement even where no expression was.  At *)
(* a declaration keyword neither the error nor the recovery moves, and the *)
(* block asks for a statement again: the code then adds equal nodes until  *)
(* the memory ends, and the model takes the one it has.                    *)
ParseExpressionStatement ==
  At("ExpressionStatement", "start") /\ Invoke("Assignment", "expression", context, <<>>)

EndExpressionStatement ==
  /\ At("ExpressionStatement", "expression")
  /\ LET c == ExpectedOrRecovered(context, ";")
         token == TokenSpan(context.position)
         span == IF returned # 0 /\ Peek(context) = ";"
                   THEN ExtendSpan(nodes[returned].span, token)
                   ELSE SpanOf(returned, token)
         again == nodes # <<>> /\ Last(nodes) = NewNode(c, "ExpressionStatement", span, <<0>>)
     IN  IF returned = 0 /\ c.position = frame.from /\ again
           THEN Return(c, Len(nodes))
           ELSE ReturnNode(c, "ExpressionStatement", span, Held)

-----------------------------------------------------------------------------
(* Expressions: precedence climbing.  ParseExpression is ParseAssignment.  *)

BinaryFrame(c, least) == [Frame("Binary", c) EXCEPT !.least = least]

ParseAssignment ==
  /\ At("Assignment", "start")
  /\ InvokeFrame(BinaryFrame(context, LogicalOr), "left", context, <<>>)

LeftParsed ==
  /\ At("Assignment", "left")
  /\ IF returned # 0 /\ Peek(context) \in AssignmentOperators
       THEN Invoke("Assignment", "value", Consumed(context), Held)
       ELSE Return(context, returned)

(* An operator without an operand is dropped and its left side stands. *)
EndAssignment ==
  /\ At("Assignment", "value")
  /\ IF returned = 0
       THEN Return(context, Last(frame.parts))
       ELSE ReturnNode(context, "Assignment",
                       ExtendSpan(nodes[frame.parts[1]].span, nodes[returned].span), Held)

ParseBinary == At("Binary", "start") /\ Invoke("Unary", "operand", context, <<>>)

OperandParsed ==
  /\ At("Binary", "operand")
  /\ IF returned = 0 THEN Return(context, 0) ELSE Continue("operator", context, Held)

(* An operator whose right side takes operators of its own precedence. *)
ParseOperatorRight ==
  /\ At("Binary", "operator")
  /\ IF Peek(context) \in BinaryOperators /\ Precedence[Peek(context)] >= frame.least
       THEN InvokeFrame(BinaryFrame(Consumed(context), Precedence[Peek(context)]),
                        "right", Consumed(context), frame.parts)
       ELSE Return(context, Last(frame.parts))

ParseOperator ==
  /\ At("Binary", "operator")
  /\ IF Peek(context) \in BinaryOperators /\ Precedence[Peek(context)] >= frame.least
       THEN InvokeFrame(BinaryFrame(Consumed(context), Precedence[Peek(context)] + 1),
                        "right", Consumed(context), frame.parts)
       ELSE Return(context, Last(frame.parts))

RightParsed ==
  /\ At("Binary", "right")
  /\ IF returned = 0
       THEN Return(context, Last(frame.parts))
       ELSE ContinueWith("operator", context,
                         NewNode(context, "Binary",
                                 ExtendSpan(nodes[frame.parts[1]].span, nodes[returned].span),
                                 Held),
                         <<Fresh>>)

(* ParseUnary. *)
ParseUnary ==
  /\ At("Unary", "start")
  /\ IF Peek(context) \in PrefixOperators
       THEN Invoke("Unary", "operand", Consumed(context), <<>>)
       ELSE Invoke("Primary", "primary", context, <<>>)

EndPrefix ==
  /\ At("Unary", "operand")
  /\ IF returned = 0 THEN Return(context, 0)
     ELSE ReturnNode(context, "Unary", Extended(StartSpan, returned), Held)

EndPostfix ==
  /\ At("Unary", "primary")
  /\ IF returned # 0 /\ Peek(context) \in PostfixOperators
       THEN ReturnNode(Consumed(context), "Unary",
                       ExtendSpan(nodes[returned].span, TokenSpan(context.position)), Held)
       ELSE Return(context, returned)

(* ParsePrimary. *)
ParsePrimary ==
  /\ At("Primary", "start")
  /\ CASE Peek(context) = "literal" ->
            ReturnNode(Consumed(context), "LiteralExpression", StartSpan, <<>>)
       [] Peek(context) = "name" ->
            ContinueWith("postfix", Consumed(context),
                         NewNode(Consumed(context), "IdentifierExpression", StartSpan, <<>>),
                         <<Fresh>>)
       [] Peek(context) = "(" -> Invoke("Assignment", "inner", Consumed(context), <<>>)
       [] Peek(context) = "match" -> Invoke("Assignment", "scrutinee", Consumed(context), <<>>)
       [] OTHER -> Return(Reported(context), 0)

(* The span of a parenthesized expression is the one of what it holds. *)
InnerParsed ==
  /\ At("Primary", "inner")
  /\ LET c == ExpectedOrRecovered(context, ")")
     IN  IF returned = 0 THEN Return(c, 0)
         ELSE ContinueWith("postfix", c,
                           NewNode(c, "Parenthesized", nodes[returned].span, Held), <<Fresh>>)

EndMatch ==
  /\ At("Primary", "scrutinee")
  /\ ReturnNode(context, "Match", SpanOf(returned, StartSpan), Held)

(* ParsePostfix, whose left is the last part before the arguments. *)
ParsePostfix ==
  /\ At("Primary", "postfix")
  /\ LET c == Consumed(context)
     IN  CASE Peek(context) = "(" ->
                IF Peek(c) = ")" THEN Continue("call", c, frame.parts)
                                 ELSE Invoke("Assignment", "argument", c, frame.parts)
           [] Peek(context) = "." ->
                IF Peek(c) # "name"
                  THEN Return(Reported(c), frame.parts[1])
                  ELSE ContinueWith("postfix", Consumed(c),
                                    NewNode(Consumed(c), "MemberAccess",
                                            ExtendSpan(nodes[frame.parts[1]].span,
                                                       TokenSpan(c.position)),
                                            frame.parts),
                                    <<Fresh>>)
           [] OTHER -> Return(context, frame.parts[1])

ArgumentParsed ==
  /\ At("Primary", "argument")
  /\ IF Peek(context) = "," THEN Invoke("Assignment", "argument", Consumed(context), Kept)
                            ELSE Continue("call", context, Kept)

(* The span of a call ends with its last argument, before the ")". *)
EndCall ==
  /\ At("Primary", "call")
  /\ LET c == ExpectedOrRecovered(context, ")")
         span == ExtendSpan(nodes[frame.parts[1]].span, nodes[Last(frame.parts)].span)
     IN  ContinueWith("postfix", c, NewNode(c, "Call", span, frame.parts), <<Fresh>>)

-----------------------------------------------------------------------------
DeclarationStep ==
  \/ ParseDeclarations \/ DeclarationParsed \/ ParseAttribute \/ ParseDeclaration
  \/ \E routine \in Named : ParseKeyword(routine) \/ NameMissing(routine)
  \/ FunctionNamed \/ ParameterNamed \/ ParameterTyped \/ NextParameter
  \/ FunctionClosed \/ FunctionTyped \/ EndFunction
  \/ StructNamed \/ NextField \/ FieldNamed \/ FieldTyped \/ EndStruct
  \/ \E kind \in {"Class", "Trait"} : BodyNamed(kind) \/ NextMember(kind) \/ MemberParsed(kind)
  \/ EnumNamed \/ NextVariant \/ VariantParsed
  \/ ModuleNamed \/ EndModule \/ ParsePackage \/ EndPackage
  \/ ParseImport \/ ParseSegment \/ EndImport \/ ParseIdentifier \/ ParseType

StatementStep ==
  \/ ParseStatement \/ ParseBlock \/ NextStatement \/ StatementParsed
  \/ \E routine \in {"If", "While"} : ParseCondition(routine) \/ ConditionParsed(routine)
  \/ ThenParsed \/ EndIf \/ EndWhile
  \/ ParseFor \/ IteratorParsed \/ IterableParsed \/ EndFor
  \/ ParseReturn \/ EndReturn
  \/ ParseVariable \/ VariableNamed \/ VariableTyped \/ EndVariable
  \/ ParseMatchStatement \/ EndMatchStatement
  \/ ParseExpressionStatement \/ EndExpressionStatement

ExpressionStep ==
  \/ ParseAssignment \/ LeftParsed \/ EndAssignment
  \/ ParseBinary \/ OperandParsed \/ ParseOperator \/ RightParsed
  \/ ParseUnary \/ EndPrefix \/ EndPostfix
  \/ ParsePrimary \/ InnerParsed \/ EndMatch
  \/ ParsePostfix \/ ArgumentParsed \/ EndCall

(* The result stays as it is. *)
Finished == ~Running /\ UNCHANGED vars

Next == DeclarationStep \/ StatementStep \/ ExpressionStep \/ Finished

Spec == Init /\ [][Next]_vars

(* The parser runs until it returns: nothing else runs meanwhile. *)
FairSpec == Spec /\ WF_vars(Next)
=============================================================================
