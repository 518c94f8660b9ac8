------------------------------- MODULE Grammar -------------------------------
(***************************************************************************)
(* What Parser promises.  The grammar is stated here apart from the code:  *)
(* a node derives the tokens it was made from when these, with each part   *)
(* written as its symbol, are one of the productions of its kind.          *)
(***************************************************************************)
EXTENDS Parser

CONSTANT Grammatical   (* texts of the language, derived without the parser *)

ASSUME GrammaticalAssumption == Grammatical \subseteq Texts

NodeIds == 1..Len(nodes)

-----------------------------------------------------------------------------
(* Sets of sentences. *)

A ++ B == {a \o b : a \in A, b \in B}
Word(symbol) == {<<symbol>>}
OneOf(symbols) == {<<s>> : s \in symbols}
Maybe(A) == A \union {<<>>}
Times(symbol, n) == {[k \in 1..n |-> symbol]}
Separated(symbol, separator, n) ==
  {[k \in 1..2 * n - 1 |-> IF k % 2 = 1 THEN symbol ELSE separator]}

Exp == Word("Expression")
Stm == Word("Statement")
Id == Word("Identifier")
Typ == Word("Type")

Symbol(kind) ==
  CASE kind \in Expressions -> "Expression"
    [] kind \in Statements -> "Statement"
    [] kind \in Declarations -> "Declaration"
    [] kind \in Types -> "Type"
    [] kind = "Attribute" -> "@"
    [] OTHER -> kind

(* The tokens node i was made from, its parts replaced by their symbols. *)
Sentence(i) ==
  LET node == nodes[i]
      inside(p) == \E j \in PartsOf(i) : nodes[j].from < p /\ p < nodes[j].to
      visible == {p \in node.from..node.to - 1 : ~inside(p)}
      nth(k) == CHOOSE p \in visible : Cardinality({q \in visible : q < p}) = k - 1
      symbol(p) == IF \E j \in PartsOf(i) : nodes[j].from = p
                     THEN Symbol(nodes[CHOOSE j \in PartsOf(i) : nodes[j].from = p].kind)
                     ELSE text[p + 1]
  IN  [k \in 1..Cardinality(visible) |-> symbol(nth(k))]

Prefix(i) ==
  (UNION {Times("@", n) : n \in 0..nodes[i].span.start - nodes[i].from})
    ++ Maybe(Word("pub")) ++ Maybe(Word("async"))

DeclarationProductions(i, kind, n) ==
  LET list(symbol, size) ==
        Separated(symbol, ",", size) ++ (IF size > 0 THEN Maybe(Word(",")) ELSE {<<>>})
      parameters == Cardinality({j \in PartsOf(i) : nodes[j].kind = "Parameter"})
  IN  CASE kind = "Function" ->
             Prefix(i) ++ Word("fn") ++ Id ++ Word("(") ++ Separated("Parameter", ",", parameters)
               ++ Word(")") ++ Maybe(Word(":") ++ Typ) ++ Stm
        [] kind = "Struct" ->
             Prefix(i) ++ Word("struct") ++ Id ++ Word("{") ++ list("Field", n - 1) ++ Word("}")
               ++ Maybe(Word(";"))
        [] kind = "Enum" ->
             Prefix(i) ++ Word("enum") ++ Id
               ++ Maybe(Word("{") ++ list("Identifier", n - 1) ++ Word("}")) ++ Maybe(Word(";"))
        [] kind = "Module" -> Prefix(i) ++ Word("mod") ++ Id ++ Maybe(Stm)
        [] kind = "Package" -> Word("package") ++ Id ++ Word(";")
        [] kind = "Import" ->
             Word("import") ++ Separated("Identifier", "::", n) ++ Word(";")

StatementProductions(i, kind, n) ==
  CASE kind = "ExpressionStatement" ->
         IF text[nodes[i].from + 1] = "match" THEN Exp ELSE Exp ++ Word(";")
    [] kind = "Variable" ->
         Word("let") ++ Maybe(Word("mut")) ++ Id ++ Maybe(Word(":") ++ Typ)
           ++ Maybe(Word("=") ++ Exp) ++ Word(";")
    [] kind = "Return" -> Word("return") ++ Maybe(Exp) ++ Word(";")
    [] kind = "If" -> Word("if") ++ Exp ++ Stm ++ Maybe(Word("else") ++ Stm)
    [] kind = "While" -> Word("while") ++ Exp ++ Stm
    [] kind = "For" -> Word("for") ++ Id ++ Word("in") ++ Exp ++ Stm
    [] kind = "Block" -> Word("{") ++ Times("Statement", n) ++ Word("}")

ExpressionProductions(kind, n) ==
  CASE kind = "IdentifierExpression" -> Word("name")
    [] kind = "LiteralExpression" -> Word("literal")
    [] kind = "Call" -> Exp ++ Word("(") ++ Separated("Expression", ",", n - 1) ++ Word(")")
    [] kind = "MemberAccess" -> Exp ++ Word(".") ++ Word("name")
    [] kind = "Unary" -> (OneOf(PrefixOperators) ++ Exp) \union (Exp ++ OneOf(PostfixOperators))
    [] kind = "Binary" -> Exp ++ OneOf(BinaryOperators) ++ Exp
    [] kind = "Assignment" -> Exp ++ OneOf(AssignmentOperators) ++ Exp
    [] kind = "Parenthesized" -> Word("(") ++ Exp ++ Word(")")
    [] kind = "Match" -> Word("match") ++ Exp

(* A class or a trait: what stands in its body between the declarations is *)
(* whatever starts none and does not end the body.                         *)
DerivesBody(i, keyword) ==
  LET s == Sentence(i)
  IN  \E head \in Prefix(i) ++ Word(keyword) ++ Id :
        \/ s = head
        \/ LET n == Len(head) + 1
           IN  /\ Len(s) > n /\ SubSeq(s, 1, n) = Append(head, "{")
               /\ s[Len(s)] = "}"
               /\ \A k \in n + 1..Len(s) - 1 : s[k] \notin DeclarationStarts \union {"}"}

Derives(i) ==
  LET kind == nodes[i].kind
      n == Len(nodes[i].parts)
  IN  CASE kind = "Program" -> Sentence(i) \in Times("Declaration", n)
        [] kind = "Class" -> DerivesBody(i, "class")
        [] kind = "Trait" -> DerivesBody(i, "trait")
        [] kind \in Declarations \ {"Class", "Trait"} ->
             Sentence(i) \in DeclarationProductions(i, kind, n)
        [] kind \in Statements -> Sentence(i) \in StatementProductions(i, kind, n)
        [] kind \in Expressions -> Sentence(i) \in ExpressionProductions(kind, n)
        [] kind \in {"Parameter", "Field"} -> Sentence(i) = <<"Identifier", ":", "Type">>
        [] kind \in {"Identifier", "NamedType"} -> Sentence(i) = <<"name">>
        [] kind = "PrimitiveType" -> Sentence(i) = <<"type">>
        [] kind = "Attribute" -> Sentence(i) = <<"@">>

-----------------------------------------------------------------------------
(* Type invariant.  The cursor stands on a token of the stream: no Consume *)
(* ever takes the end of file.                                             *)
TypeOK ==
  /\ text \in TokenStream
  /\ configuration \in ParserConfiguration
  /\ context \in ParserState
  /\ context.position < Len(text)
  /\ nodes \in Seq(Node)
  /\ returned \in 0..Len(nodes)
  /\ \A d \in 1..Len(calls) :
       /\ calls[d].routine \in Routines
       /\ calls[d].from <= context.position
       /\ Indices(calls[d].parts) \subseteq 0..Len(nodes)

(* As long as no error was reported, every node derives exactly the tokens *)
(* it was made from: no parser takes, skips or doubles a token silently,   *)
(* but for the bodies of classes and traits.  When the parse ends so, the  *)
(* program derives the whole text.                                         *)
TreeDerived ==
  ~context.had_error =>
    /\ \A i \in NodeIds : Derives(i)
    /\ ~Running => nodes[returned].from = 0 /\ nodes[returned].to = Len(text) - 1

(* The language is accepted: no text of the grammar is reported as an      *)
(* error, whatever the recovery and the limit on errors.                   *)
GrammarAccepted == context.had_error => text \notin Grammatical

(* How tightly the top of an expression binds: assignments, the binary     *)
(* operators, prefix, postfix, and what needs no operator.                 *)
Operator(i) == text[nodes[nodes[i].parts[1]].to + 1]
IsPrefix(i) == nodes[i].from < nodes[nodes[i].parts[1]].from
Binding(i) ==
  CASE nodes[i].kind = "Assignment" -> 1
    [] nodes[i].kind = "Binary" -> Precedence[Operator(i)]
    [] nodes[i].kind = "Unary" -> IF IsPrefix(i) THEN 8 ELSE 9
    [] OTHER -> 10

(* Operators group by precedence and, at equal precedence, the binary ones *)
(* to the left and assignments to the right.  After an error this fails:   *)
(* an operator without a right side gives up every level it is under.      *)
PrecedenceRespected ==
  ~context.had_error =>
    \A i \in NodeIds :
      LET part(k) == Binding(nodes[i].parts[k])
      IN  CASE nodes[i].kind = "Assignment" -> part(1) > 1
            [] nodes[i].kind = "Binary" -> part(1) >= Binding(i) /\ part(2) > Binding(i)
            [] nodes[i].kind = "Unary" -> part(1) >= (IF IsPrefix(i) THEN 8 ELSE 10)
            [] nodes[i].kind \in {"Call", "MemberAccess"} -> part(1) = 10
            [] OTHER -> TRUE

(* Who holds node i: other nodes, the locals of functions, or the result   *)
(* on its way to the caller.                                               *)
Holders(i) ==
  (UNION {{<<j, k>> : k \in {m \in 1..Len(nodes[j].parts) : nodes[j].parts[m] = i}}
            : j \in NodeIds})
    \union (UNION {{<<-d, k>> : k \in {m \in 1..Len(calls[d].parts) : calls[d].parts[m] = i}}
                     : d \in 1..Len(calls)})
    \union (IF returned = i /\ (Running => i \notin Indices(frame.parts))
              THEN {<<0, 0>>} ELSE {})

(* The nodes form trees: a node holds only older nodes of the kinds its    *)
(* members have, and none has two owners.  Without errors none is lost,    *)
(* but for the attributes of what is no function.                          *)
TreesOwned ==
  \A i \in NodeIds :
    /\ FitsItsRoles(i)
    /\ \A j \in PartsOf(i) : j < i
    /\ Cardinality(Holders(i)) <= 1
    /\ ~context.had_error /\ nodes[i].kind # "Attribute" => Holders(i) # {}

(* The span of a node lies in the text it was made from; at most it takes  *)
(* in the token after it, where an error left nothing else.  Without       *)
(* errors it covers the spans of its parts, and the parts follow one another;     *)
(* classes, traits, enums and modules without a body span their keyword    *)
(* alone, and functions leave their attributes out.                        *)
SpansKeyword(node) ==
  node.kind \in {"Class", "Trait", "Enum"} \/ (node.kind = "Module" /\ node.parts[2] = 0)
Covers(outer, inner) == outer.start <= inner.start /\ inner.end <= outer.end
SpansHonest ==
  \A i \in NodeIds :
    LET node == nodes[i]
    IN  /\ IsValid(node.span) => node.from <= node.span.start /\ node.span.end <= node.to
        /\ ~context.had_error =>
             /\ IsValid(node.span) \/ node.kind = "Program"
             /\ node.span.end < node.to \/ node.kind = "Program"
             /\ ~SpansKeyword(node) =>
                  \A j \in PartsOf(i) :
                    nodes[j].kind = "Attribute" \/ Covers(node.span, nodes[j].span)
             /\ \A k, l \in 1..Len(node.parts) :
                  k < l /\ node.parts[k] # 0 /\ node.parts[l] # 0 =>
                    nodes[node.parts[k]].span.end < nodes[node.parts[l]].span.start

(* The parser returns, or it is for ever at an error it has reported.      *)
(* With recovery that place is a declaration keyword (or annotation) where *)
(* a block wants a statement or a struct a field: recovery stops there     *)
(* and neither of them takes it.                                           *)
StandsAtDeclaration ==
  /\ IsDeclarationStart(context)
  /\ \E d \in 1..Len(calls) : calls[d].routine \in {"Block", "Struct"}
StuckOnlyAtDeclarations ==
  <>[](Running => /\ context.had_error
                  /\ configuration.enable_error_recovery => StandsAtDeclaration)

(* As the test decl_mod_body has it, the parser returns. *)
ParseReturns == <>(~Running)
=============================================================================
