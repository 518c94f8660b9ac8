------------------------------ MODULE MCParser ------------------------------
(* Instances of Parser for TLC: every text of a bounded grammar, and short  *)
(* arbitrary texts in every place where one parser calls another.           *)
EXTENDS Grammar, AstPrinter

UpTo(n, S) == UNION {[1..k -> S] : k \in 0..n}
Ended(T) == {t \o <<"eof">> : t \in T}
Within(before, T, after) == {before \o t \o after : t \in T}

-----------------------------------------------------------------------------
(* The language, up to a depth. *)

Atoms == OneOf({"name", "literal"})
Name == Word("name")
Block(S) == Word("{") ++ S ++ Word("}")

Groups == Within(<<"(">>, Name ++ OneOf(BinaryOperators) ++ Name, <<")">>)
Calls == Within(<<"name", "(">>, {<<>>, <<"name">>, <<"name", ",", "literal">>}, <<")">>)
Operands ==
  UNION {Atoms, Groups, Calls, Word("match") ++ Name, Calls ++ Word(".") ++ Name,
         OneOf(PrefixOperators) ++ Name, Name ++ Word("++"), Word("-") ++ Calls ++ Word("++")}
Chains ==
  UNION {Name ++ OneOf({"||", "&&", "<", "-", "*"}) ++ Name
           ++ OneOf({"||", "==", "+", "*"}) ++ Name,
         Name ++ OneOf(AssignmentOperators) ++ Name ++ OneOf(AssignmentOperators) ++ Name,
         Name ++ OneOf({"*", "||"}) ++ Operands, Name ++ Word("+=") ++ Operands}
ExpressionTexts == Operands \union Chains

Simple == {<<"name", ";">>, <<"{", "}">>, <<"return", ";">>}
NestedStatements ==
  UNION {Simple,
         Word("if") ++ Name ++ Simple ++ Maybe(Word("else") ++ Simple),
         Word("while") ++ Name ++ Simple, Word("match") ++ Name,
         Word("for") ++ Name ++ Word("in") ++ Name ++ Simple,
         Word("let") ++ Maybe(Word("mut")) ++ Name ++ Maybe(Word(":") ++ OneOf({"name", "type"}))
           ++ Maybe(Word("=") ++ Name) ++ Word(";"),
         Word("return") ++ Name ++ Word(";")}
StatementTexts ==
  UNION {Block({<<>>}), Block(NestedStatements), Block(Block(NestedStatements)),
         Block(Word("if") ++ Name ++ Word("if") ++ Name ++ Simple ++ Maybe(Word("else") ++ Simple)),
         Block(Simple ++ Simple),
         Block({e \o <<";">> : e \in {x \in ExpressionTexts : x[1] # "match"}})}

Typed == Name ++ Word(":") ++ OneOf({"name", "type"})
Lists(T) == UNION {{<<>>}, T, T ++ Word(",") ++ T}
Trailing(T) == Lists(T) \union (T ++ Word(","))
Modifiers == Maybe(Word("@")) ++ Maybe(Word("pub")) ++ Maybe(Word("async"))
Function == {<<"fn", "name", "(", ")", "{", "}">>}

DeclarationTexts ==
  UNION {Modifiers ++ Function,
         Within(<<"fn", "name", "(">>, Lists(Typed) ++ Word(")") ++ Maybe(Word(":") ++ Word("type")),
                <<"{", "}">>),
         {<<"@", "@", "struct", "name", "{", "}">>, <<"pub", "enum", "name">>},
         Within(<<"struct", "name", "{">>, Trailing(Typed), <<"}", ";">>),
         Within(<<"enum", "name", "{">>, Trailing(Name), <<"}">>),
         Within(<<"import">>, Name \union (Name ++ Word("::") ++ Name), <<";">>),
         {<<"package", "name", ";">>, <<"mod", "name">>, <<"class", "name">>},
         Within(<<"mod", "name">>, Block(Simple), <<>>),
         Within(<<"trait", "name">>, Block(Function ++ Function), <<>>),
         Within(<<"class", "name">>, Block(Modifiers ++ {<<"class", "name", "{", "}">>}), <<>>)}

MCGrammatical ==
  Ended(UNION {Within(<<"fn", "name", "(", ")">>, StatementTexts, <<>>), DeclarationTexts,
               Function ++ DeclarationTexts, {<<>>}})

-----------------------------------------------------------------------------
(* Arbitrary tokens, on their own and in the places of the grammar. *)

ProgramTokens ==
  UpTo(3, {"fn", "struct", "class", "enum", "mod", "import", "package", "pub", "@", "name",
           "{", "}", ";"})
StatementTokens ==
  UpTo(3, {"let", "return", "if", "for", "match", "name", "=", ";", "}", "{", "fn", "else"})
ExpressionTokens == UpTo(3, {"name", "(", ")", "+", "=", ".", ",", "++"})
ParameterTokens == UpTo(3, {"name", ":", "type", ",", ")", "}", "{"})
FieldTokens == UpTo(3, {"name", ":", "type", ",", "fn", ";", "}"})
MemberTokens == UpTo(3, {"fn", "mod", "name", "{", "}", ";", "@"})
VariantTokens == UpTo(3, {"name", ",", "}", "fn", ";"})
PathTokens == UpTo(3, {"name", "::", ";", "fn"})

MCTexts ==
  MCGrammatical \union
  Ended(UNION {ProgramTokens,
               Within(<<"fn", "name", "(", ")", "{">>, StatementTokens, <<"}">>),
               Within(<<"mod", "name", "{">>, UpTo(2, {"fn", "name", "}", ")", "let", "other"}), <<>>),
               Within(<<"fn", "name", "(", ")", "{">>, ExpressionTokens, <<";", "}">>),
               Within(<<"fn", "name", "(">>, ParameterTokens, <<"{", "}">>),
               Within(<<"struct", "name", "{">>, FieldTokens, <<"}">>),
               Within(<<"class", "name", "{">>, MemberTokens, <<"}">>),
               Within(<<"enum", "name", "{">>, VariantTokens, <<"}">>),
               Within(<<"import">>, PathTokens, <<>>)})

MCConfigurations ==
  {[enable_error_recovery |-> TRUE, max_syntax_errors |-> 2],
   [enable_error_recovery |-> FALSE, max_syntax_errors |-> 1]}

(* The text of the test decl_mod_body: mod app { fn main() {} } *)
MCModuleBody ==
  {<<"mod", "name", "{", "fn", "name", "(", ")", "{", "}", "}", "eof">>}
MCDefaults == {[enable_error_recovery |-> TRUE, max_syntax_errors |-> 2]}
MCNone == {}
=============================================================================
