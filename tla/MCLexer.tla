------------------------------- MODULE MCLexer -------------------------------
(* Instances of Lexer for TLC: all short texts over the characters that one *)
(* group of scanners tells apart.                                           *)
EXTENDS Lexer

MCNonAscii == "e-acute"

UpTo(n, S) == UNION {[1..k -> S] : k \in 0..n}

StringTexts == {<<"\"">> \o t : t \in UpTo(4, {"\"", "\\", "x", "a", Newline})}
CharacterTexts == {<<"'">> \o t : t \in UpTo(4, {"'", "\\", "x", "a", "n"})}
CommentTexts == {<<"/", "*">> \o t : t \in UpTo(6, {"/", "*"})} \union UpTo(4, {"/", "*", "a", Newline})
NumberTexts == UpTo(4, {"0", "1", "x", "e", ".", "-"})
WordTexts == UpTo(4, {"i", "f", "1", "_", " ", MCNonAscii})
LineTexts == UpTo(4, {"a", CarriageReturn, Newline, "#", "@"})
OperatorTexts == UpTo(4, {"=", ">", "<", "!", ":", "backquote"})
MixedTexts == UpTo(3, {"\"", "'", "\\", "/", "*", "backquote", "(", "a", "1", Newline})

MCTexts ==
  UNION {StringTexts, CharacterTexts, CommentTexts, NumberTexts, WordTexts, LineTexts,
         OperatorTexts, MixedTexts}

MCAlphabet ==
  {"\"", "\\", "x", "a", "n", "'", "/", "*", "0", "1", "e", ".", "-", "i", "f", "_", " ",
   MCNonAscii, CarriageReturn, Newline, "#", "@", "=", ">", "<", "!", ":", "backquote", "("}

Defaults == [include_trivia |-> FALSE, continue_after_errors |-> TRUE,
             enable_directives |-> TRUE, enable_annotations |-> TRUE]
MCOptions ==
  {Defaults, [Defaults EXCEPT !.include_trivia = TRUE],
   [include_trivia |-> TRUE, continue_after_errors |-> FALSE,
    enable_directives |-> FALSE, enable_annotations |-> FALSE]}

MCKeywords == {<<"i", "f">>}
=============================================================================
