---------------------------- MODULE ParserContext ----------------------------
(***************************************************************************)
(* What the parsers of compiler/parser share: the token stream and its     *)
(* cursor, the error state, and the recovery manager.  A token is its      *)
(* type; positions count tokens from 0, as TokenStream does.  A context is *)
(* a value, so that a step of a parser composes the calls it makes on it:  *)
(* Consumed(c) is c after Consume().                                       *)
(***************************************************************************)
EXTENDS Integers, Sequences, FiniteSets

CONSTANTS
  Texts,          (* the token sequences that are parsed                    *)
  Configurations  (* the ParserConfigurations they are parsed with          *)

(* A type stands for every type the parsers treat alike: "+" for the       *)
(* additive operators, "=" and "+=" for the assignments that may and may   *)
(* not follow a let, "literal" for true, false and the literals.           *)
DeclarationKeywords == {"fn", "struct", "class", "trait", "enum", "mod"}
DeclarationStarts ==
  DeclarationKeywords \union {"import", "package", "pub", "async", "@"}
AssignmentOperators == {"=", "+="}
PrefixOperators == {"!", "-", "++"}
PostfixOperators == {"++"}

(* GetPrecedence, on the types for which IsBinaryOperator holds. *)
Precedence ==
  [t \in {"||", "&&", "==", "<", "+", "-", "*"} |->
     CASE t = "||" -> 2 [] t = "&&" -> 3 [] t = "==" -> 4 [] t = "<" -> 5
       [] t \in {"+", "-"} -> 6 [] t = "*" -> 7]
BinaryOperators == DOMAIN Precedence
LogicalOr == 2

TokenTypes ==
  UNION {DeclarationStarts, AssignmentOperators, PrefixOperators, BinaryOperators,
         {"name", "type", "literal", "let", "mut", "return", "if", "else", "while", "for", "in",
          "match", "(", ")", "{", "}", ";", ":", ",", ".", "::", "other", "eof"}}

ParserConfiguration == [enable_error_recovery : BOOLEAN, max_syntax_errors : Nat \ {0}]

(* A stream ends with its only end-of-file token: Lexer!NothingLost. *)
TokenStream ==
  {t \in Seq(TokenTypes) :
     Len(t) > 0 /\ \A i \in 1..Len(t) : t[i] = "eof" <=> i = Len(t)}

ASSUME TokenStreamsAssumption == Texts \subseteq TokenStream
ASSUME ConfigurationsAssumption == Configurations \subseteq ParserConfiguration

VARIABLES
  text,           (* the tokens of the stream                               *)
  configuration,  (* configuration_                                         *)
  context         (* position_ of the stream and state_ of the context;     *)
                  (* error_count counts up to max_syntax_errors, the only   *)
                  (* number it is compared with                             *)

ParserState ==
  [position : Nat, had_error : BOOLEAN, error_count : Nat, in_panic_mode : BOOLEAN,
   recovered : BOOLEAN]

FreshContext ==
  [position |-> 0, had_error |-> FALSE, error_count |-> 0, in_panic_mode |-> FALSE,
   recovered |-> FALSE]

-----------------------------------------------------------------------------
(* The token stream and the cursor.  Past its end the stream answers with a *)
(* sentinel, which is an end of file too.                                  *)

IsAtEnd(c) == c.position >= Len(text)
Peek(c) == IF IsAtEnd(c) THEN "eof" ELSE text[c.position + 1]
IsDone(c) == IsAtEnd(c) \/ Peek(c) = "eof"
Consumed(c) == IF IsAtEnd(c) THEN c ELSE [c EXCEPT !.position = @ + 1]
Matched(c, type) == IF Peek(c) = type /\ ~IsAtEnd(c) THEN Consumed(c) ELSE c

IsDeclarationStart(c) == Peek(c) \in DeclarationStarts
EndOfBody(c) == Peek(c) = "}" \/ IsDone(c)

-----------------------------------------------------------------------------
(* Errors and recovery. *)

(* ReportError. *)
Reported(c) ==
  LET count == IF c.error_count < configuration.max_syntax_errors
                 THEN c.error_count + 1 ELSE c.error_count
  IN  [c EXCEPT !.had_error = TRUE, !.error_count = count,
                !.in_panic_mode = @ \/ count >= configuration.max_syntax_errors]

(* The first position from here on whose token is one of types, which      *)
(* contain the end of file.                                                *)
Ahead(c, types) ==
  CHOOSE p \in c.position..Len(text) - 1 :
    /\ text[p + 1] \in types
    /\ \A q \in c.position..p - 1 : text[q + 1] \notin types

SkippedTo(c, types) == IF IsDone(c) THEN c ELSE [c EXCEPT !.position = Ahead(c, types)]

(* Recovery that leaves the ";" or the "}" where it stopped. *)
SynchronizedBefore(c) == SkippedTo(c, DeclarationStarts \union {";", "}", "eof"})

(* Synchronize takes the ";" or the "}" it stops at, and a "}" may be the  *)
(* one that ends the block around the error.                               *)
Synchronized(c) ==
  LET stop == [SkippedTo(c, DeclarationStarts \union {";", "}", "eof"})
                 EXCEPT !.in_panic_mode = TRUE]
  IN  CASE IsDone(c) -> c
        [] ~IsDone(c) /\ Peek(stop) \in {";", "}"} -> Consumed(stop)
        [] OTHER -> stop
SynchronizedPastStatement(c) == Consumed(SkippedTo(c, {";", "}", "eof"}))
SynchronizedStatement(c) == Matched(SkippedTo(c, {";", "}", "eof"}), ";")
SynchronizedDeclaration(c) == SkippedTo(c, DeclarationStarts \union {"}", "eof"})

(* Recover. *)
Recovered(c) ==
  IF configuration.enable_error_recovery
    THEN [Synchronized(c) EXCEPT !.in_panic_mode = FALSE, !.recovered = TRUE]
    ELSE c

(* Expect(type, ...), and the callers' "if it fails, Recover()". *)
Expected(c, type) == IF Peek(c) = type THEN Consumed(c) ELSE Reported(c)
ExpectedOrRecovered(c, type) ==
  IF Peek(c) = type THEN Consumed(c) ELSE Recovered(Reported(c))
=============================================================================
