-------------------------------- MODULE Lexer --------------------------------
(***************************************************************************)
(* Lexer::Tokenize over one buffer (compiler/lexer): a dispatch asks the   *)
(* scanners in their order and the first that handles the character at     *)
(* position consumes and classifies.  A scanner is one step, but for the   *)
(* loops over the body of a string and of a block comment, where one turn  *)
(* is a step.  Offsets count characters; Char is Peek.                     *)
(***************************************************************************)
EXTENDS SourceText

CONSTANTS
  Alphabet,       (* the characters texts are made of                       *)
  NonAscii,       (* stands for every character above 0x7F                  *)
  Texts,          (* the buffers that are lexed                             *)
  Options,        (* the LexerOptions they are lexed with                   *)
  KeywordTexts    (* the reserved words, each a sequence of characters      *)

Eof == "end of input"

LexerOptions == [include_trivia : BOOLEAN, continue_after_errors : BOOLEAN,
                 enable_directives : BOOLEAN, enable_annotations : BOOLEAN]

ASSUME EofAssumption == Eof \notin Alphabet
ASSUME NonAsciiAssumption == NonAscii # Eof
ASSUME TextsAssumption == Texts \subseteq Seq(Alphabet)
ASSUME OptionsAssumption == Options \subseteq LexerOptions

VARIABLES
  text,           (* the content of the buffer                              *)
  options,        (* configuration_                                         *)
  position,       (* position_ of the character stream                      *)
  state,          (* LexerState, "Stopped" after the break out of the loop, *)
                  (* "Finished" once Tokenize has returned                  *)
  open,           (* the locals of a string or comment scan in progress     *)
  pending,        (* pending_tokens_ of the context                         *)
  tokens,         (* what Tokenize has collected                            *)
  had_errors,     (* had_errors_ of the context                             *)
  reported        (* how many diagnostics were emitted                      *)

vars == <<text, options, position, state, open, pending, tokens, had_errors, reported>>

-----------------------------------------------------------------------------
(* Characters. *)

Digits == {"0", "1", "2", "3", "4", "5", "6", "7", "8", "9"}
OctDigits == Digits \ {"8", "9"}
HexDigits == Digits \union {"a", "b", "c", "d", "e", "f", "A", "B", "C", "D", "E", "F"}
Letters == {"a", "b", "c", "d", "e", "f", "g", "h", "i", "j", "k", "l", "m",
            "n", "o", "p", "q", "r", "s", "t", "u", "v", "w", "x", "y", "z",
            "A", "B", "C", "D", "E", "F", "G", "H", "I", "J", "K", "L", "M",
            "N", "O", "P", "Q", "R", "S", "T", "U", "V", "W", "X", "Y", "Z"}
IdentifierStart == Letters \union {"_", NonAscii}
IdentifierContinue == IdentifierStart \union Digits
Blanks == {" ", "\t", CarriageReturn}
Delimiters == {"(", ")", "{", "}", "[", "]"}
Punctuation == {",", ";", ":", "!"}

Operators ==
  {<<"!", "=">>, <<"#">>, <<"$">>, <<"%">>, <<"%", "=">>, <<"&">>, <<"&", "&">>, <<"&", "=">>,
   <<"*">>, <<"*", "=">>, <<"+">>, <<"+", "+">>, <<"+", "=">>, <<"-">>, <<"-", "-">>,
   <<"-", "=">>, <<"-", ">">>, <<".">>, <<".", ".">>, <<".", ".", ".">>, <<"/">>,
   <<"/", "=">>, <<":", ":">>, <<"<">>, <<"<", "<">>, <<"<", "<", "=">>, <<"<", "=">>,
   <<"<", "=", ">">>, <<"=">>, <<"=", "=">>, <<">">>, <<">", "=">>, <<">", ">">>,
   <<">", ">", "=">>, <<"?">>, <<"?", "?">>, <<"@">>, <<"^">>, <<"^", "=">>, <<"|">>,
   <<"|", "=">>, <<"|", "|">>, <<"~">>}

Size == Len(text)
Char(offset) == IF offset < Size THEN text[offset + 1] ELSE Eof
Slice(from, to) == SubSeq(text, from + 1, to)

(* Where the characters of S that follow one another from offset end. *)
RunEnd(S, offset) ==
  CHOOSE end \in offset..Size :
    /\ \A o \in offset..(end - 1) : Char(o) \in S
    /\ Char(end) \notin S

LineEnd(offset) == RunEnd(Alphabet \ {Newline}, offset)
IdentifierEnd(offset) == RunEnd(IdentifierContinue, offset)

-----------------------------------------------------------------------------
(* What a number, an escape and an operator at an offset come to. *)

HasPrefix(offset) ==
  Char(offset) = "0" /\ Char(offset + 1) \in {"x", "X", "b", "B", "o", "O"}

PrefixDigits(offset) ==
  CASE Char(offset + 1) \in {"x", "X"} -> HexDigits
    [] Char(offset + 1) \in {"b", "B"} -> {"0", "1"}
    [] OTHER -> OctDigits

FractionEnd(offset) ==
  LET whole == RunEnd(Digits, offset)
  IN  IF Char(whole) = "." /\ Char(whole + 1) \in Digits THEN RunEnd(Digits, whole + 1) ELSE whole

HasExponent(offset) == Char(offset) \in {"e", "E"}
ExponentDigits(offset) == IF Char(offset + 1) \in {"+", "-"} THEN offset + 2 ELSE offset + 1

NumberEnd(offset) ==
  LET fraction == FractionEnd(offset)
  IN  CASE HasPrefix(offset) -> RunEnd(PrefixDigits(offset), offset + 2)
        [] ~ HasPrefix(offset) /\ HasExponent(fraction) -> RunEnd(Digits, ExponentDigits(fraction))
        [] OTHER -> fraction

(* Digits after a prefix and in an exponent; no letter after a decimal number. *)
NumberValid(offset) ==
  LET fraction == FractionEnd(offset)
  IN  IF HasPrefix(offset)
      THEN NumberEnd(offset) > offset + 2
      ELSE /\ HasExponent(fraction) => NumberEnd(offset) > ExponentDigits(fraction)
           /\ Char(NumberEnd(offset)) \notin IdentifierStart

NumberType(offset) ==
  IF ~ HasPrefix(offset) /\ NumberEnd(offset) > RunEnd(Digits, offset) THEN "Float" ELSE "Integer"

(* offset is behind the backslash. *)
HexEscape(offset) == Char(offset) = "x" /\ Char(offset + 1) \in HexDigits

EscapeValid(offset, quotes) ==
  Char(offset) \in {"n", "t", "r", "\\", "0", "u", "U"} \union quotes \/ HexEscape(offset)

(* Without a look at the end of the text. *)
EscapeEndUnchecked(offset) ==
  IF HexEscape(offset)
  THEN IF Char(offset + 2) \in HexDigits THEN offset + 3 ELSE offset + 2
  ELSE offset + 1

EscapeEnd(offset) ==
  CASE offset = Size -> Size
    [] HexEscape(offset) -> IF Char(offset + 2) \in HexDigits THEN offset + 3 ELSE offset + 2
    [] OTHER -> offset + 1

OperatorLengths(offset) ==
  {n \in 1..4 : offset + n <= Size /\ Slice(offset, offset + n) \in Operators}

(* The longest operator of the table, but for =>, which is not in it. *)
OperatorLength(offset) ==
  IF Char(offset) = "=" /\ Char(offset + 1) = ">"
  THEN 2
  ELSE CHOOSE n \in OperatorLengths(offset) : \A m \in OperatorLengths(offset) : m <= n

-----------------------------------------------------------------------------
(* Dispatch. *)

(* Identifiers are tried before reserved words. *)
ScannersIdentifierFirst ==
  <<"Whitespace", "Comment", "Directive", "Annotation", "String", "Character",
    "Number", "Identifier", "Keyword", "Operator", "Unknown">>

Scanners == <<"Whitespace", "Comment", "Directive", "Annotation", "String", "Character",
              "Number", "Keyword", "Identifier", "Operator", "Unknown">>

OperatorStarts(offset) ==
  \/ OperatorLengths(offset) # {}
  \/ Char(offset) \in Delimiters \union Punctuation

(* The scanners that do not answer NotHandled. *)
Handles(scanner, offset) ==
  LET here == Char(offset)
      next == Char(offset + 1)
  IN  CASE scanner = "Whitespace" -> here \in Blanks \union {Newline}
        [] scanner = "Comment"    -> here = "/" /\ next \in {"/", "*"}
        [] scanner = "Directive"  -> /\ options.enable_directives
                                     /\ here = "#" /\ next \in IdentifierStart \union {"!"}
        [] scanner = "Annotation" -> /\ options.enable_annotations
                                     /\ here = "@" /\ next \in IdentifierStart
        [] scanner = "String"     -> here = "\""
        [] scanner = "Character"  -> here = "'"
        [] scanner = "Number"     -> here \in Digits \/ (here = "." /\ next \in Digits)
        [] scanner = "Keyword"    -> /\ here \in IdentifierStart
                                     /\ Slice(offset, IdentifierEnd(offset)) \in KeywordTexts
        [] scanner = "Identifier" -> here \in IdentifierStart
        [] scanner = "Operator"   -> OperatorStarts(offset)
        [] scanner = "Unknown"    -> TRUE

(* The loop of Tokenize asks scanner, after every scanner before it declined. *)
Dispatch(scanner) ==
  /\ state = "Normal"
  /\ position < Size
  /\ \E k \in 1..Len(Scanners) :
       /\ Scanners[k] = scanner
       /\ Handles(scanner, position)
       /\ \A j \in 1..(k - 1) : ~ Handles(Scanners[j], position)

-----------------------------------------------------------------------------
(* What a scanner leaves behind. *)

TokenTypes == {"Whitespace", "Newline", "Comment", "Directive", "Annotation", "String",
               "Character", "Integer", "Float", "Keyword", "Identifier", "Operator",
               "Delimiter", "Punctuation", "Error", "EndOfFile"}

Token(type, from, to) == [type |-> type, start |-> from, end |-> to, valid |-> type # "Error"]
NoScan == [start |-> 0, depth |-> 0, failed |-> FALSE]

(* What the scanner pushed last comes first. *)
FlushLate(pushed) ==
  /\ tokens' = tokens \o pushed \o pending
  /\ pending' = <<>>

(* FlushPendingTokens behind what the scanner pushed last. *)
Flush(pushed) ==
  /\ tokens' = tokens \o pending \o pushed
  /\ pending' = <<>>

ReturnTo(end, next) ==
  /\ position' = end
  /\ state' = next
  /\ open' = NoScan
  /\ UNCHANGED <<text, options>>

(* The option is forgotten. *)
AfterErrorAlways == "Normal"

AfterError == IF options.continue_after_errors THEN "Normal" ELSE "Stopped"

(* TokenProduced. *)
Produce(type, from, to) ==
  /\ Flush(<<Token(type, from, to)>>)
  /\ ReturnTo(to, "Normal")
  /\ UNCHANGED <<had_errors, reported>>

(* Trivia is a token, or Consumed. *)
ProduceTrivia(type, from, to) ==
  IF options.include_trivia
  THEN Produce(type, from, to)
  ELSE /\ ReturnTo(to, "Normal")
       /\ UNCHANGED <<pending, tokens, had_errors, reported>>

(* The diagnostic is emitted but the context not marked. *)
FailToUnmarked(from, to, next) ==
  /\ Flush(<<Token("Error", from, to)>>)
  /\ ReturnTo(to, next)
  /\ reported' = reported + 1
  /\ UNCHANGED had_errors

(* PushErrorToken, and the result next leads to. *)
FailTo(from, to, next) ==
  /\ Flush(<<Token("Error", from, to)>>)
  /\ ReturnTo(to, next)
  /\ had_errors' = TRUE
  /\ reported' = reported + 1

Fail(from, to) == FailTo(from, to, AfterError)

(* One turn of a loop over the body of a string or a comment. *)
GoOn(end, scan) ==
  /\ position' = end
  /\ open' = scan
  /\ UNCHANGED <<text, options, state>>

Enter(inside, end) ==
  /\ state' = inside
  /\ position' = end
  /\ open' = [start |-> position, depth |-> 1, failed |-> FALSE]
  /\ UNCHANGED <<text, options, pending, tokens, had_errors, reported>>

-----------------------------------------------------------------------------
(* The scanners. *)

Init ==
  /\ text \in Texts
  /\ options \in Options
  /\ position = 0
  /\ state = "Normal"
  /\ open = NoScan
  /\ pending = <<>>
  /\ tokens = <<>>
  /\ had_errors = FALSE
  /\ reported = 0

(* Consumed, without having consumed anything. *)
ScanWhitespaceInPlace ==
  /\ Dispatch("Whitespace")
  /\ ProduceTrivia("Whitespace", position,
                   IF options.include_trivia THEN RunEnd(Blanks \union {Newline}, position)
                                             ELSE position)

ScanWhitespace ==
  /\ Dispatch("Whitespace")
  /\ IF Char(position) = Newline
     THEN ProduceTrivia("Newline", position, RunEnd({Newline}, position))
     ELSE ProduceTrivia("Whitespace", position, RunEnd(Blanks, position))

ScanLineComment ==
  /\ Dispatch("Comment")
  /\ Char(position + 1) = "/"
  /\ ProduceTrivia("Comment", position, LineEnd(position + 2))

ScanDirective ==
  /\ Dispatch("Directive")
  /\ Produce("Directive", position, LineEnd(position + 1))

(* The token begins at the name, behind the sign. *)
ScanAnnotationName ==
  /\ Dispatch("Annotation")
  /\ Produce("Annotation", position + 1, IdentifierEnd(position + 1))

ScanAnnotation ==
  /\ Dispatch("Annotation")
  /\ Produce("Annotation", position, IdentifierEnd(position + 1))

ScanNumber ==
  /\ Dispatch("Number")
  /\ NumberValid(position)
  /\ Produce(NumberType(position), position, NumberEnd(position))

ScanBadNumber ==
  /\ Dispatch("Number")
  /\ ~ NumberValid(position)
  /\ Fail(position, NumberEnd(position))

ScanKeyword ==
  /\ Dispatch("Keyword")
  /\ Produce("Keyword", position, IdentifierEnd(position))

ScanIdentifier ==
  /\ Dispatch("Identifier")
  /\ Produce("Identifier", position, IdentifierEnd(position))

ScanOperator ==
  /\ Dispatch("Operator")
  /\ OperatorLengths(position) # {}
  /\ Produce("Operator", position, position + OperatorLength(position))

ScanDelimiter ==
  /\ Dispatch("Operator")
  /\ OperatorLengths(position) = {}
  /\ Produce(IF Char(position) \in Delimiters THEN "Delimiter" ELSE "Punctuation",
             position, position + 1)

(* Marks the error but answers TokenProduced. *)
ScanUnknown ==
  /\ Dispatch("Unknown")
  /\ FailTo(position, position + 1, "Normal")

-----------------------------------------------------------------------------
(* Block comments. *)

OpenComment ==
  /\ Dispatch("Comment")
  /\ Char(position + 1) = "*"
  /\ Enter("InsideComment", position + 2)

At(first, second) == Char(position) = first /\ Char(position + 1) = second

NestComment ==
  /\ state = "InsideComment"
  /\ At("/", "*")
  /\ GoOn(position + 2, [open EXCEPT !.depth = @ + 1])
  /\ UNCHANGED <<pending, tokens, had_errors, reported>>

UnnestComment ==
  /\ state = "InsideComment"
  /\ At("*", "/")
  /\ open.depth > 1
  /\ GoOn(position + 2, [open EXCEPT !.depth = @ - 1])
  /\ UNCHANGED <<pending, tokens, had_errors, reported>>

CloseComment ==
  /\ state = "InsideComment"
  /\ At("*", "/")
  /\ open.depth = 1
  /\ ProduceTrivia("Comment", open.start, position + 2)

CommentCharacter ==
  /\ state = "InsideComment"
  /\ position < Size
  /\ ~ At("/", "*") /\ ~ At("*", "/")
  /\ GoOn(position + 1, open)
  /\ UNCHANGED <<pending, tokens, had_errors, reported>>

CommentUnterminated ==
  /\ state = "InsideComment"
  /\ position = Size
  /\ Fail(open.start, position)

-----------------------------------------------------------------------------
(* Strings. *)

OpenString ==
  /\ Dispatch("String")
  /\ Enter("InsideString", position + 1)

(* A string whose escapes failed is a token with the Invalid flag and an Error result. *)
CloseString ==
  /\ state = "InsideString"
  /\ Char(position) = "\""
  /\ Flush(<<[Token("String", open.start, position + 1) EXCEPT !.valid = ~ open.failed]>>)
  /\ ReturnTo(position + 1, IF open.failed THEN AfterError ELSE "Normal")
  /\ UNCHANGED <<had_errors, reported>>

(* Only the backslash is skipped. *)
StringEscapeSkipped ==
  /\ state = "InsideString"
  /\ Char(position) = "\\"
  /\ EscapeValid(position + 1, {"\"", "'"})
  /\ GoOn(position + 1, open)
  /\ UNCHANGED <<pending, tokens, had_errors, reported>>

StringEscape ==
  /\ state = "InsideString"
  /\ Char(position) = "\\"
  /\ EscapeValid(position + 1, {"\"", "'"})
  /\ GoOn(EscapeEnd(position + 1), open)
  /\ UNCHANGED <<pending, tokens, had_errors, reported>>

(* Where the text ends in the escape the scanner says nothing yet. *)
EscapeCutOff(offset) == offset = Size \/ (Char(offset) = "x" /\ offset + 1 = Size)

StringEscapeRefused ==
  /\ state = "InsideString"
  /\ Char(position) = "\\"
  /\ ~ EscapeValid(position + 1, {"\"", "'"})
  /\ ~ EscapeCutOff(position + 1)
  /\ GoOn(EscapeEnd(position + 1), [open EXCEPT !.failed = TRUE])
  /\ pending' = Append(pending, Token("Error", position, EscapeEnd(position + 1)))
  /\ had_errors' = TRUE
  /\ reported' = reported + 1
  /\ UNCHANGED tokens

StringEscapeCutOff ==
  /\ state = "InsideString"
  /\ Char(position) = "\\"
  /\ EscapeCutOff(position + 1)
  /\ GoOn(EscapeEnd(position + 1), [open EXCEPT !.failed = TRUE])
  /\ UNCHANGED <<pending, tokens, had_errors, reported>>

StringCharacter ==
  /\ state = "InsideString"
  /\ Char(position) \notin {"\"", "\\", Newline, Eof}
  /\ GoOn(position + 1, open)
  /\ UNCHANGED <<pending, tokens, had_errors, reported>>

StringUnterminated ==
  /\ state = "InsideString"
  /\ Char(position) \in {Newline, Eof}
  /\ Fail(open.start, position)

-----------------------------------------------------------------------------
(* Character literals: a quote, one character or escape, a quote. *)

OpensEscape == Char(position + 1) = "\\"
CharacterEscapeValid == EscapeValid(position + 2, {"'"})
CharacterEnd == IF OpensEscape THEN EscapeEnd(position + 2) ELSE position + 2
CharacterMissing == Char(position + 1) \in {Newline, Eof}

ScanCharacter ==
  /\ Dispatch("Character")
  /\ ~ CharacterMissing
  /\ OpensEscape => CharacterEscapeValid
  /\ Char(CharacterEnd) = "'"
  /\ Produce("Character", position, CharacterEnd + 1)

CharacterUnterminated ==
  /\ Dispatch("Character")
  /\ OpensEscape => CharacterEscapeValid
  /\ CharacterMissing \/ Char(CharacterEnd) # "'"
  /\ Fail(position, IF CharacterMissing THEN position + 1 ELSE CharacterEnd)

(* Only the escape becomes an Error token. *)
CharacterEscapeRefused ==
  /\ Dispatch("Character")
  /\ OpensEscape /\ ~ CharacterEscapeValid
  /\ position + 2 < Size
  /\ Fail(position + 1, EscapeEnd(position + 2))

(* The text ends behind the backslash: an Error result without a token or a diagnostic. *)
CharacterCutOff ==
  /\ Dispatch("Character")
  /\ OpensEscape
  /\ position + 2 = Size
  /\ Flush(<<>>)
  /\ ReturnTo(Size, AfterError)
  /\ had_errors' = TRUE
  /\ UNCHANGED reported

-----------------------------------------------------------------------------
(* The end of Tokenize: out of characters, or out of the loop. *)
Finish ==
  /\ \/ state = "Normal" /\ position = Size
     \/ state = "Stopped"
  /\ tokens' = Append(tokens, Token("EndOfFile", position, position))
  /\ state' = "Finished"
  /\ UNCHANGED <<text, options, position, open, pending, had_errors, reported>>

(* The result stays as it is. *)
Finished == state = "Finished" /\ UNCHANGED vars

ScanComment ==
  \/ ScanLineComment \/ OpenComment \/ NestComment \/ UnnestComment
  \/ CloseComment \/ CommentCharacter \/ CommentUnterminated

ScanString ==
  \/ OpenString \/ CloseString \/ StringEscape \/ StringEscapeRefused
  \/ StringEscapeCutOff \/ StringCharacter \/ StringUnterminated

ScanWord ==
  \/ ScanAnnotation \/ ScanNumber \/ ScanBadNumber \/ ScanKeyword \/ ScanIdentifier

ScanCharacterLiteral ==
  \/ ScanCharacter \/ CharacterUnterminated \/ CharacterEscapeRefused \/ CharacterCutOff

Next ==
  \/ ScanWhitespace \/ ScanComment \/ ScanDirective \/ ScanString \/ ScanCharacterLiteral
  \/ ScanWord \/ ScanOperator \/ ScanDelimiter \/ ScanUnknown
  \/ Finish \/ Finished

Spec == Init /\ [][Next]_vars

(* Tokenize is called once and waits for nobody. *)
FairSpec == Spec /\ WF_vars(Next)

-----------------------------------------------------------------------------
(* Properties. *)

TokenRecord ==
  [type : TokenTypes, start : 0..Size, end : 0..Size, valid : BOOLEAN]

(* Every variable has its type: offsets stay inside the text, also after an *)
(* escape at its end.                                                       *)
TypeOK ==
  /\ text \in Texts /\ options \in Options
  /\ position \in 0..Size
  /\ state \in {"Normal", "InsideString", "InsideComment", "Stopped", "Finished"}
  /\ open \in [start : 0..Size, depth : Nat, failed : BOOLEAN]
  /\ pending \in Seq(TokenRecord) /\ tokens \in Seq(TokenRecord)
  /\ had_errors \in BOOLEAN /\ reported \in Nat

(* Tokens do not overlap and come in the order of the text, but for the     *)
(* Error tokens of refused escapes, which come before the string they are   *)
(* inside of (PushErrorToken in ScanEscape, then the literal).              *)
TokensInOrder ==
  \A j \in 1..Len(tokens) : \A i \in 1..(j - 1) :
    LET earlier == tokens[i]
        later == tokens[j]
    IN  \/ earlier.end <= later.start
        \/ /\ earlier.type = "Error" /\ ~ later.valid
           /\ Char(later.start) = "\""
           /\ later.start < earlier.start /\ earlier.end <= later.end

(* Lexing consumes every character once and keeps it: with trivia included, *)
(* a character that was passed is in a token, except the quote of a         *)
(* character literal whose escape was refused, and its backslash if that    *)
(* ends the text.  Unless told to stop at errors, Tokenize reads to the     *)
(* end, and its last token, and no other, is EndOfFile.                     *)
NothingLost ==
  /\ options.include_trivia /\ state \in {"Normal", "Stopped", "Finished"} =>
       \A offset \in 0..(position - 1) :
         \/ \E i \in 1..Len(tokens) : tokens[i].start <= offset /\ offset < tokens[i].end
         \/ Char(offset) = "'" /\ Char(offset + 1) = "\\"
         \/ offset + 1 = Size /\ Size > 1 /\ Slice(Size - 2, Size) = <<"'", "\\">>
  /\ state = "Finished" /\ options.continue_after_errors => position = Size
  /\ \A i \in 1..Len(tokens) :
       tokens[i].type = "EndOfFile" <=> state = "Finished" /\ i = Len(tokens)

(* An error that was marked was reported, and has its Error token; only a   *)
(* character literal cut off behind its backslash fails in silence.  A      *)
(* string is marked invalid exactly if an escape inside it was refused.     *)
FailuresTold ==
  /\ reported = Cardinality({i \in 1..Len(tokens \o pending) : (tokens \o pending)[i].type = "Error"})
  /\ reported > 0 => had_errors
  /\ had_errors => reported > 0 \/ (Size > 1 /\ Slice(Size - 2, Size) = <<"'", "\\">>)
  /\ \A i \in 1..Len(tokens) : tokens[i].type = "String" =>
       (~ tokens[i].valid <=> \E j \in 1..(i - 1) :
                                tokens[j].type = "Error" /\ tokens[j].start > tokens[i].start)

(* Where an Error token of one character is a scanner's Error result: a     *)
(* quote that opens nothing, or a digit with a letter behind it.  Any other *)
(* is of a character that no scanner knows.                                 *)
LoneErrorStarts == Digits \union {"\"", "'"}

(* With continue_after_errors off nothing is scanned behind a scanner's     *)
(* Error result, the string a refused escape is inside of being one scan;   *)
(* only a character that no scanner knows does not stop the lexer, because  *)
(* UnknownScanner answers TokenProduced.                                    *)
StopsAtError ==
  ~ options.continue_after_errors =>
    \A j \in 1..Len(tokens) : \A i \in 1..(j - 1) :
      /\ tokens[i].type = "Error"
      /\ tokens[i].end > tokens[i].start + 1 \/ Char(tokens[i].start) \in LoneErrorStarts
      /\ \A k \in j..Len(tokens) : tokens[k].start > tokens[i].start
      => tokens[j].type = "EndOfFile"

(* A word is never cut in two: behind a keyword, an identifier, an          *)
(* annotation or a decimal number comes no character that could continue    *)
(* it, and a reserved word is never an identifier, nor the reverse.         *)
WordsWhole ==
  \A i \in 1..Len(tokens) :
    LET token == tokens[i]
        reserved == Slice(token.start, token.end) \in KeywordTexts
    IN  /\ token.type \in {"Keyword", "Identifier", "Annotation"} =>
             Char(token.end) \notin IdentifierContinue
        /\ token.type \in {"Integer", "Float"} /\ ~ HasPrefix(token.start) =>
             Char(token.end) \notin IdentifierContinue
        /\ token.type = "Keyword" => reserved
        /\ token.type = "Identifier" => ~ reserved

(* Operators are matched longest first: no longer operator starts where one *)
(* was found, => among them.                                                *)
OperatorsLongest ==
  \A i \in 1..Len(tokens) : tokens[i].type \in {"Operator", "Punctuation"} =>
    \A op \in Operators \union {<<"=", ">">>} :
      LET end == tokens[i].start + Len(op)
      IN  end <= Size /\ Slice(tokens[i].start, end) = op => end <= tokens[i].end

(* Both: no token stops short of what it could have been.                   *)
TokensMaximal == WordsWhole /\ OperatorsLongest

(* An odd number of backslashes, counted back no further than from, is      *)
(* before the offset.                                                       *)
Escaped(offset, from) ==
  LET first == CHOOSE o \in from..offset :
                 /\ \A b \in o..(offset - 1) : Char(b) = "\\"
                 /\ o = from \/ Char(o - 1) # "\\"
  IN  (offset - first) % 2 = 1

(* A string ends at its first quote that is not escaped, and at a newline   *)
(* that is not escaped it has already failed.                               *)
StringsEndAtQuote ==
  \A i \in 1..Len(tokens) :
    LET token == tokens[i]
        body == token.start + 1
        last == IF token.type = "String" THEN token.end - 1 ELSE token.end
    IN  Char(token.start) = "\"" /\ token.type \in {"String", "Error"} =>
          /\ \A o \in body..(last - 1) : Char(o) \in {"\"", Newline} => Escaped(o, body)
          /\ token.type = "String" => Char(last) = "\"" /\ ~ Escaped(last, body)

(* How many comment openings, less closings, are between two offsets, each  *)
(* a pair of characters of its own, taken from the left.                    *)
Depth(from, to) ==
  LET paired[o \in from..to] ==
        /\ <<Char(o), Char(o + 1)>> \in {<<"/", "*">>, <<"*", "/">>}
        /\ o + 2 <= to
        /\ o = from \/ ~ paired[o - 1]
      Marks(c) == {o \in from..to : paired[o] /\ Char(o) = c}
  IN  Cardinality(Marks("/")) - Cardinality(Marks("*"))

(* A block comment ends where as many comments were closed as were opened,  *)
(* not before, and an unterminated one was open all the way to the end.     *)
CommentsBalanced ==
  \A i \in 1..Len(tokens) :
    LET token == tokens[i]
    IN  /\ token.type \in {"Comment", "Error"}
        /\ <<Char(token.start), Char(token.start + 1)>> = <<"/", "*">>
        => /\ \A o \in (token.start + 2)..(token.end - 1) : Depth(token.start, o) > 0
           /\ IF token.type = "Comment"
              THEN Depth(token.start, token.end) = 0
              ELSE token.end = Size /\ Depth(token.start, Size) > 0

(* Both: what is opened is closed where the language says.                  *)
DelimitersMatched == StringsEndAtQuote /\ CommentsBalanced

(* Lines and columns agree with the text: the line is one more than the     *)
(* newlines before the offset, start of line and column lead back to the    *)
(* offset, and the column points at the offset's character in the line as   *)
(* it is shown, unless that is the line's ending.                           *)
LinesAgree ==
  \A offset \in 0..Size :
    LET place == GetLineAndColumn(text, offset)
        shown == GetLine(text, place.line)
    IN  /\ place.line = 1 + Cardinality({o \in 0..(offset - 1) : Char(o) = Newline})
        /\ GetLineStartOffset(text, place.line) + place.column - 1 = offset
        /\ offset < GetLineEndOffset(text, place.line) \/ offset = Size
        /\ IF place.column <= Len(shown)
           THEN shown[place.column] = Char(offset)
           ELSE Char(offset) \in {Newline, CarriageReturn, Eof}

(* Tokenize ends, whatever the text: every turn of its loops moves on.      *)
LexerFinishes == <>(state = "Finished")

(* lexer/README.md, Error recovery: each recoverable situation "produces a  *)
(* TokenType::Error token with TokenFlags::Recoverable and a diagnostic"     *)
EveryErrorReported == had_errors => reported > 0
=============================================================================
