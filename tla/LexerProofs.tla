----------------------------- MODULE LexerProofs -----------------------------
(***************************************************************************)
(* Theorems of Lexer, for every set of texts, options and reserved words:  *)
(* offsets stay inside the text, tokens come in its order, nothing is lost *)
(* on the way, failures are told and stop the lexer when they are to.      *)
(* No token stops short of what it could have been, strings and comments   *)
(* end where the language says, and lines and columns agree with the text. *)
(***************************************************************************)
EXTENDS Lexer, FiniteSetTheorems, WellFoundedInduction, TLAPS

-----------------------------------------------------------------------------
(* What the operators on offsets give back. *)

(* Every nonempty set of natural numbers has a least element. *)
LEMMA LeastOffset ==
  ASSUME NEW S \in SUBSET Nat, S # {}
  PROVE  \E x \in S : \A y \in S : x <= y
<1>1. IsWellFoundedOn(OpToRel(<, Nat), Nat)
  BY NatLessThanWellFounded
<1>2. PICK x \in S : \A y \in S : ~ (<<y, x>> \in OpToRel(<, Nat))
  BY <1>1, WFMin, Zenon
<1>3. \A y \in S : ~ (y < x)
  BY <1>2 DEF OpToRel
<1>4. QED
  BY <1>3

(* Peek gives a character of the text before its end, and Eof from there on. *)
LEMMA Peeked ==
  ASSUME text \in Texts
  PROVE  /\ Size \in Nat
         /\ \A o \in Nat : o < Size => Char(o) \in Alphabet /\ Char(o) # Eof
         /\ \A o \in Nat : o >= Size => Char(o) = Eof
<1>1. text \in Seq(Alphabet)
  BY TextsAssumption
<1>2. Size \in Nat
  BY <1>1 DEF Size
<1>3. ASSUME NEW o \in Nat, o < Size
      PROVE  Char(o) \in Alphabet /\ Char(o) # Eof
  <2>1. o + 1 \in 1..Len(text)
    BY <1>2, <1>3 DEF Size
  <2>2. text[o + 1] \in Alphabet
    BY <1>1, <2>1
  <2>3. QED
    BY <1>3, <2>2, EofAssumption DEF Char
<1>4. \A o \in Nat : o >= Size => Char(o) = Eof
  BY <1>2 DEF Char
<1>5. QED
  BY <1>2, <1>3, <1>4

(* A character that is not Eof is inside the text, so the offset behind it *)
(* is no further than its end.                                             *)
LEMMA Inside ==
  ASSUME text \in Texts, NEW o \in Nat, Char(o) # Eof
  PROVE  o \in 0..Size /\ o + 1 \in 0..Size /\ o < Size
<1>1. o < Size
  BY Peeked
<1>2. QED
  BY <1>1, Peeked

(* The sets of characters that loops run over do not hold Eof. *)
LEMMA NotEof ==
  /\ Eof \notin Digits /\ Eof \notin OctDigits /\ Eof \notin HexDigits /\ Eof \notin {"0", "1"}
  /\ Eof \notin Alphabet \ {Newline}
  /\ Eof \notin IdentifierStart /\ Eof \notin IdentifierContinue
  /\ Eof \notin Blanks /\ Eof \notin {Newline}
<1>1. /\ Eof \notin Digits /\ Eof \notin OctDigits /\ Eof \notin HexDigits
      /\ Eof \notin {"0", "1"}
  BY DEF Eof, Digits, OctDigits, HexDigits
<1>2. Eof \notin Letters
  BY DEF Eof, Letters
<1>3. Eof \notin IdentifierStart
  BY <1>2, NonAsciiAssumption DEF IdentifierStart, Eof
<1>4. Eof \notin Blanks /\ Eof \notin {Newline}
  BY DEF Blanks, Eof, Newline, CarriageReturn
<1>5. QED
  BY <1>1, <1>3, <1>4, EofAssumption DEF IdentifierContinue

(* A run of characters ends inside the text, at the first one that is not *)
(* of the set.                                                            *)
LEMMA RunEnds ==
  ASSUME text \in Texts, NEW S, Eof \notin S, NEW offset \in 0..Size
  PROVE  /\ RunEnd(S, offset) \in offset..Size
         /\ \A o \in offset..(RunEnd(S, offset) - 1) : Char(o) \in S
         /\ Char(RunEnd(S, offset)) \notin S
<1> DEFINE after == {o \in offset..Size : Char(o) \notin S}
<1>1. Size \in Nat /\ Char(Size) = Eof
  BY Peeked
<1>2. after \in SUBSET Nat /\ Size \in after
  BY <1>1
<1>3. PICK first \in after : \A o \in after : first <= o
  BY <1>2, LeastOffset
<1>4. /\ first \in offset..Size
      /\ \A o \in offset..(first - 1) : Char(o) \in S
      /\ Char(first) \notin S
  BY <1>1, <1>3
<1>5. QED
  BY <1>4, Zenon DEF RunEnd

(* The end of a fraction, as that of the digits before it, is in the text *)
(* and no digit stands there.                                             *)
LEMMA FractionEnds ==
  ASSUME text \in Texts, NEW offset \in 0..Size
  PROVE  FractionEnd(offset) \in offset..Size /\ Char(FractionEnd(offset)) \notin Digits
<1> DEFINE whole == RunEnd(Digits, offset)
<1>1. whole \in offset..Size /\ Char(whole) \notin Digits
  BY RunEnds, NotEof
<1>2. Size \in Nat
  BY Peeked
<1>3. FractionEnd(offset) =
        IF Char(whole) = "." /\ Char(whole + 1) \in Digits THEN RunEnd(Digits, whole + 1)
                                                           ELSE whole
  BY DEF FractionEnd
<1> HIDE DEF whole
<1>4. CASE Char(whole) = "." /\ Char(whole + 1) \in Digits
  <2>1. whole + 1 \in 0..Size
    <3>1. Char(whole) # Eof
      BY <1>4 DEF Eof
    <3>2. QED
      BY <1>1, <1>2, <3>1, Inside
  <2>2. /\ RunEnd(Digits, whole + 1) \in (whole + 1)..Size
        /\ Char(RunEnd(Digits, whole + 1)) \notin Digits
    BY <2>1, RunEnds, NotEof
  <2>3. QED
    BY <1>1, <1>2, <1>3, <1>4, <2>2
<1>5. CASE ~ (Char(whole) = "." /\ Char(whole + 1) \in Digits)
  BY <1>1, <1>3, <1>5
<1>6. QED
  BY <1>4, <1>5

(* The digits of an exponent start inside the text or at its end. *)
LEMMA ExponentStarts ==
  ASSUME text \in Texts, NEW offset \in 0..Size, HasExponent(offset)
  PROVE  ExponentDigits(offset) \in (offset + 1)..Size
<1>1. Char(offset) # Eof
  BY DEF HasExponent, Eof
<1>2. Size \in Nat /\ offset + 1 \in 0..Size
  BY <1>1, Peeked, Inside
<1>3. CASE Char(offset + 1) \in {"+", "-"}
  <2>1. Char(offset + 1) # Eof
    BY <1>3 DEF Eof
  <2>2. offset + 2 \in 0..Size
    BY <1>2, <2>1, Inside
  <2>3. QED
    BY <1>2, <1>3, <2>2 DEF ExponentDigits
<1>4. CASE Char(offset + 1) \notin {"+", "-"}
  BY <1>2, <1>4 DEF ExponentDigits
<1>5. QED
  BY <1>3, <1>4

(* A number ends inside the text, and unless it has a prefix not before a *)
(* digit.                                                                 *)
LEMMA NumberEnds ==
  ASSUME text \in Texts, NEW offset \in 0..Size
  PROVE  /\ NumberEnd(offset) \in offset..Size
         /\ ~ HasPrefix(offset) => Char(NumberEnd(offset)) \notin Digits
<1> DEFINE fraction == FractionEnd(offset)
<1>1. Size \in Nat
  BY Peeked
<1>2. fraction \in offset..Size /\ Char(fraction) \notin Digits
  BY FractionEnds
<1>3. NumberEnd(offset) =
        CASE HasPrefix(offset) -> RunEnd(PrefixDigits(offset), offset + 2)
          [] ~ HasPrefix(offset) /\ HasExponent(fraction) ->
               RunEnd(Digits, ExponentDigits(fraction))
          [] OTHER -> fraction
  BY Zenon DEF NumberEnd
<1> HIDE DEF fraction
<1>4. CASE HasPrefix(offset)
  <2>1. Char(offset + 1) # Eof
    BY <1>4 DEF HasPrefix, Eof
  <2>2. offset + 2 \in 0..Size
    BY <1>1, <2>1, Inside
  <2>3. Eof \notin PrefixDigits(offset)
    BY NotEof DEF PrefixDigits
  <2>4. RunEnd(PrefixDigits(offset), offset + 2) \in (offset + 2)..Size
    BY <2>2, <2>3, RunEnds
  <2>5. NumberEnd(offset) = RunEnd(PrefixDigits(offset), offset + 2)
    BY <1>3, <1>4
  <2>6. QED
    BY <1>1, <1>4, <2>4, <2>5
<1>5. CASE ~ HasPrefix(offset) /\ HasExponent(fraction)
  <2>1. ExponentDigits(fraction) \in (fraction + 1)..Size
    BY <1>1, <1>2, <1>5, ExponentStarts
  <2>2. ExponentDigits(fraction) \in 0..Size
    BY <1>1, <1>2, <2>1
  <2>3. /\ RunEnd(Digits, ExponentDigits(fraction)) \in ExponentDigits(fraction)..Size
        /\ Char(RunEnd(Digits, ExponentDigits(fraction))) \notin Digits
    BY <2>2, RunEnds, NotEof
  <2>4. NumberEnd(offset) = RunEnd(Digits, ExponentDigits(fraction))
    BY <1>3, <1>5
  <2>5. QED
    BY <1>1, <1>2, <2>1, <2>3, <2>4
<1>6. CASE ~ HasPrefix(offset) /\ ~ HasExponent(fraction)
  <2>1. NumberEnd(offset) = fraction
    BY <1>3, <1>6
  <2>2. QED
    BY <1>1, <1>2, <2>1
<1>7. QED
  BY <1>4, <1>5, <1>6

(* An escape ends inside the text, behind its first character if it has one. *)
LEMMA EscapeEnds ==
  ASSUME text \in Texts, NEW offset \in 0..Size
  PROVE  /\ EscapeEnd(offset) \in offset..Size
         /\ offset < Size => EscapeEnd(offset) > offset
<1>1. Size \in Nat
  BY Peeked
<1>2. CASE offset = Size
  <2>1. Char(offset) = Eof
    BY <1>1, <1>2, Peeked
  <2>2. ~ HexEscape(offset)
    BY <2>1 DEF HexEscape, Eof
  <2>3. EscapeEnd(offset) = Size
    BY <1>2, <2>2 DEF EscapeEnd
  <2>4. QED
    BY <1>1, <1>2, <2>3
<1>3. CASE offset < Size /\ HexEscape(offset)
  <2>1. Char(offset + 1) # Eof
    BY <1>3, NotEof DEF HexEscape
  <2>2. offset + 2 \in 0..Size
    BY <1>1, <2>1, Inside
  <2>3. Char(offset + 2) \in HexDigits => offset + 3 \in 0..Size
    BY <1>1, <2>2, Inside, NotEof
  <2>4. EscapeEnd(offset) = IF Char(offset + 2) \in HexDigits THEN offset + 3 ELSE offset + 2
    BY <1>1, <1>3 DEF EscapeEnd
  <2>5. QED
    BY <1>1, <2>2, <2>3, <2>4
<1>4. CASE offset < Size /\ ~ HexEscape(offset)
  <2>1. EscapeEnd(offset) = offset + 1
    BY <1>1, <1>4 DEF EscapeEnd
  <2>2. QED
    BY <1>1, <1>4, <2>1
<1>5. QED
  BY <1>1, <1>2, <1>3, <1>4

(* Where an operator starts the longest one is picked, and it fits. *)
LEMMA OperatorFits ==
  ASSUME text \in Texts, NEW offset \in 0..Size, OperatorLengths(offset) # {}
  PROVE  /\ OperatorLength(offset) \in 1..4
         /\ offset + OperatorLength(offset) \in 0..Size
         /\ \A n \in OperatorLengths(offset) :
              n <= OperatorLength(offset) \/ (Char(offset) = "=" /\ Char(offset + 1) = ">")
<1>1. Size \in Nat
  BY Peeked
<1>2. CASE Char(offset) = "=" /\ Char(offset + 1) = ">"
  <2>1. Char(offset + 1) # Eof
    BY <1>2 DEF Eof
  <2>2. offset + 2 \in 0..Size
    BY <1>1, <2>1, Inside
  <2>3. OperatorLength(offset) = 2
    BY <1>2 DEF OperatorLength
  <2>4. QED
    BY <1>2, <2>2, <2>3
<1>3. CASE ~ (Char(offset) = "=" /\ Char(offset + 1) = ">")
  <2> DEFINE fitting == OperatorLengths(offset)
  <2>1. fitting \subseteq 1..4 /\ fitting # {} /\ \A n \in fitting : offset + n <= Size
    BY DEF OperatorLengths
  <2>2. OperatorLength(offset) = CHOOSE n \in fitting : \A m \in fitting : m <= n
    BY <1>3 DEF OperatorLength
  <2> HIDE DEF fitting
  <2>3. \E n \in fitting : \A m \in fitting : m <= n
    <3>1. CASE 4 \in fitting
      BY <2>1, <3>1
    <3>2. CASE 4 \notin fitting /\ 3 \in fitting
      BY <2>1, <3>2
    <3>3. CASE 4 \notin fitting /\ 3 \notin fitting /\ 2 \in fitting
      BY <2>1, <3>3
    <3>4. CASE 4 \notin fitting /\ 3 \notin fitting /\ 2 \notin fitting
      <4>1. \A n \in fitting : n = 1
        BY <2>1, <3>4
      <4>2. PICK n \in fitting : TRUE
        BY <2>1
      <4>3. QED
        BY <4>1, <4>2
    <3>5. QED
      BY <3>1, <3>2, <3>3, <3>4
  <2>4. OperatorLength(offset) \in fitting /\ \A m \in fitting : m <= OperatorLength(offset)
    BY <2>2, <2>3
  <2>5. QED
    BY <1>1, <2>1, <2>4 DEF fitting
<1>4. QED
  BY <1>2, <1>3

-----------------------------------------------------------------------------
(* The invariant. *)

Reading == state \in {"InsideString", "InsideComment"}

(* Where the scan in progress began, or the next one is going to. *)
Frontier == IF Reading THEN open.start ELSE position

(* What the locals of a scan in progress and the pending tokens say of each *)
(* other: a string has failed if an escape of it was refused, and otherwise *)
(* only where the text ends.                                                *)
ScanInv ==
  /\ ~ Reading => open = NoScan /\ pending = <<>>
  /\ state = "InsideComment" =>
       /\ ~ open.failed /\ pending = <<>> /\ open.depth > 0
       /\ open.start + 2 <= position
       /\ Char(open.start) = "/" /\ Char(open.start + 1) = "*"
  /\ state = "InsideString" =>
       /\ open.start < position /\ Char(open.start) = "\""
       /\ pending # <<>> => open.failed
       /\ open.failed => pending # <<>> \/ position = Size
  /\ state = "Stopped" => ~ options.continue_after_errors

(* Every token was finished before the scan in progress began. *)
TokensBehind ==
  \A i \in 1..Len(tokens) : tokens[i].start <= tokens[i].end /\ tokens[i].end <= Frontier

(* Pending tokens are refused escapes of the scan in progress, in order. *)
PendingInside ==
  \A j \in 1..Len(pending) :
    /\ pending[j].type = "Error"
    /\ open.start < pending[j].start
    /\ pending[j].start <= pending[j].end /\ pending[j].end <= position
    /\ \A i \in 1..(j - 1) : pending[i].end <= pending[j].start

LexInv == TypeOK /\ ScanInv /\ TokensBehind /\ PendingInside

-----------------------------------------------------------------------------
(* The kinds of steps that Next has, as the invariants tell them apart. *)

(* An Error token behind which nothing more is scanned, if told to stop. *)
Stopping(t) ==
  t.type = "Error" /\ (t.end > t.start + 1 \/ Char(t.start) \in LoneErrorStarts)

(* A scanner finishes with the token t. *)
Emits(t) ==
  /\ state = "Normal" \/ Reading
  /\ t \in TokenRecord /\ t.type # "EndOfFile"
  /\ t.start <= t.end /\ position <= t.end
  /\ \/ t.start = Frontier
     \/ /\ ~ Reading /\ t.start = position + 1
        /\ Char(position) = "'" /\ Char(position + 1) = "\\"
  /\ open.failed => ~ t.valid
  /\ t.type = "String" =>
       state = "InsideString" /\ position < Size /\ (t.valid <=> ~ open.failed)
  /\ tokens' = tokens \o pending \o <<t>> /\ pending' = <<>>
  /\ position' = t.end /\ open' = NoScan
  /\ UNCHANGED <<text, options>>
  /\ state' = "Normal" \/ (state' = "Stopped" /\ ~ options.continue_after_errors)
  /\ state' = "Normal" /\ ~ options.continue_after_errors => ~ Stopping(t) /\ ~ open.failed
  /\ IF t.type = "Error" THEN had_errors' = TRUE /\ reported' = reported + 1
                         ELSE UNCHANGED <<had_errors, reported>>

(* A scanner consumes trivia that is not kept. *)
Skips ==
  /\ state \in {"Normal", "InsideComment"}
  /\ ~ options.include_trivia
  /\ position' \in position..Size
  /\ state' = "Normal" /\ open' = NoScan
  /\ UNCHANGED <<text, options, pending, tokens, had_errors, reported>>

(* The scan of a string or of a block comment begins. *)
Opens ==
  /\ state = "Normal"
  /\ \/ /\ state' = "InsideString" /\ position' = position + 1
        /\ Char(position) = "\""
     \/ /\ state' = "InsideComment" /\ position' = position + 2
        /\ Char(position) = "/" /\ Char(position + 1) = "*"
  /\ position' <= Size
  /\ open' = [start |-> position, depth |-> 1, failed |-> FALSE]
  /\ UNCHANGED <<text, options, pending, tokens, had_errors, reported>>

(* One turn of such a scan that has nothing to tell. *)
Turns ==
  /\ Reading
  /\ position' \in position..Size
  /\ open' \in [start : 0..Size, depth : Nat, failed : BOOLEAN]
  /\ open'.start = open.start
  /\ state = "InsideComment" => ~ open'.failed /\ open'.depth > 0
  /\ state = "InsideString" => open'.failed = open.failed \/ (open'.failed /\ position' = Size)
  /\ UNCHANGED <<text, options, state, pending, tokens, had_errors, reported>>

(* One turn that refuses an escape. *)
Refuses(t) ==
  /\ state = "InsideString"
  /\ t \in TokenRecord /\ t.type = "Error"
  /\ t.start = position /\ position < t.end
  /\ position' = t.end
  /\ open' = [open EXCEPT !.failed = TRUE]
  /\ pending' = Append(pending, t)
  /\ had_errors' = TRUE /\ reported' = reported + 1
  /\ UNCHANGED <<text, options, state, tokens>>

(* A character literal ends with the text, behind its backslash. *)
CutsOff ==
  /\ state = "Normal"
  /\ Char(position) = "'" /\ Char(position + 1) = "\\"
  /\ position + 2 = Size /\ position' = Size
  /\ state' = "Normal" \/ (state' = "Stopped" /\ ~ options.continue_after_errors)
  /\ open' = NoScan /\ had_errors' = TRUE
  /\ UNCHANGED <<text, options, pending, tokens, reported>>

(* The end of the text, or of the scanning. *)
Ends ==
  /\ (state = "Normal" /\ position = Size) \/ state = "Stopped"
  /\ state' = "Finished"
  /\ tokens' = Append(tokens, Token("EndOfFile", position, position))
  /\ UNCHANGED <<text, options, position, open, pending, had_errors, reported>>

Stays == UNCHANGED vars

Step ==
  \/ \E t \in TokenRecord : Emits(t)
  \/ Skips \/ Opens \/ Turns
  \/ \E t \in TokenRecord : Refuses(t)
  \/ CutsOff \/ Ends \/ Stays

-----------------------------------------------------------------------------
(* Every step is of one of these kinds. *)

(* What the invariant says before a step. *)
LEMMA Now ==
  ASSUME LexInv
  PROVE  /\ text \in Texts /\ Size \in Nat /\ position \in 0..Size
         /\ options \in Options /\ options.include_trivia \in BOOLEAN
         /\ options.continue_after_errors \in BOOLEAN
         /\ open \in [start : 0..Size, depth : Nat, failed : BOOLEAN]
         /\ open.start \in 0..Size /\ open.start <= position
         /\ Frontier \in 0..Size /\ Frontier <= position
         /\ state = "Normal" => ~ Reading /\ Frontier = position
         /\ Reading => Frontier = open.start
         /\ state # "InsideString" => ~ open.failed /\ pending = <<>>
<1>1. /\ text \in Texts /\ Size \in Nat /\ position \in 0..Size /\ options \in Options
      /\ open \in [start : 0..Size, depth : Nat, failed : BOOLEAN]
  BY Peeked DEF LexInv, TypeOK
<1>2. options.include_trivia \in BOOLEAN /\ options.continue_after_errors \in BOOLEAN
  BY <1>1, OptionsAssumption DEF LexerOptions
<1>3. open.start \in 0..Size
  BY <1>1
<1>4. NoScan.start = 0 /\ ~ NoScan.failed
  BY DEF NoScan
<1>5. open.start <= position
  <2>1. CASE ~ Reading
    <3>1. open = NoScan
      BY <2>1 DEF LexInv, ScanInv
    <3>2. QED
      BY <1>1, <1>4, <3>1
  <2>2. CASE state = "InsideComment"
    <3>1. open.start + 2 <= position
      BY <2>2 DEF LexInv, ScanInv
    <3>2. QED
      BY <1>1, <1>3, <3>1
  <2>3. CASE state = "InsideString"
    <3>1. open.start < position
      BY <2>3 DEF LexInv, ScanInv
    <3>2. QED
      BY <1>1, <1>3, <3>1
  <2>4. QED
    BY <2>1, <2>2, <2>3 DEF Reading
<1>6. state # "InsideString" => ~ open.failed /\ pending = <<>>
  BY <1>4 DEF LexInv, ScanInv, Reading
<1>7. QED
  BY <1>1, <1>2, <1>3, <1>5, <1>6 DEF Frontier, Reading

(* Tokens are records of their type. *)
LEMMA TokenIs ==
  ASSUME NEW type \in TokenTypes, NEW from \in 0..Size, NEW to \in 0..Size
  PROVE  /\ Token(type, from, to) \in TokenRecord
         /\ Token(type, from, to).type = type
         /\ Token(type, from, to).start = from /\ Token(type, from, to).end = to
         /\ Token(type, from, to).valid <=> type # "Error"
  BY DEF Token, TokenRecord

(* TokenProduced is a step that emits, outside strings and for all types *)
(* but the two that have a say elsewhere.                                *)
LEMMA ProduceEmits ==
  ASSUME LexInv, state \in {"Normal", "InsideComment"},
         NEW type \in TokenTypes \ {"Error", "EndOfFile", "String"}, NEW to \in position..Size,
         Produce(type, Frontier, to)
  PROVE  \E t \in TokenRecord : Emits(t)
<1> DEFINE t == Token(type, Frontier, to)
<1>1. /\ t \in TokenRecord /\ t.type = type
      /\ t.start = Frontier /\ t.end = to
  BY Now, TokenIs
<1>2. /\ tokens' = tokens \o pending \o <<t>> /\ pending' = <<>>
      /\ position' = to /\ state' = "Normal" /\ open' = NoScan
      /\ UNCHANGED <<text, options, had_errors, reported>>
  BY DEF Produce, Flush, ReturnTo
<1> HIDE DEF t
<1>3. ~ open.failed /\ ~ Stopping(t)
  BY <1>1, Now DEF Stopping
<1>4. Emits(t)
  BY <1>1, <1>2, <1>3, Now DEF Emits, Reading
<1>5. QED
  BY <1>1, <1>4

(* Trivia is emitted or skipped. *)
LEMMA TriviaSteps ==
  ASSUME LexInv, state \in {"Normal", "InsideComment"},
         NEW type \in {"Whitespace", "Newline", "Comment"}, NEW to \in position..Size,
         ProduceTrivia(type, Frontier, to)
  PROVE  Step
<1>1. type \in TokenTypes \ {"Error", "EndOfFile", "String"}
  BY DEF TokenTypes
<1>2. CASE options.include_trivia
  <2>1. Produce(type, Frontier, to)
    BY <1>2 DEF ProduceTrivia
  <2>2. QED
    BY <1>1, <2>1, ProduceEmits, Zenon DEF Step
<1>3. CASE ~ options.include_trivia
  BY <1>3 DEF ProduceTrivia, ReturnTo, Skips, Step
<1>4. QED
  BY <1>2, <1>3

(* Where an Error token may start: with the scan, or behind the quote of a *)
(* character literal whose escape is refused.                             *)
MayStart(from) ==
  \/ from = Frontier
  \/ /\ ~ Reading /\ from = position + 1
     /\ Char(position) = "'" /\ Char(position + 1) = "\\"

(* What an Error token may lead to: to an Error result, or to the next scan *)
(* behind a character that no scanner knows.                                *)
MayLead(from, to, next) ==
  \/ next = AfterError
  \/ next = "Normal" /\ ~ Reading /\ to = from + 1 /\ Char(from) \notin LoneErrorStarts

(* PushErrorToken is a step that emits. *)
LEMMA FailEmits ==
  ASSUME LexInv, state = "Normal" \/ Reading, NEW from \in 0..Size, NEW to \in position..Size,
         NEW next, FailTo(from, to, next),
         from <= to, MayStart(from), MayLead(from, to, next)
  PROVE  \E t \in TokenRecord : Emits(t)
<1> DEFINE t == Token("Error", from, to)
<1>0. "Error" \in TokenTypes /\ Size \in Nat /\ to \in 0..Size
  <2>1. Size \in Nat /\ position \in 0..Size
    BY Now
  <2>2. QED
    BY <2>1 DEF TokenTypes
<1>1. /\ t \in TokenRecord /\ t.type = "Error"
      /\ t.start = from /\ t.end = to /\ ~ t.valid
  BY <1>0, TokenIs
<1>2. /\ tokens' = tokens \o pending \o <<t>> /\ pending' = <<>>
      /\ position' = to /\ state' = next /\ open' = NoScan
      /\ UNCHANGED <<text, options>>
      /\ had_errors' = TRUE /\ reported' = reported + 1
  BY DEF FailTo, Flush, ReturnTo
<1> HIDE DEF t
<1>3. /\ next = "Normal" \/ (next = "Stopped" /\ ~ options.continue_after_errors)
      /\ next = "Normal" /\ ~ options.continue_after_errors => ~ Stopping(t) /\ ~ open.failed
  <2>1. CASE next = AfterError
    BY <2>1, Now DEF AfterError
  <2>2. CASE next = "Normal" /\ ~ Reading /\ to = from + 1 /\ Char(from) \notin LoneErrorStarts
    <3>1. ~ open.failed
      BY <2>2, Now DEF Reading
    <3>2. ~ Stopping(t)
      <4>1. Char(t.start) \notin LoneErrorStarts
        BY <2>2, <1>1
      <4>2. t.end = t.start + 1 /\ t.start \in 0..Size
        BY <2>2, <1>1
      <4>3. ~ (t.end > t.start + 1)
        BY <4>2, <1>0
      <4>4. QED
        BY <4>1, <4>3 DEF Stopping
    <3>3. QED
      BY <2>2, <3>1, <3>2
  <2>3. QED
    BY <2>1, <2>2 DEF MayLead
<1>4. position <= t.end /\ t.start <= t.end
  BY <1>0, <1>1
<1>5. t.type # "EndOfFile" /\ t.type # "String"
  BY <1>1
<1>6. Emits(t)
  BY <1>1, <1>2, <1>3, <1>4, <1>5 DEF Emits, MayStart
<1>7. QED
  BY <1>1, <1>6

(* What the scanner that handles a character is told about it. *)
LEMMA Handled ==
  ASSUME NEW o
  PROVE  /\ Handles("Whitespace", o) <=> Char(o) \in Blanks \union {Newline}
         /\ Handles("Comment", o) <=> Char(o) = "/" /\ Char(o + 1) \in {"/", "*"}
         /\ Handles("Directive", o) => Char(o) = "#"
         /\ Handles("Annotation", o) => Char(o) = "@" /\ Char(o + 1) \in IdentifierStart
         /\ Handles("String", o) <=> Char(o) = "\""
         /\ Handles("Character", o) <=> Char(o) = "'"
         /\ Char(o) \in Digits => Handles("Number", o)
         /\ Handles("Keyword", o) <=>
              Char(o) \in IdentifierStart /\ Slice(o, IdentifierEnd(o)) \in KeywordTexts
         /\ Handles("Identifier", o) <=> Char(o) \in IdentifierStart
         /\ Handles("Operator", o) <=> OperatorStarts(o)
  BY DEF Handles

(* A dispatch happens inside the text; the later scanners are only asked if *)
(* the earlier ones declined.                                               *)
LEMMA Dispatched ==
  ASSUME LexInv, NEW scanner, Dispatch(scanner)
  PROVE  /\ state = "Normal" /\ Frontier = position
         /\ position \in 0..Size /\ position < Size /\ position + 1 \in 0..Size
         /\ Size \in Nat /\ text \in Texts
         /\ Handles(scanner, position)
         /\ scanner = "Identifier" => ~ Handles("Keyword", position)
         /\ scanner = "Unknown" =>
              /\ ~ Handles("String", position) /\ ~ Handles("Character", position)
              /\ ~ Handles("Comment", position) /\ ~ Handles("Number", position)
<1>1. state = "Normal" /\ position < Size
  BY DEF Dispatch
<1>2. /\ Frontier = position /\ position \in 0..Size
      /\ Size \in Nat /\ text \in Texts
  BY <1>1, Now
<1>3. PICK k \in 1..Len(Scanners) :
        /\ Scanners[k] = scanner
        /\ Handles(scanner, position)
        /\ \A j \in 1..(k - 1) : ~ Handles(Scanners[j], position)
  BY DEF Dispatch
<1>4. /\ Len(Scanners) = 11
      /\ Scanners[1] = "Whitespace" /\ Scanners[2] = "Comment" /\ Scanners[3] = "Directive"
      /\ Scanners[4] = "Annotation" /\ Scanners[5] = "String" /\ Scanners[6] = "Character"
      /\ Scanners[7] = "Number" /\ Scanners[8] = "Keyword" /\ Scanners[9] = "Identifier"
      /\ Scanners[10] = "Operator" /\ Scanners[11] = "Unknown"
  BY DEF Scanners
<1>5. scanner = "Identifier" => ~ Handles("Keyword", position)
  <2>1. scanner = "Identifier" => k = 9
    BY <1>3, <1>4
  <2>2. QED
    BY <1>3, <1>4, <2>1
<1>6. scanner = "Unknown" =>
        /\ ~ Handles("String", position) /\ ~ Handles("Character", position)
        /\ ~ Handles("Comment", position) /\ ~ Handles("Number", position)
  <2>1. scanner = "Unknown" => k = 11
    BY <1>3, <1>4
  <2>2. QED
    BY <1>3, <1>4, <2>1
<1>7. QED
  BY <1>1, <1>2, <1>3, <1>5, <1>6

(* Runs of blanks, of newlines and the rest of the line are ahead. *)
LEMMA WhitespaceSteps == ASSUME LexInv, ScanWhitespace PROVE Step
<1>1. Dispatch("Whitespace")
  BY DEF ScanWhitespace
<1>2. /\ RunEnd({Newline}, position) \in position..Size
      /\ RunEnd(Blanks, position) \in position..Size
      /\ Frontier = position /\ state = "Normal"
  BY <1>1, Dispatched, RunEnds, NotEof
<1>3. CASE Char(position) = Newline
  <2>1. ProduceTrivia("Newline", Frontier, RunEnd({Newline}, position))
    BY <1>2, <1>3 DEF ScanWhitespace
  <2>2. QED
    BY <1>2, <2>1, TriviaSteps
<1>4. CASE Char(position) # Newline
  <2>1. ProduceTrivia("Whitespace", Frontier, RunEnd(Blanks, position))
    BY <1>2, <1>4 DEF ScanWhitespace
  <2>2. QED
    BY <1>2, <2>1, TriviaSteps
<1>5. QED
  BY <1>3, <1>4

(* A line comment reaches to the end of its line. *)
LEMMA LineCommentSteps == ASSUME LexInv, ScanLineComment PROVE Step
<1>1. Dispatch("Comment") /\ Char(position + 1) # Eof
  BY DEF ScanLineComment, Eof
<1>2. /\ position \in 0..Size /\ position + 1 \in 0..Size /\ Size \in Nat
      /\ Frontier = position /\ state = "Normal" /\ text \in Texts
  BY <1>1, Dispatched
<1>3. position + 2 \in 0..Size
  BY <1>1, <1>2, Inside
<1>4. LineEnd(position + 2) \in (position + 2)..Size
  BY <1>2, <1>3, RunEnds, NotEof DEF LineEnd
<1>5. LineEnd(position + 2) \in position..Size
  BY <1>2, <1>4
<1>6. ProduceTrivia("Comment", Frontier, LineEnd(position + 2))
  BY <1>2 DEF ScanLineComment
<1>7. QED
  BY <1>2, <1>5, <1>6, TriviaSteps

(* So does a directive. *)
LEMMA DirectiveSteps == ASSUME LexInv, ScanDirective PROVE Step
<1>1. Dispatch("Directive")
  BY DEF ScanDirective
<1>2. /\ position \in 0..Size /\ position + 1 \in 0..Size /\ Size \in Nat
      /\ Frontier = position /\ state = "Normal" /\ text \in Texts
  BY <1>1, Dispatched
<1>3. LineEnd(position + 1) \in (position + 1)..Size
  BY <1>2, RunEnds, NotEof DEF LineEnd
<1>4. LineEnd(position + 1) \in position..Size
  BY <1>2, <1>3
<1>5. Produce("Directive", Frontier, LineEnd(position + 1))
  BY <1>2 DEF ScanDirective
<1>6. "Directive" \in TokenTypes \ {"Error", "EndOfFile", "String"}
  BY DEF TokenTypes
<1>7. QED
  BY <1>2, <1>4, <1>5, <1>6, ProduceEmits, Zenon DEF Step

(* Words end where their characters do. *)
LEMMA WordSteps ==
  ASSUME LexInv, ScanAnnotation \/ ScanKeyword \/ ScanIdentifier
  PROVE  Step
<1>1. PICK scanner : Dispatch(scanner)
  BY DEF ScanAnnotation, ScanKeyword, ScanIdentifier
<1>2. /\ position \in 0..Size /\ position + 1 \in 0..Size /\ Size \in Nat
      /\ Frontier = position /\ state = "Normal" /\ text \in Texts
  BY <1>1, Dispatched
<1>3. /\ IdentifierEnd(position) \in position..Size
      /\ IdentifierEnd(position + 1) \in (position + 1)..Size
  BY <1>2, RunEnds, NotEof DEF IdentifierEnd
<1>4. IdentifierEnd(position + 1) \in position..Size
  BY <1>2, <1>3
<1>5. \E type \in {"Annotation", "Keyword", "Identifier"} : \E to \in position..Size :
        Produce(type, Frontier, to)
  BY <1>2, <1>3, <1>4 DEF ScanAnnotation, ScanKeyword, ScanIdentifier
<1>6. {"Annotation", "Keyword", "Identifier"} \subseteq
        TokenTypes \ {"Error", "EndOfFile", "String"}
  BY DEF TokenTypes
<1>7. QED
  BY <1>2, <1>5, <1>6, ProduceEmits, Zenon DEF Step

(* A number ends in the text, whether it is one or not. *)
LEMMA NumberSteps == ASSUME LexInv, ScanNumber \/ ScanBadNumber PROVE Step
<1>1. Dispatch("Number")
  BY DEF ScanNumber, ScanBadNumber
<1>2. /\ position \in 0..Size /\ Size \in Nat
      /\ Frontier = position /\ state = "Normal" /\ text \in Texts
  BY <1>1, Dispatched
<1>3. NumberEnd(position) \in position..Size
  BY <1>2, NumberEnds
<1>4. CASE ScanNumber
  <2>1. NumberType(position) \in {"Float", "Integer"}
    BY DEF NumberType
  <2>2. NumberType(position) \in TokenTypes \ {"Error", "EndOfFile", "String"}
    BY <2>1 DEF TokenTypes
  <2>3. Produce(NumberType(position), Frontier, NumberEnd(position))
    BY <1>2, <1>4 DEF ScanNumber
  <2>4. QED
    BY <1>2, <1>3, <2>2, <2>3, ProduceEmits, Zenon DEF Step
<1>5. CASE ScanBadNumber
  <2>1. FailTo(position, NumberEnd(position), AfterError)
    BY <1>5 DEF ScanBadNumber, Fail
  <2>2. MayStart(position) /\ MayLead(position, NumberEnd(position), AfterError)
    BY <1>2 DEF MayStart, MayLead
  <2>3. position <= NumberEnd(position)
    BY <1>2, <1>3
  <2>4. QED
    BY <1>2, <1>3, <2>1, <2>2, <2>3, FailEmits, Zenon DEF Step
<1>6. QED
  BY <1>4, <1>5

(* An operator fits into what is left of the text. *)
LEMMA OperatorSteps == ASSUME LexInv, ScanOperator \/ ScanDelimiter PROVE Step
<1>1. Dispatch("Operator")
  BY DEF ScanOperator, ScanDelimiter
<1>2. /\ position \in 0..Size /\ position + 1 \in 0..Size /\ Size \in Nat
      /\ Frontier = position /\ state = "Normal" /\ text \in Texts
  BY <1>1, Dispatched
<1>3. CASE ScanOperator
  <2>1. OperatorLengths(position) # {}
    BY <1>3 DEF ScanOperator
  <2>2. /\ OperatorLength(position) \in 1..4
        /\ position + OperatorLength(position) \in 0..Size
    BY <1>2, <2>1, OperatorFits
  <2>3. position + OperatorLength(position) \in position..Size
    BY <1>2, <2>2
  <2>4. Produce("Operator", Frontier, position + OperatorLength(position))
    BY <1>2, <1>3 DEF ScanOperator
  <2>5. "Operator" \in TokenTypes \ {"Error", "EndOfFile", "String"}
    BY DEF TokenTypes
  <2>6. QED
    BY <1>2, <2>3, <2>4, <2>5, ProduceEmits, Zenon DEF Step
<1>4. CASE ScanDelimiter
  <2>1. position + 1 \in position..Size
    BY <1>2
  <2>2. \E type \in {"Delimiter", "Punctuation"} : Produce(type, Frontier, position + 1)
    BY <1>2, <1>4 DEF ScanDelimiter
  <2>3. {"Delimiter", "Punctuation"} \subseteq TokenTypes \ {"Error", "EndOfFile", "String"}
    BY DEF TokenTypes
  <2>4. QED
    BY <1>2, <2>1, <2>2, <2>3, ProduceEmits, Zenon DEF Step
<1>5. QED
  BY <1>3, <1>4

(* A character that no scanner knows is an Error token of its own. *)
LEMMA UnknownSteps == ASSUME LexInv, ScanUnknown PROVE Step
<1>1. Dispatch("Unknown")
  BY DEF ScanUnknown
<1>2. /\ position \in 0..Size /\ position + 1 \in 0..Size /\ Size \in Nat
      /\ Frontier = position /\ state = "Normal"
      /\ ~ Handles("String", position) /\ ~ Handles("Character", position)
      /\ ~ Handles("Number", position)
  BY <1>1, Dispatched
<1>3. Char(position) \notin LoneErrorStarts
  BY <1>2, Handled DEF LoneErrorStarts
<1>4. FailTo(position, position + 1, "Normal")
  BY DEF ScanUnknown
<1>5. MayStart(position) /\ MayLead(position, position + 1, "Normal")
  BY <1>2, <1>3 DEF MayStart, MayLead, Reading
<1>6. position + 1 \in position..Size /\ position <= position + 1
  BY <1>2
<1>7. QED
  BY <1>2, <1>4, <1>5, <1>6, FailEmits, Zenon DEF Step

(* What the invariant says inside of a block comment. *)
LEMMA InComment ==
  ASSUME LexInv, state = "InsideComment"
  PROVE  /\ open.start \in 0..Size /\ position \in 0..Size /\ Size \in Nat /\ text \in Texts
         /\ open \in [start : 0..Size, depth : Nat, failed : BOOLEAN]
         /\ ~ open.failed /\ open.depth > 0 /\ Frontier = open.start /\ open.start <= position
         /\ Reading
  BY Now DEF LexInv, ScanInv, Reading

(* A pair of characters that is there leaves room behind it. *)
LEMMA PairFits ==
  ASSUME text \in Texts, NEW o \in 0..Size, Char(o + 1) # Eof
  PROVE  o + 2 \in o..Size
<1>1. Size \in Nat
  BY Peeked
<1>2. o + 1 \in Nat /\ o + 2 = (o + 1) + 1
  BY <1>1
<1>3. o + 2 \in 0..Size
  BY <1>2, Inside
<1>4. QED
  BY <1>1, <1>3

(* A block comment opens, nests, and goes on a character at a time. *)
LEMMA CommentTurns ==
  ASSUME LexInv, OpenComment \/ NestComment \/ UnnestComment \/ CommentCharacter
  PROVE  Step
<1>1. CASE OpenComment
  <2>1. Dispatch("Comment") /\ Char(position + 1) = "*" /\ Enter("InsideComment", position + 2)
    BY <1>1 DEF OpenComment
  <2>2. Char(position) = "/" /\ state = "Normal" /\ position \in 0..Size /\ text \in Texts
        /\ Size \in Nat
    BY <2>1, Dispatched, Handled
  <2>3. Char(position + 1) # Eof
    BY <2>1 DEF Eof
  <2>4. position + 2 \in position..Size
    BY <2>2, <2>3, PairFits
  <2>5. Opens
    BY <2>1, <2>2, <2>4 DEF Enter, Opens
  <2>6. QED
    BY <2>5 DEF Step
<1>2. CASE NestComment \/ UnnestComment
  <2>1. state = "InsideComment" /\ Char(position + 1) # Eof
    BY <1>2 DEF NestComment, UnnestComment, At, Eof
  <2>2. position + 2 \in position..Size
    BY <2>1, InComment, PairFits
  <2>3. \E depth \in Nat \ {0} : open' = [open EXCEPT !.depth = depth]
    BY <1>2, <2>1, InComment DEF NestComment, UnnestComment, GoOn
  <2>4. /\ position' = position + 2
        /\ UNCHANGED <<text, options, state, pending, tokens, had_errors, reported>>
    BY <1>2 DEF NestComment, UnnestComment, GoOn
  <2>5. /\ open' \in [start : 0..Size, depth : Nat, failed : BOOLEAN]
        /\ open'.start = open.start /\ ~ open'.failed /\ open'.depth > 0
    BY <2>1, <2>3, InComment
  <2>6. Turns
    BY <2>1, <2>2, <2>4, <2>5 DEF Turns, Reading
  <2>7. QED
    BY <2>6 DEF Step
<1>3. CASE CommentCharacter
  <2>1. state = "InsideComment" /\ position < Size /\ position' = position + 1 /\ open' = open
        /\ UNCHANGED <<text, options, state, pending, tokens, had_errors, reported>>
    BY <1>3 DEF CommentCharacter, GoOn
  <2>2. position + 1 \in position..Size
    BY <2>1, InComment
  <2>3. Turns
    BY <2>1, <2>2, InComment DEF Turns, Reading
  <2>4. QED
    BY <2>3 DEF Step
<1>4. QED
  BY <1>1, <1>2, <1>3

(* It closes with a token or with an Error. *)
LEMMA CommentEnds ==
  ASSUME LexInv, CloseComment \/ CommentUnterminated
  PROVE  Step
<1>1. CASE CloseComment
  <2>1. state = "InsideComment" /\ Char(position + 1) # Eof
    BY <1>1 DEF CloseComment, At, Eof
  <2>2. position + 2 \in position..Size /\ Frontier = open.start
    BY <2>1, InComment, PairFits
  <2>3. ProduceTrivia("Comment", Frontier, position + 2)
    BY <1>1, <2>2 DEF CloseComment
  <2>4. QED
    BY <2>1, <2>2, <2>3, TriviaSteps
<1>2. CASE CommentUnterminated
  <2>1. state = "InsideComment" /\ FailTo(open.start, position, AfterError)
    BY <1>2 DEF CommentUnterminated, Fail
  <2>2. MayStart(open.start) /\ MayLead(open.start, position, AfterError)
    BY <2>1, InComment DEF MayStart, MayLead
  <2>3. /\ open.start \in 0..Size /\ position \in position..Size
        /\ open.start <= position /\ Reading
    BY <2>1, InComment
  <2>4. QED
    BY <2>1, <2>2, <2>3, FailEmits, Zenon DEF Step
<1>3. QED
  BY <1>1, <1>2

(* What the invariant says inside of a string. *)
LEMMA InString ==
  ASSUME LexInv, state = "InsideString"
  PROVE  /\ open.start \in 0..Size /\ position \in 0..Size /\ Size \in Nat /\ text \in Texts
         /\ open \in [start : 0..Size, depth : Nat, failed : BOOLEAN]
         /\ Frontier = open.start /\ open.start < position /\ open.start <= position
         /\ Reading /\ open.failed \in BOOLEAN
  BY Now DEF LexInv, ScanInv, Reading

(* An escape of a string ends in the text. *)
LEMMA StringEscapeEnds ==
  ASSUME LexInv, state = "InsideString", Char(position) = "\\"
  PROVE  /\ position + 1 \in 0..Size
         /\ EscapeEnd(position + 1) \in (position + 1)..Size
         /\ EscapeEnd(position + 1) \in 0..Size
         /\ EscapeEnd(position + 1) \in position..Size /\ position < EscapeEnd(position + 1)
<1>1. position \in 0..Size /\ Size \in Nat /\ text \in Texts
  BY InString
<1>2. Char(position) # Eof
  BY DEF Eof
<1>3. position + 1 \in 0..Size
  BY <1>1, <1>2, Inside
<1>4. EscapeEnd(position + 1) \in (position + 1)..Size
  BY <1>1, <1>3, EscapeEnds
<1>5. QED
  BY <1>1, <1>3, <1>4

(* Where the escape is cut off, the text ends behind it. *)
LEMMA CutOffAtEnd ==
  ASSUME text \in Texts, NEW o \in 0..Size, EscapeCutOff(o)
  PROVE  EscapeEnd(o) = Size
<1>1. Size \in Nat
  BY Peeked
<1>2. Char(Size) = Eof /\ Eof \notin HexDigits
  BY <1>1, Peeked, NotEof
<1>3. Eof # "x"
  BY DEF Eof
<1>4. ~ HexEscape(o)
  <2>1. CASE o = Size
    BY <1>2, <1>3, <2>1 DEF HexEscape
  <2>2. CASE o + 1 = Size
    BY <1>2, <2>2 DEF HexEscape
  <2>3. QED
    BY <2>1, <2>2 DEF EscapeCutOff
<1>5. EscapeEnd(o) = IF o = Size THEN Size ELSE o + 1
  BY <1>4 DEF EscapeEnd
<1>6. QED
  BY <1>5 DEF EscapeCutOff

(* A string opens, and goes on over characters and escapes. *)
LEMMA StringTurns ==
  ASSUME LexInv, OpenString \/ StringEscape \/ StringEscapeCutOff \/ StringCharacter
  PROVE  Step
<1>1. CASE OpenString
  <2>1. Dispatch("String") /\ Enter("InsideString", position + 1)
    BY <1>1 DEF OpenString
  <2>2. Char(position) = "\"" /\ state = "Normal"
    BY <2>1, Dispatched, Handled
  <2>3. position + 1 <= Size
    BY <2>1, Dispatched
  <2>4. Opens
    BY <2>1, <2>2, <2>3 DEF Enter, Opens
  <2>5. QED
    BY <2>4 DEF Step
<1>2. CASE StringEscape \/ StringCharacter
  <2>1. /\ state = "InsideString" /\ open' = open
        /\ UNCHANGED <<text, options, state, pending, tokens, had_errors, reported>>
    BY <1>2 DEF StringEscape, StringCharacter, GoOn
  <2>2. position' \in position..Size
    <3>1. CASE StringEscape
      BY <2>1, <3>1, StringEscapeEnds DEF StringEscape, GoOn
    <3>2. CASE StringCharacter
      <4>1. Char(position) # Eof /\ position' = position + 1
        BY <3>2 DEF StringCharacter, GoOn
      <4>2. position \in 0..Size /\ Size \in Nat /\ text \in Texts
        BY <2>1, InString
      <4>3. QED
        BY <4>1, <4>2, Inside
    <3>3. QED
      BY <1>2, <3>1, <3>2
  <2>3. Turns
    BY <2>1, <2>2, InString DEF Turns
  <2>4. QED
    BY <2>3 DEF Step
<1>3. CASE StringEscapeCutOff
  <2>1. /\ state = "InsideString" /\ Char(position) = "\\" /\ EscapeCutOff(position + 1)
        /\ position' = EscapeEnd(position + 1) /\ open' = [open EXCEPT !.failed = TRUE]
        /\ UNCHANGED <<text, options, state, pending, tokens, had_errors, reported>>
    BY <1>3 DEF StringEscapeCutOff, GoOn
  <2>2. position' \in position..Size /\ position' = Size
    BY <2>1, InString, StringEscapeEnds, CutOffAtEnd
  <2>3. /\ open' \in [start : 0..Size, depth : Nat, failed : BOOLEAN]
        /\ open'.start = open.start /\ open'.failed
    BY <2>1, InString
  <2>4. Turns
    BY <2>1, <2>2, <2>3, InString DEF Turns
  <2>5. QED
    BY <2>4 DEF Step
<1>4. QED
  BY <1>1, <1>2, <1>3

(* An escape that is refused is put on record. *)
LEMMA StringRefuses == ASSUME LexInv, StringEscapeRefused PROVE Step
<1> DEFINE to == EscapeEnd(position + 1)
           t == Token("Error", position, to)
<1>1. state = "InsideString" /\ Char(position) = "\\"
  BY DEF StringEscapeRefused
<1>2. position \in 0..Size /\ to \in 0..Size /\ position < to
  BY <1>1, InString, StringEscapeEnds
<1>3. "Error" \in TokenTypes
  BY DEF TokenTypes
<1>4. t \in TokenRecord /\ t.type = "Error" /\ t.start = position /\ t.end = to
  BY <1>2, <1>3, TokenIs
<1>5. /\ position' = to /\ open' = [open EXCEPT !.failed = TRUE]
      /\ pending' = Append(pending, t)
      /\ had_errors' = TRUE /\ reported' = reported + 1
      /\ UNCHANGED <<text, options, state, tokens>>
  BY DEF StringEscapeRefused, GoOn
<1> HIDE DEF to, t
<1>6. Refuses(t)
  BY <1>1, <1>2, <1>4, <1>5 DEF Refuses
<1>7. QED
  BY <1>4, <1>6 DEF Step

(* A string ends with a token, which is valid unless an escape failed, or with an Error. *)
LEMMA StringEnds ==
  ASSUME LexInv, CloseString \/ StringUnterminated
  PROVE  Step
<1>1. CASE CloseString
  <2> DEFINE t == [Token("String", open.start, position + 1) EXCEPT !.valid = ~ open.failed]
             next == IF open.failed THEN AfterError ELSE "Normal"
  <2>1. state = "InsideString" /\ Char(position) = "\""
    BY <1>1 DEF CloseString
  <2>2. /\ position \in 0..Size /\ open.start \in 0..Size /\ Size \in Nat /\ text \in Texts
        /\ open.start <= position /\ open.failed \in BOOLEAN /\ Frontier = open.start /\ Reading
    BY <2>1, InString
  <2>3. position + 1 \in 0..Size /\ position < Size
    <3>1. Char(position) # Eof
      BY <2>1 DEF Eof
    <3>2. QED
      BY <2>2, <3>1, Inside
  <2>4. "String" \in TokenTypes
    BY DEF TokenTypes
  <2>5. /\ t \in TokenRecord /\ t.type = "String" /\ (t.valid <=> ~ open.failed)
        /\ t.start = open.start /\ t.end = position + 1
    BY <2>2, <2>3, <2>4 DEF Token, TokenRecord
  <2>6. /\ tokens' = tokens \o pending \o <<t>> /\ pending' = <<>>
        /\ position' = position + 1 /\ state' = next /\ open' = NoScan
        /\ UNCHANGED <<text, options, had_errors, reported>>
    BY <1>1 DEF CloseString, Flush, ReturnTo
  <2>7. /\ next = "Normal" \/ (next = "Stopped" /\ ~ options.continue_after_errors)
        /\ next = "Normal" /\ ~ options.continue_after_errors => ~ open.failed
    BY Now DEF AfterError
  <2> HIDE DEF t, next
  <2>8. t.start <= t.end /\ position <= t.end /\ position' = t.end
    BY <2>2, <2>5, <2>6
  <2>9. t.type # "Error" /\ t.type # "EndOfFile"
    BY <2>5
  <2>10. Emits(t)
    BY <2>1, <2>2, <2>3, <2>5, <2>6, <2>7, <2>8, <2>9 DEF Emits, Stopping
  <2>11. QED
    BY <2>5, <2>10 DEF Step
<1>2. CASE StringUnterminated
  <2>1. state = "InsideString" /\ FailTo(open.start, position, AfterError)
    BY <1>2 DEF StringUnterminated, Fail
  <2>2. MayStart(open.start) /\ MayLead(open.start, position, AfterError)
    BY <2>1, InString DEF MayStart, MayLead
  <2>3. /\ open.start \in 0..Size /\ position \in position..Size
        /\ open.start <= position /\ Reading
    BY <2>1, InString
  <2>4. QED
    BY <2>1, <2>2, <2>3, FailEmits, Zenon DEF Step
<1>3. QED
  BY <1>1, <1>2

(* What the dispatch to the character scanner leaves behind the quote. *)
LEMMA AtCharacter ==
  ASSUME LexInv, Dispatch("Character")
  PROVE  /\ position \in 0..Size /\ position + 1 \in 0..Size /\ Size \in Nat /\ text \in Texts
         /\ Frontier = position /\ state = "Normal" /\ ~ Reading /\ position < Size
         /\ Char(position) = "'"
         /\ Char(position + 1) # Eof => position + 2 \in position..Size /\ position + 2 \in 0..Size
<1>1. /\ position \in 0..Size /\ position + 1 \in 0..Size /\ Size \in Nat /\ text \in Texts
      /\ Frontier = position /\ state = "Normal" /\ position < Size
      /\ Handles("Character", position)
  BY Dispatched
<1>2. Char(position) = "'"
  BY <1>1, Handled
<1>3. ~ Reading
  BY <1>1, Now
<1>4. Char(position + 1) # Eof => position + 2 \in position..Size
  BY <1>1, PairFits
<1>5. Char(position + 1) # Eof => position + 2 \in 0..Size
  BY <1>1, <1>4
<1>6. QED
  BY <1>1, <1>2, <1>3, <1>4, <1>5

(* A character literal whose character is there ends in the text. *)
LEMMA CharacterEnds ==
  ASSUME LexInv, Dispatch("Character"), ~ CharacterMissing
  PROVE  CharacterEnd \in (position + 2)..Size
<1>1. position + 2 \in position..Size /\ position + 2 \in 0..Size
  BY AtCharacter DEF CharacterMissing
<1>2. Size \in Nat /\ text \in Texts /\ position \in 0..Size
  BY AtCharacter
<1>3. EscapeEnd(position + 2) \in (position + 2)..Size
  BY <1>1, <1>2, EscapeEnds
<1>4. position + 2 \in (position + 2)..Size
  BY <1>1, <1>2
<1>5. QED
  BY <1>3, <1>4 DEF CharacterEnd

(* Character literals, with or without an escape, end in the text. *)
LEMMA CharacterSteps == ASSUME LexInv, ScanCharacterLiteral PROVE Step
<1>1. Dispatch("Character")
  BY DEF ScanCharacterLiteral, ScanCharacter, CharacterUnterminated, CharacterEscapeRefused,
         CharacterCutOff
<1>2. /\ position \in 0..Size /\ position + 1 \in 0..Size /\ Size \in Nat /\ text \in Texts
      /\ Frontier = position /\ state = "Normal" /\ ~ Reading /\ position < Size
  BY <1>1, AtCharacter
<1>3. CASE ScanCharacter
  <2>1. ~ CharacterMissing /\ Char(CharacterEnd) = "'"
    BY <1>3 DEF ScanCharacter
  <2>2. CharacterEnd \in (position + 2)..Size
    BY <1>1, <2>1, CharacterEnds
  <2>3. Char(CharacterEnd) # Eof
    BY <2>1 DEF Eof
  <2>4. CharacterEnd \in Nat
    BY <1>2, <2>2
  <2>5. CharacterEnd + 1 \in position..Size
    BY <1>2, <2>2, <2>3, <2>4, Inside
  <2>6. Produce("Character", Frontier, CharacterEnd + 1)
    BY <1>2, <1>3 DEF ScanCharacter
  <2>7. "Character" \in TokenTypes \ {"Error", "EndOfFile", "String"}
    BY DEF TokenTypes
  <2>8. QED
    BY <1>2, <2>5, <2>6, <2>7, ProduceEmits, Zenon DEF Step
<1>4. CASE CharacterUnterminated
  <2> DEFINE to == IF CharacterMissing THEN position + 1 ELSE CharacterEnd
  <2>1. FailTo(position, to, AfterError)
    BY <1>4 DEF CharacterUnterminated, Fail
  <2>2. to \in position..Size /\ position <= to
    <3>1. CASE CharacterMissing
      BY <1>2, <3>1
    <3>2. CASE ~ CharacterMissing
      <4>1. CharacterEnd \in (position + 2)..Size
        BY <1>1, <3>2, CharacterEnds
      <4>2. QED
        BY <1>2, <3>2, <4>1
    <3>3. QED
      BY <3>1, <3>2
  <2> HIDE DEF to
  <2>3. MayStart(position) /\ MayLead(position, to, AfterError)
    BY <1>2 DEF MayStart, MayLead
  <2>4. QED
    BY <1>2, <2>1, <2>2, <2>3, FailEmits, Zenon DEF Step
<1>5. CASE CharacterEscapeRefused
  <2>1. OpensEscape /\ FailTo(position + 1, EscapeEnd(position + 2), AfterError)
    BY <1>5 DEF CharacterEscapeRefused, Fail
  <2>2. Char(position) = "'" /\ Char(position + 1) = "\\"
    BY <1>1, <2>1, AtCharacter DEF OpensEscape
  <2>3. MayStart(position + 1)
    BY <1>2, <2>2 DEF MayStart
  <2>4. MayLead(position + 1, EscapeEnd(position + 2), AfterError)
    BY DEF MayLead
  <2>5. Char(position + 1) # Eof
    BY <2>2 DEF Eof
  <2>6. position + 2 \in 0..Size
    BY <1>1, <2>5, AtCharacter
  <2>7. EscapeEnd(position + 2) \in (position + 2)..Size
    BY <1>2, <2>6, EscapeEnds
  <2>8. /\ EscapeEnd(position + 2) \in position..Size
        /\ position + 1 <= EscapeEnd(position + 2)
    BY <1>2, <2>7
  <2>9. QED
    BY <1>2, <2>1, <2>3, <2>4, <2>8, FailEmits, Zenon DEF Step
<1>6. CASE CharacterCutOff
  <2>1. /\ OpensEscape /\ position + 2 = Size
        /\ Flush(<<>>) /\ ReturnTo(Size, AfterError) /\ had_errors' = TRUE
        /\ UNCHANGED reported
    BY <1>6 DEF CharacterCutOff
  <2>2. Char(position) = "'" /\ Char(position + 1) = "\\"
    BY <1>1, <2>1, AtCharacter DEF OpensEscape
  <2>3. pending = <<>> /\ tokens \in Seq(TokenRecord)
    BY <1>2, Now DEF LexInv, TypeOK
  <2>4. UNCHANGED <<tokens, pending>>
    BY <2>1, <2>3 DEF Flush
  <2>5. CutsOff
    BY <1>2, <2>1, <2>2, <2>4 DEF CutsOff, ReturnTo, AfterError
  <2>6. QED
    BY <2>5 DEF Step
<1>7. QED
  BY <1>3, <1>4, <1>5, <1>6 DEF ScanCharacterLiteral

(* Next has no other steps than these. *)
LEMMA NextSteps == LexInv /\ [Next]_vars => Step
<1> SUFFICES ASSUME LexInv, [Next]_vars PROVE Step
  OBVIOUS
<1>1. CASE ScanComment
  <2>1. CASE ScanLineComment
    BY <2>1, LineCommentSteps
  <2>2. CASE OpenComment \/ NestComment \/ UnnestComment \/ CommentCharacter
    BY <2>2, CommentTurns
  <2>3. CASE CloseComment \/ CommentUnterminated
    BY <2>3, CommentEnds
  <2>4. QED
    BY <1>1, <2>1, <2>2, <2>3 DEF ScanComment
<1>2. CASE ScanString
  <2>1. CASE OpenString \/ StringEscape \/ StringEscapeCutOff \/ StringCharacter
    BY <2>1, StringTurns
  <2>2. CASE StringEscapeRefused
    BY <2>2, StringRefuses
  <2>3. CASE CloseString \/ StringUnterminated
    BY <2>3, StringEnds
  <2>4. QED
    BY <1>2, <2>1, <2>2, <2>3 DEF ScanString
<1>3. CASE ScanWord
  <2>1. CASE ScanAnnotation \/ ScanKeyword \/ ScanIdentifier
    BY <2>1, WordSteps
  <2>2. CASE ScanNumber \/ ScanBadNumber
    BY <2>2, NumberSteps
  <2>3. QED
    BY <1>3, <2>1, <2>2 DEF ScanWord
<1>4. CASE Finish
  <2>1. Ends
    BY <1>4 DEF Finish, Ends
  <2>2. QED
    BY <2>1 DEF Step
<1>5. CASE Finished \/ UNCHANGED vars
  BY <1>5 DEF Finished, Stays, Step
<1>6. QED
  BY <1>1, <1>2, <1>3, <1>4, <1>5, WhitespaceSteps, DirectiveSteps, CharacterSteps,
     OperatorSteps, UnknownSteps DEF Next

-----------------------------------------------------------------------------
(* Every step keeps the invariant. *)

(* Tokens, pending tokens and the last one, put together. *)
LEMMA Joined ==
  ASSUME NEW S, NEW s \in Seq(S), NEW p \in Seq(S), NEW t \in S, NEW q, q = s \o p \o <<t>>
  PROVE  /\ q \in Seq(S) /\ Len(q) = Len(s) + Len(p) + 1
         /\ Len(s) \in Nat /\ Len(p) \in Nat
         /\ \A i \in 1..Len(s) : q[i] = s[i]
         /\ \A i \in 1..Len(p) : q[Len(s) + i] = p[i]
         /\ q[Len(q)] = t
         /\ \A j \in 1..Len(q) :
              \/ j \in 1..Len(s)
              \/ j - Len(s) \in 1..Len(p) /\ q[j] = p[j - Len(s)] /\ j > Len(s)
              \/ j = Len(q) /\ q[j] = t
<1> DEFINE last == <<t>>
<1>1. last \in Seq(S) /\ Len(last) = 1 /\ last[1] = t
  OBVIOUS
<1> HIDE DEF last
<1>2. q = s \o p \o last
  BY DEF last
<1>3. Len(s) \in Nat /\ Len(p) \in Nat
  OBVIOUS
<1>4. QED
  BY <1>1, <1>2, <1>3

(* What an unchanged text leaves unchanged. *)
LEMMA SameText ==
  ASSUME UNCHANGED text
  PROVE  /\ Size' = Size /\ TokenRecord' = TokenRecord
         /\ \A o : Char(o)' = Char(o)
         /\ \A from, to : Slice(from, to)' = Slice(from, to)
<1>1. Size' = Size
  BY DEF Size
<1>2. QED
  BY <1>1 DEF TokenRecord, Char, Slice

(* The parts of the invariant that speak of pending tokens, once there are none. *)
LEMMA NothingPending ==
  ASSUME pending' = <<>>
  PROVE  PendingInside'
<1>1. Len(pending') = 0
  OBVIOUS
<1>2. 1..Len(pending') = {}
  BY <1>1
<1>3. QED
  BY <1>2 DEF PendingInside

(* What is known of the tokens before a step. *)
LEMMA TokensNow ==
  ASSUME LexInv
  PROVE  /\ tokens \in Seq(TokenRecord) /\ pending \in Seq(TokenRecord)
         /\ Len(tokens) \in Nat /\ Len(pending) \in Nat
         /\ \A i \in 1..Len(tokens) :
              /\ tokens[i] \in TokenRecord
              /\ tokens[i].start \in 0..Size /\ tokens[i].end \in 0..Size
              /\ tokens[i].start <= tokens[i].end /\ tokens[i].end <= Frontier
              /\ tokens[i].end <= position
         /\ \A i \in 1..Len(pending) :
              /\ pending[i] \in TokenRecord
              /\ pending[i].start \in 0..Size /\ pending[i].end \in 0..Size
              /\ pending[i].type = "Error" /\ open.start < pending[i].start
              /\ pending[i].start <= pending[i].end /\ pending[i].end <= position
<1>1. tokens \in Seq(TokenRecord) /\ pending \in Seq(TokenRecord)
  BY DEF LexInv, TypeOK
<1>2. /\ \A i \in 1..Len(tokens) : tokens[i] \in TokenRecord
      /\ \A i \in 1..Len(pending) : pending[i] \in TokenRecord
  BY <1>1
<1>3. \A t \in TokenRecord : t.start \in 0..Size /\ t.end \in 0..Size
  BY DEF TokenRecord
<1>4. \A i \in 1..Len(tokens) :
        tokens[i].start <= tokens[i].end /\ tokens[i].end <= Frontier
  BY DEF LexInv, TokensBehind
<1>5. \A i \in 1..Len(pending) :
        /\ pending[i].type = "Error" /\ open.start < pending[i].start
        /\ pending[i].start <= pending[i].end /\ pending[i].end <= position
  BY DEF LexInv, PendingInside
<1>6. Frontier <= position /\ Frontier \in 0..Size /\ position \in 0..Size /\ Size \in Nat
  BY Now
<1>7. \A i \in 1..Len(tokens) : tokens[i].end <= position
  BY <1>2, <1>3, <1>4, <1>6
<1>8. QED
  BY <1>1, <1>2, <1>3, <1>4, <1>5, <1>7

(* A token that is emitted starts where the scan began or later, behind all *)
(* tokens that were finished.                                              *)
LEMMA EmittedAt ==
  ASSUME LexInv, NEW t \in TokenRecord, Emits(t)
  PROVE  /\ t.start \in 0..Size /\ t.end \in 0..Size /\ t.start <= t.end
         /\ Frontier <= t.start /\ position <= t.end /\ Size \in Nat
         /\ ~ Reading => pending = <<>>
         /\ Reading => t.start = open.start
<1>1. t.start \in 0..Size /\ t.end \in 0..Size
  BY DEF TokenRecord
<1>2. Frontier \in 0..Size /\ Size \in Nat /\ position \in 0..Size
  BY Now
<1>3. t.start <= t.end /\ position <= t.end /\ (Reading => t.start = Frontier)
  BY DEF Emits
<1>4. Frontier <= t.start
  <2>1. CASE t.start = Frontier
    BY <1>2, <2>1
  <2>2. CASE ~ Reading /\ t.start = position + 1
    BY <1>2, <2>2 DEF Frontier
  <2>3. QED
    BY <2>1, <2>2 DEF Emits
<1>5. ~ Reading => pending = <<>>
  BY DEF LexInv, ScanInv
<1>6. Reading => Frontier = open.start
  BY Now
<1>7. QED
  BY <1>1, <1>2, <1>3, <1>4, <1>5, <1>6

(* A step that emits. *)
LEMMA EmitsKeeps == ASSUME LexInv, NEW t \in TokenRecord, Emits(t) PROVE LexInv'
<1>1. /\ tokens' = tokens \o pending \o <<t>> /\ pending' = <<>>
      /\ position' = t.end /\ open' = NoScan
      /\ UNCHANGED <<text, options>>
      /\ state' = "Normal" \/ (state' = "Stopped" /\ ~ options.continue_after_errors)
      /\ (had_errors' = TRUE /\ reported' = reported + 1) \/ UNCHANGED <<had_errors, reported>>
  BY DEF Emits
<1>2. Size' = Size /\ TokenRecord' = TokenRecord
  BY <1>1, SameText
<1>3. ~ Reading' /\ Frontier' = t.end
  BY <1>1 DEF Reading, Frontier
<1>4. /\ tokens' \in Seq(TokenRecord) /\ Len(tokens') = Len(tokens) + Len(pending) + 1
      /\ \A i \in 1..Len(tokens) : tokens'[i] = tokens[i]
      /\ \A j \in 1..Len(tokens') :
           \/ j \in 1..Len(tokens)
           \/ j - Len(tokens) \in 1..Len(pending) /\ tokens'[j] = pending[j - Len(tokens)]
           \/ tokens'[j] = t
  BY <1>1, TokensNow, Joined
<1>5. TypeOK'
  <2>1. NoScan \in [start : 0..Size, depth : Nat, failed : BOOLEAN]
    BY Now DEF NoScan
  <2>2. pending' \in Seq(TokenRecord)
    BY <1>1
  <2>3. had_errors' \in BOOLEAN /\ reported' \in Nat
    <3>1. had_errors \in BOOLEAN /\ reported \in Nat
      BY DEF LexInv, TypeOK
    <3>2. CASE had_errors' = TRUE /\ reported' = reported + 1
      BY <3>1, <3>2
    <3>3. CASE UNCHANGED <<had_errors, reported>>
      BY <3>1, <3>3
    <3>4. QED
      BY <1>1, <3>2, <3>3
  <2>4. text' \in Texts /\ options' \in Options
    BY <1>1, Now
  <2>5. position' \in 0..Size
    BY <1>1, EmittedAt
  <2>6. QED
    BY <1>1, <1>2, <1>4, <2>1, <2>2, <2>3, <2>4, <2>5 DEF TypeOK
<1>6. ScanInv'
  BY <1>1, <1>3 DEF ScanInv, Reading
<1>7. TokensBehind'
  <2>1. ASSUME NEW j \in 1..Len(tokens')
        PROVE  tokens'[j].start <= tokens'[j].end /\ tokens'[j].end <= t.end
    <3>1. CASE j \in 1..Len(tokens)
      BY <1>4, <3>1, TokensNow, EmittedAt, Now
    <3>2. CASE j - Len(tokens) \in 1..Len(pending) /\ tokens'[j] = pending[j - Len(tokens)]
      BY <3>2, TokensNow, EmittedAt, Now
    <3>3. CASE tokens'[j] = t
      BY <3>3, EmittedAt
    <3>4. QED
      BY <1>4, <2>1, <3>1, <3>2, <3>3
  <2>2. QED
    BY <1>3, <2>1 DEF TokensBehind
<1>8. PendingInside'
  BY <1>1, NothingPending
<1>9. QED
  BY <1>5, <1>6, <1>7, <1>8 DEF LexInv

(* A step that leaves the tokens and does not move back. *)
LEMMA SameTokens ==
  ASSUME LexInv, UNCHANGED <<text, tokens>>, Frontier <= Frontier', Frontier' \in 0..Size
  PROVE  TokensBehind'
<1>1. \A i \in 1..Len(tokens) :
        /\ tokens[i].start <= tokens[i].end /\ tokens[i].end <= Frontier
        /\ tokens[i].end \in 0..Size
  BY TokensNow
<1>2. Frontier \in 0..Size /\ Size \in Nat
  BY Now
<1>3. \A i \in 1..Len(tokens) : tokens[i].end <= Frontier'
  BY <1>1, <1>2
<1>4. QED
  BY <1>1, <1>3 DEF TokensBehind

(* A step that skips trivia. *)
LEMMA SkipsKeeps == ASSUME LexInv, Skips PROVE LexInv'
<1>1. /\ state' = "Normal" /\ open' = NoScan /\ position' \in position..Size
      /\ UNCHANGED <<text, options, pending, tokens, had_errors, reported>>
      /\ state # "InsideString"
  BY DEF Skips
<1>2. Size' = Size /\ TokenRecord' = TokenRecord
  BY <1>1, SameText
<1>3. pending' = <<>> /\ Size \in Nat /\ position \in 0..Size /\ Frontier <= position
      /\ Frontier \in 0..Size
  BY <1>1, Now
<1>4. ~ Reading' /\ Frontier' = position'
  BY <1>1 DEF Reading, Frontier
<1>5. NoScan \in [start : 0..Size, depth : Nat, failed : BOOLEAN]
  BY <1>3 DEF NoScan
<1>6. position' \in 0..Size /\ Frontier <= position'
  BY <1>1, <1>3
<1>7. TypeOK'
  BY <1>1, <1>2, <1>5, <1>6 DEF LexInv, TypeOK
<1>8. ScanInv'
  BY <1>1, <1>3, <1>4 DEF ScanInv
<1>9. TokensBehind' /\ PendingInside'
  BY <1>1, <1>3, <1>4, <1>6, SameTokens, NothingPending
<1>10. QED
  BY <1>7, <1>8, <1>9 DEF LexInv

(* A step that opens a string or a comment. *)
LEMMA OpensKeeps == ASSUME LexInv, Opens PROVE LexInv'
<1>1. /\ state = "Normal" /\ state' \in {"InsideString", "InsideComment"}
      /\ open' = [start |-> position, depth |-> 1, failed |-> FALSE]
      /\ UNCHANGED <<text, options, pending, tokens, had_errors, reported>>
      /\ position' = position + 1 \/ position' = position + 2
      /\ position' <= Size
  BY DEF Opens
<1>2. /\ state' = "InsideString" =>
           position' = position + 1 /\ Char(position) = "\""
      /\ state' = "InsideComment" =>
           position' = position + 2 /\ Char(position) = "/" /\ Char(position + 1) = "*"
  BY DEF Opens
<1>3. Size' = Size /\ TokenRecord' = TokenRecord /\ \A o : Char(o)' = Char(o)
  BY <1>1, SameText
<1>4. pending' = <<>> /\ Size \in Nat /\ position \in 0..Size /\ Frontier = position
  BY <1>1, Now
<1>5. /\ open'.start = position /\ open'.depth = 1 /\ ~ open'.failed
      /\ open' \in [start : 0..Size, depth : Nat, failed : BOOLEAN]
  BY <1>1, <1>4
<1>6. position' \in 0..Size /\ position < position'
  BY <1>1, <1>4
<1>7. Reading' /\ Frontier' = position
  BY <1>1, <1>5 DEF Reading, Frontier
<1>8. TypeOK'
  BY <1>1, <1>3, <1>5, <1>6 DEF LexInv, TypeOK
<1>9. ScanInv'
  <2>1. /\ Char(open.start)' = Char(position) /\ Char(open.start + 1)' = Char(position + 1)
    BY <1>1, <1>5 DEF Char, Size
  <2>2. state' = "InsideComment" => open'.start + 2 <= position'
    BY <1>2, <1>4, <1>5
  <2>3. open'.start < position' /\ state' # "Stopped"
    BY <1>1, <1>5, <1>6
  <2>4. CASE state' = "InsideString"
    BY <1>2, <1>4, <1>5, <1>7, <2>1, <2>3, <2>4 DEF ScanInv
  <2>5. CASE state' = "InsideComment"
    BY <1>2, <1>4, <1>5, <1>7, <2>1, <2>2, <2>5 DEF ScanInv
  <2>6. QED
    BY <1>1, <2>4, <2>5
<1>10. TokensBehind' /\ PendingInside'
  BY <1>1, <1>4, <1>7, SameTokens, NothingPending
<1>11. QED
  BY <1>8, <1>9, <1>10 DEF LexInv

(* A turn inside of a string or a comment. *)
LEMMA TurnsKeeps == ASSUME LexInv, Turns PROVE LexInv'
<1>1. /\ Reading /\ position' \in position..Size
      /\ open' \in [start : 0..Size, depth : Nat, failed : BOOLEAN]
      /\ open'.start = open.start
      /\ UNCHANGED <<text, options, state, pending, tokens, had_errors, reported>>
  BY DEF Turns
<1>2. /\ state = "InsideComment" => ~ open'.failed /\ open'.depth > 0
      /\ state = "InsideString" =>
           open'.failed = open.failed \/ (open'.failed /\ position' = Size)
  BY DEF Turns
<1>3. Size' = Size /\ TokenRecord' = TokenRecord
  BY <1>1, SameText
<1>4. /\ Size \in Nat /\ position \in 0..Size /\ Frontier = open.start
      /\ open.start \in 0..Size
  BY <1>1, Now
<1>5. Reading' /\ Frontier' = open.start
  BY <1>1 DEF Reading, Frontier
<1>6. position' \in 0..Size /\ position <= position'
  BY <1>1, <1>4
<1>7. TypeOK'
  BY <1>1, <1>3, <1>6 DEF LexInv, TypeOK
<1>8. ScanInv'
  <2>1. /\ Char(open.start)' = Char(open.start) /\ Char(open.start + 1)' = Char(open.start + 1)
    BY <1>1 DEF Char, Size
  <2>2. CASE state = "InsideComment"
    <3>1. /\ pending = <<>> /\ open.start + 2 <= position
          /\ Char(open.start) = "/" /\ Char(open.start + 1) = "*"
      BY <2>2 DEF LexInv, ScanInv
    <3>2. open'.start + 2 <= position'
      BY <1>1, <1>4, <1>6, <3>1
    <3>3. QED
      BY <1>1, <1>2, <1>5, <2>1, <2>2, <3>1, <3>2 DEF ScanInv
  <2>3. CASE state = "InsideString"
    <3>1. /\ open.start < position /\ Char(open.start) = "\""
          /\ pending # <<>> => open.failed
          /\ open.failed => pending # <<>> \/ position = Size
      BY <2>3 DEF LexInv, ScanInv
    <3>2. open'.start < position' /\ (position = Size => position' = Size)
      <4>1. open.start < position
        BY <3>1
      <4>2. QED
        BY <1>1, <1>4, <1>6, <4>1
    <3>3. /\ pending # <<>> => open'.failed
          /\ open'.failed => pending # <<>> \/ position' = Size
      BY <1>2, <2>3, <3>1, <3>2
    <3>4. QED
      BY <1>1, <1>3, <1>5, <2>1, <2>3, <3>1, <3>2, <3>3 DEF ScanInv
  <2>4. QED
    BY <1>1, <2>2, <2>3 DEF Reading
<1>9. TokensBehind'
  BY <1>1, <1>4, <1>5, SameTokens
<1>10. PendingInside'
  <2>1. \A j \in 1..Len(pending) : pending[j].end <= position'
    BY <1>4, <1>6, TokensNow
  <2>2. QED
    BY <1>1, <2>1 DEF LexInv, PendingInside
<1>11. QED
  BY <1>7, <1>8, <1>9, <1>10 DEF LexInv

(* A turn that refuses an escape. *)
LEMMA RefusesKeeps == ASSUME LexInv, NEW t \in TokenRecord, Refuses(t) PROVE LexInv'
<1>1. /\ state = "InsideString" /\ t.type = "Error"
      /\ t.start = position /\ position < t.end /\ position' = t.end
      /\ open' = [open EXCEPT !.failed = TRUE]
      /\ pending' = Append(pending, t)
      /\ had_errors' = TRUE /\ reported' = reported + 1
      /\ UNCHANGED <<text, options, state, tokens>>
  BY DEF Refuses
<1>2. Size' = Size /\ TokenRecord' = TokenRecord
  BY <1>1, SameText
<1>3. /\ position \in 0..Size /\ open.start \in 0..Size /\ Size \in Nat
      /\ open \in [start : 0..Size, depth : Nat, failed : BOOLEAN]
      /\ open.start < position /\ Frontier = open.start /\ Reading
  BY <1>1, InString
<1>4. /\ open' \in [start : 0..Size, depth : Nat, failed : BOOLEAN]
      /\ open'.start = open.start /\ open'.failed
  BY <1>1, <1>3
<1>5. t.end \in 0..Size
  BY DEF TokenRecord
<1>6. Reading' /\ Frontier' = open.start
  BY <1>1, <1>4 DEF Reading, Frontier
<1>7. /\ pending \in Seq(TokenRecord) /\ pending' \in Seq(TokenRecord)
      /\ Len(pending) \in Nat /\ Len(pending') = Len(pending) + 1
      /\ \A j \in 1..Len(pending) : pending'[j] = pending[j]
      /\ pending'[Len(pending) + 1] = t
  BY <1>1, TokensNow
<1>8. TypeOK'
  <2>1. had_errors' \in BOOLEAN /\ reported' \in Nat
    BY <1>1 DEF LexInv, TypeOK
  <2>2. tokens' \in Seq(TokenRecord) /\ text' \in Texts /\ options' \in Options
    BY <1>1 DEF LexInv, TypeOK
  <2>3. QED
    BY <1>1, <1>2, <1>4, <1>5, <1>7, <2>1, <2>2 DEF TypeOK
<1>9. ScanInv'
  <2>1. pending' # <<>>
    BY <1>7
  <2>2. Char(open.start)' = Char(open.start)
    BY <1>1, <1>4 DEF Char, Size
  <2>3. Char(open.start) = "\""
    BY <1>1 DEF LexInv, ScanInv
  <2>4. open'.start < position'
    BY <1>1, <1>3, <1>4, <1>5
  <2>5. QED
    BY <1>1, <1>4, <1>6, <2>1, <2>2, <2>3, <2>4 DEF ScanInv
<1>10. TokensBehind'
  BY <1>1, <1>3, <1>6, SameTokens
<1>11. PendingInside'
  <2>1. ASSUME NEW j \in 1..Len(pending')
        PROVE  /\ pending'[j].type = "Error"
               /\ open'.start < pending'[j].start
               /\ pending'[j].start <= pending'[j].end /\ pending'[j].end <= position'
               /\ \A i \in 1..(j - 1) : pending'[i].end <= pending'[j].start
    <3>1. CASE j \in 1..Len(pending)
      <4>1. pending'[j] = pending[j] /\ \A i \in 1..(j - 1) : pending'[i] = pending[i]
        BY <1>7, <3>1
      <4>2. \A i \in 1..(j - 1) : pending[i].end <= pending[j].start
        BY <3>1 DEF LexInv, PendingInside
      <4>3. pending[j].end <= position'
        BY <1>1, <1>3, <1>5, <3>1, TokensNow
      <4>4. QED
        BY <1>4, <3>1, <4>1, <4>2, <4>3, TokensNow
    <3>2. CASE j = Len(pending) + 1
      <4>1. pending'[j] = t /\ \A i \in 1..(j - 1) : pending'[i] = pending[i]
        BY <1>7, <3>2
      <4>2. \A i \in 1..(j - 1) : pending[i].end <= position
        BY <1>7, <3>2, TokensNow
      <4>3. t.start <= t.end /\ t.end <= position' /\ open.start < t.start
        BY <1>1, <1>3, <1>5
      <4>4. QED
        BY <1>1, <1>4, <4>1, <4>2, <4>3
    <3>3. QED
      BY <1>7, <2>1, <3>1, <3>2
  <2>2. QED
    BY <2>1, Zenon DEF PendingInside
<1>12. QED
  BY <1>8, <1>9, <1>10, <1>11 DEF LexInv

(* A step that loses the character literal the text ends in. *)
LEMMA CutsOffKeeps == ASSUME LexInv, CutsOff PROVE LexInv'
<1>1. /\ state = "Normal" /\ position' = Size
      /\ state' = "Normal" \/ (state' = "Stopped" /\ ~ options.continue_after_errors)
      /\ open' = NoScan /\ had_errors' = TRUE
      /\ UNCHANGED <<text, options, pending, tokens, reported>>
  BY DEF CutsOff
<1>2. Size' = Size /\ TokenRecord' = TokenRecord
  BY <1>1, SameText
<1>3. pending' = <<>> /\ Size \in Nat /\ Frontier = position /\ position \in 0..Size
  BY <1>1, Now
<1>4. ~ Reading' /\ Frontier' = Size
  BY <1>1 DEF Reading, Frontier
<1>5. NoScan \in [start : 0..Size, depth : Nat, failed : BOOLEAN]
  BY <1>3 DEF NoScan
<1>6. position' \in 0..Size /\ Frontier <= Size
  BY <1>1, <1>3
<1>7. TypeOK'
  <2>1. had_errors' \in BOOLEAN
    BY <1>1
  <2>2. /\ text' \in Texts /\ options' \in Options /\ reported' \in Nat
        /\ tokens' \in Seq(TokenRecord) /\ pending' \in Seq(TokenRecord)
    BY <1>1 DEF LexInv, TypeOK
  <2>3. QED
    BY <1>1, <1>2, <1>5, <1>6, <2>1, <2>2 DEF TypeOK
<1>8. ScanInv'
  BY <1>1, <1>3, <1>4 DEF ScanInv
<1>9. TokensBehind' /\ PendingInside'
  BY <1>1, <1>3, <1>4, <1>6, SameTokens, NothingPending
<1>10. QED
  BY <1>7, <1>8, <1>9 DEF LexInv

(* The last step, which adds the end of file. *)
LEMMA EndsKeeps == ASSUME LexInv, Ends PROVE LexInv'
<1> DEFINE t == Token("EndOfFile", position, position)
<1>1. /\ state \in {"Normal", "Stopped"} /\ state' = "Finished"
      /\ tokens' = Append(tokens, t)
      /\ UNCHANGED <<text, options, position, open, pending, had_errors, reported>>
  BY DEF Ends
<1>2. Size' = Size /\ TokenRecord' = TokenRecord
  BY <1>1, SameText
<1>3. ~ Reading /\ ~ Reading' /\ Frontier = position /\ Frontier' = position
  BY <1>1 DEF Reading, Frontier
<1>4. pending = <<>> /\ open = NoScan /\ position \in 0..Size /\ Size \in Nat
  BY <1>3, Now DEF LexInv, ScanInv
<1>5. "EndOfFile" \in TokenTypes
  BY DEF TokenTypes
<1>6. t \in TokenRecord /\ t.start = position /\ t.end = position
  BY <1>4, <1>5, TokenIs
<1> HIDE DEF t
<1>7. /\ tokens' \in Seq(TokenRecord) /\ Len(tokens') = Len(tokens) + 1
      /\ Len(tokens) \in Nat
      /\ \A i \in 1..Len(tokens) : tokens'[i] = tokens[i]
      /\ tokens'[Len(tokens) + 1] = t
  BY <1>1, <1>6, TokensNow
<1>8. TypeOK'
  BY <1>1, <1>2, <1>7 DEF LexInv, TypeOK
<1>9. ScanInv'
  BY <1>1, <1>3, <1>4 DEF ScanInv
<1>10. TokensBehind'
  <2>1. ASSUME NEW j \in 1..Len(tokens')
        PROVE  tokens'[j].start <= tokens'[j].end /\ tokens'[j].end <= position
    <3>1. CASE j \in 1..Len(tokens)
      BY <1>7, <3>1, TokensNow
    <3>2. CASE j = Len(tokens) + 1
      BY <1>4, <1>6, <1>7, <3>2
    <3>3. QED
      BY <1>7, <2>1, <3>1, <3>2
  <2>2. QED
    BY <1>3, <2>1 DEF TokensBehind
<1>11. PendingInside'
  BY <1>1, <1>4, NothingPending
<1>12. QED
  BY <1>8, <1>9, <1>10, <1>11 DEF LexInv

(* The invariant holds at first. *)
LEMMA LexInvInit == Init => LexInv
<1> SUFFICES ASSUME Init PROVE LexInv
  OBVIOUS
<1>1. /\ text \in Texts /\ options \in Options /\ position = 0 /\ state = "Normal"
      /\ open = NoScan /\ pending = <<>> /\ tokens = <<>> /\ had_errors = FALSE /\ reported = 0
  BY DEF Init
<1>2. Size \in Nat
  BY <1>1, Peeked
<1>3. NoScan \in [start : 0..Size, depth : Nat, failed : BOOLEAN] /\ position \in 0..Size
  BY <1>1, <1>2 DEF NoScan
<1>4. pending \in Seq(TokenRecord) /\ tokens \in Seq(TokenRecord)
  BY <1>1
<1>5. had_errors \in BOOLEAN /\ reported \in Nat
  BY <1>1
<1>6. TypeOK
  BY <1>1, <1>3, <1>4, <1>5 DEF TypeOK
<1>7. ScanInv
  BY <1>1 DEF ScanInv, Reading
<1>8. 1..Len(tokens) = {} /\ 1..Len(pending) = {}
  BY <1>1
<1>9. TokensBehind /\ PendingInside
  BY <1>8 DEF TokensBehind, PendingInside
<1>10. QED
  BY <1>6, <1>7, <1>9 DEF LexInv

(* Every step keeps it. *)
LEMMA LexInvNext == LexInv /\ [Next]_vars => LexInv'
<1> SUFFICES ASSUME LexInv, [Next]_vars PROVE LexInv'
  OBVIOUS
<1>1. Step
  BY NextSteps
<1>2. CASE Stays
  BY <1>2 DEF Stays, vars, LexInv, TypeOK, ScanInv, TokensBehind, PendingInside, Reading, Frontier,
              Size, Char, TokenRecord
<1>3. QED
  BY <1>1, <1>2, EmitsKeeps, SkipsKeeps, OpensKeeps, TurnsKeeps, RefusesKeeps, CutsOffKeeps,
     EndsKeeps DEF Step

(* So it always holds. *)
LEMMA LexInvAlways == Spec => []LexInv
<1>1. QED
  BY LexInvInit, LexInvNext, PTL DEF Spec

(* Every variable of the lexer keeps its type: no scanner leaves the text, *)
(* not even behind an escape at its end.                                   *)
THEOREM TypeCorrect == Spec => []TypeOK
<1>1. LexInv => TypeOK
  BY DEF LexInv
<1>2. QED
  BY <1>1, LexInvAlways, PTL

-----------------------------------------------------------------------------
(* The tokens a step leaves behind. *)

(* What emitting adds to the tokens. *)
LEMMA EmittedTokens ==
  ASSUME LexInv, NEW t \in TokenRecord, Emits(t)
  PROVE  /\ tokens' \in Seq(TokenRecord) /\ Len(tokens') = Len(tokens) + Len(pending) + 1
         /\ \A i \in 1..Len(tokens) : tokens'[i] = tokens[i]
         /\ \A i \in 1..Len(pending) : tokens'[Len(tokens) + i] = pending[i]
         /\ tokens'[Len(tokens')] = t
         /\ \A j \in 1..Len(tokens') :
              \/ j \in 1..Len(tokens)
              \/ /\ j - Len(tokens) \in 1..Len(pending) /\ j > Len(tokens)
                 /\ tokens'[j] = pending[j - Len(tokens)]
              \/ j = Len(tokens') /\ tokens'[j] = t
<1>1. tokens' = tokens \o pending \o <<t>>
  BY DEF Emits
<1>2. tokens \in Seq(TokenRecord) /\ pending \in Seq(TokenRecord)
  BY TokensNow
<1>3. /\ tokens' \in Seq(TokenRecord) /\ Len(tokens') = Len(tokens) + Len(pending) + 1
      /\ \A i \in 1..Len(tokens) : tokens'[i] = tokens[i]
      /\ \A i \in 1..Len(pending) : tokens'[Len(tokens) + i] = pending[i]
      /\ tokens'[Len(tokens')] = t
  BY <1>1, <1>2, Joined
<1>4. \A j \in 1..Len(tokens') :
        \/ j \in 1..Len(tokens)
        \/ /\ j - Len(tokens) \in 1..Len(pending) /\ j > Len(tokens)
           /\ tokens'[j] = pending[j - Len(tokens)]
        \/ j = Len(tokens') /\ tokens'[j] = t
  BY <1>1, <1>2, Joined
<1>5. QED
  BY <1>3, <1>4

(* What the end adds to them. *)
LEMMA EndedTokens ==
  ASSUME LexInv, Ends
  PROVE  /\ tokens' \in Seq(TokenRecord) /\ Len(tokens') = Len(tokens) + 1
         /\ \A i \in 1..Len(tokens) : tokens'[i] = tokens[i]
         /\ tokens'[Len(tokens) + 1].type = "EndOfFile"
         /\ tokens'[Len(tokens) + 1].start = position
         /\ pending = <<>> /\ Frontier = position /\ ~ Reading
<1> DEFINE t == Token("EndOfFile", position, position)
<1>1. state \in {"Normal", "Stopped"} /\ tokens' = Append(tokens, t)
  BY DEF Ends
<1>2. ~ Reading /\ Frontier = position
  BY <1>1 DEF Reading, Frontier
<1>3. pending = <<>> /\ position \in 0..Size
  BY <1>2, Now DEF LexInv, ScanInv
<1>4. "EndOfFile" \in TokenTypes
  BY DEF TokenTypes
<1>5. t \in TokenRecord /\ t.type = "EndOfFile" /\ t.start = position
  BY <1>3, <1>4, TokenIs
<1> HIDE DEF t
<1>6. QED
  BY <1>1, <1>2, <1>3, <1>5, TokensNow

(* Pending tokens are inside of a string that failed. *)
LEMMA PendingFailed ==
  ASSUME LexInv, NEW i \in 1..Len(pending)
  PROVE  state = "InsideString" /\ open.failed /\ Reading
<1>1. pending # <<>>
  OBVIOUS
<1>2. state = "InsideString"
  BY <1>1, Now
<1>3. QED
  BY <1>1, <1>2 DEF LexInv, ScanInv, Reading

(* Steps that emit nothing leave the tokens. *)
LEMMA TokensSteps ==
  ASSUME LexInv, [Next]_vars
  PROVE  /\ UNCHANGED text
         /\ \/ \E t \in TokenRecord : Emits(t)
            \/ Ends
            \/ UNCHANGED tokens
<1>1. Step
  BY NextSteps
<1>2. QED
  BY <1>1 DEF Step, Emits, Skips, Opens, Turns, Refuses, CutsOff, Ends, Stays, vars

-----------------------------------------------------------------------------
(* Tokens come in the order of the text. *)

(* The one exception is a refused escape and the string it is inside of. *)
InOrder(earlier, later) ==
  \/ earlier.end <= later.start
  \/ /\ earlier.type = "Error" /\ ~ later.valid
     /\ Char(later.start) = "\""
     /\ later.start < earlier.start /\ earlier.end <= later.end

(* TokensInOrder says this of every pair. *)
LEMMA OrderOfPairs ==
  TokensInOrder <=>
    \A j \in 1..Len(tokens) : \A i \in 1..(j - 1) : InOrder(tokens[i], tokens[j])
  BY DEF TokensInOrder, InOrder

(* An emitted token keeps the order. *)
LEMMA EmitsInOrder ==
  ASSUME LexInv, TokensInOrder, NEW t \in TokenRecord, Emits(t)
  PROVE  \A j \in 1..Len(tokens') : \A i \in 1..(j - 1) : InOrder(tokens'[i], tokens'[j])
<1> SUFFICES ASSUME NEW j \in 1..Len(tokens'), NEW i \in 1..(j - 1)
             PROVE  InOrder(tokens'[i], tokens'[j])
  OBVIOUS
<1>1. Len(tokens) \in Nat /\ Len(pending) \in Nat /\ Len(tokens') \in Nat
  BY TokensNow, EmittedTokens
<1>2. i \in 1..Len(tokens') /\ i < j
  BY <1>1
<1>3. CASE j \in 1..Len(tokens)
  <2>1. tokens'[j] = tokens[j] /\ tokens'[i] = tokens[i]
    BY <1>1, <1>3, EmittedTokens
  <2>2. QED
    BY <1>3, <2>1, OrderOfPairs
<1>4. CASE /\ j - Len(tokens) \in 1..Len(pending) /\ j > Len(tokens)
           /\ tokens'[j] = pending[j - Len(tokens)]
  <2> DEFINE k == j - Len(tokens)
  <2>1. k \in 1..Len(pending) /\ tokens'[j] = pending[k]
    BY <1>4
  <2>2. j # Len(tokens')
    BY <1>1, <1>4, EmittedTokens
  <2>3. CASE i \in 1..Len(tokens)
    <3>1. tokens'[i] = tokens[i] /\ tokens[i].end <= Frontier /\ tokens[i].end \in 0..Size
      BY <2>3, EmittedTokens, TokensNow
    <3>2. Frontier = open.start /\ open.start \in 0..Size /\ Size \in Nat
      BY <2>1, PendingFailed, Now
    <3>3. open.start < pending[k].start /\ pending[k].start \in 0..Size
      BY <2>1, TokensNow
    <3>4. tokens'[i].end <= tokens'[j].start
      BY <2>1, <3>1, <3>2, <3>3
    <3>5. QED
      BY <3>4 DEF InOrder
  <2>4. CASE i - Len(tokens) \in 1..Len(pending) /\ tokens'[i] = pending[i - Len(tokens)]
    <3>1. i - Len(tokens) \in 1..(k - 1)
      BY <1>1, <1>2, <2>4
    <3>2. pending[i - Len(tokens)].end <= pending[k].start
      BY <2>1, <3>1 DEF LexInv, PendingInside
    <3>3. QED
      BY <2>1, <2>4, <3>2 DEF InOrder
  <2>5. QED
    BY <1>1, <1>2, <2>2, <2>3, <2>4, EmittedTokens
<1>5. CASE j = Len(tokens') /\ tokens'[j] = t
  <2>1. CASE i \in 1..Len(tokens)
    <3>1. tokens'[i] = tokens[i] /\ tokens[i].end <= Frontier /\ tokens[i].end \in 0..Size
      BY <2>1, EmittedTokens, TokensNow
    <3>2. /\ Frontier <= t.start /\ t.start \in 0..Size /\ Frontier \in 0..Size
          /\ Size \in Nat
      BY EmittedAt, Now
    <3>3. tokens'[i].end <= t.start
      BY <3>1, <3>2
    <3>4. QED
      BY <1>5, <3>3 DEF InOrder
  <2>2. CASE i - Len(tokens) \in 1..Len(pending) /\ tokens'[i] = pending[i - Len(tokens)]
    <3> DEFINE e == pending[i - Len(tokens)]
    <3>1. /\ e.type = "Error" /\ open.start < e.start /\ e.end <= position
          /\ e.start \in 0..Size /\ e.end \in 0..Size
      BY <2>2, TokensNow
    <3>2. state = "InsideString" /\ open.failed /\ Reading
      BY <2>2, PendingFailed
    <3>3. ~ t.valid /\ t.start = open.start /\ Char(open.start) = "\""
      BY <3>2, EmittedAt DEF Emits, LexInv, ScanInv
    <3>4. e.end <= t.end
      <4>1. /\ e.end \in Nat /\ e.end <= position /\ position \in Nat
            /\ position <= t.end /\ t.end \in Nat
        BY <3>1, EmittedAt, Now
      <4>2. QED
        BY <4>1
    <3>5. tokens'[i] = e /\ tokens'[j] = t
      BY <1>5, <2>2
    <3> HIDE DEF e
    <3>6. QED
      BY <3>1, <3>3, <3>4, <3>5 DEF InOrder
  <2>3. QED
    BY <1>1, <1>2, <1>5, <2>1, <2>2, EmittedTokens
<1>6. QED
  BY <1>3, <1>4, <1>5, EmittedTokens

(* So does the end of file. *)
LEMMA EndsInOrder ==
  ASSUME LexInv, TokensInOrder, Ends
  PROVE  \A j \in 1..Len(tokens') : \A i \in 1..(j - 1) : InOrder(tokens'[i], tokens'[j])
<1> SUFFICES ASSUME NEW j \in 1..Len(tokens'), NEW i \in 1..(j - 1)
             PROVE  InOrder(tokens'[i], tokens'[j])
  OBVIOUS
<1>1. Len(tokens) \in Nat /\ Len(tokens') = Len(tokens) + 1
  BY TokensNow, EndedTokens
<1>2. i \in 1..Len(tokens) /\ tokens'[i] = tokens[i]
  BY <1>1, EndedTokens
<1>3. CASE j \in 1..Len(tokens)
  <2>1. tokens'[j] = tokens[j]
    BY <1>3, EndedTokens
  <2>2. QED
    BY <1>2, <1>3, <2>1, OrderOfPairs
<1>4. CASE j = Len(tokens) + 1
  <2>1. tokens'[j].start = position /\ tokens[i].end <= position
    BY <1>2, <1>4, EndedTokens, TokensNow
  <2>2. QED
    BY <1>2, <2>1 DEF InOrder
<1>5. QED
  BY <1>1, <1>3, <1>4

(* Tokens do not overlap and come in the order of the text, but for the Error *)
(* tokens of refused escapes, which come before the string they are inside of. *)
THEOREM TokensKeepOrder == Spec => []TokensInOrder
<1>1. Init => TokensInOrder
  <2> SUFFICES ASSUME Init PROVE TokensInOrder
    OBVIOUS
  <2>1. 1..Len(tokens) = {}
    BY DEF Init
  <2>2. QED
    BY <2>1 DEF TokensInOrder
<1>2. LexInv /\ TokensInOrder /\ [Next]_vars => TokensInOrder'
  <2> SUFFICES ASSUME LexInv, TokensInOrder, [Next]_vars PROVE TokensInOrder'
    OBVIOUS
  <2>1. UNCHANGED text
    BY TokensSteps
  <2>2. \A o : Char(o)' = Char(o)
    BY <2>1, SameText
  <2>3. CASE UNCHANGED tokens
    BY <2>2, <2>3 DEF TokensInOrder, Char, Size
  <2>4. CASE (\E t \in TokenRecord : Emits(t)) \/ Ends
    <3>1. \A j \in 1..Len(tokens') : \A i \in 1..(j - 1) : InOrder(tokens'[i], tokens'[j])
      BY <2>4, EmitsInOrder, EndsInOrder
    <3>2. QED
      BY <2>1, <3>1 DEF TokensInOrder, InOrder, Char, Size
  <2>5. QED
    BY <2>3, <2>4, TokensSteps
<1>3. QED
  BY <1>1, <1>2, LexInvAlways, PTL DEF Spec

-----------------------------------------------------------------------------
(* Failures are told. *)

(* All tokens that were made so far. *)
Said == tokens \o pending

Errors(s) == {i \in 1..Len(s) : s[i].type = "Error"}

(* One more token is one more Error at most. *)
LEMMA OneMore ==
  ASSUME NEW S, NEW s \in Seq(S), NEW t \in S, NEW q, q = Append(s, t)
  PROVE  /\ Cardinality(Errors(s)) \in Nat
         /\ Cardinality(Errors(q)) =
              IF t.type = "Error" THEN Cardinality(Errors(s)) + 1 ELSE Cardinality(Errors(s))
<1>1. /\ Len(s) \in Nat /\ Len(q) = Len(s) + 1 /\ q[Len(s) + 1] = t
      /\ \A i \in 1..Len(s) : q[i] = s[i]
  OBVIOUS
<1>2. IsFiniteSet(1..Len(s))
  BY <1>1, FS_Interval
<1>3. Errors(s) \in SUBSET (1..Len(s))
  BY DEF Errors
<1>4. IsFiniteSet(Errors(s)) /\ Len(s) + 1 \notin Errors(s)
  BY <1>1, <1>2, <1>3, FS_Subset
<1>5. Cardinality(Errors(s)) \in Nat
  BY <1>4, FS_CardinalityType
<1>6. CASE t.type = "Error"
  <2>1. Errors(q) = Errors(s) \union {Len(s) + 1}
    BY <1>1, <1>6 DEF Errors
  <2>2. QED
    BY <1>4, <1>5, <1>6, <2>1, FS_AddElement
<1>7. CASE t.type # "Error"
  <2>1. Errors(q) = Errors(s)
    BY <1>1, <1>7 DEF Errors
  <2>2. QED
    BY <1>5, <1>7, <2>1
<1>8. QED
  BY <1>6, <1>7

(* Sequences put together one element later. *)
LEMMA JoinedLater ==
  ASSUME NEW S, NEW s \in Seq(S), NEW p \in Seq(S), NEW t \in S
  PROVE  /\ s \o p \in Seq(S)
         /\ (s \o p \o <<t>>) \o <<>> = Append(s \o p, t)
         /\ s \o Append(p, t) = Append(s \o p, t)
         /\ Append(s, t) \o <<>> = Append(s \o <<>>, t)
<1>1. s \o p \in Seq(S) /\ s \o p \o <<t>> \in Seq(S) /\ Append(p, t) \in Seq(S)
  OBVIOUS
<1>2. s \o p \o <<t>> = Append(s \o p, t)
  BY <1>1
<1>3. s \o Append(p, t) = Append(s \o p, t)
  BY <1>1
<1>4. (s \o p \o <<t>>) \o <<>> = s \o p \o <<t>>
  BY <1>1
<1>5. Append(s, t) \o <<>> = Append(s, t) /\ s \o <<>> = s
  OBVIOUS
<1>6. QED
  BY <1>1, <1>2, <1>3, <1>4, <1>5

(* A step makes one token, which is told if it is an Error, or none. *)
LEMMA ToldSteps ==
  ASSUME LexInv, [Next]_vars
  PROVE  /\ Said \in Seq(TokenRecord) /\ UNCHANGED text
         /\ \/ \E t \in TokenRecord :
                 /\ Said' = Append(Said, t)
                 /\ IF t.type = "Error" THEN had_errors' = TRUE /\ reported' = reported + 1
                                        ELSE UNCHANGED <<had_errors, reported>>
            \/ Said' = Said /\ UNCHANGED <<had_errors, reported>>
            \/ CutsOff /\ Said' = Said /\ had_errors' = TRUE /\ UNCHANGED reported
<1>1. tokens \in Seq(TokenRecord) /\ pending \in Seq(TokenRecord)
  BY TokensNow
<1>2. Said \in Seq(TokenRecord)
  BY <1>1 DEF Said
<1>3. UNCHANGED text
  BY TokensSteps
<1>4. CASE \E t \in TokenRecord : Emits(t)
  <2>1. PICK t \in TokenRecord : Emits(t)
    BY <1>4
  <2>2. /\ tokens' = tokens \o pending \o <<t>> /\ pending' = <<>>
        /\ IF t.type = "Error" THEN had_errors' = TRUE /\ reported' = reported + 1
                               ELSE UNCHANGED <<had_errors, reported>>
    BY <2>1 DEF Emits
  <2>3. Said' = (tokens \o pending \o <<t>>) \o <<>>
    BY <2>2 DEF Said
  <2>4. Said' = Append(Said, t)
    BY <1>1, <2>3, JoinedLater DEF Said
  <2>5. QED
    BY <1>2, <1>3, <2>2, <2>4
<1>5. CASE \E t \in TokenRecord : Refuses(t)
  <2>1. PICK t \in TokenRecord : Refuses(t)
    BY <1>5
  <2>2. /\ tokens' = tokens /\ pending' = Append(pending, t) /\ t.type = "Error"
        /\ had_errors' = TRUE /\ reported' = reported + 1
    BY <2>1 DEF Refuses
  <2>3. Said' = tokens \o Append(pending, t)
    BY <2>2 DEF Said
  <2>4. Said' = Append(Said, t)
    BY <1>1, <2>3, JoinedLater DEF Said
  <2>5. QED
    BY <1>2, <1>3, <2>2, <2>4
<1>6. CASE Ends
  <2> DEFINE t == Token("EndOfFile", position, position)
  <2>1. /\ tokens' = Append(tokens, t) /\ pending' = pending
        /\ UNCHANGED <<had_errors, reported>>
    BY <1>6 DEF Ends
  <2>2. pending = <<>> /\ position \in 0..Size
    BY <1>6, EndedTokens, Now
  <2>3. "EndOfFile" \in TokenTypes
    BY DEF TokenTypes
  <2>4. t \in TokenRecord /\ t.type = "EndOfFile"
    BY <2>2, <2>3, TokenIs
  <2> HIDE DEF t
  <2>5. Said' = Append(tokens, t) \o <<>> /\ Said = tokens \o <<>>
    BY <2>1, <2>2 DEF Said
  <2>6. Said' = Append(Said, t)
    BY <1>1, <2>4, <2>5, JoinedLater
  <2>7. t.type # "Error"
    BY <2>4
  <2>8. QED
    BY <1>2, <1>3, <2>1, <2>4, <2>6, <2>7
<1>7. CASE Skips \/ Opens \/ Turns \/ Stays
  <2>1. UNCHANGED <<tokens, pending, had_errors, reported>>
    BY <1>7 DEF Skips, Opens, Turns, Stays, vars
  <2>2. QED
    BY <1>2, <1>3, <2>1 DEF Said
<1>8. CASE CutsOff
  <2>1. UNCHANGED <<tokens, pending, reported>> /\ had_errors' = TRUE
    BY <1>8 DEF CutsOff
  <2>2. QED
    BY <1>2, <1>3, <1>8, <2>1 DEF Said
<1>9. QED
  BY <1>4, <1>5, <1>6, <1>7, <1>8, NextSteps DEF Step

(* The text ends in the quote and the backslash of a character literal. *)
CutShort == Size > 1 /\ Slice(Size - 2, Size) = <<"'", "\\">>

(* Where a literal is cut off, the text ends so. *)
LEMMA CutsShort ==
  ASSUME text \in Texts, NEW o \in Nat, o + 2 = Size, Char(o) = "'", Char(o + 1) = "\\"
  PROVE  CutShort
<1>1. text \in Seq(Alphabet) /\ Size = Len(text) /\ Size \in Nat
  BY TextsAssumption, Peeked DEF Size
<1>2. Size > 1 /\ Size - 2 = o /\ o < Size /\ o + 1 < Size /\ o + 1 \in Nat
  BY <1>1
<1>3. text[o + 1] = "'" /\ text[(o + 1) + 1] = "\\"
  BY <1>2 DEF Char
<1>4. (o + 1) + 1 = o + 2
  OBVIOUS
<1> DEFINE two == SubSeq(text, o + 1, o + 2)
<1>5. /\ Len(two) = 2 /\ two[1] = text[o + 1] /\ two[2] = text[o + 2]
      /\ two \in Seq(Alphabet)
  BY <1>1, <1>2
<1>6. two = Slice(Size - 2, Size)
  BY <1>1, <1>2 DEF Slice
<1> HIDE DEF two
<1>7. two = <<two[1], two[2]>>
  BY <1>5
<1>8. two = <<"'", "\\">>
  BY <1>3, <1>4, <1>5, <1>7
<1>9. QED
  BY <1>2, <1>6, <1>8 DEF CutShort

(* What was reported are the Error tokens; only a literal cut off is not. *)
ErrorsTold ==
  /\ reported = Cardinality(Errors(Said))
  /\ reported > 0 => had_errors
  /\ had_errors => reported > 0 \/ CutShort

(* Every step keeps the count. *)
LEMMA ErrorsToldNext == LexInv /\ ErrorsTold /\ [Next]_vars => ErrorsTold'
<1> SUFFICES ASSUME LexInv, ErrorsTold, [Next]_vars PROVE ErrorsTold'
  OBVIOUS
<1>1. UNCHANGED text /\ Said \in Seq(TokenRecord)
  BY ToldSteps
<1>2. CutShort' = CutShort
  BY <1>1, SameText DEF CutShort, Slice, Size
<1>3. reported \in Nat
  BY DEF LexInv, TypeOK
<1>4. CASE \E t \in TokenRecord :
             /\ Said' = Append(Said, t)
             /\ IF t.type = "Error" THEN had_errors' = TRUE /\ reported' = reported + 1
                                    ELSE UNCHANGED <<had_errors, reported>>
  <2>1. PICK t \in TokenRecord :
             /\ Said' = Append(Said, t)
             /\ IF t.type = "Error" THEN had_errors' = TRUE /\ reported' = reported + 1
                                    ELSE UNCHANGED <<had_errors, reported>>
    BY <1>4
  <2>2. Cardinality(Errors(Said')) =
          IF t.type = "Error" THEN Cardinality(Errors(Said)) + 1 ELSE Cardinality(Errors(Said))
    BY <1>1, <2>1, OneMore
  <2>3. Errors(Said)' = Errors(Said')
    BY DEF Errors
  <2>4. CASE t.type = "Error"
    <3>1. had_errors' = TRUE /\ reported' = reported + 1
      BY <2>1, <2>4
    <3>2. reported' = Cardinality(Errors(Said)') /\ reported' > 0
      BY <1>3, <2>2, <2>3, <2>4, <3>1 DEF ErrorsTold
    <3>3. QED
      BY <3>1, <3>2 DEF ErrorsTold
  <2>5. CASE t.type # "Error"
    <3>1. UNCHANGED <<had_errors, reported>>
      BY <2>1, <2>5
    <3>2. QED
      BY <1>2, <2>2, <2>3, <2>5, <3>1 DEF ErrorsTold
  <2>6. QED
    BY <2>4, <2>5
<1>5. CASE Said' = Said /\ UNCHANGED <<had_errors, reported>>
  <2>1. Errors(Said)' = Errors(Said)
    BY <1>5 DEF Errors
  <2>2. QED
    BY <1>2, <1>5, <2>1 DEF ErrorsTold
<1>6. CASE CutsOff /\ Said' = Said /\ had_errors' = TRUE /\ UNCHANGED reported
  <2>1. Errors(Said)' = Errors(Said)
    BY <1>6 DEF Errors
  <2>2. position \in Nat /\ text \in Texts
    BY Now
  <2>3. CutShort
    BY <1>6, <2>2, CutsShort DEF CutsOff
  <2>4. QED
    BY <1>2, <1>6, <2>1, <2>3 DEF ErrorsTold
<1>7. QED
  BY <1>4, <1>5, <1>6, ToldSteps

(* An invalid string has a refused escape inside, a valid one has none. *)
StringsTold ==
  \A i \in 1..Len(tokens) : tokens[i].type = "String" =>
    (~ tokens[i].valid <=> \E j \in 1..(i - 1) :
                             tokens[j].type = "Error" /\ tokens[j].start > tokens[i].start)

(* The refused escapes of a string are the pending tokens as it ends. *)
LEMMA StringEmitted ==
  ASSUME LexInv, NEW t \in TokenRecord, Emits(t), t.type = "String"
  PROVE  ~ t.valid <=> \E j \in 1..(Len(tokens') - 1) :
                         tokens'[j].type = "Error" /\ tokens'[j].start > t.start
<1>1. state = "InsideString" /\ position < Size /\ (t.valid <=> ~ open.failed)
  BY DEF Emits
<1>2. /\ t.start = open.start /\ Frontier = open.start /\ open.start \in 0..Size
      /\ Size \in Nat /\ position \in 0..Size /\ Reading
  BY <1>1, InString, EmittedAt
<1>3. pending # <<>> <=> open.failed
  <2>1. position # Size
    BY <1>1, <1>2
  <2>2. QED
    BY <1>1, <2>1 DEF LexInv, ScanInv
<1>4. Len(tokens) \in Nat /\ Len(pending) \in Nat
      /\ Len(tokens') = Len(tokens) + Len(pending) + 1
  BY TokensNow, EmittedTokens
<1>5. ASSUME open.failed
      PROVE  \E j \in 1..(Len(tokens') - 1) :
               tokens'[j].type = "Error" /\ tokens'[j].start > t.start
  <2>1. 1 \in 1..Len(pending)
    BY <1>3, <1>4, <1>5, TokensNow
  <2>2. tokens'[Len(tokens) + 1] = pending[1]
    BY <2>1, EmittedTokens
  <2>3. /\ pending[1].type = "Error" /\ open.start < pending[1].start
        /\ pending[1].start \in 0..Size
    BY <2>1, TokensNow
  <2>4. Len(tokens) + 1 \in 1..(Len(tokens') - 1)
    BY <1>4, <2>1
  <2>5. pending[1].start > t.start
    BY <1>2, <2>3
  <2>6. QED
    BY <2>2, <2>3, <2>4, <2>5
<1>6. ASSUME ~ open.failed, NEW j \in 1..(Len(tokens') - 1), tokens'[j].start > t.start
      PROVE  FALSE
  <2>1. Len(pending) = 0
    BY <1>3, <1>6
  <2>2. j \in 1..Len(tokens)
    BY <1>4, <2>1
  <2>3. /\ tokens'[j] = tokens[j] /\ tokens[j].start \in 0..Size /\ tokens[j].end \in 0..Size
        /\ tokens[j].start <= tokens[j].end /\ tokens[j].end <= Frontier
    BY <2>2, EmittedTokens, TokensNow
  <2>4. QED
    BY <1>2, <1>6, <2>3
<1>7. QED
  BY <1>1, <1>5, <1>6

(* Every step keeps what strings tell. *)
LEMMA StringsToldNext == LexInv /\ StringsTold /\ [Next]_vars => StringsTold'
<1> SUFFICES ASSUME LexInv, StringsTold, [Next]_vars PROVE StringsTold'
  OBVIOUS
<1>1. Len(tokens) \in Nat /\ Len(pending) \in Nat
  BY TokensNow
<1>2. CASE UNCHANGED tokens
  BY <1>2 DEF StringsTold
<1>3. CASE (\E t \in TokenRecord : Emits(t)) \/ Ends
  <2> SUFFICES ASSUME NEW i \in 1..Len(tokens'), tokens'[i].type = "String"
               PROVE  ~ tokens'[i].valid <=>
                        \E j \in 1..(i - 1) : /\ tokens'[j].type = "Error"
                                              /\ tokens'[j].start > tokens'[i].start
    BY DEF StringsTold
  <2>1. /\ Len(tokens') \in Nat /\ \A j \in 1..Len(tokens) : tokens'[j] = tokens[j]
    BY <1>1, <1>3, EmittedTokens, EndedTokens
  <2>2. CASE i \in 1..Len(tokens)
    <3>1. tokens'[i] = tokens[i] /\ \A j \in 1..(i - 1) : tokens'[j] = tokens[j]
      BY <1>1, <2>1, <2>2
    <3>2. QED
      BY <2>2, <3>1 DEF StringsTold
  <2>3. CASE i \notin 1..Len(tokens)
    <3>1. ~ Ends
      BY <1>1, <2>3, EndedTokens
    <3>2. PICK t \in TokenRecord : Emits(t)
      BY <1>3, <3>1
    <3>3. i - Len(tokens) \notin 1..Len(pending) \/ tokens'[i] # pending[i - Len(tokens)]
      BY TokensNow
    <3>4. i = Len(tokens') /\ tokens'[i] = t
      BY <2>3, <3>2, <3>3, EmittedTokens
    <3>5. QED
      BY <3>2, <3>4, StringEmitted
  <2>4. QED
    BY <2>2, <2>3
<1>4. QED
  BY <1>2, <1>3, TokensSteps

(* An error that was marked was reported, and has its Error token; only a   *)
(* character literal cut off behind its backslash fails in silence.  A      *)
(* string is marked invalid exactly if an escape inside it was refused.     *)
THEOREM FailuresAreTold == Spec => []FailuresTold
<1>1. Init => ErrorsTold /\ StringsTold
  <2> SUFFICES ASSUME Init PROVE ErrorsTold /\ StringsTold
    OBVIOUS
  <2>1. tokens = <<>> /\ pending = <<>> /\ had_errors = FALSE /\ reported = 0
    BY DEF Init
  <2>2. 1..Len(tokens) = {} /\ 1..Len(Said) = {}
    BY <2>1 DEF Said
  <2>3. Cardinality(Errors(Said)) = 0
    BY <2>2, FS_EmptySet DEF Errors
  <2>4. QED
    BY <2>1, <2>2, <2>3 DEF ErrorsTold, StringsTold
<1>2. ErrorsTold /\ StringsTold => FailuresTold
  BY Zenon DEF ErrorsTold, StringsTold, FailuresTold, Errors, Said, CutShort
<1>3. QED
  BY <1>1, <1>2, ErrorsToldNext, StringsToldNext, LexInvAlways, PTL DEF Spec

-----------------------------------------------------------------------------
(* The end of file, and stopping. *)

(* Only the last token is EndOfFile, and Tokenize gives up early only if told to. *)
EndInv ==
  /\ state = "Finished" /\ options.continue_after_errors => position = Size
  /\ \A i \in 1..Len(tokens) :
       tokens[i].type = "EndOfFile" <=> state = "Finished" /\ i = Len(tokens)

(* Every step keeps it. *)
LEMMA EndInvNext == LexInv /\ EndInv /\ [Next]_vars => EndInv'
<1> SUFFICES ASSUME LexInv, EndInv, [Next]_vars PROVE EndInv'
  OBVIOUS
<1>1. Len(tokens) \in Nat /\ Len(pending) \in Nat
  BY TokensNow
<1>2. CASE \E t \in TokenRecord : Emits(t)
  <2>1. PICK t \in TokenRecord : Emits(t)
    BY <1>2
  <2>2. state # "Finished" /\ state' # "Finished" /\ t.type # "EndOfFile"
    BY <2>1 DEF Emits, Reading
  <2>3. ASSUME NEW j \in 1..Len(tokens')
        PROVE  tokens'[j].type # "EndOfFile"
    <3>1. CASE j \in 1..Len(tokens)
      BY <2>1, <2>2, <3>1, EmittedTokens DEF EndInv
    <3>2. CASE j - Len(tokens) \in 1..Len(pending) /\ tokens'[j] = pending[j - Len(tokens)]
      <4>1. pending[j - Len(tokens)].type = "Error"
        BY <3>2, TokensNow
      <4>2. QED
        BY <3>2, <4>1
    <3>3. CASE tokens'[j] = t
      BY <2>2, <3>3
    <3>4. QED
      BY <2>1, <3>1, <3>2, <3>3, EmittedTokens
  <2>4. QED
    BY <2>2, <2>3 DEF EndInv
<1>3. CASE Ends
  <2>1. /\ state \in {"Normal", "Stopped"} /\ state' = "Finished"
        /\ (state = "Normal" /\ position = Size) \/ state = "Stopped"
        /\ UNCHANGED <<text, options, position>>
    BY <1>3 DEF Ends
  <2>2. state = "Stopped" => ~ options.continue_after_errors
    BY DEF LexInv, ScanInv
  <2>3. Size' = Size
    BY <2>1 DEF Size
  <2>4. ASSUME NEW j \in 1..Len(tokens')
        PROVE  tokens'[j].type = "EndOfFile" <=> j = Len(tokens')
    <3>1. Len(tokens') = Len(tokens) + 1
      BY <1>3, EndedTokens
    <3>2. CASE j \in 1..Len(tokens)
      <4>1. tokens'[j] = tokens[j] /\ j # Len(tokens')
        BY <1>1, <1>3, <3>1, <3>2, EndedTokens
      <4>2. QED
        BY <2>1, <3>2, <4>1 DEF EndInv
    <3>3. CASE j = Len(tokens) + 1
      BY <1>3, <3>1, <3>3, EndedTokens
    <3>4. QED
      BY <1>1, <3>1, <3>2, <3>3
  <2>5. QED
    BY <2>1, <2>2, <2>3, <2>4 DEF EndInv
<1>4. CASE Skips \/ Opens \/ Turns \/ CutsOff \/ \E t \in TokenRecord : Refuses(t)
  <2>1. /\ state # "Finished" /\ state' # "Finished" /\ UNCHANGED tokens
    BY <1>4 DEF Skips, Opens, Turns, CutsOff, Refuses, Reading
  <2>2. QED
    BY <2>1 DEF EndInv
<1>5. CASE Stays
  BY <1>5 DEF Stays, vars, EndInv, Size
<1>6. QED
  BY <1>2, <1>3, <1>4, <1>5, NextSteps DEF Step

(* The last token that is not the end of file. *)
LastToken == IF state = "Finished" THEN Len(tokens) - 1 ELSE Len(tokens)

(* Told to stop, the lexer has stopped once there is a stopping Error, which *)
(* is the last token or inside of the last.                                  *)
StopInv ==
  ~ options.continue_after_errors =>
    \A i \in 1..Len(tokens) : Stopping(tokens[i]) =>
      /\ state \in {"Stopped", "Finished"}
      /\ i <= LastToken
      /\ i = LastToken \/ tokens[LastToken].start <= tokens[i].start

(* Every step keeps it. *)
LEMMA StopInvNext == LexInv /\ StopInv /\ [Next]_vars => StopInv'
<1> SUFFICES ASSUME LexInv, StopInv, [Next]_vars PROVE StopInv'
  OBVIOUS
<1>1. Len(tokens) \in Nat /\ Len(pending) \in Nat
  BY TokensNow
<1>2. CASE \E t \in TokenRecord : Emits(t)
  <2>1. PICK t \in TokenRecord : Emits(t)
    BY <1>2
  <2>2. /\ state = "Normal" \/ Reading
        /\ state' = "Normal" \/ state' = "Stopped"
        /\ UNCHANGED <<text, options>>
        /\ state' = "Normal" /\ ~ options.continue_after_errors => ~ Stopping(t) /\ ~ open.failed
    BY <2>1 DEF Emits
  <2>3. ASSUME ~ options.continue_after_errors, NEW i \in 1..Len(tokens'),
               Stopping(tokens'[i])
        PROVE  /\ state' = "Stopped"
               /\ i = Len(tokens') \/ t.start <= tokens'[i].start
    <3>1. CASE i \in 1..Len(tokens)
      <4>1. Stopping(tokens[i])
        BY <2>1, <2>3, <3>1, EmittedTokens
      <4>2. QED
        BY <2>2, <2>3, <3>1, <4>1 DEF StopInv, Reading
    <3>2. CASE i - Len(tokens) \in 1..Len(pending) /\ tokens'[i] = pending[i - Len(tokens)]
      <4>1. open.failed /\ Reading
        BY <3>2, PendingFailed
      <4>2. t.start = open.start /\ open.start \in 0..Size /\ Size \in Nat
        BY <2>1, <4>1, EmittedAt, Now
      <4>3. /\ open.start < pending[i - Len(tokens)].start
            /\ pending[i - Len(tokens)].start \in 0..Size
        BY <3>2, TokensNow
      <4>4. t.start <= tokens'[i].start
        BY <3>2, <4>2, <4>3
      <4>5. QED
        BY <2>2, <2>3, <4>1, <4>4
    <3>3. CASE i = Len(tokens') /\ tokens'[i] = t
      BY <2>2, <2>3, <3>3
    <3>4. QED
      BY <2>1, <2>3, <3>1, <3>2, <3>3, EmittedTokens
  <2>4. LastToken' = Len(tokens') /\ tokens'[Len(tokens')] = t /\ Len(tokens') \in Nat
    BY <1>1, <2>1, <2>2, EmittedTokens DEF LastToken
  <2>5. \A i \in 1..Len(tokens') : i <= Len(tokens')
    BY <2>4
  <2>6. QED
    BY <2>2, <2>3, <2>4, <2>5 DEF StopInv, Stopping, Char, Size
<1>3. CASE Ends
  <2>1. /\ state \in {"Normal", "Stopped"} /\ state' = "Finished"
        /\ UNCHANGED <<text, options, position>>
    BY <1>3 DEF Ends
  <2>2. /\ Len(tokens') = Len(tokens) + 1
        /\ \A i \in 1..Len(tokens) : tokens'[i] = tokens[i]
        /\ tokens'[Len(tokens) + 1].type = "EndOfFile"
    BY <1>3, EndedTokens
  <2>3. LastToken' = Len(tokens) /\ LastToken = Len(tokens)
    BY <1>1, <2>1, <2>2 DEF LastToken
  <2>4. ASSUME ~ options.continue_after_errors, NEW i \in 1..Len(tokens'),
               Stopping(tokens'[i])
        PROVE  /\ i \in 1..Len(tokens)
               /\ i = Len(tokens) \/ tokens'[Len(tokens)].start <= tokens'[i].start
    <3>1. i # Len(tokens) + 1
      BY <2>2, <2>4 DEF Stopping
    <3>2. i \in 1..Len(tokens) /\ Len(tokens) \in 1..Len(tokens)
      BY <1>1, <2>2, <3>1
    <3>3. Stopping(tokens[i]) /\ tokens'[i] = tokens[i] /\ tokens'[Len(tokens)] = tokens[Len(tokens)]
      BY <2>2, <2>4, <3>2
    <3>4. i = LastToken \/ tokens[LastToken].start <= tokens[i].start
      BY <2>4, <3>2, <3>3 DEF StopInv
    <3>5. QED
      BY <2>3, <3>2, <3>3, <3>4
  <2>5. \A i \in 1..Len(tokens) : i <= Len(tokens)
    BY <1>1
  <2>6. QED
    BY <2>1, <2>3, <2>4, <2>5 DEF StopInv, Stopping, Char, Size
<1>4. CASE UNCHANGED tokens /\ ~ Stays
  <2>1. Skips \/ Opens \/ Turns \/ CutsOff \/ \E t \in TokenRecord : Refuses(t)
    <3>1. ~ Ends
      <4>1. Ends => Len(tokens') = Len(tokens) + 1
        BY EndedTokens
      <4>2. QED
        BY <1>1, <1>4, <4>1
    <3>2. \A t \in TokenRecord : ~ Emits(t)
      <4>1. \A t \in TokenRecord : Emits(t) => Len(tokens') = Len(tokens) + Len(pending) + 1
        BY EmittedTokens
      <4>2. QED
        BY <1>1, <1>4, <4>1
    <3>3. QED
      BY <1>4, <3>1, <3>2, NextSteps DEF Step
  <2>2. state \notin {"Stopped", "Finished"} /\ UNCHANGED <<text, options>>
    BY <2>1 DEF Skips, Opens, Turns, CutsOff, Refuses, Reading
  <2>3. ~ options.continue_after_errors => \A i \in 1..Len(tokens) : ~ Stopping(tokens[i])
    BY <2>2 DEF StopInv
  <2>4. QED
    BY <1>4, <2>2, <2>3 DEF StopInv, Stopping, Char, Size
<1>5. CASE Stays
  BY <1>5 DEF Stays, vars, StopInv, Stopping, LastToken, Char, Size
<1>6. QED
  BY <1>2, <1>3, <1>4, <1>5, TokensSteps

(* Where starts of tokens are greater from j on than at i, and the last before *)
(* the end is i or starts no later, only the end is left.                      *)
LEMMA OnlyEndLeft ==
  ASSUME NEW n \in Nat, NEW s \in [1..n -> Nat], NEW last \in {n, n - 1},
         NEW j \in 1..n, NEW i \in 1..(j - 1),
         i <= last, i = last \/ s[last] <= s[i], \A k \in j..n : s[k] > s[i]
  PROVE  last = n - 1 /\ j = n
<1>1. last < j
  <2>1. CASE i = last
    BY <2>1
  <2>2. CASE s[last] <= s[i]
    <3>1. last \in 1..n /\ s[last] \in Nat /\ s[i] \in Nat
      OBVIOUS
    <3>2. last \notin j..n
      BY <2>2, <3>1
    <3>3. QED
      BY <3>1, <3>2
  <2>3. QED
    BY <2>1, <2>2
<1>2. QED
  BY <1>1

(* Behind a stopping Error comes the end of file, unless a token that begins *)
(* no later is still to come.                                               *)
LEMMA StopsThen == LexInv /\ EndInv /\ StopInv => StopsAtError
<1>1. ASSUME LexInv, EndInv, StopInv, ~ options.continue_after_errors,
             NEW j \in 1..Len(tokens), NEW i \in 1..(j - 1), Stopping(tokens[i]),
             \A k \in j..Len(tokens) : tokens[k].start > tokens[i].start
      PROVE  tokens[j].type = "EndOfFile"
  <2> DEFINE starts == [k \in 1..Len(tokens) |-> tokens[k].start]
  <2>1. Len(tokens) \in Nat /\ Size \in Nat
    BY <1>1, Now, TokensNow
  <2>2. i \in 1..Len(tokens)
    BY <2>1
  <2>3. \A k \in 1..Len(tokens) : tokens[k].start \in Nat
    BY <1>1, <2>1, TokensNow
  <2>4. starts \in [1..Len(tokens) -> Nat] /\ \A k \in 1..Len(tokens) : starts[k] = tokens[k].start
    BY <2>3
  <2> HIDE DEF starts
  <2>5. LastToken \in {Len(tokens), Len(tokens) - 1}
    BY DEF LastToken
  <2>6. /\ i <= LastToken
        /\ i = LastToken \/ tokens[LastToken].start <= tokens[i].start
    BY <1>1, <2>2 DEF StopInv
  <2>7. i = LastToken \/ starts[LastToken] <= starts[i]
    <3>1. LastToken \in 1..Len(tokens)
      BY <2>1, <2>2, <2>5, <2>6
    <3>2. QED
      BY <2>2, <2>4, <2>6, <3>1
  <2>8. \A k \in j..Len(tokens) : starts[k] > starts[i]
    <3>1. \A k \in j..Len(tokens) : k \in 1..Len(tokens)
      BY <2>1
    <3>2. QED
      BY <1>1, <2>2, <2>4, <3>1
  <2>9. LastToken = Len(tokens) - 1 /\ j = Len(tokens)
    BY <2>1, <2>4, <2>5, <2>6, <2>7, <2>8, OnlyEndLeft
  <2>10. state = "Finished"
    BY <2>1, <2>9 DEF LastToken
  <2>11. QED
    BY <1>1, <2>9, <2>10 DEF EndInv
<1>2. QED
  BY <1>1, Zenon DEF StopsAtError, Stopping

(* With continue_after_errors off nothing is scanned behind a scanner's     *)
(* Error result, the string a refused escape is inside of being one scan;   *)
(* only a character that no scanner knows does not stop the lexer.          *)
THEOREM ErrorsStop == Spec => []StopsAtError
<1>1. Init => EndInv /\ StopInv
  <2> SUFFICES ASSUME Init PROVE EndInv /\ StopInv
    OBVIOUS
  <2>1. state = "Normal" /\ 1..Len(tokens) = {}
    BY DEF Init
  <2>2. QED
    BY <2>1 DEF EndInv, StopInv
<1>2. QED
  BY <1>1, EndInvNext, StopInvNext, StopsThen, LexInvAlways, PTL DEF Spec

-----------------------------------------------------------------------------
(* Nothing is lost. *)

(* The offset is in a token, or it is the quote of a character literal whose *)
(* escape was refused, or the backslash it was cut off behind.               *)
Kept(offset) ==
  \/ \E i \in 1..Len(tokens) : tokens[i].start <= offset /\ offset < tokens[i].end
  \/ Char(offset) = "'" /\ Char(offset + 1) = "\\"
  \/ offset + 1 = Size /\ Size > 1 /\ Slice(Size - 2, Size) = <<"'", "\\">>

(* With trivia included all offsets before the scan in progress are kept. *)
KeptInv == options.include_trivia => \A offset \in 0..(Frontier - 1) : Kept(offset)

(* What was kept stays kept while tokens are only added. *)
LEMMA StaysKept ==
  ASSUME UNCHANGED text, NEW offset, Kept(offset),
         Len(tokens) \in Nat, Len(tokens') \in Nat, Len(tokens) <= Len(tokens'),
         \A i \in 1..Len(tokens) : tokens'[i] = tokens[i]
  PROVE  Kept(offset)'
<1>1. /\ Size' = Size /\ Char(offset)' = Char(offset) /\ Char(offset + 1)' = Char(offset + 1)
      /\ Slice(Size - 2, Size)' = Slice(Size - 2, Size)
  BY DEF Size, Char, Slice
<1>2. CASE \E i \in 1..Len(tokens) : tokens[i].start <= offset /\ offset < tokens[i].end
  <2>1. PICK i \in 1..Len(tokens) : tokens[i].start <= offset /\ offset < tokens[i].end
    BY <1>2
  <2>2. i \in 1..Len(tokens') /\ tokens'[i] = tokens[i]
    OBVIOUS
  <2>3. tokens'[i].start <= offset /\ offset < tokens'[i].end
    BY <2>1, <2>2
  <2>4. QED
    BY <2>2, <2>3 DEF Kept
<1>3. CASE ~ \E i \in 1..Len(tokens) : tokens[i].start <= offset /\ offset < tokens[i].end
  BY <1>1, <1>3, Zenon DEF Kept
<1>4. QED
  BY <1>2, <1>3

(* An emitted token covers what was passed since the scan began. *)
LEMMA EmitsKept ==
  ASSUME LexInv, KeptInv, options.include_trivia, NEW t \in TokenRecord, Emits(t),
         NEW offset \in 0..(t.end - 1)
  PROVE  Kept(offset)'
<1>1. UNCHANGED text /\ Len(tokens') \in Nat /\ tokens'[Len(tokens')] = t
      /\ Len(tokens) \in Nat /\ Len(tokens') = Len(tokens) + Len(pending) + 1
      /\ Len(pending) \in Nat
      /\ \A i \in 1..Len(tokens) : tokens'[i] = tokens[i]
  BY EmittedTokens, TokensNow DEF Emits
<1>2. /\ t.start \in 0..Size /\ t.end \in 0..Size /\ Size \in Nat /\ Frontier \in 0..Size
      /\ offset \in Nat
  BY EmittedAt, Now
<1>3. CASE offset < Frontier
  <2>1. offset \in 0..(Frontier - 1)
    BY <1>2, <1>3
  <2>2. Kept(offset)
    BY <2>1 DEF KeptInv
  <2>3. QED
    BY <1>1, <2>2, StaysKept
<1>4. CASE t.start <= offset
  <2>1. tokens'[Len(tokens')].start <= offset /\ offset < tokens'[Len(tokens')].end
    BY <1>1, <1>2, <1>4
  <2>2. Len(tokens') \in 1..Len(tokens')
    BY <1>1
  <2>3. QED
    BY <2>1, <2>2 DEF Kept
<1>5. CASE ~ (offset < Frontier) /\ ~ (t.start <= offset)
  <2>1. t.start # Frontier
    BY <1>2, <1>5
  <2>2. /\ t.start = position + 1 /\ ~ Reading
        /\ Char(position) = "'" /\ Char(position + 1) = "\\"
    BY <2>1 DEF Emits
  <2>3. Frontier = position
    BY <2>2 DEF Frontier
  <2>4. offset = position
    BY <1>2, <1>5, <2>2, <2>3
  <2>5. Char(offset)' = "'" /\ Char(offset + 1)' = "\\"
    BY <1>1, <2>2, <2>4 DEF Char, Size
  <2>6. QED
    BY <2>5, Zenon DEF Kept
<1>6. QED
  BY <1>3, <1>4, <1>5

(* Every step keeps what was kept. *)
LEMMA KeptInvNext == LexInv /\ KeptInv /\ [Next]_vars => KeptInv'
<1> SUFFICES ASSUME LexInv, KeptInv, [Next]_vars PROVE KeptInv'
  OBVIOUS
<1>1. /\ Len(tokens) \in Nat /\ Size \in Nat /\ Frontier \in 0..Size /\ position \in 0..Size
      /\ text \in Texts
  BY TokensNow, Now
<1>2. CASE \E t \in TokenRecord : Emits(t)
  <2>1. PICK t \in TokenRecord : Emits(t)
    BY <1>2
  <2>2. options' = options /\ Frontier' = t.end
    BY <2>1 DEF Emits, Frontier, Reading
  <2>3. QED
    BY <2>1, <2>2, EmitsKept DEF KeptInv
<1>3. CASE Skips
  BY <1>3 DEF Skips, KeptInv
<1>4. CASE Ends
  <2>1. UNCHANGED <<text, options, position>> /\ state' = "Finished"
    BY <1>4 DEF Ends
  <2>2. Frontier' = Frontier
    BY <1>4, <2>1, EndedTokens DEF Frontier, Reading
  <2>3. /\ Len(tokens') = Len(tokens) + 1
        /\ \A i \in 1..Len(tokens) : tokens'[i] = tokens[i]
    BY <1>4, EndedTokens
  <2>4. Len(tokens') \in Nat /\ Len(tokens) <= Len(tokens')
    BY <1>1, <2>3
  <2>5. ASSUME NEW offset \in 0..(Frontier - 1), Kept(offset) PROVE Kept(offset)'
    BY <1>1, <2>1, <2>3, <2>4, <2>5, StaysKept
  <2>6. QED
    BY <2>1, <2>2, <2>5 DEF KeptInv
<1>5. CASE CutsOff
  <2>1. /\ Char(position) = "'" /\ Char(position + 1) = "\\" /\ state = "Normal"
        /\ position + 2 = Size /\ position' = Size /\ UNCHANGED <<text, options, tokens>>
        /\ state' = "Normal" \/ state' = "Stopped"
    BY <1>5 DEF CutsOff
  <2>2. Frontier = position /\ Frontier' = Size
    BY <2>1 DEF Frontier, Reading
  <2>3. CutShort
    BY <1>1, <2>1, CutsShort
  <2>4. ASSUME options.include_trivia, NEW offset \in 0..(Size - 1)
        PROVE  Kept(offset)
    <3>1. CASE offset < position
      <4>1. offset \in 0..(Frontier - 1)
        BY <1>1, <2>2, <3>1
      <4>2. QED
        BY <2>4, <4>1 DEF KeptInv
    <3>2. CASE offset = position
      BY <2>1, <3>2, Zenon DEF Kept
    <3>3. CASE offset = position + 1
      <4>1. offset + 1 = Size
        BY <1>1, <2>1, <3>3
      <4>2. QED
        BY <2>3, <4>1, Zenon DEF Kept, CutShort
    <3>4. QED
      BY <1>1, <2>1, <3>1, <3>2, <3>3
  <2>5. \A offset : Kept(offset)' = Kept(offset)
    BY <2>1 DEF Kept, Char, Size, Slice
  <2>6. QED
    BY <2>1, <2>2, <2>4, <2>5 DEF KeptInv
<1>6. CASE Opens \/ Turns \/ Stays \/ \E t \in TokenRecord : Refuses(t)
  <2>1. UNCHANGED <<text, options, tokens>>
    BY <1>6 DEF Opens, Turns, Stays, Refuses, vars
  <2>2. Frontier' = Frontier
    <3>1. CASE Opens
      BY <3>1 DEF Opens, Frontier, Reading
    <3>2. CASE Turns
      BY <3>2 DEF Turns, Frontier, Reading
    <3>3. CASE Stays
      BY <3>3 DEF Stays, vars, Frontier, Reading
    <3>4. CASE \E t \in TokenRecord : Refuses(t)
      <4>1. PICK t \in TokenRecord : Refuses(t)
        BY <3>4
      <4>2. state = "InsideString" /\ state' = state /\ open' = [open EXCEPT !.failed = TRUE]
        BY <4>1 DEF Refuses
      <4>3. open'.start = open.start
        BY <4>2, InString
      <4>4. QED
        BY <4>2, <4>3 DEF Frontier, Reading
    <3>5. QED
      BY <1>6, <3>1, <3>2, <3>3, <3>4
  <2>3. \A offset : Kept(offset)' = Kept(offset)
    BY <2>1 DEF Kept, Char, Size, Slice
  <2>4. QED
    BY <2>1, <2>2, <2>3 DEF KeptInv
<1>7. QED
  BY <1>2, <1>3, <1>4, <1>5, <1>6, NextSteps DEF Step

(* Outside of a scan the frontier is the position. *)
LEMMA KeptThen == EndInv /\ KeptInv => NothingLost
<1> SUFFICES ASSUME EndInv, KeptInv PROVE NothingLost
  OBVIOUS
<1>1. state \in {"Normal", "Stopped", "Finished"} => Frontier = position
  BY DEF Frontier, Reading
<1>2. options.include_trivia /\ state \in {"Normal", "Stopped", "Finished"} =>
        \A offset \in 0..(position - 1) : Kept(offset)
  BY <1>1 DEF KeptInv
<1>3. QED
  BY <1>2, Zenon DEF NothingLost, EndInv, Kept

(* Lexing consumes every character once and keeps it: with trivia included, *)
(* a character that was passed is in a token, but for the quote of a        *)
(* character literal whose escape was refused; unless told to stop at       *)
(* errors, Tokenize reads to the end; its last token alone is EndOfFile.    *)
THEOREM NothingIsLost == Spec => []NothingLost
<1>1. Init => EndInv /\ KeptInv
  <2> SUFFICES ASSUME Init PROVE EndInv /\ KeptInv
    OBVIOUS
  <2>1. state = "Normal" /\ 1..Len(tokens) = {} /\ position = 0
    BY DEF Init
  <2>2. Frontier = 0
    BY <2>1 DEF Frontier, Reading
  <2>3. QED
    BY <2>1, <2>2 DEF EndInv, KeptInv
<1>2. QED
  BY <1>1, EndInvNext, KeptInvNext, KeptThen, LexInvAlways, PTL DEF Spec

-----------------------------------------------------------------------------
(* What a token was made from. *)

(* The parts of WordsWhole and OperatorsLongest that speak of one token. *)
WordWhole(token) ==
  LET reserved == Slice(token.start, token.end) \in KeywordTexts
  IN  /\ token.type \in {"Keyword", "Identifier", "Annotation"} =>
           Char(token.end) \notin IdentifierContinue
      /\ token.type \in {"Integer", "Float"} /\ ~ HasPrefix(token.start) =>
           Char(token.end) \notin IdentifierContinue
      /\ token.type = "Keyword" => reserved
      /\ token.type = "Identifier" => ~ reserved

OperatorLongest(token) ==
  token.type \in {"Operator", "Punctuation"} =>
    \A op \in Operators \union {<<"=", ">">>} :
      LET end == token.start + Len(op)
      IN  end <= Size /\ Slice(token.start, end) = op => end <= token.end

(* A token that takes in all of an open string or comment ends where the scan *)
(* is; no other Error token starts as one, and no other comment is a block.   *)
ScannedToHere(token) ==
  /\ token.type = "String" =>
       /\ state = "InsideString" /\ token.start = open.start
       /\ Char(position) = "\"" /\ token.end = position + 1
  /\ token.type = "Error" =>
       \/ /\ state = "InsideString" /\ token.start = open.start
          /\ Char(position) \in {Newline, Eof} /\ token.end = position
       \/ /\ state = "InsideComment" /\ token.start = open.start
          /\ position = Size /\ token.end = position
       \/ /\ Char(token.start) # "\""
          /\ Char(token.start) = "/" => Char(token.start + 1) # "*"
  /\ token.type = "Comment" =>
       \/ /\ state = "InsideComment" /\ token.start = open.start
          /\ At("*", "/") /\ open.depth = 1 /\ token.end = position + 2
       \/ Char(token.start + 1) = "/"

Origin(token) == WordWhole(token) /\ OperatorLongest(token) /\ ScannedToHere(token)

(* A step makes one token, of such an origin, or none. *)
Makes ==
  \/ Said' = Said
  \/ \E t \in TokenRecord : Said' = Append(Said, t) /\ Origin(t)

(* A scanner's token comes last of all that were made. *)
LEMMA Flushed ==
  ASSUME LexInv, NEW t \in TokenRecord, Flush(<<t>>)
  PROVE  Said' = Append(Said, t)
<1>1. tokens \in Seq(TokenRecord) /\ pending \in Seq(TokenRecord)
  BY TokensNow
<1>2. tokens' = tokens \o pending \o <<t>> /\ pending' = <<>>
  BY DEF Flush
<1>3. Said' = (tokens \o pending \o <<t>>) \o <<>>
  BY <1>2 DEF Said
<1>4. QED
  BY <1>1, <1>3, JoinedLater DEF Said

(* So it is with TokenProduced. *)
LEMMA Produced ==
  ASSUME LexInv, NEW type \in TokenTypes, NEW from \in 0..Size, NEW to \in 0..Size,
         Produce(type, from, to), Origin(Token(type, from, to))
  PROVE  Makes
<1>1. Token(type, from, to) \in TokenRecord
  BY TokenIs
<1>2. Said' = Append(Said, Token(type, from, to))
  BY <1>1, Flushed DEF Produce
<1>3. QED
  BY <1>1, <1>2, Zenon DEF Makes

(* And with an Error token. *)
LEMMA Failed ==
  ASSUME LexInv, NEW from \in 0..Size, NEW to \in 0..Size, NEW next,
         FailTo(from, to, next), ScannedToHere(Token("Error", from, to))
  PROVE  Makes
<1> DEFINE t == Token("Error", from, to)
<1>1. "Error" \in TokenTypes
  BY DEF TokenTypes
<1>2. t \in TokenRecord /\ t.type = "Error"
  BY <1>1, TokenIs
<1>3. Flush(<<t>>)
  BY DEF FailTo
<1> HIDE DEF t
<1>4. Said' = Append(Said, t)
  BY <1>2, <1>3, Flushed
<1>5. WordWhole(t) /\ OperatorLongest(t)
  BY <1>2 DEF WordWhole, OperatorLongest
<1>6. Origin(t)
  BY <1>5 DEF Origin, t
<1>7. QED
  BY <1>2, <1>4, <1>6, Zenon DEF Makes

(* Nothing is said of tokens of the other types. *)
Plain == {"Whitespace", "Newline", "Directive", "Character", "Delimiter", "EndOfFile"}

(* So these are of such an origin. *)
LEMMA PlainOrigin ==
  ASSUME NEW t, t.type \in Plain
  PROVE  Origin(t)
<1>1. t.type \notin {"Keyword", "Identifier", "Annotation", "Integer", "Float", "Operator",
                     "Punctuation", "String", "Error", "Comment"}
  BY DEF Plain
<1>2. WordWhole(t) /\ OperatorLongest(t) /\ ScannedToHere(t)
  BY <1>1 DEF WordWhole, OperatorLongest, ScannedToHere
<1>3. QED
  BY <1>2 DEF Origin

(* Trivia is made or skipped. *)
LEMMA TriviaMade ==
  ASSUME LexInv, NEW type \in TokenTypes, NEW from \in 0..Size, NEW to \in 0..Size,
         ProduceTrivia(type, from, to), Origin(Token(type, from, to))
  PROVE  Makes
<1>1. CASE options.include_trivia
  BY <1>1, Produced DEF ProduceTrivia
<1>2. CASE ~ options.include_trivia
  BY <1>2 DEF ProduceTrivia, Makes, Said
<1>3. QED
  BY <1>1, <1>2

-----------------------------------------------------------------------------
(* Words, numbers and operators are whole. *)

(* The operators of the table are short, those that begin like => above all. *)
LEMMA OperatorSizes ==
  \A op \in Operators : Len(op) \in 1..4 /\ (op[1] = "=" => Len(op) <= 2)
  BY DEF Operators

(* What a slice is made of. *)
LEMMA SliceIs ==
  ASSUME text \in Texts, NEW from \in Nat, NEW n \in Nat, n > 0, from + n <= Size
  PROVE  /\ Slice(from, from + n)[1] = Char(from)
         /\ n > 1 => Slice(from, from + n)[2] = Char(from + 1)
<1>1. text \in Seq(Alphabet) /\ Size = Len(text) /\ Size \in Nat
  BY TextsAssumption, Peeked DEF Size
<1>2. Slice(from, from + n)[1] = text[from + 1]
  BY <1>1 DEF Slice
<1>3. n > 1 => Slice(from, from + n)[2] = text[(from + 1) + 1]
  BY <1>1 DEF Slice
<1>4. from < Size /\ (n > 1 => from + 1 < Size)
  BY <1>1
<1>5. QED
  BY <1>2, <1>3, <1>4 DEF Char

(* => is there or it is not. *)
LEMMA ArrowIs ==
  ASSUME text \in Texts, NEW from \in Nat,
         NEW op, op = <<"=", ">">>, from + Len(op) <= Size, Slice(from, from + Len(op)) = op
  PROVE  Char(from) = "=" /\ Char(from + 1) = ">"
<1>1. Len(op) = 2 /\ op[1] = "=" /\ op[2] = ">"
  OBVIOUS
<1>2. from + 2 <= Size /\ Slice(from, from + 2) = op
  BY <1>1
<1>3. op[1] = Char(from) /\ op[2] = Char(from + 1)
  BY <1>2, SliceIs
<1>4. QED
  BY <1>1, <1>3

(* No operator that is there is longer than the one that is picked. *)
LEMMA LongestPicked ==
  ASSUME text \in Texts, NEW from \in 0..Size, OperatorLengths(from) # {},
         NEW op \in Operators \union {<<"=", ">">>},
         from + Len(op) <= Size, Slice(from, from + Len(op)) = op
  PROVE  Len(op) <= OperatorLength(from)
<1>1. Size \in Nat /\ from \in Nat
  BY Peeked
<1>2. CASE op = <<"=", ">">>
  <2>1. Char(from) = "=" /\ Char(from + 1) = ">"
    BY <1>1, <1>2, ArrowIs
  <2>2. OperatorLength(from) = 2
    BY <2>1 DEF OperatorLength
  <2>3. Len(op) = 2
    BY <1>2
  <2>4. QED
    BY <2>2, <2>3
<1>3. CASE op \in Operators
  <2>1. Len(op) \in 1..4 /\ (op[1] = "=" => Len(op) <= 2)
    BY <1>3, OperatorSizes
  <2>2. Len(op) \in OperatorLengths(from)
    BY <1>3, <2>1 DEF OperatorLengths
  <2>3. CASE Char(from) = "=" /\ Char(from + 1) = ">"
    <3>1. OperatorLength(from) = 2
      BY <2>3 DEF OperatorLength
    <3>2. op[1] = Char(from)
      <4>1. Len(op) \in Nat /\ Len(op) > 0
        BY <2>1
      <4>2. QED
        BY <1>1, <4>1, SliceIs
    <3>3. QED
      BY <2>1, <2>3, <3>1, <3>2
  <2>4. CASE ~ (Char(from) = "=" /\ Char(from + 1) = ">")
    BY <2>2, <2>4, OperatorFits
  <2>5. QED
    BY <2>3, <2>4
<1>4. QED
  BY <1>2, <1>3

(* Operators, delimiters and punctuation. *)
LEMMA OperatorMade == ASSUME LexInv, ScanOperator \/ ScanDelimiter PROVE Makes
<1>1. Dispatch("Operator")
  BY DEF ScanOperator, ScanDelimiter
<1>2. /\ position \in 0..Size /\ position + 1 \in 0..Size /\ Size \in Nat /\ text \in Texts
  BY <1>1, Dispatched
<1>3. CASE ScanOperator
  <2> DEFINE to == position + OperatorLength(position)
             t == Token("Operator", position, to)
  <2>1. OperatorLengths(position) # {} /\ Produce("Operator", position, to)
    BY <1>3 DEF ScanOperator
  <2>2. OperatorLength(position) \in 1..4 /\ to \in 0..Size
    BY <1>2, <2>1, OperatorFits
  <2>3. "Operator" \in TokenTypes
    BY DEF TokenTypes
  <2>4. t.type = "Operator" /\ t.start = position /\ t.end = to
    BY <1>2, <2>2, <2>3, TokenIs
  <2>5. OperatorLongest(t)
    <3>1. ASSUME NEW op \in Operators \union {<<"=", ">">>}, position + Len(op) <= Size,
                 Slice(position, position + Len(op)) = op
          PROVE  position + Len(op) <= to
      <4>1. Len(op) <= OperatorLength(position)
        BY <1>2, <2>1, <3>1, LongestPicked
      <4>2. Len(op) \in Nat
        <5>1. CASE op \in Operators
          BY <5>1, OperatorSizes
        <5>2. CASE op = <<"=", ">">>
          BY <5>2
        <5>3. QED
          BY <5>1, <5>2
      <4>3. QED
        BY <1>2, <2>2, <4>1, <4>2
    <3> HIDE DEF t, to
    <3>2. QED
      BY <2>4, <3>1 DEF OperatorLongest
  <2> HIDE DEF t
  <2>6. WordWhole(t) /\ ScannedToHere(t)
    BY <2>4 DEF WordWhole, ScannedToHere
  <2>7. Origin(t)
    BY <2>5, <2>6 DEF Origin
  <2>8. QED
    BY <1>2, <2>1, <2>2, <2>3, <2>7, Produced DEF t
<1>4. CASE ScanDelimiter
  <2>1. PICK type \in {"Delimiter", "Punctuation"} : Produce(type, position, position + 1)
    BY <1>4 DEF ScanDelimiter
  <2> DEFINE t == Token(type, position, position + 1)
  <2>2. type \in TokenTypes
    BY <2>1 DEF TokenTypes
  <2>3. t.type = type /\ t.start = position
    BY <1>2, <2>2, TokenIs
  <2>4. OperatorLengths(position) = {}
    BY <1>4 DEF ScanDelimiter
  <2>5. ASSUME NEW op \in Operators \union {<<"=", ">">>}, position + Len(op) <= Size,
               Slice(position, position + Len(op)) = op
        PROVE  FALSE
    <3>1. CASE op \in Operators
      <4>1. Len(op) \in 1..4
        BY <3>1, OperatorSizes
      <4>2. Len(op) \in OperatorLengths(position)
        BY <2>5, <3>1, <4>1 DEF OperatorLengths
      <4>3. QED
        BY <2>4, <4>2
    <3>2. CASE op = <<"=", ">">>
      <4>1. Char(position) = "="
        <5>1. position \in Nat
          BY <1>2
        <5>2. QED
          BY <1>2, <2>5, <3>2, <5>1, ArrowIs
      <4>2. 1 \in OperatorLengths(position)
        <5> DEFINE one == Slice(position, position + 1)
        <5>1. position < Size /\ position \in Nat /\ position + 1 <= Size
          BY <1>1, <1>2, Dispatched
        <5>2. one[1] = Char(position)
          BY <1>2, <5>1, SliceIs
        <5>3. one \in Seq(Alphabet) /\ Len(one) = 1
          BY <1>2, <5>1, TextsAssumption DEF Slice, Size
        <5> HIDE DEF one
        <5>4. one = <<"=">>
          BY <4>1, <5>2, <5>3
        <5>5. one \in Operators
          BY <5>4 DEF Operators
        <5>6. QED
          BY <5>1, <5>5 DEF OperatorLengths, one
      <4>3. QED
        BY <2>4, <4>2
    <3>3. QED
      BY <2>5, <3>1, <3>2
  <2> HIDE DEF t
  <2>6. WordWhole(t) /\ ScannedToHere(t)
    BY <2>1, <2>3 DEF WordWhole, ScannedToHere
  <2>7. OperatorLongest(t)
    BY <2>3, <2>5 DEF OperatorLongest
  <2>8. Origin(t)
    BY <2>6, <2>7 DEF Origin
  <2>9. QED
    BY <1>2, <2>1, <2>2, <2>8, Produced DEF t
<1>5. QED
  BY <1>3, <1>4

(* Words and annotations end where no word goes on, and reserved words are *)
(* told from identifiers.                                                  *)
LEMMA WordMade ==
  ASSUME LexInv, ScanAnnotation \/ ScanKeyword \/ ScanIdentifier
  PROVE  Makes
<1>1. PICK scanner : Dispatch(scanner)
  BY DEF ScanAnnotation, ScanKeyword, ScanIdentifier
<1>2. /\ position \in 0..Size /\ position + 1 \in 0..Size /\ Size \in Nat /\ text \in Texts
  BY <1>1, Dispatched
<1>3. ASSUME NEW from \in 0..Size
      PROVE  IdentifierEnd(from) \in 0..Size /\ Char(IdentifierEnd(from)) \notin IdentifierContinue
  BY <1>2, RunEnds, NotEof DEF IdentifierEnd
<1>4. ASSUME NEW type \in {"Keyword", "Identifier", "Annotation"}, NEW to \in 0..Size,
             Produce(type, position, to), Char(to) \notin IdentifierContinue,
             type = "Keyword" => Slice(position, to) \in KeywordTexts,
             type = "Identifier" => Slice(position, to) \notin KeywordTexts
      PROVE  Makes
  <2> DEFINE t == Token(type, position, to)
  <2>1. type \in TokenTypes
    BY DEF TokenTypes
  <2>2. t.type = type /\ t.start = position /\ t.end = to
    BY <1>2, <2>1, TokenIs
  <2> HIDE DEF t
  <2>3. WordWhole(t)
    BY <1>4, <2>2 DEF WordWhole
  <2>4. OperatorLongest(t) /\ ScannedToHere(t)
    BY <2>2 DEF OperatorLongest, ScannedToHere
  <2>5. Origin(t)
    BY <2>3, <2>4 DEF Origin
  <2>6. QED
    BY <1>2, <1>4, <2>1, <2>5, Produced DEF t
<1>5. CASE ScanAnnotation
  <2>1. Produce("Annotation", position, IdentifierEnd(position + 1))
    BY <1>5 DEF ScanAnnotation
  <2>2. QED
    BY <1>2, <1>3, <1>4, <2>1
<1>6. CASE ScanKeyword
  <2>1. Dispatch("Keyword") /\ Produce("Keyword", position, IdentifierEnd(position))
    BY <1>6 DEF ScanKeyword
  <2>2. Slice(position, IdentifierEnd(position)) \in KeywordTexts
    BY <2>1, Dispatched, Handled
  <2>3. QED
    BY <1>2, <1>3, <1>4, <2>1, <2>2
<1>7. CASE ScanIdentifier
  <2>1. Dispatch("Identifier") /\ Produce("Identifier", position, IdentifierEnd(position))
    BY <1>7 DEF ScanIdentifier
  <2>2. /\ Handles("Identifier", position) /\ ~ Handles("Keyword", position)
    BY <2>1, Dispatched
  <2>3. Slice(position, IdentifierEnd(position)) \notin KeywordTexts
    BY <2>2, Handled
  <2>4. QED
    BY <1>2, <1>3, <1>4, <2>1, <2>3
<1>8. QED
  BY <1>5, <1>6, <1>7

(* A decimal number ends where neither a digit nor a letter stands. *)
LEMMA NumberMade == ASSUME LexInv, ScanNumber \/ ScanBadNumber PROVE Makes
<1>1. Dispatch("Number")
  BY DEF ScanNumber, ScanBadNumber
<1>2. /\ position \in 0..Size /\ Size \in Nat /\ text \in Texts /\ Handles("Number", position)
  BY <1>1, Dispatched
<1>3. /\ NumberEnd(position) \in 0..Size
      /\ ~ HasPrefix(position) => Char(NumberEnd(position)) \notin Digits
  BY <1>2, NumberEnds
<1>4. CASE ScanNumber
  <2> DEFINE type == NumberType(position)
             t == Token(type, position, NumberEnd(position))
  <2>1. NumberValid(position) /\ Produce(type, position, NumberEnd(position))
    BY <1>4 DEF ScanNumber
  <2>2. type \in {"Float", "Integer"}
    BY DEF NumberType
  <2> HIDE DEF type
  <2>3. type \in TokenTypes
    BY <2>2 DEF TokenTypes
  <2>4. t.type = type /\ t.start = position /\ t.end = NumberEnd(position)
    BY <1>2, <1>3, <2>3, TokenIs
  <2>5. ~ HasPrefix(position) => Char(NumberEnd(position)) \notin IdentifierContinue
    <3>1. ~ HasPrefix(position) => Char(NumberEnd(position)) \notin IdentifierStart
      BY <2>1, Zenon DEF NumberValid
    <3>2. QED
      BY <1>3, <3>1 DEF IdentifierContinue
  <2> HIDE DEF t
  <2>6. WordWhole(t)
    BY <2>2, <2>4, <2>5 DEF WordWhole
  <2>7. OperatorLongest(t) /\ ScannedToHere(t)
    BY <2>2, <2>4 DEF OperatorLongest, ScannedToHere
  <2>8. Origin(t)
    BY <2>6, <2>7 DEF Origin
  <2>9. QED
    BY <1>2, <1>3, <2>1, <2>3, <2>8, Produced DEF t
<1>5. CASE ScanBadNumber
  <2> DEFINE t == Token("Error", position, NumberEnd(position))
  <2>1. FailTo(position, NumberEnd(position), AfterError)
    BY <1>5 DEF ScanBadNumber, Fail
  <2>2. "Error" \in TokenTypes
    BY DEF TokenTypes
  <2>3. t.type = "Error" /\ t.start = position
    BY <1>2, <1>3, <2>2, TokenIs
  <2>4. Char(position) # "\"" /\ Char(position) # "/"
    <3>1. Char(position) \in Digits \/ Char(position) = "."
      BY <1>2 DEF Handles
    <3>2. QED
      BY <3>1 DEF Digits
  <2> HIDE DEF t
  <2>5. ScannedToHere(t)
    BY <2>3, <2>4 DEF ScannedToHere
  <2>6. QED
    BY <1>2, <1>3, <2>1, <2>5, Failed DEF t
<1>6. QED
  BY <1>4, <1>5

-----------------------------------------------------------------------------
(* The other scanners. *)

(* Blanks, newlines and directives. *)
LEMMA PlainMade == ASSUME LexInv, ScanWhitespace \/ ScanDirective PROVE Makes
<1>1. PICK scanner : Dispatch(scanner)
  BY DEF ScanWhitespace, ScanDirective
<1>2. /\ position \in 0..Size /\ position + 1 \in 0..Size /\ Size \in Nat /\ text \in Texts
  BY <1>1, Dispatched
<1>3. /\ RunEnd({Newline}, position) \in 0..Size
      /\ RunEnd(Blanks, position) \in 0..Size
      /\ LineEnd(position + 1) \in 0..Size
  <2>1. /\ RunEnd({Newline}, position) \in position..Size
        /\ RunEnd(Blanks, position) \in position..Size
    BY <1>2, RunEnds, NotEof
  <2>2. LineEnd(position + 1) \in (position + 1)..Size
    BY <1>2, RunEnds, NotEof DEF LineEnd
  <2>3. QED
    BY <1>2, <2>1, <2>2
<1>4. {"Whitespace", "Newline", "Directive"} \subseteq TokenTypes
  BY DEF TokenTypes
<1>5. ASSUME NEW type \in {"Whitespace", "Newline", "Directive"}, NEW to \in 0..Size
      PROVE  Origin(Token(type, position, to))
  <2> DEFINE t == Token(type, position, to)
  <2>1. t.type = type
    BY <1>2, <1>4, TokenIs
  <2> HIDE DEF t
  <2>2. Origin(t)
    BY <2>1, PlainOrigin DEF Plain
  <2>3. QED
    BY <2>2 DEF t
<1>6. CASE ScanWhitespace
  <2>1. \/ ProduceTrivia("Newline", position, RunEnd({Newline}, position))
        \/ ProduceTrivia("Whitespace", position, RunEnd(Blanks, position))
    BY <1>6 DEF ScanWhitespace
  <2>2. QED
    BY <1>2, <1>3, <1>4, <1>5, <2>1, TriviaMade
<1>7. CASE ScanDirective
  <2>1. Produce("Directive", position, LineEnd(position + 1))
    BY <1>7 DEF ScanDirective
  <2>2. QED
    BY <1>2, <1>3, <1>4, <1>5, <2>1, Produced
<1>8. QED
  BY <1>6, <1>7

(* A character that no scanner knows begins neither a string nor a comment. *)
LEMMA UnknownMade == ASSUME LexInv, ScanUnknown PROVE Makes
<1> DEFINE t == Token("Error", position, position + 1)
<1>1. Dispatch("Unknown") /\ FailTo(position, position + 1, "Normal")
  BY DEF ScanUnknown
<1>2. /\ position \in 0..Size /\ position + 1 \in 0..Size
      /\ ~ Handles("String", position) /\ ~ Handles("Comment", position)
  BY <1>1, Dispatched
<1>3. "Error" \in TokenTypes
  BY DEF TokenTypes
<1>4. t.type = "Error" /\ t.start = position
  BY <1>2, <1>3, TokenIs
<1>5. Char(position) # "\"" /\ (Char(position) = "/" => Char(position + 1) # "*")
  BY <1>2, Handled
<1> HIDE DEF t
<1>6. ScannedToHere(t)
  BY <1>4, <1>5 DEF ScannedToHere
<1>7. QED
  BY <1>1, <1>2, <1>6, Failed DEF t

(* Character literals. *)
LEMMA CharacterMade == ASSUME LexInv, ScanCharacterLiteral PROVE Makes
<1>1. Dispatch("Character")
  BY DEF ScanCharacterLiteral, ScanCharacter, CharacterUnterminated, CharacterEscapeRefused,
         CharacterCutOff
<1>2. /\ position \in 0..Size /\ position + 1 \in 0..Size /\ Size \in Nat /\ text \in Texts
      /\ Char(position) = "'"
      /\ Char(position + 1) # Eof => position + 2 \in 0..Size
  BY <1>1, AtCharacter
<1>3. ~ CharacterMissing => CharacterEnd \in (position + 2)..Size
  BY <1>1, CharacterEnds
<1>4. "Error" \in TokenTypes /\ "Character" \in TokenTypes
  BY DEF TokenTypes
<1>5. ASSUME NEW from \in 0..Size, NEW to \in 0..Size, Char(from) \in {"'", "\\"}
      PROVE  ScannedToHere(Token("Error", from, to))
  <2> DEFINE t == Token("Error", from, to)
  <2>1. t.type = "Error" /\ t.start = from
    BY <1>4, TokenIs
  <2> HIDE DEF t
  <2>2. ScannedToHere(t)
    BY <1>5, <2>1 DEF ScannedToHere
  <2>3. QED
    BY <2>2 DEF t
<1>6. CASE ScanCharacter
  <2> DEFINE to == CharacterEnd + 1
             t == Token("Character", position, to)
  <2>1. ~ CharacterMissing /\ Char(CharacterEnd) = "'" /\ Produce("Character", position, to)
    BY <1>6 DEF ScanCharacter
  <2>2. to \in 0..Size
    <3>1. Char(CharacterEnd) # Eof
      BY <2>1 DEF Eof
    <3>2. CharacterEnd \in Nat
      BY <1>2, <1>3, <2>1
    <3>3. QED
      BY <1>2, <3>1, <3>2, Inside
  <2> HIDE DEF to
  <2>3. t.type = "Character"
    BY <1>2, <1>4, <2>2, TokenIs
  <2> HIDE DEF t
  <2>4. Origin(t)
    BY <2>3, PlainOrigin DEF Plain
  <2>5. QED
    BY <1>2, <1>4, <2>1, <2>2, <2>4, Produced DEF t
<1>7. CASE CharacterUnterminated
  <2> DEFINE to == IF CharacterMissing THEN position + 1 ELSE CharacterEnd
  <2>1. FailTo(position, to, AfterError)
    BY <1>7 DEF CharacterUnterminated, Fail
  <2>2. to \in 0..Size
    BY <1>2, <1>3
  <2> HIDE DEF to
  <2>3. QED
    BY <1>2, <1>5, <2>1, <2>2, Failed
<1>8. CASE CharacterEscapeRefused
  <2>1. OpensEscape /\ FailTo(position + 1, EscapeEnd(position + 2), AfterError)
    BY <1>8 DEF CharacterEscapeRefused, Fail
  <2>2. Char(position + 1) = "\\"
    BY <2>1 DEF OpensEscape
  <2>3. Char(position + 1) # Eof
    BY <2>2 DEF Eof
  <2>4. EscapeEnd(position + 2) \in 0..Size
    BY <1>2, <2>3, EscapeEnds
  <2>5. ScannedToHere(Token("Error", position + 1, EscapeEnd(position + 2)))
    BY <1>2, <1>5, <2>2, <2>4
  <2>6. QED
    BY <1>2, <2>1, <2>4, <2>5, Failed
<1>9. CASE CharacterCutOff
  <2>1. Flush(<<>>)
    BY <1>9 DEF CharacterCutOff
  <2>2. tokens \in Seq(TokenRecord) /\ pending \in Seq(TokenRecord)
    BY TokensNow
  <2>3. Said' = Said
    BY <2>1, <2>2 DEF Flush, Said
  <2>4. QED
    BY <2>3 DEF Makes
<1>10. QED
  BY <1>6, <1>7, <1>8, <1>9 DEF ScanCharacterLiteral

(* Comments. *)
LEMMA CommentMade == ASSUME LexInv, ScanComment PROVE Makes
<1>1. "Error" \in TokenTypes /\ "Comment" \in TokenTypes
  BY DEF TokenTypes
<1>2. position \in 0..Size /\ Size \in Nat /\ text \in Texts /\ open.start \in 0..Size
  BY Now
<1>3. CASE ScanLineComment
  <2> DEFINE to == LineEnd(position + 2)
             t == Token("Comment", position, to)
  <2>1. Char(position + 1) = "/" /\ ProduceTrivia("Comment", position, to)
    BY <1>3 DEF ScanLineComment
  <2>2. to \in 0..Size
    <3>1. Char(position + 1) # Eof
      BY <2>1 DEF Eof
    <3>2. position + 2 \in 0..Size
      BY <1>2, <3>1, PairFits
    <3>3. LineEnd(position + 2) \in (position + 2)..Size
      BY <1>2, <3>2, RunEnds, NotEof DEF LineEnd
    <3>4. QED
      BY <1>2, <3>2, <3>3
  <2> HIDE DEF to
  <2>3. t.type = "Comment" /\ t.start = position
    BY <1>1, <1>2, <2>2, TokenIs
  <2> HIDE DEF t
  <2>4. Origin(t)
    BY <2>1, <2>3 DEF Origin, WordWhole, OperatorLongest, ScannedToHere
  <2>5. QED
    BY <1>1, <1>2, <2>1, <2>2, <2>4, TriviaMade DEF t
<1>4. CASE CloseComment
  <2> DEFINE t == Token("Comment", open.start, position + 2)
  <2>1. /\ state = "InsideComment" /\ At("*", "/") /\ open.depth = 1
        /\ ProduceTrivia("Comment", open.start, position + 2)
    BY <1>4 DEF CloseComment
  <2>2. position + 2 \in 0..Size
    <3>1. Char(position + 1) # Eof
      BY <2>1 DEF At, Eof
    <3>2. QED
      BY <1>2, <3>1, PairFits
  <2>3. t.type = "Comment" /\ t.start = open.start /\ t.end = position + 2
    BY <1>1, <1>2, <2>2, TokenIs
  <2> HIDE DEF t
  <2>4. Origin(t)
    BY <2>1, <2>3 DEF Origin, WordWhole, OperatorLongest, ScannedToHere
  <2>5. QED
    BY <1>1, <1>2, <2>1, <2>2, <2>4, TriviaMade DEF t
<1>5. CASE CommentUnterminated
  <2> DEFINE t == Token("Error", open.start, position)
  <2>1. /\ state = "InsideComment" /\ position = Size
        /\ FailTo(open.start, position, AfterError)
    BY <1>5 DEF CommentUnterminated, Fail
  <2>2. t.type = "Error" /\ t.start = open.start /\ t.end = position
    BY <1>1, <1>2, TokenIs
  <2> HIDE DEF t
  <2>3. ScannedToHere(t)
    BY <2>1, <2>2 DEF ScannedToHere
  <2>4. QED
    BY <1>2, <2>1, <2>3, Failed DEF t
<1>6. CASE OpenComment \/ NestComment \/ UnnestComment \/ CommentCharacter
  BY <1>6 DEF OpenComment, NestComment, UnnestComment, CommentCharacter, Enter, Makes, Said
<1>7. QED
  BY <1>3, <1>4, <1>5, <1>6 DEF ScanComment

(* Strings. *)
LEMMA StringMade == ASSUME LexInv, ScanString PROVE Makes
<1>1. "Error" \in TokenTypes /\ "String" \in TokenTypes
  BY DEF TokenTypes
<1>2. /\ position \in 0..Size /\ Size \in Nat /\ text \in Texts /\ open.start \in 0..Size
      /\ open.failed \in BOOLEAN
  BY Now
<1>3. CASE CloseString
  <2> DEFINE t == [Token("String", open.start, position + 1) EXCEPT !.valid = ~ open.failed]
  <2>1. state = "InsideString" /\ Char(position) = "\"" /\ Flush(<<t>>)
    BY <1>3 DEF CloseString
  <2>2. position + 1 \in 0..Size
    <3>1. Char(position) # Eof
      BY <2>1 DEF Eof
    <3>2. QED
      BY <1>2, <3>1, Inside
  <2>3. /\ t \in TokenRecord /\ t.type = "String"
        /\ t.start = open.start /\ t.end = position + 1
    BY <1>1, <1>2, <2>2 DEF Token, TokenRecord
  <2> HIDE DEF t
  <2>4. Origin(t)
    BY <2>1, <2>3 DEF Origin, WordWhole, OperatorLongest, ScannedToHere
  <2>5. Said' = Append(Said, t)
    BY <2>1, <2>3, Flushed
  <2>6. QED
    BY <2>3, <2>4, <2>5 DEF Makes
<1>4. CASE StringUnterminated
  <2> DEFINE t == Token("Error", open.start, position)
  <2>1. /\ state = "InsideString" /\ Char(position) \in {Newline, Eof}
        /\ FailTo(open.start, position, AfterError)
    BY <1>4 DEF StringUnterminated, Fail
  <2>2. t.type = "Error" /\ t.start = open.start /\ t.end = position
    BY <1>1, <1>2, TokenIs
  <2> HIDE DEF t
  <2>3. ScannedToHere(t)
    BY <2>1, <2>2 DEF ScannedToHere
  <2>4. QED
    BY <1>2, <2>1, <2>3, Failed DEF t
<1>5. CASE StringEscapeRefused
  <2> DEFINE to == EscapeEnd(position + 1)
             t == Token("Error", position, to)
  <2>1. /\ state = "InsideString" /\ Char(position) = "\\"
        /\ pending' = Append(pending, t) /\ tokens' = tokens
    BY <1>5 DEF StringEscapeRefused
  <2>2. to \in 0..Size
    BY <2>1, StringEscapeEnds
  <2> HIDE DEF to
  <2>3. t \in TokenRecord /\ t.type = "Error" /\ t.start = position
    BY <1>1, <1>2, <2>2, TokenIs
  <2> HIDE DEF t
  <2>4. Origin(t)
    BY <2>1, <2>3 DEF Origin, WordWhole, OperatorLongest, ScannedToHere
  <2>5. tokens \in Seq(TokenRecord) /\ pending \in Seq(TokenRecord)
    BY TokensNow
  <2>6. Said' = tokens \o Append(pending, t)
    BY <2>1 DEF Said
  <2>7. Said' = Append(Said, t)
    BY <2>3, <2>5, <2>6, JoinedLater DEF Said
  <2>8. QED
    BY <2>3, <2>4, <2>7 DEF Makes
<1>6. CASE OpenString \/ StringEscape \/ StringEscapeCutOff \/ StringCharacter
  BY <1>6 DEF OpenString, StringEscape, StringEscapeCutOff, StringCharacter, Enter, Makes, Said
<1>7. QED
  BY <1>3, <1>4, <1>5, <1>6 DEF ScanString

(* Every step of the lexer makes one token, of such an origin, or none. *)
LEMMA NextMakes == LexInv /\ [Next]_vars => Makes
<1> SUFFICES ASSUME LexInv, [Next]_vars PROVE Makes
  OBVIOUS
<1>1. CASE Finish
  <2> DEFINE t == Token("EndOfFile", position, position)
  <2>1. Ends /\ tokens' = Append(tokens, t) /\ pending' = pending
    BY <1>1 DEF Finish, Ends
  <2>2. pending = <<>> /\ position \in 0..Size /\ tokens \in Seq(TokenRecord)
    BY <2>1, EndedTokens, Now, TokensNow
  <2>3. "EndOfFile" \in TokenTypes
    BY DEF TokenTypes
  <2>4. t \in TokenRecord /\ t.type = "EndOfFile"
    BY <2>2, <2>3, TokenIs
  <2> HIDE DEF t
  <2>5. Said' = Append(tokens, t) \o <<>> /\ Said = tokens \o <<>>
    BY <2>1, <2>2 DEF Said
  <2>6. Said' = Append(Said, t)
    BY <2>2, <2>4, <2>5, JoinedLater
  <2>7. Origin(t)
    BY <2>4, PlainOrigin DEF Plain
  <2>8. QED
    BY <2>4, <2>6, <2>7 DEF Makes
<1>2. CASE Finished \/ UNCHANGED vars
  BY <1>2 DEF Finished, vars, Makes, Said
<1>3. CASE ScanWord
  BY <1>3, WordMade, NumberMade DEF ScanWord
<1>4. QED
  BY <1>1, <1>2, <1>3, PlainMade, CommentMade, StringMade, CharacterMade, OperatorMade, UnknownMade
     DEF Next

(* The tokens are the first of all that were made. *)
LEMMA SaidTokens ==
  ASSUME LexInv, NEW i \in 1..Len(tokens)
  PROVE  i \in 1..Len(Said) /\ Said[i] = tokens[i]
<1>1. tokens \in Seq(TokenRecord) /\ pending \in Seq(TokenRecord)
  BY TokensNow
<1>2. QED
  BY <1>1 DEF Said

-----------------------------------------------------------------------------
(* No token stops short of what it could have been. *)

WholeInv == \A i \in 1..Len(Said) : WordWhole(Said[i]) /\ OperatorLongest(Said[i])

(* The text does not change, so a whole token stays whole. *)
LEMMA WholeInvNext == LexInv /\ WholeInv /\ [Next]_vars => WholeInv'
<1> SUFFICES ASSUME LexInv, WholeInv, [Next]_vars PROVE WholeInv'
  OBVIOUS
<1>1. Makes /\ UNCHANGED text /\ Said \in Seq(TokenRecord)
  BY NextMakes, ToldSteps
<1>2. ASSUME NEW i \in 1..Len(Said')
      PROVE  WordWhole(Said'[i]) /\ OperatorLongest(Said'[i])
  <2>1. CASE Said' = Said
    BY <2>1 DEF WholeInv
  <2>2. CASE \E t \in TokenRecord : Said' = Append(Said, t) /\ Origin(t)
    <3>1. PICK t \in TokenRecord : Said' = Append(Said, t) /\ Origin(t)
      BY <2>2
    <3>2. (i \in 1..Len(Said) /\ Said'[i] = Said[i]) \/ Said'[i] = t
      BY <1>1, <3>1
    <3>3. QED
      BY <3>1, <3>2 DEF WholeInv, Origin
  <2>3. QED
    BY <1>1, <2>1, <2>2 DEF Makes
<1>3. QED
  BY <1>1, <1>2 DEF WholeInv, WordWhole, OperatorLongest, HasPrefix, Char, Size, Slice

(* A word is never cut in two, a reserved word is never an identifier nor *)
(* the reverse, and operators are matched longest first.                  *)
THEOREM TokensAreMaximal == Spec => []TokensMaximal
<1>1. Init => WholeInv
  <2> SUFFICES ASSUME Init PROVE WholeInv
    OBVIOUS
  <2>1. tokens = <<>> /\ pending = <<>>
    BY DEF Init
  <2>2. 1..Len(Said) = {}
    BY <2>1 DEF Said
  <2>3. QED
    BY <2>2 DEF WholeInv
<1>2. LexInv /\ WholeInv => TokensMaximal
  <2> SUFFICES ASSUME LexInv, WholeInv PROVE TokensMaximal
    OBVIOUS
  <2>1. \A i \in 1..Len(tokens) : WordWhole(tokens[i]) /\ OperatorLongest(tokens[i])
    BY SaidTokens DEF WholeInv
  <2>2. WordsWhole
    BY <2>1, Zenon DEF WordsWhole, WordWhole
  <2>3. OperatorsLongest
    BY <2>1, Zenon DEF OperatorsLongest, OperatorLongest
  <2>4. QED
    BY <2>2, <2>3 DEF TokensMaximal
<1>3. QED
  BY <1>1, <1>2, WholeInvNext, LexInvAlways, PTL DEF Spec

-----------------------------------------------------------------------------
(* Strings end at their first quote that is not escaped. *)

(* The backslashes in front of offset begin at first, or at from. *)
SlashesFrom(first, offset, from) ==
  /\ first \in from..offset
  /\ \A b \in first..(offset - 1) : Char(b) = "\\"
  /\ first = from \/ Char(first - 1) # "\\"

(* They begin somewhere, and nowhere else. *)
LEMMA SlashesBegin ==
  ASSUME NEW from \in Nat, NEW offset \in Nat, from <= offset
  PROVE  \E first \in from..offset :
           /\ SlashesFrom(first, offset, from)
           /\ \A other : SlashesFrom(other, offset, from) => other = first
<1> DEFINE Slash(b) == Char(b) = "\\"
           starts == {f \in from..offset : \A b \in f..(offset - 1) : Slash(b)}
<1>1. SlashesFrom(offset, offset, from) \/ from < offset
  BY DEF SlashesFrom
<1>2. \A f : SlashesFrom(f, offset, from) <=>
               /\ f \in from..offset
               /\ \A b \in f..(offset - 1) : Slash(b)
               /\ f = from \/ ~ Slash(f - 1)
  BY DEF SlashesFrom
<1> HIDE DEF Slash
<1>3. starts \in SUBSET Nat /\ offset \in starts
  OBVIOUS
<1>4. PICK first \in starts : \A f \in starts : first <= f
  BY <1>3, LeastOffset
<1>5. first = from \/ ~ Slash(first - 1)
  <2> SUFFICES ASSUME first # from, Slash(first - 1) PROVE FALSE
    OBVIOUS
  <2>1. first - 1 \in starts
    BY <1>4
  <2>2. QED
    BY <1>3, <1>4, <2>1
<1>6. ASSUME NEW other, SlashesFrom(other, offset, from)
      PROVE  other = first
  <2>1. other \in starts /\ (other = from \/ ~ Slash(other - 1))
    BY <1>2, <1>6
  <2>2. ASSUME first < other PROVE FALSE
    <3>1. other - 1 \in first..(offset - 1) /\ other # from
      BY <1>4, <2>1, <2>2
    <3>2. Slash(other - 1)
      BY <1>4, <3>1
    <3>3. QED
      BY <2>1, <3>1, <3>2
  <2>3. QED
    BY <1>4, <2>1, <2>2
<1>7. QED
  BY <1>2, <1>4, <1>5, <1>6

(* Whether an offset is escaped is a matter of where they begin. *)
LEMMA EscapedFrom ==
  ASSUME NEW from \in Nat, NEW offset \in Nat, from <= offset,
         NEW first, SlashesFrom(first, offset, from)
  PROVE  Escaped(offset, from) <=> (offset - first) % 2 = 1
<1> DEFINE chosen == CHOOSE o \in from..offset :
                       /\ \A b \in o..(offset - 1) : Char(b) = "\\"
                       /\ o = from \/ Char(o - 1) # "\\"
<1>1. chosen = CHOOSE o : SlashesFrom(o, offset, from)
  BY Zenon DEF SlashesFrom
<1>2. Escaped(offset, from) <=> (offset - chosen) % 2 = 1
  BY Zenon DEF Escaped
<1> HIDE DEF chosen
<1>3. SlashesFrom(chosen, offset, from)
  BY <1>1
<1>4. chosen = first
  BY <1>3, SlashesBegin
<1>5. QED
  BY <1>2, <1>4

(* The body's first character is not escaped, and another is exactly if the *)
(* one before it is a backslash that is not.                                *)
LEMMA EscapedNext ==
  ASSUME NEW from \in Nat
  PROVE  /\ ~ Escaped(from, from)
         /\ \A o \in Nat : from <= o =>
              (Escaped(o + 1, from) <=> Char(o) = "\\" /\ ~ Escaped(o, from))
<1>1. ~ Escaped(from, from)
  <2>1. SlashesFrom(from, from, from)
    BY DEF SlashesFrom
  <2>2. QED
    BY <2>1, EscapedFrom
<1>2. ASSUME NEW o \in Nat, from <= o
      PROVE  Escaped(o + 1, from) <=> Char(o) = "\\" /\ ~ Escaped(o, from)
  <2>1. CASE Char(o) = "\\"
    <3>1. PICK first \in from..o : SlashesFrom(first, o, from)
      BY <1>2, SlashesBegin
    <3>2. SlashesFrom(first, o + 1, from)
      <4>1. \A b \in first..((o + 1) - 1) : Char(b) = "\\"
        BY <2>1, <3>1 DEF SlashesFrom
      <4>2. first \in from..(o + 1)
        BY <1>2
      <4>3. QED
        BY <3>1, <4>1, <4>2, Zenon DEF SlashesFrom
    <3>3. /\ Escaped(o, from) <=> (o - first) % 2 = 1
          /\ Escaped(o + 1, from) <=> ((o + 1) - first) % 2 = 1
      BY <1>2, <3>1, <3>2, EscapedFrom
    <3>4. (o - first) % 2 = 1 <=> ~ (((o + 1) - first) % 2 = 1)
      <4>1. \A n \in Nat : n % 2 = 1 <=> ~ ((n + 1) % 2 = 1)
        OBVIOUS
      <4>2. o - first \in Nat /\ (o + 1) - first = (o - first) + 1
        BY <1>2
      <4>3. QED
        BY <4>1, <4>2
    <3>5. QED
      BY <2>1, <3>3, <3>4
  <2>2. CASE Char(o) # "\\"
    <3>1. SlashesFrom(o + 1, o + 1, from)
      <4>1. (o + 1) - 1 = o /\ o + 1 \in from..(o + 1) /\ (o + 1)..o = {}
        BY <1>2
      <4>2. QED
        BY <2>2, <4>1, Zenon DEF SlashesFrom
    <3>2. Escaped(o + 1, from) <=> ((o + 1) - (o + 1)) % 2 = 1
      BY <1>2, <3>1, EscapedFrom
    <3>3. ~ (((o + 1) - (o + 1)) % 2 = 1)
      OBVIOUS
    <3>4. QED
      BY <2>2, <3>2, <3>3
  <2>3. QED
    BY <2>1, <2>2
<1>3. QED
  BY <1>1, <1>2

(* What the loop over a string's body has behind it: it stopped at every     *)
(* quote and newline that is not escaped, and does not stand at one that is. *)
BodyScanned(from, to) ==
  /\ \A o \in from..(to - 1) : Char(o) \in {"\"", Newline} => Escaped(o, from)
  /\ to = Size \/ ~ Escaped(to, from)

(* It goes on behind a character, and behind an escape. *)
LEMMA BodyGoesOn ==
  ASSUME text \in Texts, NEW from \in Nat, NEW at \in Nat, from <= at, at < Size,
         BodyScanned(from, at)
  PROVE  /\ Char(at) \notin {"\"", "\\", Newline} => BodyScanned(from, at + 1)
         /\ Char(at) = "\\" => BodyScanned(from, EscapeEnd(at + 1))
<1> DEFINE Closes(o) == Char(o) \in {"\"", Newline}
           Slash(o) == Char(o) = "\\"
           E(o) == Escaped(o, from)
           Clear(to) == \A o \in from..(to - 1) : Closes(o) => E(o)
<1>1. Size \in Nat
  BY Peeked
<1>2. ASSUME NEW to
      PROVE  BodyScanned(from, to) <=> Clear(to) /\ (to = Size \/ ~ E(to))
  BY Zenon DEF BodyScanned
<1>3. \A o : Slash(o) => ~ Closes(o)
  BY DEF Newline
<1>4. \A o : Char(o) = "x" \/ Char(o) \in HexDigits => ~ Closes(o) /\ ~ Slash(o)
  BY DEF HexDigits, Digits, Newline
<1>5. Char(at) \notin {"\"", "\\", Newline} => ~ Closes(at) /\ ~ Slash(at)
  OBVIOUS
<1>6. \A o \in Nat : from <= o => (E(o + 1) <=> Slash(o) /\ ~ E(o))
  BY EscapedNext
<1> HIDE DEF Closes, Slash, E
<1>7. ASSUME NEW to \in Nat, from <= to, Clear(to), Closes(to) => E(to)
      PROVE  Clear(to + 1)
  BY <1>7
<1>8. Clear(at) /\ ~ E(at)
  BY <1>1, <1>2
<1> HIDE DEF Clear
<1>9. ASSUME Char(at) \notin {"\"", "\\", Newline}
      PROVE  BodyScanned(from, at + 1)
  <2>1. ~ Closes(at) /\ ~ Slash(at)
    BY <1>5, <1>9
  <2>2. Clear(at + 1) /\ ~ E(at + 1)
    BY <1>6, <1>7, <1>8, <2>1
  <2>3. QED
    BY <1>2, <2>2
<1>10. ASSUME Char(at) = "\\"
       PROVE  BodyScanned(from, EscapeEnd(at + 1))
  <2>1. Slash(at) /\ ~ Closes(at)
    BY <1>3, <1>10 DEF Slash
  <2>2. Clear(at + 1) /\ E(at + 1)
    BY <1>6, <1>7, <1>8, <2>1
  <2>3. Clear(at + 2) /\ ~ E(at + 2)
    <3>1. at + 1 \in Nat /\ from <= at + 1 /\ (at + 1) + 1 = at + 2
      OBVIOUS
    <3>2. Clear((at + 1) + 1) /\ ~ E((at + 1) + 1)
      BY <1>6, <1>7, <2>2, <3>1
    <3>3. QED
      BY <3>1, <3>2
  <2>4. CASE at + 1 = Size
    <3>1. EscapeEnd(at + 1) = Size
      <4>1. Char(at + 1) = Eof
        BY <1>1, <2>4, Peeked
      <4>2. ~ HexEscape(at + 1)
        BY <4>1 DEF HexEscape, Eof
      <4>3. QED
        BY <2>4, <4>2 DEF EscapeEnd
    <3>2. QED
      BY <1>2, <2>2, <2>4, <3>1
  <2>5. CASE at + 1 # Size /\ ~ HexEscape(at + 1)
    <3>1. EscapeEnd(at + 1) = at + 2
      BY <2>5 DEF EscapeEnd
    <3>2. QED
      BY <1>2, <2>3, <3>1
  <2>6. CASE at + 1 # Size /\ HexEscape(at + 1)
    <3>1. EscapeEnd(at + 1) = IF Char(at + 3) \in HexDigits THEN at + 4 ELSE at + 3
      <4>1. (at + 1) + 2 = at + 3 /\ (at + 1) + 3 = at + 4
        OBVIOUS
      <4>2. EscapeEnd(at + 1) = IF Char((at + 1) + 2) \in HexDigits THEN (at + 1) + 3
                                                                  ELSE (at + 1) + 2
        BY <2>6 DEF EscapeEnd
      <4>3. QED
        BY <4>1, <4>2
    <3>2. ~ Closes(at + 2) /\ ~ Slash(at + 2)
      <4>1. Char((at + 1) + 1) \in HexDigits
        BY <2>6 DEF HexEscape
      <4>2. (at + 1) + 1 = at + 2
        OBVIOUS
      <4>3. QED
        BY <1>4, <4>1, <4>2
    <3>3. Clear(at + 3) /\ ~ E(at + 3)
      <4>1. at + 2 \in Nat /\ from <= at + 2 /\ (at + 2) + 1 = at + 3
        OBVIOUS
      <4>2. Clear((at + 2) + 1) /\ ~ E((at + 2) + 1)
        BY <1>6, <1>7, <2>3, <3>2, <4>1
      <4>3. QED
        BY <4>1, <4>2
    <3>4. Char(at + 3) \in HexDigits => Clear(at + 4) /\ ~ E(at + 4)
      <4>1. at + 3 \in Nat /\ from <= at + 3 /\ (at + 3) + 1 = at + 4
        OBVIOUS
      <4>2. Char(at + 3) \in HexDigits => Clear((at + 3) + 1) /\ ~ E((at + 3) + 1)
        BY <1>4, <1>6, <1>7, <3>3, <4>1
      <4>3. QED
        BY <4>1, <4>2
    <3>5. QED
      BY <1>2, <3>1, <3>3, <3>4
  <2>7. QED
    BY <2>4, <2>5, <2>6
<1>11. QED
  BY <1>9, <1>10

(* The invariant of the loop over a string. *)
StringScan == state = "InsideString" => BodyScanned(open.start + 1, position)

(* The only steps from within a string to within it. *)
LEMMA StringStays ==
  ASSUME state = "InsideString", state' = "InsideString", Next
  PROVE  \/ StringEscape \/ StringEscapeRefused \/ StringEscapeCutOff \/ StringCharacter
<1>1. ScanString
  BY DEF Next, ScanWhitespace, ScanComment, ScanDirective, ScanCharacterLiteral, ScanWord,
         ScanOperator, ScanDelimiter, ScanUnknown, Finish, Finished, ScanLineComment, OpenComment,
         NestComment, UnnestComment, CloseComment, CommentCharacter, CommentUnterminated,
         ScanAnnotation, ScanNumber, ScanBadNumber, ScanKeyword, ScanIdentifier, ScanCharacter,
         CharacterUnterminated, CharacterEscapeRefused, CharacterCutOff, Dispatch
<1>2. ~ OpenString
  BY DEF OpenString, Dispatch
<1>3. AfterError # "InsideString"
  BY DEF AfterError
<1>4. ~ CloseString /\ ~ StringUnterminated
  BY <1>3 DEF CloseString, StringUnterminated, Fail, FailTo, ReturnTo
<1>5. QED
  BY <1>1, <1>2, <1>4 DEF ScanString

(* The loop keeps it. *)
LEMMA StringScanNext == LexInv /\ StringScan /\ [Next]_vars => StringScan'
<1> SUFFICES ASSUME LexInv, StringScan, [Next]_vars, state' = "InsideString"
             PROVE  BodyScanned(open.start + 1, position)'
  BY DEF StringScan
<1>1. UNCHANGED text
  BY ToldSteps
<1>2. ASSUME NEW from, NEW to
      PROVE  BodyScanned(from, to)' <=> BodyScanned(from', to')
  BY <1>1 DEF BodyScanned, Escaped, Char, Size
<1>3. CASE UNCHANGED vars
  BY <1>2, <1>3 DEF vars, StringScan
<1>4. CASE state # "InsideString"
  <2>1. Opens \/ Stays
    <3>1. Step
      BY NextSteps
    <3>2. QED
      BY <1>4, <3>1 DEF Step, Emits, Skips, Turns, Refuses, CutsOff, Ends
  <2>2. CASE Opens
    <3>1. position' = position + 1 /\ open'.start = position
      BY <2>2 DEF Opens
    <3>2. position \in 0..Size /\ Size \in Nat
      BY Now
    <3>3. ~ Escaped(position + 1, position + 1)
      BY <3>2, EscapedNext
    <3>4. BodyScanned(position + 1, position + 1)
      <4>1. (position + 1)..((position + 1) - 1) = {}
        BY <3>2
      <4>2. QED
        BY <3>3, <4>1 DEF BodyScanned
    <3>5. QED
      BY <1>2, <3>1, <3>4
  <2>3. QED
    BY <1>3, <2>1, <2>2 DEF Stays
<1>5. CASE state = "InsideString" /\ Next
  <2> DEFINE body == open.start + 1
  <2>1. /\ text \in Texts /\ position \in Nat /\ body \in Nat /\ body <= position
        /\ BodyScanned(body, position) /\ Size \in Nat /\ position <= Size
        /\ open \in [start : 0..Size, depth : Nat, failed : BOOLEAN]
    BY <1>5, InString DEF StringScan
  <2>2. ASSUME open' = open, position' = position + 1, position < Size,
               Char(position) \notin {"\"", "\\", Newline}
        PROVE  BodyScanned(open.start + 1, position)'
    <3>1. BodyScanned(body, position + 1)
      BY <2>1, <2>2, BodyGoesOn
    <3>2. QED
      BY <1>2, <2>2, <3>1
  <2>3. ASSUME open'.start = open.start, position' = EscapeEnd(position + 1),
               Char(position) = "\\"
        PROVE  BodyScanned(open.start + 1, position)'
    <3>1. Char(position) # Eof
      BY <2>3 DEF Eof
    <3>2. position < Size
      BY <2>1, <3>1, Inside
    <3>3. BodyScanned(body, EscapeEnd(position + 1))
      BY <2>1, <2>3, <3>2, BodyGoesOn
    <3>4. QED
      BY <1>2, <2>3, <3>3
  <2>4. CASE StringCharacter
    <3>1. /\ Char(position) \notin {"\"", "\\", Newline} /\ Char(position) # Eof
          /\ position' = position + 1 /\ open' = open
      BY <2>4 DEF StringCharacter, GoOn
    <3>2. position < Size
      BY <2>1, <3>1, Inside
    <3>3. QED
      BY <2>2, <3>1, <3>2
  <2>5. CASE StringEscape \/ StringEscapeRefused \/ StringEscapeCutOff
    <3>1. /\ Char(position) = "\\" /\ position' = EscapeEnd(position + 1)
          /\ open' = open \/ open' = [open EXCEPT !.failed = TRUE]
      BY <2>5 DEF StringEscape, StringEscapeRefused, StringEscapeCutOff, GoOn
    <3>2. open'.start = open.start
      BY <2>1, <3>1
    <3>3. QED
      BY <2>3, <3>1, <3>2
  <2>6. QED
    BY <1>5, <2>4, <2>5, StringStays
<1>6. QED
  BY <1>3, <1>4, <1>5

(* The part of StringsEndAtQuote that speaks of one token. *)
StringClosed(token) ==
  LET body == token.start + 1
      last == IF token.type = "String" THEN token.end - 1 ELSE token.end
  IN  Char(token.start) = "\"" /\ token.type \in {"String", "Error"} =>
        /\ \A o \in body..(last - 1) : Char(o) \in {"\"", Newline} => Escaped(o, body)
        /\ token.type = "String" => Char(last) = "\"" /\ ~ Escaped(last, body)

(* It holds of every token that a scanner makes. *)
LEMMA StringCloses ==
  ASSUME LexInv, StringScan, NEW t \in TokenRecord, ScannedToHere(t)
  PROVE  StringClosed(t)
<1> DEFINE body == t.start + 1
<1>1. CASE t.type = "String"
  <2>1. /\ state = "InsideString" /\ t.start = open.start
        /\ Char(position) = "\"" /\ t.end = position + 1
    BY <1>1 DEF ScannedToHere
  <2>2. /\ BodyScanned(body, position) /\ position \in 0..Size /\ Size \in Nat
        /\ text \in Texts
    BY <2>1, InString DEF StringScan
  <2>3. Char(position) # Eof
    BY <2>1 DEF Eof
  <2>4. position # Size
    BY <2>2, <2>3, Inside
  <2>5. t.end - 1 = position
    <3>1. position \in Nat
      BY <2>2
    <3>2. t.end = position + 1
      BY <2>1
    <3>3. QED
      BY <3>1, <3>2
  <2>6. QED
    BY <1>1, <2>1, <2>2, <2>4, <2>5, Zenon DEF StringClosed, BodyScanned
<1>2. CASE t.type = "Error"
  <2>1. CASE state = "InsideString" /\ t.start = open.start /\ t.end = position
    <3>1. BodyScanned(body, position)
      BY <2>1 DEF StringScan
    <3>2. t.type # "String"
      BY <1>2
    <3>3. QED
      BY <2>1, <3>1, <3>2, Zenon DEF StringClosed, BodyScanned
  <2>2. CASE Char(t.start) # "\""
    BY <2>2, Zenon DEF StringClosed
  <2>3. CASE state = "InsideComment" /\ t.start = open.start
    <3>1. Char(t.start) = "/"
      BY <2>3 DEF LexInv, ScanInv
    <3>2. Char(t.start) # "\""
      BY <3>1
    <3>3. QED
      BY <2>2, <3>2
  <2>4. QED
    BY <1>2, <2>1, <2>2, <2>3 DEF ScannedToHere
<1>3. CASE t.type \notin {"String", "Error"}
  BY <1>3, Zenon DEF StringClosed
<1>4. QED
  BY <1>1, <1>2, <1>3

-----------------------------------------------------------------------------
(* Block comments end where as many were closed as were opened. *)

PairAt(o) == <<Char(o), Char(o + 1)>> \in {<<"/", "*">>, <<"*", "/">>}

(* The pairs that are taken from the left, from an offset on and inside a limit. *)
Pairing(p, from, to, limit) ==
  p = [o \in from..to |-> /\ PairAt(o)
                          /\ o + 2 <= limit
                          /\ o = from \/ ~ p[o - 1]]

(* There are such pairs. *)
LEMMA PairingExists ==
  ASSUME NEW from \in Nat, NEW to \in Nat, from <= to, NEW limit
  PROVE  \E p : Pairing(p, from, to, limit)
<1> DEFINE Mark(o) == PairAt(o) /\ o + 2 <= limit
           lacking == {n \in from..to : ~ \E p : Pairing(p, from, n, limit)}
<1>1. \A p, n : Pairing(p, from, n, limit) <=>
                  p = [o \in from..n |-> Mark(o) /\ (o = from \/ ~ p[o - 1])]
  BY Zenon DEF Pairing
<1> HIDE DEF Mark
<1>2. SUFFICES ASSUME lacking # {} PROVE FALSE
  OBVIOUS
<1>3. PICK m \in lacking : \A n \in lacking : m <= n
  <2>1. lacking \in SUBSET Nat
    OBVIOUS
  <2>2. QED
    BY <1>2, <2>1, LeastOffset
<1>4. CASE m = from
  <2> DEFINE p == [o \in from..from |-> Mark(o) /\ TRUE]
  <2>1. p = [o \in from..from |-> Mark(o) /\ (o = from \/ ~ p[o - 1])]
    <3> DEFINE r == [o \in from..from |-> Mark(o) /\ (o = from \/ ~ p[o - 1])]
    <3>1. \A o \in from..from : p[o] = (Mark(o) /\ TRUE)
      OBVIOUS
    <3>2. \A o \in from..from : r[o] = (Mark(o) /\ TRUE)
      OBVIOUS
    <3>3. p = r
      BY <3>1, <3>2
    <3>4. QED
      BY <3>3
  <2>2. Pairing(p, from, from, limit)
    BY <1>1, <2>1
  <2>3. QED
    BY <1>4, <2>2
<1>5. CASE m # from
  <2>1. m - 1 \in from..to /\ m - 1 \notin lacking
    BY <1>3, <1>5
  <2>2. PICK p : Pairing(p, from, m - 1, limit)
    BY <2>1
  <2>3. p = [o \in from..(m - 1) |-> Mark(o) /\ (o = from \/ ~ p[o - 1])]
    BY <1>1, <2>2
  <2> DEFINE q == [o \in from..m |-> IF o = m THEN Mark(m) /\ ~ p[m - 1] ELSE p[o]]
  <2>4. ASSUME NEW o \in from..m
        PROVE  q[o] = (Mark(o) /\ (o = from \/ ~ q[o - 1]))
    <3>1. CASE o = m
      <4>1. q[o] = (Mark(m) /\ ~ p[m - 1])
        BY <3>1
      <4>2. q[o - 1] = p[m - 1]
        BY <1>3, <1>5, <3>1
      <4>3. QED
        BY <1>5, <3>1, <4>1, <4>2
    <3>2. CASE o # m
      <4>1. o \in from..(m - 1) /\ q[o] = p[o] /\ (o # from => q[o - 1] = p[o - 1])
        BY <3>2
      <4>2. p[o] = (Mark(o) /\ (o = from \/ ~ p[o - 1]))
        BY <2>3, <4>1
      <4>3. QED
        BY <4>1, <4>2
    <3>3. QED
      BY <3>1, <3>2
  <2>5. q = [o \in from..m |-> Mark(o) /\ (o = from \/ ~ q[o - 1])]
    <3>1. DOMAIN q = from..m
      OBVIOUS
    <3> DEFINE r == [o \in from..m |-> Mark(o) /\ (o = from \/ ~ q[o - 1])]
    <3>2. \A o \in from..m : q[o] = r[o]
      BY <2>4
    <3>3. q = r
      BY <3>2
    <3>4. QED
      BY <3>3
  <2>6. Pairing(q, from, m, limit)
    BY <1>1, <2>5
  <2>7. QED
    BY <1>3, <2>6
<1>6. QED
  BY <1>4, <1>5

(* Where the pairs of a depth begin. *)
Paired(from, to) == CHOOSE p : Pairing(p, from, to, to)
Marks(from, to, c) == {o \in from..to : Paired(from, to)[o] /\ Char(o) = c}

LEMMA DepthIs ==
  \A from, to :
    Depth(from, to) = Cardinality(Marks(from, to, "/")) - Cardinality(Marks(from, to, "*"))
  BY Zenon DEF Depth, Marks, Paired, Pairing, PairAt

(* What they are, one after the other. *)
LEMMA PairedIs ==
  ASSUME NEW from \in Nat, NEW to \in Nat, from <= to
  PROVE  \A o \in from..to :
           Paired(from, to)[o] <=> /\ PairAt(o)
                                   /\ o + 2 <= to
                                   /\ o = from \/ ~ Paired(from, to)[o - 1]
<1> DEFINE p == Paired(from, to)
<1>1. \E q : Pairing(q, from, to, to)
  BY PairingExists
<1>2. Pairing(p, from, to, to)
  BY <1>1 DEF Paired
<1> HIDE DEF p
<1>3. p = [o \in from..to |-> PairAt(o) /\ o + 2 <= to /\ (o = from \/ ~ p[o - 1])]
  BY <1>2, Zenon DEF Pairing
<1>4. \A o \in from..to : p[o] = (PairAt(o) /\ o + 2 <= to /\ (o = from \/ ~ p[o - 1]))
  BY <1>3
<1>5. QED
  BY <1>4 DEF p

(* The pairs of the whole text, from an offset on. *)
PairStarts(from) == {o \in from..Size : Paired(from, Size)[o]}

LEMMA PairStartsIs ==
  ASSUME Size \in Nat, NEW from \in Nat, from <= Size
  PROVE  \A o \in from..Size :
           o \in PairStarts(from) <=> /\ PairAt(o)
                                      /\ o + 2 <= Size
                                      /\ o = from \/ o - 1 \notin PairStarts(from)
<1> DEFINE P(o) == Paired(from, Size)[o]
<1>1. \A o \in from..Size : P(o) <=> PairAt(o) /\ o + 2 <= Size /\ (o = from \/ ~ P(o - 1))
  BY PairedIs
<1>2. PairStarts(from) = {o \in from..Size : P(o)}
  BY DEF PairStarts
<1> HIDE DEF P
<1>3. \A o \in from..Size : o # from => o - 1 \in from..Size
  OBVIOUS
<1>4. QED
  BY <1>1, <1>2, <1>3

(* Those up to an earlier offset are the first of them. *)
LEMMA PairedAgree ==
  ASSUME Size \in Nat, NEW from \in Nat, NEW to \in Nat, from <= to, to <= Size
  PROVE  \A o \in from..to : Paired(from, to)[o] <=> o \in PairStarts(from) /\ o + 2 <= to
<1> DEFINE P(o) == Paired(from, to)[o]
           Q(o) == o \in PairStarts(from)
           others == {o \in from..to : ~ (P(o) <=> Q(o) /\ o + 2 <= to)}
<1>1. \A o \in from..to : P(o) <=> PairAt(o) /\ o + 2 <= to /\ (o = from \/ ~ P(o - 1))
  BY PairedIs
<1>2. \A o \in from..to : Q(o) <=> PairAt(o) /\ o + 2 <= Size /\ (o = from \/ ~ Q(o - 1))
  BY PairStartsIs
<1> HIDE DEF P, Q
<1>3. SUFFICES ASSUME others # {} PROVE FALSE
  BY DEF P, Q
<1>4. PICK m \in others : \A o \in others : m <= o
  <2>1. others \in SUBSET Nat
    OBVIOUS
  <2>2. QED
    BY <1>3, <2>1, LeastOffset
<1>5. m \in from..to /\ ~ (P(m) <=> Q(m) /\ m + 2 <= to)
  BY <1>4
<1>6. CASE m = from
  BY <1>1, <1>2, <1>5, <1>6
<1>7. CASE m # from
  <2>1. m - 1 \in from..to /\ m - 1 \notin others
    BY <1>4, <1>5, <1>7
  <2>2. P(m - 1) <=> Q(m - 1) /\ (m - 1) + 2 <= to
    BY <2>1
  <2>3. m + 2 <= to => (m - 1) + 2 <= to
    BY <1>5
  <2>4. QED
    BY <1>1, <1>2, <1>5, <1>7, <2>2, <2>3
<1>8. QED
  BY <1>6, <1>7

(* A depth counts those of them that end in time. *)
LEMMA MarksAre ==
  ASSUME Size \in Nat, NEW from \in Nat, NEW to \in Nat, from <= to, to <= Size, NEW c
  PROVE  /\ Marks(from, to, c) = {o \in PairStarts(from) : o + 2 <= to /\ Char(o) = c}
         /\ IsFiniteSet(Marks(from, to, c)) /\ Cardinality(Marks(from, to, c)) \in Nat
<1>1. Marks(from, to, c) = {o \in PairStarts(from) : o + 2 <= to /\ Char(o) = c}
  <2>1. PairStarts(from) \subseteq from..Size
    BY DEF PairStarts
  <2>2. \A o \in from..to : Paired(from, to)[o] <=> o \in PairStarts(from) /\ o + 2 <= to
    BY PairedAgree
  <2>3. \A o \in PairStarts(from) : o + 2 <= to => o \in from..to
    BY <2>1
  <2>4. QED
    BY <2>1, <2>2, <2>3 DEF Marks
<1>2. IsFiniteSet(Marks(from, to, c))
  <2>1. Marks(from, to, c) \subseteq from..to
    BY DEF Marks
  <2>2. IsFiniteSet(from..to)
    BY FS_Interval
  <2>3. QED
    BY <2>1, <2>2, FS_Subset
<1>3. QED
  BY <1>1, <1>2, FS_CardinalityType

(* From one offset to the next the marks grow by one or not at all. *)
LEMMA MarksNext ==
  ASSUME Size \in Nat, NEW from \in Nat, NEW o \in Nat, from <= o, o + 2 <= Size, NEW c
  PROVE  Cardinality(Marks(from, o + 2, c)) =
           Cardinality(Marks(from, o + 1, c)) + (IF o \in PairStarts(from) /\ Char(o) = c THEN 1 ELSE 0)
<1> DEFINE S == Marks(from, o + 1, c)
           T == Marks(from, o + 2, c)
           Here == o \in PairStarts(from) /\ Char(o) = c
<1>1. /\ S = {b \in PairStarts(from) : b + 2 <= o + 1 /\ Char(b) = c}
      /\ T = {b \in PairStarts(from) : b + 2 <= o + 2 /\ Char(b) = c}
      /\ IsFiniteSet(S) /\ Cardinality(S) \in Nat
  BY MarksAre
<1>2. \A b \in PairStarts(from) : b \in Nat
  BY DEF PairStarts
<1> HIDE DEF S, T
<1>3. o \notin S
  BY <1>1
<1>4. CASE Here
  <2>1. T = S \union {o}
    <3>1. \A b \in Nat : b + 2 <= o + 2 <=> b + 2 <= o + 1 \/ b = o
      OBVIOUS
    <3>2. \A b : b \in T <=> b \in S \/ b = o
      BY <1>1, <1>2, <1>4, <3>1
    <3>3. QED
      BY <3>2
  <2>2. Cardinality(T) = Cardinality(S) + 1
    BY <1>1, <1>3, <2>1, FS_AddElement
  <2>3. QED
    BY <1>4, <2>2 DEF S, T
<1>5. CASE ~ Here
  <2>1. T = S
    BY <1>1, <1>2, <1>5
  <2>2. QED
    BY <1>1, <1>5, <2>1 DEF S, T
<1>6. QED
  BY <1>4, <1>5

(* And the depth by one, less one or not at all. *)
LEMMA DepthNext ==
  ASSUME Size \in Nat, NEW from \in Nat, NEW o \in Nat, from <= o, o + 2 <= Size
  PROVE  /\ Depth(from, o + 1) \in Int
         /\ o \notin PairStarts(from) => Depth(from, o + 2) = Depth(from, o + 1)
         /\ o \in PairStarts(from) /\ Char(o) = "/" => Depth(from, o + 2) = Depth(from, o + 1) + 1
         /\ o \in PairStarts(from) /\ Char(o) = "*" => Depth(from, o + 2) = Depth(from, o + 1) - 1
<1> DEFINE Opened(to) == Cardinality(Marks(from, to, "/"))
           Closed(to) == Cardinality(Marks(from, to, "*"))
           opens == o \in PairStarts(from) /\ Char(o) = "/"
           closes == o \in PairStarts(from) /\ Char(o) = "*"
<1>1. \A to : Depth(from, to) = Opened(to) - Closed(to)
  BY DepthIs
<1>2. Opened(o + 1) \in Nat /\ Closed(o + 1) \in Nat
  BY MarksAre
<1>3. Opened(o + 2) = Opened(o + 1) + (IF opens THEN 1 ELSE 0)
  BY MarksNext
<1>4. Closed(o + 2) = Closed(o + 1) + (IF closes THEN 1 ELSE 0)
  BY MarksNext
<1>5. ~ (opens /\ closes)
  OBVIOUS
<1> HIDE DEF Opened, Closed, opens, closes
<1>6. /\ Depth(from, o + 1) \in Int
      /\ ~ opens /\ ~ closes => Depth(from, o + 2) = Depth(from, o + 1)
      /\ opens => Depth(from, o + 2) = Depth(from, o + 1) + 1
      /\ closes => Depth(from, o + 2) = Depth(from, o + 1) - 1
  BY <1>1, <1>2, <1>3, <1>4, <1>5
<1>7. QED
  BY <1>6 DEF opens, closes

(* No pair ends with the first character. *)
LEMMA DepthFirst ==
  ASSUME Size \in Nat, NEW from \in Nat, from + 1 <= Size
  PROVE  Depth(from, from + 1) = 0
<1>1. \A c : Marks(from, from + 1, c) = {}
  <2> TAKE c
  <2>1. Marks(from, from + 1, c)
          = {o \in PairStarts(from) : o + 2 <= from + 1 /\ Char(o) = c}
    BY MarksAre
  <2>2. \A o \in PairStarts(from) : o \in Nat /\ from <= o
    BY DEF PairStarts
  <2>3. QED
    BY <2>1, <2>2
<1>2. Cardinality({}) = 0
  BY FS_EmptySet
<1>3. QED
  BY <1>1, <1>2, DepthIs

(* What the loop over a block comment has behind it: as many openings more *)
(* than closings as it counts, more of them all the way, and no half pair. *)
BlockScanned(from, to, depth) ==
  /\ Depth(from, to) = depth
  /\ \A o \in (from + 2)..to : Depth(from, o) > 0
  /\ to - 1 \notin PairStarts(from)

(* The loop begins behind the opening. *)
LEMMA BlockBegins ==
  ASSUME text \in Texts, NEW from \in 0..Size, Char(from) = "/", Char(from + 1) = "*"
  PROVE  BlockScanned(from, from + 2, 1)
<1>1. Size \in Nat
  BY Peeked
<1>2. from + 2 <= Size
  <2>1. Char(from + 1) # Eof
    BY DEF Eof
  <2>2. from + 2 \in from..Size
    BY <2>1, PairFits
  <2>3. QED
    BY <1>1, <2>2
<1>3. PairAt(from)
  BY DEF PairAt
<1>4. /\ from \in Nat /\ from + 1 \in from..Size /\ (from + 1) - 1 = from
      /\ from \in from..Size /\ from + 1 # from /\ from <= Size /\ (from + 2) - 1 = from + 1
  BY <1>1, <1>2
<1>5. from \in PairStarts(from)
  BY <1>1, <1>2, <1>3, <1>4, PairStartsIs
<1>6. from + 1 \notin PairStarts(from)
  BY <1>1, <1>4, <1>5, PairStartsIs
<1>7. Depth(from, from + 2) = Depth(from, from + 1) + 1
  BY <1>1, <1>2, <1>4, <1>5, DepthNext
<1>8. Depth(from, from + 1) = 0
  BY <1>1, <1>2, <1>4, DepthFirst
<1>9. Depth(from, from + 2) = 1
  BY <1>7, <1>8
<1>10. \A o \in (from + 2)..(from + 2) : o = from + 2
  BY <1>4
<1>11. QED
  BY <1>4, <1>6, <1>9, <1>10 DEF BlockScanned

(* It goes on behind a character that begins no pair, and behind a pair. *)
LEMMA BlockGoesOn ==
  ASSUME text \in Texts, NEW from \in Nat, NEW at \in Nat, from + 2 <= at, NEW depth \in Nat,
         BlockScanned(from, at, depth)
  PROVE  /\ at < Size /\ ~ PairAt(at) => BlockScanned(from, at + 1, depth)
         /\ Char(at) = "/" /\ Char(at + 1) = "*" => BlockScanned(from, at + 2, depth + 1)
         /\ Char(at) = "*" /\ Char(at + 1) = "/" =>
              /\ Depth(from, at + 1) > 0
              /\ Depth(from, at + 2) = depth - 1
              /\ depth > 1 => BlockScanned(from, at + 2, depth - 1)
<1> DEFINE D(o) == Depth(from, o)
           Starts(o) == o \in PairStarts(from)
<1>1. Size \in Nat
  BY Peeked
<1>2. \A to, d : BlockScanned(from, to, d) <=>
                   D(to) = d /\ (\A o \in (from + 2)..to : D(o) > 0) /\ ~ Starts(to - 1)
  BY Zenon DEF BlockScanned
<1>3. ASSUME NEW o \in Nat, from <= o, o + 2 <= Size
      PROVE  /\ ~ Starts(o) => D(o + 2) = D(o + 1)
             /\ Starts(o) /\ Char(o) = "/" => D(o + 2) = D(o + 1) + 1
             /\ Starts(o) /\ Char(o) = "*" => D(o + 2) = D(o + 1) - 1
  BY <1>1, <1>3, DepthNext
<1>4. ASSUME NEW o \in Nat, from < o, o < Size
      PROVE  Starts(o) <=> PairAt(o) /\ o + 2 <= Size /\ ~ Starts(o - 1)
  <2>1. o \in from..Size /\ from <= Size /\ o # from
    BY <1>1, <1>4
  <2>2. QED
    BY <1>1, <2>1, PairStartsIs
<1> HIDE DEF D, Starts
<1>5. D(at) = depth /\ (\A o \in (from + 2)..at : D(o) > 0) /\ ~ Starts(at - 1)
  BY <1>2
<1>6. D(at) > 0
  <2>1. at \in (from + 2)..at
    OBVIOUS
  <2>2. QED
    BY <1>5, <2>1
<1>7. ASSUME at < Size
      PROVE  D(at + 1) = depth
  <2>1. at - 1 \in Nat /\ from <= at - 1 /\ (at - 1) + 2 <= Size
    BY <1>1, <1>7
  <2>2. D((at - 1) + 2) = D((at - 1) + 1)
    BY <1>3, <1>5, <2>1
  <2>3. (at - 1) + 2 = at + 1 /\ (at - 1) + 1 = at
    OBVIOUS
  <2>4. QED
    BY <1>5, <2>2, <2>3
<1>8. ASSUME at < Size, ~ PairAt(at)
      PROVE  BlockScanned(from, at + 1, depth)
  <2>1. ~ Starts(at)
    BY <1>4, <1>8
  <2>2. D(at + 1) = depth /\ depth > 0
    BY <1>5, <1>6, <1>7, <1>8
  <2>3. \A o \in (from + 2)..(at + 1) : D(o) > 0
    BY <1>5, <2>2
  <2>4. (at + 1) - 1 = at
    OBVIOUS
  <2>5. QED
    BY <1>2, <2>1, <2>2, <2>3, <2>4
<1>9. ASSUME PairAt(at), at + 2 <= Size
      PROVE  /\ Starts(at) /\ ~ Starts(at + 1) /\ D(at + 1) = depth /\ depth > 0
             /\ \A d \in Nat : d > 0 /\ D(at + 2) = d => BlockScanned(from, at + 2, d)
  <2>1. at < Size /\ from < at /\ at + 1 < Size /\ at + 1 \in Nat /\ (at + 1) - 1 = at
    BY <1>1, <1>9
  <2>2. Starts(at)
    BY <1>4, <1>5, <1>9, <2>1
  <2>3. ~ Starts(at + 1)
    BY <1>4, <2>1, <2>2
  <2>4. D(at + 1) = depth /\ depth > 0
    BY <1>5, <1>6, <1>7, <2>1
  <2>5. ASSUME NEW d \in Nat, d > 0, D(at + 2) = d
        PROVE  BlockScanned(from, at + 2, d)
    <3>1. \A o \in (from + 2)..(at + 2) : D(o) > 0
      BY <1>5, <2>4, <2>5
    <3>2. (at + 2) - 1 = at + 1
      OBVIOUS
    <3>3. QED
      BY <1>2, <2>3, <2>5, <3>1, <3>2
  <2>6. QED
    BY <2>2, <2>3, <2>4, <2>5
<1>10. ASSUME Char(at + 1) # Eof
       PROVE  at + 2 <= Size /\ at \in Nat /\ from <= at
  <2>1. at + 1 \in Nat /\ (at + 1) + 1 = at + 2
    OBVIOUS
  <2>2. (at + 1) + 1 \in 0..Size
    BY <1>10, <2>1, Inside
  <2>3. QED
    BY <1>1, <2>1, <2>2
<1>11. ASSUME Char(at) = "/", Char(at + 1) = "*"
       PROVE  BlockScanned(from, at + 2, depth + 1)
  <2>1. PairAt(at) /\ Char(at + 1) # Eof
    BY <1>11 DEF PairAt, Eof
  <2>2. at + 2 <= Size /\ from <= at
    BY <1>10, <2>1
  <2>3. Starts(at) /\ D(at + 1) = depth
    BY <1>9, <2>1, <2>2
  <2>4. D(at + 2) = D(at + 1) + 1
    BY <1>3, <1>11, <2>2, <2>3
  <2>5. depth + 1 \in Nat /\ depth + 1 > 0 /\ D(at + 2) = depth + 1
    BY <2>3, <2>4
  <2>6. QED
    BY <1>9, <2>1, <2>2, <2>5
<1>12. ASSUME Char(at) = "*", Char(at + 1) = "/"
       PROVE  /\ Depth(from, at + 1) > 0
              /\ Depth(from, at + 2) = depth - 1
              /\ depth > 1 => BlockScanned(from, at + 2, depth - 1)
  <2>1. PairAt(at) /\ Char(at + 1) # Eof
    BY <1>12 DEF PairAt, Eof
  <2>2. at + 2 <= Size /\ from <= at
    BY <1>10, <2>1
  <2>3. Starts(at) /\ D(at + 1) = depth /\ depth > 0
    BY <1>9, <2>1, <2>2
  <2>4. D(at + 2) = D(at + 1) - 1
    BY <1>3, <1>12, <2>2, <2>3
  <2>5. D(at + 2) = depth - 1 /\ D(at + 1) > 0
    BY <2>3, <2>4
  <2>6. depth > 1 => depth - 1 \in Nat /\ depth - 1 > 0
    OBVIOUS
  <2>7. depth > 1 => BlockScanned(from, at + 2, depth - 1)
    BY <1>9, <2>1, <2>2, <2>5, <2>6
  <2>8. QED
    BY <2>5, <2>7 DEF D
<1>13. QED
  BY <1>8, <1>11, <1>12

(* The invariant of the loop over a block comment. *)
CommentScan == state = "InsideComment" => BlockScanned(open.start, position, open.depth)

(* The only steps from within a comment to within it. *)
LEMMA CommentStays ==
  ASSUME state = "InsideComment", state' = "InsideComment", Next
  PROVE  NestComment \/ UnnestComment \/ CommentCharacter
<1>1. ScanComment
  BY DEF Next, ScanWhitespace, ScanDirective, ScanString, ScanCharacterLiteral, ScanWord,
         ScanOperator, ScanDelimiter, ScanUnknown, Finish, Finished, OpenString, CloseString,
         StringEscape, StringEscapeRefused, StringEscapeCutOff, StringCharacter,
         StringUnterminated, ScanAnnotation, ScanNumber, ScanBadNumber, ScanKeyword,
         ScanIdentifier, ScanCharacter, CharacterUnterminated, CharacterEscapeRefused,
         CharacterCutOff, Dispatch
<1>2. ~ OpenComment /\ ~ ScanLineComment
  BY DEF OpenComment, ScanLineComment, Dispatch
<1>3. AfterError # "InsideComment"
  BY DEF AfterError
<1>4. ~ CloseComment /\ ~ CommentUnterminated
  BY <1>3 DEF CloseComment, CommentUnterminated, Fail, FailTo, ReturnTo, ProduceTrivia, Produce
<1>5. QED
  BY <1>1, <1>2, <1>4 DEF ScanComment

(* The loop keeps it. *)
LEMMA CommentScanNext == LexInv /\ CommentScan /\ [Next]_vars => CommentScan'
<1> SUFFICES ASSUME LexInv, CommentScan, [Next]_vars, state' = "InsideComment"
             PROVE  BlockScanned(open.start, position, open.depth)'
  BY DEF CommentScan
<1>1. UNCHANGED text
  BY ToldSteps
<1>2. ASSUME NEW from, NEW to, NEW depth
      PROVE  BlockScanned(from, to, depth)' <=> BlockScanned(from', to', depth')
  BY <1>1 DEF BlockScanned, Depth, PairStarts, Paired, Pairing, PairAt, Char, Size
<1>3. CASE UNCHANGED vars
  BY <1>2, <1>3 DEF vars, CommentScan
<1>4. CASE state # "InsideComment"
  <2>1. Opens \/ Stays
    <3>1. Step
      BY NextSteps
    <3>2. QED
      BY <1>4, <3>1 DEF Step, Emits, Skips, Turns, Refuses, CutsOff, Ends
  <2>2. CASE Opens
    <3>1. /\ position' = position + 2 /\ open'.start = position /\ open'.depth = 1
          /\ Char(position) = "/" /\ Char(position + 1) = "*"
      BY <2>2 DEF Opens
    <3>2. position \in 0..Size /\ text \in Texts
      BY Now
    <3>3. BlockScanned(position, position + 2, 1)
      BY <3>1, <3>2, BlockBegins
    <3>4. QED
      BY <1>2, <3>1, <3>3
  <2>3. QED
    BY <1>3, <2>1, <2>2 DEF Stays
<1>5. CASE state = "InsideComment" /\ Next
  <2> DEFINE from == open.start
             depth == open.depth
  <2>1. /\ text \in Texts /\ position \in Nat /\ from \in Nat /\ from + 2 <= position
        /\ depth \in Nat /\ BlockScanned(from, position, depth)
        /\ open \in [start : 0..Size, depth : Nat, failed : BOOLEAN]
    BY <1>5, InComment DEF CommentScan, LexInv, ScanInv
  <2>2. ASSUME NEW to, NEW d, position' = to, open' = [open EXCEPT !.depth = d],
               BlockScanned(from, to, d)
        PROVE  BlockScanned(open.start, position, open.depth)'
    <3>1. open'.start = from /\ open'.depth = d
      BY <2>1, <2>2
    <3>2. QED
      BY <1>2, <2>2, <3>1
  <2>3. CASE NestComment
    <3>1. /\ Char(position) = "/" /\ Char(position + 1) = "*" /\ position' = position + 2
          /\ open' = [open EXCEPT !.depth = depth + 1]
      BY <2>3 DEF NestComment, At, GoOn
    <3>2. BlockScanned(from, position + 2, depth + 1)
      BY <2>1, <3>1, BlockGoesOn
    <3>3. QED
      BY <2>2, <3>1, <3>2
  <2>4. CASE UnnestComment
    <3>1. /\ Char(position) = "*" /\ Char(position + 1) = "/" /\ position' = position + 2
          /\ open' = [open EXCEPT !.depth = depth - 1] /\ depth > 1
      BY <2>4 DEF UnnestComment, At, GoOn
    <3>2. BlockScanned(from, position + 2, depth - 1)
      BY <2>1, <3>1, BlockGoesOn
    <3>3. QED
      BY <2>2, <3>1, <3>2
  <2>5. CASE CommentCharacter
    <3>1. /\ position < Size /\ position' = position + 1 /\ open' = open
          /\ ~ (Char(position) = "/" /\ Char(position + 1) = "*")
          /\ ~ (Char(position) = "*" /\ Char(position + 1) = "/")
      BY <2>5 DEF CommentCharacter, At, GoOn
    <3>2. ~ PairAt(position)
      BY <3>1 DEF PairAt
    <3>3. BlockScanned(from, position + 1, depth)
      BY <2>1, <3>1, <3>2, BlockGoesOn
    <3>4. QED
      BY <1>2, <3>1, <3>3
  <2>6. QED
    BY <1>5, <2>3, <2>4, <2>5, CommentStays
<1>6. QED
  BY <1>3, <1>4, <1>5

(* The part of CommentsBalanced that speaks of one token. *)
CommentClosed(token) ==
  /\ token.type \in {"Comment", "Error"}
  /\ <<Char(token.start), Char(token.start + 1)>> = <<"/", "*">>
  => /\ \A o \in (token.start + 2)..(token.end - 1) : Depth(token.start, o) > 0
     /\ IF token.type = "Comment"
        THEN Depth(token.start, token.end) = 0
        ELSE token.end = Size /\ Depth(token.start, Size) > 0

(* It holds of every token that a scanner makes. *)
LEMMA CommentCloses ==
  ASSUME LexInv, CommentScan, NEW t \in TokenRecord, ScannedToHere(t)
  PROVE  CommentClosed(t)
<1> DEFINE from == t.start
           opens == <<Char(from), Char(from + 1)>> = <<"/", "*">>
<1>1. opens <=> Char(from) = "/" /\ Char(from + 1) = "*"
  OBVIOUS
<1>2. CASE ~ opens \/ t.type \notin {"Comment", "Error"}
  BY <1>2, Zenon DEF CommentClosed
<1>3. CASE /\ state = "InsideComment" /\ from = open.start /\ At("*", "/") /\ open.depth = 1
           /\ t.end = position + 2 /\ t.type = "Comment"
  <2>1. /\ text \in Texts /\ position \in Nat /\ from \in Nat /\ from + 2 <= position
        /\ BlockScanned(from, position, 1)
    BY <1>3, InComment DEF CommentScan, LexInv, ScanInv
  <2>2. Depth(from, position + 1) > 0 /\ Depth(from, position + 2) = 1 - 1
    BY <1>3, <2>1, BlockGoesOn DEF At
  <2>3. \A o \in (from + 2)..position : Depth(from, o) > 0
    BY <2>1 DEF BlockScanned
  <2>4. \A o \in (from + 2)..(t.end - 1) : Depth(from, o) > 0
    <3>1. t.end = position + 2
      BY <1>3
    <3>2. \A o \in (from + 2)..(t.end - 1) : o \in (from + 2)..position \/ o = position + 1
      BY <2>1, <3>1
    <3>3. QED
      BY <2>2, <2>3, <3>2
  <2>5. Depth(from, t.end) = 0
    BY <1>3, <2>2
  <2>6. QED
    BY <1>3, <2>4, <2>5, Zenon DEF CommentClosed
<1>4. CASE /\ state = "InsideComment" /\ from = open.start /\ position = Size
           /\ t.end = position /\ t.type = "Error"
  <2>1. /\ position \in Nat /\ from \in Nat /\ from + 2 <= position
        /\ BlockScanned(from, position, open.depth)
    BY <1>4, InComment DEF CommentScan, LexInv, ScanInv
  <2>2. \A o \in (from + 2)..position : Depth(from, o) > 0
    BY <2>1 DEF BlockScanned
  <2>3. \A o \in (from + 2)..(t.end - 1) : Depth(from, o) > 0
    <3>1. t.end = position
      BY <1>4
    <3>2. (from + 2)..(t.end - 1) \subseteq (from + 2)..position
      BY <2>1, <3>1
    <3>3. QED
      BY <2>2, <3>2
  <2>4. Depth(from, Size) > 0 /\ t.end = Size
    <3>1. position \in (from + 2)..position
      BY <2>1
    <3>2. QED
      BY <1>4, <2>2, <3>1
  <2>5. t.type # "Comment"
    BY <1>4
  <2>6. QED
    BY <2>3, <2>4, <2>5, Zenon DEF CommentClosed
<1>5. CASE state = "InsideString" /\ from = open.start
  <2>1. Char(from) = "\""
    BY <1>5 DEF LexInv, ScanInv
  <2>2. ~ opens
    BY <1>1, <2>1
  <2>3. QED
    BY <1>2, <2>2
<1>6. CASE opens /\ t.type \in {"Comment", "Error"} /\ ~ (state = "InsideString" /\ from = open.start)
  <2>1. Char(from) = "/" /\ Char(from + 1) = "*" /\ Char(from + 1) # "/"
    BY <1>1, <1>6
  <2>2. QED
    BY <1>3, <1>4, <1>6, <2>1 DEF ScannedToHere
<1>7. QED
  BY <1>2, <1>5, <1>6

-----------------------------------------------------------------------------
(* What is opened is closed where the language says. *)

ClosedInv == \A i \in 1..Len(Said) : StringClosed(Said[i]) /\ CommentClosed(Said[i])

(* Every token is closed as its loop ended, and stays so. *)
LEMMA ClosedInvNext ==
  LexInv /\ StringScan /\ CommentScan /\ ClosedInv /\ [Next]_vars => ClosedInv'
<1> SUFFICES ASSUME LexInv, StringScan, CommentScan, ClosedInv, [Next]_vars PROVE ClosedInv'
  OBVIOUS
<1>1. Makes /\ UNCHANGED text /\ Said \in Seq(TokenRecord)
  BY NextMakes, ToldSteps
<1>2. ASSUME NEW i \in 1..Len(Said')
      PROVE  StringClosed(Said'[i]) /\ CommentClosed(Said'[i])
  <2>1. CASE Said' = Said
    BY <2>1 DEF ClosedInv
  <2>2. CASE \E t \in TokenRecord : Said' = Append(Said, t) /\ Origin(t)
    <3>1. PICK t \in TokenRecord : Said' = Append(Said, t) /\ Origin(t)
      BY <2>2
    <3>2. (i \in 1..Len(Said) /\ Said'[i] = Said[i]) \/ Said'[i] = t
      BY <1>1, <3>1
    <3>3. StringClosed(t) /\ CommentClosed(t)
      BY <3>1, StringCloses, CommentCloses DEF Origin
    <3>4. QED
      BY <3>2, <3>3 DEF ClosedInv
  <2>3. QED
    BY <1>1, <2>1, <2>2 DEF Makes
<1>3. ASSUME NEW t
      PROVE  (StringClosed(t)' <=> StringClosed(t')) /\ (CommentClosed(t)' <=> CommentClosed(t'))
  BY <1>1 DEF StringClosed, CommentClosed, Escaped, Depth, Char, Size
<1>4. QED
  BY <1>2, <1>3 DEF ClosedInv

(* A string ends at its first quote that is not escaped and a block comment *)
(* where as many were closed as were opened; where neither comes there is   *)
(* an Error token in its place.                                             *)
THEOREM DelimitersMatch == Spec => []DelimitersMatched
<1>1. Init => StringScan /\ CommentScan /\ ClosedInv
  <2> SUFFICES ASSUME Init PROVE StringScan /\ CommentScan /\ ClosedInv
    OBVIOUS
  <2>1. tokens = <<>> /\ pending = <<>> /\ state = "Normal"
    BY DEF Init
  <2>2. 1..Len(Said) = {}
    BY <2>1 DEF Said
  <2>3. QED
    BY <2>1, <2>2 DEF StringScan, CommentScan, ClosedInv
<1>2. LexInv /\ ClosedInv => DelimitersMatched
  <2> SUFFICES ASSUME LexInv, ClosedInv PROVE DelimitersMatched
    OBVIOUS
  <2>1. \A i \in 1..Len(tokens) : StringClosed(tokens[i]) /\ CommentClosed(tokens[i])
    BY SaidTokens DEF ClosedInv
  <2>2. StringsEndAtQuote
    BY <2>1, Zenon DEF StringsEndAtQuote, StringClosed
  <2>3. CommentsBalanced
    BY <2>1, Zenon DEF CommentsBalanced, CommentClosed
  <2>4. QED
    BY <2>2, <2>3 DEF DelimitersMatched
<1>3. QED
  BY <1>1, <1>2, StringScanNext, CommentScanNext, ClosedInvNext, LexInvAlways, PTL DEF Spec

-----------------------------------------------------------------------------
(* Lines and columns of any content. *)

(* A set of numbers up to a bound has a greatest. *)
LEMMA GreatestOffset ==
  ASSUME NEW n \in Nat, NEW S \in SUBSET (0..n), S # {}
  PROVE  \E x \in S : \A y \in S : y <= x
<1> DEFINE above == {b \in Nat : \A y \in S : y <= b}
<1>1. above \in SUBSET Nat /\ n \in above
  OBVIOUS
<1>2. PICK b \in above : \A c \in above : b <= c
  BY <1>1, LeastOffset
<1>3. b \in S
  <2> SUFFICES ASSUME b \notin S PROVE FALSE
    OBVIOUS
  <2>1. PICK y \in S : TRUE
    OBVIOUS
  <2>2. y < b /\ y \in Nat /\ b \in Nat
    BY <1>2, <2>1
  <2>3. \A z \in S : z \in Nat /\ z <= b /\ z # b
    BY <1>2
  <2>4. b - 1 \in above
    BY <2>2, <2>3
  <2>5. QED
    BY <1>2, <2>2, <2>4
<1>4. QED
  BY <1>2, <1>3

(* The starts of lines up to an offset. *)
LEMMA StartsAre ==
  ASSUME NEW content \in Seq(Alphabet), NEW offset \in 0..Len(content)
  PROVE  /\ StartsUpTo(content, offset)
              = {0} \union {i \in 1..offset : content[i] = Newline}
         /\ LineStarts(content) \subseteq 0..Len(content)
         /\ IsFiniteSet(LineStarts(content)) /\ GetLineCount(content) \in Nat
         /\ StartsUpTo(content, offset) \subseteq 0..offset
         /\ StartsUpTo(content, offset) \subseteq LineStarts(content)
         /\ 0 \in StartsUpTo(content, offset)
         /\ IsFiniteSet(StartsUpTo(content, offset))
         /\ Cardinality(StartsUpTo(content, offset)) \in Nat
         /\ Cardinality(StartsUpTo(content, offset)) \in 1..GetLineCount(content)
<1>1. Len(content) \in Nat /\ offset \in Nat /\ offset <= Len(content)
  OBVIOUS
<1> DEFINE N(i) == content[i] = Newline
           starts == StartsUpTo(content, offset)
           all == LineStarts(content)
<1>2. all = {0} \union {i \in 1..Len(content) : N(i)}
  BY DEF LineStarts
<1>3. starts = {s \in all : s <= offset}
  BY DEF StartsUpTo
<1> HIDE DEF N, starts, all
<1>4. all \subseteq 0..Len(content) /\ starts \subseteq all /\ starts \subseteq 0..offset
  BY <1>1, <1>2, <1>3
<1>5. starts = {0} \union {i \in 1..offset : N(i)}
  BY <1>1, <1>2, <1>3
<1>6. 0 \in starts
  BY <1>5
<1>7. IsFiniteSet(all)
  <2>1. IsFiniteSet(0..Len(content))
    BY <1>1, FS_Interval
  <2>2. QED
    BY <1>4, <2>1, FS_Subset
<1>8. IsFiniteSet(starts) /\ Cardinality(starts) <= Cardinality(all)
  BY <1>4, <1>7, FS_Subset
<1>9. Cardinality(starts) \in Nat /\ Cardinality(all) \in Nat
  BY <1>7, <1>8, FS_CardinalityType
<1>10. Cardinality(starts) # 0
  BY <1>6, <1>8, FS_EmptySet
<1>11. Cardinality(starts) \in 1..Cardinality(all)
  BY <1>8, <1>9, <1>10
<1>12. GetLineCount(content) = Cardinality(all)
  BY DEF GetLineCount, all
<1>13. QED
  BY <1>4, <1>5, <1>6, <1>7, <1>8, <1>9, <1>11, <1>12 DEF starts, all, N

(* Each line has one start. *)
LEMMA LineOfStart ==
  ASSUME NEW content \in Seq(Alphabet), NEW start \in LineStarts(content)
  PROVE  /\ Cardinality(StartsUpTo(content, start)) \in 1..GetLineCount(content)
         /\ GetLineStartOffset(content, Cardinality(StartsUpTo(content, start))) = start
<1> DEFINE all == LineStarts(content)
           UpTo(s) == StartsUpTo(content, s)
           Line(s) == Cardinality(UpTo(s))
<1>1. Len(content) \in Nat /\ 0 \in 0..Len(content)
  OBVIOUS
<1>2. all \subseteq 0..Len(content)
  BY <1>1, StartsAre
<1>3. ASSUME NEW s \in all
      PROVE  /\ IsFiniteSet(UpTo(s)) /\ Line(s) \in 1..GetLineCount(content) /\ Line(s) \in Nat
             /\ UpTo(s) = {r \in all : r <= s}
  <2>1. s \in 0..Len(content)
    BY <1>2
  <2>2. QED
    BY <2>1, StartsAre DEF StartsUpTo
<1>4. ASSUME NEW s \in all, NEW r \in all, Line(s) = Line(r), s < r
      PROVE  FALSE
  <2>1. UpTo(s) \subseteq UpTo(r) /\ r \in UpTo(r) /\ r \notin UpTo(s)
    BY <1>1, <1>2, <1>3, <1>4
  <2>2. IsFiniteSet(UpTo(r))
    BY <1>3
  <2> HIDE DEF UpTo
  <2>3. UpTo(s) = UpTo(r)
    BY <1>4, <2>1, <2>2, FS_Subset
  <2>4. QED
    BY <2>1, <2>3
<1>5. Line(start) \in 1..GetLineCount(content)
  BY <1>3
<1>6. GetLineStartOffset(content, Line(start)) = CHOOSE s \in all : Line(s) = Line(start)
  BY <1>5, Zenon DEF GetLineStartOffset
<1> HIDE DEF all, Line, UpTo
<1>7. start \in all
  BY DEF all
<1> DEFINE chosen == CHOOSE s \in all : Line(s) = Line(start)
<1>8. chosen \in all /\ Line(chosen) = Line(start)
  BY <1>7
<1> HIDE DEF chosen
<1>9. chosen = start
  <2>1. chosen \in Nat /\ start \in Nat
    BY <1>1, <1>2, <1>7, <1>8
  <2>2. ~ (chosen < start) /\ ~ (start < chosen)
    BY <1>4, <1>7, <1>8
  <2>3. QED
    BY <2>1, <2>2
<1>10. QED
  BY <1>5, <1>6, <1>9 DEF chosen, Line, UpTo

(* An offset is in the line of the last start up to it, at the column that *)
(* leads back to it, and before the line's end.                            *)
LEMMA PlaceIs ==
  ASSUME NEW content \in Seq(Alphabet), NEW offset \in 0..Len(content)
  PROVE  LET place == GetLineAndColumn(content, offset)
             end == GetLineEndOffset(content, place.line)
         IN  /\ place.line = Cardinality(StartsUpTo(content, offset))
             /\ \E start \in 0..offset :
                  /\ GetLineStartOffset(content, place.line) = start
                  /\ place.column = offset - start + 1
             /\ end \in offset..Len(content)
             /\ offset < end \/ offset = Len(content)
<1> DEFINE starts == StartsUpTo(content, offset)
           all == LineStarts(content)
           size == Len(content)
           count == GetLineCount(content)
           line == Cardinality(starts)
           last == CHOOSE s \in starts : \A r \in starts : r <= s
<1>1. /\ size \in Nat /\ offset \in Nat /\ offset <= size
      /\ starts \subseteq 0..offset /\ starts \subseteq all /\ 0 \in starts
      /\ all \subseteq 0..size /\ IsFiniteSet(all) /\ IsFiniteSet(starts)
      /\ line \in Nat /\ line \in 1..count /\ count \in Nat
  BY StartsAre
<1>2. GetLineAndColumn(content, offset) = [line |-> line, column |-> offset - last + 1]
  <2>1. ~ (offset > size)
    BY <1>1
  <2>2. QED
    BY <2>1, Zenon DEF GetLineAndColumn
<1>3. \A s \in 0..size : StartsUpTo(content, s) = {r \in all : r <= s}
  BY DEF StartsUpTo
<1>4. GetLineEndOffset(content, line)
        = IF line = count THEN size ELSE GetLineStartOffset(content, line + 1)
  BY <1>1 DEF GetLineEndOffset
<1>5. count = Cardinality(all)
  BY DEF GetLineCount
<1>6. starts = {r \in all : r <= offset}
  BY <1>1, <1>3
<1>7. last \in starts /\ \A r \in starts : r <= last
  <2> HIDE DEF starts
  <2>1. \E s \in starts : \A r \in starts : r <= s
    BY <1>1, GreatestOffset
  <2>2. QED
    BY <2>1
<1> HIDE DEF starts, last, count, all, line, size
<1>8. StartsUpTo(content, last) = starts
  <2>1. last \in 0..size /\ last \in 0..offset
    BY <1>1, <1>7
  <2>2. StartsUpTo(content, last) = {r \in all : r <= last}
    BY <1>3, <2>1
  <2>3. \A r \in all : r \in Nat
    BY <1>1
  <2>4. \A r \in all : r <= last <=> r <= offset
    <3>1. \A r \in all : r <= offset => r <= last
      BY <1>6, <1>7
    <3>2. last <= offset /\ last \in Nat /\ offset \in Nat
      BY <1>1, <2>1
    <3>3. QED
      BY <2>3, <3>1, <3>2
  <2>5. QED
    BY <1>6, <2>2, <2>4
<1>9. GetLineStartOffset(content, line) = last
  <2>1. last \in LineStarts(content)
    BY <1>1, <1>7 DEF all
  <2>2. GetLineStartOffset(content, Cardinality(StartsUpTo(content, last))) = last
    BY <2>1, LineOfStart
  <2>3. QED
    BY <1>8, <2>2 DEF line
<1>10. CASE line = count
  <2>1. GetLineEndOffset(content, line) = size
    BY <1>4, <1>10
  <2>2. QED
    BY <1>1, <1>2, <1>7, <1>9, <2>1 DEF line, starts, size
<1>11. CASE line # count
  <2> DEFINE later == {s \in all : s > offset}
  <2>1. later \in SUBSET Nat /\ later # {}
    <3>1. starts # all
      BY <1>5, <1>11 DEF line
    <3>2. \E s \in all : s \notin starts
      BY <1>1, <3>1
    <3>3. PICK s \in all : s \notin starts
      BY <3>2
    <3>4. s \in Nat /\ offset \in Nat /\ ~ (s <= offset)
      BY <1>1, <1>6, <3>3
    <3>5. s \in later
      BY <3>4
    <3>6. \A r \in later : r \in Nat
      <4>1. \A r \in all : r \in Nat
        BY <1>1
      <4>2. QED
        BY <4>1
    <3>7. QED
      BY <3>5, <3>6
  <2>2. PICK next \in later : \A s \in later : next <= s
    BY <2>1, LeastOffset
  <2>3. next \in all /\ next > offset /\ next \in 0..size /\ next \in Nat
    BY <1>1, <2>2
  <2>4. StartsUpTo(content, next) = starts \union {next}
    <3>1. StartsUpTo(content, next) = {r \in all : r <= next}
      BY <1>3, <2>3
    <3>2. \A r \in all : r \in Nat /\ (r <= next <=> r <= offset \/ r = next)
      BY <1>1, <2>2, <2>3
    <3>3. QED
      BY <1>6, <2>3, <3>1, <3>2
  <2>5. Cardinality(StartsUpTo(content, next)) = line + 1
    <3>1. next \notin starts
      BY <1>1, <2>3
    <3>2. IsFiniteSet(starts)
      BY <1>1
    <3>3. Cardinality(starts \union {next}) = Cardinality(starts) + 1
      BY <3>1, <3>2, FS_AddElement
    <3>4. QED
      BY <2>4, <3>3 DEF line
  <2>6. GetLineStartOffset(content, line + 1) = next
    <3>1. next \in LineStarts(content)
      BY <2>3 DEF all
    <3>2. GetLineStartOffset(content, Cardinality(StartsUpTo(content, next))) = next
      BY <3>1, LineOfStart
    <3>3. QED
      BY <2>5, <3>2
  <2>7. GetLineEndOffset(content, line) = next
    BY <1>4, <1>11, <2>6
  <2>8. QED
    BY <1>1, <1>2, <1>7, <1>9, <2>3, <2>7 DEF line, starts, size
<1>12. QED
  BY <1>10, <1>11

(* As many lines start up to an offset as newlines come before it, and one. *)
LEMMA NewlinesBefore ==
  ASSUME NEW content \in Seq(Alphabet), NEW offset \in 0..Len(content)
  PROVE  Cardinality(StartsUpTo(content, offset))
           = 1 + Cardinality({o \in 0..(offset - 1) : content[o + 1] = Newline})
<1> DEFINE N(i) == content[i] = Newline
           before == {o \in 0..(offset - 1) : N(o + 1)}
           behind == {i \in 1..offset : N(i)}
           f == [o \in before |-> o + 1]
<1>1. offset \in Nat
  OBVIOUS
<1>2. StartsUpTo(content, offset) = {0} \union behind
  BY StartsAre
<1> HIDE DEF N
<1>3. \A o \in before : f[o] \in behind
  BY <1>1
<1>4. \A i \in behind : i - 1 \in before /\ f[i - 1] = i
  BY <1>1
<1>5. \A o, p \in before : f[o] = f[p] => o = p
  OBVIOUS
<1>6. f \in [before -> behind]
  BY <1>3
<1>7. f \in Bijection(before, behind)
  <2>1. f \in Injection(before, behind)
    BY <1>5, <1>6 DEF Injection, IsInjective
  <2>2. f \in Surjection(before, behind)
    <3> HIDE DEF f, before, behind
    <3>1. \A i \in behind : \E o \in before : f[o] = i
      BY <1>4
    <3>2. QED
      BY <1>6, <3>1 DEF Surjection
  <2>3. QED
    BY <2>1, <2>2 DEF Bijection
<1>8. ExistsBijection(before, behind)
  BY <1>7 DEF ExistsBijection
<1>9. IsFiniteSet(before)
  <2>1. IsFiniteSet(0..(offset - 1))
    BY <1>1, FS_Interval
  <2>2. QED
    BY <2>1, FS_Subset
<1> HIDE DEF f
<1>10. IsFiniteSet(behind) /\ Cardinality(behind) = Cardinality(before)
  BY <1>8, <1>9, FS_Bijection
<1>11. 0 \notin behind
  OBVIOUS
<1>12. Cardinality(behind \union {0}) = Cardinality(behind) + 1 /\ Cardinality(before) \in Nat
  <2> HIDE DEF behind, before
  <2>1. QED
    BY <1>9, <1>10, <1>11, FS_AddElement, FS_CardinalityType
<1>13. StartsUpTo(content, offset) = behind \union {0}
  BY <1>2
<1>14. QED
  <2> HIDE DEF behind, before
  <2>1. Cardinality(StartsUpTo(content, offset)) = 1 + Cardinality(before)
    BY <1>10, <1>12, <1>13
  <2>2. QED
    BY <2>1 DEF before, N

(* The line as it is shown holds its characters but for the ending. *)
LEMMA ShownIs ==
  ASSUME NEW content \in Seq(Alphabet), NEW line, NEW start \in Nat, NEW end \in Nat,
         start = GetLineStartOffset(content, line), end = GetLineEndOffset(content, line),
         start <= end, end <= Len(content)
  PROVE  \E shown \in start..end :
           /\ GetLine(content, line) = SubSeq(content, start + 1, shown)
           /\ \A i \in (shown + 1)..end : content[i] \in {Newline, CarriageReturn}
<1> DEFINE Ending(i) == content[i] \in {Newline, CarriageReturn}
           Shown(e) == (e = start \/ ~ Ending(e)) /\ \A i \in (e + 1)..end : Ending(i)
           shown == CHOOSE e \in start..end : Shown(e)
           possible == {e \in start..end : \A i \in (e + 1)..end : Ending(i)}
<1>1. GetLine(content, line) = SubSeq(content, start + 1, shown)
  BY Zenon DEF GetLine
<1> HIDE DEF Ending
<1>2. end \in possible /\ possible \in SUBSET Nat
  OBVIOUS
<1>3. PICK e \in possible : \A b \in possible : e <= b
  <2> HIDE DEF possible
  <2>1. QED
    BY <1>2, LeastOffset
<1>4. Shown(e)
  <2> SUFFICES ASSUME e # start, Ending(e) PROVE FALSE
    BY <1>3
  <2>1. e - 1 \in start..end
    BY <1>3
  <2>2. \A i \in ((e - 1) + 1)..end : i = e \/ i \in (e + 1)..end
    BY <1>3
  <2>3. e - 1 \in possible
    BY <1>3, <2>1, <2>2
  <2>4. QED
    BY <1>3, <2>3
<1>5. e \in start..end
  BY <1>3
<1>6. shown \in start..end /\ Shown(shown)
  <2> HIDE DEF Shown
  <2>1. QED
    BY <1>4, <1>5
<1> HIDE DEF shown
<1>7. \A i \in (shown + 1)..end : content[i] \in {Newline, CarriageReturn}
  BY <1>6 DEF Ending
<1>8. QED
  BY <1>1, <1>6, <1>7

(* Lines and columns agree with every text that is lexed. *)
THEOREM LinesAreRight == Spec => []LinesAgree
<1>1. TypeOK => LinesAgree
  <2> SUFFICES ASSUME TypeOK, NEW offset \in 0..Size
               PROVE  LET place == GetLineAndColumn(text, offset)
                          shown == GetLine(text, place.line)
                      IN  /\ place.line
                               = 1 + Cardinality({o \in 0..(offset - 1) : Char(o) = Newline})
                          /\ GetLineStartOffset(text, place.line) + place.column - 1 = offset
                          /\ offset < GetLineEndOffset(text, place.line) \/ offset = Size
                          /\ IF place.column <= Len(shown)
                             THEN shown[place.column] = Char(offset)
                             ELSE Char(offset) \in {Newline, CarriageReturn, Eof}
    BY Zenon DEF LinesAgree
  <2> DEFINE place == GetLineAndColumn(text, offset)
             line == place.line
             end == GetLineEndOffset(text, line)
             shown == GetLine(text, line)
  <2>1. text \in Seq(Alphabet) /\ Size = Len(text) /\ Size \in Nat /\ text \in Texts
    BY TextsAssumption, Peeked DEF TypeOK, Size
  <2>2. offset \in 0..Len(text)
    BY <2>1
  <2>3. PICK start \in 0..offset :
          /\ GetLineStartOffset(text, line) = start
          /\ place.column = offset - start + 1
    BY <2>1, <2>2, PlaceIs
  <2>4. /\ line = Cardinality(StartsUpTo(text, offset))
        /\ end \in offset..Size
        /\ offset < end \/ offset = Size
    BY <2>1, <2>2, PlaceIs
  <2> HIDE DEF place, end, shown
  <2>5. line = 1 + Cardinality({o \in 0..(offset - 1) : Char(o) = Newline})
    <3>1. \A o \in 0..(offset - 1) : Char(o) = text[o + 1]
      BY <2>1 DEF Char
    <3>2. {o \in 0..(offset - 1) : Char(o) = Newline}
            = {o \in 0..(offset - 1) : text[o + 1] = Newline}
      BY <3>1
    <3>3. QED
      BY <2>1, <2>2, <2>4, <3>2, NewlinesBefore
  <2>6. GetLineStartOffset(text, line) + place.column - 1 = offset
    BY <2>1, <2>3
  <2>7. PICK last \in start..end :
          /\ shown = SubSeq(text, start + 1, last)
          /\ \A i \in (last + 1)..end : text[i] \in {Newline, CarriageReturn}
    <3>1. start \in Nat /\ end \in Nat /\ start <= end /\ end <= Len(text)
      BY <2>1, <2>3, <2>4
    <3>2. QED
      BY <2>1, <2>3, <3>1, ShownIs DEF end, shown
  <2>8. last \in Nat /\ last <= Len(text) /\ start <= last /\ start \in Nat
    BY <2>1, <2>3, <2>4, <2>7
  <2>9. Len(shown) = last - start /\ \A i \in 1..(last - start) : shown[i] = text[start + i]
    BY <2>1, <2>7, <2>8
  <2>10. CASE place.column <= Len(shown)
    <3>1. place.column \in 1..(last - start) /\ start + place.column = offset + 1
      BY <2>1, <2>3, <2>8, <2>9, <2>10
    <3>2. shown[place.column] = text[offset + 1] /\ offset < Size
      BY <2>1, <2>8, <2>9, <3>1
    <3>3. shown[place.column] = Char(offset)
      BY <3>2 DEF Char
    <3>4. QED
      BY <2>4, <2>5, <2>6, <2>10, <3>3, Zenon DEF place, end, shown
  <2>11. CASE ~ (place.column <= Len(shown))
    <3>1. CASE offset = Size
      <4>1. Char(offset) = Eof
        BY <2>1, <3>1, Peeked
      <4>2. QED
        BY <2>4, <2>5, <2>6, <2>11, <4>1, Zenon DEF place, end, shown
    <3>2. CASE offset < end
      <4>1. offset + 1 \in (last + 1)..end /\ offset < Size
        BY <2>1, <2>3, <2>4, <2>8, <2>9, <2>11, <3>2
      <4>2. Char(offset) \in {Newline, CarriageReturn}
        BY <2>7, <4>1 DEF Char
      <4>3. QED
        BY <2>4, <2>5, <2>6, <2>11, <4>2, Zenon DEF place, end, shown
    <3>3. QED
      BY <2>4, <3>1, <3>2
  <2>12. QED
    BY <2>10, <2>11
<1>2. QED
  BY <1>1, TypeCorrect, PTL
=============================================================================
