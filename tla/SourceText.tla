----------------------------- MODULE SourceText -----------------------------
(* Offsets and lines of a source text: LineTable and SourceBuffer.           *)
(* A text is a sequence of characters; offset o is the character text[o + 1], *)
(* and an offset counts characters where the code counts bytes.              *)
EXTENDS Integers, Sequences, FiniteSets

Newline == "\n"
CarriageReturn == "\r"

(* line_starts_: 0 and every offset that follows a newline. *)
LineStarts(text) == {0} \cup {i \in 1..Len(text) : text[i] = Newline}

GetLineCount(text) == Cardinality(LineStarts(text))

(* upper_bound: the starts that are not after the offset. *)
StartsUpTo(text, offset) == {s \in LineStarts(text) : s <= offset}

(* lower_bound in the place of upper_bound. *)
GetLineAndColumnExclusive(text, offset) ==
    LET starts == {s \in LineStarts(text) : s = 0 \/ s < offset}
        last == CHOOSE s \in starts : \A r \in starts : r <= s
    IN  [line |-> Cardinality(starts), column |-> offset - last + 1]

(* A location past the end of the text is the first column of the last line. *)
GetLineAndColumn(text, offset) ==
    IF offset > Len(text)
    THEN [line |-> GetLineCount(text), column |-> 1]
    ELSE LET starts == StartsUpTo(text, offset)
             last == CHOOSE s \in starts : \A r \in starts : r <= s
         IN  [line |-> Cardinality(starts), column |-> offset - last + 1]

GetLineStartOffset(text, line) ==
    IF line \in 1..GetLineCount(text)
    THEN CHOOSE s \in LineStarts(text) : Cardinality(StartsUpTo(text, s)) = line
    ELSE 0

GetLineEndOffset(text, line) ==
    CASE line \notin 1..GetLineCount(text) -> 0
      [] line = GetLineCount(text) -> Len(text)
      [] OTHER -> GetLineStartOffset(text, line + 1)

(* The line as it is shown: without the newlines and carriage returns at its end. *)
GetLine(text, line) ==
    LET start == GetLineStartOffset(text, line)
        end == GetLineEndOffset(text, line)
        Ending(i) == text[i] \in {Newline, CarriageReturn}
        shown == CHOOSE e \in start..end :
                     /\ e = start \/ ~Ending(e)
                     /\ \A i \in (e + 1)..end : Ending(i)
    IN  SubSeq(text, start + 1, shown)
=============================================================================
