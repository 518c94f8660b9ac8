---------------------------- MODULE ParserProofs ----------------------------
(***************************************************************************)
(* Theorems of Parser, for every set of token streams and configurations:  *)
(* no parser takes the end of file or follows a null pointer, whatever the *)
(* text, spans stay inside it and trees have no cycles.                    *)
(***************************************************************************)
EXTENDS Grammar, WellFoundedInduction, TLAPS

-----------------------------------------------------------------------------
(* The invariant. *)

(* The cursor stands on a token. *)
GoodContext(c) == c \in ParserState /\ c.position < Len(text)

(* d is a context that a parser may reach from c. *)
Follows(d, c) == GoodContext(d) /\ c.position <= d.position

(* The tokens of a span are tokens of the stream. *)
GoodSpan(span) ==
  span \in Span /\ span.start < Len(text) /\ span.end >= -1 /\ span.end < Len(text)

(* How many parts the function at a point has at least, for it is going to *)
(* use them.                                                               *)
PartsNeeded(routine, point) ==
  IF \/ routine = "Assignment" /\ point = "value"
     \/ routine = "Binary" /\ point \in {"operator", "right"}
     \/ routine = "Primary" /\ point \in {"postfix", "argument", "call"}
     \/ routine = "Function" /\ point = "parameter type"
     \/ routine = "Struct" /\ point = "field type"
     \/ routine \in {"If", "While"} /\ point = "body"
    THEN 1
  ELSE IF routine = "If" /\ point = "else" THEN 2 ELSE 0

(* The functions that use a part without asking whether it is null. *)
Trusting == {"Program", "Declaration", "Function", "Struct", "Assignment", "Binary", "Primary"}

Ready(routine, point, parts) ==
  /\ Len(parts) >= PartsNeeded(routine, point)
  /\ routine \in Trusting /\ point # "body" => 0 \notin Indices(parts)

(* The points between two calls of a function. *)
Points ==
  {"start", "argument", "attributes", "body", "call", "close", "condition", "declarations",
   "else", "expression", "field", "field type", "fields", "initializer", "inner", "iterable",
   "iterator", "left", "member", "members", "name", "next parameter", "operand", "operator",
   "parameter", "parameter type", "parsed", "path", "postfix", "primary", "return type",
   "right", "scrutinee", "statement", "statements", "type", "value", "variant", "variants"}

FrameRecord ==
  [routine : Routines, point : Points, from : Nat, start : Nat, least : Nat, parts : Seq(Nat)]

GoodFrame(f, n, position) ==
  /\ f.from <= position /\ f.start <= position
  /\ Indices(f.parts) \subseteq 0..n
  /\ Ready(f.routine, f.point, f.parts)

(* The functions that begin by taking the token they were called for. *)
Taking == Named \union {"Import", "Package", "Variable", "Return", "If", "While", "For"}

(* A node holds only older nodes. *)
Older(tree) == \A i \in 1..Len(tree) : Indices(tree[i].parts) \subseteq 0..i - 1

StreamInv == text \in TokenStream /\ configuration \in ParserConfiguration
NodesInv ==
  /\ nodes \in Seq(Node)
  /\ \A i \in 1..Len(nodes) : GoodSpan(nodes[i].span)
  /\ Older(nodes)
  /\ returned \in 0..Len(nodes)
CallsInv ==
  /\ calls \in Seq(FrameRecord)
  /\ \A d \in 1..Len(calls) : GoodFrame(calls[d], Len(nodes), context.position)
  /\ \A d \in 2..Len(calls) : calls[d].point # "start"
  /\ Running /\ frame.point = "start" /\ frame.routine \in Taking => Peek(context) # "eof"

IInv == StreamInv /\ GoodContext(context) /\ NodesInv /\ CallsInv

-----------------------------------------------------------------------------
(* The context: every call on it leaves the cursor on a token, no earlier   *)
(* than it was.                                                             *)

(* Every nonempty set of natural numbers has a least element. *)
LEMMA LeastExists ==
  ASSUME NEW S \in SUBSET Nat, S # {}
  PROVE  \E x \in S : \A y \in S : x <= y
<1>1. IsWellFoundedOn(OpToRel(<, Nat), Nat)
  BY NatLessThanWellFounded
<1>2. PICK x \in S : \A y \in S : ~ (<<y, x>> \in OpToRel(<, Nat))
  BY <1>1, WFMin, Zenon
<1>3. \A y \in S : ~ (y < x)
  BY <1>2 DEF OpToRel
<1>4. QED
  BY <1>3

(* What is known of the stream at a token of it. *)
LEMMA OnToken ==
  ASSUME StreamInv, NEW c, GoodContext(c)
  PROVE  /\ Len(text) \in Nat /\ c.position \in Nat /\ c.position + 1 \in 1..Len(text)
         /\ ~ IsAtEnd(c) /\ Peek(c) = text[c.position + 1]
         /\ Peek(c) # "eof" => c.position + 1 < Len(text)
         /\ IsDone(c) <=> Peek(c) = "eof"
         /\ text[Len(text)] = "eof"
<1>1. /\ Len(text) \in Nat /\ Len(text) > 0
      /\ \A i \in 1..Len(text) : text[i] = "eof" <=> i = Len(text)
  BY DEF StreamInv, TokenStream
<1>2. c.position \in Nat /\ c.position < Len(text)
  BY DEF GoodContext, ParserState
<1>3. c.position + 1 \in 1..Len(text) /\ Len(text) \in 1..Len(text)
  BY <1>1, <1>2
<1>4. ~ IsAtEnd(c) /\ Peek(c) = text[c.position + 1]
  BY <1>1, <1>2 DEF IsAtEnd, Peek
<1>5. QED
  BY <1>1, <1>2, <1>3, <1>4 DEF IsDone

(* The cursor moved to p, the flags as they were or not. *)
LEMMA MovedFollows ==
  ASSUME NEW c, GoodContext(c), NEW p \in Nat, c.position <= p, p < Len(text)
  PROVE  Follows([c EXCEPT !.position = p], c)
  BY DEF Follows, GoodContext, ParserState

(* Not moving. *)
LEMMA FollowsItself ==
  ASSUME NEW c, GoodContext(c) PROVE Follows(c, c)
  BY DEF Follows, GoodContext, ParserState

(* One move after another. *)
LEMMA FollowsOn ==
  ASSUME NEW c, NEW d, NEW e, GoodContext(c), Follows(d, c), Follows(e, d)
  PROVE  Follows(e, c)
<1>1. c.position \in Nat /\ d.position \in Nat /\ e.position \in Nat
  BY DEF Follows, GoodContext, ParserState
<1>2. QED
  BY <1>1 DEF Follows

(* Consume, at any token but the last. *)
LEMMA ConsumedFollows ==
  ASSUME StreamInv, NEW c, GoodContext(c), Peek(c) # "eof"
  PROVE  Follows(Consumed(c), c) /\ Consumed(c).position = c.position + 1
<1>1. Consumed(c) = [c EXCEPT !.position = c.position + 1]
  BY OnToken DEF Consumed
<1>2. c.position \in Nat /\ c.position + 1 < Len(text)
  BY OnToken
<1>3. [c EXCEPT !.position = c.position + 1].position = c.position + 1
  BY DEF GoodContext, ParserState
<1>4. c.position + 1 \in Nat /\ c.position <= c.position + 1
  BY <1>2
<1>5. Follows([c EXCEPT !.position = c.position + 1], c)
  BY <1>2, <1>4, MovedFollows
<1>6. QED
  BY <1>1, <1>3, <1>5

(* Match, of any type but the end of file. *)
LEMMA MatchedFollows ==
  ASSUME StreamInv, NEW c, GoodContext(c), NEW type, type # "eof"
  PROVE  Follows(Matched(c, type), c)
  BY ConsumedFollows, FollowsItself DEF Matched

(* ReportError does not move. *)
LEMMA ReportedFollows ==
  ASSUME StreamInv, NEW c, GoodContext(c)
  PROVE  Follows(Reported(c), c) /\ Reported(c).position = c.position
<1>1. configuration.max_syntax_errors \in Nat
  BY DEF StreamInv, ParserConfiguration
<1>2. c \in ParserState /\ c.position \in Nat
  BY DEF GoodContext, ParserState
<1>3. Reported(c) \in ParserState /\ Reported(c).position = c.position
  <2> DEFINE count == IF c.error_count < configuration.max_syntax_errors
                        THEN c.error_count + 1 ELSE c.error_count
             panic == c.in_panic_mode \/ count >= configuration.max_syntax_errors
             r == [c EXCEPT !.had_error = TRUE, !.error_count = count, !.in_panic_mode = panic]
  <2>1. count \in Nat
    BY <1>1, <1>2 DEF ParserState
  <2>2. panic \in BOOLEAN
    BY <1>2 DEF ParserState
  <2>3. Reported(c) = r
    BY DEF Reported
  <2> HIDE DEF count, panic
  <2>4. r \in ParserState /\ r.position = c.position
    BY <1>2, <2>1, <2>2 DEF ParserState
  <2>5. QED
    BY <2>3, <2>4
<1>4. QED
  BY <1>2, <1>3 DEF Follows, GoodContext

(* The skipping of the recovery manager: it stops, at one of the types. *)
LEMMA SkippedFollows ==
  ASSUME StreamInv, NEW c, GoodContext(c), NEW types, "eof" \in types
  PROVE  /\ Follows(SkippedTo(c, types), c)
         /\ ~ IsDone(c) => Peek(SkippedTo(c, types)) \in types
<1>1. CASE IsDone(c)
  BY <1>1, FollowsItself DEF SkippedTo
<1>2. CASE ~ IsDone(c)
  <2> DEFINE at == {p \in c.position..Len(text) - 1 : text[p + 1] \in types}
             ahead == Ahead(c, types)
             s == [c EXCEPT !.position = ahead]
  <2>1. Len(text) \in Nat /\ c.position \in Nat /\ c.position < Len(text)
        /\ text[Len(text)] = "eof"
    BY OnToken DEF GoodContext
  <2>2. Len(text) - 1 \in at /\ at \in SUBSET Nat
    BY <2>1
  <2>3. PICK p \in at : \A q \in at : p <= q
    BY <2>2, LeastExists
  <2>4. /\ p \in c.position..Len(text) - 1
        /\ text[p + 1] \in types
        /\ \A q \in c.position..p - 1 : text[q + 1] \notin types
    BY <2>1, <2>3
  <2>5. /\ ahead \in c.position..Len(text) - 1
        /\ text[ahead + 1] \in types
    BY <2>4, Zenon DEF Ahead
  <2> HIDE DEF ahead
  <2>6. Follows(s, c) /\ s.position = ahead
    BY <2>1, <2>5, MovedFollows DEF GoodContext, ParserState
  <2>7. SkippedTo(c, types) = s
    BY <1>2 DEF SkippedTo, ahead
  <2> HIDE DEF s
  <2>8. Peek(s) = text[ahead + 1]
    BY <2>6, OnToken DEF Follows
  <2>9. QED
    BY <2>5, <2>6, <2>7, <2>8
<1>3. QED
  BY <1>1, <1>2

(* Synchronize, which may take the token it stops at, but no end of file. *)
LEMMA SynchronizedFollows ==
  ASSUME StreamInv, NEW c, GoodContext(c)
  PROVE  Follows(Synchronized(c), c)
<1> DEFINE types == DeclarationStarts \union {";", "}", "eof"}
           skipped == SkippedTo(c, types)
           stop == [skipped EXCEPT !.in_panic_mode = TRUE]
<1>1. Follows(skipped, c)
  BY SkippedFollows
<1>2. /\ IsDone(c) => Synchronized(c) = c
      /\ ~IsDone(c) /\ Peek(stop) \in {";", "}"} => Synchronized(c) = Consumed(stop)
      /\ ~IsDone(c) /\ Peek(stop) \notin {";", "}"} => Synchronized(c) = stop
  BY Zenon DEF Synchronized
<1> HIDE DEF skipped, types
<1>3. Follows(stop, c)
  BY <1>1 DEF Follows, GoodContext, ParserState
<1> HIDE DEF stop
<1>4. Peek(stop) \in {";", "}"} => Follows(Consumed(stop), stop)
  BY <1>3, ConsumedFollows DEF Follows
<1>5. Peek(stop) \in {";", "}"} => Follows(Consumed(stop), c)
  BY <1>3, <1>4, FollowsOn
<1>6. QED
  BY <1>2, <1>3, <1>5, FollowsItself

(* Recover, with recovery enabled or not. *)
LEMMA RecoveredFollows ==
  ASSUME StreamInv, NEW c, GoodContext(c)
  PROVE  Follows(Recovered(c), c)
<1> DEFINE s == Synchronized(c)
           r == [s EXCEPT !.in_panic_mode = FALSE, !.recovered = TRUE]
<1>1. Follows(s, c)
  BY SynchronizedFollows
<1>2. Recovered(c) = IF configuration.enable_error_recovery THEN r ELSE c
  BY DEF Recovered
<1> HIDE DEF s
<1>3. Follows(r, c)
  BY <1>1 DEF Follows, GoodContext, ParserState
<1> HIDE DEF r
<1>4. QED
  BY <1>2, <1>3, FollowsItself

(* A report and the recovery after it. *)
LEMMA ReportedRecovered ==
  ASSUME StreamInv, NEW c, GoodContext(c)
  PROVE  Follows(Recovered(Reported(c)), c)
<1>1. Follows(Reported(c), c)
  BY ReportedFollows
<1>2. Follows(Recovered(Reported(c)), Reported(c))
  BY <1>1, RecoveredFollows DEF Follows
<1>3. QED
  BY <1>1, <1>2, FollowsOn

(* Recovery to the end of a statement. *)
LEMMA SynchronizedStatementFollows ==
  ASSUME StreamInv, NEW c, GoodContext(c)
  PROVE  Follows(SynchronizedStatement(c), c)
<1> DEFINE s == SkippedTo(c, {";", "}", "eof"})
<1>1. Follows(s, c)
  BY SkippedFollows
<1>2. Follows(Matched(s, ";"), s)
  BY <1>1, MatchedFollows DEF Follows
<1>3. QED
  BY <1>1, <1>2, FollowsOn DEF SynchronizedStatement

(* Recovery to the next declaration. *)
LEMMA SynchronizedDeclarationFollows ==
  ASSUME StreamInv, NEW c, GoodContext(c)
  PROVE  Follows(SynchronizedDeclaration(c), c)
  BY SkippedFollows DEF SynchronizedDeclaration

(* Expect, alone and with the recovery of its callers. *)
LEMMA ExpectedFollows ==
  ASSUME StreamInv, NEW c, GoodContext(c), NEW type, type # "eof"
  PROVE  /\ Follows(Expected(c, type), c)
         /\ Follows(ExpectedOrRecovered(c, type), c)
         /\ Peek(c) = type => ExpectedOrRecovered(c, type).position = c.position + 1
<1>1. CASE Peek(c) = type
  BY <1>1, ConsumedFollows DEF Expected, ExpectedOrRecovered
<1>2. CASE Peek(c) # type
  BY <1>2, ReportedFollows, ReportedRecovered DEF Expected, ExpectedOrRecovered
<1>3. QED
  BY <1>1, <1>2

(* Two calls in a row. *)
LEMMA TwiceFollows ==
  ASSUME StreamInv, NEW c, GoodContext(c), NEW first, first # "eof", NEW second, second # "eof"
  PROVE  /\ Follows(Matched(Matched(c, first), second), c)
         /\ Follows(Matched(Expected(c, first), second), c)
         /\ Follows(Matched(ExpectedOrRecovered(c, first), second), c)
         /\ Peek(c) # "eof" => Follows(Matched(Consumed(c), first), c)
<1>1. \A d : Follows(d, c) =>
        Follows(Matched(d, second), c) /\ Follows(Matched(d, first), c)
  BY MatchedFollows, FollowsOn DEF Follows
<1>2. QED
  BY <1>1, MatchedFollows, ExpectedFollows, ConsumedFollows

-----------------------------------------------------------------------------
(* The call stack. *)

GoodFrames(frames, n, position) ==
  /\ frames \in Seq(FrameRecord)
  /\ \A d \in 1..Len(frames) : GoodFrame(frames[d], n, position)

Resting(frames) == \A d \in 1..Len(frames) : frames[d].point # "start"

(* A frame stays good when nodes are added and the cursor moves on. *)
LEMMA FrameStays ==
  ASSUME NEW f \in FrameRecord, NEW n \in Nat, NEW m \in Nat, n <= m,
         NEW p \in Nat, NEW q \in Nat, p <= q, GoodFrame(f, n, p)
  PROVE  GoodFrame(f, m, q)
<1>1. f.from \in Nat /\ f.start \in Nat
  BY DEF FrameRecord
<1>2. f.from <= q /\ f.start <= q
  BY <1>1 DEF GoodFrame
<1>3. 0..n \subseteq 0..m
  OBVIOUS
<1>4. QED
  BY <1>2, <1>3 DEF GoodFrame

(* The frames under the one that runs. *)
LEMMA CallersStay ==
  ASSUME CallsInv, Running, GoodContext(context), nodes \in Seq(Node),
         NEW m \in Nat, Len(nodes) <= m, NEW q \in Nat, context.position <= q
  PROVE  GoodFrames(Tail(calls), m, q) /\ Resting(Tail(calls))
<1>1. /\ calls \in Seq(FrameRecord) /\ calls # <<>>
      /\ \A d \in 1..Len(calls) : GoodFrame(calls[d], Len(nodes), context.position)
      /\ \A d \in 2..Len(calls) : calls[d].point # "start"
  BY DEF CallsInv, Running
<1> DEFINE t == Tail(calls)
<1>2. /\ t \in Seq(FrameRecord) /\ Len(calls) \in Nat /\ Len(t) = Len(calls) - 1
      /\ \A d \in 1..Len(t) : t[d] = calls[d + 1]
  BY <1>1
<1>3. \A d \in 1..Len(t) : d + 1 \in 2..Len(calls) /\ d + 1 \in 1..Len(calls)
  BY <1>2
<1>4. Len(nodes) \in Nat /\ context.position \in Nat
  BY DEF GoodContext, ParserState
<1>5. \A d \in 1..Len(t) : GoodFrame(t[d], m, q)
  <2> TAKE d \in 1..Len(t)
  <2>1. t[d] \in FrameRecord /\ GoodFrame(t[d], Len(nodes), context.position)
    BY <1>1, <1>2, <1>3
  <2>2. QED
    BY <1>4, <2>1, FrameStays
<1>6. QED
  BY <1>1, <1>2, <1>3, <1>5 DEF GoodFrames, Resting

(* A frame on top of others. *)
LEMMA FramePushed ==
  ASSUME NEW t, NEW n, NEW p, GoodFrames(t, n, p), Resting(t),
         NEW f \in FrameRecord, GoodFrame(f, n, p)
  PROVE  LET s == <<f>> \o t IN
         /\ GoodFrames(s, n, p)
         /\ s # <<>> /\ Head(s) = f
         /\ \A d \in 2..Len(s) : s[d].point # "start"
         /\ f.point # "start" => Resting(s)
<1> DEFINE s == <<f>> \o t
<1>1. t \in Seq(FrameRecord)
  BY DEF GoodFrames
<1>2. /\ s \in Seq(FrameRecord) /\ Len(t) \in Nat /\ Len(s) = Len(t) + 1
      /\ s[1] = f /\ \A d \in 2..Len(s) : s[d] = t[d - 1]
  BY <1>1
<1>3. \A d \in 2..Len(s) : d - 1 \in 1..Len(t)
  BY <1>2
<1>4. \A d \in 1..Len(s) : d = 1 \/ d \in 2..Len(s)
  BY <1>2
<1>5. s # <<>> /\ Head(s) = f
  BY <1>2
<1> HIDE DEF s
<1>6. \A d \in 1..Len(s) : GoodFrame(s[d], n, p)
  BY <1>2, <1>3, <1>4 DEF GoodFrames
<1>7. \A d \in 2..Len(s) : s[d].point # "start"
  BY <1>2, <1>3 DEF Resting
<1>8. QED
  BY <1>2, <1>4, <1>5, <1>6, <1>7 DEF GoodFrames, Resting, s

(* The frame that runs. *)
LEMMA FrameFacts ==
  ASSUME IInv, Running
  PROVE  /\ frame \in FrameRecord /\ GoodFrame(frame, Len(nodes), context.position)
         /\ frame.from \in Nat /\ frame.start \in Nat
         /\ frame.parts \in Seq(Nat)
         /\ Len(nodes) \in Nat /\ context.position \in Nat
<1>1. calls \in Seq(FrameRecord) /\ calls # <<>> /\ nodes \in Seq(Node)
  BY DEF IInv, NodesInv, CallsInv, Running
<1>2. frame = calls[1] /\ 1 \in 1..Len(calls) /\ Len(nodes) \in Nat
  BY <1>1 DEF frame
<1>3. frame \in FrameRecord /\ GoodFrame(frame, Len(nodes), context.position)
  BY <1>1, <1>2 DEF IInv, CallsInv
<1>4. frame.from \in Nat /\ frame.start \in Nat /\ frame.parts \in Seq(Nat)
  BY <1>3 DEF FrameRecord
<1>5. QED
  BY <1>2, <1>3, <1>4 DEF IInv, GoodContext, ParserState

-----------------------------------------------------------------------------
(* The nodes. *)

GoodNode(node) ==
  node \in Node /\ GoodSpan(node.span) /\ Indices(node.parts) \subseteq 0..Len(nodes)
GoodParts(parts, n) == parts \in Seq(Nat) /\ Indices(parts) \subseteq 0..n

(* MakeNode. *)
LEMMA NodeAdded ==
  ASSUME NodesInv, NEW node, GoodNode(node)
  PROVE  LET more == Append(nodes, node) IN
         /\ more \in Seq(Node)
         /\ Len(more) = Len(nodes) + 1 /\ Len(nodes) \in Nat
         /\ (\A i \in 1..Len(more) : GoodSpan(more[i].span)) /\ Older(more)
<1> DEFINE more == Append(nodes, node)
<1>1. nodes \in Seq(Node) /\ node \in Node /\ \A i \in 1..Len(nodes) : GoodSpan(nodes[i].span)
  BY DEF NodesInv, GoodNode
<1>2. /\ more \in Seq(Node) /\ Len(more) = Len(nodes) + 1 /\ Len(nodes) \in Nat
      /\ \A i \in 1..Len(nodes) : more[i] = nodes[i]
      /\ more[Len(nodes) + 1] = node
  BY <1>1
<1>3. \A i \in 1..Len(more) : i \in 1..Len(nodes) \/ i = Len(nodes) + 1
  BY <1>2
<1> HIDE DEF more
<1>4. \A i \in 1..Len(more) : GoodSpan(more[i].span)
  BY <1>1, <1>2, <1>3 DEF GoodNode
<1>5. \A i \in 1..Len(more) : Indices(more[i].parts) \subseteq 0..i - 1
  <2> TAKE i \in 1..Len(more)
  <2>1. CASE i \in 1..Len(nodes)
    BY <1>2, <2>1 DEF NodesInv, Older
  <2>2. CASE i = Len(nodes) + 1
    BY <1>2, <2>2 DEF GoodNode
  <2>3. QED
    BY <1>3, <2>1, <2>2
<1>6. QED
  BY <1>2, <1>4, <1>5 DEF Older, more

-----------------------------------------------------------------------------
(* The ways a segment ends keep the invariant. *)

(* What a step has to leave behind. *)
LEMMA StepKept ==
  ASSUME IInv, Unchanging, Follows(context', context),
         nodes' \in Seq(Node), \A i \in 1..Len(nodes') : GoodSpan(nodes'[i].span), Older(nodes'),
         returned' \in 0..Len(nodes'),
         GoodFrames(calls', Len(nodes'), context'.position),
         \A d \in 2..Len(calls') : calls'[d].point # "start",
         calls' # <<>> /\ Head(calls').point = "start" /\ Head(calls').routine \in Taking
           => Peek(context') # "eof"
  PROVE  IInv'
<1>1. text' = text /\ configuration' = configuration
  BY DEF Unchanging
<1>2. StreamInv'
  BY <1>1 DEF IInv, StreamInv
<1>3. GoodContext(context)'
  BY <1>1 DEF Follows, GoodContext
<1>4. NodesInv'
  BY <1>1 DEF NodesInv, GoodSpan
<1>5. Peek(context)' = Peek(context')
  BY <1>1 DEF Peek, IsAtEnd
<1>6. CallsInv'
  BY <1>5 DEF CallsInv, GoodFrames, Running, frame
<1>7. QED
  BY <1>2, <1>3, <1>4, <1>6 DEF IInv

(* The same when the nodes stay. *)
LEMMA NodesStay ==
  ASSUME IInv, UNCHANGED nodes
  PROVE  /\ nodes' \in Seq(Node) /\ Older(nodes')
         /\ \A i \in 1..Len(nodes') : GoodSpan(nodes'[i].span)
         /\ Len(nodes') = Len(nodes) /\ Len(nodes) \in Nat
<1>1. nodes \in Seq(Node) /\ (\A i \in 1..Len(nodes) : GoodSpan(nodes[i].span)) /\ Older(nodes)
  BY DEF IInv, NodesInv
<1>2. Len(nodes) \in Nat
  BY <1>1
<1>3. QED
  BY <1>1, <1>2

(* The running frame at another point. *)
LEMMA ResumedGood ==
  ASSUME IInv, Running, NEW point \in Points, NEW parts, NEW n \in Nat, NEW p \in Nat,
         GoodParts(parts, n), context.position <= p, Ready(frame.routine, point, parts)
  PROVE  /\ Resume(point, parts) \in FrameRecord
         /\ GoodFrame(Resume(point, parts), n, p)
         /\ Resume(point, parts).point = point
<1> DEFINE r == Resume(point, parts)
<1>1. frame \in FrameRecord /\ GoodFrame(frame, Len(nodes), context.position)
  BY FrameFacts
<1>2. parts \in Seq(Nat) /\ Indices(parts) \subseteq 0..n
  BY DEF GoodParts
<1>3. /\ r \in FrameRecord /\ r.point = point /\ r.parts = parts /\ r.routine = frame.routine
      /\ r.from = frame.from /\ r.start = frame.start
  BY <1>1, <1>2 DEF Resume, FrameRecord
<1>4. r.from <= p /\ r.start <= p
  BY <1>1, <1>3, FrameFacts DEF GoodFrame
<1> HIDE DEF r
<1>5. QED
  BY <1>2, <1>3, <1>4 DEF GoodFrame, r

(* The numbers of a move. *)
LEMMA PositionFollows ==
  ASSUME NEW c, Follows(c, context)
  PROVE  c.position \in Nat /\ context.position <= c.position
  BY DEF Follows, GoodContext, ParserState

(* The function goes on. *)
LEMMA ContinueKeeps ==
  ASSUME IInv, Running, NEW point \in Points, point # "start", NEW c, Follows(c, context),
         NEW parts, GoodParts(parts, Len(nodes)), Ready(frame.routine, point, parts),
         Continue(point, c, parts)
  PROVE  IInv'
<1> DEFINE r == Resume(point, parts)
           p == c.position
           t == Tail(calls)
<1>1. /\ context' = c /\ calls' = <<r>> \o t /\ returned' = 0
      /\ UNCHANGED nodes /\ Unchanging
  BY DEF Continue
<1>2. Len(nodes) \in Nat /\ p \in Nat /\ context.position <= p
  BY FrameFacts, PositionFollows
<1>3. r \in FrameRecord /\ GoodFrame(r, Len(nodes), p) /\ r.point = point
  BY <1>2, ResumedGood
<1>4. GoodFrames(t, Len(nodes), p) /\ Resting(t)
  BY <1>2, CallersStay DEF IInv, NodesInv
<1> HIDE DEF r, p, t
<1>5. /\ GoodFrames(calls', Len(nodes), p) /\ Head(calls').point = point
      /\ \A d \in 2..Len(calls') : calls'[d].point # "start"
  BY <1>1, <1>3, <1>4, FramePushed
<1>6. /\ nodes' \in Seq(Node) /\ Older(nodes') /\ \A i \in 1..Len(nodes') : GoodSpan(nodes'[i].span)
      /\ Len(nodes') = Len(nodes)
  BY <1>1, NodesStay
<1>7. returned' \in 0..Len(nodes')
  BY <1>1, <1>2, <1>6
<1>8. GoodFrames(calls', Len(nodes'), context'.position)
  BY <1>1, <1>5, <1>6 DEF p
<1>9. QED
  BY <1>1, <1>5, <1>6, <1>7, <1>8, StepKept

(* The function goes on with a node made. *)
LEMMA ContinueWithKeeps ==
  ASSUME IInv, Running, NEW point \in Points, point # "start", NEW c, Follows(c, context),
         NEW node, GoodNode(node),
         NEW parts, GoodParts(parts, Len(nodes) + 1), Ready(frame.routine, point, parts),
         ContinueWith(point, c, node, parts)
  PROVE  IInv'
<1> DEFINE r == Resume(point, parts)
           p == c.position
           t == Tail(calls)
           n == Len(nodes) + 1
<1>1. /\ context' = c /\ calls' = <<r>> \o t /\ returned' = 0
      /\ nodes' = Append(nodes, node) /\ Unchanging
  BY DEF ContinueWith
<1>2. Len(nodes) \in Nat /\ n \in Nat /\ Len(nodes) <= n /\ p \in Nat /\ context.position <= p
  BY FrameFacts, PositionFollows
<1>3. r \in FrameRecord /\ GoodFrame(r, n, p) /\ r.point = point
  BY <1>2, ResumedGood
<1>4. GoodFrames(t, n, p) /\ Resting(t)
  BY <1>2, CallersStay DEF IInv, NodesInv
<1>5. /\ nodes' \in Seq(Node) /\ Older(nodes') /\ \A i \in 1..Len(nodes') : GoodSpan(nodes'[i].span)
      /\ Len(nodes') = n
  BY <1>1, NodeAdded DEF IInv
<1> HIDE DEF r, p, t, n
<1>6. /\ GoodFrames(calls', n, p) /\ Head(calls').point = point
      /\ \A d \in 2..Len(calls') : calls'[d].point # "start"
  BY <1>1, <1>3, <1>4, FramePushed
<1>7. returned' \in 0..Len(nodes')
  BY <1>1, <1>2, <1>5
<1>8. GoodFrames(calls', Len(nodes'), context'.position)
  BY <1>1, <1>5, <1>6 DEF p
<1>9. QED
  BY <1>1, <1>5, <1>6, <1>7, <1>8, StepKept

(* The function calls another, whose frame is given. *)
LEMMA InvokeFrameKeeps ==
  ASSUME IInv, Running, NEW point \in Points, point # "start", NEW c, Follows(c, context),
         NEW parts, GoodParts(parts, Len(nodes)), Ready(frame.routine, point, parts),
         NEW callee \in FrameRecord, GoodFrame(callee, Len(nodes), c.position),
         callee.routine \notin Taking,
         InvokeFrame(callee, point, c, parts)
  PROVE  IInv'
<1> DEFINE r == Resume(point, parts)
           p == c.position
           t == Tail(calls)
           u == <<r>> \o t
<1>1. /\ context' = c /\ calls' = <<callee, r>> \o t /\ returned' = 0
      /\ UNCHANGED nodes /\ Unchanging
  BY DEF InvokeFrame
<1>2. Len(nodes) \in Nat /\ p \in Nat /\ context.position <= p
  BY FrameFacts, PositionFollows
<1>3. r \in FrameRecord /\ GoodFrame(r, Len(nodes), p) /\ r.point = point
  BY <1>2, ResumedGood
<1>4. GoodFrames(t, Len(nodes), p) /\ Resting(t)
  BY <1>2, CallersStay DEF IInv, NodesInv
<1> HIDE DEF r, t
<1>5. GoodFrames(u, Len(nodes), p) /\ Resting(u)
  BY <1>3, <1>4, FramePushed
<1>6. calls' = <<callee>> \o u
  <2>1. t \in Seq(FrameRecord)
    BY <1>4 DEF GoodFrames
  <2>2. <<callee, r>> \o t = <<callee>> \o (<<r>> \o t)
    BY <1>3, <2>1
  <2>3. QED
    BY <1>1, <2>2
<1> HIDE DEF p, u
<1>7. GoodFrame(callee, Len(nodes), p)
  BY DEF p
<1>8. /\ GoodFrames(calls', Len(nodes), p) /\ Head(calls') = callee
      /\ \A d \in 2..Len(calls') : calls'[d].point # "start"
  BY <1>5, <1>6, <1>7, FramePushed
<1>9. /\ nodes' \in Seq(Node) /\ Older(nodes') /\ \A i \in 1..Len(nodes') : GoodSpan(nodes'[i].span)
      /\ Len(nodes') = Len(nodes)
  BY <1>1, NodesStay
<1>10. returned' \in 0..Len(nodes')
  BY <1>1, <1>2, <1>9
<1>11. GoodFrames(calls', Len(nodes'), context'.position)
  BY <1>1, <1>8, <1>9 DEF p
<1>12. QED
  BY <1>1, <1>8, <1>9, <1>10, <1>11, StepKept

(* A frame that was just made. *)
LEMMA FreshFrame ==
  ASSUME NEW routine \in Routines, NEW c, GoodContext(c), NEW least \in Nat, NEW n \in Nat
  PROVE  LET f == [Frame(routine, c) EXCEPT !.least = least] IN
         /\ f \in FrameRecord /\ GoodFrame(f, n, c.position) /\ f.routine = routine
         /\ Frame(routine, c) \in FrameRecord /\ GoodFrame(Frame(routine, c), n, c.position)
         /\ Frame(routine, c).routine = routine
<1>1. c.position \in Nat
  BY DEF GoodContext, ParserState
<1>2. Indices(<<>>) = {} /\ Len(<<>>) = 0
  BY DEF Indices
<1>3. PartsNeeded(routine, "start") = 0
  BY DEF PartsNeeded
<1>4. Ready(routine, "start", <<>>)
  BY <1>2, <1>3 DEF Ready
<1>5. Frame(routine, c) \in FrameRecord
  BY <1>1 DEF Frame, FrameRecord, Points
<1>6. [Frame(routine, c) EXCEPT !.least = least] \in FrameRecord
  BY <1>5 DEF FrameRecord
<1>7. GoodFrame(Frame(routine, c), n, c.position)
  BY <1>1, <1>2, <1>4 DEF GoodFrame, Frame
<1>8. GoodFrame([Frame(routine, c) EXCEPT !.least = least], n, c.position)
  BY <1>1, <1>2, <1>4 DEF GoodFrame, Frame
<1>9. QED
  BY <1>5, <1>6, <1>7, <1>8 DEF Frame

(* The function calls another. *)
LEMMA InvokeKeeps ==
  ASSUME IInv, Running, NEW point \in Points, point # "start", NEW c, Follows(c, context),
         NEW parts, GoodParts(parts, Len(nodes)), Ready(frame.routine, point, parts),
         NEW routine \in Routines \ Taking,
         Invoke(routine, point, c, parts)
  PROVE  IInv'
<1>1. Len(nodes) \in Nat /\ GoodContext(c)
  BY FrameFacts DEF Follows
<1>2. /\ Frame(routine, c) \in FrameRecord
      /\ GoodFrame(Frame(routine, c), Len(nodes), c.position)
      /\ Frame(routine, c).routine = routine
  BY <1>1, FreshFrame
<1>3. InvokeFrame(Frame(routine, c), point, c, parts)
  BY DEF Invoke
<1>4. QED
  BY <1>2, <1>3, InvokeFrameKeeps

(* The function is replaced by the one whose result it returns. *)
LEMMA BecomeKeeps ==
  ASSUME IInv, Running, NEW c, Follows(c, context), NEW routine \in Routines,
         routine \in Trusting => 0 \notin Indices(frame.parts),
         routine \in Taking => Peek(c) # "eof",
         Become(routine, c)
  PROVE  IInv'
<1> DEFINE r == [frame EXCEPT !.routine = routine, !.point = "start", !.start = c.position]
           p == c.position
           t == Tail(calls)
<1>1. /\ context' = c /\ calls' = <<r>> \o t /\ returned' = 0
      /\ UNCHANGED nodes /\ Unchanging
  BY DEF Become
<1>2. Len(nodes) \in Nat /\ p \in Nat /\ context.position <= p
  BY FrameFacts, PositionFollows
<1>3. r \in FrameRecord /\ GoodFrame(r, Len(nodes), p) /\ r.point = "start" /\ r.routine = routine
  <2>1. frame \in FrameRecord /\ GoodFrame(frame, Len(nodes), context.position)
    BY FrameFacts
  <2>2. /\ r \in FrameRecord /\ r.point = "start" /\ r.parts = frame.parts
        /\ r.routine = routine /\ r.from = frame.from /\ r.start = p
    BY <1>2, <2>1 DEF FrameRecord, Points
  <2>3. r.from <= p /\ r.start <= p
    BY <1>2, <2>1, <2>2, FrameFacts DEF GoodFrame
  <2>4. PartsNeeded(routine, "start") = 0
    BY DEF PartsNeeded
  <2>5. Len(frame.parts) \in Nat
    BY FrameFacts
  <2>6. Ready(routine, "start", frame.parts)
    BY <2>4, <2>5 DEF Ready
  <2> HIDE DEF r
  <2>7. QED
    BY <2>1, <2>2, <2>3, <2>6 DEF GoodFrame
<1>4. GoodFrames(t, Len(nodes), p) /\ Resting(t)
  BY <1>2, CallersStay DEF IInv, NodesInv
<1> HIDE DEF r, p, t
<1>5. /\ GoodFrames(calls', Len(nodes), p) /\ Head(calls').routine = routine
      /\ \A d \in 2..Len(calls') : calls'[d].point # "start"
  BY <1>1, <1>3, <1>4, FramePushed
<1>6. /\ nodes' \in Seq(Node) /\ Older(nodes') /\ \A i \in 1..Len(nodes') : GoodSpan(nodes'[i].span)
      /\ Len(nodes') = Len(nodes)
  BY <1>1, NodesStay
<1>7. returned' \in 0..Len(nodes')
  BY <1>1, <1>2, <1>6
<1>8. GoodFrames(calls', Len(nodes'), context'.position)
  BY <1>1, <1>5, <1>6 DEF p
<1>9. QED
  BY <1>1, <1>5, <1>6, <1>7, <1>8, StepKept

(* The stack after a return. *)
LEMMA PoppedGood ==
  ASSUME IInv, Running, calls' = Tail(calls), NEW n \in Nat, Len(nodes) <= n,
         NEW p \in Nat, context.position <= p
  PROVE  /\ GoodFrames(calls', n, p)
         /\ \A d \in 2..Len(calls') : calls'[d].point # "start"
         /\ calls' # <<>> => Head(calls').point # "start"
<1>1. GoodFrames(calls', n, p) /\ Resting(calls')
  BY CallersStay DEF IInv, NodesInv
<1>2. calls' \in Seq(FrameRecord)
  BY <1>1 DEF GoodFrames
<1>3. /\ \A d \in 2..Len(calls') : d \in 1..Len(calls')
      /\ calls' # <<>> => Head(calls') = calls'[1] /\ 1 \in 1..Len(calls')
  BY <1>2
<1>4. QED
  BY <1>1, <1>3 DEF Resting

(* The function returns what it has. *)
LEMMA ReturnKeeps ==
  ASSUME IInv, Running, NEW c, Follows(c, context), NEW node \in 0..Len(nodes),
         Return(c, node)
  PROVE  IInv'
<1>1. /\ context' = c /\ calls' = Tail(calls) /\ returned' = node
      /\ UNCHANGED nodes /\ Unchanging
  BY DEF Return
<1>2. Len(nodes) \in Nat /\ c.position \in Nat /\ context.position <= c.position
  BY FrameFacts, PositionFollows
<1>3. /\ nodes' \in Seq(Node) /\ Older(nodes') /\ \A i \in 1..Len(nodes') : GoodSpan(nodes'[i].span)
      /\ Len(nodes') = Len(nodes)
  BY <1>1, NodesStay
<1>4. /\ GoodFrames(calls', Len(nodes), c.position)
      /\ \A d \in 2..Len(calls') : calls'[d].point # "start"
      /\ calls' # <<>> => Head(calls').point # "start"
  BY <1>1, <1>2, PoppedGood
<1>5. returned' \in 0..Len(nodes')
  BY <1>1, <1>3
<1>6. GoodFrames(calls', Len(nodes'), context'.position)
  BY <1>1, <1>3, <1>4
<1>7. QED
  BY <1>1, <1>3, <1>4, <1>5, <1>6, StepKept

(* A node made of a span in the text and of nodes that exist. *)
LEMMA NewNodeGood ==
  ASSUME IInv, Running, NEW c, Follows(c, context), NEW kind \in Kinds,
         NEW span, GoodSpan(span), NEW parts, GoodParts(parts, Len(nodes)), NEW from \in Nat
  PROVE  /\ GoodNode(NodeFrom(from, c, kind, span, parts))
         /\ GoodNode(NewNode(c, kind, span, parts))
<1>1. c.position \in Nat /\ frame.from \in Nat /\ span \in Span
  BY FrameFacts, PositionFollows DEF GoodSpan
<1>2. \A f \in Nat : /\ NodeFrom(f, c, kind, span, parts) \in Node
                     /\ NodeFrom(f, c, kind, span, parts).span = span
                     /\ NodeFrom(f, c, kind, span, parts).parts = parts
  BY <1>1 DEF NodeFrom, Node, GoodParts
<1>3. QED
  BY <1>1, <1>2 DEF GoodNode, NewNode, GoodParts

(* The function returns a node it makes. *)
LEMMA ReturnNodeKeeps ==
  ASSUME IInv, Running, NEW c, Follows(c, context), NEW kind \in Kinds,
         NEW span, GoodSpan(span), NEW parts, GoodParts(parts, Len(nodes)),
         ReturnNode(c, kind, span, parts)
  PROVE  IInv'
<1> DEFINE node == NewNode(c, kind, span, parts)
<1>1. /\ context' = c /\ calls' = Tail(calls) /\ returned' = Len(nodes) + 1
      /\ nodes' = Append(nodes, node) /\ Unchanging
  BY DEF ReturnNode, Fresh
<1>2. Len(nodes) \in Nat /\ c.position \in Nat /\ context.position <= c.position
  BY FrameFacts, PositionFollows
<1>3. GoodNode(node)
  BY FrameFacts, NewNodeGood
<1> HIDE DEF node
<1>4. /\ nodes' \in Seq(Node) /\ Older(nodes') /\ \A i \in 1..Len(nodes') : GoodSpan(nodes'[i].span)
      /\ Len(nodes') = Len(nodes) + 1
  BY <1>1, <1>3, NodeAdded DEF IInv
<1>5. Len(nodes') \in Nat /\ Len(nodes) <= Len(nodes') /\ returned' \in 0..Len(nodes')
  BY <1>1, <1>2, <1>4
<1>6. /\ GoodFrames(calls', Len(nodes'), c.position)
      /\ \A d \in 2..Len(calls') : calls'[d].point # "start"
      /\ calls' # <<>> => Head(calls').point # "start"
  BY <1>1, <1>2, <1>5, PoppedGood
<1>7. GoodFrames(calls', Len(nodes'), context'.position)
  BY <1>1, <1>6
<1>8. QED
  BY <1>1, <1>4, <1>5, <1>6, <1>7, StepKept

-----------------------------------------------------------------------------
(* Spans and parts. *)

(* The span of a token. *)
LEMMA TokenGood ==
  ASSUME StreamInv, NEW p \in Nat, p < Len(text)
  PROVE  GoodSpan(TokenSpan(p))
<1>1. Len(text) \in Nat
  BY DEF StreamInv, TokenStream
<1>2. QED
  BY <1>1 DEF GoodSpan, TokenSpan, Span

(* The span of the token the cursor is on. *)
LEMMA CursorGood ==
  ASSUME StreamInv, NEW c, GoodContext(c)
  PROVE  GoodSpan(TokenSpan(c.position))
  BY TokenGood DEF GoodContext, ParserState

(* The span of the token the frame starts with. *)
LEMMA StartGood ==
  ASSUME IInv, Running
  PROVE  GoodSpan(StartSpan)
<1>1. frame.start \in Nat /\ frame.start <= context.position
  BY FrameFacts DEF GoodFrame
<1>2. Len(text) \in Nat /\ context.position \in Nat /\ context.position < Len(text)
  BY OnToken DEF IInv, GoodContext
<1>3. frame.start < Len(text)
  BY <1>1, <1>2
<1>4. QED
  BY <1>1, <1>3, TokenGood DEF StartSpan, IInv

(* ExtendSpan invents no token. *)
LEMMA ExtendGood ==
  ASSUME NEW a, NEW b, GoodSpan(a), GoodSpan(b)
  PROVE  GoodSpan(ExtendSpan(a, b))
<1>1. \/ ExtendSpan(a, b) = a
      \/ ExtendSpan(a, b) = b
      \/ ExtendSpan(a, b) = Merge(a, b)
  BY Zenon DEF ExtendSpan
<1>2. GoodSpan(Merge(a, b))
  BY DEF GoodSpan, Span, Merge
<1>3. QED
  BY <1>1, <1>2

(* The span of a part that may be null. *)
LEMMA PartGood ==
  ASSUME IInv, NEW part \in 0..Len(nodes), NEW span, GoodSpan(span)
  PROVE  /\ part # 0 => GoodSpan(nodes[part].span)
         /\ GoodSpan(Extended(span, part))
         /\ GoodSpan(SpanOf(part, span))
<1>1. Len(nodes) \in Nat /\ \A i \in 1..Len(nodes) : GoodSpan(nodes[i].span)
  BY DEF IInv, NodesInv
<1>2. part # 0 => GoodSpan(nodes[part].span)
  BY <1>1
<1>3. QED
  BY <1>2, ExtendGood DEF Extended, SpanOf

(* What is added to a list of parts. *)
LEMMA PartsGrow ==
  ASSUME NEW parts, NEW n \in Nat, GoodParts(parts, n), NEW m \in Nat, n <= m, NEW i \in 0..m
  PROVE  LET more == Append(parts, i) IN
         /\ GoodParts(more, m)
         /\ Len(more) = Len(parts) + 1 /\ Len(parts) \in Nat
         /\ Last(more) = i
         /\ \A k \in 1..Len(more) : more[k] \in 0..m
         /\ i # 0 /\ 0 \notin Indices(parts) => 0 \notin Indices(more)
<1> DEFINE more == Append(parts, i)
<1>1. parts \in Seq(Nat) /\ Indices(parts) \subseteq 0..n /\ i \in Nat
  BY DEF GoodParts
<1>2. /\ more \in Seq(Nat) /\ Len(more) = Len(parts) + 1 /\ Len(parts) \in Nat
      /\ \A k \in 1..Len(parts) : more[k] = parts[k]
      /\ more[Len(parts) + 1] = i
  BY <1>1
<1> HIDE DEF more
<1>3. \A k \in 1..Len(more) : k \in 1..Len(parts) \/ k = Len(parts) + 1
  BY <1>2
<1>4. \A k \in 1..Len(parts) : parts[k] \in Indices(parts) /\ parts[k] \in 0..m
  BY <1>1 DEF Indices
<1>5. \A k \in 1..Len(more) : more[k] \in 0..m
  BY <1>2, <1>3, <1>4
<1>6. Indices(more) \subseteq 0..m
  BY <1>5 DEF Indices
<1>7. ASSUME i # 0, 0 \notin Indices(parts) PROVE 0 \notin Indices(more)
  <2>1. \A k \in 1..Len(more) : more[k] # 0
    BY <1>2, <1>3, <1>4, <1>7
  <2>2. QED
    BY <2>1 DEF Indices
<1>8. Last(more) = i
  BY <1>2 DEF Last
<1>9. QED
  BY <1>2, <1>5, <1>6, <1>7, <1>8 DEF GoodParts, more

(* No part at all. *)
LEMMA NoParts ==
  /\ \A n : GoodParts(<<>>, n)
  /\ <<>> \in Seq(Nat) /\ Len(<<>>) = 0 /\ 0 \notin Indices(<<>>)
<1>1. Indices(<<>>) = {} /\ Len(<<>>) = 0 /\ <<>> \in Seq(Nat)
  BY DEF Indices
<1>2. QED
  BY <1>1 DEF GoodParts

(* The only part. *)
LEMMA OnePart ==
  ASSUME NEW n \in Nat, NEW i \in 1..n
  PROVE  GoodParts(<<i>>, n) /\ Len(<<i>>) = 1 /\ 0 \notin Indices(<<i>>)
<1>1. <<i>> \in Seq(Nat) /\ Len(<<i>>) = 1 /\ <<i>>[1] = i
  OBVIOUS
<1>2. Indices(<<i>>) = {i}
  BY <1>1 DEF Indices
<1>3. QED
  BY <1>1, <1>2 DEF GoodParts

(* The parts of the running frame, and with what was returned. *)
LEMMA PartsFacts ==
  ASSUME IInv, Running
  PROVE  /\ GoodParts(frame.parts, Len(nodes)) /\ GoodParts(frame.parts, Len(nodes) + 1)
         /\ frame.parts \in Seq(Nat) /\ Len(frame.parts) \in Nat
         /\ Ready(frame.routine, frame.point, frame.parts)
         /\ \A k \in 1..Len(frame.parts) :
              /\ frame.parts[k] \in 0..Len(nodes)
              /\ 0 \notin Indices(frame.parts) => frame.parts[k] \in 1..Len(nodes)
<1>1. /\ Len(nodes) \in Nat /\ frame.parts \in Seq(Nat)
      /\ GoodFrame(frame, Len(nodes), context.position)
  BY FrameFacts
<1>2. /\ Indices(frame.parts) \subseteq 0..Len(nodes)
      /\ Ready(frame.routine, frame.point, frame.parts)
  BY <1>1 DEF GoodFrame
<1>3. \A k \in 1..Len(frame.parts) : frame.parts[k] \in Indices(frame.parts)
  BY DEF Indices
<1>4. 0..Len(nodes) \subseteq 0..Len(nodes) + 1
  BY <1>1
<1>5. \A k \in 1..Len(frame.parts) :
        /\ frame.parts[k] \in 0..Len(nodes)
        /\ 0 \notin Indices(frame.parts) => frame.parts[k] \in 1..Len(nodes)
  BY <1>1, <1>2, <1>3
<1>6. Len(frame.parts) \in Nat
  BY <1>1
<1>7. QED
  BY <1>1, <1>2, <1>4, <1>5, <1>6 DEF GoodParts

(* The parts of the running frame, with what was returned. *)
LEMMA HeldFacts ==
  ASSUME IInv, Running
  PROVE  /\ GoodParts(Held, Len(nodes)) /\ Held \in Seq(Nat)
         /\ Len(Held) = Len(frame.parts) + 1
         /\ \A k \in 1..Len(Held) : Held[k] \in 0..Len(nodes)
         /\ returned # 0 /\ 0 \notin Indices(frame.parts) => 0 \notin Indices(Held)
         /\ returned \in 0..Len(nodes)
<1>1. Len(nodes) \in Nat /\ GoodParts(frame.parts, Len(nodes)) /\ returned \in 0..Len(nodes)
  BY FrameFacts, PartsFacts DEF IInv, NodesInv
<1>2. Held = Append(frame.parts, returned)
  BY DEF Held
<1>3. GoodParts(Held, Len(nodes)) => Held \in Seq(Nat)
  BY DEF GoodParts
<1> DEFINE more == Append(frame.parts, returned)
           n == Len(nodes)
<1>4. n \in Nat /\ n <= n /\ GoodParts(frame.parts, n) /\ returned \in 0..n
  BY <1>1
<1> HIDE DEF n
<1>5. /\ GoodParts(more, Len(nodes))
      /\ Len(more) = Len(frame.parts) + 1
      /\ \A k \in 1..Len(more) : more[k] \in 0..Len(nodes)
      /\ returned # 0 /\ 0 \notin Indices(frame.parts) => 0 \notin Indices(more)
  BY <1>4, PartsGrow, Zenon DEF n
<1>6. more = Held
  BY <1>2
<1> HIDE DEF more
<1>7. QED
  BY <1>1, <1>3, <1>5, <1>6

(* The same, when what was returned is left out if it is null. *)
LEMMA KeptFacts ==
  ASSUME IInv, Running
  PROVE  /\ GoodParts(Kept, Len(nodes)) /\ Kept \in Seq(Nat)
         /\ Len(Kept) >= Len(frame.parts)
         /\ 0 \notin Indices(frame.parts) => 0 \notin Indices(Kept)
<1>1. (Kept = Held /\ returned # 0) \/ Kept = frame.parts
  BY DEF Kept
<1>2. QED
  BY <1>1, HeldFacts, PartsFacts

(* The function returns a node that a token closes. *)
LEMMA ReturnClosedKeeps ==
  ASSUME IInv, Running, NEW type, type # "eof", NEW kind \in Kinds,
         NEW span, GoodSpan(span), NEW parts, GoodParts(parts, Len(nodes)),
         ReturnClosed(type, kind, span, parts)
  PROVE  IInv'
<1> DEFINE c == ExpectedOrRecovered(context, type)
           closed == IF Peek(context) = type
                       THEN ExtendSpan(span, TokenSpan(context.position)) ELSE span
<1>1. Follows(c, context)
  BY ExpectedFollows DEF IInv
<1>2. GoodSpan(TokenSpan(context.position))
  BY CursorGood DEF IInv
<1>3. GoodSpan(closed)
  BY <1>2, ExtendGood
<1>4. ReturnNode(c, kind, closed, parts)
  BY DEF ReturnClosed
<1> HIDE DEF c, closed
<1>5. QED
  BY <1>1, <1>3, <1>4, ReturnNodeKeeps

(* The span of a program: its first and its last token are those of parts.  *)
LEMMA ProgramGood ==
  ASSUME IInv, NEW parts, GoodParts(parts, Len(nodes)), 0 \notin Indices(parts)
  PROVE  GoodSpan(SpanOfAll(parts))
<1> DEFINE starts == {nodes[i].span.start : i \in Indices(parts)}
           ends == {nodes[i].span.end : i \in Indices(parts)}
           first == CHOOSE p \in starts : \A i \in Indices(parts) : p <= nodes[i].span.start
           last == CHOOSE p \in ends : \A i \in Indices(parts) : p >= nodes[i].span.end
<1>1. \A i \in Indices(parts) :
        /\ nodes[i].span.start \in Nat /\ nodes[i].span.start < Len(text)
        /\ nodes[i].span.end \in Int /\ nodes[i].span.end >= -1
        /\ nodes[i].span.end < Len(text)
  <2>1. \A i \in Indices(parts) : i \in 1..Len(nodes)
    BY DEF GoodParts, IInv, NodesInv
  <2>2. QED
    BY <2>1 DEF IInv, NodesInv, GoodSpan, Span
<1>2. Len(text) \in Nat /\ Len(text) > 0
  BY DEF IInv, StreamInv, TokenStream
<1>3. CASE parts = <<>>
  <2>1. GoodSpan(NoSpan)
    BY <1>2 DEF GoodSpan, NoSpan, Span
  <2>2. QED
    BY <1>3, <2>1 DEF SpanOfAll
<1>4. CASE parts # <<>>
  <2>1. parts[1] \in Indices(parts)
    <3>1. 1 \in 1..Len(parts)
      BY <1>4 DEF GoodParts
    <3>2. QED
      BY <3>1 DEF Indices
  <2>2. \E p \in starts : \A i \in Indices(parts) : p <= nodes[i].span.start
    <3>1. starts \in SUBSET Nat /\ starts # {}
      BY <1>1, <2>1
    <3>2. PICK p \in starts : \A q \in starts : p <= q
      BY <3>1, LeastExists
    <3>3. QED
      BY <3>2
  <2>3. \E p \in ends : \A i \in Indices(parts) : p >= nodes[i].span.end
    <3> DEFINE below == {Len(text) - nodes[i].span.end : i \in Indices(parts)}
    <3>1. below \in SUBSET Nat /\ below # {}
      BY <1>1, <1>2, <2>1
    <3>2. PICK b \in below : \A q \in below : b <= q
      BY <3>1, LeastExists
    <3>3. PICK k \in Indices(parts) : b = Len(text) - nodes[k].span.end
      BY <3>2
    <3>4. \A i \in Indices(parts) :
            Len(text) - nodes[k].span.end <= Len(text) - nodes[i].span.end
      BY <3>2, <3>3
    <3>5. \A i \in Indices(parts) : nodes[k].span.end >= nodes[i].span.end
      <4> TAKE i \in Indices(parts)
      <4>1. Len(text) - nodes[k].span.end <= Len(text) - nodes[i].span.end
        BY <3>4
      <4>2. nodes[i].span.end \in Int /\ nodes[k].span.end \in Int
        BY <1>1
      <4>3. \A l \in Nat, a \in Int, b1 \in Int : l - a <= l - b1 => a >= b1
        OBVIOUS
      <4>4. QED
        BY <1>2, <4>1, <4>2, <4>3
    <3>6. QED
      BY <3>3, <3>5
  <2>4. first \in starts /\ last \in ends
    BY <2>2, <2>3, Zenon
  <2>5. first \in Nat /\ first < Len(text) /\ last \in Int /\ last >= -1 /\ last < Len(text)
    BY <1>1, <2>4
  <2>6. SpanOfAll(parts) = [start |-> first, end |-> last]
    BY <1>4, Zenon DEF SpanOfAll
  <2> HIDE DEF first, last
  <2>7. QED
    BY <2>5, <2>6 DEF GoodSpan, Span
<1>5. QED
  BY <1>3, <1>4

-----------------------------------------------------------------------------
(* The steps. *)

(* Where the calls of a step may leave the cursor, and the spans at hand. *)
LEMMA CursorFacts ==
  ASSUME IInv
  PROVE  /\ Follows(context, context)
         /\ Follows(Reported(context), context) /\ Follows(Recovered(context), context)
         /\ Follows(Recovered(Reported(context)), context)
         /\ Follows(SynchronizedStatement(context), context)
         /\ Follows(SynchronizedDeclaration(context), context)
         /\ Peek(context) # "eof" => Follows(Consumed(context), context)
         /\ GoodSpan(TokenSpan(context.position))
         /\ Running => GoodSpan(StartSpan)
  BY FollowsItself, ReportedFollows, RecoveredFollows, ReportedRecovered,
     SynchronizedStatementFollows, SynchronizedDeclarationFollows, ConsumedFollows,
     CursorGood, StartGood DEF IInv

(* What is called when a token is expected. *)
LEMMA CallFacts ==
  ASSUME IInv, NEW type, type # "eof"
  PROVE  /\ Follows(Expected(context, type), context)
         /\ Follows(ExpectedOrRecovered(context, type), context)
         /\ Follows(Matched(context, type), context)
  BY ExpectedFollows, MatchedFollows DEF IInv

(* A function that is going to use no part in particular. *)
LEMMA ReadyFree ==
  ASSUME NEW routine, NEW point, NEW parts \in Seq(Nat), PartsNeeded(routine, point) = 0,
         routine \in Trusting => 0 \notin Indices(parts)
  PROVE  Ready(routine, point, parts)
<1>1. Len(parts) \in Nat
  OBVIOUS
<1>2. Len(parts) >= PartsNeeded(routine, point)
  BY <1>1
<1>3. QED
  BY <1>2, Zenon DEF Ready

(* The first steps of programs and declarations. *)
LEMMA ProgramSteps ==
  ASSUME IInv, ParseDeclarations \/ DeclarationParsed
  PROVE  IInv'
<1>1. ASSUME ParseDeclarations PROVE IInv'
  <2>1. Running /\ frame.routine = "Program" /\ frame.point = "declarations"
    BY <1>1 DEF ParseDeclarations, At
  <2>2. GoodParts(frame.parts, Len(nodes)) /\ 0 \notin Indices(frame.parts)
        /\ frame.parts \in Seq(Nat) /\ Len(frame.parts) \in Nat
    BY <2>1, PartsFacts DEF Ready, Trusting
  <2>3. CASE ReturnNode(context, "Program", SpanOfAll(frame.parts), frame.parts)
    BY <2>1, <2>2, <2>3, ProgramGood, CursorFacts, ReturnNodeKeeps DEF Kinds
  <2>4. CASE Continue("declarations", Recovered(Reported(context)), frame.parts)
    <3>1. Ready(frame.routine, "declarations", frame.parts)
      BY <2>1, <2>2 DEF Ready, PartsNeeded
    <3>2. QED
      BY <2>1, <2>2, <2>4, <3>1, CursorFacts, ContinueKeeps DEF Points
  <2>5. CASE Invoke("Declaration", "parsed", context, frame.parts)
    <3>1. Ready(frame.routine, "parsed", frame.parts)
      BY <2>1, <2>2 DEF Ready, PartsNeeded
    <3>2. QED
      BY <2>1, <2>2, <2>5, <3>1, CursorFacts, InvokeKeeps DEF Points, Routines, Taking, Named
  <2>6. QED
    BY <1>1, <2>3, <2>4, <2>5 DEF ParseDeclarations
<1>2. ASSUME DeclarationParsed PROVE IInv'
  <2>1. Running /\ frame.routine = "Program" /\ frame.point = "parsed"
    BY <1>2 DEF DeclarationParsed, At
  <2>2. 0 \notin Indices(frame.parts)
    BY <2>1, PartsFacts DEF Ready, Trusting
  <2>3. GoodParts(Kept, Len(nodes)) /\ 0 \notin Indices(Kept) /\ Kept \in Seq(Nat)
    BY <2>1, <2>2, KeptFacts
  <2>4. Ready(frame.routine, "declarations", Kept)
    BY <2>1, <2>3 DEF Ready, PartsNeeded
  <2>5. \E c : Follows(c, context) /\ Continue("declarations", c, Kept)
    BY <1>2, CursorFacts DEF DeclarationParsed
  <2>6. QED
    BY <2>1, <2>3, <2>4, <2>5, ContinueKeeps DEF Points
<1>3. QED
  BY <1>1, <1>2

(* The parts of the running frame, with the node a step makes. *)
LEMMA FreshFacts ==
  ASSUME IInv, Running
  PROVE  LET more == Append(frame.parts, Fresh) IN
         /\ GoodParts(more, Len(nodes) + 1) /\ more \in Seq(Nat) /\ Len(more) \in Nat
         /\ 0 \notin Indices(frame.parts) => 0 \notin Indices(more)
<1> DEFINE n == Len(nodes)
           m == n + 1
           more == Append(frame.parts, Fresh)
<1>1. n \in Nat /\ m \in Nat /\ n <= m /\ m \in 0..m /\ m # 0 /\ GoodParts(frame.parts, n)
  BY FrameFacts, PartsFacts
<1>2. more = Append(frame.parts, m)
  BY DEF Fresh
<1> HIDE DEF n, m, more
<1>3. GoodParts(more, m) /\ (0 \notin Indices(frame.parts) => 0 \notin Indices(more))
  BY <1>1, <1>2, PartsGrow, Zenon
<1>4. more \in Seq(Nat)
  BY <1>3 DEF GoodParts
<1>5. Len(more) \in Nat
  BY <1>4
<1>6. QED
  BY <1>3, <1>4, <1>5 DEF m, n, more

(* ParseAttributes and ParseDeclaration. *)
LEMMA AttributeSteps ==
  ASSUME IInv, ParseAttribute \/ ParseDeclaration
  PROVE  IInv'
<1>1. Running /\ frame.routine = "Declaration"
  BY DEF ParseAttribute, ParseDeclaration, At
<1>2. /\ GoodParts(frame.parts, Len(nodes)) /\ frame.parts \in Seq(Nat)
      /\ Len(nodes) \in Nat /\ context.position \in Nat
  BY <1>1, PartsFacts, FrameFacts
<1>3. 0 \notin Indices(frame.parts)
  <2>1. frame.point \in {"start", "attributes"}
    BY DEF ParseAttribute, ParseDeclaration, At
  <2>2. QED
    BY <1>1, <2>1, PartsFacts DEF Ready, Trusting
<1>4. ASSUME ParseAttribute PROVE IInv'
  <2> DEFINE c == Consumed(context)
             node == NodeFrom(context.position, c, "Attribute", TokenSpan(context.position), <<>>)
             more == Append(frame.parts, Fresh)
  <2>1. Follows(c, context) /\ GoodSpan(TokenSpan(context.position))
    BY <1>4, CursorFacts DEF ParseAttribute
  <2>2. GoodNode(node)
    BY <1>1, <1>2, <2>1, NoParts, NewNodeGood DEF Kinds
  <2>3. ContinueWith("attributes", c, node, more)
    BY <1>4 DEF ParseAttribute
  <2> HIDE DEF node, c
  <2>4. GoodParts(more, Len(nodes) + 1) /\ 0 \notin Indices(more) /\ more \in Seq(Nat)
    BY <1>1, <1>3, FreshFacts
  <2> HIDE DEF more
  <2>5. Ready(frame.routine, "attributes", more)
    <3>1. Len(more) \in Nat /\ PartsNeeded(frame.routine, "attributes") = 0
      BY <2>4 DEF PartsNeeded
    <3>2. QED
      BY <2>4, <3>1 DEF Ready
  <2>6. QED
    BY <1>1, <2>1, <2>2, <2>3, <2>4, <2>5, ContinueWithKeeps DEF Points
<1>5. ASSUME ParseDeclaration PROVE IInv'
  <2> DEFINE modified == Matched(Matched(context, "pub"), "async")
  <2>1. Follows(modified, context) /\ GoodContext(modified)
    BY TwiceFollows DEF IInv, Follows
  <2>2. Follows(Reported(modified), context)
    BY <2>1, ReportedFollows, FollowsOn DEF IInv
  <2>3. \/ Peek(context) = "import" /\ Become("Import", context)
        \/ Peek(context) = "package" /\ Become("Package", context)
        \/ Peek(modified) \in DeclarationKeywords /\ Become(RoutineOf[Peek(modified)], modified)
        \/ Return(Reported(modified), 0)
    BY <1>5, Zenon DEF ParseDeclaration
  <2> HIDE DEF modified
  <2>4. CASE Peek(context) = "import" /\ Become("Import", context)
    BY <1>1, <1>3, <2>4, CursorFacts, BecomeKeeps DEF Routines
  <2>5. CASE Peek(context) = "package" /\ Become("Package", context)
    BY <1>1, <1>3, <2>5, CursorFacts, BecomeKeeps DEF Routines
  <2>6. CASE Peek(modified) \in DeclarationKeywords /\ Become(RoutineOf[Peek(modified)], modified)
    <3>1. Peek(modified) # "eof" /\ RoutineOf[Peek(modified)] \in Routines
      BY <2>6 DEF RoutineOf, DeclarationKeywords, Routines, Named
    <3>2. QED
      BY <1>1, <1>3, <2>1, <2>6, <3>1, BecomeKeeps
  <2>7. CASE Return(Reported(modified), 0)
    BY <1>1, <1>2, <2>2, <2>7, ReturnKeeps
  <2>8. QED
    BY <2>3, <2>4, <2>5, <2>6, <2>7
<1>6. QED
  BY <1>4, <1>5

(* The identifier, the type and the keyword with a name after it. *)
LEMMA NameSteps ==
  ASSUME IInv, \/ ParseIdentifier \/ ParseType
               \/ \E routine \in Named : ParseKeyword(routine) \/ NameMissing(routine)
  PROVE  IInv'
<1>1. 0 \in 0..Len(nodes)
  BY DEF IInv, NodesInv
<1>2. ASSUME ParseIdentifier PROVE IInv'
  <2>1. \/ Peek(context) # "eof" /\ ReturnNode(Consumed(context), "Identifier", StartSpan, <<>>)
        \/ Return(Reported(context), 0)
    BY <1>2 DEF ParseIdentifier
  <2>2. Running
    BY <1>2 DEF ParseIdentifier, At
  <2>3. QED
    BY <1>1, <2>1, <2>2, NoParts, CursorFacts, ReturnNodeKeeps, ReturnKeeps DEF Kinds
<1>3. ASSUME ParseType PROVE IInv'
  <2>1. \/ /\ Peek(context) # "eof"
           /\ \E kind \in Types : ReturnNode(Consumed(context), kind, StartSpan, <<>>)
        \/ Return(Reported(context), 0)
    BY <1>3 DEF ParseType, Types
  <2>2. Running
    BY <1>3 DEF ParseType, At
  <2>3. QED
    BY <1>1, <2>1, <2>2, NoParts, CursorFacts, ReturnNodeKeeps, ReturnKeeps DEF Kinds
<1>4. ASSUME NEW routine \in Named, ParseKeyword(routine) PROVE IInv'
  <2> DEFINE parts == IF routine = "Function" THEN frame.parts ELSE <<>>
  <2>1. Running /\ frame.routine = routine /\ frame.point = "start"
    BY <1>4 DEF ParseKeyword, At
  <2>2. Invoke("Identifier", "name", Consumed(context), parts)
    BY <1>4 DEF ParseKeyword
  <2>3. Follows(Consumed(context), context)
    BY <2>1, CursorFacts DEF IInv, CallsInv, Taking
  <2>4. GoodParts(parts, Len(nodes)) /\ parts \in Seq(Nat) /\ Len(parts) \in Nat
    BY <2>1, PartsFacts, NoParts
  <2>5. 0 \notin Indices(parts)
    BY <2>1, PartsFacts, NoParts DEF Ready, Trusting
  <2> HIDE DEF parts
  <2>6. Ready(frame.routine, "name", parts)
    <3>1. PartsNeeded(frame.routine, "name") = 0
      BY DEF PartsNeeded
    <3>2. QED
      BY <2>4, <2>5, <3>1 DEF Ready
  <2>7. QED
    BY <2>1, <2>2, <2>3, <2>4, <2>6, InvokeKeeps DEF Points, Routines, Taking, Named
<1>5. ASSUME NEW routine \in Named, NameMissing(routine) PROVE IInv'
  BY <1>1, <1>5, CursorFacts, ReturnKeeps DEF NameMissing, At
<1>6. QED
  BY <1>2, <1>3, <1>4, <1>5

(* A list whose last part gives way to a new node. *)
LEMMA LastReplaced ==
  ASSUME NEW s \in Seq(Nat), Len(s) >= 1, NEW n \in Nat,
         \A k \in 1..Len(s) : s[k] \in 1..n
  PROVE  LET t == [s EXCEPT ![Len(s)] = n + 1] IN
         /\ GoodParts(t, n + 1) /\ 0 \notin Indices(t) /\ Len(t) = Len(s) /\ Len(s) \in Nat
         /\ Last(s) \in 1..n
<1> DEFINE l == Len(s)
           t == [s EXCEPT ![l] = n + 1]
<1>1. l \in Nat /\ l \in 1..l /\ DOMAIN s = 1..l /\ s \in [1..l -> Nat]
  OBVIOUS
<1> HIDE DEF l
<1>2. t \in [1..l -> Nat] /\ \A k \in 1..l : t[k] = IF k = l THEN n + 1 ELSE s[k]
  BY <1>1
<1> HIDE DEF t
<1>3. t \in Seq(Nat) /\ Len(t) = l
  BY <1>1, <1>2
<1>4. \A k \in 1..l : s[k] \in 1..n
  BY DEF l
<1>5. \A k \in 1..l : t[k] \in 1..n + 1
  <2> TAKE k \in 1..l
  <2>1. CASE k = l
    BY <1>2, <2>1
  <2>2. CASE k # l
    BY <1>2, <1>4, <2>2
  <2>3. QED
    BY <2>1, <2>2
<1>6. \A i \in Indices(t) : i \in 1..n + 1
  BY <1>3, <1>5 DEF Indices
<1>7. Last(s) \in 1..n
  BY <1>1, <1>4 DEF Last, l
<1>8. GoodParts(t, n + 1) /\ 0 \notin Indices(t)
  <2>1. \A i \in Indices(t) : i \in 0..n + 1 /\ i # 0
    BY <1>6
  <2>2. QED
    BY <1>3, <2>1 DEF GoodParts
<1>9. QED
  BY <1>1, <1>3, <1>7, <1>8, Zenon DEF t, l

(* What is known of a node. *)
LEMMA NodeFacts ==
  ASSUME IInv, NEW i \in 1..Len(nodes)
  PROVE  nodes[i] \in Node /\ nodes[i].from \in Nat /\ GoodSpan(nodes[i].span)
<1>1. nodes \in Seq(Node) /\ GoodSpan(nodes[i].span)
  BY DEF IInv, NodesInv
<1>2. nodes[i] \in Node
  BY <1>1
<1>3. QED
  BY <1>1, <1>2 DEF Node

(* What was returned, after another part. *)
LEMMA ReturnedFacts ==
  ASSUME IInv
  PROVE  /\ returned \in 0..Len(nodes)
         /\ \A i \in 1..Len(nodes) : GoodParts(<<i, returned>>, Len(nodes))
<1>1. returned \in 0..Len(nodes) /\ nodes \in Seq(Node)
  BY DEF IInv, NodesInv
<1>2. returned \in Nat /\ Len(nodes) \in Nat
  BY <1>1
<1>3. \A i \in 1..Len(nodes) : GoodParts(<<i, returned>>, Len(nodes))
  <2> TAKE i \in 1..Len(nodes)
  <2>1. i \in Nat /\ i \in 0..Len(nodes)
    BY <1>2
  <2>2. /\ <<i, returned>> \in Seq(Nat) /\ Len(<<i, returned>>) = 2
        /\ <<i, returned>>[1] = i /\ <<i, returned>>[2] = returned
    BY <1>2, <2>1
  <2>3. Indices(<<i, returned>>) \subseteq {i, returned}
    BY <2>2 DEF Indices
  <2>4. QED
    BY <1>1, <2>1, <2>2, <2>3 DEF GoodParts
<1>4. QED
  BY <1>1, <1>3

(* The end of a parameter and of a field. *)
LEMMA TypedNameKeeps ==
  ASSUME IInv, Running, \/ frame.routine = "Function" /\ frame.point = "parameter type"
                        \/ frame.routine = "Struct" /\ frame.point = "field type",
         NEW kind \in {"Parameter", "Field"},
         NEW more \in {"fields", "next parameter"}, NEW done \in {"close"},
         TypedName(kind, more, done)
  PROVE  IInv'
<1> DEFINE name == Last(frame.parts)
           held == <<name, returned>>
           span == Extended(nodes[name].span, returned)
           parts == [frame.parts EXCEPT ![Len(frame.parts)] = Fresh]
<1>1. /\ frame.parts \in Seq(Nat) /\ Len(frame.parts) >= 1 /\ Len(nodes) \in Nat
      /\ \A k \in 1..Len(frame.parts) : frame.parts[k] \in 1..Len(nodes)
  BY PartsFacts, FrameFacts DEF Ready, Trusting, PartsNeeded
<1>2. /\ GoodParts(parts, Len(nodes) + 1) /\ 0 \notin Indices(parts)
      /\ Len(parts) \in Nat /\ name \in 1..Len(nodes)
  BY <1>1, LastReplaced DEF Fresh
<1>3. \E c : /\ Follows(c, context)
            /\ \E point \in {more, done} :
                 ContinueWith(point, c, NodeFrom(nodes[name].from, context, kind, span, held),
                              parts)
  BY CursorFacts DEF TypedName
<1> HIDE DEF name, span, held, parts
<1>4. nodes[name].from \in Nat /\ GoodSpan(nodes[name].span)
  BY <1>2, NodeFacts
<1>5. GoodSpan(span) /\ GoodParts(held, Len(nodes))
  BY <1>2, <1>4, ReturnedFacts, PartGood DEF span, held
<1>6. GoodNode(NodeFrom(nodes[name].from, context, kind, span, held))
  BY <1>4, <1>5, CursorFacts, NewNodeGood DEF Kinds
<1>7. \A point \in {more, done} : Ready(frame.routine, point, parts)
  <2> TAKE point \in {more, done}
  <2>1. PartsNeeded(frame.routine, point) = 0
    BY DEF PartsNeeded
  <2>2. QED
    BY <1>2, <2>1, ReadyFree DEF GoodParts
<1>8. \A point \in {more, done} : point \in Points /\ point # "start"
  BY DEF Points
<1>9. QED
  BY <1>2, <1>3, <1>6, <1>7, <1>8, ContinueWithKeeps

(* ParseFunctionDeclaration and ParseParameters. *)
LEMMA FunctionSteps ==
  ASSUME IInv, \/ FunctionNamed \/ ParameterNamed \/ ParameterTyped \/ NextParameter
               \/ FunctionClosed \/ FunctionTyped \/ EndFunction
  PROVE  IInv'
<1>1. Running /\ frame.routine = "Function"
  BY DEF FunctionNamed, NameFound, ParameterNamed, ParameterTyped, NextParameter,
         FunctionClosed, FunctionTyped, EndFunction, At
<1>2. /\ GoodParts(frame.parts, Len(nodes)) /\ frame.parts \in Seq(Nat)
      /\ Len(frame.parts) \in Nat
      /\ frame.point # "body" => 0 \notin Indices(frame.parts)
  BY <1>1, PartsFacts DEF Ready, Trusting
<1>3. /\ GoodParts(Held, Len(nodes)) /\ Held \in Seq(Nat) /\ Len(Held) = Len(frame.parts) + 1
      /\ returned # 0 /\ 0 \notin Indices(frame.parts) => 0 \notin Indices(Held)
      /\ returned \in 0..Len(nodes)
  BY <1>1, HeldFacts
<1>4. ASSUME FunctionNamed PROVE IInv'
  <2> DEFINE c == ExpectedOrRecovered(context, "(")
  <2>1. Follows(c, context)
    BY CallFacts
  <2>2. frame.point = "name" /\ returned # 0
    BY <1>4 DEF FunctionNamed, NameFound, At
  <2>3. Ready(frame.routine, "close", Held) /\ Ready(frame.routine, "parameter", Held)
    BY <1>1, <1>2, <1>3, <2>2 DEF Ready, PartsNeeded
  <2>4. \/ Continue("close", c, Held)
        \/ Invoke("Identifier", "parameter", c, Held)
    BY <1>4 DEF FunctionNamed
  <2> HIDE DEF c
  <2>5. QED
    BY <1>1, <1>3, <2>1, <2>3, <2>4, ContinueKeeps, InvokeKeeps
    DEF Points, Routines, Taking, Named
<1>5. ASSUME ParameterNamed PROVE IInv'
  <2>1. frame.point = "parameter"
    BY <1>5 DEF ParameterNamed, At
  <2>2. \/ Continue("close", context, frame.parts)
        \/ Continue("close", Recovered(Reported(context)), frame.parts)
        \/ /\ returned # 0 /\ Peek(context) = ":"
           /\ Invoke("Type", "parameter type", Consumed(context), Held)
    BY <1>5, Zenon DEF ParameterNamed
  <2>3. Ready(frame.routine, "close", frame.parts)
    BY <1>1, <1>2, <2>1 DEF Ready, PartsNeeded
  <2>4. returned # 0 => Ready(frame.routine, "parameter type", Held)
    BY <1>1, <1>2, <1>3, <2>1 DEF Ready, PartsNeeded
  <2>5. QED
    BY <1>1, <1>2, <1>3, <2>2, <2>3, <2>4, CursorFacts, ContinueKeeps, InvokeKeeps
    DEF Points, Routines, Taking, Named
<1>6. ASSUME ParameterTyped PROVE IInv'
  BY <1>6, TypedNameKeeps DEF ParameterTyped, At
<1>7. ASSUME NextParameter PROVE IInv'
  <2>1. frame.point = "next parameter" /\ Invoke("Identifier", "parameter", context, frame.parts)
    BY <1>7 DEF NextParameter, At
  <2>2. Ready(frame.routine, "parameter", frame.parts)
    <3>1. PartsNeeded(frame.routine, "parameter") = 0
      BY <1>1 DEF PartsNeeded
    <3>2. 0 \notin Indices(frame.parts)
      BY <1>2, <2>1
    <3>3. QED
      BY <1>2, <3>1, <3>2, ReadyFree
  <2>3. QED
    BY <1>1, <1>2, <2>1, <2>2, CursorFacts, InvokeKeeps DEF Points, Routines, Taking, Named
<1>8. ASSUME FunctionClosed PROVE IInv'
  <2> DEFINE c == ExpectedOrRecovered(context, ")")
  <2>1. Follows(c, context) /\ GoodContext(c)
    BY CallFacts DEF Follows
  <2>2. Peek(c) = ":" => Follows(Consumed(c), context)
    BY <2>1, ConsumedFollows, FollowsOn DEF IInv
  <2>3. frame.point = "close"
    BY <1>8 DEF FunctionClosed, At
  <2>4. Ready(frame.routine, "return type", frame.parts)
    BY <1>1, <1>2, <2>3 DEF Ready, PartsNeeded
  <2>5. \/ Peek(c) = ":" /\ Invoke("Type", "return type", Consumed(c), frame.parts)
        \/ Continue("return type", c, frame.parts)
    BY <1>8 DEF FunctionClosed
  <2> HIDE DEF c
  <2>6. QED
    BY <1>1, <1>2, <2>1, <2>2, <2>4, <2>5, ContinueKeeps, InvokeKeeps
    DEF Points, Routines, Taking, Named
<1>9. ASSUME FunctionTyped PROVE IInv'
  <2>1. Invoke("Block", "body", context, Held)
    BY <1>9 DEF FunctionTyped
  <2>2. Ready(frame.routine, "body", Held)
    BY <1>1, <1>2, <1>3 DEF Ready, PartsNeeded
  <2>3. QED
    BY <1>1, <1>3, <2>1, <2>2, CursorFacts, InvokeKeeps DEF Points, Routines, Taking, Named
<1>10. ASSUME EndFunction PROVE IInv'
  <2>1. ReturnNode(context, "Function", Extended(StartSpan, returned), Held)
    BY <1>10 DEF EndFunction
  <2>2. QED
    BY <1>1, <1>3, <2>1, CursorFacts, PartGood, ReturnNodeKeeps DEF Kinds, Declarations
<1>11. QED
  BY <1>4, <1>5, <1>6, <1>7, <1>8, <1>9, <1>10

(* The span of the frame, closed by the token the cursor is on. *)
LEMMA ClosedGood ==
  ASSUME IInv, Running
  PROVE  GoodSpan(ExtendSpan(StartSpan, TokenSpan(context.position)))
  BY CursorFacts, ExtendGood

(* ParseStructDeclaration and ParseFields. *)
LEMMA StructSteps ==
  ASSUME IInv, StructNamed \/ NextField \/ FieldNamed \/ FieldTyped \/ EndStruct
  PROVE  IInv'
<1>1. Running /\ frame.routine = "Struct"
  BY DEF StructNamed, NameFound, NextField, FieldNamed, FieldTyped, EndStruct, At
<1>2. /\ GoodParts(frame.parts, Len(nodes)) /\ frame.parts \in Seq(Nat)
      /\ Len(frame.parts) \in Nat
      /\ frame.point # "body" => 0 \notin Indices(frame.parts)
  BY <1>1, PartsFacts DEF Ready, Trusting
<1>3. /\ GoodParts(Held, Len(nodes)) /\ Held \in Seq(Nat) /\ Len(Held) = Len(frame.parts) + 1
      /\ returned # 0 /\ 0 \notin Indices(frame.parts) => 0 \notin Indices(Held)
      /\ returned \in 0..Len(nodes)
  BY <1>1, HeldFacts
<1>4. ASSUME StructNamed PROVE IInv'
  <2>1. frame.point = "name" /\ returned # 0
        /\ Continue("fields", ExpectedOrRecovered(context, "{"), Held)
    BY <1>4 DEF StructNamed, NameFound, At
  <2>2. Follows(ExpectedOrRecovered(context, "{"), context)
    BY CallFacts
  <2>3. Ready(frame.routine, "fields", Held)
    <3>1. 0 \notin Indices(Held)
      BY <1>2, <1>3, <2>1
    <3>2. QED
      BY <1>1, <1>3, <3>1, ReadyFree DEF PartsNeeded
  <2>4. QED
    BY <1>1, <1>3, <2>1, <2>2, <2>3, ContinueKeeps DEF Points
<1>5. ASSUME NextField PROVE IInv'
  <2>1. frame.point = "fields"
    BY <1>5 DEF NextField, At
  <2>2. \/ Continue("close", context, frame.parts)
        \/ Invoke("Identifier", "field", context, frame.parts)
    BY <1>5 DEF NextField
  <2>3. Ready(frame.routine, "close", frame.parts) /\ Ready(frame.routine, "field", frame.parts)
    BY <1>1, <1>2, <2>1 DEF Ready, PartsNeeded
  <2>4. QED
    BY <1>1, <1>2, <2>2, <2>3, CursorFacts, ContinueKeeps, InvokeKeeps
    DEF Points, Routines, Taking, Named
<1>6. ASSUME FieldNamed PROVE IInv'
  <2>1. frame.point = "field"
    BY <1>6 DEF FieldNamed, At
  <2>2. \/ Continue("fields", SynchronizedDeclaration(context), frame.parts)
        \/ Continue("fields", Recovered(Reported(context)), frame.parts)
        \/ /\ returned # 0 /\ Peek(context) = ":"
           /\ Invoke("Type", "field type", Consumed(context), Held)
    BY <1>6, Zenon DEF FieldNamed
  <2>3. Ready(frame.routine, "fields", frame.parts)
    BY <1>1, <1>2, <2>1 DEF Ready, PartsNeeded
  <2>4. returned # 0 => Ready(frame.routine, "field type", Held)
    BY <1>1, <1>2, <1>3, <2>1 DEF Ready, PartsNeeded
  <2>5. QED
    BY <1>1, <1>2, <1>3, <2>2, <2>3, <2>4, CursorFacts, ContinueKeeps, InvokeKeeps
    DEF Points, Routines, Taking, Named
<1>7. ASSUME FieldTyped PROVE IInv'
  BY <1>7, TypedNameKeeps DEF FieldTyped, At
<1>8. ASSUME EndStruct PROVE IInv'
  <2> DEFINE c == Matched(ExpectedOrRecovered(context, "}"), ";")
  <2>1. Follows(c, context)
    BY TwiceFollows DEF IInv
  <2>2. \E span : GoodSpan(span) /\ ReturnNode(c, "Struct", span, frame.parts)
    BY <1>1, <1>8, ClosedGood, CursorFacts DEF EndStruct
  <2> HIDE DEF c
  <2>3. QED
    BY <1>1, <1>2, <2>1, <2>2, ReturnNodeKeeps DEF Kinds, Declarations
<1>9. QED
  BY <1>4, <1>5, <1>6, <1>7, <1>8

(* ParseClassDeclaration and ParseTraitDeclaration. *)
LEMMA BodySteps ==
  ASSUME IInv, NEW kind \in {"Class", "Trait"},
         BodyNamed(kind) \/ NextMember(kind) \/ MemberParsed(kind)
  PROVE  IInv'
<1>1. Running /\ frame.routine = kind /\ kind \in Kinds
  BY DEF BodyNamed, NameFound, NextMember, MemberParsed, At, Kinds, Declarations
<1>2. /\ GoodParts(frame.parts, Len(nodes)) /\ frame.parts \in Seq(Nat)
      /\ GoodParts(Held, Len(nodes)) /\ Held \in Seq(Nat)
      /\ GoodParts(Kept, Len(nodes)) /\ Kept \in Seq(Nat)
  BY <1>1, PartsFacts, HeldFacts, KeptFacts
<1>3. \A point \in {"members", "member"}, parts \in Seq(Nat) : Ready(frame.routine, point, parts)
  BY <1>1, ReadyFree DEF PartsNeeded, Trusting
<1>4. "members" \in Points \ {"start"} /\ "member" \in Points \ {"start"}
      /\ "Declaration" \in Routines \ Taking
  BY DEF Points, Routines, Taking, Named
<1>5. ASSUME BodyNamed(kind) PROVE IInv'
  <2>1. \/ Peek(context) = "{" /\ Continue("members", Consumed(context), Held)
        \/ ReturnNode(context, kind, StartSpan, Held)
    BY <1>5 DEF BodyNamed
  <2>2. QED
    BY <1>1, <1>2, <1>3, <1>4, <2>1, CursorFacts, ContinueKeeps, ReturnNodeKeeps
<1>6. ASSUME NextMember(kind) PROVE IInv'
  <2>1. \/ ReturnNode(Expected(context, "}"), kind, StartSpan, frame.parts)
        \/ Invoke("Declaration", "member", context, frame.parts)
        \/ Continue("members", SynchronizedDeclaration(context), frame.parts)
    BY <1>6, Zenon DEF NextMember
  <2>2. Follows(Expected(context, "}"), context)
    BY CallFacts
  <2>3. QED
    BY <1>1, <1>2, <1>3, <1>4, <2>1, <2>2, CursorFacts, ContinueKeeps, InvokeKeeps,
       ReturnNodeKeeps
<1>7. ASSUME MemberParsed(kind) PROVE IInv'
  <2>1. Continue("members", context, Kept)
    BY <1>7 DEF MemberParsed
  <2>2. QED
    BY <1>1, <1>2, <1>3, <1>4, <2>1, CursorFacts, ContinueKeeps
<1>8. QED
  BY <1>5, <1>6, <1>7

(* ParseEnumDeclaration. *)
LEMMA EnumSteps ==
  ASSUME IInv, EnumNamed \/ NextVariant \/ VariantParsed
  PROVE  IInv'
<1>1. Running /\ frame.routine = "Enum"
  BY DEF EnumNamed, NameFound, NextVariant, VariantParsed, At
<1>2. /\ GoodParts(frame.parts, Len(nodes)) /\ frame.parts \in Seq(Nat)
      /\ GoodParts(Held, Len(nodes)) /\ Held \in Seq(Nat)
      /\ GoodParts(Kept, Len(nodes)) /\ Kept \in Seq(Nat)
  BY <1>1, PartsFacts, HeldFacts, KeptFacts
<1>3. \A point \in {"variants", "variant"}, parts \in Seq(Nat) :
        Ready(frame.routine, point, parts)
  BY <1>1, ReadyFree DEF PartsNeeded, Trusting
<1>4. "variants" \in Points \ {"start"} /\ "variant" \in Points \ {"start"}
      /\ "Identifier" \in Routines \ Taking /\ "Enum" \in Kinds
  BY DEF Points, Routines, Taking, Named, Kinds, Declarations
<1>5. ASSUME NEW parts, GoodParts(parts, Len(nodes)), EndEnum(parts) PROVE IInv'
  <2>1. Follows(Matched(Expected(context, "}"), ";"), context)
    BY TwiceFollows DEF IInv
  <2>2. QED
    BY <1>1, <1>4, <1>5, <2>1, CursorFacts, ReturnNodeKeeps DEF EndEnum
<1>6. ASSUME EnumNamed PROVE IInv'
  <2>1. \/ Peek(context) = "{" /\ Continue("variants", Consumed(context), Held)
        \/ ReturnNode(Matched(context, ";"), "Enum", StartSpan, Held)
    BY <1>6 DEF EnumNamed
  <2>2. Follows(Matched(context, ";"), context)
    BY CallFacts
  <2>3. QED
    BY <1>1, <1>2, <1>3, <1>4, <2>1, <2>2, CursorFacts, ContinueKeeps, ReturnNodeKeeps
<1>7. ASSUME NextVariant PROVE IInv'
  <2>1. EndEnum(frame.parts) \/ Invoke("Identifier", "variant", context, frame.parts)
    BY <1>7 DEF NextVariant
  <2>2. QED
    BY <1>1, <1>2, <1>3, <1>4, <1>5, <2>1, CursorFacts, InvokeKeeps
<1>8. ASSUME VariantParsed PROVE IInv'
  <2>1. \/ Peek(context) = "," /\ Continue("variants", Consumed(context), Kept)
        \/ EndEnum(Kept)
    BY <1>8 DEF VariantParsed
  <2>2. QED
    BY <1>1, <1>2, <1>3, <1>4, <1>5, <2>1, CursorFacts, ContinueKeeps
<1>9. QED
  BY <1>6, <1>7, <1>8

(* Modules, packages and imports. *)
LEMMA ModuleSteps ==
  ASSUME IInv, ModuleNamed \/ EndModule \/ ParsePackage \/ EndPackage
  PROVE  IInv'
<1>1. Running /\ frame.routine \in {"Module", "Package"}
  BY DEF ModuleNamed, NameFound, EndModule, ParsePackage, EndPackage, At
<1>2. /\ GoodParts(Held, Len(nodes)) /\ Held \in Seq(Nat)
      /\ returned \in 0..Len(nodes) /\ GoodParts(<<>>, Len(nodes)) /\ <<>> \in Seq(Nat)
  BY <1>1, HeldFacts, NoParts
<1>3. \A point \in {"body", "name"}, parts \in Seq(Nat) : Ready(frame.routine, point, parts)
  BY <1>1, ReadyFree DEF PartsNeeded, Trusting
<1>4. "body" \in Points \ {"start"} /\ "name" \in Points \ {"start"}
      /\ "Block" \in Routines \ Taking /\ "Identifier" \in Routines \ Taking
      /\ "Module" \in Kinds /\ "Package" \in Kinds
  BY DEF Points, Routines, Taking, Named, Kinds, Declarations
<1>5. ASSUME ModuleNamed PROVE IInv'
  <2>1. Invoke("Block", "body", context, Held) \/ Continue("body", context, Held)
    BY <1>5 DEF ModuleNamed
  <2>2. QED
    BY <1>1, <1>2, <1>3, <1>4, <2>1, CursorFacts, ContinueKeeps, InvokeKeeps
<1>6. ASSUME EndModule PROVE IInv'
  <2>1. ReturnNode(context, "Module", Extended(StartSpan, returned), Held)
    BY <1>6 DEF EndModule
  <2>2. GoodSpan(Extended(StartSpan, returned))
    BY <1>1, <1>2, CursorFacts, PartGood
  <2>3. QED
    BY <1>1, <1>2, <1>4, <2>1, <2>2, CursorFacts, ReturnNodeKeeps
<1>7. ASSUME ParsePackage PROVE IInv'
  <2>1. Invoke("Identifier", "name", Consumed(context), <<>>) /\ frame.point = "start"
        /\ frame.routine = "Package"
    BY <1>7 DEF ParsePackage, At
  <2>2. Follows(Consumed(context), context)
    BY <1>1, <2>1, CursorFacts DEF IInv, CallsInv, Taking
  <2>3. QED
    BY <1>1, <1>2, <1>3, <1>4, <2>1, <2>2, InvokeKeeps
<1>8. ASSUME EndPackage PROVE IInv'
  <2>1. ReturnClosed(";", "Package", StartSpan, Held)
    BY <1>8 DEF EndPackage
  <2>2. QED
    BY <1>1, <1>2, <1>4, <2>1, CursorFacts, ReturnClosedKeeps
<1>9. QED
  BY <1>5, <1>6, <1>7, <1>8

(* ParseImport and ParsePath. *)
LEMMA ImportSteps ==
  ASSUME IInv, ParseImport \/ ParseSegment \/ EndImport
  PROVE  IInv'
<1>1. Running /\ frame.routine = "Import"
  BY DEF ParseImport, ParseSegment, EndImport, At
<1>2. /\ GoodParts(frame.parts, Len(nodes)) /\ frame.parts \in Seq(Nat)
      /\ Len(frame.parts) \in Nat
      /\ GoodParts(<<>>, Len(nodes)) /\ <<>> \in Seq(Nat)
      /\ \A k \in 1..Len(frame.parts) : frame.parts[k] \in 0..Len(nodes)
  BY <1>1, PartsFacts, NoParts
<1>3. \A point \in {"path", "close"}, parts \in Seq(Nat) : Ready(frame.routine, point, parts)
  BY <1>1, ReadyFree DEF PartsNeeded, Trusting
<1>4. "path" \in Points \ {"start"} /\ "close" \in Points \ {"start"}
      /\ "Import" \in Kinds /\ "Identifier" \in Kinds
  BY DEF Points, Kinds, Declarations
<1>5. ASSUME ParseImport PROVE IInv'
  <2>1. Continue("path", Consumed(context), <<>>) /\ frame.point = "start"
    BY <1>5 DEF ParseImport, At
  <2>2. Follows(Consumed(context), context)
    BY <1>1, <2>1, CursorFacts DEF IInv, CallsInv, Taking
  <2>3. QED
    BY <1>1, <1>2, <1>3, <1>4, <2>1, <2>2, ContinueKeeps
<1>6. ASSUME ParseSegment PROVE IInv'
  <2> DEFINE c == Consumed(context)
             node == NodeFrom(context.position, c, "Identifier", TokenSpan(context.position),
                              <<>>)
             more == Append(frame.parts, Fresh)
             point == IF Peek(c) = "::" THEN "path" ELSE "close"
  <2>1. \/ Continue("close", Reported(context), frame.parts)
        \/ Peek(context) = "name" /\ ContinueWith(point, Matched(c, "::"), node, more)
    BY <1>6 DEF ParseSegment
  <2>2. CASE Continue("close", Reported(context), frame.parts)
    BY <1>1, <1>2, <1>3, <1>4, <2>2, CursorFacts, ContinueKeeps
  <2>3. CASE Peek(context) = "name" /\ ContinueWith(point, Matched(c, "::"), node, more)
    <3>1. Follows(c, context) /\ Follows(Matched(c, "::"), context)
      BY <2>3, TwiceFollows, CursorFacts DEF IInv
    <3>2. GoodNode(node)
      BY <1>1, <1>2, <1>4, <3>1, CursorFacts, FrameFacts, NewNodeGood
    <3>3. GoodParts(more, Len(nodes) + 1) /\ more \in Seq(Nat)
      BY <1>1, FreshFacts
    <3>4. point \in {"path", "close"}
      OBVIOUS
    <3> HIDE DEF c, node, more, point
    <3>5. Ready(frame.routine, point, more) /\ point \in Points \ {"start"}
      BY <1>3, <1>4, <3>3, <3>4
    <3>6. QED
      BY <1>1, <2>3, <3>1, <3>2, <3>3, <3>5, ContinueWithKeeps
  <2>4. QED
    BY <2>1, <2>2, <2>3
<1>7. ASSUME EndImport PROVE IInv'
  <2> DEFINE last == IF frame.parts = <<>> THEN 0 ELSE Last(frame.parts)
  <2>1. ReturnClosed(";", "Import", Extended(StartSpan, last), frame.parts)
    BY <1>7 DEF EndImport
  <2>2. last \in 0..Len(nodes)
    <3>1. CASE frame.parts = <<>>
      BY <3>1 DEF IInv, NodesInv
    <3>2. CASE frame.parts # <<>>
      <4>1. Len(frame.parts) \in 1..Len(frame.parts)
        BY <1>2, <3>2
      <4>2. QED
        BY <1>2, <3>2, <4>1 DEF Last
    <3>3. QED
      BY <3>1, <3>2
  <2> HIDE DEF last
  <2>3. GoodSpan(Extended(StartSpan, last))
    BY <1>1, <2>2, CursorFacts, PartGood
  <2>4. QED
    BY <1>1, <1>2, <1>4, <2>1, <2>3, ReturnClosedKeeps
<1>8. QED
  BY <1>5, <1>6, <1>7

(* All the steps of the declaration parser. *)
LEMMA DeclarationSteps ==
  ASSUME IInv, DeclarationStep
  PROVE  IInv'
<1>1. \/ ParseDeclarations \/ DeclarationParsed
      \/ ParseAttribute \/ ParseDeclaration
      \/ \E routine \in Named : ParseKeyword(routine) \/ NameMissing(routine)
      \/ ParseIdentifier \/ ParseType
      \/ FunctionNamed \/ ParameterNamed \/ ParameterTyped \/ NextParameter
      \/ FunctionClosed \/ FunctionTyped \/ EndFunction
      \/ StructNamed \/ NextField \/ FieldNamed \/ FieldTyped \/ EndStruct
      \/ \E kind \in {"Class", "Trait"} :
           BodyNamed(kind) \/ NextMember(kind) \/ MemberParsed(kind)
      \/ EnumNamed \/ NextVariant \/ VariantParsed
      \/ ModuleNamed \/ EndModule \/ ParsePackage \/ EndPackage
      \/ ParseImport \/ ParseSegment \/ EndImport
  BY Zenon DEF DeclarationStep
<1>2. CASE ParseDeclarations \/ DeclarationParsed
  BY <1>2, ProgramSteps
<1>3. CASE ParseAttribute \/ ParseDeclaration
  BY <1>3, AttributeSteps
<1>4. CASE \/ \E routine \in Named : ParseKeyword(routine) \/ NameMissing(routine)
           \/ ParseIdentifier \/ ParseType
  BY <1>4, NameSteps
<1>5. CASE \/ FunctionNamed \/ ParameterNamed \/ ParameterTyped \/ NextParameter
           \/ FunctionClosed \/ FunctionTyped \/ EndFunction
  BY <1>5, FunctionSteps
<1>6. CASE StructNamed \/ NextField \/ FieldNamed \/ FieldTyped \/ EndStruct
  BY <1>6, StructSteps
<1>7. CASE \E kind \in {"Class", "Trait"} :
             BodyNamed(kind) \/ NextMember(kind) \/ MemberParsed(kind)
  BY <1>7, BodySteps
<1>8. CASE EnumNamed \/ NextVariant \/ VariantParsed
  BY <1>8, EnumSteps
<1>9. CASE ModuleNamed \/ EndModule \/ ParsePackage \/ EndPackage
  BY <1>9, ModuleSteps
<1>10. CASE ParseImport \/ ParseSegment \/ EndImport
  BY <1>10, ImportSteps
<1>11. QED
  BY <1>1, <1>2, <1>3, <1>4, <1>5, <1>6, <1>7, <1>8, <1>9, <1>10

(* ParseStatement and ParseBlock. *)
LEMMA BlockSteps ==
  ASSUME IInv, ParseStatement \/ ParseBlock \/ NextStatement \/ StatementParsed
  PROVE  IInv'
<1>1. Running /\ frame.routine \in {"Statement", "Block"}
  BY DEF ParseStatement, ParseBlock, NextStatement, StatementParsed, At
<1>2. /\ GoodParts(frame.parts, Len(nodes)) /\ frame.parts \in Seq(Nat)
      /\ GoodParts(Held, Len(nodes)) /\ Held \in Seq(Nat)
      /\ GoodParts(<<>>, Len(nodes)) /\ <<>> \in Seq(Nat) /\ 0 \in 0..Len(nodes)
  BY <1>1, PartsFacts, HeldFacts, NoParts DEF IInv, NodesInv
<1>3. \A point \in {"statements", "statement"}, parts \in Seq(Nat) :
        Ready(frame.routine, point, parts)
  BY <1>1, ReadyFree DEF PartsNeeded, Trusting
<1>4. "statements" \in Points \ {"start"} /\ "statement" \in Points \ {"start"}
      /\ "Statement" \in Routines \ Taking /\ "Block" \in Kinds
  BY DEF Points, Routines, Taking, Named, Kinds, Statements
<1>5. ASSUME ParseStatement PROVE IInv'
  <2>1. \E routine \in {"Variable", "Return", "If", "While", "For", "Block", "MatchStatement",
                        "ExpressionStatement"} :
          /\ routine \in {"Variable", "Return", "If", "While", "For"} => Peek(context) # "eof"
          /\ Become(routine, context)
    <3> DEFINE routine ==
          CASE Peek(context) = "let" -> "Variable"
            [] Peek(context) = "return" -> "Return"
            [] Peek(context) = "if" -> "If"
            [] Peek(context) = "while" -> "While"
            [] Peek(context) = "for" -> "For"
            [] Peek(context) = "{" -> "Block"
            [] Peek(context) = "match" -> "MatchStatement"
            [] OTHER -> "ExpressionStatement"
    <3>1. \/ Peek(context) = "let" /\ routine = "Variable"
          \/ Peek(context) = "return" /\ routine = "Return"
          \/ Peek(context) = "if" /\ routine = "If"
          \/ Peek(context) = "while" /\ routine = "While"
          \/ Peek(context) = "for" /\ routine = "For"
          \/ routine = "Block" \/ routine = "MatchStatement" \/ routine = "ExpressionStatement"
      BY Zenon
    <3>2. Become(routine, context)
      BY <1>5 DEF ParseStatement
    <3> HIDE DEF routine
    <3>3. routine \in {"Variable", "Return", "If", "While", "For"} => Peek(context) # "eof"
      BY <3>1
    <3>4. QED
      BY <3>1, <3>2, <3>3
  <2>2. QED
    BY <1>1, <2>1, CursorFacts, BecomeKeeps DEF Routines, Taking, Named, Trusting
<1>6. ASSUME ParseBlock PROVE IInv'
  <2>1. \/ Peek(context) = "{" /\ Continue("statements", Consumed(context), <<>>)
        \/ Return(Recovered(Reported(context)), 0)
    BY <1>6 DEF ParseBlock
  <2>2. QED
    BY <1>1, <1>2, <1>3, <1>4, <2>1, CursorFacts, ContinueKeeps, ReturnKeeps
<1>7. ASSUME NextStatement PROVE IInv'
  <2>1. \/ ReturnClosed("}", "Block", StartSpan, frame.parts)
        \/ Invoke("Statement", "statement", context, frame.parts)
    BY <1>7 DEF NextStatement
  <2>2. QED
    BY <1>1, <1>2, <1>3, <1>4, <2>1, CursorFacts, InvokeKeeps, ReturnClosedKeeps
<1>8. ASSUME StatementParsed PROVE IInv'
  <2>1. \/ Continue("statements", SynchronizedStatement(context), frame.parts)
        \/ Continue("statements", context, frame.parts)
        \/ Continue("statements", context, Held)
    BY <1>8 DEF StatementParsed
  <2>2. QED
    BY <1>1, <1>2, <1>3, <1>4, <2>1, CursorFacts, ContinueKeeps
<1>9. QED
  BY <1>5, <1>6, <1>7, <1>8

(* If and while. *)
LEMMA ConditionSteps ==
  ASSUME IInv, \/ \E routine \in {"If", "While"} :
                    ParseCondition(routine) \/ ConditionParsed(routine)
               \/ ThenParsed \/ EndIf \/ EndWhile
  PROVE  IInv'
<1>1. Running /\ frame.routine \in {"If", "While"}
  BY DEF ParseCondition, ConditionParsed, ThenParsed, EndIf, EndWhile, At
<1>2. /\ Len(frame.parts) \in Nat /\ GoodParts(<<>>, Len(nodes)) /\ <<>> \in Seq(Nat)
      /\ Ready(frame.routine, frame.point, frame.parts)
      /\ GoodParts(Held, Len(nodes)) /\ Held \in Seq(Nat) /\ Len(Held) = Len(frame.parts) + 1
      /\ \A k \in 1..Len(Held) : Held[k] \in 0..Len(nodes)
  BY <1>1, PartsFacts, HeldFacts, NoParts
<1>3. Ready(frame.routine, "condition", <<>>)
  BY <1>1, <1>2, ReadyFree DEF PartsNeeded, Trusting
<1>4. Len(Held) >= 1 /\ Held[1] \in 0..Len(nodes)
  BY <1>2
<1>5. Ready(frame.routine, "body", Held)
  BY <1>1, <1>4 DEF Ready, PartsNeeded, Trusting
<1>6. \A point \in {"condition", "body", "else"} : point \in Points /\ point # "start"
  BY DEF Points
<1>7. /\ {"Assignment", "Statement"} \subseteq Routines \ Taking
      /\ {"If", "While"} \subseteq Taking \intersect Kinds
  BY DEF Routines, Taking, Named, Kinds, Statements
<1>8. ASSUME NEW routine \in {"If", "While"}, ParseCondition(routine) PROVE IInv'
  <2>1. Invoke("Assignment", "condition", Consumed(context), <<>>) /\ frame.point = "start"
    BY <1>8 DEF ParseCondition, At
  <2>2. Follows(Consumed(context), context)
    BY <1>1, <1>7, <2>1, CursorFacts DEF IInv, CallsInv
  <2>3. QED
    BY <1>1, <1>2, <1>3, <1>6, <1>7, <2>1, <2>2, InvokeKeeps
<1>9. ASSUME NEW routine \in {"If", "While"}, ConditionParsed(routine) PROVE IInv'
  <2>1. Invoke("Statement", "body", context, Held)
    BY <1>9 DEF ConditionParsed
  <2>2. QED
    BY <1>1, <1>2, <1>5, <1>6, <1>7, <2>1, CursorFacts, InvokeKeeps
<1>10. ASSUME ThenParsed PROVE IInv'
  <2>1. \/ Peek(context) = "else" /\ Invoke("Statement", "else", Consumed(context), Held)
        \/ Continue("else", context, Held)
    BY <1>10 DEF ThenParsed
  <2>2. Len(frame.parts) >= 1
    BY <1>2, <1>10 DEF ThenParsed, At, Ready, PartsNeeded
  <2>3. Ready(frame.routine, "else", Held)
    <3>1. frame.routine = "If" /\ Len(Held) >= 2
      BY <1>2, <1>10, <2>2 DEF ThenParsed, At
    <3>2. QED
      BY <3>1 DEF Ready, PartsNeeded, Trusting
  <2>4. QED
    BY <1>1, <1>2, <1>6, <1>7, <2>1, <2>3, CursorFacts, ContinueKeeps, InvokeKeeps
<1>11. ASSUME EndIf PROVE IInv'
  <2> DEFINE first == Extended(StartSpan, Held[1])
             second == Extended(first, Held[2])
             third == Extended(second, Held[3])
  <2>1. ReturnNode(context, "If", third, Held)
    BY <1>11 DEF EndIf
  <2>2. Len(frame.parts) >= 2
    BY <1>2, <1>11 DEF EndIf, At, Ready, PartsNeeded
  <2>3. Held[2] \in 0..Len(nodes) /\ Held[3] \in 0..Len(nodes)
    BY <1>2, <2>2
  <2>4. GoodSpan(first)
    BY <1>1, <1>4, CursorFacts, PartGood
  <2> HIDE DEF first
  <2>5. GoodSpan(second)
    BY <2>3, <2>4, PartGood
  <2> HIDE DEF second
  <2>6. GoodSpan(third)
    BY <2>3, <2>5, PartGood
  <2> HIDE DEF third
  <2>7. QED
    BY <1>1, <1>2, <1>7, <2>1, <2>6, CursorFacts, ReturnNodeKeeps
<1>12. ASSUME EndWhile PROVE IInv'
  <2> DEFINE first == Extended(StartSpan, Held[1])
             second == Extended(first, Held[2])
  <2>1. ReturnNode(context, "While", second, Held)
    BY <1>12 DEF EndWhile
  <2>2. Len(frame.parts) >= 1
    BY <1>2, <1>12 DEF EndWhile, At, Ready, PartsNeeded
  <2>3. Held[2] \in 0..Len(nodes)
    BY <1>2, <2>2
  <2>4. GoodSpan(first)
    BY <1>1, <1>4, CursorFacts, PartGood
  <2> HIDE DEF first
  <2>5. GoodSpan(second)
    BY <2>3, <2>4, PartGood
  <2> HIDE DEF second
  <2>6. QED
    BY <1>1, <1>2, <1>7, <2>1, <2>5, CursorFacts, ReturnNodeKeeps
<1>13. QED
  BY <1>8, <1>9, <1>10, <1>11, <1>12

(* The statements that keep all their parts, null or not. *)
LEMMA SimpleStatementSteps ==
  ASSUME IInv, \/ ParseFor \/ IteratorParsed \/ IterableParsed \/ EndFor
               \/ ParseReturn \/ EndReturn
               \/ ParseVariable \/ VariableNamed \/ VariableTyped \/ EndVariable
  PROVE  IInv'
<1> DEFINE points == {"iterator", "iterable", "body", "value", "name", "type", "initializer"}
<1>1. Running /\ frame.routine \in {"For", "Return", "Variable"}
  BY DEF ParseFor, IteratorParsed, IterableParsed, EndFor, ParseReturn, EndReturn,
         ParseVariable, VariableNamed, VariableTyped, EndVariable, At
<1>2. /\ GoodParts(Held, Len(nodes)) /\ Held \in Seq(Nat)
      /\ GoodParts(<<>>, Len(nodes)) /\ <<>> \in Seq(Nat)
      /\ returned \in 0..Len(nodes) /\ 0 \in 0..Len(nodes)
  BY <1>1, HeldFacts, NoParts DEF IInv, NodesInv
<1>3. \A point \in points, parts \in Seq(Nat) : Ready(frame.routine, point, parts)
  BY <1>1, ReadyFree DEF PartsNeeded, Trusting
<1>4. \A point \in points : point \in Points /\ point # "start"
  BY DEF Points
<1>5. /\ {"Identifier", "Assignment", "Statement", "Type"} \subseteq Routines \ Taking
      /\ {"For", "Return", "Variable"} \subseteq Taking \intersect Kinds
  BY DEF Routines, Taking, Named, Kinds, Statements
<1>6. frame.point = "start" => Follows(Consumed(context), context)
  BY <1>1, <1>5, CursorFacts DEF IInv, CallsInv
<1>7. ASSUME ParseFor PROVE IInv'
  <2>1. Invoke("Identifier", "iterator", Consumed(context), <<>>) /\ frame.point = "start"
    BY <1>7 DEF ParseFor, At
  <2>2. QED
    BY <1>1, <1>2, <1>3, <1>4, <1>5, <1>6, <2>1, InvokeKeeps
<1>8. ASSUME IteratorParsed PROVE IInv'
  <2>1. Invoke("Assignment", "iterable", ExpectedOrRecovered(context, "in"), Held)
    BY <1>8 DEF IteratorParsed
  <2>2. Follows(ExpectedOrRecovered(context, "in"), context)
    BY CallFacts
  <2>3. QED
    BY <1>1, <1>2, <1>3, <1>4, <1>5, <2>1, <2>2, InvokeKeeps
<1>9. ASSUME IterableParsed PROVE IInv'
  <2>1. Invoke("Statement", "body", context, Held)
    BY <1>9 DEF IterableParsed
  <2>2. QED
    BY <1>1, <1>2, <1>3, <1>4, <1>5, <2>1, CursorFacts, InvokeKeeps
<1>10. ASSUME EndFor PROVE IInv'
  <2>1. ReturnNode(context, "For", Extended(StartSpan, returned), Held)
    BY <1>10 DEF EndFor
  <2>2. GoodSpan(Extended(StartSpan, returned))
    BY <1>1, <1>2, CursorFacts, PartGood
  <2>3. QED
    BY <1>1, <1>2, <1>5, <2>1, <2>2, CursorFacts, ReturnNodeKeeps
<1>11. ASSUME ParseReturn PROVE IInv'
  <2>1. \/ Continue("value", Consumed(context), <<>>)
        \/ Invoke("Assignment", "value", Consumed(context), <<>>)
    BY <1>11 DEF ParseReturn
  <2>2. frame.point = "start"
    BY <1>11 DEF ParseReturn, At
  <2>3. QED
    BY <1>1, <1>2, <1>3, <1>4, <1>5, <1>6, <2>1, <2>2, ContinueKeeps, InvokeKeeps
<1>12. ASSUME EndReturn PROVE IInv'
  <2>1. ReturnClosed(";", "Return", StartSpan, Held)
    BY <1>12 DEF EndReturn
  <2>2. QED
    BY <1>1, <1>2, <1>5, <2>1, CursorFacts, ReturnClosedKeeps
<1>13. ASSUME ParseVariable PROVE IInv'
  <2>1. /\ Invoke("Identifier", "name", Matched(Consumed(context), "mut"), <<>>)
        /\ frame.routine = "Variable" /\ frame.point = "start"
    BY <1>13 DEF ParseVariable, At
  <2>2. Peek(context) # "eof"
    BY <1>1, <1>5, <2>1 DEF IInv, CallsInv
  <2>3. Follows(Matched(Consumed(context), "mut"), context)
    BY <2>2, TwiceFollows DEF IInv
  <2>4. QED
    BY <1>1, <1>2, <1>3, <1>4, <1>5, <2>1, <2>3, InvokeKeeps
<1>14. ASSUME VariableNamed PROVE IInv'
  <2>1. \/ Return(context, 0)
        \/ Peek(context) = ":" /\ Invoke("Type", "type", Consumed(context), Held)
        \/ Continue("type", context, Held)
    BY <1>14, Zenon DEF VariableNamed
  <2>2. QED
    BY <1>1, <1>2, <1>3, <1>4, <1>5, <2>1, CursorFacts, ContinueKeeps, InvokeKeeps, ReturnKeeps
<1>15. ASSUME VariableTyped PROVE IInv'
  <2>1. \/ /\ Peek(context) = "="
           /\ Invoke("Assignment", "initializer", Consumed(context), Held)
        \/ Continue("initializer", context, Held)
    BY <1>15 DEF VariableTyped
  <2>2. QED
    BY <1>1, <1>2, <1>3, <1>4, <1>5, <2>1, CursorFacts, ContinueKeeps, InvokeKeeps
<1>16. ASSUME EndVariable PROVE IInv'
  <2>1. ReturnClosed(";", "Variable", StartSpan, Held)
    BY <1>16 DEF EndVariable
  <2>2. QED
    BY <1>1, <1>2, <1>5, <2>1, CursorFacts, ReturnClosedKeeps
<1>17. QED
  BY <1>7, <1>8, <1>9, <1>10, <1>11, <1>12, <1>13, <1>14, <1>15, <1>16

(* A match and an expression where a statement is asked for. *)
LEMMA ExpressionStatementSteps ==
  ASSUME IInv, \/ ParseMatchStatement \/ EndMatchStatement
               \/ ParseExpressionStatement \/ EndExpressionStatement
  PROVE  IInv'
<1>1. Running /\ frame.routine \in {"MatchStatement", "ExpressionStatement"}
  BY DEF ParseMatchStatement, EndMatchStatement, ParseExpressionStatement,
         EndExpressionStatement, At
<1>2. /\ GoodParts(Held, Len(nodes)) /\ Held \in Seq(Nat)
      /\ GoodParts(<<>>, Len(nodes)) /\ <<>> \in Seq(Nat)
      /\ returned \in 0..Len(nodes) /\ Len(nodes) \in 0..Len(nodes)
  BY <1>1, HeldFacts, FrameFacts, NoParts DEF IInv, NodesInv
<1>3. Ready(frame.routine, "expression", <<>>)
  BY <1>1, <1>2, ReadyFree DEF PartsNeeded, Trusting
<1>4. /\ "expression" \in Points \ {"start"} /\ "Assignment" \in Routines \ Taking
      /\ "ExpressionStatement" \in Kinds
  BY DEF Points, Routines, Taking, Named, Kinds, Statements
<1>5. ASSUME ParseMatchStatement \/ ParseExpressionStatement PROVE IInv'
  <2>1. Invoke("Assignment", "expression", context, <<>>)
    BY <1>5 DEF ParseMatchStatement, ParseExpressionStatement
  <2>2. QED
    BY <1>1, <1>2, <1>3, <1>4, <2>1, CursorFacts, InvokeKeeps
<1>6. ASSUME EndMatchStatement PROVE IInv'
  <2>1. ReturnNode(context, "ExpressionStatement", SpanOf(returned, StartSpan), Held)
    BY <1>6 DEF EndMatchStatement
  <2>2. GoodSpan(SpanOf(returned, StartSpan))
    BY <1>1, <1>2, CursorFacts, PartGood
  <2>3. QED
    BY <1>1, <1>2, <1>4, <2>1, <2>2, CursorFacts, ReturnNodeKeeps
<1>7. ASSUME EndExpressionStatement PROVE IInv'
  <2> DEFINE c == ExpectedOrRecovered(context, ";")
             token == TokenSpan(context.position)
             span == IF returned # 0 /\ Peek(context) = ";"
                       THEN ExtendSpan(nodes[returned].span, token)
                       ELSE SpanOf(returned, token)
  <2>1. Return(c, Len(nodes)) \/ ReturnNode(c, "ExpressionStatement", span, Held)
    BY <1>7, Zenon DEF EndExpressionStatement
  <2>2. Follows(c, context) /\ GoodSpan(token)
    BY CallFacts, CursorFacts
  <2> HIDE DEF c, token
  <2>3. GoodSpan(span)
    BY <1>2, <2>2, PartGood, ExtendGood
  <2> HIDE DEF span
  <2>4. QED
    BY <1>1, <1>2, <1>4, <2>1, <2>2, <2>3, ReturnKeeps, ReturnNodeKeeps
<1>8. QED
  BY <1>5, <1>6, <1>7

(* All the steps of the statement parser. *)
LEMMA StatementSteps ==
  ASSUME IInv, StatementStep
  PROVE  IInv'
<1>1. \/ ParseStatement \/ ParseBlock \/ NextStatement \/ StatementParsed
      \/ \E routine \in {"If", "While"} : ParseCondition(routine) \/ ConditionParsed(routine)
      \/ ThenParsed \/ EndIf \/ EndWhile
      \/ ParseFor \/ IteratorParsed \/ IterableParsed \/ EndFor
      \/ ParseReturn \/ EndReturn
      \/ ParseVariable \/ VariableNamed \/ VariableTyped \/ EndVariable
      \/ ParseMatchStatement \/ EndMatchStatement
      \/ ParseExpressionStatement \/ EndExpressionStatement
  BY Zenon DEF StatementStep
<1>2. CASE ParseStatement \/ ParseBlock \/ NextStatement \/ StatementParsed
  BY <1>2, BlockSteps
<1>3. CASE \/ \E routine \in {"If", "While"} :
                ParseCondition(routine) \/ ConditionParsed(routine)
           \/ ThenParsed \/ EndIf \/ EndWhile
  BY <1>3, ConditionSteps
<1>4. CASE \/ ParseFor \/ IteratorParsed \/ IterableParsed \/ EndFor
           \/ ParseReturn \/ EndReturn
           \/ ParseVariable \/ VariableNamed \/ VariableTyped \/ EndVariable
  BY <1>4, SimpleStatementSteps
<1>5. CASE \/ ParseMatchStatement \/ EndMatchStatement
           \/ ParseExpressionStatement \/ EndExpressionStatement
  BY <1>5, ExpressionStatementSteps
<1>6. QED
  BY <1>1, <1>2, <1>3, <1>4, <1>5

(* The node a step makes, as the only part. *)
LEMMA OnlyFresh ==
  ASSUME IInv
  PROVE  /\ GoodParts(<<Fresh>>, Len(nodes) + 1) /\ <<Fresh>> \in Seq(Nat)
         /\ Len(<<Fresh>>) = 1 /\ 0 \notin Indices(<<Fresh>>)
<1> DEFINE m == Len(nodes) + 1
<1>1. m \in Nat /\ m \in 1..m /\ Fresh = m
  BY DEF IInv, NodesInv, Fresh
<1> HIDE DEF m
<1>2. GoodParts(<<m>>, m) /\ Len(<<m>>) = 1 /\ 0 \notin Indices(<<m>>)
  BY <1>1, OnePart
<1>3. QED
  BY <1>1, <1>2 DEF GoodParts, m

(* What is known of the parts of a function that trusts them. *)
LEMMA TrustedFacts ==
  ASSUME IInv, Running, frame.routine \in {"Assignment", "Binary", "Primary"},
         frame.point # "body"
  PROVE  /\ GoodParts(frame.parts, Len(nodes)) /\ frame.parts \in Seq(Nat)
         /\ GoodParts(Held, Len(nodes)) /\ Held \in Seq(Nat)
         /\ Len(Held) = Len(frame.parts) + 1 /\ Len(frame.parts) \in Nat
         /\ 0 \notin Indices(frame.parts)
         /\ returned # 0 => 0 \notin Indices(Held)
         /\ returned \in 0..Len(nodes) /\ 0 \in 0..Len(nodes)
         /\ PartsNeeded(frame.routine, frame.point) = 1 =>
              /\ Len(frame.parts) >= 1
              /\ frame.parts[1] \in 0..Len(nodes) /\ GoodSpan(nodes[frame.parts[1]].span)
              /\ Last(frame.parts) \in 0..Len(nodes) /\ GoodSpan(nodes[Last(frame.parts)].span)
         /\ returned # 0 => GoodSpan(nodes[returned].span)
<1>1. /\ GoodParts(frame.parts, Len(nodes)) /\ frame.parts \in Seq(Nat)
      /\ Len(frame.parts) \in Nat /\ Len(nodes) \in Nat
      /\ Ready(frame.routine, frame.point, frame.parts)
      /\ 0 \notin Indices(frame.parts)
           => \A k \in 1..Len(frame.parts) : frame.parts[k] \in 1..Len(nodes)
  BY PartsFacts, FrameFacts
<1>2. 0 \notin Indices(frame.parts)
  BY <1>1 DEF Ready, Trusting
<1>3. /\ GoodParts(Held, Len(nodes)) /\ Held \in Seq(Nat) /\ Len(Held) = Len(frame.parts) + 1
      /\ returned # 0 => 0 \notin Indices(Held)
      /\ returned \in 0..Len(nodes)
  BY <1>2, HeldFacts
<1>4. ASSUME PartsNeeded(frame.routine, frame.point) = 1
      PROVE  /\ Len(frame.parts) >= 1
             /\ frame.parts[1] \in 1..Len(nodes) /\ Last(frame.parts) \in 1..Len(nodes)
  <2>1. Len(frame.parts) >= 1
    BY <1>1, <1>4 DEF Ready
  <2>2. 1 \in 1..Len(frame.parts) /\ Len(frame.parts) \in 1..Len(frame.parts)
    BY <1>1, <2>1
  <2>3. QED
    BY <1>1, <1>2, <2>1, <2>2 DEF Last
<1>5. \A i \in 1..Len(nodes) : i \in 0..Len(nodes) /\ GoodSpan(nodes[i].span)
  BY <1>1, NodeFacts
<1>6. returned # 0 => GoodSpan(nodes[returned].span)
  <2>1. returned # 0 => returned \in 1..Len(nodes)
    BY <1>1, <1>3
  <2>2. QED
    BY <1>5, <2>1
<1>7. 0 \in 0..Len(nodes)
  BY <1>1
<1>8. QED
  BY <1>1, <1>2, <1>3, <1>4, <1>5, <1>6, <1>7

(* ParseAssignment. *)
LEMMA AssignmentSteps ==
  ASSUME IInv, ParseAssignment \/ LeftParsed \/ EndAssignment
  PROVE  IInv'
<1>1. Running /\ frame.routine = "Assignment" /\ frame.point \in {"start", "left", "value"}
  BY DEF ParseAssignment, LeftParsed, EndAssignment, At
<1>2. /\ GoodParts(Held, Len(nodes)) /\ Held \in Seq(Nat)
      /\ Len(Held) = Len(frame.parts) + 1 /\ Len(frame.parts) \in Nat
      /\ returned # 0 => 0 \notin Indices(Held)
      /\ returned \in 0..Len(nodes) /\ 0 \in 0..Len(nodes)
      /\ returned # 0 => GoodSpan(nodes[returned].span)
  BY <1>1, TrustedFacts
<1>3. /\ {"left", "value"} \subseteq Points \ {"start"}
      /\ "Assignment" \in Routines \ Taking /\ "Binary" \in Routines \ Taking
      /\ "Assignment" \in Kinds
  BY DEF Points, Routines, Taking, Named, Kinds, Expressions
<1>4. ASSUME ParseAssignment PROVE IInv'
  <2> DEFINE callee == BinaryFrame(context, LogicalOr)
  <2>1. InvokeFrame(callee, "left", context, <<>>)
    BY <1>4 DEF ParseAssignment
  <2>2. /\ callee \in FrameRecord /\ GoodFrame(callee, Len(nodes), context.position)
        /\ callee.routine = "Binary"
    BY <1>1, <1>3, FreshFrame, FrameFacts DEF BinaryFrame, LogicalOr, IInv
  <2>3. Ready(frame.routine, "left", <<>>)
    BY <1>1, NoParts, ReadyFree DEF PartsNeeded
  <2> HIDE DEF callee
  <2>4. QED
    BY <1>1, <1>3, <2>1, <2>2, <2>3, NoParts, CursorFacts, InvokeFrameKeeps
<1>5. ASSUME LeftParsed PROVE IInv'
  <2>1. \/ /\ returned # 0 /\ Peek(context) # "eof"
           /\ Invoke("Assignment", "value", Consumed(context), Held)
        \/ Return(context, returned)
    BY <1>5 DEF LeftParsed, AssignmentOperators
  <2>2. returned # 0 => Ready(frame.routine, "value", Held)
    BY <1>1, <1>2 DEF Ready, PartsNeeded
  <2>3. QED
    BY <1>1, <1>2, <1>3, <2>1, <2>2, CursorFacts, InvokeKeeps, ReturnKeeps
<1>6. ASSUME EndAssignment PROVE IInv'
  <2> DEFINE span == ExtendSpan(nodes[frame.parts[1]].span, nodes[returned].span)
  <2>1. \/ Return(context, Last(frame.parts))
        \/ returned # 0 /\ ReturnNode(context, "Assignment", span, Held)
    BY <1>6 DEF EndAssignment
  <2>2. PartsNeeded(frame.routine, frame.point) = 1
    BY <1>6 DEF EndAssignment, At, PartsNeeded
  <2>3. Last(frame.parts) \in 0..Len(nodes) /\ GoodSpan(nodes[frame.parts[1]].span)
    BY <1>1, <2>2, TrustedFacts
  <2>4. returned # 0 => GoodSpan(span)
    BY <1>2, <2>3, ExtendGood
  <2> HIDE DEF span
  <2>5. QED
    BY <1>1, <1>2, <1>3, <2>1, <2>3, <2>4, CursorFacts, ReturnKeeps, ReturnNodeKeeps
<1>7. QED
  BY <1>4, <1>5, <1>6

(* Every binary operator has a precedence, and the end of file is none. *)
LEMMA OperatorFacts ==
  ASSUME NEW type \in BinaryOperators
  PROVE  type # "eof" /\ Precedence[type] + 1 \in Nat
<1>1. type \in {"||", "&&", "==", "<", "+", "-", "*"}
  BY DEF BinaryOperators, Precedence
<1>2. Precedence[type] \in {2, 3, 4, 5, 6, 7}
  BY <1>1 DEF Precedence
<1>3. QED
  BY <1>1, <1>2

(* ParseBinary. *)
LEMMA BinarySteps ==
  ASSUME IInv, ParseBinary \/ OperandParsed \/ ParseOperator \/ RightParsed
  PROVE  IInv'
<1>1. Running /\ frame.routine = "Binary"
      /\ frame.point \in {"start", "operand", "operator", "right"}
  BY DEF ParseBinary, OperandParsed, ParseOperator, RightParsed, At
<1>2. /\ GoodParts(frame.parts, Len(nodes)) /\ frame.parts \in Seq(Nat)
      /\ GoodParts(Held, Len(nodes)) /\ Held \in Seq(Nat)
      /\ Len(Held) = Len(frame.parts) + 1 /\ Len(frame.parts) \in Nat
      /\ 0 \notin Indices(frame.parts)
      /\ returned # 0 => 0 \notin Indices(Held)
      /\ returned \in 0..Len(nodes) /\ 0 \in 0..Len(nodes)
      /\ returned # 0 => GoodSpan(nodes[returned].span)
  BY <1>1, TrustedFacts
<1>3. /\ {"operand", "operator", "right"} \subseteq Points \ {"start"}
      /\ "Unary" \in Routines \ Taking /\ "Binary" \in Routines \ Taking
      /\ "Binary" \in Kinds
  BY DEF Points, Routines, Taking, Named, Kinds, Expressions
<1>4. frame.point \in {"operator", "right"} =>
        /\ Last(frame.parts) \in 0..Len(nodes) /\ GoodSpan(nodes[frame.parts[1]].span)
        /\ Len(frame.parts) >= 1
  <2>1. frame.point \in {"operator", "right"} => PartsNeeded(frame.routine, frame.point) = 1
    BY <1>1 DEF PartsNeeded
  <2>2. QED
    BY <1>1, <2>1, TrustedFacts
<1>5. ASSUME ParseBinary PROVE IInv'
  <2>1. Invoke("Unary", "operand", context, <<>>)
    BY <1>5 DEF ParseBinary
  <2>2. Ready(frame.routine, "operand", <<>>)
    BY <1>1, NoParts, ReadyFree DEF PartsNeeded
  <2>3. QED
    BY <1>1, <1>3, <2>1, <2>2, NoParts, CursorFacts, InvokeKeeps
<1>6. ASSUME OperandParsed PROVE IInv'
  <2>1. Return(context, 0) \/ (returned # 0 /\ Continue("operator", context, Held))
    BY <1>6 DEF OperandParsed
  <2>2. returned # 0 => Ready(frame.routine, "operator", Held)
    BY <1>1, <1>2 DEF Ready, PartsNeeded
  <2>3. QED
    BY <1>1, <1>2, <1>3, <2>1, <2>2, CursorFacts, ContinueKeeps, ReturnKeeps
<1>7. ASSUME ParseOperator PROVE IInv'
  <2> DEFINE c == Consumed(context)
             least == Precedence[Peek(context)] + 1
             callee == BinaryFrame(c, least)
  <2>1. \/ /\ Peek(context) \in BinaryOperators
           /\ InvokeFrame(callee, "right", c, frame.parts)
        \/ Return(context, Last(frame.parts))
    BY <1>7 DEF ParseOperator
  <2>2. frame.point = "operator"
    BY <1>7 DEF ParseOperator, At
  <2>3. CASE Return(context, Last(frame.parts))
    BY <1>1, <1>4, <2>2, <2>3, CursorFacts, ReturnKeeps
  <2>4. CASE Peek(context) \in BinaryOperators /\ InvokeFrame(callee, "right", c, frame.parts)
    <3>1. Peek(context) # "eof" /\ least \in Nat
      BY <2>4, OperatorFacts
    <3>2. Follows(c, context) /\ GoodContext(c)
      BY <3>1, CursorFacts DEF Follows
    <3> HIDE DEF least, c
    <3>3. /\ callee \in FrameRecord /\ GoodFrame(callee, Len(nodes), c.position)
          /\ callee.routine = "Binary"
      BY <1>1, <1>3, <3>1, <3>2, FreshFrame, FrameFacts DEF BinaryFrame
    <3>4. Ready(frame.routine, "right", frame.parts)
      BY <1>1, <1>2, <1>4, <2>2 DEF Ready, PartsNeeded
    <3> HIDE DEF callee
    <3>5. QED
      BY <1>1, <1>2, <1>3, <2>4, <3>2, <3>3, <3>4, InvokeFrameKeeps
  <2>5. QED
    BY <2>1, <2>3, <2>4
<1>8. ASSUME RightParsed PROVE IInv'
  <2> DEFINE span == ExtendSpan(nodes[frame.parts[1]].span, nodes[returned].span)
             node == NewNode(context, "Binary", span, Held)
  <2>1. \/ Return(context, Last(frame.parts))
        \/ returned # 0 /\ ContinueWith("operator", context, node, <<Fresh>>)
    BY <1>8 DEF RightParsed
  <2>2. frame.point = "right"
    BY <1>8 DEF RightParsed, At
  <2>3. returned # 0 => GoodSpan(span)
    BY <1>2, <1>4, <2>2, ExtendGood
  <2> HIDE DEF span
  <2>4. returned # 0 => GoodNode(node)
    BY <1>1, <1>2, <1>3, <2>3, CursorFacts, NewNodeGood
  <2> HIDE DEF node
  <2>5. Ready(frame.routine, "operator", <<Fresh>>)
    BY <1>1, OnlyFresh DEF Ready, PartsNeeded
  <2>6. QED
    BY <1>1, <1>2, <1>3, <1>4, <2>1, <2>2, <2>4, <2>5, OnlyFresh, CursorFacts,
       ContinueWithKeeps, ReturnKeeps
<1>9. QED
  BY <1>5, <1>6, <1>7, <1>8

(* ParseUnary. *)
LEMMA UnarySteps ==
  ASSUME IInv, ParseUnary \/ EndPrefix \/ EndPostfix
  PROVE  IInv'
<1>1. Running /\ frame.routine = "Unary"
  BY DEF ParseUnary, EndPrefix, EndPostfix, At
<1>2. /\ GoodParts(Held, Len(nodes)) /\ returned \in 0..Len(nodes) /\ 0 \in 0..Len(nodes)
      /\ returned # 0 => GoodSpan(nodes[returned].span)
  BY <1>1, HeldFacts, PartGood, CursorFacts DEF IInv, NodesInv
<1>3. /\ {"operand", "primary"} \subseteq Points \ {"start"} /\ "Unary" \in Kinds
      /\ "Unary" \in Routines \ Taking /\ "Primary" \in Routines \ Taking
  BY DEF Points, Routines, Taking, Named, Kinds, Expressions
<1>4. \A point \in {"operand", "primary"} : Ready(frame.routine, point, <<>>)
  BY <1>1, NoParts, ReadyFree DEF PartsNeeded
<1>5. ASSUME ParseUnary PROVE IInv'
  <2>1. \/ Peek(context) # "eof" /\ Invoke("Unary", "operand", Consumed(context), <<>>)
        \/ Invoke("Primary", "primary", context, <<>>)
    BY <1>5 DEF ParseUnary, PrefixOperators
  <2>2. QED
    BY <1>1, <1>3, <1>4, <2>1, NoParts, CursorFacts, InvokeKeeps
<1>6. ASSUME EndPrefix PROVE IInv'
  <2>1. \/ Return(context, 0)
        \/ ReturnNode(context, "Unary", Extended(StartSpan, returned), Held)
    BY <1>6 DEF EndPrefix
  <2>2. GoodSpan(Extended(StartSpan, returned))
    BY <1>1, <1>2, CursorFacts, PartGood
  <2>3. QED
    BY <1>1, <1>2, <1>3, <2>1, <2>2, CursorFacts, ReturnKeeps, ReturnNodeKeeps
<1>7. ASSUME EndPostfix PROVE IInv'
  <2> DEFINE span == ExtendSpan(nodes[returned].span, TokenSpan(context.position))
  <2>1. \/ /\ returned # 0 /\ Peek(context) # "eof"
           /\ ReturnNode(Consumed(context), "Unary", span, Held)
        \/ Return(context, returned)
    BY <1>7 DEF EndPostfix, PostfixOperators
  <2>2. returned # 0 => GoodSpan(span)
    BY <1>2, CursorFacts, ExtendGood
  <2> HIDE DEF span
  <2>3. QED
    BY <1>1, <1>2, <1>3, <2>1, <2>2, CursorFacts, ReturnKeeps, ReturnNodeKeeps
<1>8. QED
  BY <1>5, <1>6, <1>7

(* What the steps of ParsePrimary and ParsePostfix have in common. *)
LEMMA PrimaryFacts ==
  ASSUME IInv, Running, frame.routine = "Primary"
  PROVE  /\ \A point \in {"inner", "scrutinee"} : Ready(frame.routine, point, <<>>)
         /\ {"inner", "scrutinee", "postfix", "argument", "call"} \subseteq Points \ {"start"}
         /\ "Assignment" \in Routines \ Taking
         /\ {"IdentifierExpression", "LiteralExpression", "Parenthesized", "Match",
             "MemberAccess", "Call"} \subseteq Kinds
         /\ \A point \in {"postfix", "argument", "call"}, parts \in Seq(Nat) :
              Len(parts) >= 1 /\ 0 \notin Indices(parts) => Ready(frame.routine, point, parts)
<1>1. \A point \in {"inner", "scrutinee"} : Ready(frame.routine, point, <<>>)
  BY NoParts, ReadyFree DEF PartsNeeded
<1>2. \A point \in {"postfix", "argument", "call"} : PartsNeeded("Primary", point) = 1
  BY DEF PartsNeeded
<1>3. \A point \in {"postfix", "argument", "call"}, parts \in Seq(Nat) :
        Len(parts) >= 1 /\ 0 \notin Indices(parts) => Ready("Primary", point, parts)
  BY <1>2 DEF Ready
<1>4. QED
  BY <1>1, <1>3 DEF Points, Routines, Taking, Named, Kinds, Expressions

(* The node that a step makes is all that the postfix operators work on. *)
LEMMA PostfixNodeKeeps ==
  ASSUME IInv, Running, frame.routine = "Primary", NEW c, Follows(c, context),
         NEW kind \in Kinds, NEW span, GoodSpan(span), NEW parts, GoodParts(parts, Len(nodes)),
         ContinueWith("postfix", c, NewNode(c, kind, span, parts), <<Fresh>>)
  PROVE  IInv'
<1>1. GoodNode(NewNode(c, kind, span, parts))
  BY FrameFacts, NewNodeGood
<1>2. Ready(frame.routine, "postfix", <<Fresh>>) /\ "postfix" \in Points \ {"start"}
  <2> DEFINE only == <<Fresh>>
  <2>1. only \in Seq(Nat) /\ Len(only) >= 1 /\ 0 \notin Indices(only)
    BY OnlyFresh
  <2> HIDE DEF only
  <2>2. Ready(frame.routine, "postfix", only) /\ "postfix" \in Points \ {"start"}
    BY <2>1, PrimaryFacts
  <2>3. QED
    BY <2>2 DEF only
<1>3. QED
  BY <1>1, <1>2, OnlyFresh, ContinueWithKeeps

(* ParsePrimary. *)
LEMMA PrimarySteps ==
  ASSUME IInv, ParsePrimary \/ InnerParsed \/ EndMatch
  PROVE  IInv'
<1>1. Running /\ frame.routine = "Primary"
  BY DEF ParsePrimary, InnerParsed, EndMatch, At
<1>2. /\ GoodParts(Held, Len(nodes)) /\ returned \in 0..Len(nodes) /\ 0 \in 0..Len(nodes)
      /\ returned # 0 => GoodSpan(nodes[returned].span)
  BY <1>1, HeldFacts, PartGood, CursorFacts DEF IInv, NodesInv
<1>3. ASSUME ParsePrimary PROVE IInv'
  <2> DEFINE c == Consumed(context)
  <2>1. \/ Peek(context) = "literal" /\ ReturnNode(c, "LiteralExpression", StartSpan, <<>>)
        \/ /\ Peek(context) = "name"
           /\ ContinueWith("postfix", c, NewNode(c, "IdentifierExpression", StartSpan, <<>>),
                           <<Fresh>>)
        \/ Peek(context) = "(" /\ Invoke("Assignment", "inner", c, <<>>)
        \/ Peek(context) = "match" /\ Invoke("Assignment", "scrutinee", c, <<>>)
        \/ Return(Reported(context), 0)
    BY <1>3, Zenon DEF ParsePrimary
  <2>2. Peek(context) # "eof" => Follows(c, context)
    BY CursorFacts
  <2> HIDE DEF c
  <2>3. QED
    BY <1>1, <1>2, <2>1, <2>2, NoParts, CursorFacts, PrimaryFacts, PostfixNodeKeeps,
       InvokeKeeps, ReturnKeeps, ReturnNodeKeeps
<1>4. ASSUME InnerParsed PROVE IInv'
  <2> DEFINE c == ExpectedOrRecovered(context, ")")
  <2>1. \/ Return(c, 0)
        \/ /\ returned # 0
           /\ ContinueWith("postfix", c,
                           NewNode(c, "Parenthesized", nodes[returned].span, Held), <<Fresh>>)
    BY <1>4 DEF InnerParsed
  <2>2. Follows(c, context)
    BY CallFacts
  <2> HIDE DEF c
  <2>3. QED
    BY <1>1, <1>2, <2>1, <2>2, PrimaryFacts, PostfixNodeKeeps, ReturnKeeps
<1>5. ASSUME EndMatch PROVE IInv'
  <2>1. ReturnNode(context, "Match", SpanOf(returned, StartSpan), Held)
    BY <1>5 DEF EndMatch
  <2>2. GoodSpan(SpanOf(returned, StartSpan))
    BY <1>1, <1>2, CursorFacts, PartGood
  <2>3. QED
    BY <1>1, <1>2, <2>1, <2>2, PrimaryFacts, CursorFacts, ReturnNodeKeeps
<1>6. QED
  BY <1>3, <1>4, <1>5

(* ParsePostfix, with the arguments of a call. *)
LEMMA PostfixSteps ==
  ASSUME IInv, ParsePostfix \/ ArgumentParsed \/ EndCall
  PROVE  IInv'
<1>1. Running /\ frame.routine = "Primary" /\ frame.point \in {"postfix", "argument", "call"}
  BY DEF ParsePostfix, ArgumentParsed, EndCall, At
<1>2. PartsNeeded(frame.routine, frame.point) = 1
  BY <1>1 DEF PartsNeeded
<1>3. /\ GoodParts(frame.parts, Len(nodes)) /\ frame.parts \in Seq(Nat)
      /\ Len(frame.parts) \in Nat /\ Len(frame.parts) >= 1
      /\ 0 \notin Indices(frame.parts)
      /\ frame.parts[1] \in 0..Len(nodes) /\ GoodSpan(nodes[frame.parts[1]].span)
      /\ GoodSpan(nodes[Last(frame.parts)].span)
  BY <1>1, <1>2, TrustedFacts
<1>4. /\ GoodParts(Kept, Len(nodes)) /\ Kept \in Seq(Nat) /\ 0 \notin Indices(Kept)
      /\ Len(Kept) >= 1
  <2>1. /\ GoodParts(Kept, Len(nodes)) /\ Kept \in Seq(Nat) /\ 0 \notin Indices(Kept)
        /\ Len(Kept) >= Len(frame.parts)
    BY <1>1, <1>3, KeptFacts
  <2>2. Len(Kept) \in Nat
    BY <2>1
  <2>3. QED
    BY <1>3, <2>1, <2>2
<1>5. \A point \in {"argument", "call"} :
        Ready(frame.routine, point, frame.parts) /\ Ready(frame.routine, point, Kept)
  BY <1>1, <1>3, <1>4, PrimaryFacts
<1>6. ASSUME ParsePostfix PROVE IInv'
  <2> DEFINE c == Consumed(context)
             span == ExtendSpan(nodes[frame.parts[1]].span, TokenSpan(c.position))
  <2>1. \/ Peek(context) = "(" /\ Continue("call", c, frame.parts)
        \/ Peek(context) = "(" /\ Invoke("Assignment", "argument", c, frame.parts)
        \/ Peek(context) = "." /\ Return(Reported(c), frame.parts[1])
        \/ /\ Peek(context) = "." /\ Peek(c) = "name"
           /\ ContinueWith("postfix", Consumed(c),
                           NewNode(Consumed(c), "MemberAccess", span, frame.parts), <<Fresh>>)
        \/ Return(context, frame.parts[1])
    BY <1>6, Zenon DEF ParsePostfix
  <2>2. Peek(context) # "eof" => Follows(c, context) /\ GoodContext(c)
    BY CursorFacts DEF Follows
  <2>3. Peek(context) # "eof" =>
          /\ Follows(Reported(c), context)
          /\ Peek(c) = "name" => Follows(Consumed(c), context)
          /\ GoodSpan(TokenSpan(c.position))
    BY <2>2, ReportedFollows, ConsumedFollows, FollowsOn, CursorGood DEF IInv
  <2> HIDE DEF c
  <2>4. Peek(context) # "eof" => GoodSpan(span)
    BY <1>3, <2>3, ExtendGood
  <2> HIDE DEF span
  <2>5. QED
    BY <1>1, <1>3, <1>5, <2>1, <2>2, <2>3, <2>4, CursorFacts, PrimaryFacts, PostfixNodeKeeps,
       ContinueKeeps, InvokeKeeps, ReturnKeeps
<1>7. ASSUME ArgumentParsed PROVE IInv'
  <2>1. \/ Peek(context) = "," /\ Invoke("Assignment", "argument", Consumed(context), Kept)
        \/ Continue("call", context, Kept)
    BY <1>7 DEF ArgumentParsed
  <2>2. QED
    BY <1>1, <1>4, <1>5, <2>1, CursorFacts, PrimaryFacts, ContinueKeeps, InvokeKeeps
<1>8. ASSUME EndCall PROVE IInv'
  <2> DEFINE c == ExpectedOrRecovered(context, ")")
             span == ExtendSpan(nodes[frame.parts[1]].span, nodes[Last(frame.parts)].span)
  <2>1. ContinueWith("postfix", c, NewNode(c, "Call", span, frame.parts), <<Fresh>>)
    BY <1>8, Zenon DEF EndCall
  <2>2. Follows(c, context) /\ GoodSpan(span)
    BY <1>3, CallFacts, ExtendGood
  <2> HIDE DEF c, span
  <2>3. QED
    BY <1>1, <1>3, <2>1, <2>2, PrimaryFacts, PostfixNodeKeeps
<1>9. QED
  BY <1>6, <1>7, <1>8

(* All the steps of the expression parser. *)
LEMMA ExpressionSteps ==
  ASSUME IInv, ExpressionStep
  PROVE  IInv'
<1>1. \/ ParseAssignment \/ LeftParsed \/ EndAssignment
      \/ ParseBinary \/ OperandParsed \/ ParseOperator \/ RightParsed
      \/ ParseUnary \/ EndPrefix \/ EndPostfix
      \/ ParsePrimary \/ InnerParsed \/ EndMatch
      \/ ParsePostfix \/ ArgumentParsed \/ EndCall
  BY Zenon DEF ExpressionStep
<1>2. QED
  BY <1>1, AssignmentSteps, BinarySteps, UnarySteps, PrimarySteps, PostfixSteps

-----------------------------------------------------------------------------
(* The theorem. *)

(* The parser starts at the first token with nothing made. *)
LEMMA InitGood ==
  ASSUME Init
  PROVE  IInv
<1>1. StreamInv
  BY TokenStreamsAssumption, ConfigurationsAssumption DEF Init, StreamInv
<1>2. Len(text) \in Nat /\ Len(text) > 0
  BY <1>1 DEF StreamInv, TokenStream
<1>3. GoodContext(context)
  BY <1>2 DEF Init, FreshContext, GoodContext, ParserState
<1>4. NodesInv
  <2>1. nodes = <<>> /\ returned = 0
    BY DEF Init
  <2>2. QED
    BY <2>1 DEF NodesInv, Older
<1>5. CallsInv
  <2> DEFINE f == [Frame("Program", FreshContext) EXCEPT !.point = "declarations"]
  <2>1. calls = <<f>> /\ context = FreshContext /\ Len(nodes) \in Nat
    BY <1>4 DEF Init, NodesInv
  <2>2. Frame("Program", FreshContext) \in FrameRecord
    BY <1>3, <2>1, FreshFrame DEF Routines
  <2>3. /\ f \in FrameRecord /\ f.routine = "Program" /\ f.point = "declarations"
        /\ f.from = 0 /\ f.start = 0 /\ f.parts = <<>> /\ context.position = 0
    BY <2>1, <2>2 DEF FrameRecord, Frame, FreshContext, Points
  <2>4. Ready("Program", "declarations", <<>>) /\ Indices(<<>>) = {}
    <3>1. PartsNeeded("Program", "declarations") = 0
      BY DEF PartsNeeded
    <3>2. Indices(<<>>) = {}
      BY DEF Indices
    <3>3. QED
      BY <3>1, <3>2, NoParts, ReadyFree
  <2>5. GoodFrame(f, Len(nodes), context.position)
    BY <2>3, <2>4 DEF GoodFrame
  <2>6. f.point # "start"
    BY <2>3
  <2> HIDE DEF f
  <2>7. calls \in Seq(FrameRecord) /\ Len(calls) = 1 /\ calls[1] = f /\ Head(calls) = f
    BY <2>1, <2>3
  <2>8. QED
    BY <2>5, <2>6, <2>7 DEF CallsInv, frame
<1>6. QED
  BY <1>1, <1>3, <1>4, <1>5 DEF IInv

(* Every step of the parser keeps the invariant. *)
LEMMA StepGood ==
  ASSUME IInv, [Next]_vars
  PROVE  IInv'
<1>1. CASE UNCHANGED vars
  BY <1>1 DEF vars, IInv, StreamInv, GoodContext, NodesInv, Older, CallsInv, GoodSpan,
              Running, frame, Peek, IsAtEnd
<1>2. CASE DeclarationStep
  BY <1>2, DeclarationSteps
<1>3. CASE StatementStep
  BY <1>3, StatementSteps
<1>4. CASE ExpressionStep
  BY <1>4, ExpressionSteps
<1>5. QED
  BY <1>1, <1>2, <1>3, <1>4 DEF Next, Finished

(* The parser keeps its invariant: the cursor stands on a token, the spans *)
(* lie in the text and every function has the parts it is going to use.    *)
THEOREM Invariance == Spec => []IInv
<1>1. Init => IInv
  BY InitGood
<1>2. IInv /\ [Next]_vars => IInv'
  BY StepGood
<1>3. QED
  BY <1>1, <1>2, PTL DEF Spec

(* The invariant implies the type invariant. *)
LEMMA TypesGood ==
  ASSUME IInv
  PROVE  TypeOK
<1>1. text \in TokenStream /\ configuration \in ParserConfiguration
  BY DEF IInv, StreamInv
<1>2. context \in ParserState /\ context.position < Len(text)
  BY DEF IInv, GoodContext
<1>3. nodes \in Seq(Node) /\ returned \in 0..Len(nodes)
  BY DEF IInv, NodesInv
<1>4. \A d \in 1..Len(calls) :
        /\ calls[d].routine \in Routines
        /\ calls[d].from <= context.position
        /\ Indices(calls[d].parts) \subseteq 0..Len(nodes)
  <2>1. calls \in Seq(FrameRecord)
    BY DEF IInv, CallsInv
  <2>2. \A d \in 1..Len(calls) : calls[d] \in FrameRecord
    BY <2>1
  <2>3. \A d \in 1..Len(calls) : GoodFrame(calls[d], Len(nodes), context.position)
    BY DEF IInv, CallsInv
  <2>4. QED
    BY <2>2, <2>3 DEF FrameRecord, GoodFrame
<1>5. QED
  BY <1>1, <1>2, <1>3, <1>4 DEF TypeOK

(* TypeOK, for every set of streams and configurations: the cursor of the  *)
(* stream never passes the end of file, and what the functions hold are    *)
(* nodes that were made.                                                   *)
THEOREM TypeCorrect == Spec => []TypeOK
<1>1. IInv => TypeOK
  BY TypesGood
<1>2. QED
  BY <1>1, Invariance, PTL

(* No node holds itself or a younger one: the trees have no cycle, and a   *)
(* pass that follows the parts of a node comes to an end.                  *)
THEOREM PartsOlder == Spec => []\A i \in NodeIds : \A j \in PartsOf(i) : j < i
<1>1. ASSUME IInv PROVE \A i \in NodeIds : \A j \in PartsOf(i) : j < i
  <2> TAKE i \in NodeIds
  <2>1. Indices(nodes[i].parts) \subseteq 0..i - 1 /\ i \in Int
    BY <1>1 DEF IInv, NodesInv, Older, NodeIds
  <2>2. QED
    BY <2>1 DEF PartsOf
<1>2. QED
  BY <1>1, Invariance, PTL
=============================================================================
