-------------------------- MODULE ParserTreeProofs --------------------------
(***************************************************************************)
(* Theorems of the trees that Parser builds, for every set of token        *)
(* streams and configurations: operators group by their precedence, and    *)
(* every node has the parts of its members.                                *)
(***************************************************************************)
EXTENDS ParserProofs, FiniteSetTheorems, SequenceTheorems

-----------------------------------------------------------------------------
(* The invariant.  What it is made of speaks of a stream s, a tree of nodes *)
(* and frames, so that a step only changes what it is applied to.           *)

Expressing == {"Assignment", "Binary", "Unary", "Primary"}
Operating == {"Assignment", "Binary", "Unary", "Call", "MemberAccess"}

(* The token behind node i, and how tightly it binds: Grammar!Binding. *)
Behind(s, tree, i) == s[tree[i].to + 1]
Prefixed(tree, i) == tree[i].from < tree[tree[i].parts[1]].from
Binds(s, tree, i) ==
  CASE tree[i].kind = "Assignment" -> 1
    [] tree[i].kind = "Binary" -> Precedence[Behind(s, tree, tree[i].parts[1])]
    [] tree[i].kind = "Unary" -> IF Prefixed(tree, i) THEN 8 ELSE 9
    [] OTHER -> 10

(* The operands of node i are there and bind as its operator wants it. *)
Grouped(s, tree, i) ==
  LET node == tree[i]
      part(k) == Binds(s, tree, node.parts[k])
  IN  /\ Binds(s, tree, i) \in 1..10
      /\ node.kind \in Operating => node.parts # <<>> /\ node.parts[1] \in 1..i - 1
      /\ node.kind = "Assignment" => part(1) > 1
      /\ node.kind = "Binary" =>
           /\ Len(node.parts) = 2 /\ node.parts[2] \in 1..i - 1
           /\ part(1) >= Binds(s, tree, i) /\ part(2) > Binds(s, tree, i)
      /\ node.kind = "Unary" => part(1) >= IF Prefixed(tree, i) THEN 8 ELSE 10
      /\ node.kind \in {"Call", "MemberAccess"} => part(1) = 10
AllGrouped(s, tree) == \A i \in 1..Len(tree) : Grouped(s, tree, i)

(* What a frame knows of the operands it holds. *)
Is(f, routine, points) == f.routine = routine /\ f.point \in points
Holds(s, tree, f) ==
  LET left == f.parts[1]
      next == Behind(s, tree, left)
  IN  /\ Is(f, "Assignment", {"start", "left"}) => f.parts = <<>>
      /\ Is(f, "Assignment", {"value"}) => Binds(s, tree, left) > 1
      /\ f.routine = "Binary" => f.least \in 2..8
      /\ Is(f, "Binary", {"start", "operand"}) => f.parts = <<>>
      /\ Is(f, "Binary", {"operator", "right"}) =>
           Len(f.parts) = 1 /\ Binds(s, tree, left) >= f.least
      /\ Is(f, "Binary", {"right"}) =>
           /\ next \in BinaryOperators
           /\ f.least <= Precedence[next] /\ Precedence[next] <= Binds(s, tree, left)
      /\ f.routine = "Unary" => f.parts = <<>>
      /\ Is(f, "Primary", {"start", "inner", "scrutinee"}) => f.parts = <<>>
      /\ Is(f, "Primary", {"postfix", "argument", "call"}) =>
           Binds(s, tree, left) = 10 /\ tree[left].from = f.from

(* What the frame that runs knows of the cursor, at p. *)
Stands(s, tree, f, p) ==
  /\ Is(f, "Binary", {"operator"}) =>
       /\ tree[f.parts[1]].to = p
       /\ s[p + 1] \in BinaryOperators => Precedence[s[p + 1]] <= Binds(s, tree, f.parts[1])
  /\ Is(f, "Primary", {"postfix"}) => tree[f.parts[1]].to = p
  /\ Is(f, "Unary", {"start"}) => f.from = p

(* f is a frame that uses what the function it calls promises, and g the   *)
(* frame of a function it calls.                                           *)
Awaits(f) ==
  f.routine \in Expressing /\ f.point \in {"left", "operand", "right", "primary", "inner"}
Calling(s, tree, f, g) ==
  /\ g.routine \in Expressing
  /\ Is(f, "Assignment", {"left"}) => g.routine = "Binary" /\ g.least = LogicalOr
  /\ Is(f, "Binary", {"operand"}) => g.routine = "Unary"
  /\ Is(f, "Binary", {"right"}) =>
       g.routine = "Binary" /\ g.least = Precedence[Behind(s, tree, f.parts[1])] + 1
  /\ Is(f, "Unary", {"operand"}) => g.routine = "Unary" /\ f.from < g.from
  /\ Is(f, "Unary", {"primary"}) => g.routine = "Primary" /\ g.from = f.from

(* What the function of frame g promises of the node r it returns. *)
Answers(s, tree, g, r, p) ==
  /\ r # 0
  /\ g.routine = "Binary" =>
       /\ Binds(s, tree, r) >= g.least
       /\ s[p + 1] \in BinaryOperators => Precedence[s[p + 1]] < g.least
  /\ g.routine = "Unary" =>
       Binds(s, tree, r) >= 8 /\ tree[r].from = g.from /\ tree[r].to = p
  /\ g.routine = "Primary" =>
       Binds(s, tree, r) = 10 /\ tree[r].from = g.from /\ tree[r].to = p

(* A caller f and the function g it waits for. *)
Linked(s, tree, f, g) ==
  /\ f.routine \in Expressing => f.point \notin {"start", "operator", "postfix"}
  /\ Awaits(f) => Calling(s, tree, f, g)

Chained(s, tree, frames) ==
  /\ \A d \in 1..Len(frames) : Holds(s, tree, frames[d])
  /\ \A d \in 2..Len(frames) : Linked(s, tree, frames[d], frames[d - 1])

(* The frame on top, with what was returned to it. *)
Answered(s, tree, f, r, p) ==
  /\ Stands(s, tree, f, p)
  /\ Awaits(f) => \E g \in FrameRecord : Calling(s, tree, f, g) /\ Answers(s, tree, g, r, p)

Climbing(s, tree, frames, r, p) ==
  /\ AllGrouped(s, tree)
  /\ Chained(s, tree, frames)
  /\ frames # <<>> => Answered(s, tree, Head(frames), r, p)

PrecInv == ~context.had_error => Climbing(text, nodes, calls, returned, context.position)
-----------------------------------------------------------------------------
(* What happens to the nodes and the frames that are already there. *)

(* more is tree with nodes added. *)
Grown(tree, more) ==
  /\ tree \in Seq(Node) /\ more \in Seq(Node) /\ Len(tree) <= Len(more)
  /\ \A i \in 1..Len(tree) : more[i] = tree[i]

(* A new node changes nothing of the older ones. *)
LEMMA GroupedStays ==
  ASSUME NEW s, NEW tree, NEW more, Grown(tree, more), AllGrouped(s, tree)
  PROVE  \A i \in 1..Len(tree) :
           /\ more[i] = tree[i] /\ Behind(s, more, i) = Behind(s, tree, i)
           /\ Binds(s, more, i) = Binds(s, tree, i)
           /\ Grouped(s, more, i)
<1>1. Len(tree) \in Nat /\ \A i \in 1..Len(tree) : more[i] = tree[i] /\ Grouped(s, tree, i)
  BY DEF Grown, AllGrouped
<1>2. \A i \in 1..Len(tree) : Behind(s, more, i) = Behind(s, tree, i)
  BY <1>1 DEF Behind
<1>3. \A i \in 1..Len(tree) :
        tree[i].kind \in Operating => tree[i].parts[1] \in 1..Len(tree)
  <2> TAKE i \in 1..Len(tree)
  <2>1. tree[i].kind \in Operating => tree[i].parts[1] \in 1..i - 1
    BY <1>1 DEF Grouped
  <2>2. 1..i - 1 \subseteq 1..Len(tree)
    BY <1>1
  <2>3. QED
    BY <2>1, <2>2
<1>4. \A i \in 1..Len(tree) : Binds(s, more, i) = Binds(s, tree, i)
  <2> TAKE i \in 1..Len(tree)
  <2> DEFINE first == tree[i].parts[1]
  <2>1. more[i] = tree[i]
    BY <1>1
  <2>2. tree[i].kind \in Operating =>
          Behind(s, more, first) = Behind(s, tree, first) /\ more[first] = tree[first]
    BY <1>1, <1>2, <1>3
  <2>3. QED
    BY <2>1, <2>2, Zenon DEF Binds, Prefixed, Operating
<1>5. \A i \in 1..Len(tree) : Grouped(s, more, i)
  <2> TAKE i \in 1..Len(tree)
  <2>1. more[i] = tree[i] /\ Grouped(s, tree, i)
    BY <1>1
  <2>2. tree[i].kind \in Operating =>
          /\ Binds(s, more, tree[i].parts[1]) = Binds(s, tree, tree[i].parts[1])
          /\ Prefixed(more, i) = Prefixed(tree, i)
    BY <1>1, <1>3, <1>4 DEF Prefixed
  <2>3. tree[i].kind = "Binary" =>
          Binds(s, more, tree[i].parts[2]) = Binds(s, tree, tree[i].parts[2])
    <3>1. tree[i].kind = "Binary" => tree[i].parts[2] \in 1..i - 1
      BY <2>1 DEF Grouped
    <3>2. 1..i - 1 \subseteq 1..Len(tree)
      BY <1>1
    <3>3. QED
      BY <1>4, <3>1, <3>2
  <2>4. Binds(s, more, i) = Binds(s, tree, i)
    BY <1>4
  <2>5. QED
    BY <2>1, <2>2, <2>3, <2>4, Zenon DEF Grouped, Operating
<1>6. QED
  BY <1>1, <1>2, <1>4, <1>5

(* The first part of a frame that is going to use it. *)
LEMMA FirstPart ==
  ASSUME NEW f \in FrameRecord, NEW n \in Nat, NEW p, GoodFrame(f, n, p),
         \/ Is(f, "Assignment", {"value"})
         \/ Is(f, "Binary", {"operator", "right"})
         \/ Is(f, "Primary", {"postfix", "argument", "call"})
  PROVE  f.parts[1] \in 1..n
<1>1. f.parts \in Seq(Nat) /\ Indices(f.parts) \subseteq 0..n
      /\ Ready(f.routine, f.point, f.parts)
  BY DEF FrameRecord, GoodFrame
<1>2. PartsNeeded(f.routine, f.point) = 1
  BY DEF Is, PartsNeeded
<1>3. f.routine \in Trusting /\ f.point # "body"
  BY DEF Is, Trusting
<1>4. Len(f.parts) >= 1 /\ 0 \notin Indices(f.parts)
  BY <1>1, <1>2, <1>3 DEF Ready
<1>5. 1 \in 1..Len(f.parts)
  BY <1>1, <1>4
<1>6. f.parts[1] \in Indices(f.parts)
  BY <1>5 DEF Indices
<1>7. QED
  BY <1>1, <1>4, <1>6

(* Nor of what the frames know of theirs. *)
LEMMA HoldsStays ==
  ASSUME NEW s, NEW tree, NEW more, Grown(tree, more), AllGrouped(s, tree),
         NEW f \in FrameRecord, NEW p, GoodFrame(f, Len(tree), p)
  PROVE  /\ Holds(s, tree, f) => Holds(s, more, f)
         /\ \A g : Linked(s, tree, f, g) => Linked(s, more, f, g)
<1> DEFINE left == f.parts[1]
           uses == \/ Is(f, "Assignment", {"value"})
                   \/ Is(f, "Binary", {"operator", "right"})
                   \/ Is(f, "Primary", {"postfix", "argument", "call"})
<1>1. Len(tree) \in Nat
  BY DEF Grown
<1>2. uses => /\ Behind(s, more, left) = Behind(s, tree, left)
              /\ Binds(s, more, left) = Binds(s, tree, left)
              /\ more[left] = tree[left]
  BY <1>1, FirstPart, GroupedStays
<1>3. Is(f, "Binary", {"right"}) => Is(f, "Binary", {"operator", "right"})
  BY DEF Is
<1>4. Holds(s, tree, f) => Holds(s, more, f)
  BY <1>2, <1>3, Zenon DEF Holds
<1>5. \A g : Calling(s, tree, f, g) => Calling(s, more, f, g)
  BY <1>2, <1>3, Zenon DEF Calling
<1>6. QED
  BY <1>4, <1>5, Zenon DEF Linked
-----------------------------------------------------------------------------
(* The stack of frames. *)

(* A frame put on others. *)
LEMMA Pushed ==
  ASSUME NEW t \in Seq(FrameRecord), NEW f
  PROVE  LET u == <<f>> \o t IN
         /\ u # <<>> /\ Head(u) = f /\ u[1] = f
         /\ Len(u) = Len(t) + 1 /\ Len(t) \in Nat
         /\ \A d \in 1..Len(t) : u[d + 1] = t[d]
         /\ Tail(u) = t
<1> DEFINE S == FrameRecord \union {f}
<1>1. t \in Seq(S) /\ f \in S
  OBVIOUS
<1> HIDE DEF S
<1>2. <<f>> \in Seq(S) /\ Len(<<f>>) = 1 /\ <<f>>[1] = f
  BY <1>1
<1>3. /\ <<f>> \o t \in Seq(S) /\ Len(<<f>> \o t) = Len(t) + 1 /\ Len(t) \in Nat
      /\ (<<f>> \o t)[1] = f
      /\ \A d \in 1..Len(t) : (<<f>> \o t)[d + 1] = t[d]
  BY <1>1, <1>2
<1>4. Tail(<<f>> \o t) = t
  <2>1. Tail(<<f>> \o t) \in Seq(S) /\ Len(Tail(<<f>> \o t)) = Len(t)
    BY <1>3
  <2>2. \A d \in 1..Len(t) : Tail(<<f>> \o t)[d] = t[d]
    BY <1>3
  <2>3. QED
    BY <1>1, <2>1, <2>2
<1>5. <<f>> \o t # <<>> /\ Head(<<f>> \o t) = f
  BY <1>3
<1>6. QED
  BY <1>3, <1>4, <1>5

(* It keeps the chain when the caller under it may call it. *)
LEMMA ChainPushed ==
  ASSUME NEW s, NEW tree, NEW t \in Seq(FrameRecord), Chained(s, tree, t),
         NEW f, Holds(s, tree, f), t # <<>> => Linked(s, tree, t[1], f)
  PROVE  Chained(s, tree, <<f>> \o t)
<1> DEFINE u == <<f>> \o t
<1>1. /\ u[1] = f /\ Len(u) = Len(t) + 1 /\ Len(t) \in Nat
      /\ \A d \in 1..Len(t) : u[d + 1] = t[d]
  BY Pushed
<1> HIDE DEF u
<1>2. \A d \in 2..Len(u) : d - 1 \in 1..Len(t) /\ u[d] = t[d - 1]
  <2> TAKE d \in 2..Len(u)
  <2>1. d - 1 \in 1..Len(t) /\ (d - 1) + 1 = d
    BY <1>1
  <2>2. QED
    BY <1>1, <2>1
<1>3. \A d \in 1..Len(u) : d = 1 \/ d \in 2..Len(u)
  BY <1>1
<1>4. \A d \in 1..Len(u) : Holds(s, tree, u[d])
  BY <1>1, <1>2, <1>3 DEF Chained
<1>5. \A d \in 2..Len(u) : Linked(s, tree, u[d], u[d - 1])
  <2> TAKE d \in 2..Len(u)
  <2>1. CASE d = 2
    <3>1. Len(t) >= 1 /\ u[2] = t[1] /\ d - 1 = 1
      BY <1>1, <1>2, <2>1
    <3>2. t # <<>>
      BY <3>1
    <3>3. QED
      BY <1>1, <2>1, <3>1, <3>2
  <2>2. CASE d # 2
    <3>1. d - 1 \in 2..Len(u) /\ d - 1 \in 2..Len(t)
      BY <1>1, <2>2
    <3>2. u[d] = t[d - 1] /\ u[d - 1] = t[(d - 1) - 1]
      BY <1>2, <3>1
    <3>3. QED
      BY <3>1, <3>2 DEF Chained
  <2>3. QED
    BY <2>1, <2>2
<1>6. QED
  BY <1>4, <1>5 DEF Chained, u

(* What a step finds: the running frame and its callers, which a new node  *)
(* leaves as they are.                                                     *)
LEMMA CallersChained ==
  ASSUME IInv, Running, PrecInv, ~context.had_error, NEW more, Grown(nodes, more)
  PROVE  /\ Tail(calls) \in Seq(FrameRecord)
         /\ Chained(text, more, Tail(calls))
         /\ Tail(calls) # <<>> => Linked(text, more, Tail(calls)[1], frame)
<1> DEFINE t == Tail(calls)
<1>1. Climbing(text, nodes, calls, returned, context.position)
  BY DEF PrecInv
<1>2. AllGrouped(text, nodes) /\ Chained(text, nodes, calls)
  BY <1>1 DEF Climbing
<1>3. calls \in Seq(FrameRecord) /\ calls # <<>>
      /\ \A d \in 1..Len(calls) : GoodFrame(calls[d], Len(nodes), context.position)
  BY DEF IInv, CallsInv, Running
<1>4. /\ t \in Seq(FrameRecord) /\ Len(calls) \in Nat /\ Len(t) = Len(calls) - 1
      /\ \A d \in 1..Len(t) : t[d] = calls[d + 1]
      /\ frame = calls[1]
  BY <1>3 DEF frame
<1>5. \A d \in 1..Len(calls) :
        /\ Holds(text, more, calls[d])
        /\ \A g : Linked(text, nodes, calls[d], g) => Linked(text, more, calls[d], g)
  <2> TAKE d \in 1..Len(calls)
  <2>1. calls[d] \in FrameRecord /\ GoodFrame(calls[d], Len(nodes), context.position)
    BY <1>3
  <2>2. Holds(text, nodes, calls[d])
    BY <1>2 DEF Chained
  <2>3. QED
    BY <1>2, <2>1, <2>2, HoldsStays
<1>6. \A d \in 2..Len(calls) : Linked(text, more, calls[d], calls[d - 1])
  <2> TAKE d \in 2..Len(calls)
  <2>1. d \in 1..Len(calls) /\ Linked(text, nodes, calls[d], calls[d - 1])
    BY <1>2, <1>4 DEF Chained
  <2>2. QED
    BY <1>5, <2>1
<1> HIDE DEF t
<1>7. \A d \in 1..Len(t) : d + 1 \in 1..Len(calls) /\ Holds(text, more, t[d])
  BY <1>4, <1>5
<1>8. \A d \in 1..Len(t) : Linked(text, more, t[d], calls[d])
  <2> TAKE d \in 1..Len(t)
  <2>1. d + 1 \in 2..Len(calls) /\ (d + 1) - 1 = d /\ t[d] = calls[d + 1]
    BY <1>4
  <2>2. QED
    BY <1>6, <2>1
<1>9. \A d \in 2..Len(t) : Linked(text, more, t[d], t[d - 1])
  <2> TAKE d \in 2..Len(t)
  <2>1. d - 1 \in 1..Len(t) /\ (d - 1) + 1 = d /\ d \in 1..Len(t)
    BY <1>4
  <2>2. t[d - 1] = calls[d]
    BY <1>4, <2>1
  <2>3. QED
    BY <1>8, <2>1, <2>2
<1>10. t # <<>> => 1 \in 1..Len(t)
  BY <1>4
<1>11. QED
  BY <1>4, <1>7, <1>8, <1>9, <1>10 DEF Chained, t

(* r may stand for f where a caller waits for it. *)
StandsFor(r, f) ==
  \/ r.routine = f.routine /\ r.least = f.least /\ r.from = f.from
  \/ r.routine \notin Expressing /\ f.routine \notin Expressing

(* A caller that waits for f may as well wait for it. *)
LEMMA SameCallee ==
  ASSUME NEW s, NEW tree, NEW e, NEW f, NEW r, StandsFor(r, f), Linked(s, tree, e, f)
  PROVE  Linked(s, tree, e, r)
<1>1. CASE r.routine = f.routine /\ r.least = f.least /\ r.from = f.from
  BY <1>1, Zenon DEF Linked, Calling
<1>2. CASE r.routine \notin Expressing /\ f.routine \notin Expressing
  BY <1>2, Zenon DEF Linked, Calling
<1>3. QED
  BY <1>1, <1>2 DEF StandsFor
-----------------------------------------------------------------------------
(* The ways a segment ends keep the invariant. *)

(* What every step of the functions leaves behind; the error flag is never *)
(* taken back.                                                             *)
Onward ==
  /\ IInv /\ IInv' /\ Running /\ PrecInv
  /\ text' = text
  /\ context.had_error => context'.had_error
  /\ ~context'.had_error => Grown(nodes, nodes') /\ AllGrouped(text, nodes')

(* The function goes on, at r, or becomes another. *)
LEMMA ContinuePrec ==
  ASSUME Onward, NEW r, calls' = <<r>> \o Tail(calls), StandsFor(r, frame),
         ~context'.had_error =>
           /\ Holds(text, nodes', r) /\ Stands(text, nodes', r, context'.position)
           /\ ~Awaits(r)
  PROVE  PrecInv'
<1> SUFFICES ASSUME ~context'.had_error
             PROVE  Climbing(text, nodes', calls', returned', context'.position)
  BY DEF Onward, PrecInv
<1> DEFINE t == Tail(calls)
<1>1. /\ t \in Seq(FrameRecord) /\ Chained(text, nodes', t)
      /\ t # <<>> => Linked(text, nodes', t[1], frame)
  BY CallersChained DEF Onward
<1>2. t # <<>> => Linked(text, nodes', t[1], r)
  BY <1>1, SameCallee
<1>3. Chained(text, nodes', <<r>> \o t) /\ Head(<<r>> \o t) = r
  BY <1>1, <1>2, ChainPushed, Pushed
<1>4. Answered(text, nodes', r, returned', context'.position)
  BY DEF Answered
<1>5. QED
  BY <1>3, <1>4 DEF Climbing, Onward

(* The function calls another, and goes on at r when that one returns. *)
LEMMA InvokePrec ==
  ASSUME Onward, NEW r, NEW callee, calls' = <<callee, r>> \o Tail(calls), StandsFor(r, frame),
         ~context'.had_error =>
           /\ Holds(text, nodes', r) /\ Linked(text, nodes', r, callee)
           /\ Holds(text, nodes', callee) /\ Stands(text, nodes', callee, context'.position)
           /\ ~Awaits(callee)
  PROVE  PrecInv'
<1> SUFFICES ASSUME ~context'.had_error
             PROVE  Climbing(text, nodes', calls', returned', context'.position)
  BY DEF Onward, PrecInv
<1> DEFINE t == Tail(calls)
           u == <<r>> \o t
<1>1. /\ t \in Seq(FrameRecord) /\ Chained(text, nodes', t)
      /\ t # <<>> => Linked(text, nodes', t[1], frame)
  BY CallersChained DEF Onward
<1>2. t # <<>> => Linked(text, nodes', t[1], r)
  BY <1>1, SameCallee
<1>3. Chained(text, nodes', u) /\ u # <<>> /\ u[1] = r
  BY <1>1, <1>2, ChainPushed, Pushed
<1>4. calls' = <<callee>> \o u /\ u \in Seq(FrameRecord)
  <2> DEFINE S == FrameRecord \union {callee, r}
  <2>1. t \in Seq(S) /\ callee \in S /\ r \in S
    BY <1>1
  <2> HIDE DEF S, t
  <2>2. <<callee, r>> \o t = <<callee>> \o (<<r>> \o t)
    BY <2>1
  <2>3. calls' = <<callee>> \o u
    BY <2>2 DEF t
  <2>4. calls' \in Seq(FrameRecord)
    BY DEF Onward, IInv, CallsInv
  <2>5. <<r>> \o t \in Seq(S)
    BY <2>1
  <2> DEFINE v == <<r>> \o t
  <2>6. v \in Seq(S) /\ <<callee>> \o v \in Seq(FrameRecord) /\ callee \in S
    BY <2>1, <2>3, <2>4, <2>5 DEF t
  <2> HIDE DEF v
  <2>7. /\ Len(<<callee>> \o v) = Len(v) + 1 /\ Len(v) \in Nat
        /\ \A d \in 1..Len(v) : (<<callee>> \o v)[d + 1] = v[d]
    BY <2>6
  <2>8. \A d \in 1..Len(v) : v[d] \in FrameRecord
    BY <2>6, <2>7
  <2>9. v \in Seq(FrameRecord)
    BY <2>6, <2>8
  <2>10. QED
    BY <2>3, <2>9 DEF v, t
<1> HIDE DEF u
<1>5. Chained(text, nodes', calls') /\ Head(calls') = callee
  <2>1. Linked(text, nodes', u[1], callee)
    BY <1>3
  <2>2. Chained(text, nodes', <<callee>> \o u)
    BY <1>3, <1>4, <2>1, ChainPushed
  <2>3. Head(<<callee>> \o u) = callee
    BY <1>4, Pushed
  <2>4. QED
    BY <1>4, <2>2, <2>3
<1>6. Answered(text, nodes', callee, returned', context'.position)
  BY DEF Answered
<1>7. QED
  BY <1>5, <1>6 DEF Climbing, Onward

(* The function returns. *)
LEMMA ReturnPrec ==
  ASSUME Onward, calls' = Tail(calls),
         ~context'.had_error /\ frame.routine \in Expressing =>
           Answers(text, nodes', frame, returned', context'.position)
  PROVE  PrecInv'
<1> SUFFICES ASSUME ~context'.had_error
             PROVE  Climbing(text, nodes', calls', returned', context'.position)
  BY DEF Onward, PrecInv
<1> DEFINE t == Tail(calls)
<1>1. /\ t \in Seq(FrameRecord) /\ Chained(text, nodes', t)
      /\ t # <<>> => Linked(text, nodes', t[1], frame)
  BY CallersChained DEF Onward
<1>2. frame \in FrameRecord
  BY FrameFacts DEF Onward
<1>3. t # <<>> => Answered(text, nodes', Head(t), returned', context'.position)
  <2> SUFFICES ASSUME t # <<>>
               PROVE  Answered(text, nodes', t[1], returned', context'.position)
    BY <1>1
  <2>1. Linked(text, nodes', t[1], frame)
    BY <1>1
  <2>2. t[1].routine \in Expressing => t[1].point \notin {"start", "operator", "postfix"}
    BY <2>1 DEF Linked
  <2>3. Stands(text, nodes', t[1], context'.position)
    BY <2>2 DEF Stands, Is, Expressing
  <2>4. Awaits(t[1]) => Calling(text, nodes', t[1], frame) /\ frame.routine \in Expressing
    BY <2>1 DEF Linked, Calling
  <2>5. QED
    BY <1>2, <2>3, <2>4 DEF Answered
<1>4. QED
  BY <1>1, <1>3 DEF Climbing, Onward
-----------------------------------------------------------------------------
(* The error flag. *)

(* No call on a context takes the error flag back. *)
Lasts(d, c) == d \in ParserState /\ (c.had_error => d.had_error)

(* One call after another. *)
LEMMA LastsOn ==
  ASSUME NEW c, NEW d, NEW e, Lasts(d, c), Lasts(e, d)
  PROVE  Lasts(e, c)
  BY DEF Lasts

(* Consume and Match. *)
LEMMA ConsumedLasts ==
  ASSUME NEW c \in ParserState
  PROVE  Lasts(Consumed(c), c) /\ \A type : Lasts(Matched(c, type), c)
<1>1. Consumed(c) \in ParserState /\ Consumed(c).had_error = c.had_error
  BY DEF Consumed, ParserState
<1>2. \A type : Matched(c, type) = c \/ Matched(c, type) = Consumed(c)
  BY DEF Matched
<1>3. QED
  BY <1>1, <1>2 DEF Lasts

(* ReportError. *)
LEMMA ReportedLasts ==
  ASSUME StreamInv, NEW c, GoodContext(c)
  PROVE  Lasts(Reported(c), c) /\ Reported(c).had_error
<1>1. Reported(c).had_error
  BY DEF Reported, GoodContext, ParserState
<1>2. QED
  BY <1>1, ReportedFollows DEF Lasts, Follows, GoodContext

(* The recovery manager. *)
LEMMA SkippedLasts ==
  ASSUME StreamInv, NEW c, GoodContext(c), NEW types, "eof" \in types
  PROVE  Lasts(SkippedTo(c, types), c)
<1>1. SkippedTo(c, types).had_error = c.had_error
  BY DEF SkippedTo, GoodContext, ParserState
<1>2. QED
  BY <1>1, SkippedFollows DEF Lasts, Follows, GoodContext

(* Recover and the ways to synchronize. *)
LEMMA RecoveredLasts ==
  ASSUME StreamInv, NEW c, GoodContext(c)
  PROVE  /\ Lasts(Recovered(c), c)
         /\ Lasts(SynchronizedStatement(c), c) /\ Lasts(SynchronizedDeclaration(c), c)
<1>1. Lasts(SynchronizedDeclaration(c), c)
  BY SkippedLasts DEF SynchronizedDeclaration
<1>2. Lasts(SynchronizedStatement(c), c)
  <2> DEFINE s == SkippedTo(c, {";", "}", "eof"})
  <2>1. Lasts(s, c)
    BY SkippedLasts
  <2>2. Lasts(Matched(s, ";"), s)
    BY <2>1, ConsumedLasts DEF Lasts
  <2>3. QED
    BY <2>1, <2>2, LastsOn DEF SynchronizedStatement
<1>3. Synchronized(c).had_error = c.had_error
  <2> DEFINE skipped == SkippedTo(c, DeclarationStarts \union {";", "}", "eof"})
             stop == [skipped EXCEPT !.in_panic_mode = TRUE]
  <2>1. skipped.had_error = c.had_error /\ skipped \in ParserState
    <3>1. skipped.had_error = c.had_error
      BY DEF SkippedTo, GoodContext, ParserState
    <3>2. QED
      BY <3>1, SkippedFollows DEF Follows, GoodContext
  <2>2. Synchronized(c) \in {c, stop, Consumed(stop)}
    BY Zenon DEF Synchronized
  <2> HIDE DEF skipped
  <2>3. stop.had_error = c.had_error /\ stop \in ParserState
    BY <2>1 DEF ParserState
  <2> HIDE DEF stop
  <2>4. Consumed(stop).had_error = stop.had_error
    BY <2>3 DEF Consumed, ParserState
  <2>5. QED
    BY <2>2, <2>3, <2>4
<1>4. Recovered(c).had_error = c.had_error
  <2> DEFINE s == Synchronized(c)
             r == [s EXCEPT !.in_panic_mode = FALSE, !.recovered = TRUE]
  <2>1. s \in ParserState
    BY SynchronizedFollows DEF Follows, GoodContext
  <2>2. Recovered(c) = IF configuration.enable_error_recovery THEN r ELSE c
    BY DEF Recovered
  <2> HIDE DEF s
  <2>3. r.had_error = s.had_error
    BY <2>1 DEF ParserState
  <2>4. QED
    BY <1>3, <2>2, <2>3 DEF s
<1>5. QED
  BY <1>1, <1>2, <1>4, RecoveredFollows DEF Lasts, Follows, GoodContext

(* Expect, alone and with the recovery of its callers: unless the token is  *)
(* there, an error is reported.                                            *)
LEMMA ExpectedLasts ==
  ASSUME StreamInv, NEW c, GoodContext(c), NEW type
  PROVE  /\ Lasts(Expected(c, type), c) /\ Lasts(ExpectedOrRecovered(c, type), c)
         /\ ~ExpectedOrRecovered(c, type).had_error =>
              Peek(c) = type /\ ExpectedOrRecovered(c, type) = Consumed(c)
<1>1. CASE Peek(c) = type
  BY <1>1, ConsumedLasts DEF Expected, ExpectedOrRecovered, GoodContext
<1>2. CASE Peek(c) # type
  <2>1. Lasts(Reported(c), c) /\ Reported(c).had_error /\ GoodContext(Reported(c))
    BY ReportedLasts, ReportedFollows DEF Follows
  <2>2. Lasts(Recovered(Reported(c)), Reported(c))
    BY <2>1, RecoveredLasts
  <2>3. QED
    BY <1>2, <2>1, <2>2, LastsOn DEF Expected, ExpectedOrRecovered, Lasts
<1>3. QED
  BY <1>1, <1>2

(* The calls that the steps compose. *)
LEMMA CallsLast ==
  ASSUME IInv
  PROVE  /\ Lasts(context, context)
         /\ Lasts(Reported(context), context) /\ Lasts(Recovered(context), context)
         /\ Lasts(Recovered(Reported(context)), context)
         /\ Lasts(SynchronizedStatement(context), context)
         /\ Lasts(SynchronizedDeclaration(context), context)
         /\ Lasts(Consumed(context), context)
         /\ \A type :
              /\ Lasts(Matched(context, type), context)
              /\ Lasts(Expected(context, type), context)
              /\ Lasts(ExpectedOrRecovered(context, type), context)
<1>1. StreamInv /\ GoodContext(context) /\ context \in ParserState
  BY DEF IInv, GoodContext
<1>2. /\ Lasts(Reported(context), context) /\ Lasts(Recovered(context), context)
      /\ Lasts(SynchronizedStatement(context), context)
      /\ Lasts(SynchronizedDeclaration(context), context)
  BY <1>1, ReportedLasts, RecoveredLasts
<1>3. Lasts(Recovered(Reported(context)), context)
  <2>1. GoodContext(Reported(context))
    BY <1>1, ReportedFollows DEF Follows
  <2>2. Lasts(Recovered(Reported(context)), Reported(context))
    BY <1>1, <2>1, RecoveredLasts
  <2>3. QED
    BY <1>2, <2>2, LastsOn
<1>4. Lasts(context, context)
  BY <1>1 DEF Lasts
<1>5. QED
  BY <1>1, <1>2, <1>3, <1>4, ConsumedLasts, ExpectedLasts

-----------------------------------------------------------------------------
(* The node a step makes. *)

(* MakeNode adds a node and leaves the others. *)
LEMMA GraftGrown ==
  ASSUME IInv, IInv', NEW node, nodes' = Append(nodes, node)
  PROVE  /\ Grown(nodes, nodes') /\ Len(nodes) \in Nat /\ Fresh \in 1..Fresh
         /\ Len(nodes') = Fresh /\ nodes'[Fresh] = node
<1> DEFINE S == Node \union {node}
<1>1. nodes \in Seq(S) /\ node \in S
  BY DEF IInv, NodesInv
<1> HIDE DEF S
<1>2. /\ Len(nodes) \in Nat /\ Len(Append(nodes, node)) = Len(nodes) + 1
      /\ \A i \in 1..Len(nodes) : Append(nodes, node)[i] = nodes[i]
      /\ Append(nodes, node)[Len(nodes) + 1] = node
  BY <1>1
<1>3. nodes \in Seq(Node) /\ nodes' \in Seq(Node)
  BY DEF IInv, NodesInv
<1>4. QED
  BY <1>2, <1>3 DEF Grown, Fresh

(* The invariant of the nodes after a step that makes one. *)
LEMMA MadeOnward ==
  ASSUME IInv, IInv', Running, PrecInv, Unchanging,
         context.had_error => context'.had_error,
         NEW node, nodes' = Append(nodes, node),
         ~context'.had_error => Grouped(text, nodes', Fresh)
  PROVE  Onward
<1>1. /\ Grown(nodes, nodes') /\ Len(nodes) \in Nat
      /\ Len(nodes') = Fresh /\ Fresh = Len(nodes) + 1
  BY GraftGrown DEF Fresh
<1>2. ASSUME ~context'.had_error PROVE AllGrouped(text, nodes')
  <2>1. AllGrouped(text, nodes)
    BY <1>2 DEF PrecInv, Climbing
  <2>2. \A i \in 1..Len(nodes) : Grouped(text, nodes', i)
    BY <1>1, <2>1, GroupedStays
  <2>3. \A i \in 1..Len(nodes') : i \in 1..Len(nodes) \/ i = Fresh
    BY <1>1
  <2>4. QED
    BY <1>2, <2>2, <2>3 DEF AllGrouped
<1>3. QED
  BY <1>1, <1>2 DEF Onward, Unchanging

(* A node without operands is well grouped. *)
LEMMA PlainGrouped ==
  ASSUME NEW s, NEW tree, NEW i, tree[i].kind \notin Operating
  PROVE  Grouped(s, tree, i) /\ Binds(s, tree, i) = 10
<1>1. Binds(s, tree, i) = 10
  BY DEF Binds, Operating
<1>2. QED
  BY <1>1 DEF Grouped, Operating

(* A step that makes no operator. *)
Plain ==
  UNCHANGED nodes \/ \E node : node.kind \notin Operating /\ nodes' = Append(nodes, node)

(* It leaves the nodes well grouped. *)
LEMMA PlainOnward ==
  ASSUME IInv, IInv', Running, PrecInv, Unchanging,
         context.had_error => context'.had_error, Plain
  PROVE  Onward
<1>1. CASE UNCHANGED nodes
  <2>1. nodes \in Seq(Node)
    BY DEF IInv, NodesInv
  <2>2. Grown(nodes, nodes')
    BY <1>1, <2>1 DEF Grown
  <2>3. ~context'.had_error => AllGrouped(text, nodes')
    BY <1>1 DEF PrecInv, Climbing
  <2>4. QED
    BY <2>2, <2>3 DEF Onward, Unchanging
<1>2. CASE \E node : node.kind \notin Operating /\ nodes' = Append(nodes, node)
  <2>1. PICK node : node.kind \notin Operating /\ nodes' = Append(nodes, node)
    BY <1>2
  <2>2. nodes'[Fresh] = node
    BY <2>1, GraftGrown
  <2>3. Grouped(text, nodes', Fresh)
    BY <2>1, <2>2, PlainGrouped
  <2>4. QED
    BY <2>1, <2>3, MadeOnward
<1>3. QED
  BY <1>1, <1>2 DEF Plain

-----------------------------------------------------------------------------
(* The declaration and the statement parsers build no operators. *)

(* A segment of a function that is none of the expression parser, which may *)
(* call it for an expression.                                               *)
Aside ==
  /\ context.had_error => context'.had_error
  /\ Unchanging
  /\ Plain
  /\ \/ \E r : r.routine \notin Expressing /\ calls' = <<r>> \o Tail(calls)
     \/ \E callee, r :
          /\ r.routine \notin Expressing /\ calls' = <<callee, r>> \o Tail(calls)
          /\ \/ callee.routine \notin Expressing
             \/ Is(callee, "Assignment", {"start"}) /\ callee.parts = <<>>
     \/ calls' = Tail(calls)

(* Of such a frame nothing is asked. *)
LEMMA AsideFrame ==
  ASSUME NEW s, NEW tree, NEW f, NEW p,
         \/ f.routine \notin Expressing
         \/ Is(f, "Assignment", {"start"}) /\ f.parts = <<>>
  PROVE  /\ Holds(s, tree, f) /\ Stands(s, tree, f, p) /\ ~Awaits(f)
         /\ f.routine \notin Expressing => \A g : Linked(s, tree, f, g)
<1>1. CASE f.routine \notin Expressing
  BY <1>1 DEF Holds, Stands, Awaits, Linked, Is, Expressing
<1>2. CASE Is(f, "Assignment", {"start"}) /\ f.parts = <<>>
  BY <1>2 DEF Holds, Stands, Awaits, Is, Expressing
<1>3. QED
  BY <1>1, <1>2

(* Such a segment keeps the invariant. *)
LEMMA AsideKeeps ==
  ASSUME IInv, IInv', Running, PrecInv, frame.routine \notin Expressing, Aside
  PROVE  PrecInv'
<1>1. Onward
  BY PlainOnward DEF Aside
<1>2. CASE \E r : r.routine \notin Expressing /\ calls' = <<r>> \o Tail(calls)
  <2>1. PICK r : r.routine \notin Expressing /\ calls' = <<r>> \o Tail(calls)
    BY <1>2
  <2>2. StandsFor(r, frame)
    BY <2>1 DEF StandsFor
  <2>3. QED
    BY <1>1, <2>1, <2>2, AsideFrame, ContinuePrec
<1>3. ASSUME NEW callee, NEW r,
             r.routine \notin Expressing, calls' = <<callee, r>> \o Tail(calls),
             \/ callee.routine \notin Expressing
             \/ Is(callee, "Assignment", {"start"}) /\ callee.parts = <<>>
      PROVE  PrecInv'
  <2>1. StandsFor(r, frame)
    BY <1>3 DEF StandsFor
  <2>2. QED
    BY <1>1, <1>3, <2>1, AsideFrame, InvokePrec
<1>4. CASE calls' = Tail(calls)
  BY <1>1, <1>4, ReturnPrec
<1>5. QED
  BY <1>2, <1>3, <1>4 DEF Aside

(* The ways such a segment ends. *)
LEMMA AsideForms ==
  ASSUME IInv, Running, frame.routine \notin Expressing, NEW c, Lasts(c, context)
  PROVE  /\ \A point, parts : Continue(point, c, parts) => Aside
         /\ \A point, node, parts :
              ContinueWith(point, c, node, parts) /\ node.kind \notin Operating => Aside
         /\ \A routine, point, parts :
              (routine \notin Expressing \/ routine = "Assignment")
                /\ Invoke(routine, point, c, parts) => Aside
         /\ \A routine : Become(routine, c) /\ routine \notin Expressing => Aside
         /\ \A node : Return(c, node) => Aside
         /\ \A kind, span, parts :
              ReturnNode(c, kind, span, parts) /\ kind \notin Operating => Aside
<1>1. context.had_error => c.had_error
  BY DEF Lasts
<1>2. \A point, parts : Resume(point, parts).routine \notin Expressing
  BY FrameFacts DEF Resume, FrameRecord
<1>3. ASSUME NEW point, NEW parts, Continue(point, c, parts) PROVE Aside
  BY <1>1, <1>2, <1>3, Zenon DEF Continue, Aside, Plain
<1>4. ASSUME NEW point, NEW node, NEW parts, ContinueWith(point, c, node, parts),
             node.kind \notin Operating
      PROVE  Aside
  BY <1>1, <1>2, <1>4, Zenon DEF ContinueWith, Aside, Plain
<1>5. ASSUME NEW routine, NEW point, NEW parts, Invoke(routine, point, c, parts),
             routine \notin Expressing \/ routine = "Assignment"
      PROVE  Aside
  <2> DEFINE callee == Frame(routine, c)
  <2>1. callee.routine = routine /\ callee.point = "start" /\ callee.parts = <<>>
    BY DEF Frame
  <2>2. \/ callee.routine \notin Expressing
        \/ Is(callee, "Assignment", {"start"}) /\ callee.parts = <<>>
    BY <1>5, <2>1 DEF Is
  <2>3. InvokeFrame(callee, point, c, parts)
    BY <1>5 DEF Invoke
  <2> HIDE DEF callee
  <2>4. QED
    BY <1>1, <1>2, <2>2, <2>3, Zenon DEF InvokeFrame, Aside, Plain
<1>6. ASSUME NEW routine, Become(routine, c), routine \notin Expressing PROVE Aside
  <2> DEFINE r == [frame EXCEPT !.routine = routine, !.point = "start", !.start = c.position]
  <2>1. r.routine = routine
    BY FrameFacts DEF FrameRecord
  <2>2. calls' = <<r>> \o Tail(calls) /\ context' = c /\ UNCHANGED nodes /\ Unchanging
    BY <1>6 DEF Become
  <2> HIDE DEF r
  <2>3. QED
    BY <1>1, <1>6, <2>1, <2>2, Zenon DEF Aside, Plain
<1>7. ASSUME NEW node, Return(c, node) PROVE Aside
  BY <1>1, <1>7, Zenon DEF Return, Aside, Plain
<1>8. ASSUME NEW kind, NEW span, NEW parts, ReturnNode(c, kind, span, parts),
             kind \notin Operating
      PROVE  Aside
  <2> DEFINE node == NewNode(c, kind, span, parts)
  <2>1. node.kind = kind
    BY DEF NewNode, NodeFrom
  <2>2. nodes' = Append(nodes, node) /\ calls' = Tail(calls) /\ context' = c /\ Unchanging
    BY <1>8 DEF ReturnNode
  <2> HIDE DEF node
  <2>3. QED
    BY <1>1, <1>8, <2>1, <2>2, Zenon DEF Aside, Plain
<1>9. QED
  BY <1>3, <1>4, <1>5, <1>6, <1>7, <1>8, Zenon

(* Where such a function may leave the context. *)
LEMMA AsideContexts ==
  ASSUME IInv
  PROVE  /\ Lasts(Matched(Consumed(context), "mut"), context)
         /\ Lasts(Matched(Consumed(context), "::"), context)
         /\ Lasts(Matched(Matched(context, "pub"), "async"), context)
         /\ Lasts(Reported(Matched(Matched(context, "pub"), "async")), context)
         /\ \A type : Lasts(Consumed(ExpectedOrRecovered(context, type)), context)
         /\ \A type, more : Lasts(Matched(ExpectedOrRecovered(context, type), more), context)
         /\ \A type, more : Lasts(Matched(Expected(context, type), more), context)
<1>1. \A c : Lasts(c, context) =>
        /\ Lasts(Consumed(c), context)
        /\ \A type : Lasts(Matched(c, type), context)
  BY ConsumedLasts, LastsOn DEF Lasts
<1>2. Lasts(Reported(Matched(Matched(context, "pub"), "async")), context)
  <2> DEFINE c == Matched(Matched(context, "pub"), "async")
  <2>1. GoodContext(c) /\ Lasts(c, context)
    BY <1>1, CallsLast, TwiceFollows DEF IInv, Follows
  <2> HIDE DEF c
  <2>2. Lasts(Reported(c), c)
    BY <2>1, ReportedLasts DEF IInv
  <2>3. QED
    BY <2>1, <2>2, LastsOn DEF c
<1>3. QED
  BY <1>1, <1>2, CallsLast

(* The declaration parser. *)
LEMMA NamesAside ==
  ASSUME IInv,
         \/ ParseDeclarations \/ DeclarationParsed \/ ParseAttribute \/ ParseDeclaration
         \/ \E routine \in Named : ParseKeyword(routine) \/ NameMissing(routine)
         \/ ParseIdentifier \/ ParseType
  PROVE  Running /\ frame.routine \notin Expressing /\ Aside
<1>1. /\ Running
      /\ frame.routine \in {"Program", "Declaration", "Identifier", "Type"} \union Named
  BY DEF ParseDeclarations, DeclarationParsed, ParseAttribute, ParseDeclaration, ParseKeyword,
         NameMissing, ParseIdentifier, ParseType, At
<1>2. frame.routine \notin Expressing
  BY <1>1 DEF Expressing, Named
<1>3. ASSUME ParseDeclarations PROVE Aside
  BY <1>1, <1>2, <1>3, CallsLast, AsideForms DEF ParseDeclarations, Operating, Expressing
<1>4. ASSUME DeclarationParsed PROVE Aside
  BY <1>1, <1>2, <1>4, CallsLast, AsideForms DEF DeclarationParsed
<1>5. ASSUME ParseAttribute PROVE Aside
  BY <1>1, <1>2, <1>5, CallsLast, AsideForms DEF ParseAttribute, NodeFrom, Operating
<1>6. ASSUME ParseDeclaration PROVE Aside
  <2>1. \/ Become("Import", context)
        \/ Become("Package", context)
        \/ \E type \in DeclarationKeywords :
             Become(RoutineOf[type], Matched(Matched(context, "pub"), "async"))
        \/ Return(Reported(Matched(Matched(context, "pub"), "async")), 0)
    BY <1>6, Zenon DEF ParseDeclaration
  <2>2. \A type \in DeclarationKeywords : RoutineOf[type] \notin Expressing
    BY DEF RoutineOf, DeclarationKeywords, Expressing
  <2>3. QED
    BY <1>1, <1>2, <2>1, <2>2, CallsLast, AsideContexts, AsideForms DEF Expressing
<1>7. ASSUME \E routine \in Named : ParseKeyword(routine) \/ NameMissing(routine) PROVE Aside
  BY <1>1, <1>2, <1>7, CallsLast, AsideForms DEF ParseKeyword, NameMissing, Expressing
<1>8. ASSUME ParseIdentifier \/ ParseType PROVE Aside
  BY <1>1, <1>2, <1>8, CallsLast, AsideForms DEF ParseIdentifier, ParseType, Operating
<1>9. QED
  BY <1>1, <1>2, <1>3, <1>4, <1>5, <1>6, <1>7, <1>8

(* The declarations with parameters, fields and bodies. *)
LEMMA DeclarationsAside ==
  ASSUME IInv,
         \/ FunctionNamed \/ ParameterNamed \/ ParameterTyped \/ NextParameter
         \/ FunctionClosed \/ FunctionTyped \/ EndFunction
         \/ StructNamed \/ NextField \/ FieldNamed \/ FieldTyped \/ EndStruct
         \/ \E kind \in {"Class", "Trait"} :
              BodyNamed(kind) \/ NextMember(kind) \/ MemberParsed(kind)
         \/ EnumNamed \/ NextVariant \/ VariantParsed
         \/ ModuleNamed \/ EndModule \/ ParsePackage \/ EndPackage
         \/ ParseImport \/ ParseSegment \/ EndImport
  PROVE  Running /\ frame.routine \notin Expressing /\ Aside
<1>1. /\ Running
      /\ frame.routine \in {"Function", "Struct", "Class", "Trait", "Enum", "Module", "Package",
                            "Import"}
  BY DEF FunctionNamed, ParameterNamed, ParameterTyped, NextParameter, FunctionClosed,
         FunctionTyped, EndFunction, StructNamed, NextField, FieldNamed, FieldTyped, EndStruct,
         BodyNamed, NextMember, MemberParsed, EnumNamed, NextVariant, VariantParsed, ModuleNamed,
         EndModule, ParsePackage, EndPackage, ParseImport, ParseSegment, EndImport, NameFound, At
<1>2. frame.routine \notin Expressing
  BY <1>1 DEF Expressing
<1>3. ASSUME NEW kind, kind \in {"Parameter", "Field"}, NEW more, NEW done,
             TypedName(kind, more, done)
      PROVE  Aside
  <2> DEFINE name == Last(frame.parts)
             node == NodeFrom(nodes[name].from, context, kind,
                              Extended(nodes[name].span, returned), <<name, returned>>)
             parts == [frame.parts EXCEPT ![Len(frame.parts)] = Fresh]
  <2>1. \/ ContinueWith(more, Consumed(context), node, parts)
        \/ ContinueWith(done, context, node, parts)
    BY <1>3, Zenon DEF TypedName
  <2>2. node.kind \notin Operating
    BY <1>3 DEF NodeFrom, Operating
  <2> HIDE DEF name, node, parts
  <2>3. QED
    BY <1>1, <1>2, <2>1, <2>2, CallsLast, AsideForms
<1>4. ASSUME FunctionNamed \/ ParameterNamed \/ NextParameter PROVE Aside
  BY <1>1, <1>2, <1>4, CallsLast, AsideForms
     DEF FunctionNamed, ParameterNamed, NextParameter, Expressing
<1>5. ASSUME ParameterTyped \/ FieldTyped PROVE Aside
  BY <1>3, <1>5 DEF ParameterTyped, FieldTyped
<1>6. ASSUME FunctionClosed \/ FunctionTyped \/ EndFunction PROVE Aside
  BY <1>1, <1>2, <1>6, CallsLast, AsideContexts, AsideForms
     DEF FunctionClosed, FunctionTyped, EndFunction, Expressing, Operating
<1>7. ASSUME StructNamed \/ NextField \/ FieldNamed \/ EndStruct PROVE Aside
  <2>1. ASSUME EndStruct PROVE Aside
    <3> DEFINE c == Matched(ExpectedOrRecovered(context, "}"), ";")
    <3>1. \E span : ReturnNode(c, "Struct", span, frame.parts)
      BY <2>1, Zenon DEF EndStruct
    <3>2. Lasts(c, context)
      BY AsideContexts
    <3> HIDE DEF c
    <3>3. QED
      BY <1>1, <1>2, <3>1, <3>2, AsideForms DEF Operating
  <2>2. QED
    BY <1>1, <1>2, <1>7, <2>1, CallsLast, AsideForms
       DEF StructNamed, NextField, FieldNamed, Expressing
<1>8. ASSUME NEW kind \in {"Class", "Trait"},
             BodyNamed(kind) \/ NextMember(kind) \/ MemberParsed(kind)
      PROVE  Aside
  BY <1>1, <1>2, <1>8, CallsLast, AsideForms
     DEF BodyNamed, NextMember, MemberParsed, Expressing, Operating
<1>9. ASSUME EnumNamed \/ NextVariant \/ VariantParsed PROVE Aside
  <2>1. \A parts : EndEnum(parts) => Aside
    BY <1>1, <1>2, AsideContexts, AsideForms DEF EndEnum, Operating
  <2>2. QED
    BY <1>1, <1>2, <1>9, <2>1, CallsLast, AsideForms
       DEF EnumNamed, NextVariant, VariantParsed, Expressing, Operating
<1>10. ASSUME ModuleNamed \/ EndModule \/ ParsePackage \/ EndPackage PROVE Aside
  BY <1>1, <1>2, <1>10, CallsLast, AsideForms
     DEF ModuleNamed, EndModule, ParsePackage, EndPackage, ReturnClosed, Expressing, Operating
<1>11. ASSUME ParseImport \/ ParseSegment \/ EndImport PROVE Aside
  <2>1. ASSUME ParseSegment PROVE Aside
    <3> DEFINE c == Consumed(context)
               node == NodeFrom(context.position, c, "Identifier", TokenSpan(context.position),
                                <<>>)
               parts == Append(frame.parts, Fresh)
    <3>1. \/ Continue("close", Reported(context), frame.parts)
          \/ \E point : ContinueWith(point, Matched(c, "::"), node, parts)
      BY <2>1, Zenon DEF ParseSegment
    <3>2. node.kind \notin Operating
      BY DEF NodeFrom, Operating
    <3>3. Lasts(Matched(c, "::"), context)
      BY AsideContexts
    <3> HIDE DEF c, node, parts
    <3>4. QED
      BY <1>1, <1>2, <3>1, <3>2, <3>3, CallsLast, AsideForms
  <2>2. QED
    BY <1>1, <1>2, <1>11, <2>1, CallsLast, AsideForms
       DEF ParseImport, EndImport, ReturnClosed, Operating
<1>12. QED
  BY <1>1, <1>2, <1>4, <1>5, <1>6, <1>7, <1>8, <1>9, <1>10, <1>11

(* The statement parser. *)
LEMMA StatementsAside ==
  ASSUME IInv, StatementStep
  PROVE  Running /\ frame.routine \notin Expressing /\ Aside
<1>1. /\ Running
      /\ frame.routine \in {"Statement", "Variable", "Return", "If", "While", "For", "Block",
                            "MatchStatement", "ExpressionStatement"}
  BY DEF StatementStep, ParseStatement, ParseBlock, NextStatement, StatementParsed,
         ParseCondition, ConditionParsed, ThenParsed, EndIf, EndWhile, ParseFor, IteratorParsed,
         IterableParsed, EndFor, ParseReturn, EndReturn, ParseVariable, VariableNamed,
         VariableTyped, EndVariable, ParseMatchStatement, EndMatchStatement,
         ParseExpressionStatement, EndExpressionStatement, At
<1>2. frame.routine \notin Expressing
  BY <1>1 DEF Expressing
<1>3. ASSUME ParseStatement \/ ParseBlock \/ NextStatement \/ StatementParsed PROVE Aside
  BY <1>1, <1>2, <1>3, CallsLast, AsideForms
     DEF ParseStatement, ParseBlock, NextStatement, StatementParsed, ReturnClosed, Expressing,
         Operating
<1>4. ASSUME NEW routine, ParseCondition(routine) \/ ConditionParsed(routine) PROVE Aside
  BY <1>1, <1>2, <1>4, CallsLast, AsideForms DEF ParseCondition, ConditionParsed, Expressing
<1>5. ASSUME ThenParsed \/ EndIf \/ EndWhile PROVE Aside
  BY <1>1, <1>2, <1>5, CallsLast, AsideForms
     DEF ThenParsed, EndIf, EndWhile, Expressing, Operating
<1>6. ASSUME ParseFor \/ IteratorParsed \/ IterableParsed \/ EndFor PROVE Aside
  BY <1>1, <1>2, <1>6, CallsLast, AsideForms
     DEF ParseFor, IteratorParsed, IterableParsed, EndFor, Expressing, Operating
<1>7. ASSUME ParseReturn \/ EndReturn PROVE Aside
  BY <1>1, <1>2, <1>7, CallsLast, AsideForms
     DEF ParseReturn, EndReturn, ReturnClosed, Expressing, Operating
<1>8. ASSUME ParseVariable \/ VariableNamed \/ VariableTyped \/ EndVariable PROVE Aside
  BY <1>1, <1>2, <1>8, CallsLast, AsideContexts, AsideForms
     DEF ParseVariable, VariableNamed, VariableTyped, EndVariable, ReturnClosed, Expressing,
         Operating
<1>9. ASSUME ParseMatchStatement \/ EndMatchStatement PROVE Aside
  BY <1>1, <1>2, <1>9, CallsLast, AsideForms
     DEF ParseMatchStatement, EndMatchStatement, Expressing, Operating
<1>10. ASSUME ParseExpressionStatement \/ EndExpressionStatement PROVE Aside
  BY <1>1, <1>2, <1>10, CallsLast, AsideForms
     DEF ParseExpressionStatement, EndExpressionStatement, Expressing, Operating
<1>11. QED
  BY <1>1, <1>2, <1>3, <1>4, <1>5, <1>6, <1>7, <1>8, <1>9, <1>10 DEF StatementStep

-----------------------------------------------------------------------------
(* The expression parser.  Until an error is reported, and only then does   *)
(* the invariant say anything, each function keeps what it promises.        *)

Sound == IInv /\ IInv' /\ Running /\ PrecInv /\ ~context.had_error /\ ~context'.had_error

(* What a function of the expression parser starts from. *)
LEMMA TopFacts ==
  ASSUME Sound
  PROVE  /\ AllGrouped(text, nodes)
         /\ Holds(text, nodes, frame)
         /\ Stands(text, nodes, frame, context.position)
         /\ Awaits(frame) =>
              \E g \in FrameRecord : /\ Calling(text, nodes, frame, g)
                                     /\ Answers(text, nodes, g, returned, context.position)
         /\ Peek(context) = text[context.position + 1]
<1>1. Climbing(text, nodes, calls, returned, context.position)
  BY DEF Sound, PrecInv
<1>2. calls \in Seq(FrameRecord) /\ calls # <<>>
  BY DEF Sound, IInv, CallsInv, Running
<1>3. frame = calls[1] /\ 1 \in 1..Len(calls) /\ frame = Head(calls)
  BY <1>2 DEF frame
<1>4. Peek(context) = text[context.position + 1]
  BY OnToken DEF Sound, IInv
<1>5. QED
  BY <1>1, <1>2, <1>3, <1>4 DEF Climbing, Chained, Answered

(* The running frame at another point. *)
LEMMA ResumeIs ==
  ASSUME IInv, Running, NEW point, NEW parts
  PROVE  LET r == Resume(point, parts) IN
         /\ r.routine = frame.routine /\ r.point = point /\ r.parts = parts
         /\ r.from = frame.from /\ r.least = frame.least
         /\ StandsFor(r, frame)
<1> DEFINE r == Resume(point, parts)
<1>1. /\ r.routine = frame.routine /\ r.point = point /\ r.parts = parts
      /\ r.from = frame.from /\ r.least = frame.least
  BY FrameFacts DEF Resume, FrameRecord
<1>2. QED
  BY <1>1 DEF StandsFor

(* The function goes on. *)
LEMMA ContinueClimbs ==
  ASSUME Sound, NEW point, NEW c, NEW parts, Continue(point, c, parts),
         NEW r, r = Resume(point, parts), ~Awaits(r),
         Holds(text, nodes, r), Stands(text, nodes, r, c.position)
  PROVE  PrecInv'
<1>1. /\ UNCHANGED nodes /\ Unchanging /\ context' = c /\ calls' = <<r>> \o Tail(calls)
  BY DEF Continue
<1>2. Onward
  BY <1>1, PlainOnward DEF Sound, Plain
<1>3. StandsFor(r, frame)
  BY ResumeIs DEF Sound
<1>4. QED
  BY <1>1, <1>2, <1>3, ContinuePrec

(* The function goes on with a node made. *)
LEMMA ContinueWithClimbs ==
  ASSUME Sound, NEW point, NEW c, NEW node, NEW parts, ContinueWith(point, c, node, parts),
         NEW r, r = Resume(point, parts), ~Awaits(r),
         Grouped(text, nodes', Fresh),
         Holds(text, nodes', r), Stands(text, nodes', r, c.position)
  PROVE  PrecInv'
<1>1. /\ nodes' = Append(nodes, node) /\ Unchanging /\ context' = c
      /\ calls' = <<r>> \o Tail(calls)
  BY DEF ContinueWith
<1>2. Onward
  BY <1>1, MadeOnward DEF Sound
<1>3. StandsFor(r, frame)
  BY ResumeIs DEF Sound
<1>4. QED
  BY <1>1, <1>2, <1>3, ContinuePrec

(* The function calls another. *)
LEMMA InvokeClimbs ==
  ASSUME Sound, NEW callee, NEW point, NEW c, NEW parts, InvokeFrame(callee, point, c, parts),
         NEW r, r = Resume(point, parts), ~Awaits(callee),
         Holds(text, nodes, r), Linked(text, nodes, r, callee),
         Holds(text, nodes, callee), Stands(text, nodes, callee, c.position)
  PROVE  PrecInv'
<1>1. /\ UNCHANGED nodes /\ Unchanging /\ context' = c
      /\ calls' = <<callee, r>> \o Tail(calls)
  BY DEF InvokeFrame
<1>2. Onward
  BY <1>1, PlainOnward DEF Sound, Plain
<1>3. StandsFor(r, frame)
  BY ResumeIs DEF Sound
<1>4. QED
  BY <1>1, <1>2, <1>3, InvokePrec

(* The function returns a node. *)
LEMMA ReturnClimbs ==
  ASSUME Sound, NEW c, NEW node, Return(c, node),
         Answers(text, nodes, frame, node, c.position)
  PROVE  PrecInv'
<1>1. /\ UNCHANGED nodes /\ Unchanging /\ context' = c /\ calls' = Tail(calls)
      /\ returned' = node
  BY DEF Return
<1>2. Onward
  BY <1>1, PlainOnward DEF Sound, Plain
<1>3. QED
  BY <1>1, <1>2, ReturnPrec

(* The function returns a node it makes. *)
LEMMA ReturnNodeClimbs ==
  ASSUME Sound, NEW c, NEW kind, NEW span, NEW parts, ReturnNode(c, kind, span, parts),
         Grouped(text, nodes', Fresh), Answers(text, nodes', frame, Fresh, c.position)
  PROVE  PrecInv'
<1>1. /\ nodes' = Append(nodes, NewNode(c, kind, span, parts))
      /\ Unchanging /\ context' = c /\ calls' = Tail(calls) /\ returned' = Fresh
  BY DEF ReturnNode
<1>2. Onward
  BY <1>1, MadeOnward DEF Sound
<1>3. QED
  BY <1>1, <1>2, ReturnPrec

(* The node a step makes. *)
LEMMA NewNodeIs ==
  ASSUME Sound, NEW c, NEW kind, NEW span, NEW parts,
         nodes' = Append(nodes, NewNode(c, kind, span, parts))
  PROVE  /\ Fresh \in Nat /\ Fresh # 0
         /\ nodes'[Fresh].kind = kind /\ nodes'[Fresh].parts = parts
         /\ nodes'[Fresh].from = frame.from /\ nodes'[Fresh].to = c.position
<1> DEFINE node == NewNode(c, kind, span, parts)
<1>1. node.kind = kind /\ node.parts = parts /\ node.from = frame.from /\ node.to = c.position
  BY DEF NewNode, NodeFrom
<1> HIDE DEF node
<1>2. Len(nodes) \in Nat /\ nodes'[Fresh] = node
  BY GraftGrown DEF Sound, node
<1>3. Fresh \in Nat /\ Fresh # 0
  BY <1>2 DEF Fresh
<1>4. QED
  BY <1>1, <1>2, <1>3

(* Its operands stay what they were. *)
LEMMA OperandsStay ==
  ASSUME Sound, NEW node, nodes' = Append(nodes, node)
  PROVE  \A i \in 1..Len(nodes) :
           /\ i \in 1..Fresh - 1 /\ nodes'[i] = nodes[i]
           /\ Behind(text, nodes', i) = Behind(text, nodes, i)
           /\ Binds(text, nodes', i) = Binds(text, nodes, i)
           /\ Binds(text, nodes, i) \in 1..10
<1>1. Grown(nodes, nodes') /\ Len(nodes) \in Nat
  BY GraftGrown DEF Sound
<1>2. AllGrouped(text, nodes)
  BY TopFacts
<1>3. \A i \in 1..Len(nodes) : Binds(text, nodes, i) \in 1..10
  BY <1>2 DEF AllGrouped, Grouped
<1>4. \A i \in 1..Len(nodes) : i \in 1..Fresh - 1
  BY <1>1 DEF Fresh
<1>5. \A i \in 1..Len(nodes) :
        /\ nodes'[i] = nodes[i] /\ Behind(text, nodes', i) = Behind(text, nodes, i)
        /\ Binds(text, nodes', i) = Binds(text, nodes, i)
  BY <1>1, <1>2, GroupedStays
<1>6. QED
  BY <1>3, <1>4, <1>5

(* The first thing that was returned is all that is held. *)
LEMMA HeldAlone ==
  ASSUME frame.parts = <<>>
  PROVE  Held = <<returned>>
<1>1. Append(<<>>, returned) = <<returned>>
  OBVIOUS
<1>2. QED
  BY <1>1 DEF Held

(* ParseAssignment: an operand binds tighter than the assignment it is the  *)
(* left side of.                                                           *)
LEMMA AssignmentClimbs ==
  ASSUME Sound, ParseAssignment \/ LeftParsed \/ EndAssignment
  PROVE  PrecInv'
<1>1. frame.routine = "Assignment" /\ Running /\ IInv
  BY DEF ParseAssignment, LeftParsed, EndAssignment, At, Sound
<1>2. /\ Holds(text, nodes, frame)
      /\ Awaits(frame) => \E g \in FrameRecord : /\ Calling(text, nodes, frame, g)
                                                 /\ Answers(text, nodes, g, returned,
                                                            context.position)
  BY TopFacts
<1>3. \A point, parts :
        /\ Resume(point, parts).routine = "Assignment" /\ Resume(point, parts).point = point
        /\ Resume(point, parts).parts = parts
  BY <1>1, ResumeIs
<1>4. ASSUME ParseAssignment PROVE PrecInv'
  <2> DEFINE callee == BinaryFrame(context, LogicalOr)
             r == Resume("left", <<>>)
  <2>1. InvokeFrame(callee, "left", context, <<>>)
    BY <1>4 DEF ParseAssignment
  <2>2. callee.routine = "Binary" /\ callee.least = 2 /\ callee.parts = <<>>
        /\ callee.point = "start"
    BY DEF BinaryFrame, Frame, LogicalOr
  <2>3. r.routine = "Assignment" /\ r.point = "left" /\ r.parts = <<>>
    BY <1>3
  <2> HIDE DEF callee, r
  <2>4. Holds(text, nodes, r) /\ Linked(text, nodes, r, callee)
    BY <2>2, <2>3 DEF Holds, Linked, Calling, Awaits, Is, Expressing, LogicalOr
  <2>5. ~Awaits(callee) /\ Holds(text, nodes, callee)
        /\ Stands(text, nodes, callee, context.position)
    BY <2>2 DEF Holds, Stands, Awaits, Is
  <2>6. QED
    BY <2>1, <2>4, <2>5, InvokeClimbs DEF r
<1>5. ASSUME LeftParsed PROVE PrecInv'
  <2>1. frame.point = "left"
    BY <1>5 DEF LeftParsed, At
  <2>2. Held = <<returned>>
    BY <1>1, <1>2, <2>1, HeldAlone DEF Holds, Is
  <2>3. PICK g \in FrameRecord : /\ g.routine = "Binary" /\ g.least = 2
                                 /\ Answers(text, nodes, g, returned, context.position)
    <3>1. Awaits(frame)
      BY <1>1, <2>1 DEF Awaits, Expressing
    <3>2. QED
      BY <1>1, <1>2, <2>1, <3>1 DEF Calling, Is, LogicalOr
  <2>4. returned # 0 /\ Binds(text, nodes, returned) >= 2
    BY <2>3 DEF Answers
  <2>5. CASE Invoke("Assignment", "value", Consumed(context), Held)
    <3> DEFINE c == Consumed(context)
               callee == Frame("Assignment", c)
               r == Resume("value", Held)
    <3>1. InvokeFrame(callee, "value", c, Held)
      BY <2>5 DEF Invoke
    <3>2. callee.routine = "Assignment" /\ callee.parts = <<>> /\ callee.point = "start"
      BY DEF Frame
    <3>3. r.routine = "Assignment" /\ r.point = "value" /\ r.parts[1] = returned
      BY <1>3, <2>2
    <3> HIDE DEF callee, r, c
    <3>4. Binds(text, nodes, returned) > 1
      <4>1. Binds(text, nodes, returned) \in 1..10
        <5>1. returned \in 1..Len(nodes)
          BY <1>1, <2>4, FrameFacts DEF IInv, NodesInv
        <5>2. QED
          BY <5>1, TopFacts DEF AllGrouped, Grouped
      <4>2. QED
        BY <2>4, <4>1
    <3>5. Holds(text, nodes, r) /\ Linked(text, nodes, r, callee)
      BY <3>2, <3>3, <3>4 DEF Holds, Linked, Awaits, Is
    <3>6. ~Awaits(callee) /\ Holds(text, nodes, callee)
          /\ Stands(text, nodes, callee, c.position)
      BY <3>2 DEF Holds, Stands, Awaits, Is
    <3>7. QED
      BY <3>1, <3>5, <3>6, InvokeClimbs DEF r
  <2>6. CASE Return(context, returned)
    <3>1. Answers(text, nodes, frame, returned, context.position)
      BY <1>1, <2>4 DEF Answers
    <3>2. QED
      BY <2>6, <3>1, ReturnClimbs
  <2>7. QED
    BY <1>5, <2>5, <2>6 DEF LeftParsed
<1>6. ASSUME EndAssignment PROVE PrecInv'
  <2> DEFINE span == ExtendSpan(nodes[frame.parts[1]].span, nodes[returned].span)
             left == frame.parts[1]
  <2>1. frame.point = "value"
    BY <1>6 DEF EndAssignment, At
  <2>2. Binds(text, nodes, left) > 1
    BY <1>1, <1>2, <2>1 DEF Holds, Is
  <2>3. /\ frame.parts \in Seq(Nat) /\ Len(frame.parts) \in Nat /\ Len(frame.parts) >= 1
        /\ 0 \notin Indices(frame.parts) /\ left \in 1..Len(nodes)
    <3>1. PartsNeeded(frame.routine, frame.point) = 1
      BY <1>1, <2>1 DEF PartsNeeded
    <3>2. /\ frame.parts \in Seq(Nat) /\ Len(frame.parts) \in Nat /\ Len(frame.parts) >= 1
          /\ 0 \notin Indices(frame.parts)
      BY <1>1, <2>1, <3>1, TrustedFacts
    <3>3. 1 \in 1..Len(frame.parts)
      BY <3>2
    <3>4. QED
      BY <1>1, <3>2, <3>3, PartsFacts
  <2>4. CASE Return(context, Last(frame.parts))
    <3>1. Last(frame.parts) # 0
      BY <2>3 DEF Last, Indices
    <3>2. Answers(text, nodes, frame, Last(frame.parts), context.position)
      BY <1>1, <3>1 DEF Answers
    <3>3. QED
      BY <2>4, <3>2, ReturnClimbs
  <2>5. CASE ReturnNode(context, "Assignment", span, Held)
    <3>1. nodes' = Append(nodes, NewNode(context, "Assignment", span, Held))
      BY <2>5 DEF ReturnNode
    <3> HIDE DEF span
    <3>2. Held # <<>> /\ Held[1] = left
      BY <2>3 DEF Held
    <3>3. /\ nodes'[Fresh].kind = "Assignment" /\ nodes'[Fresh].parts = Held
          /\ Fresh # 0 /\ left \in 1..Fresh - 1
          /\ Binds(text, nodes', left) = Binds(text, nodes, left)
      BY <2>3, <3>1, NewNodeIs, OperandsStay
    <3>4. Binds(text, nodes', Fresh) = 1
      BY <3>3 DEF Binds
    <3>5. Grouped(text, nodes', Fresh)
      BY <2>2, <3>2, <3>3, <3>4 DEF Grouped
    <3>6. Answers(text, nodes', frame, Fresh, context.position)
      BY <1>1, <3>3 DEF Answers
    <3>7. QED
      BY <2>5, <3>5, <3>6, ReturnNodeClimbs
  <2>6. QED
    BY <1>6, <2>4, <2>5 DEF EndAssignment
<1>7. QED
  BY <1>4, <1>5, <1>6

(* The precedence of a binary operator. *)
LEMMA PrecedenceFacts ==
  ASSUME NEW type \in BinaryOperators
  PROVE  Precedence[type] \in 2..7 /\ Precedence[type] + 1 \in 2..8
<1>1. type \in {"||", "&&", "==", "<", "+", "-", "*"}
  BY DEF BinaryOperators, Precedence
<1>2. Precedence[type] \in {2, 3, 4, 5, 6, 7}
  BY <1>1 DEF Precedence
<1>3. QED
  BY <1>2

(* The only operand of a function that parses a binary operator, and the    *)
(* node that was returned to it.                                           *)
LEMMA LeftFacts ==
  ASSUME Sound, frame.routine = "Binary", frame.point \in {"operator", "right"}
  PROVE  LET left == frame.parts[1] IN
         /\ Len(frame.parts) = 1 /\ left \in 1..Len(nodes) /\ left # 0
         /\ Last(frame.parts) = left
         /\ Held = <<left, returned>>
         /\ Binds(text, nodes, left) \in 1..10 /\ Binds(text, nodes, left) >= frame.least
<1> DEFINE left == frame.parts[1]
<1>1. Len(frame.parts) = 1 /\ Binds(text, nodes, left) >= frame.least
  BY TopFacts DEF Holds, Is
<1>2. PartsNeeded(frame.routine, frame.point) = 1
  BY DEF PartsNeeded
<1>3. frame.parts \in Seq(Nat) /\ 0 \notin Indices(frame.parts)
  BY <1>2, TrustedFacts DEF Sound
<1>4. left \in 1..Len(nodes) /\ returned \in Nat
  <2>1. 1 \in 1..Len(frame.parts)
    BY <1>1
  <2>2. left \in 1..Len(nodes)
    BY <1>3, <2>1, PartsFacts DEF Sound
  <2>3. returned \in Nat
    BY DEF Sound, IInv, NodesInv
  <2>4. QED
    BY <2>2, <2>3
<1>5. frame.parts = <<left>>
  BY <1>1, <1>3
<1>6. Held = <<left, returned>>
  <2>1. ASSUME NEW i \in Nat, NEW j \in Nat PROVE Append(<<i>>, j) = <<i, j>>
    <3> DEFINE u == Append(<<i>>, j)
    <3>1. <<i>> \in Seq(Nat) /\ Len(<<i>>) = 1 /\ <<i>>[1] = i
      OBVIOUS
    <3>2. u \in Seq(Nat) /\ Len(u) = 2 /\ u[1] = i /\ u[2] = j
      BY <3>1
    <3> HIDE DEF u
    <3>3. u = <<i, j>>
      BY <3>2
    <3>4. QED
      BY <3>3 DEF u
  <2>2. left \in Nat
    BY <1>4
  <2> HIDE DEF left
  <2>3. Held = Append(<<left>>, returned)
    BY <1>5 DEF Held
  <2>4. QED
    BY <1>4, <2>1, <2>2, <2>3
<1>7. Binds(text, nodes, left) \in 1..10
  BY <1>4, TopFacts DEF AllGrouped, Grouped
<1>8. QED
  BY <1>1, <1>4, <1>5, <1>6, <1>7 DEF Last

(* ParseBinary, as far as it looks for operators: it takes no operator that *)
(* binds less than it was asked for, and what stands to the left of one     *)
(* binds no less than that.                                                *)
LEMMA OperatorClimbs ==
  ASSUME Sound, ParseBinary \/ OperandParsed \/ ParseOperator
  PROVE  PrecInv'
<1>1. frame.routine = "Binary" /\ Running /\ IInv
  BY DEF ParseBinary, OperandParsed, ParseOperator, At, Sound
<1>2. /\ Holds(text, nodes, frame) /\ Stands(text, nodes, frame, context.position)
      /\ Awaits(frame) => \E g \in FrameRecord : /\ Calling(text, nodes, frame, g)
                                                 /\ Answers(text, nodes, g, returned,
                                                            context.position)
      /\ Peek(context) = text[context.position + 1]
      /\ frame.least \in 2..8
  BY <1>1, TopFacts DEF Holds
<1>3. \A point, parts :
        LET r == Resume(point, parts) IN
        r.routine = "Binary" /\ r.point = point /\ r.parts = parts /\ r.least = frame.least
  BY <1>1, ResumeIs
<1>4. ASSUME ParseBinary PROVE PrecInv'
  <2> DEFINE callee == Frame("Unary", context)
             r == Resume("operand", <<>>)
  <2>1. InvokeFrame(callee, "operand", context, <<>>)
    BY <1>4 DEF ParseBinary, Invoke
  <2>2. callee.routine = "Unary" /\ callee.parts = <<>> /\ callee.point = "start"
        /\ callee.from = context.position
    BY DEF Frame
  <2>3. r.routine = "Binary" /\ r.point = "operand" /\ r.parts = <<>> /\ r.least \in 2..8
    BY <1>2, <1>3
  <2> HIDE DEF callee, r
  <2>4. Holds(text, nodes, r) /\ Linked(text, nodes, r, callee)
    BY <2>2, <2>3 DEF Holds, Linked, Calling, Awaits, Is, Expressing
  <2>5. ~Awaits(callee) /\ Holds(text, nodes, callee)
        /\ Stands(text, nodes, callee, context.position)
    BY <2>2 DEF Holds, Stands, Awaits, Is
  <2>6. QED
    BY <2>1, <2>4, <2>5, InvokeClimbs DEF r
<1>5. ASSUME OperandParsed PROVE PrecInv'
  <2>1. frame.point = "operand"
    BY <1>5 DEF OperandParsed, At
  <2>2. Held = <<returned>>
    BY <1>1, <1>2, <2>1, HeldAlone DEF Holds, Is
  <2>3. /\ returned # 0 /\ Binds(text, nodes, returned) >= 8
        /\ nodes[returned].to = context.position
    <3>1. Awaits(frame)
      BY <1>1, <2>1 DEF Awaits, Expressing
    <3>2. PICK g \in FrameRecord : /\ Calling(text, nodes, frame, g)
                                   /\ Answers(text, nodes, g, returned, context.position)
      BY <1>2, <3>1
    <3>3. g.routine = "Unary"
      BY <1>1, <2>1, <3>2 DEF Calling, Is
    <3>4. QED
      BY <3>2, <3>3 DEF Answers
  <2>4. Binds(text, nodes, returned) \in 1..10
    <3>1. returned \in 1..Len(nodes)
      BY <1>1, <2>3, FrameFacts DEF IInv, NodesInv
    <3>2. QED
      BY <3>1, TopFacts DEF AllGrouped, Grouped
  <2> DEFINE r == Resume("operator", Held)
  <2>5. Continue("operator", context, Held)
    BY <1>5, <2>3 DEF OperandParsed
  <2>6. /\ r.routine = "Binary" /\ r.point = "operator" /\ r.least \in 2..8
        /\ Len(r.parts) = 1 /\ r.parts[1] = returned
    BY <1>2, <1>3, <2>2
  <2> HIDE DEF r
  <2>7. Binds(text, nodes, returned) >= r.least
    BY <2>3, <2>4, <2>6
  <2>8. Holds(text, nodes, r)
    BY <2>6, <2>7 DEF Holds, Is
  <2>9. text[context.position + 1] \in BinaryOperators =>
          Precedence[text[context.position + 1]] <= Binds(text, nodes, returned)
    <3>1. \A type \in BinaryOperators : Precedence[type] \in 2..7
      BY PrecedenceFacts
    <3>2. QED
      BY <2>3, <2>4, <3>1
  <2>10. Stands(text, nodes, r, context.position) /\ ~Awaits(r)
    BY <2>3, <2>6, <2>9 DEF Stands, Awaits, Is
  <2>11. QED
    BY <2>5, <2>8, <2>10, ContinueClimbs DEF r
<1>6. ASSUME ParseOperator PROVE PrecInv'
  <2> DEFINE left == frame.parts[1]
             type == Peek(context)
  <2>1. frame.point = "operator"
    BY <1>6 DEF ParseOperator, At
  <2>2. /\ Len(frame.parts) = 1 /\ left # 0 /\ Last(frame.parts) = left
        /\ Binds(text, nodes, left) \in 1..10 /\ Binds(text, nodes, left) >= frame.least
    BY <1>1, <2>1, LeftFacts
  <2>3. /\ Behind(text, nodes, left) = type
        /\ type \in BinaryOperators => Precedence[type] <= Binds(text, nodes, left)
    BY <1>1, <1>2, <2>1 DEF Stands, Is, Behind
  <2>4. CASE type \in BinaryOperators /\ Precedence[type] >= frame.least
    <3> DEFINE c == Consumed(context)
               callee == BinaryFrame(c, Precedence[type] + 1)
               r == Resume("right", frame.parts)
    <3>1. InvokeFrame(callee, "right", c, frame.parts)
      BY <1>6, <2>4 DEF ParseOperator
    <3>2. callee.routine = "Binary" /\ callee.parts = <<>> /\ callee.point = "start"
          /\ callee.least = Precedence[type] + 1
      BY DEF BinaryFrame, Frame
    <3>3. Precedence[type] \in 2..7 /\ callee.least \in 2..8
      BY <2>4, <3>2, PrecedenceFacts
    <3>4. /\ r.routine = "Binary" /\ r.point = "right" /\ r.least = frame.least
          /\ r.least \in 2..8 /\ Len(r.parts) = 1 /\ r.parts[1] = left
      BY <1>2, <1>3, <2>2
    <3> HIDE DEF callee, r, c, type, left
    <3>5. frame.least <= Precedence[type]
      BY <1>2, <2>4, <3>3
    <3>6. Holds(text, nodes, r)
      BY <2>2, <2>3, <2>4, <3>4, <3>5 DEF Holds, Is
    <3>7. Linked(text, nodes, r, callee)
      BY <2>3, <3>2, <3>4 DEF Linked, Calling, Awaits, Is, Expressing
    <3>8. ~Awaits(callee) /\ Holds(text, nodes, callee)
          /\ Stands(text, nodes, callee, c.position)
      BY <3>2, <3>3 DEF Holds, Stands, Awaits, Is
    <3>9. QED
      BY <3>1, <3>6, <3>7, <3>8, InvokeClimbs DEF r
  <2>5. CASE ~(type \in BinaryOperators /\ Precedence[type] >= frame.least)
    <3>1. Return(context, left)
      BY <1>6, <2>2, <2>5 DEF ParseOperator
    <3>2. type \in BinaryOperators => Precedence[type] < frame.least
      <4>1. type \in BinaryOperators => Precedence[type] \in 2..7
        BY PrecedenceFacts
      <4>2. QED
        BY <1>2, <2>5, <4>1
    <3>3. Answers(text, nodes, frame, left, context.position)
      BY <1>1, <1>2, <2>2, <3>2 DEF Answers
    <3>4. QED
      BY <3>1, <3>3, ReturnClimbs
  <2>6. QED
    BY <2>4, <2>5
<1>7. QED
  BY <1>4, <1>5, <1>6

(* The node of a binary operator: the left side binds no less than it, the  *)
(* right side more.                                                        *)
LEMMA RightClimbs ==
  ASSUME Sound, RightParsed
  PROVE  PrecInv'
<1> DEFINE left == frame.parts[1]
           type == Behind(text, nodes, left)
           span == ExtendSpan(nodes[left].span, nodes[returned].span)
           node == NewNode(context, "Binary", span, Held)
           r == Resume("operator", <<Fresh>>)
<1>1. frame.routine = "Binary" /\ frame.point = "right" /\ Running /\ IInv
  BY DEF RightParsed, At, Sound
<1>2. /\ left \in 1..Len(nodes) /\ Held = <<left, returned>>
      /\ Binds(text, nodes, left) \in 1..10
  BY <1>1, LeftFacts
<1>3. /\ type \in BinaryOperators /\ frame.least \in 2..8
      /\ frame.least <= Precedence[type] /\ Precedence[type] <= Binds(text, nodes, left)
  BY <1>1, TopFacts DEF Holds, Is
<1>4. PICK g \in FrameRecord : /\ Calling(text, nodes, frame, g)
                               /\ Answers(text, nodes, g, returned, context.position)
  BY <1>1, TopFacts DEF Awaits, Expressing
<1>5. g.routine = "Binary" /\ g.least = Precedence[type] + 1
  BY <1>1, <1>4 DEF Calling, Is
<1>6. /\ returned # 0 /\ Binds(text, nodes, returned) >= Precedence[type] + 1
      /\ text[context.position + 1] \in BinaryOperators =>
           Precedence[text[context.position + 1]] < Precedence[type] + 1
  BY <1>4, <1>5 DEF Answers
<1>7. returned \in 1..Len(nodes)
  BY <1>1, <1>6, FrameFacts DEF IInv, NodesInv
<1>8. ContinueWith("operator", context, node, <<Fresh>>)
  BY <1>6 DEF RightParsed
<1>9. nodes' = Append(nodes, node)
  BY <1>8 DEF ContinueWith
<1> HIDE DEF span
<1>10. /\ nodes'[Fresh].kind = "Binary" /\ nodes'[Fresh].parts = Held
       /\ nodes'[Fresh].to = context.position /\ Fresh # 0
       /\ left \in 1..Fresh - 1 /\ returned \in 1..Fresh - 1
       /\ Behind(text, nodes', left) = type
       /\ Binds(text, nodes', left) = Binds(text, nodes, left)
       /\ Binds(text, nodes', returned) = Binds(text, nodes, returned)
       /\ Binds(text, nodes, returned) \in 1..10
  <2> HIDE DEF left
  <2>1. \A i \in 1..Len(nodes) :
          /\ i \in 1..Fresh - 1
          /\ Behind(text, nodes', i) = Behind(text, nodes, i)
          /\ Binds(text, nodes', i) = Binds(text, nodes, i)
          /\ Binds(text, nodes, i) \in 1..10
    BY <1>9, NewNodeIs, OperandsStay
  <2>2. /\ nodes'[Fresh].kind = "Binary" /\ nodes'[Fresh].parts = Held
        /\ nodes'[Fresh].to = context.position /\ Fresh # 0
    BY <1>9, NewNodeIs, OperandsStay
  <2>3. QED
    BY <1>2, <1>7, <2>1, <2>2
<1> HIDE DEF node
<1>11. Held # <<>> /\ Len(Held) = 2 /\ Held[1] = left /\ Held[2] = returned
  BY <1>2
<1>12. Precedence[type] \in 2..7
  BY <1>3, PrecedenceFacts
<1> HIDE DEF left, type
<1>13. Binds(text, nodes', Fresh) = Precedence[type]
  BY <1>10, <1>11 DEF Binds
<1>14. Grouped(text, nodes', Fresh)
  <2>1. /\ Binds(text, nodes', left) >= Binds(text, nodes', Fresh)
        /\ Binds(text, nodes', returned) > Binds(text, nodes', Fresh)
        /\ Binds(text, nodes', Fresh) \in 1..10
    BY <1>2, <1>3, <1>6, <1>10, <1>12, <1>13
  <2>2. QED
    BY <1>10, <1>11, <2>1 DEF Grouped
<1>15. /\ r.routine = "Binary" /\ r.point = "operator" /\ r.least = frame.least
       /\ Len(r.parts) = 1 /\ r.parts[1] = Fresh
  BY <1>1, ResumeIs
<1> HIDE DEF r
<1>16. Binds(text, nodes', Fresh) >= frame.least
  BY <1>3, <1>12, <1>13
<1>17. Holds(text, nodes', r)
  BY <1>3, <1>15, <1>16 DEF Holds, Is
<1>18. text[context.position + 1] \in BinaryOperators =>
         Precedence[text[context.position + 1]] <= Binds(text, nodes', Fresh)
  <2>1. \A t \in BinaryOperators : Precedence[t] \in 2..7
    BY PrecedenceFacts
  <2>2. QED
    BY <1>6, <1>12, <1>13, <2>1
<1>19. Stands(text, nodes', r, context.position) /\ ~Awaits(r)
  BY <1>10, <1>15, <1>18 DEF Stands, Awaits, Is
<1>20. QED
  BY <1>8, <1>14, <1>17, <1>19, ContinueWithClimbs DEF r

(* ParseUnary: a prefix operator binds no tighter than what it is before,   *)
(* and a postfix one stands behind a primary expression.                   *)
LEMMA UnaryClimbs ==
  ASSUME Sound, ParseUnary \/ EndPrefix \/ EndPostfix
  PROVE  PrecInv'
<1>1. frame.routine = "Unary" /\ Running /\ IInv /\ frame.from \in Nat
  BY FrameFacts DEF ParseUnary, EndPrefix, EndPostfix, At, Sound
<1>2. /\ frame.parts = <<>> /\ Held = <<returned>>
      /\ Stands(text, nodes, frame, context.position)
      /\ Awaits(frame) => \E g \in FrameRecord : /\ Calling(text, nodes, frame, g)
                                                 /\ Answers(text, nodes, g, returned,
                                                            context.position)
  BY <1>1, TopFacts, HeldAlone DEF Holds
<1>3. returned # 0 => returned \in 1..Len(nodes)
  BY <1>1, FrameFacts DEF IInv, NodesInv
<1>4. Held # <<>> /\ Held[1] = returned
  BY <1>2
<1>5. \A point :
        LET r == Resume(point, <<>>) IN
        /\ r.routine = "Unary" /\ r.point = point /\ r.parts = <<>> /\ r.from = frame.from
        /\ Holds(text, nodes, r)
  BY <1>1, ResumeIs DEF Holds, Is
<1>6. ASSUME ParseUnary PROVE PrecInv'
  <2>1. frame.from = context.position /\ context.position \in Nat
    BY <1>1, <1>2, <1>6, FrameFacts DEF ParseUnary, At, Stands, Is
  <2>2. CASE Peek(context) \in PrefixOperators
    <3> DEFINE c == Consumed(context)
               callee == Frame("Unary", c)
               r == Resume("operand", <<>>)
    <3>1. InvokeFrame(callee, "operand", c, <<>>)
      BY <1>6, <2>2 DEF ParseUnary, Invoke
    <3>2. c.position = context.position + 1
      <4>1. Peek(context) # "eof"
        BY <2>2 DEF PrefixOperators
      <4>2. QED
        BY <1>1, <4>1, ConsumedFollows DEF IInv
    <3>3. callee.routine = "Unary" /\ callee.parts = <<>> /\ callee.point = "start"
          /\ callee.from = c.position
      BY DEF Frame
    <3>4. r.routine = "Unary" /\ r.point = "operand" /\ r.from = frame.from
          /\ Holds(text, nodes, r)
      BY <1>5
    <3> HIDE DEF callee, c, r
    <3>5. r.from < callee.from
      BY <2>1, <3>2, <3>3, <3>4
    <3>6. Linked(text, nodes, r, callee)
      BY <3>3, <3>4, <3>5 DEF Linked, Calling, Awaits, Is, Expressing
    <3>7. ~Awaits(callee) /\ Holds(text, nodes, callee)
          /\ Stands(text, nodes, callee, c.position)
      BY <3>3 DEF Holds, Stands, Awaits, Is
    <3>8. QED
      BY <3>1, <3>4, <3>6, <3>7, InvokeClimbs DEF r
  <2>3. CASE Peek(context) \notin PrefixOperators
    <3> DEFINE callee == Frame("Primary", context)
               r == Resume("primary", <<>>)
    <3>1. InvokeFrame(callee, "primary", context, <<>>)
      BY <1>6, <2>3 DEF ParseUnary, Invoke
    <3>2. callee.routine = "Primary" /\ callee.parts = <<>> /\ callee.point = "start"
          /\ callee.from = context.position
      BY DEF Frame
    <3>3. r.routine = "Unary" /\ r.point = "primary" /\ r.from = frame.from
          /\ Holds(text, nodes, r)
      BY <1>5
    <3> HIDE DEF callee, r
    <3>4. Linked(text, nodes, r, callee)
      BY <2>1, <3>2, <3>3 DEF Linked, Calling, Awaits, Is, Expressing
    <3>5. ~Awaits(callee) /\ Holds(text, nodes, callee)
          /\ Stands(text, nodes, callee, context.position)
      BY <3>2 DEF Holds, Stands, Awaits, Is
    <3>6. QED
      BY <3>1, <3>3, <3>4, <3>5, InvokeClimbs DEF r
  <2>4. QED
    BY <2>2, <2>3
<1>7. ASSUME EndPrefix PROVE PrecInv'
  <2> DEFINE span == Extended(StartSpan, returned)
  <2>1. frame.point = "operand" /\ Awaits(frame)
    BY <1>1, <1>7 DEF EndPrefix, At, Awaits, Expressing
  <2>2. PICK g \in FrameRecord : /\ Calling(text, nodes, frame, g)
                                 /\ Answers(text, nodes, g, returned, context.position)
    BY <1>2, <2>1
  <2>3. g.routine = "Unary" /\ frame.from < g.from
    BY <1>1, <2>1, <2>2 DEF Calling, Is
  <2>4. /\ returned # 0 /\ Binds(text, nodes, returned) >= 8
        /\ nodes[returned].from = g.from
    BY <2>2, <2>3 DEF Answers
  <2>5. ReturnNode(context, "Unary", span, Held)
    BY <1>7, <2>4 DEF EndPrefix
  <2>6. nodes' = Append(nodes, NewNode(context, "Unary", span, Held))
    BY <2>5 DEF ReturnNode
  <2> HIDE DEF span
  <2>7. /\ nodes'[Fresh].kind = "Unary" /\ nodes'[Fresh].parts = Held
        /\ nodes'[Fresh].from = frame.from /\ nodes'[Fresh].to = context.position
        /\ Fresh # 0 /\ returned \in 1..Fresh - 1 /\ nodes'[returned] = nodes[returned]
        /\ Binds(text, nodes', returned) = Binds(text, nodes, returned)
    BY <1>3, <2>4, <2>6, NewNodeIs, OperandsStay
  <2>8. Prefixed(nodes', Fresh)
    BY <1>4, <2>3, <2>4, <2>7 DEF Prefixed
  <2>9. Binds(text, nodes', Fresh) = 8
    BY <2>7, <2>8 DEF Binds
  <2>10. Grouped(text, nodes', Fresh)
    BY <1>4, <2>4, <2>7, <2>8, <2>9 DEF Grouped
  <2>11. Answers(text, nodes', frame, Fresh, context.position)
    BY <1>1, <2>7, <2>9 DEF Answers
  <2>12. QED
    BY <2>5, <2>10, <2>11, ReturnNodeClimbs
<1>8. ASSUME EndPostfix PROVE PrecInv'
  <2> DEFINE span == ExtendSpan(nodes[returned].span, TokenSpan(context.position))
             c == Consumed(context)
  <2>1. frame.point = "primary" /\ Awaits(frame)
    BY <1>1, <1>8 DEF EndPostfix, At, Awaits, Expressing
  <2>2. PICK g \in FrameRecord : /\ Calling(text, nodes, frame, g)
                                 /\ Answers(text, nodes, g, returned, context.position)
    BY <1>2, <2>1
  <2>3. g.routine = "Primary" /\ g.from = frame.from
    BY <1>1, <2>1, <2>2 DEF Calling, Is
  <2>4. /\ returned # 0 /\ Binds(text, nodes, returned) = 10
        /\ nodes[returned].from = frame.from /\ nodes[returned].to = context.position
    BY <2>2, <2>3 DEF Answers
  <2>5. CASE Return(context, returned)
    <3>1. Answers(text, nodes, frame, returned, context.position)
      BY <1>1, <2>4 DEF Answers
    <3>2. QED
      BY <2>5, <3>1, ReturnClimbs
  <2>6. CASE ReturnNode(c, "Unary", span, Held)
    <3>1. nodes' = Append(nodes, NewNode(c, "Unary", span, Held))
      BY <2>6 DEF ReturnNode
    <3> HIDE DEF span, c
    <3>2. /\ nodes'[Fresh].kind = "Unary" /\ nodes'[Fresh].parts = Held
          /\ nodes'[Fresh].from = frame.from /\ nodes'[Fresh].to = c.position
          /\ Fresh # 0 /\ returned \in 1..Fresh - 1 /\ nodes'[returned] = nodes[returned]
          /\ Binds(text, nodes', returned) = Binds(text, nodes, returned)
      <4>1. /\ nodes'[Fresh].kind = "Unary" /\ nodes'[Fresh].parts = Held
            /\ nodes'[Fresh].from = frame.from /\ nodes'[Fresh].to = c.position
            /\ Fresh # 0
        BY <3>1, NewNodeIs, OperandsStay
      <4>2. \A i \in 1..Len(nodes) :
              /\ i \in 1..Fresh - 1 /\ nodes'[i] = nodes[i]
              /\ Binds(text, nodes', i) = Binds(text, nodes, i)
        BY <3>1, NewNodeIs, OperandsStay
      <4>3. QED
        BY <1>3, <2>4, <4>1, <4>2
    <3>3. ~Prefixed(nodes', Fresh)
      BY <1>1, <1>4, <2>4, <3>2 DEF Prefixed
    <3>4. Binds(text, nodes', Fresh) = 9
      BY <3>2, <3>3 DEF Binds
    <3>5. Grouped(text, nodes', Fresh)
      BY <1>4, <2>4, <3>2, <3>3, <3>4 DEF Grouped
    <3>6. Answers(text, nodes', frame, Fresh, c.position)
      BY <1>1, <3>2, <3>4 DEF Answers
    <3>7. QED
      BY <2>6, <3>5, <3>6, ReturnNodeClimbs
  <2>7. QED
    BY <1>8, <2>5, <2>6 DEF EndPostfix
<1>9. QED
  BY <1>6, <1>7, <1>8

(* A node that the postfix operators go on with. *)
LEMMA PostfixClimbs ==
  ASSUME Sound, frame.routine = "Primary", NEW c, NEW kind, NEW span, NEW parts,
         ContinueWith("postfix", c, NewNode(c, kind, span, parts), <<Fresh>>),
         kind \notin {"Assignment", "Binary", "Unary"},
         kind \in {"Call", "MemberAccess"} =>
           /\ parts # <<>> /\ parts[1] \in 1..Len(nodes)
           /\ Binds(text, nodes, parts[1]) = 10
  PROVE  PrecInv'
<1> DEFINE node == NewNode(c, kind, span, parts)
           r == Resume("postfix", <<Fresh>>)
<1>1. nodes' = Append(nodes, node)
  BY DEF ContinueWith
<1>2. node.kind = kind /\ node.parts = parts /\ node.from = frame.from /\ node.to = c.position
  BY DEF NewNode, NodeFrom
<1> HIDE DEF node
<1>3. nodes'[Fresh] = node
  BY <1>1, GraftGrown DEF Sound
<1>4. \A i \in 1..Len(nodes) :
        i \in 1..Fresh - 1 /\ Binds(text, nodes', i) = Binds(text, nodes, i)
  BY <1>1, OperandsStay
<1>5. Binds(text, nodes', Fresh) = 10
  BY <1>2, <1>3 DEF Binds
<1>6. Grouped(text, nodes', Fresh)
  <2>1. CASE kind \in {"Call", "MemberAccess"}
    <3>1. parts[1] \in 1..Fresh - 1 /\ Binds(text, nodes', parts[1]) = 10
      BY <2>1, <1>4
    <3>2. QED
      BY <1>2, <1>3, <1>5, <2>1, <3>1 DEF Grouped, Operating
  <2>2. CASE kind \notin {"Call", "MemberAccess"}
    BY <1>2, <1>3, <1>5, <2>2 DEF Grouped, Operating
  <2>3. QED
    BY <2>1, <2>2
<1>7. /\ r.routine = "Primary" /\ r.point = "postfix" /\ r.from = frame.from
      /\ r.parts[1] = Fresh
  BY ResumeIs DEF Sound
<1> HIDE DEF r
<1>8. Holds(text, nodes', r)
  BY <1>2, <1>3, <1>5, <1>7 DEF Holds, Is
<1>9. Stands(text, nodes', r, c.position) /\ ~Awaits(r)
  BY <1>2, <1>3, <1>7 DEF Stands, Awaits, Is
<1>10. QED
  BY <1>6, <1>8, <1>9, ContinueWithClimbs DEF node, r

(* The node a primary expression ends with. *)
LEMMA PrimaryClimbs ==
  ASSUME Sound, frame.routine = "Primary", NEW c, NEW kind, NEW span, NEW parts,
         ReturnNode(c, kind, span, parts), kind \notin Operating
  PROVE  PrecInv'
<1>1. nodes' = Append(nodes, NewNode(c, kind, span, parts))
  BY DEF ReturnNode
<1>2. /\ nodes'[Fresh].kind = kind /\ Fresh # 0
      /\ nodes'[Fresh].from = frame.from /\ nodes'[Fresh].to = c.position
  BY <1>1, NewNodeIs
<1>3. Grouped(text, nodes', Fresh) /\ Binds(text, nodes', Fresh) = 10
  BY <1>2, PlainGrouped
<1>4. Answers(text, nodes', frame, Fresh, c.position)
  BY <1>2, <1>3 DEF Answers
<1>5. QED
  BY <1>3, <1>4, ReturnNodeClimbs

(* A primary expression asks for another expression. *)
LEMMA NestedClimbs ==
  ASSUME Sound, frame.routine = "Primary", NEW c, NEW point, NEW parts,
         Invoke("Assignment", point, c, parts),
         \/ point \in {"inner", "scrutinee"} /\ parts = <<>>
         \/ /\ point = "argument"
            /\ Binds(text, nodes, parts[1]) = 10 /\ nodes[parts[1]].from = frame.from
  PROVE  PrecInv'
<1> DEFINE callee == Frame("Assignment", c)
           r == Resume(point, parts)
<1>1. InvokeFrame(callee, point, c, parts)
  BY DEF Invoke
<1>2. callee.routine = "Assignment" /\ callee.parts = <<>> /\ callee.point = "start"
  BY DEF Frame
<1>3. r.routine = "Primary" /\ r.point = point /\ r.parts = parts /\ r.from = frame.from
  BY ResumeIs DEF Sound
<1> HIDE DEF callee, r
<1>4. Holds(text, nodes, r)
  BY <1>3 DEF Holds, Is
<1>5. Linked(text, nodes, r, callee)
  BY <1>2, <1>3 DEF Linked, Calling, Awaits, Is, Expressing
<1>6. ~Awaits(callee) /\ Holds(text, nodes, callee) /\ Stands(text, nodes, callee, c.position)
  BY <1>2 DEF Holds, Stands, Awaits, Is
<1>7. QED
  BY <1>1, <1>4, <1>5, <1>6, InvokeClimbs DEF r

(* ParsePrimary. *)
LEMMA PrimaryStepClimbs ==
  ASSUME Sound, ParsePrimary \/ InnerParsed \/ EndMatch
  PROVE  PrecInv'
<1>1. frame.routine = "Primary" /\ Running /\ IInv
  BY DEF ParsePrimary, InnerParsed, EndMatch, At, Sound
<1>2. ASSUME ParsePrimary PROVE PrecInv'
  <2> DEFINE c == Consumed(context)
  <2>1. \/ ReturnNode(c, "LiteralExpression", StartSpan, <<>>)
        \/ ContinueWith("postfix", c, NewNode(c, "IdentifierExpression", StartSpan, <<>>),
                        <<Fresh>>)
        \/ Invoke("Assignment", "inner", c, <<>>)
        \/ Invoke("Assignment", "scrutinee", c, <<>>)
        \/ Return(Reported(context), 0)
    BY <1>2, Zenon DEF ParsePrimary
  <2>2. ~Return(Reported(context), 0)
    <3>1. Reported(context).had_error
      BY <1>1, ReportedLasts DEF IInv
    <3>2. QED
      BY <3>1 DEF Return, Sound
  <2> HIDE DEF c
  <2>3. ASSUME ReturnNode(c, "LiteralExpression", StartSpan, <<>>) PROVE PrecInv'
    BY <1>1, <2>3, PrimaryClimbs DEF Operating
  <2>4. ASSUME ContinueWith("postfix", c,
                            NewNode(c, "IdentifierExpression", StartSpan, <<>>), <<Fresh>>)
        PROVE  PrecInv'
    BY <1>1, <2>4, PostfixClimbs
  <2>5. ASSUME NEW point \in {"inner", "scrutinee"}, Invoke("Assignment", point, c, <<>>)
        PROVE  PrecInv'
    BY <1>1, <2>5, NestedClimbs
  <2>6. QED
    BY <2>1, <2>2, <2>3, <2>4, <2>5
<1>3. ASSUME InnerParsed PROVE PrecInv'
  <2> DEFINE c == ExpectedOrRecovered(context, ")")
             span == nodes[returned].span
  <2>1. Awaits(frame) /\ frame.point = "inner"
    BY <1>1, <1>3 DEF InnerParsed, At, Awaits, Expressing
  <2>2. returned # 0
    BY <2>1, TopFacts DEF Answers
  <2>3. ContinueWith("postfix", c, NewNode(c, "Parenthesized", span, Held), <<Fresh>>)
    BY <1>3, <2>2 DEF InnerParsed
  <2> HIDE DEF c, span
  <2>4. QED
    BY <1>1, <2>3, PostfixClimbs
<1>4. ASSUME EndMatch PROVE PrecInv'
  <2>1. ReturnNode(context, "Match", SpanOf(returned, StartSpan), Held)
    BY <1>4 DEF EndMatch
  <2>2. QED
    BY <1>1, <2>1, PrimaryClimbs DEF Operating
<1>5. QED
  BY <1>2, <1>3, <1>4

(* ParsePostfix: calls and member accesses work on what needs no operator. *)
LEMMA PostfixStepClimbs ==
  ASSUME Sound, ParsePostfix \/ ArgumentParsed \/ EndCall
  PROVE  PrecInv'
<1> DEFINE left == frame.parts[1]
<1>1. frame.routine = "Primary" /\ Running /\ IInv
      /\ frame.point \in {"postfix", "argument", "call"}
  BY DEF ParsePostfix, ArgumentParsed, EndCall, At, Sound
<1>2. Binds(text, nodes, left) = 10 /\ nodes[left].from = frame.from
  BY <1>1, TopFacts DEF Holds, Is
<1>3. /\ frame.parts \in Seq(Nat) /\ frame.parts # <<>> /\ left \in 1..Len(nodes) /\ left # 0
      /\ Kept \in Seq(Nat) /\ Kept # <<>> /\ Kept[1] = left
  <2>1. PartsNeeded(frame.routine, frame.point) = 1
    BY <1>1 DEF PartsNeeded
  <2>2. /\ frame.parts \in Seq(Nat) /\ Len(frame.parts) \in Nat /\ Len(frame.parts) >= 1
        /\ 0 \notin Indices(frame.parts)
    BY <1>1, <2>1, TrustedFacts
  <2>3. 1 \in 1..Len(frame.parts)
    BY <2>2
  <2>4. left \in 1..Len(nodes) /\ left # 0
    BY <1>1, <2>2, <2>3, PartsFacts
  <2>5. Held # <<>> /\ Held[1] = left /\ Held \in Seq(Nat)
    <3>1. returned \in Nat
      BY <1>1 DEF IInv, NodesInv
    <3>2. QED
      BY <2>2, <2>3, <3>1 DEF Held
  <2>6. QED
    BY <2>2, <2>4, <2>5 DEF Kept
<1>4. ASSUME NEW c, NEW parts, Continue("call", c, parts), parts[1] = left PROVE PrecInv'
  <2> DEFINE r == Resume("call", parts)
  <2>1. r.routine = "Primary" /\ r.point = "call" /\ r.from = frame.from /\ r.parts[1] = left
    BY <1>1, <1>4, ResumeIs
  <2> HIDE DEF r, left
  <2>2. ~Awaits(r) /\ Holds(text, nodes, r) /\ Stands(text, nodes, r, c.position)
    BY <1>2, <2>1 DEF Holds, Stands, Awaits, Is
  <2>3. QED
    BY <1>4, <2>2, ContinueClimbs DEF r
<1>5. ASSUME NEW c, NEW parts, Invoke("Assignment", "argument", c, parts), parts[1] = left
      PROVE  PrecInv'
  BY <1>1, <1>2, <1>5, NestedClimbs
<1>6. ASSUME NEW c, NEW kind \in {"Call", "MemberAccess"}, NEW span,
             ContinueWith("postfix", c, NewNode(c, kind, span, frame.parts), <<Fresh>>)
      PROVE  PrecInv'
  BY <1>1, <1>2, <1>3, <1>6, PostfixClimbs
<1>7. ASSUME ParsePostfix PROVE PrecInv'
  <2> DEFINE c == Consumed(context)
             span == ExtendSpan(nodes[frame.parts[1]].span, TokenSpan(c.position))
  <2>1. \/ Continue("call", c, frame.parts)
        \/ Invoke("Assignment", "argument", c, frame.parts)
        \/ Peek(context) = "." /\ Return(Reported(c), frame.parts[1])
        \/ ContinueWith("postfix", Consumed(c),
                        NewNode(Consumed(c), "MemberAccess", span, frame.parts), <<Fresh>>)
        \/ Return(context, frame.parts[1])
    BY <1>7, Zenon DEF ParsePostfix
  <2>2. ~(Peek(context) = "." /\ Return(Reported(c), frame.parts[1]))
    <3>1. SUFFICES ASSUME Peek(context) = "." PROVE Reported(c).had_error
      BY DEF Return, Sound
    <3>2. GoodContext(c)
      BY <1>1, <3>1, ConsumedFollows DEF IInv, Follows
    <3>3. QED
      BY <1>1, <3>2, ReportedLasts DEF IInv
  <2>3. ASSUME Return(context, left) PROVE PrecInv'
    <3>1. frame.point = "postfix"
      BY <1>7 DEF ParsePostfix, At
    <3>2. nodes[left].to = context.position
      BY <1>1, <3>1, TopFacts DEF Stands, Is
    <3>3. Answers(text, nodes, frame, left, context.position)
      BY <1>1, <1>2, <1>3, <3>2 DEF Answers
    <3>4. QED
      BY <2>3, <3>3, ReturnClimbs
  <2> HIDE DEF span, c
  <2>4. QED
    BY <1>4, <1>5, <1>6, <2>1, <2>2, <2>3
<1>8. ASSUME ArgumentParsed PROVE PrecInv'
  <2>1. \/ Invoke("Assignment", "argument", Consumed(context), Kept)
        \/ Continue("call", context, Kept)
    BY <1>8 DEF ArgumentParsed
  <2>2. QED
    BY <1>3, <1>4, <1>5, <2>1
<1>9. ASSUME EndCall PROVE PrecInv'
  <2> DEFINE c == ExpectedOrRecovered(context, ")")
             span == ExtendSpan(nodes[frame.parts[1]].span, nodes[Last(frame.parts)].span)
  <2>1. ContinueWith("postfix", c, NewNode(c, "Call", span, frame.parts), <<Fresh>>)
    BY <1>9, Zenon DEF EndCall
  <2> HIDE DEF c, span
  <2>2. QED
    BY <1>6, <2>1
<1>10. QED
  BY <1>7, <1>8, <1>9

-----------------------------------------------------------------------------
(* The invariant of every step. *)

(* The expression parser does not take an error back either. *)
LEMMA ExpressionsLast ==
  ASSUME IInv, ExpressionStep
  PROVE  context.had_error => context'.had_error
<1> DEFINE c == Consumed(context)
<1>1. /\ Lasts(context, context) /\ Lasts(Reported(context), context) /\ Lasts(c, context)
      /\ \A type : Lasts(ExpectedOrRecovered(context, type), context)
  BY CallsLast
<1>2. Peek(context) = "." => Lasts(Reported(c), context)
  <2>1. SUFFICES ASSUME Peek(context) = "." PROVE Lasts(Reported(c), context)
    OBVIOUS
  <2>2. GoodContext(c) /\ StreamInv
    BY <2>1, ConsumedFollows DEF IInv, Follows
  <2>3. Lasts(Reported(c), c)
    BY <2>2, ReportedLasts
  <2>4. QED
    BY <1>1, <2>3, LastsOn
<1>3. Lasts(Consumed(c), context)
  <2>1. Lasts(Consumed(c), c)
    BY <1>1, ConsumedLasts DEF Lasts
  <2>2. QED
    BY <1>1, <2>1, LastsOn
<1> HIDE DEF c
<1>4. SUFFICES Lasts(context', context)
  BY DEF Lasts
<1>5. ASSUME ParseAssignment \/ LeftParsed \/ EndAssignment PROVE Lasts(context', context)
  BY <1>1, <1>5
     DEF ParseAssignment, LeftParsed, EndAssignment, InvokeFrame, Invoke, Return, ReturnNode, c
<1>6. ASSUME ParseBinary \/ OperandParsed \/ ParseOperator \/ RightParsed
      PROVE  Lasts(context', context)
  BY <1>1, <1>6
     DEF ParseBinary, OperandParsed, ParseOperator, RightParsed, InvokeFrame, Invoke, Return,
         Continue, ContinueWith, c
<1>7. ASSUME ParseUnary \/ EndPrefix \/ EndPostfix PROVE Lasts(context', context)
  BY <1>1, <1>7
     DEF ParseUnary, EndPrefix, EndPostfix, InvokeFrame, Invoke, Return, ReturnNode, c
<1>8. ASSUME ParsePrimary \/ InnerParsed \/ EndMatch PROVE Lasts(context', context)
  BY <1>1, <1>8, Zenon
     DEF ParsePrimary, InnerParsed, EndMatch, InvokeFrame, Invoke, Return, ReturnNode,
         ContinueWith, c
<1>9. ASSUME ParsePostfix PROVE Lasts(context', context)
  BY <1>1, <1>2, <1>3, <1>9, Zenon
     DEF ParsePostfix, InvokeFrame, Invoke, Return, Continue, ContinueWith, c
<1>10. ASSUME ArgumentParsed \/ EndCall PROVE Lasts(context', context)
  BY <1>1, <1>10, Zenon
     DEF ArgumentParsed, EndCall, InvokeFrame, Invoke, Continue, ContinueWith, c
<1>11. QED
  BY <1>5, <1>6, <1>7, <1>8, <1>9, <1>10 DEF ExpressionStep

(* A step of the expression parser. *)
LEMMA ExpressionsClimb ==
  ASSUME IInv, PrecInv, ExpressionStep
  PROVE  PrecInv'
<1>1. SUFFICES ASSUME ~context'.had_error PROVE PrecInv'
  BY DEF PrecInv
<1>2. ~context.had_error
  BY <1>1, ExpressionsLast
<1>3. IInv'
  BY ExpressionSteps
<1>4. Running
  BY DEF ExpressionStep, ParseAssignment, LeftParsed, EndAssignment, ParseBinary,
         OperandParsed, ParseOperator, RightParsed, ParseUnary, EndPrefix, EndPostfix,
         ParsePrimary, InnerParsed, EndMatch, ParsePostfix, ArgumentParsed, EndCall, At
<1>5. Sound
  BY <1>1, <1>2, <1>3, <1>4 DEF Sound
<1>6. QED
  BY <1>5, AssignmentClimbs, OperatorClimbs, RightClimbs, UnaryClimbs, PrimaryStepClimbs,
     PostfixStepClimbs DEF ExpressionStep

(* A step of any function. *)
LEMMA StepClimbs ==
  ASSUME IInv, PrecInv, [Next]_vars
  PROVE  PrecInv'
<1>1. IInv'
  BY StepGood
<1>2. CASE UNCHANGED vars
  BY <1>2 DEF vars, PrecInv
<1>3. CASE DeclarationStep
  <2>1. Running /\ frame.routine \notin Expressing /\ Aside
    BY <1>3, NamesAside, DeclarationsAside DEF DeclarationStep
  <2>2. QED
    BY <1>1, <2>1, AsideKeeps
<1>4. CASE StatementStep
  BY <1>1, <1>4, StatementsAside, AsideKeeps
<1>5. CASE ExpressionStep
  BY <1>5, ExpressionsClimb
<1>6. QED
  BY <1>2, <1>3, <1>4, <1>5 DEF Next, Finished

(* The parser starts with a function that is no part of an expression. *)
LEMMA StartClimbs ==
  ASSUME Init
  PROVE  PrecInv
<1> DEFINE f == [Frame("Program", FreshContext) EXCEPT !.point = "declarations"]
<1>1. nodes = <<>> /\ calls = <<f>>
  BY DEF Init
<1>2. f.routine \notin Expressing
  BY DEF Frame, Expressing
<1> HIDE DEF f
<1>3. /\ Holds(text, nodes, f) /\ Stands(text, nodes, f, context.position) /\ ~Awaits(f)
  BY <1>2, AsideFrame
<1>4. AllGrouped(text, nodes)
  BY <1>1 DEF AllGrouped
<1>5. Chained(text, nodes, calls) /\ Head(calls) = f
  <2>1. Len(calls) = 1 /\ calls[1] = f /\ Head(calls) = f
    BY <1>1
  <2>2. QED
    BY <1>3, <2>1 DEF Chained
<1>6. QED
  BY <1>3, <1>4, <1>5 DEF PrecInv, Climbing, Answered

(* As long as no error was reported, operators group by precedence: what   *)
(* stands on the left of a binary operator binds as tightly as it, what    *)
(* stands on the right tighter, and calls and member accesses take what no *)
(* operator is part of.                                                    *)
THEOREM OperatorsGroup == Spec => []PrecedenceRespected
<1>1. ASSUME PrecInv PROVE PrecedenceRespected
  <2>1. SUFFICES ASSUME ~context.had_error, NEW i \in NodeIds
                 PROVE  LET part(k) == Binding(nodes[i].parts[k])
                        IN  CASE nodes[i].kind = "Assignment" -> part(1) > 1
                              [] nodes[i].kind = "Binary" ->
                                   part(1) >= Binding(i) /\ part(2) > Binding(i)
                              [] nodes[i].kind = "Unary" ->
                                   part(1) >= (IF IsPrefix(i) THEN 8 ELSE 10)
                              [] nodes[i].kind \in {"Call", "MemberAccess"} -> part(1) = 10
                              [] OTHER -> TRUE
    BY DEF PrecedenceRespected
  <2>2. Grouped(text, nodes, i)
    BY <1>1, <2>1 DEF PrecInv, Climbing, AllGrouped, NodeIds
  <2>3. \A j : Binding(j) = Binds(text, nodes, j)
    BY Zenon DEF Binding, Binds, Operator, IsPrefix, Behind, Prefixed
  <2>4. IsPrefix(i) = Prefixed(nodes, i)
    BY DEF IsPrefix, Prefixed
  <2> HIDE DEF Binding
  <2>5. QED
    BY <2>2, <2>3, <2>4 DEF Grouped
<1>2. Init => PrecInv
  BY StartClimbs
<1>3. IInv /\ PrecInv /\ [Next]_vars => PrecInv'
  BY StepClimbs
<1>4. QED
  BY <1>1, <1>2, <1>3, Invariance, PTL DEF Spec

-----------------------------------------------------------------------------
(* What the functions hold.  The parts of a frame have, like the parts of a *)
(* node, roles: those that the function has filled at its point.            *)

Names == {"Identifier"}
Signature == {"Attribute", "Identifier", "Parameter"}
Declaring == Named \union {"Declaration", "Import", "Package"}
ListOf(list) == Roles(<<>>, list, <<>>)

ShapeOfDeclaration(routine, point) ==
  CASE point = "start" \/ routine = "Declaration" -> ListOf({"Attribute"})
    [] point = "name" /\ routine # "Declaration" ->
         IF routine = "Function" THEN ListOf({"Attribute"}) ELSE Leaf
    [] routine = "Function" /\ point = "parameter type" -> Roles(<<>>, Signature, <<Names>>)
    [] routine = "Function" /\ point = "body" -> Roles(<<>>, Signature, <<Types>>)
    [] routine = "Function" /\ point \notin {"start", "name", "parameter type", "body"} ->
         ListOf(Signature)
    [] routine = "Struct" /\ point = "field type" -> Roles(<<Names>>, {"Field"}, <<Names>>)
    [] routine = "Struct" /\ point \notin {"start", "name", "field type"} ->
         Roles(<<Names>>, {"Field"}, <<>>)
    [] routine \in {"Class", "Trait"} /\ point \notin {"start", "name"} ->
         Roles(<<Names>>, Declarations, <<>>)
    [] routine = "Module" /\ point \notin {"start", "name"} -> Only(<<Names>>)
    [] OTHER -> ListOf(Names)

ShapeOfStatement(routine, point) ==
  CASE routine = "Block" /\ point \in {"statements", "statement"} -> ListOf(Statements)
    [] routine = "Variable" /\ point = "type" -> Only(<<Names>>)
    [] routine = "Variable" /\ point = "initializer" -> Only(<<Names, Types>>)
    [] routine \in {"If", "While"} /\ point = "body" -> Only(<<Expressions>>)
    [] routine = "If" /\ point = "else" -> Only(<<Expressions, Statements>>)
    [] routine = "For" /\ point = "iterable" -> Only(<<Names>>)
    [] routine = "For" /\ point = "body" -> Only(<<Names, Expressions>>)
    [] OTHER -> Leaf

ShapeOfExpression(routine, point) ==
  CASE \/ routine = "Assignment" /\ point = "value"
       \/ routine = "Binary" /\ point \in {"operator", "right"}
       \/ routine = "Primary" /\ point = "postfix" -> Only(<<Expressions>>)
    [] routine = "Primary" /\ point \in {"argument", "call"} ->
         Roles(<<Expressions>>, Expressions, <<>>)
    [] OTHER -> Leaf

Shape(routine, point) ==
  CASE routine = "Program" -> ListOf(Declarations)
    [] routine \in Declaring -> ShapeOfDeclaration(routine, point)
    [] routine \in Expressing -> ShapeOfExpression(routine, point)
    [] OTHER -> ShapeOfStatement(routine, point)

(* What may be returned to a function at a point, and by a function. *)
Awaited(routine, point) ==
  CASE point \in {"name", "parameter", "field", "variant", "iterator"} -> Names
    [] point \in {"parameter type", "field type", "return type", "type"} -> Types
    [] point \in {"parsed", "member"} -> Declarations
    [] point \in {"condition", "initializer", "value", "expression", "iterable", "left",
                  "operand", "right", "primary", "inner", "scrutinee", "argument"} ->
         Expressions
    [] point = "body" /\ routine \in {"Function", "Module"} -> {"Block"}
    [] \/ point = "body" /\ routine \in {"If", "While", "For"}
       \/ point = "else" /\ routine = "If"
       \/ point = "statement" /\ routine = "Block" -> Statements
    [] OTHER -> {}

Stating ==
  {"Statement", "Variable", "Return", "If", "While", "For", "MatchStatement",
   "ExpressionStatement"}
Results(routine) ==
  CASE routine \in Declaring \ {"Declaration"} -> {routine}
    [] routine = "Declaration" -> Declarations
    [] routine = "Identifier" -> Names
    [] routine = "Type" -> Types
    [] routine = "Block" -> {"Block"}
    [] routine \in Stating -> Statements
    [] routine \in Expressing -> Expressions
    [] OTHER -> {"Program"}

(* Parts that have these roles. *)
Fits(tree, roles, parts) ==
  LET n == Len(parts)
  IN  /\ n >= Len(roles.head) + Len(roles.tail)
      /\ roles.list = {} => n = Len(roles.head) + Len(roles.tail)
      /\ \A k \in 1..n : parts[k] # 0 => tree[parts[k]].kind \in RoleAt(roles, k, n)

(* Where parts stand in the text: one after the other, and from a to b. *)
Ordered(tree, parts) ==
  \A k, l \in 1..Len(parts) :
    k < l /\ parts[k] # 0 /\ parts[l] # 0 => tree[parts[k]].to <= tree[parts[l]].from
Between(tree, parts, a, b) ==
  \A k \in 1..Len(parts) : parts[k] # 0 => a <= tree[parts[k]].from /\ tree[parts[k]].to <= b
(* Attributes stand before the token a declaration starts with. *)
Behinds(tree, parts, start) ==
  \A k \in 1..Len(parts) :
    parts[k] # 0 /\ tree[parts[k]].kind # "Attribute" => start <= tree[parts[k]].from

(* A node with the parts it should have. *)
NodeSound(tree, i) ==
  LET node == tree[i]
  IN  /\ Fits(tree, RolesOf(node.kind), node.parts)
      /\ node.from <= node.to
      /\ Ordered(tree, node.parts) /\ Between(tree, node.parts, node.from, node.to)

(* A frame f, when what it has called is at p or began there. *)
Beginning == Taking \union {"Block"}
Carried(tree, f, parts, p) ==
  Ordered(tree, parts) /\ Between(tree, parts, f.from, p) /\ Behinds(tree, parts, f.start)
FrameSound(tree, f, p) ==
  /\ Fits(tree, Shape(f.routine, f.point), f.parts)
  /\ f.from <= f.start /\ f.start <= p
  /\ f.routine \in Expressing => f.start = f.from
  /\ f.routine \in Beginning /\ f.point # "start" => f.start < p
  /\ Carried(tree, f, f.parts, p)

(* The frame f of a function that has called the one of g. *)
CallSound(tree, f, g) ==
  /\ FrameSound(tree, f, g.from)
  /\ Results(g.routine) \subseteq Awaited(f.routine, f.point)
  /\ Is(f, "If", {"else"}) /\ f.parts[2] # 0 => tree[f.parts[2]].to < g.from

(* What has been returned to the function of frame f. *)
AnswerSound(tree, f, r, p) ==
  r # 0 =>
    /\ tree[r].kind \in Awaited(f.routine, f.point)
    /\ tree[r].to <= p /\ f.start <= tree[r].from
    /\ \A k \in 1..Len(f.parts) : f.parts[k] # 0 => tree[f.parts[k]].to <= tree[r].from

(* The points at which only an error leaves a function without an answer. *)
Owing(f) ==
  \/ f.point \in {"name", "parameter", "field", "variant", "iterator", "parameter type",
                  "field type", "parsed", "member", "condition", "expression", "iterable", "left",
                  "operand", "right", "primary", "inner", "scrutinee", "argument", "statement"}
  \/ f.point = "body" /\ f.routine # "Module"

TopSound(tree, f, r, p, failed) ==
  /\ FrameSound(tree, f, p) /\ AnswerSound(tree, f, r, p)
  /\ ~failed /\ Owing(f) => r # 0

Built(tree, frames, r, p, failed) ==
  /\ \A i \in 1..Len(tree) : NodeSound(tree, i)
  /\ \A d \in 2..Len(frames) : CallSound(tree, frames[d], frames[d - 1])
  /\ frames # <<>> => TopSound(tree, Head(frames), r, p, failed)
BuiltInv == Built(nodes, calls, returned, context.position, context.had_error)

-----------------------------------------------------------------------------
(* Parts and their roles. *)

(* A part added to a list. *)
LEMMA AppendIs ==
  ASSUME NEW parts \in Seq(Nat), NEW r \in Nat
  PROVE  LET more == Append(parts, r) IN
         /\ more \in Seq(Nat) /\ Len(more) = Len(parts) + 1 /\ Len(parts) \in Nat
         /\ \A k \in 1..Len(parts) : more[k] = parts[k]
         /\ more[Len(parts) + 1] = r
         /\ \A k \in 1..Len(more) : k \in 1..Len(parts) \/ k = Len(parts) + 1
  OBVIOUS

(* The roles of a list that is filled from its head on. *)
LEMMA RoleInHead ==
  ASSUME NEW head, Len(head) \in Nat, NEW list, NEW n \in Nat, NEW k \in 1..n
  PROVE  /\ k \in 1..Len(head) => RoleAt(Roles(head, list, <<>>), k, n) = head[k]
         /\ k \notin 1..Len(head) => RoleAt(Roles(head, list, <<>>), k, n) = list
<1>1. Len(<<>>) = 0 /\ ~(k > n - 0)
  OBVIOUS
<1>2. k \in 1..Len(head) <=> k <= Len(head)
  BY <1>1
<1>3. ~(k > n - Len(<<>>))
  BY <1>1
<1>4. QED
  BY <1>2, <1>3, Zenon DEF RoleAt, Roles

(* Of a list that ends with other roles. *)
LEMMA RoleInTail ==
  ASSUME NEW head, Len(head) \in Nat, NEW list, NEW tail, Len(tail) \in Nat,
         NEW n \in Nat, NEW k \in 1..n, n >= Len(head) + Len(tail)
  PROVE  /\ k \in 1..Len(head) => RoleAt(Roles(head, list, tail), k, n) = head[k]
         /\ k \notin 1..Len(head) /\ k <= n - Len(tail) =>
              RoleAt(Roles(head, list, tail), k, n) = list
         /\ k > n - Len(tail) =>
              RoleAt(Roles(head, list, tail), k, n) = tail[k - (n - Len(tail))]
<1>1. /\ k \in 1..Len(head) <=> k <= Len(head)
      /\ k > n - Len(tail) <=> ~(k <= n - Len(tail))
      /\ k > n - Len(tail) => ~(k <= Len(head))
  OBVIOUS
<1>2. QED
  BY <1>1, Zenon DEF RoleAt, Roles

(* No part at all. *)
LEMMA FitsNone ==
  ASSUME NEW tree, NEW list
  PROVE  Fits(tree, Roles(<<>>, list, <<>>), <<>>) /\ Fits(tree, Leaf, <<>>)
  BY DEF Fits, Roles, Leaf, Only

(* One more in a list. *)
LEMMA FitsMore ==
  ASSUME NEW tree, NEW S, NEW head \in Seq(S), NEW list, list # {},
         NEW parts \in Seq(Nat), Fits(tree, Roles(head, list, <<>>), parts),
         NEW r \in Nat, r # 0 => tree[r].kind \in list
  PROVE  Fits(tree, Roles(head, list, <<>>), Append(parts, r))
<1> DEFINE more == Append(parts, r)
           roles == Roles(head, list, <<>>)
<1>1. /\ more \in Seq(Nat) /\ Len(more) = Len(parts) + 1 /\ Len(parts) \in Nat
      /\ \A k \in 1..Len(parts) : more[k] = parts[k]
      /\ more[Len(parts) + 1] = r
      /\ \A k \in 1..Len(more) : k \in 1..Len(parts) \/ k = Len(parts) + 1
  BY AppendIs
<1> HIDE DEF more
<1>2. roles.head = head /\ roles.list = list /\ roles.tail = <<>> /\ Len(head) \in Nat
  BY DEF Roles
<1>3. Len(parts) >= Len(head) + Len(<<>>) /\ Len(<<>>) = 0
  BY <1>2 DEF Fits
<1>4. Len(more) >= Len(head) + Len(<<>>)
  BY <1>1, <1>2, <1>3
<1>5. ASSUME NEW k \in 1..Len(more), more[k] # 0
      PROVE  tree[more[k]].kind \in RoleAt(roles, k, Len(more))
  <2>1. CASE k \in 1..Len(parts)
    <3>1. tree[parts[k]].kind \in RoleAt(roles, k, Len(parts))
      BY <1>1, <1>5, <2>1 DEF Fits
    <3>2. RoleAt(roles, k, Len(parts)) = RoleAt(roles, k, Len(more))
      <4>1. Len(parts) \in Nat /\ Len(more) \in Nat /\ k \in 1..Len(parts) /\ k \in 1..Len(more)
        BY <1>1, <1>5, <2>1
      <4>2. QED
        BY <4>1, RoleInHead
    <3>3. QED
      BY <1>1, <2>1, <3>1, <3>2
  <2>2. CASE k = Len(parts) + 1
    <3>1. k \notin 1..Len(head)
      BY <1>2, <1>3, <2>2, <1>1
    <3>2. RoleAt(roles, k, Len(more)) = list
      <4>1. Len(more) \in Nat
        BY <1>1
      <4>2. QED
        BY <1>2, <1>5, <3>1, <4>1, RoleInHead, Zenon
    <3>3. QED
      BY <1>1, <1>5, <2>2, <3>2
  <2>3. QED
    BY <1>1, <1>5, <2>1, <2>2
<1> HIDE DEF roles
<1>6. Fits(tree, roles, more)
  BY <1>2, <1>4, <1>5 DEF Fits
<1>7. QED
  BY <1>6 DEF more, roles

(* One more before any list. *)
LEMMA FitsHead ==
  ASSUME NEW tree, NEW S, NEW head \in Seq(S), NEW role \in S, NEW list,
         NEW parts \in Seq(Nat), Fits(tree, Roles(head, {}, <<>>), parts),
         NEW r \in Nat, r # 0 => tree[r].kind \in role
  PROVE  Fits(tree, Roles(Append(head, role), list, <<>>), Append(parts, r))
<1> DEFINE more == Append(parts, r)
           heads == Append(head, role)
           roles == Roles(head, {}, <<>>)
           longer == Roles(heads, list, <<>>)
<1>1. /\ more \in Seq(Nat) /\ Len(more) = Len(parts) + 1 /\ Len(parts) \in Nat
      /\ \A k \in 1..Len(parts) : more[k] = parts[k]
      /\ more[Len(parts) + 1] = r
      /\ \A k \in 1..Len(more) : k \in 1..Len(parts) \/ k = Len(parts) + 1
  BY AppendIs
<1>2. /\ heads \in Seq(S) /\ Len(heads) = Len(head) + 1 /\ Len(head) \in Nat
      /\ \A k \in 1..Len(head) : heads[k] = head[k]
      /\ heads[Len(head) + 1] = role
  OBVIOUS
<1> HIDE DEF more, heads
<1>3. /\ roles.head = head /\ roles.list = {} /\ roles.tail = <<>>
      /\ longer.head = heads /\ longer.list = list /\ longer.tail = <<>>
  BY DEF Roles
<1>4. Len(parts) = Len(head) /\ Len(<<>>) = 0
  <2>1. Len(parts) = Len(head) + Len(<<>>) /\ Len(<<>>) = 0
    BY <1>3 DEF Fits
  <2>2. QED
    BY <1>2, <2>1
<1>5. Len(more) = Len(heads) + Len(<<>>) /\ Len(more) >= Len(heads) + Len(<<>>)
  BY <1>1, <1>2, <1>4
<1>6. ASSUME NEW k \in 1..Len(more), more[k] # 0
      PROVE  tree[more[k]].kind \in RoleAt(longer, k, Len(more))
  <2>0. k \in 1..Len(heads) /\ Len(more) \in Nat
    BY <1>1, <1>2, <1>4, <1>6
  <2>1. RoleAt(longer, k, Len(more)) = heads[k]
    BY <1>2, <2>0, <1>6, RoleInHead
  <2>2. CASE k \in 1..Len(parts)
    <3>1. tree[parts[k]].kind \in RoleAt(roles, k, Len(parts))
      BY <1>1, <1>6, <2>2 DEF Fits
    <3>2. RoleAt(roles, k, Len(parts)) = head[k]
      BY <1>1, <1>4, <2>2, RoleInHead
    <3>3. QED
      BY <1>1, <1>2, <1>4, <2>1, <2>2, <3>1, <3>2
  <2>3. CASE k = Len(parts) + 1
    BY <1>1, <1>2, <1>4, <1>6, <2>1, <2>3
  <2>4. QED
    BY <1>1, <1>6, <2>2, <2>3
<1> HIDE DEF roles, longer
<1>7. Fits(tree, longer, more)
  BY <1>3, <1>5, <1>6 DEF Fits
<1>8. QED
  BY <1>7 DEF more, longer, heads

(* One more behind a list. *)
LEMMA FitsTail ==
  ASSUME NEW tree, NEW S, NEW head \in Seq(S), NEW tail \in Seq(S), NEW role \in S,
         NEW list, list # {},
         NEW parts \in Seq(Nat), Fits(tree, Roles(head, list, tail), parts),
         NEW r \in Nat, r # 0 => tree[r].kind \in role
  PROVE  Fits(tree, Roles(head, list, Append(tail, role)), Append(parts, r))
<1> DEFINE more == Append(parts, r)
           tails == Append(tail, role)
           roles == Roles(head, list, tail)
           longer == Roles(head, list, tails)
           m == Len(parts)
<1>1. /\ more \in Seq(Nat) /\ Len(more) = m + 1 /\ m \in Nat
      /\ \A k \in 1..m : more[k] = parts[k]
      /\ more[m + 1] = r
      /\ \A k \in 1..Len(more) : k \in 1..m \/ k = m + 1
  BY AppendIs
<1>2. /\ tails \in Seq(S) /\ Len(tails) = Len(tail) + 1 /\ Len(tail) \in Nat
      /\ \A k \in 1..Len(tail) : tails[k] = tail[k]
      /\ tails[Len(tail) + 1] = role
      /\ Len(head) \in Nat
  OBVIOUS
<1>3. /\ roles.head = head /\ roles.list = list /\ roles.tail = tail
      /\ longer.head = head /\ longer.list = list /\ longer.tail = tails
  BY DEF Roles
<1>4. /\ m >= Len(head) + Len(tail)
      /\ \A k \in 1..m : parts[k] # 0 => tree[parts[k]].kind \in RoleAt(roles, k, m)
  BY <1>3 DEF Fits
<1> HIDE DEF more, tails
<1>5. Len(more) >= Len(head) + Len(tails)
  BY <1>1, <1>2, <1>4
<1>6. ASSUME NEW k \in 1..Len(more), more[k] # 0
      PROVE  tree[more[k]].kind \in RoleAt(longer, k, Len(more))
  <2> DEFINE n == Len(more)
  <2>0. /\ n \in Nat /\ n = m + 1 /\ n >= Len(head) + Len(tails) /\ k \in 1..n
        /\ k \in 1..Len(head) => RoleAt(longer, k, n) = head[k]
        /\ k \notin 1..Len(head) /\ k <= n - Len(tails) => RoleAt(longer, k, n) = list
        /\ k > n - Len(tails) => RoleAt(longer, k, n) = tails[k - (n - Len(tails))]
    <3>1. n \in Nat /\ n = m + 1 /\ n >= Len(head) + Len(tails) /\ k \in 1..n
      BY <1>1, <1>5, <1>6
    <3> HIDE DEF n
    <3>2. /\ k \in 1..Len(head) => RoleAt(Roles(head, list, tails), k, n) = head[k]
          /\ k \notin 1..Len(head) /\ k <= n - Len(tails) =>
               RoleAt(Roles(head, list, tails), k, n) = list
          /\ k > n - Len(tails) =>
               RoleAt(Roles(head, list, tails), k, n) = tails[k - (n - Len(tails))]
      <4>1. Len(head) \in Nat /\ Len(tails) \in Nat
        BY <1>2
      <4>2. QED
        BY <3>1, <4>1, RoleInTail
    <3>3. QED
      BY <3>1, <3>2
  <2>4. k \in 1..m =>
          /\ k \in 1..Len(head) => RoleAt(roles, k, m) = head[k]
          /\ k \notin 1..Len(head) /\ k <= m - Len(tail) => RoleAt(roles, k, m) = list
          /\ k > m - Len(tail) => RoleAt(roles, k, m) = tail[k - (m - Len(tail))]
    <3> HIDE DEF m
    <3>1. QED
      BY <1>1, <1>2, <1>4, RoleInTail
  <2> HIDE DEF roles, longer, n
  <2>1. CASE k \in 1..m
    <3>1. tree[parts[k]].kind \in RoleAt(roles, k, m)
      BY <1>1, <1>4, <1>6, <2>1
    <3>2. CASE k \in 1..Len(head)
      BY <1>1, <2>0, <2>1, <2>4, <3>1, <3>2
    <3>3. CASE k \notin 1..Len(head) /\ k <= m - Len(tail)
      <4>1. k <= n - Len(tails)
        BY <1>1, <1>2, <2>0, <3>3
      <4>2. QED
        BY <1>1, <2>0, <2>1, <2>4, <3>1, <3>3, <4>1
    <3>4. CASE k > m - Len(tail)
      <4>1. /\ k > n - Len(tails) /\ k - (n - Len(tails)) = k - (m - Len(tail))
            /\ k - (m - Len(tail)) \in 1..Len(tail)
        BY <1>1, <1>2, <2>0, <2>1, <3>4
      <4>2. RoleAt(longer, k, n) = tail[k - (m - Len(tail))]
        BY <1>2, <2>0, <4>1
      <4>3. QED
        BY <1>1, <2>1, <2>4, <3>1, <3>4, <4>2 DEF n
    <3>5. k <= m - Len(tail) \/ k > m - Len(tail)
      BY <1>1, <1>2, <2>1
    <3>6. QED
      BY <3>2, <3>3, <3>4, <3>5 DEF n
  <2>2. CASE k = m + 1
    <3>1. k > n - Len(tails) /\ k - (n - Len(tails)) = Len(tail) + 1
      BY <1>1, <1>2, <2>0, <2>2
    <3>2. RoleAt(longer, k, n) = role
      BY <1>2, <2>0, <3>1
    <3>3. QED
      BY <1>1, <1>6, <2>2, <3>2 DEF n
  <2>3. QED
    BY <1>1, <1>6, <2>1, <2>2
<1> HIDE DEF roles, longer, m
<1>7. Fits(tree, longer, more)
  BY <1>3, <1>5, <1>6 DEF Fits
<1>8. QED
  BY <1>7 DEF more, longer, tails

(* A list of more kinds. *)
LEMMA FitsWider ==
  ASSUME NEW tree, NEW S, NEW head \in Seq(S), NEW list, NEW wider, list \subseteq wider,
         NEW parts \in Seq(Nat), Fits(tree, Roles(head, list, <<>>), parts)
  PROVE  Fits(tree, Roles(head, wider, <<>>), parts)
<1> DEFINE roles == Roles(head, list, <<>>)
           more == Roles(head, wider, <<>>)
<1>1. /\ roles.head = head /\ roles.list = list /\ roles.tail = <<>>
      /\ more.head = head /\ more.list = wider /\ more.tail = <<>>
  BY DEF Roles
<1>2. Len(parts) \in Nat
  OBVIOUS
<1>3. ASSUME NEW k \in 1..Len(parts)
      PROVE  RoleAt(roles, k, Len(parts)) \subseteq RoleAt(more, k, Len(parts))
  BY <1>2, RoleInHead
<1>4. (more.list = {} => roles.list = {}) /\ Fits(tree, roles, parts)
  BY <1>1
<1> HIDE DEF roles, more
<1>5. Fits(tree, more, parts)
  <2>1. /\ Len(parts) >= Len(more.head) + Len(more.tail)
        /\ more.list = {} => Len(parts) = Len(more.head) + Len(more.tail)
    BY <1>1, <1>4 DEF Fits
  <2>2. \A k \in 1..Len(parts) :
          parts[k] # 0 => tree[parts[k]].kind \in RoleAt(roles, k, Len(parts))
    BY <1>4 DEF Fits
  <2>3. QED
    BY <1>3, <2>1, <2>2, Zenon DEF Fits
<1>6. QED
  BY <1>5 DEF more

(* Short tuples, one longer. *)
LEMMA TupleLonger ==
  ASSUME NEW A, NEW B, NEW K
  PROVE  /\ <<A>> \in Seq({A, B, K}) /\ <<A, B>> \in Seq({A, B, K})
         /\ Append(<<A>>, K) = <<A, K>>
         /\ Append(<<A, B>>, K) = <<A, B, K>>
<1> DEFINE S == {A, B, K}
<1>1. A \in S /\ B \in S /\ K \in S
  OBVIOUS
<1> HIDE DEF S
<1>2. <<A>> \in Seq(S) /\ <<A, K>> \in Seq(S) /\ <<A, B>> \in Seq(S) /\ <<A, B, K>> \in Seq(S)
  BY <1>1
<1>3. Append(<<A>>, K) = <<A, K>>
  <2> DEFINE u == Append(<<A>>, K)
             v == <<A, K>>
  <2>1. u \in Seq(S) /\ Len(u) = 2 /\ u[1] = A /\ u[2] = K
    BY <1>1, <1>2
  <2>2. v \in Seq(S) /\ Len(v) = 2 /\ v[1] = A /\ v[2] = K
    BY <1>2
  <2> HIDE DEF u, v
  <2>3. \A k \in 1..2 : u[k] = v[k]
    BY <2>1, <2>2
  <2>4. u = v
    BY <2>1, <2>2, <2>3
  <2>5. QED
    BY <2>4 DEF u, v
<1>4. Append(<<A, B>>, K) = <<A, B, K>>
  <2> DEFINE u == Append(<<A, B>>, K)
             v == <<A, B, K>>
  <2>1. u \in Seq(S) /\ Len(u) = 3 /\ u[1] = A /\ u[2] = B /\ u[3] = K
    BY <1>1, <1>2
  <2>2. v \in Seq(S) /\ Len(v) = 3 /\ v[1] = A /\ v[2] = B /\ v[3] = K
    BY <1>2
  <2> HIDE DEF u, v
  <2>3. \A k \in 1..3 : u[k] = v[k]
    BY <2>1, <2>2
  <2>4. u = v
    BY <2>1, <2>2, <2>3
  <2>5. QED
    BY <2>4 DEF u, v
<1>5. QED
  BY <1>2, <1>3, <1>4 DEF S

(* The lists that the functions of the parser fill, one part longer. *)
LEMMA FitsLonger ==
  ASSUME NEW tree, NEW parts \in Seq(Nat), NEW r \in Nat, NEW K, r # 0 => tree[r].kind \in K
  PROVE  LET more == Append(parts, r) IN
         /\ \A list : Fits(tree, Leaf, parts) => Fits(tree, Roles(<<K>>, list, <<>>), more)
         /\ \A A : Fits(tree, Only(<<A>>), parts) => Fits(tree, Only(<<A, K>>), more)
         /\ \A A, B : Fits(tree, Only(<<A, B>>), parts) => Fits(tree, Only(<<A, B, K>>), more)
         /\ \A list : list # {} /\ K \subseteq list /\ Fits(tree, ListOf(list), parts)
              => Fits(tree, ListOf(list), more)
         /\ \A A, list :
              list # {} /\ K \subseteq list /\ Fits(tree, Roles(<<A>>, list, <<>>), parts)
              => Fits(tree, Roles(<<A>>, list, <<>>), more)
         /\ \A list : list # {} /\ Fits(tree, ListOf(list), parts)
              => Fits(tree, Roles(<<>>, list, <<K>>), more)
         /\ \A A, list : list # {} /\ Fits(tree, Roles(<<A>>, list, <<>>), parts)
              => Fits(tree, Roles(<<A>>, list, <<K>>), more)
         /\ \A A, list : list # {} /\ Fits(tree, Roles(<<>>, list, <<A>>), parts)
              => Fits(tree, Roles(<<>>, list, <<A, K>>), more)
<1> DEFINE more == Append(parts, r)
<1>1. ASSUME NEW list, Fits(tree, Leaf, parts)
      PROVE  Fits(tree, Roles(<<K>>, list, <<>>), more)
  <2>1. <<>> \in Seq({K}) /\ Append(<<>>, K) = <<K>> /\ K \in {K}
    OBVIOUS
  <2>2. Fits(tree, Roles(<<>>, {}, <<>>), parts)
    BY <1>1 DEF Leaf, Only
  <2>3. Fits(tree, Roles(Append(<<>>, K), list, <<>>), more)
    BY <2>1, <2>2, FitsHead
  <2>4. QED
    BY <2>1, <2>3
<1>2. ASSUME NEW A, Fits(tree, Only(<<A>>), parts)
      PROVE  Fits(tree, Only(<<A, K>>), more)
  <2>1. <<A>> \in Seq({A, K, K}) /\ Append(<<A>>, K) = <<A, K>> /\ K \in {A, K, K}
    BY TupleLonger
  <2>2. Fits(tree, Roles(<<A>>, {}, <<>>), parts)
    BY <1>2 DEF Only
  <2>3. Fits(tree, Roles(Append(<<A>>, K), {}, <<>>), more)
    BY <2>1, <2>2, FitsHead
  <2>4. QED
    BY <2>1, <2>3 DEF Only
<1>3. ASSUME NEW A, NEW B, Fits(tree, Only(<<A, B>>), parts)
      PROVE  Fits(tree, Only(<<A, B, K>>), more)
  <2>1. <<A, B>> \in Seq({A, B, K}) /\ Append(<<A, B>>, K) = <<A, B, K>> /\ K \in {A, B, K}
    BY TupleLonger
  <2>2. Fits(tree, Roles(<<A, B>>, {}, <<>>), parts)
    BY <1>3 DEF Only
  <2>3. Fits(tree, Roles(Append(<<A, B>>, K), {}, <<>>), more)
    BY <2>1, <2>2, FitsHead
  <2>4. QED
    BY <2>1, <2>3 DEF Only
<1>4. ASSUME NEW list, list # {}, K \subseteq list, Fits(tree, ListOf(list), parts)
      PROVE  Fits(tree, ListOf(list), more)
  <2>1. <<>> \in Seq({K}) /\ (r # 0 => tree[r].kind \in list)
    BY <1>4
  <2>2. QED
    BY <1>4, <2>1, FitsMore DEF ListOf
<1>5. ASSUME NEW A, NEW list, list # {}, K \subseteq list,
             Fits(tree, Roles(<<A>>, list, <<>>), parts)
      PROVE  Fits(tree, Roles(<<A>>, list, <<>>), more)
  <2>1. <<A>> \in Seq({A}) /\ (r # 0 => tree[r].kind \in list)
    BY <1>5
  <2>2. QED
    BY <1>5, <2>1, FitsMore
<1>6. ASSUME NEW list, list # {}, Fits(tree, ListOf(list), parts)
      PROVE  Fits(tree, Roles(<<>>, list, <<K>>), more)
  <2>1. <<>> \in Seq({K}) /\ Append(<<>>, K) = <<K>> /\ K \in {K}
    OBVIOUS
  <2>2. Fits(tree, Roles(<<>>, list, Append(<<>>, K)), more)
    BY <1>6, <2>1, FitsTail DEF ListOf
  <2>3. QED
    BY <2>1, <2>2
<1>7. ASSUME NEW A, NEW list, list # {}, Fits(tree, Roles(<<A>>, list, <<>>), parts)
      PROVE  Fits(tree, Roles(<<A>>, list, <<K>>), more)
  <2>1. /\ <<A>> \in Seq({A, K, K}) /\ <<>> \in Seq({A, K, K}) /\ Append(<<>>, K) = <<K>>
        /\ K \in {A, K, K}
    BY TupleLonger
  <2>2. Fits(tree, Roles(<<A>>, list, Append(<<>>, K)), more)
    BY <1>7, <2>1, FitsTail
  <2>3. QED
    BY <2>1, <2>2
<1>8. ASSUME NEW A, NEW list, list # {}, Fits(tree, Roles(<<>>, list, <<A>>), parts)
      PROVE  Fits(tree, Roles(<<>>, list, <<A, K>>), more)
  <2>0. <<>> \in Seq({A, K, K})
    OBVIOUS
  <2>1. <<A>> \in Seq({A, K, K}) /\ Append(<<A>>, K) = <<A, K>> /\ K \in {A, K, K}
    BY TupleLonger
  <2>2. Fits(tree, Roles(<<>>, list, Append(<<A>>, K)), more)
    BY <1>8, <2>0, <2>1, FitsTail
  <2>3. QED
    BY <2>1, <2>2
<1>9. QED
  BY <1>1, <1>2, <1>3, <1>4, <1>5, <1>6, <1>7, <1>8, Zenon

(* The roles that a list may have as well. *)
LEMMA FitsAlso ==
  ASSUME NEW tree, NEW parts \in Seq(Nat)
  PROVE  /\ \A A, list :
              Fits(tree, Only(<<A>>), parts) => Fits(tree, Roles(<<A>>, list, <<>>), parts)
         /\ \A list, wider : list \subseteq wider /\ Fits(tree, ListOf(list), parts)
              => Fits(tree, ListOf(wider), parts)
<1>1. ASSUME NEW A, NEW list, Fits(tree, Only(<<A>>), parts)
      PROVE  Fits(tree, Roles(<<A>>, list, <<>>), parts)
  <2>1. <<A>> \in Seq({A}) /\ {} \subseteq list
    OBVIOUS
  <2>2. Fits(tree, Roles(<<A>>, {}, <<>>), parts)
    BY <1>1 DEF Only
  <2>3. QED
    BY <2>1, <2>2, FitsWider
<1>2. ASSUME NEW list, NEW wider, list \subseteq wider, Fits(tree, ListOf(list), parts)
      PROVE  Fits(tree, ListOf(wider), parts)
  <2>1. <<>> \in Seq({{}})
    OBVIOUS
  <2>2. QED
    BY <1>2, <2>1, FitsWider DEF ListOf
<1>3. QED
  BY <1>1, <1>2, Zenon

(* The name that ends a list, replaced by what it is the name of. *)
LEMMA FitsReplaced ==
  ASSUME NEW tree, NEW head, Len(head) \in Nat, NEW list, NEW A,
         NEW parts \in Seq(Nat), Fits(tree, Roles(head, list, <<A>>), parts),
         NEW r \in Nat, tree[r].kind \in list
  PROVE  Fits(tree, Roles(head, list, <<>>), [parts EXCEPT ![Len(parts)] = r])
<1> DEFINE m == Len(parts)
           more == [parts EXCEPT ![m] = r]
           roles == Roles(head, list, <<A>>)
           new == Roles(head, list, <<>>)
<1>1. /\ roles.head = head /\ roles.list = list /\ roles.tail = <<A>>
      /\ new.head = head /\ new.list = list /\ new.tail = <<>>
      /\ Len(<<A>>) = 1 /\ Len(<<>>) = 0
  BY DEF Roles
<1>2. /\ m >= Len(head) + Len(<<A>>) /\ m \in Nat
      /\ \A k \in 1..m : parts[k] # 0 => tree[parts[k]].kind \in RoleAt(roles, k, m)
  <2>1. Fits(tree, roles, parts) /\ m \in Nat
    OBVIOUS
  <2> HIDE DEF roles
  <2>2. QED
    BY <1>1, <2>1 DEF Fits
<1>3. m >= Len(head) + 1 /\ m >= Len(head)
  BY <1>1, <1>2
<1>4. /\ Len(more) = m /\ more[m] = r
      /\ \A k \in 1..m : k # m => more[k] = parts[k]
  BY <1>2, <1>3
<1> HIDE DEF m, more
<1>5. ASSUME NEW k \in 1..m, more[k] # 0 PROVE tree[more[k]].kind \in RoleAt(new, k, m)
  <2>1. CASE k = m
    <3>1. k \notin 1..Len(head)
      BY <1>2, <1>3, <2>1
    <3>2. RoleAt(new, k, m) = list
      BY <1>2, <3>1, RoleInHead, Zenon
    <3>3. QED
      BY <1>4, <2>1, <3>2
  <2>2. CASE k # m
    <3>1. RoleAt(roles, k, m) = RoleAt(new, k, m)
      <4>1. ~(k > m - Len(<<A>>)) /\ ~(k > m - Len(<<>>))
        BY <1>1, <1>2, <2>2
      <4>2. QED
        BY <1>1, <4>1, Zenon DEF RoleAt
    <3>2. QED
      BY <1>2, <1>4, <1>5, <2>2, <3>1
  <2>3. QED
    BY <2>1, <2>2
<1> HIDE DEF roles, new
<1>6. Len(more) >= Len(new.head) + Len(new.tail)
  BY <1>1, <1>2, <1>3, <1>4
<1>7. new.list # {}
  BY <1>1
<1>8. \A k \in 1..Len(more) : more[k] # 0 => tree[more[k]].kind \in RoleAt(new, k, Len(more))
  BY <1>4, <1>5
<1>9. Fits(tree, new, more)
  BY <1>6, <1>7, <1>8, Zenon DEF Fits
<1>10. QED
  BY <1>9 DEF new, more, m

-----------------------------------------------------------------------------
(* The tables, read at every point of every function. *)

(* Programs and declarations. *)
LEMMA DeclarationShapes ==
  /\ \A point : /\ Shape("Program", point) = ListOf(Declarations)
                /\ Shape("Declaration", point) = ListOf({"Attribute"})
  /\ \A routine \in Declaring : Shape(routine, "start") = ListOf({"Attribute"})
  /\ Shape("Function", "name") = ListOf({"Attribute"})
  /\ \A routine \in {"Struct", "Class", "Trait", "Enum", "Module", "Package"} :
       Shape(routine, "name") = Leaf
  /\ \A point \in {"parameter", "next parameter", "close", "return type"} :
       Shape("Function", point) = ListOf(Signature)
  /\ Shape("Function", "parameter type") = Roles(<<>>, Signature, <<Names>>)
  /\ Shape("Function", "body") = Roles(<<>>, Signature, <<Types>>)
  /\ \A point \in {"fields", "field", "close"} :
       Shape("Struct", point) = Roles(<<Names>>, {"Field"}, <<>>)
  /\ Shape("Struct", "field type") = Roles(<<Names>>, {"Field"}, <<Names>>)
  /\ \A routine \in {"Class", "Trait"}, point \in {"members", "member"} :
       Shape(routine, point) = Roles(<<Names>>, Declarations, <<>>)
  /\ \A point \in {"variants", "variant"} : Shape("Enum", point) = ListOf(Names)
  /\ \A point \in {"path", "close"} : Shape("Import", point) = ListOf(Names)
  /\ Shape("Module", "body") = Only(<<Names>>)
<1>1. /\ Declaring = {"Function", "Struct", "Class", "Trait", "Enum", "Module", "Declaration",
                      "Import", "Package"}
      /\ "Program" \notin Declaring /\ "Program" \notin Expressing
      /\ \A routine \in Declaring : routine \notin Expressing
  BY DEF Declaring, Named, Expressing
<1>2. \A routine \in Declaring : \A point :
        Shape(routine, point) = ShapeOfDeclaration(routine, point)
  <2> TAKE routine \in Declaring
  <2>1. routine # "Program" /\ routine \notin Expressing
    BY <1>1
  <2>2. QED
    BY <2>1, Zenon DEF Shape
<1>3. \A point : Shape("Program", point) = ListOf(Declarations)
  BY <1>1, Zenon DEF Shape
<1>4. \A point : ShapeOfDeclaration("Declaration", point) = ListOf({"Attribute"})
  BY DEF ShapeOfDeclaration
<1>5. \A routine \in Declaring : ShapeOfDeclaration(routine, "start") = ListOf({"Attribute"})
  BY DEF ShapeOfDeclaration
<1>6. /\ ShapeOfDeclaration("Function", "name") = ListOf({"Attribute"})
      /\ \A routine \in {"Struct", "Class", "Trait", "Enum", "Module", "Package"} :
           ShapeOfDeclaration(routine, "name") = Leaf
  BY DEF ShapeOfDeclaration
<1>7. /\ \A point \in {"parameter", "next parameter", "close", "return type"} :
           ShapeOfDeclaration("Function", point) = ListOf(Signature)
      /\ ShapeOfDeclaration("Function", "parameter type") = Roles(<<>>, Signature, <<Names>>)
      /\ ShapeOfDeclaration("Function", "body") = Roles(<<>>, Signature, <<Types>>)
  BY DEF ShapeOfDeclaration
<1>8. /\ \A point \in {"fields", "field", "close"} :
           ShapeOfDeclaration("Struct", point) = Roles(<<Names>>, {"Field"}, <<>>)
      /\ ShapeOfDeclaration("Struct", "field type") = Roles(<<Names>>, {"Field"}, <<Names>>)
  BY DEF ShapeOfDeclaration
<1>9. /\ \A routine \in {"Class", "Trait"}, point \in {"members", "member"} :
           ShapeOfDeclaration(routine, point) = Roles(<<Names>>, Declarations, <<>>)
      /\ \A point \in {"variants", "variant"} : ShapeOfDeclaration("Enum", point) = ListOf(Names)
      /\ \A point \in {"path", "close"} : ShapeOfDeclaration("Import", point) = ListOf(Names)
      /\ ShapeOfDeclaration("Module", "body") = Only(<<Names>>)
  BY DEF ShapeOfDeclaration
<1>10. \A routine \in {"Function", "Struct", "Class", "Trait", "Enum", "Module", "Declaration",
                        "Import", "Package"} :
         \A point : Shape(routine, point) = ShapeOfDeclaration(routine, point)
  BY <1>1, <1>2
<1>11. \A point : /\ Shape("Function", point) = ShapeOfDeclaration("Function", point)
                  /\ Shape("Struct", point) = ShapeOfDeclaration("Struct", point)
                  /\ Shape("Enum", point) = ShapeOfDeclaration("Enum", point)
                  /\ Shape("Import", point) = ShapeOfDeclaration("Import", point)
                  /\ Shape("Module", point) = ShapeOfDeclaration("Module", point)
                  /\ Shape("Declaration", point) = ShapeOfDeclaration("Declaration", point)
  BY <1>10
<1>12. /\ \A routine \in {"Struct", "Class", "Trait", "Enum", "Module", "Package"} :
            Shape(routine, "name") = Leaf
       /\ \A routine \in {"Class", "Trait"}, point \in {"members", "member"} :
            Shape(routine, point) = Roles(<<Names>>, Declarations, <<>>)
  BY <1>6, <1>9, <1>10
<1>13. \A routine \in Declaring : Shape(routine, "start") = ListOf({"Attribute"})
  BY <1>2, <1>5
<1>14. QED
  BY <1>3, <1>4, <1>6, <1>7, <1>8, <1>9, <1>11, <1>12, <1>13

(* Statements and what has one token. *)
LEMMA StatementShapes ==
  /\ \A routine \in Stating \union {"Block", "Identifier", "Type"} : Shape(routine, "start") = Leaf
  /\ \A point \in {"statements", "statement"} : Shape("Block", point) = ListOf(Statements)
  /\ \A routine \in {"If", "While"} :
       /\ Shape(routine, "condition") = Leaf
       /\ Shape(routine, "body") = Only(<<Expressions>>)
  /\ Shape("If", "else") = Only(<<Expressions, Statements>>)
  /\ Shape("For", "iterator") = Leaf
  /\ Shape("For", "iterable") = Only(<<Names>>)
  /\ Shape("For", "body") = Only(<<Names, Expressions>>)
  /\ Shape("Return", "value") = Leaf
  /\ Shape("Variable", "name") = Leaf
  /\ Shape("Variable", "type") = Only(<<Names>>)
  /\ Shape("Variable", "initializer") = Only(<<Names, Types>>)
  /\ \A routine \in {"MatchStatement", "ExpressionStatement"} : Shape(routine, "expression") = Leaf
<1>1. \A routine \in Stating \union {"Block", "Identifier", "Type"} :
        routine \notin Declaring /\ routine \notin Expressing /\ routine # "Program"
  BY DEF Stating, Declaring, Named, Expressing
<1>2. \A routine \in Stating \union {"Block", "Identifier", "Type"} : \A point :
        Shape(routine, point) = ShapeOfStatement(routine, point)
  BY <1>1, Zenon DEF Shape
<1>3. \A routine \in Stating \union {"Block", "Identifier", "Type"} :
        ShapeOfStatement(routine, "start") = Leaf
  BY DEF ShapeOfStatement
<1>4. /\ \A point \in {"statements", "statement"} :
           ShapeOfStatement("Block", point) = ListOf(Statements)
      /\ \A routine \in {"If", "While"} :
           /\ ShapeOfStatement(routine, "condition") = Leaf
           /\ ShapeOfStatement(routine, "body") = Only(<<Expressions>>)
      /\ ShapeOfStatement("If", "else") = Only(<<Expressions, Statements>>)
  BY DEF ShapeOfStatement
<1>5. /\ ShapeOfStatement("For", "iterator") = Leaf
      /\ ShapeOfStatement("For", "iterable") = Only(<<Names>>)
      /\ ShapeOfStatement("For", "body") = Only(<<Names, Expressions>>)
      /\ ShapeOfStatement("Return", "value") = Leaf
      /\ ShapeOfStatement("Variable", "name") = Leaf
      /\ ShapeOfStatement("Variable", "type") = Only(<<Names>>)
      /\ ShapeOfStatement("Variable", "initializer") = Only(<<Names, Types>>)
      /\ \A routine \in {"MatchStatement", "ExpressionStatement"} :
           ShapeOfStatement(routine, "expression") = Leaf
  BY DEF ShapeOfStatement
<1>6. {"Block", "If", "While", "For", "Return", "Variable", "MatchStatement",
       "ExpressionStatement"} \subseteq Stating \union {"Block", "Identifier", "Type"}
  BY DEF Stating
<1>7. QED
  BY <1>2, <1>3, <1>4, <1>5, <1>6

(* Expressions. *)
LEMMA ExpressionShapes ==
  /\ \A routine \in Expressing : Shape(routine, "start") = Leaf
  /\ Shape("Assignment", "left") = Leaf
  /\ Shape("Assignment", "value") = Only(<<Expressions>>)
  /\ Shape("Binary", "operand") = Leaf
  /\ \A point \in {"operator", "right"} : Shape("Binary", point) = Only(<<Expressions>>)
  /\ \A point : Shape("Unary", point) = Leaf
  /\ \A point \in {"inner", "scrutinee"} : Shape("Primary", point) = Leaf
  /\ Shape("Primary", "postfix") = Only(<<Expressions>>)
  /\ \A point \in {"argument", "call"} :
       Shape("Primary", point) = Roles(<<Expressions>>, Expressions, <<>>)
<1>1. \A routine \in Expressing : routine \notin Declaring /\ routine # "Program"
  BY DEF Declaring, Named, Expressing
<1>2. \A routine \in Expressing :
        \A point : Shape(routine, point) = ShapeOfExpression(routine, point)
  BY <1>1, Zenon DEF Shape
<1>3. \A routine \in Expressing : ShapeOfExpression(routine, "start") = Leaf
  BY DEF ShapeOfExpression
<1>4. /\ ShapeOfExpression("Assignment", "left") = Leaf
      /\ ShapeOfExpression("Assignment", "value") = Only(<<Expressions>>)
      /\ ShapeOfExpression("Binary", "operand") = Leaf
      /\ \A point \in {"operator", "right"} :
           ShapeOfExpression("Binary", point) = Only(<<Expressions>>)
      /\ \A point : ShapeOfExpression("Unary", point) = Leaf
  BY DEF ShapeOfExpression
<1>5. /\ \A point \in {"inner", "scrutinee"} : ShapeOfExpression("Primary", point) = Leaf
      /\ ShapeOfExpression("Primary", "postfix") = Only(<<Expressions>>)
      /\ \A point \in {"argument", "call"} :
           ShapeOfExpression("Primary", point) = Roles(<<Expressions>>, Expressions, <<>>)
  BY DEF ShapeOfExpression
<1>6. {"Assignment", "Binary", "Unary", "Primary"} = Expressing
  BY DEF Expressing
<1>7. QED
  BY <1>2, <1>3, <1>4, <1>5, <1>6

(* What may be returned at the points. *)
LEMMA AwaitedTable ==
  /\ \A routine :
       /\ \A point \in {"name", "parameter", "field", "variant", "iterator"} :
            Awaited(routine, point) = Names
       /\ \A point \in {"parameter type", "field type", "return type", "type"} :
            Awaited(routine, point) = Types
       /\ \A point \in {"parsed", "member"} : Awaited(routine, point) = Declarations
       /\ \A point \in {"condition", "initializer", "value", "expression", "iterable", "left",
                        "operand", "right", "primary", "inner", "scrutinee", "argument"} :
            Awaited(routine, point) = Expressions
       /\ \A point \in {"start", "attributes", "call", "close", "declarations", "fields", "members",
                        "next parameter", "operator", "path", "postfix", "statements",
                        "variants"} :
            Awaited(routine, point) = {}
  /\ \A routine \in {"Function", "Module"} : Awaited(routine, "body") = {"Block"}
  /\ \A routine \in {"If", "While", "For"} : Awaited(routine, "body") = Statements
  /\ Awaited("If", "else") = Statements /\ Awaited("Block", "statement") = Statements
<1>1. \A routine :
       /\ \A point \in {"name", "parameter", "field", "variant", "iterator"} :
            Awaited(routine, point) = Names
       /\ \A point \in {"parameter type", "field type", "return type", "type"} :
            Awaited(routine, point) = Types
       /\ \A point \in {"parsed", "member"} : Awaited(routine, point) = Declarations
  BY DEF Awaited
<1>2. \A routine :
       \A point \in {"condition", "initializer", "value", "expression", "iterable", "left",
                     "operand", "right", "primary", "inner", "scrutinee", "argument"} :
         Awaited(routine, point) = Expressions
  BY DEF Awaited
<1>3. \A routine :
       \A point \in {"start", "attributes", "call", "close", "declarations", "fields", "members",
                     "next parameter", "operator", "path", "postfix", "statements", "variants"} :
         Awaited(routine, point) = {}
  <2> TAKE routine
  <2> TAKE point \in {"start", "attributes", "call", "close", "declarations", "fields", "members",
                      "next parameter", "operator", "path", "postfix", "statements", "variants"}
  <2>1. /\ point \notin {"name", "parameter", "field", "variant", "iterator"}
        /\ point \notin {"parameter type", "field type", "return type", "type"}
        /\ point \notin {"parsed", "member"}
    OBVIOUS
  <2>2. point \notin {"condition", "initializer", "value", "expression", "iterable", "left",
                      "operand", "right", "primary", "inner", "scrutinee", "argument"}
    OBVIOUS
  <2>3. point # "body" /\ point # "else" /\ point # "statement"
    OBVIOUS
  <2>4. QED
    BY <2>1, <2>2, <2>3, Zenon DEF Awaited
<1>4. /\ \A routine \in {"Function", "Module"} : Awaited(routine, "body") = {"Block"}
      /\ \A routine \in {"If", "While", "For"} : Awaited(routine, "body") = Statements
      /\ Awaited("If", "else") = Statements /\ Awaited("Block", "statement") = Statements
  BY DEF Awaited
<1>5. QED
  BY <1>1, <1>2, <1>3, <1>4

(* What the functions return. *)
LEMMA ResultsTable ==
  /\ \A routine \in Named \union {"Import", "Package"} : Results(routine) = {routine}
  /\ Results("Declaration") = Declarations
  /\ Results("Identifier") = Names /\ Results("Type") = Types
  /\ Results("Block") = {"Block"}
  /\ \A routine \in Stating : Results(routine) = Statements
  /\ \A routine \in Expressing : Results(routine) = Expressions
  /\ \A routine \in Declaring : Results(routine) \subseteq Declarations
<1>1. /\ Declaring \ {"Declaration"} = Named \union {"Import", "Package"}
      /\ Declaring = Named \union {"Declaration", "Import", "Package"}
      /\ {"Declaration", "Identifier", "Type", "Block"}
           \cap (Named \union {"Import", "Package"}) = {}
      /\ Stating \cap (Declaring \union {"Declaration", "Identifier", "Type", "Block"}) = {}
      /\ Expressing \cap (Declaring \union {"Declaration", "Identifier", "Type", "Block"}) = {}
      /\ Expressing \cap Stating = {}
  BY DEF Declaring, Named, Stating, Expressing
<1>2. \A routine \in Named \union {"Import", "Package"} : Results(routine) = {routine}
  BY <1>1, Zenon DEF Results
<1>3. /\ Results("Declaration") = Declarations
      /\ Results("Identifier") = Names /\ Results("Type") = Types
      /\ Results("Block") = {"Block"}
  BY <1>1 DEF Results
<1>4. \A routine \in Stating : Results(routine) = Statements
  BY <1>1 DEF Results
<1>5. \A routine \in Expressing : Results(routine) = Expressions
  BY <1>1 DEF Results
<1>6. Named \union {"Import", "Package"} \subseteq Declarations
  BY DEF Named, Declarations
<1>7. QED
  BY <1>1, <1>2, <1>3, <1>4, <1>5, <1>6

-----------------------------------------------------------------------------
(* The steps.  New nodes change nothing of what the older nodes and the     *)
(* frames hold.                                                             *)

SameParts(tree, more, parts) ==
  \A k \in 1..Len(parts) : parts[k] # 0 => more[parts[k]] = tree[parts[k]]

(* The parts of what was there. *)
LEMMA PartsStay ==
  ASSUME NEW tree, NEW more, Grown(tree, more), NEW parts \in Seq(Nat),
         Indices(parts) \subseteq 0..Len(tree)
  PROVE  SameParts(tree, more, parts)
<1>1. \A k \in 1..Len(parts) : parts[k] \in 0..Len(tree)
  BY DEF Indices
<1>2. Len(tree) \in Nat /\ \A i \in 1..Len(tree) : more[i] = tree[i]
  BY DEF Grown
<1>3. QED
  BY <1>1, <1>2 DEF SameParts

(* What is said of them. *)
LEMMA CarriedStays ==
  ASSUME NEW tree, NEW more, NEW parts, SameParts(tree, more, parts)
  PROVE  /\ \A roles : Fits(tree, roles, parts) => Fits(more, roles, parts)
         /\ Ordered(tree, parts) => Ordered(more, parts)
         /\ \A a, b : Between(tree, parts, a, b) => Between(more, parts, a, b)
         /\ \A a : Behinds(tree, parts, a) => Behinds(more, parts, a)
         /\ \A f, p : Carried(tree, f, parts, p) => Carried(more, f, parts, p)
<1>1. \A roles : Fits(tree, roles, parts) => Fits(more, roles, parts)
  BY DEF SameParts, Fits
<1>2. Ordered(tree, parts) => Ordered(more, parts)
  BY Zenon DEF SameParts, Ordered
<1>3. \A a, b : Between(tree, parts, a, b) => Between(more, parts, a, b)
  BY Zenon DEF SameParts, Between
<1>4. \A a : Behinds(tree, parts, a) => Behinds(more, parts, a)
  BY Zenon DEF SameParts, Behinds
<1>5. QED
  BY <1>1, <1>2, <1>3, <1>4, Zenon DEF Carried

(* Nodes that are sound stay so. *)
LEMMA NodesSoundStay ==
  ASSUME NEW tree, NEW more, Grown(tree, more), Older(tree),
         \A i \in 1..Len(tree) : NodeSound(tree, i)
  PROVE  \A i \in 1..Len(tree) : NodeSound(more, i)
<1> TAKE i \in 1..Len(tree)
<1>1. /\ more[i] = tree[i] /\ tree[i] \in Node /\ NodeSound(tree, i) /\ Len(tree) \in Nat
      /\ Indices(tree[i].parts) \subseteq 0..i - 1
  BY DEF Grown, Older
<1>2. tree[i].parts \in Seq(Nat) /\ Indices(tree[i].parts) \subseteq 0..Len(tree)
  BY <1>1 DEF Node
<1>3. SameParts(tree, more, tree[i].parts)
  BY <1>2, PartsStay
<1>4. QED
  BY <1>1, <1>3, CarriedStays, Zenon DEF NodeSound

(* A frame that is sound stays so while the cursor moves on. *)
LEMMA FrameSoundStays ==
  ASSUME NEW tree, NEW more, Grown(tree, more), NEW f \in FrameRecord,
         Indices(f.parts) \subseteq 0..Len(tree),
         NEW p \in Nat, NEW q \in Nat, p <= q, FrameSound(tree, f, p)
  PROVE  FrameSound(more, f, q)
<1>1. f.parts \in Seq(Nat) /\ f.from \in Nat /\ f.start \in Nat
  BY DEF FrameRecord
<1>2. SameParts(tree, more, f.parts)
  BY <1>1, PartsStay
<1>3. /\ Fits(more, Shape(f.routine, f.point), f.parts)
      /\ Carried(more, f, f.parts, p)
  BY <1>2, CarriedStays DEF FrameSound
<1>4. Between(more, f.parts, f.from, q)
  <2> SUFFICES ASSUME NEW k \in 1..Len(f.parts), f.parts[k] # 0
               PROVE  f.from <= more[f.parts[k]].from /\ more[f.parts[k]].to <= q
    BY DEF Between
  <2>1. f.from <= more[f.parts[k]].from /\ more[f.parts[k]].to <= p
    BY <1>3 DEF Carried, Between
  <2>2. f.parts[k] \in 1..Len(tree) /\ Len(tree) \in Nat
    BY <1>1 DEF Indices, Grown
  <2>3. more[f.parts[k]] \in Node
    BY <2>2 DEF Grown
  <2>4. more[f.parts[k]].to \in Nat
    BY <2>3 DEF Node
  <2>5. QED
    BY <2>1, <2>4
<1>5. Carried(more, f, f.parts, q)
  BY <1>3, <1>4 DEF Carried
<1>6. /\ f.from <= f.start /\ f.start <= q
      /\ f.routine \in Expressing => f.start = f.from
      /\ f.routine \in Beginning /\ f.point # "start" => f.start < q
  BY <1>1 DEF FrameSound
<1>7. QED
  BY <1>3, <1>5, <1>6 DEF FrameSound

(* A function that stands for the one that was called. *)
StandsIn(g, f) == g.from = f.from /\ Results(g.routine) \subseteq Results(f.routine)

(* New nodes change nothing of what a caller knows, of either function. *)
LEMMA CallSoundStays ==
  ASSUME NEW tree, NEW more, Grown(tree, more), NEW e \in FrameRecord,
         Indices(e.parts) \subseteq 0..Len(tree), NEW f, f.from \in Nat, CallSound(tree, e, f)
  PROVE  \A g : StandsIn(g, f) => CallSound(more, e, g)
<1>1. FrameSound(more, e, f.from)
  BY FrameSoundStays DEF CallSound
<1>2. Is(e, "If", {"else"}) /\ e.parts[2] # 0 => more[e.parts[2]].to < f.from
  <2>1. SUFFICES ASSUME Is(e, "If", {"else"}), e.parts[2] # 0
                 PROVE  more[e.parts[2]].to < f.from
    OBVIOUS
  <2>2. e.parts \in Seq(Nat)
    BY DEF FrameRecord
  <2>3. Fits(tree, Only(<<Expressions, Statements>>), e.parts)
    BY <2>1, StatementShapes DEF Is, CallSound, FrameSound
  <2>4. Len(e.parts) >= 2
    BY <2>3, <2>2 DEF Fits, Only, Roles
  <2>5. 2 \in 1..Len(e.parts)
    BY <2>2, <2>4
  <2>6. SameParts(tree, more, e.parts)
    BY <2>2, PartsStay
  <2>7. QED
    BY <2>1, <2>5, <2>6 DEF SameParts, CallSound
<1>3. QED
  BY <1>1, <1>2 DEF CallSound, StandsIn

(* A step of the function on top.                                          *)
Working ==
  /\ IInv /\ IInv' /\ Running /\ BuiltInv
  /\ context.had_error => context'.had_error
  /\ context.position <= context'.position
  /\ Grown(nodes, nodes')
  /\ \A i \in Len(nodes) + 1..Len(nodes') : NodeSound(nodes', i)

(* What it finds of the running frame. *)
LEMMA WorkFacts ==
  ASSUME IInv, Running, BuiltInv
  PROVE  /\ \A i \in 1..Len(nodes) : NodeSound(nodes, i)
         /\ FrameSound(nodes, frame, context.position)
         /\ AnswerSound(nodes, frame, returned, context.position)
         /\ ~context.had_error /\ Owing(frame) => returned # 0
         /\ frame \in FrameRecord /\ frame.parts \in Seq(Nat)
         /\ frame.from \in Nat /\ frame.start \in Nat /\ context.position \in Nat
         /\ Indices(frame.parts) \subseteq 0..Len(nodes) /\ Len(nodes) \in Nat
         /\ returned \in 0..Len(nodes) /\ nodes \in Seq(Node) /\ Older(nodes)
         /\ frame = calls[1] /\ calls \in Seq(FrameRecord) /\ calls # <<>>
<1>1. TopSound(nodes, Head(calls), returned, context.position, context.had_error)
      /\ \A i \in 1..Len(nodes) : NodeSound(nodes, i)
  BY DEF BuiltInv, Built, Running
<1>2. calls \in Seq(FrameRecord) /\ calls # <<>> /\ returned \in 0..Len(nodes)
      /\ nodes \in Seq(Node) /\ Older(nodes)
  BY DEF IInv, CallsInv, NodesInv, Running
<1>3. frame = calls[1] /\ Head(calls) = frame
  BY <1>2 DEF frame
<1>4. frame \in FrameRecord /\ frame.parts \in Seq(Nat) /\ Len(nodes) \in Nat
      /\ frame.from \in Nat /\ frame.start \in Nat /\ context.position \in Nat
      /\ Indices(frame.parts) \subseteq 0..Len(nodes)
  BY FrameFacts DEF GoodFrame
<1>5. QED
  BY <1>1, <1>2, <1>3, <1>4 DEF TopSound

(* The nodes and the callers after the step. *)
LEMMA CallersSound ==
  ASSUME Working
  PROVE  LET t == Tail(calls) IN
         /\ \A i \in 1..Len(nodes') : NodeSound(nodes', i)
         /\ t \in Seq(FrameRecord)
         /\ \A d \in 2..Len(t) : CallSound(nodes', t[d], t[d - 1])
         /\ t # <<>> => \A g : StandsIn(g, frame) => CallSound(nodes', t[1], g)
<1> DEFINE t == Tail(calls)
<1>0. IInv /\ Running /\ BuiltInv /\ Grown(nodes, nodes')
  BY DEF Working
<1>1. calls \in Seq(FrameRecord) /\ calls # <<>> /\ frame = calls[1] /\ Len(nodes) \in Nat
      /\ frame.from \in Nat /\ Older(nodes) /\ \A i \in 1..Len(nodes) : NodeSound(nodes, i)
  BY <1>0, WorkFacts
<1>2. /\ t \in Seq(FrameRecord) /\ Len(calls) \in Nat /\ Len(t) = Len(calls) - 1
      /\ \A d \in 1..Len(t) : t[d] = calls[d + 1]
  BY <1>1
<1>3. \A i \in 1..Len(nodes') : NodeSound(nodes', i)
  <2>1. \A i \in 1..Len(nodes) : NodeSound(nodes', i)
    BY <1>0, <1>1, NodesSoundStay
  <2>2. \A i \in Len(nodes) + 1..Len(nodes') : NodeSound(nodes', i)
    BY DEF Working
  <2>3. Len(nodes') \in Nat
    BY <1>0 DEF Grown
  <2>4. \A i \in 1..Len(nodes') : i \in 1..Len(nodes) \/ i \in Len(nodes) + 1..Len(nodes')
    BY <1>1, <2>3
  <2>5. QED
    BY <2>1, <2>2, <2>4
<1>4. \A d \in 1..Len(calls) : /\ calls[d] \in FrameRecord /\ calls[d].from \in Nat
                               /\ Indices(calls[d].parts) \subseteq 0..Len(nodes)
  <2> TAKE d \in 1..Len(calls)
  <2>1. calls[d] \in FrameRecord /\ GoodFrame(calls[d], Len(nodes), context.position)
    BY <1>0, <1>1 DEF IInv, CallsInv
  <2>2. QED
    BY <2>1 DEF FrameRecord, GoodFrame
<1>5. \A d \in 2..Len(calls) :
        \A g : StandsIn(g, calls[d - 1]) => CallSound(nodes', calls[d], g)
  <2> TAKE d \in 2..Len(calls)
  <2>1. d \in 1..Len(calls) /\ d - 1 \in 1..Len(calls)
    BY <1>2
  <2>2. CallSound(nodes, calls[d], calls[d - 1])
    BY <1>0 DEF BuiltInv, Built
  <2>3. QED
    BY <1>0, <1>4, <2>1, <2>2, CallSoundStays
<1>6. \A g : StandsIn(g, g)
  BY DEF StandsIn
<1> HIDE DEF t
<1>7. \A d \in 2..Len(t) : CallSound(nodes', t[d], t[d - 1])
  <2> TAKE d \in 2..Len(t)
  <2>1. d \in 1..Len(t) /\ d - 1 \in 1..Len(t) /\ d + 1 \in 2..Len(calls)
        /\ (d - 1) + 1 = (d + 1) - 1
    BY <1>2
  <2>2. t[d] = calls[d + 1] /\ t[d - 1] = calls[(d + 1) - 1]
    BY <1>2, <2>1
  <2>3. QED
    BY <1>5, <1>6, <2>1, <2>2
<1>8. t # <<>> => \A g : StandsIn(g, frame) => CallSound(nodes', t[1], g)
  <2>1. SUFFICES ASSUME t # <<>> PROVE \A g : StandsIn(g, frame) => CallSound(nodes', t[1], g)
    OBVIOUS
  <2>2. 1 \in 1..Len(t) /\ 2 \in 2..Len(calls) /\ 2 - 1 = 1 /\ 1 + 1 = 2
    BY <1>2, <2>1
  <2>3. t[1] = calls[2]
    BY <1>2, <2>2
  <2>4. QED
    BY <1>1, <1>5, <2>2, <2>3
<1>9. QED
  BY <1>2, <1>3, <1>7, <1>8 DEF t

(* A frame put on callers that may call it. *)
LEMMA SoundPushed ==
  ASSUME NEW tree, NEW t \in Seq(FrameRecord), NEW f,
         \A d \in 2..Len(t) : CallSound(tree, t[d], t[d - 1]),
         t # <<>> => CallSound(tree, t[1], f)
  PROVE  LET u == <<f>> \o t IN \A d \in 2..Len(u) : CallSound(tree, u[d], u[d - 1])
<1> DEFINE u == <<f>> \o t
<1>1. /\ u[1] = f /\ Len(u) = Len(t) + 1 /\ Len(t) \in Nat
      /\ \A d \in 1..Len(t) : u[d + 1] = t[d]
  BY Pushed
<1> HIDE DEF u
<1>2. ASSUME NEW d \in 2..Len(u) PROVE CallSound(tree, u[d], u[d - 1])
  <2>1. d - 1 \in 1..Len(t) /\ (d - 1) + 1 = d
    BY <1>1
  <2>2. u[d] = t[d - 1]
    BY <1>1, <2>1
  <2>3. CASE d = 2
    <3>1. t # <<>> /\ u[d] = t[1] /\ u[d - 1] = f
      BY <1>1, <2>1, <2>2, <2>3
    <3>2. QED
      BY <3>1
  <2>4. CASE d # 2
    <3>1. d - 1 \in 2..Len(t) /\ (d - 1) - 1 \in 1..Len(t) /\ ((d - 1) - 1) + 1 = d - 1
      BY <1>1, <2>1, <2>4
    <3>2. u[d - 1] = t[(d - 1) - 1]
      BY <1>1, <3>1
    <3>3. QED
      BY <2>2, <3>1, <3>2
  <2>5. QED
    BY <2>3, <2>4
<1>3. QED
  BY <1>2 DEF u

(* The function goes on at g. *)
LEMMA GoesOnBuilt ==
  ASSUME Working, NEW g, calls' = <<g>> \o Tail(calls), returned' = 0, StandsIn(g, frame),
         FrameSound(nodes', g, context'.position), ~context'.had_error => ~Owing(g)
  PROVE  BuiltInv'
<1> DEFINE t == Tail(calls)
<1>1. /\ \A i \in 1..Len(nodes') : NodeSound(nodes', i)
      /\ t \in Seq(FrameRecord)
      /\ \A d \in 2..Len(t) : CallSound(nodes', t[d], t[d - 1])
      /\ t # <<>> => CallSound(nodes', t[1], g)
  BY CallersSound
<1> HIDE DEF t
<1>2. calls' = <<g>> \o t
  BY DEF t
<1>3. \A d \in 2..Len(calls') : CallSound(nodes', calls'[d], (calls')[d - 1])
  BY <1>1, <1>2, SoundPushed
<1>4. Head(calls') = g
  BY <1>1, <1>2, Pushed
<1>5. TopSound(nodes', g, 0, context'.position, context'.had_error)
  BY Zenon DEF TopSound, AnswerSound
<1>6. QED
  BY <1>1, <1>3, <1>4, <1>5, Zenon DEF BuiltInv, Built

(* It calls a function, and stays at g. *)
LEMMA CallsOnBuilt ==
  ASSUME Working, NEW g \in FrameRecord, NEW callee, calls' = <<callee, g>> \o Tail(calls),
         returned' = 0,
         StandsIn(g, frame), CallSound(nodes', g, callee),
         FrameSound(nodes', callee, context'.position), ~Owing(callee)
  PROVE  BuiltInv'
<1> DEFINE t == Tail(calls)
           u == <<g>> \o t
<1>1. /\ \A i \in 1..Len(nodes') : NodeSound(nodes', i)
      /\ t \in Seq(FrameRecord)
      /\ \A d \in 2..Len(t) : CallSound(nodes', t[d], t[d - 1])
      /\ t # <<>> => CallSound(nodes', t[1], g)
  BY CallersSound
<1>2. calls' = <<callee>> \o u /\ u \in Seq(FrameRecord)
  BY <1>1
<1> HIDE DEF t
<1>3. /\ \A d \in 2..Len(u) : CallSound(nodes', u[d], u[d - 1])
      /\ u # <<>> /\ u[1] = g
  BY <1>1, SoundPushed, Pushed
<1> HIDE DEF u
<1>4. \A d \in 2..Len(calls') : CallSound(nodes', calls'[d], (calls')[d - 1])
  BY <1>2, <1>3, SoundPushed
<1>5. Head(calls') = callee
  BY <1>2, Pushed
<1>6. TopSound(nodes', callee, 0, context'.position, context'.had_error)
  BY Zenon DEF TopSound, AnswerSound
<1>7. QED
  BY <1>1, <1>4, <1>5, <1>6, Zenon DEF BuiltInv, Built

(* It returns. *)
LEMMA ReturnsBuilt ==
  ASSUME Working, calls' = Tail(calls),
         ~context'.had_error => returned' # 0,
         returned' # 0 =>
           /\ nodes'[returned'].kind \in Results(frame.routine)
           /\ frame.from <= nodes'[returned'].from
           /\ nodes'[returned'].to <= context'.position
  PROVE  BuiltInv'
<1> DEFINE t == Tail(calls)
<1>1. /\ \A i \in 1..Len(nodes') : NodeSound(nodes', i)
      /\ t \in Seq(FrameRecord)
      /\ \A d \in 2..Len(t) : CallSound(nodes', t[d], t[d - 1])
      /\ t # <<>> => \A g : StandsIn(g, frame) => CallSound(nodes', t[1], g)
  BY CallersSound
<1>2. t # <<>> => TopSound(nodes', Head(t), returned', context'.position, context'.had_error)
  <2>1. SUFFICES ASSUME t # <<>>
                 PROVE  TopSound(nodes', t[1], returned', context'.position, context'.had_error)
    BY <1>1
  <2> DEFINE e == t[1]
             r == returned'
             p == context'.position
  <2>2. CallSound(nodes', e, frame)
    BY <1>1, <2>1 DEF StandsIn
  <2>3. FrameSound(nodes', e, frame.from)
        /\ Results(frame.routine) \subseteq Awaited(e.routine, e.point)
    BY <2>2 DEF CallSound
  <2>4. /\ IInv /\ IInv' /\ Running /\ nodes' \in Seq(Node) /\ calls' \in Seq(FrameRecord)
        /\ returned' \in 0..Len(nodes') /\ context.position <= p /\ Grown(nodes, nodes')
        /\ \A d \in 1..Len(calls') : GoodFrame(calls'[d], Len(nodes'), p)
    BY DEF Working, IInv, NodesInv, CallsInv
  <2>5. e \in FrameRecord /\ GoodFrame(e, Len(nodes'), p) /\ Len(nodes') \in Nat
    <3>1. 1 \in 1..Len(t) /\ t[1] \in FrameRecord
      BY <1>1, <2>1
    <3>2. calls'[1] = t[1] /\ 1 \in 1..Len(calls')
      BY <3>1
    <3>3. QED
      BY <2>4, <3>1, <3>2
  <2>6. e.parts \in Seq(Nat) /\ Indices(e.parts) \subseteq 0..Len(nodes')
        /\ e.from \in Nat /\ e.start \in Nat
    BY <2>5 DEF FrameRecord, GoodFrame
  <2>7. frame.from \in Nat /\ frame.from <= p /\ p \in Nat
    <3>1. frame.from \in Nat /\ frame.from <= context.position /\ context.position \in Nat
      BY <2>4, FrameFacts DEF GoodFrame
    <3>2. p \in Nat
      BY <2>4 DEF IInv, GoodContext, ParserState
    <3>3. QED
      BY <2>4, <3>1, <3>2
  <2>8. Grown(nodes', nodes')
    BY <2>4 DEF Grown
  <2> HIDE DEF e, r, p
  <2>9. FrameSound(nodes', e, p)
    BY <2>3, <2>5, <2>6, <2>7, <2>8, FrameSoundStays
  <2>10. AnswerSound(nodes', e, r, p)
    <3>1. SUFFICES ASSUME r # 0 PROVE AnswerSound(nodes', e, r, p)
      BY Zenon DEF AnswerSound
    <3>2. /\ nodes'[r].kind \in Results(frame.routine)
          /\ frame.from <= nodes'[r].from /\ nodes'[r].to <= p
      BY <3>1 DEF r, p
    <3>3. nodes'[r] \in Node
      BY <2>4, <3>1 DEF r
    <3>4. nodes'[r].from \in Nat
      BY <3>3 DEF Node
    <3>5. e.start <= frame.from
      BY <2>3 DEF FrameSound
    <3>6. e.start <= nodes'[r].from
      BY <2>6, <2>7, <3>2, <3>4, <3>5
    <3>7. ASSUME NEW k \in 1..Len(e.parts), e.parts[k] # 0
          PROVE  nodes'[e.parts[k]].to <= nodes'[r].from
      <4>1. nodes'[e.parts[k]].to <= frame.from
        BY <2>3, <3>7 DEF FrameSound, Carried, Between
      <4>2. e.parts[k] \in 1..Len(nodes')
        BY <2>5, <2>6, <3>7 DEF Indices
      <4>3. nodes'[e.parts[k]] \in Node
        BY <2>4, <4>2
      <4>4. nodes'[e.parts[k]].to \in Nat
        BY <4>3 DEF Node
      <4>5. QED
        BY <2>7, <3>2, <3>4, <4>1, <4>4
    <3>8. nodes'[r].kind \in Awaited(e.routine, e.point)
      BY <2>3, <3>2
    <3>9. QED
      BY <3>2, <3>6, <3>7, <3>8, Zenon DEF AnswerSound
  <2>11. ~context'.had_error /\ Owing(e) => r # 0
    BY DEF r
  <2>12. QED
    BY <2>9, <2>10, <2>11, Zenon DEF TopSound, e, r, p
<1> HIDE DEF t
<1>3. calls' = t
  BY DEF t
<1>4. QED
  BY <1>1, <1>2, <1>3, Zenon DEF BuiltInv, Built

-----------------------------------------------------------------------------
(* The contexts that the functions come to. *)

Onto(c) == Lasts(c, context) /\ context.position <= c.position

(* Consume moves the cursor on, if it moves it. *)
LEMMA NowhereBack ==
  ASSUME NEW c \in ParserState
  PROVE  /\ c.position \in Nat
         /\ c.position <= Consumed(c).position
         /\ \A type : c.position <= Matched(c, type).position
<1> DEFINE d == [c EXCEPT !.position = c.position + 1]
<1>1. c.position \in Nat /\ d.position = c.position + 1
  BY DEF ParserState
<1>2. Consumed(c) = c \/ Consumed(c) = d
  BY DEF Consumed
<1> HIDE DEF d
<1>3. c.position <= Consumed(c).position
  <2>1. CASE Consumed(c) = c
    BY <1>1, <2>1
  <2>2. CASE Consumed(c) = d
    BY <1>1, <2>2
  <2>3. QED
    BY <1>2, <2>1, <2>2
<1>4. \A type : c.position <= Matched(c, type).position
  <2>1. c.position <= c.position
    BY <1>1
  <2>2. \A type : Matched(c, type) = Consumed(c) \/ Matched(c, type) = c
    BY DEF Matched
  <2>3. QED
    BY <1>3, <2>1, <2>2, Zenon
<1>5. QED
  BY <1>1, <1>3, <1>4

(* Consume, Match and ReportError take the cursor nowhere back. *)
LEMMA OntoMore ==
  ASSUME IInv, NEW c, Onto(c)
  PROVE  /\ Onto(Consumed(c)) /\ \A type : Onto(Matched(c, type))
         /\ Onto(Reported(c)) /\ Reported(c).had_error
<1>1. c \in ParserState /\ c.position \in Nat /\ context.position \in Nat /\ StreamInv
      /\ context.position <= c.position
  BY DEF Onto, Lasts, ParserState, IInv, GoodContext
<1>2. /\ Consumed(c) \in ParserState /\ c.position <= Consumed(c).position
      /\ \A type : Matched(c, type) \in ParserState /\ c.position <= Matched(c, type).position
  BY <1>1, NowhereBack, ConsumedLasts DEF Lasts
<1>3. Consumed(c).position \in Nat /\ \A type : Matched(c, type).position \in Nat
  BY <1>2 DEF ParserState
<1>4. context.position <= Consumed(c).position
  BY <1>1, <1>2, <1>3
<1>5. Lasts(Consumed(c), context) /\ \A type : Lasts(Matched(c, type), context)
  BY <1>1, ConsumedLasts, LastsOn DEF Onto
<1>6. \A type : context.position <= Matched(c, type).position
  BY <1>1, <1>2, <1>3
<1>7. /\ Reported(c) \in ParserState /\ Reported(c).position = c.position
      /\ Reported(c).had_error
  <2> DEFINE count == IF c.error_count < configuration.max_syntax_errors
                        THEN c.error_count + 1 ELSE c.error_count
             panic == c.in_panic_mode \/ count >= configuration.max_syntax_errors
             r == [c EXCEPT !.had_error = TRUE, !.error_count = count, !.in_panic_mode = panic]
  <2>1. count \in Nat
    BY <1>1 DEF ParserState
  <2>2. panic \in BOOLEAN
    BY <1>1 DEF ParserState
  <2>3. Reported(c) = r
    BY DEF Reported
  <2> HIDE DEF count, panic
  <2>4. r \in ParserState /\ r.position = c.position /\ r.had_error
    BY <1>1, <2>1, <2>2 DEF ParserState
  <2>5. QED
    BY <2>3, <2>4
<1>8. QED
  BY <1>1, <1>4, <1>5, <1>6, <1>7 DEF Onto, Lasts

(* The contexts of all the steps. *)
LEMMA OntoFacts ==
  ASSUME IInv
  PROVE  /\ Onto(context) /\ Onto(Consumed(context))
         /\ Onto(Reported(context)) /\ Reported(context).had_error
         /\ Onto(Recovered(context))
         /\ Onto(Recovered(Reported(context))) /\ Recovered(Reported(context)).had_error
         /\ Onto(SynchronizedStatement(context)) /\ Onto(SynchronizedDeclaration(context))
         /\ \A type : Onto(Matched(context, type))
         /\ \A type : type # "eof" =>
              Onto(Expected(context, type)) /\ Onto(ExpectedOrRecovered(context, type))
<1>1. Onto(context)
  BY CallsLast DEF Onto, IInv, GoodContext, ParserState
<1>2. /\ Follows(Recovered(context), context)
      /\ Follows(Recovered(Reported(context)), context)
      /\ Follows(SynchronizedStatement(context), context)
      /\ Follows(SynchronizedDeclaration(context), context)
  BY CursorFacts
<1>3. /\ Onto(Recovered(context)) /\ Onto(Recovered(Reported(context)))
      /\ Onto(SynchronizedStatement(context)) /\ Onto(SynchronizedDeclaration(context))
  BY <1>2, CallsLast DEF Onto, Follows
<1>4. \A type : type # "eof" =>
        Onto(Expected(context, type)) /\ Onto(ExpectedOrRecovered(context, type))
  BY CallFacts, CallsLast DEF Onto, Follows
<1>5. Recovered(Reported(context)).had_error
  <2>1. Reported(context).had_error /\ GoodContext(Reported(context)) /\ StreamInv
    BY <1>1, OntoMore, ReportedFollows DEF IInv, Follows
  <2>2. Lasts(Recovered(Reported(context)), Reported(context))
    BY <2>1, RecoveredLasts
  <2>3. QED
    BY <2>1, <2>2 DEF Lasts
<1>6. QED
  BY <1>1, <1>3, <1>4, <1>5, OntoMore

(* A token that is taken moves the cursor. *)
LEMMA OntoNext ==
  ASSUME IInv, Peek(context) # "eof"
  PROVE  /\ Consumed(context).position = context.position + 1
         /\ context.position < Consumed(context).position
         /\ context.position < Matched(Consumed(context), "mut").position
         /\ context.position \in Nat
<1>1. Consumed(context).position = context.position + 1 /\ context.position \in Nat
  BY ConsumedFollows DEF IInv, GoodContext, ParserState
<1>2. Consumed(context).position <= Matched(Consumed(context), "mut").position
  BY OntoFacts, NowhereBack DEF Onto, Lasts
<1>3. Matched(Consumed(context), "mut") \in ParserState
  BY OntoFacts, OntoMore DEF Onto, Lasts
<1>4. Matched(Consumed(context), "mut").position \in Nat
  BY <1>3 DEF ParserState
<1>5. QED
  BY <1>1, <1>2, <1>4

-----------------------------------------------------------------------------
(* The ways a segment ends, and what they need to leave nodes and frames   *)
(* sound.                                                                  *)

(* What the function holds in P: nothing, its parts, or what was returned  *)
(* as well.                                                                *)
Taken == {<<>>, frame.parts, Held}

(* Held is the parts and what was returned. *)
LEMMA HeldIs ==
  ASSUME IInv, Running, BuiltInv
  PROVE  /\ Held \in Seq(Nat) /\ Len(Held) = Len(frame.parts) + 1 /\ Len(frame.parts) \in Nat
         /\ \A k \in 1..Len(frame.parts) : Held[k] = frame.parts[k]
         /\ Held[Len(frame.parts) + 1] = returned
         /\ \A k \in 1..Len(Held) : k \in 1..Len(frame.parts) \/ k = Len(frame.parts) + 1
         /\ Indices(Held) \subseteq Indices(frame.parts) \union {returned}
<1>1. frame.parts \in Seq(Nat) /\ returned \in Nat
  <2>1. frame.parts \in Seq(Nat) /\ returned \in 0..Len(nodes) /\ Len(nodes) \in Nat
    BY WorkFacts
  <2>2. QED
    BY <2>1
<1>2. /\ Held \in Seq(Nat) /\ Len(Held) = Len(frame.parts) + 1 /\ Len(frame.parts) \in Nat
      /\ \A k \in 1..Len(frame.parts) : Held[k] = frame.parts[k]
      /\ Held[Len(frame.parts) + 1] = returned
      /\ \A k \in 1..Len(Held) : k \in 1..Len(frame.parts) \/ k = Len(frame.parts) + 1
  BY <1>1, AppendIs DEF Held
<1>3. Indices(Held) \subseteq Indices(frame.parts) \union {returned}
  BY <1>2 DEF Indices
<1>4. QED
  BY <1>2, <1>3

(* It stands in the text in its order, from the start of the function to   *)
(* the cursor.                                                             *)
LEMMA TakenCarried ==
  ASSUME IInv, Running, BuiltInv, NEW P \in Taken
  PROVE  /\ P \in Seq(Nat) /\ Indices(P) \subseteq 0..Len(nodes)
         /\ Carried(nodes, frame, P, context.position)
<1>1. /\ frame.parts \in Seq(Nat) /\ Indices(frame.parts) \subseteq 0..Len(nodes)
      /\ Carried(nodes, frame, frame.parts, context.position)
  BY WorkFacts DEF FrameSound
<1>2. CASE P = <<>>
  <2>1. P \in Seq(Nat) /\ Len(P) = 0 /\ 1..0 = {}
    BY <1>2
  <2>2. QED
    BY <2>1 DEF Carried, Ordered, Between, Behinds, Indices
<1>3. CASE P = Held
  <2> DEFINE n == Len(frame.parts)
  <2>1. /\ P \in Seq(Nat) /\ Len(P) = n + 1 /\ n \in Nat
        /\ \A k \in 1..n : P[k] = frame.parts[k]
        /\ P[n + 1] = returned
        /\ \A k \in 1..Len(P) : k \in 1..n \/ k = n + 1
        /\ Indices(P) \subseteq Indices(frame.parts) \union {returned}
    BY <1>3, HeldIs
  <2>2. /\ AnswerSound(nodes, frame, returned, context.position)
        /\ returned \in 0..Len(nodes) /\ Len(nodes) \in Nat /\ nodes \in Seq(Node)
        /\ frame.start \in Nat /\ frame.from \in Nat /\ FrameSound(nodes, frame, context.position)
    BY WorkFacts
  <2>3. returned # 0 =>
          /\ nodes[returned].to <= context.position /\ frame.start <= nodes[returned].from
          /\ \A k \in 1..n : P[k] # 0 => nodes[P[k]].to <= nodes[returned].from
    BY <2>1, <2>2, Zenon DEF AnswerSound
  <2>4. returned # 0 => frame.from <= nodes[returned].from
    <3>1. returned # 0 => nodes[returned] \in Node
      BY <2>2
    <3>2. returned # 0 => nodes[returned].from \in Nat
      BY <3>1 DEF Node
    <3>3. frame.from <= frame.start
      BY <2>2 DEF FrameSound
    <3>4. QED
      BY <2>2, <2>3, <3>2, <3>3
  <2>5. /\ \A k \in 1..n : P[k] # 0 =>
             /\ frame.from <= nodes[P[k]].from /\ nodes[P[k]].to <= context.position
             /\ nodes[P[k]].kind # "Attribute" => frame.start <= nodes[P[k]].from
        /\ \A k, l \in 1..n : k < l /\ P[k] # 0 /\ P[l] # 0 => nodes[P[k]].to <= nodes[P[l]].from
    BY <1>1, <2>1 DEF Carried, Ordered, Between, Behinds
  <2> HIDE DEF n
  <2>6. Ordered(nodes, P)
    <3> SUFFICES ASSUME NEW k \in 1..Len(P), NEW l \in 1..Len(P), k < l, P[k] # 0, P[l] # 0
                 PROVE  nodes[P[k]].to <= nodes[P[l]].from
      BY DEF Ordered
    <3>1. k \in 1..n
      BY <2>1
    <3>2. CASE l \in 1..n
      BY <2>5, <3>1, <3>2
    <3>3. CASE l = n + 1
      <4>1. P[l] = returned
        BY <2>1, <3>3
      <4>2. QED
        BY <2>3, <3>1, <4>1
    <3>4. QED
      BY <2>1, <3>2, <3>3
  <2>7. Between(nodes, P, frame.from, context.position) /\ Behinds(nodes, P, frame.start)
    BY <2>1, <2>3, <2>4, <2>5, Zenon DEF Between, Behinds
  <2>8. Indices(P) \subseteq 0..Len(nodes)
    BY <1>1, <2>1, <2>2
  <2>9. QED
    BY <2>1, <2>6, <2>7, <2>8 DEF Carried
<1>4. QED
  BY <1>1, <1>2, <1>3 DEF Taken

(* The cursor moves on. *)
LEMMA BetweenOn ==
  ASSUME NEW tree \in Seq(Node), NEW parts \in Seq(Nat), Indices(parts) \subseteq 0..Len(tree),
         NEW a, NEW b \in Nat, NEW d \in Nat, b <= d, Between(tree, parts, a, b)
  PROVE  Between(tree, parts, a, d)
<1> SUFFICES ASSUME NEW k \in 1..Len(parts), parts[k] # 0
             PROVE  a <= tree[parts[k]].from /\ tree[parts[k]].to <= d
  BY DEF Between
<1>1. a <= tree[parts[k]].from /\ tree[parts[k]].to <= b
  BY DEF Between
<1>2. parts[k] \in 1..Len(tree)
  BY DEF Indices
<1>3. tree[parts[k]] \in Node
  BY <1>2
<1>4. tree[parts[k]].to \in Nat
  BY <1>3 DEF Node
<1>5. QED
  BY <1>1, <1>4

(* The frame that resumes. *)
LEMMA ResumedIs ==
  ASSUME IInv, Running, NEW point, NEW parts
  PROVE  LET g == Resume(point, parts) IN
         /\ g.routine = frame.routine /\ g.point = point /\ g.parts = parts
         /\ g.from = frame.from /\ g.start = frame.start
         /\ StandsIn(g, frame)
<1>1. frame \in FrameRecord
  BY FrameFacts
<1> DEFINE g == Resume(point, parts)
<1>2. g = [frame EXCEPT !.point = point, !.parts = parts]
  BY DEF Resume
<1>3. /\ g.routine = frame.routine /\ g.point = point /\ g.parts = parts
      /\ g.from = frame.from /\ g.start = frame.start
  BY <1>1, <1>2 DEF FrameRecord
<1>4. QED
  BY <1>3 DEF StandsIn

(* The position is one a function that takes a token first is beyond. *)
Begun(c) == frame.routine \in Beginning => frame.start < c.position

(* What of a frame is left to show when it resumes. *)
LEMMA ResumedSound ==
  ASSUME IInv, Running, BuiltInv, NEW more, NEW c, Onto(c), Begun(c), NEW point, NEW parts,
         Fits(more, Shape(frame.routine, point), parts),
         Ordered(more, parts), Between(more, parts, frame.from, c.position),
         Behinds(more, parts, frame.start)
  PROVE  FrameSound(more, Resume(point, parts), c.position)
<1> DEFINE g == Resume(point, parts)
<1>1. /\ g.routine = frame.routine /\ g.point = point /\ g.parts = parts
      /\ g.from = frame.from /\ g.start = frame.start
  BY ResumedIs
<1> HIDE DEF g
<1>2. /\ frame.from <= frame.start /\ frame.start <= context.position
      /\ frame.routine \in Expressing => frame.start = frame.from
      /\ frame.from \in Nat /\ frame.start \in Nat /\ context.position \in Nat
  BY WorkFacts DEF FrameSound
<1>3. context.position <= c.position /\ c.position \in Nat
  BY DEF Onto, Lasts, ParserState
<1>4. g.from <= g.start /\ g.start <= c.position
  BY <1>1, <1>2, <1>3
<1>5. /\ g.routine \in Expressing => g.start = g.from
      /\ g.routine \in Beginning /\ g.point # "start" => g.start < c.position
  BY <1>1, <1>2 DEF Begun
<1>6. Carried(more, g, g.parts, c.position)
  BY <1>1, Zenon DEF Carried
<1>7. FrameSound(more, g, c.position)
  BY <1>1, <1>4, <1>5, <1>6, Zenon DEF FrameSound
<1>8. QED
  BY <1>7 DEF g

(* With what it takes, and no node made. *)
LEMMA ResumedTaken ==
  ASSUME IInv, Running, BuiltInv, NEW c, Onto(c), Begun(c), NEW point, NEW P \in Taken,
         Fits(nodes, Shape(frame.routine, point), P)
  PROVE  FrameSound(nodes, Resume(point, P), c.position)
<1>1. /\ P \in Seq(Nat) /\ Indices(P) \subseteq 0..Len(nodes)
      /\ Carried(nodes, frame, P, context.position)
  BY TakenCarried
<1>2. Between(nodes, P, frame.from, c.position)
  <2>1. context.position <= c.position /\ c.position \in Nat /\ context.position \in Nat
        /\ nodes \in Seq(Node)
    BY WorkFacts DEF Onto, Lasts, ParserState
  <2>2. QED
    BY <1>1, <2>1, BetweenOn DEF Carried
<1>3. Ordered(nodes, P) /\ Behinds(nodes, P, frame.start)
  BY <1>1 DEF Carried
<1>4. QED
  BY <1>2, <1>3, ResumedSound

(* A step that makes no node. *)
LEMMA WorkingOn ==
  ASSUME IInv, IInv', Running, BuiltInv, Onto(context'), nodes' = nodes
  PROVE  Working
<1>1. nodes \in Seq(Node) /\ Len(nodes) \in Nat
  BY WorkFacts
<1>2. Len(nodes) + 1..Len(nodes') = {} /\ Grown(nodes, nodes')
  BY <1>1 DEF Grown
<1>3. QED
  BY <1>2 DEF Working, Onto, Lasts

(* Continue. *)
LEMMA ContinueBuilt ==
  ASSUME IInv, IInv', Running, BuiltInv, NEW c, Onto(c), Begun(c), NEW point, NEW P \in Taken,
         Continue(point, c, P), Fits(nodes, Shape(frame.routine, point), P),
         ~c.had_error => ~Owing(Resume(point, P))
  PROVE  BuiltInv'
<1>1. /\ nodes' = nodes /\ context' = c /\ calls' = <<Resume(point, P)>> \o Tail(calls)
      /\ returned' = 0
  BY DEF Continue
<1>2. Working
  BY <1>1, WorkingOn
<1>3. FrameSound(nodes', Resume(point, P), context'.position)
  BY <1>1, ResumedTaken
<1>4. StandsIn(Resume(point, P), frame)
  BY ResumedIs
<1>5. QED
  BY <1>1, <1>2, <1>3, <1>4, GoesOnBuilt

(* The functions that are called, with no part yet. *)
Called == {"Declaration", "Identifier", "Type", "Block", "Statement"} \union Expressing
Begins(g, routine, c) ==
  /\ g.routine = routine /\ g.point = "start" /\ g.parts = <<>>
  /\ g.from = c.position /\ g.start = c.position

(* Such a frame is sound and owes nothing. *)
LEMMA BeginsSound ==
  ASSUME NEW tree, NEW c, Onto(c), NEW routine \in Called, NEW g, Begins(g, routine, c)
  PROVE  FrameSound(tree, g, c.position) /\ ~Owing(g) /\ g.from \in Nat
<1>1. c.position \in Nat /\ c.position <= c.position
  BY DEF Onto, Lasts, ParserState
<1>2. Shape(routine, "start") = Leaf \/ Shape(routine, "start") = ListOf({"Attribute"})
  <2>1. \/ routine = "Declaration"
        \/ routine \in Stating \union {"Block", "Identifier", "Type"}
        \/ routine \in Expressing
    BY DEF Called, Stating
  <2>2. QED
    BY <2>1, DeclarationShapes, StatementShapes, ExpressionShapes, Zenon
<1>3. Fits(tree, Shape(routine, "start"), <<>>)
  BY <1>2, FitsNone, Zenon DEF ListOf
<1>4. Carried(tree, g, <<>>, c.position)
  <2>1. Len(<<>>) = 0 /\ 1..0 = {}
    OBVIOUS
  <2>2. QED
    BY <2>1 DEF Carried, Ordered, Between, Behinds
<1>5. ~Owing(g)
  BY DEF Owing, Begins
<1>6. QED
  BY <1>1, <1>3, <1>4, <1>5 DEF FrameSound, Begins

(* Frame and the frame of a binary expression. *)
LEMMA FrameBegins ==
  ASSUME NEW c
  PROVE  /\ \A routine : Begins(Frame(routine, c), routine, c)
         /\ \A least : Begins(BinaryFrame(c, least), "Binary", c)
  BY DEF Begins, Frame, BinaryFrame

(* Call. *)
LEMMA InvokeFrameBuilt ==
  ASSUME IInv, IInv', Running, BuiltInv, NEW c, Onto(c), Begun(c), NEW point, NEW P \in Taken,
         NEW callee, InvokeFrame(callee, point, c, P),
         NEW routine \in Called, Begins(callee, routine, c),
         Fits(nodes, Shape(frame.routine, point), P),
         Results(routine) \subseteq Awaited(frame.routine, point),
         frame.routine = "If" /\ point = "else" /\ P[2] # 0 => nodes[P[2]].to < c.position
  PROVE  BuiltInv'
<1> DEFINE g == Resume(point, P)
<1>1. /\ nodes' = nodes /\ context' = c /\ calls' = <<callee, g>> \o Tail(calls)
      /\ returned' = 0
  BY DEF InvokeFrame
<1>2. Working
  BY <1>1, WorkingOn
<1>3. FrameSound(nodes, g, c.position) /\ FrameSound(nodes, callee, c.position)
      /\ ~Owing(callee)
  BY ResumedTaken, BeginsSound
<1>4. /\ g.routine = frame.routine /\ g.point = point /\ g.parts = P /\ StandsIn(g, frame)
  BY ResumedIs
<1>5. g \in FrameRecord
  <2>1. calls' \in Seq(FrameRecord)
    BY DEF IInv, CallsInv
  <2>2. Tail(calls) \in Seq(FrameRecord)
    BY WorkFacts
  <2> HIDE DEF g
  <2>3. calls'[2] = g /\ 2 \in 1..Len(calls')
    BY <1>1, <2>2
  <2>4. QED
    BY <2>1, <2>3
<1> HIDE DEF g
<1>6. CallSound(nodes, g, callee)
  BY <1>3, <1>4, Zenon DEF CallSound, Begins, Is
<1>7. QED
  BY <1>1, <1>2, <1>3, <1>4, <1>5, <1>6, CallsOnBuilt

(* Become. *)
LEMMA BecomeBuilt ==
  ASSUME IInv, IInv', Running, BuiltInv, NEW c, Onto(c), NEW routine, routine \notin Expressing,
         Become(routine, c), Results(routine) \subseteq Results(frame.routine),
         Fits(nodes, Shape(routine, "start"), frame.parts),
         Fits(nodes, ListOf({"Attribute"}), frame.parts)
  PROVE  BuiltInv'
<1> DEFINE g == [frame EXCEPT !.routine = routine, !.point = "start", !.start = c.position]
<1>1. /\ nodes' = nodes /\ context' = c /\ calls' = <<g>> \o Tail(calls) /\ returned' = 0
  BY DEF Become
<1>2. Working
  BY <1>1, WorkingOn
<1>3. frame \in FrameRecord
  BY WorkFacts
<1>4. /\ g.routine = routine /\ g.point = "start" /\ g.parts = frame.parts
      /\ g.from = frame.from /\ g.start = c.position
  BY <1>3 DEF FrameRecord
<1> HIDE DEF g
<1>5. StandsIn(g, frame) /\ ~Owing(g)
  BY <1>4 DEF StandsIn, Owing
<1>6. /\ Carried(nodes, frame, frame.parts, context.position) /\ frame.parts \in Seq(Nat)
      /\ Indices(frame.parts) \subseteq 0..Len(nodes)
  BY WorkFacts DEF FrameSound
<1>7. Between(nodes, frame.parts, frame.from, c.position)
  <2>1. context.position <= c.position /\ c.position \in Nat /\ context.position \in Nat
        /\ nodes \in Seq(Node)
    BY WorkFacts DEF Onto, Lasts, ParserState
  <2>2. QED
    BY <1>6, <2>1, BetweenOn DEF Carried
<1>8. \A k \in 1..Len(frame.parts) :
        frame.parts[k] # 0 => nodes[frame.parts[k]].kind = "Attribute"
  <2> TAKE k \in 1..Len(frame.parts)
  <2>1. Len(frame.parts) \in Nat
    BY <1>6
  <2>2. RoleAt(ListOf({"Attribute"}), k, Len(frame.parts)) = {"Attribute"}
    <3>1. Len(<<>>) = 0 /\ Len(<<>>) \in Nat /\ k \notin 1..Len(<<>>)
      OBVIOUS
    <3>2. QED
      BY <2>1, <3>1, RoleInHead, Zenon DEF ListOf
  <2>3. frame.parts[k] # 0 =>
          nodes[frame.parts[k]].kind \in RoleAt(ListOf({"Attribute"}), k, Len(frame.parts))
    BY DEF Fits
  <2>4. QED
    BY <2>2, <2>3
<1>9. Behinds(nodes, frame.parts, c.position)
  BY <1>8, Zenon DEF Behinds
<1>10. FrameSound(nodes, g, c.position)
  <2>1. frame.from <= c.position /\ c.position <= c.position
    <3>1. frame.from <= frame.start /\ frame.start <= context.position /\ frame.from \in Nat
          /\ frame.start \in Nat /\ context.position \in Nat /\ c.position \in Nat
          /\ context.position <= c.position
      BY WorkFacts DEF FrameSound, Onto, Lasts, ParserState
    <3>2. QED
      BY <3>1
  <2>2. Carried(nodes, g, frame.parts, c.position)
    BY <1>4, <1>6, <1>7, <1>9, Zenon DEF Carried
  <2>3. QED
    BY <1>4, <2>1, <2>2, Zenon DEF FrameSound
<1>11. QED
  BY <1>1, <1>2, <1>5, <1>10, GoesOnBuilt

(* Return of nothing, after an error. *)
LEMMA ReturnNullBuilt ==
  ASSUME IInv, IInv', Running, BuiltInv, NEW c, Onto(c), c.had_error, Return(c, 0)
  PROVE  BuiltInv'
<1>1. /\ nodes' = nodes /\ context' = c /\ calls' = Tail(calls) /\ returned' = 0
  BY DEF Return
<1>2. QED
  BY <1>1, WorkingOn, ReturnsBuilt

(* Return of what has been returned or of a part. *)
LEMMA ReturnBuilt ==
  ASSUME IInv, IInv', Running, BuiltInv, NEW c, Onto(c), NEW node, Return(c, node),
         node \in Indices(frame.parts) \union {returned},
         node # 0 => nodes[node].kind \in Results(frame.routine),
         ~c.had_error => node # 0
  PROVE  BuiltInv'
<1>1. /\ nodes' = nodes /\ context' = c /\ calls' = Tail(calls) /\ returned' = node
  BY DEF Return
<1>2. Working
  BY <1>1, WorkingOn
<1>3. node # 0 => frame.from <= nodes[node].from /\ nodes[node].to <= c.position
  <2> SUFFICES ASSUME node # 0
               PROVE  frame.from <= nodes[node].from /\ nodes[node].to <= c.position
    OBVIOUS
  <2>1. /\ IInv /\ Running /\ BuiltInv
        /\ Held \in Seq(Nat) /\ Len(frame.parts) \in Nat /\ Len(Held) = Len(frame.parts) + 1
        /\ \A k \in 1..Len(frame.parts) : Held[k] = frame.parts[k]
        /\ Held[Len(frame.parts) + 1] = returned
    BY HeldIs
  <2>2. \E k \in 1..Len(Held) : Held[k] = node
    <3>1. CASE node = returned
      BY <2>1, <3>1
    <3>2. CASE node \in Indices(frame.parts)
      BY <2>1, <3>2 DEF Indices
    <3>3. QED
      BY <3>1, <3>2
  <2>3. Carried(nodes, frame, Held, context.position) /\ Indices(Held) \subseteq 0..Len(nodes)
    BY TakenCarried DEF Taken
  <2>4. frame.from <= nodes[node].from /\ nodes[node].to <= context.position
    BY <2>2, <2>3 DEF Carried, Between
  <2>5. node \in 1..Len(nodes) /\ nodes \in Seq(Node)
    BY <2>2, <2>3, WorkFacts DEF Indices
  <2>6. nodes[node] \in Node
    BY <2>5
  <2>7. nodes[node].to \in Nat /\ context.position <= c.position /\ c.position \in Nat
        /\ context.position \in Nat
    BY <2>6, WorkFacts DEF Node, Onto, Lasts, ParserState
  <2>8. QED
    BY <2>4, <2>7
<1>4. QED
  BY <1>1, <1>2, <1>3, ReturnsBuilt

(* MakeNode, of a node with sound parts. *)
LEMMA WorkingMade ==
  ASSUME IInv, IInv', Running, BuiltInv, Onto(context'), NEW node, nodes' = Append(nodes, node),
         NodeSound(nodes', Fresh)
  PROVE  /\ Working /\ Grown(nodes, nodes') /\ Len(nodes') = Fresh /\ nodes'[Fresh] = node
         /\ Len(nodes) \in Nat /\ Fresh \in Nat /\ Fresh # 0
<1>1. /\ Grown(nodes, nodes') /\ Len(nodes) \in Nat
      /\ Len(nodes') = Fresh /\ nodes'[Fresh] = node
  BY GraftGrown
<1>2. Fresh = Len(nodes) + 1
  BY DEF Fresh
<1>3. \A i \in Len(nodes) + 1..Len(nodes') : i = Fresh
  BY <1>1, <1>2
<1>4. QED
  BY <1>1, <1>2, <1>3 DEF Working, Onto, Lasts

(* The node of what the function holds. *)
LEMMA NewSound ==
  ASSUME IInv, IInv', Running, BuiltInv, NEW c, Onto(c), NEW kind, NEW span, NEW N \in Taken,
         nodes' = Append(nodes, NewNode(c, kind, span, N)), Fits(nodes, RolesOf(kind), N)
  PROVE  /\ nodes'[Fresh].kind = kind /\ nodes'[Fresh].parts = N
         /\ nodes'[Fresh].from = frame.from /\ nodes'[Fresh].to = c.position
         /\ NodeSound(nodes', Fresh)
<1> DEFINE node == NewNode(c, kind, span, N)
<1>1. Grown(nodes, nodes') /\ nodes'[Fresh] = node
  BY GraftGrown
<1>2. node.kind = kind /\ node.parts = N /\ node.from = frame.from /\ node.to = c.position
  BY DEF NewNode, NodeFrom
<1> HIDE DEF node
<1>3. /\ N \in Seq(Nat) /\ Indices(N) \subseteq 0..Len(nodes)
      /\ Carried(nodes, frame, N, context.position)
  BY TakenCarried
<1>4. SameParts(nodes, nodes', N)
  BY <1>1, <1>3, PartsStay
<1>5. Fits(nodes', RolesOf(kind), N) /\ Carried(nodes', frame, N, context.position)
  BY <1>3, <1>4, CarriedStays
<1>6. /\ context.position <= c.position /\ c.position \in Nat /\ context.position \in Nat
      /\ frame.from \in Nat /\ frame.from <= c.position
  <2>1. /\ frame.from \in Nat /\ frame.start \in Nat /\ context.position \in Nat
        /\ frame.from <= frame.start /\ frame.start <= context.position
    BY WorkFacts DEF FrameSound
  <2>2. context.position <= c.position /\ c.position \in Nat
    BY DEF Onto, Lasts, ParserState
  <2>3. QED
    BY <2>1, <2>2
<1>7. Between(nodes', N, frame.from, c.position)
  <2>1. nodes' \in Seq(Node) /\ Indices(N) \subseteq 0..Len(nodes')
    BY <1>1, <1>3, WorkFacts DEF Grown
  <2>2. Between(nodes', N, frame.from, context.position)
    BY <1>5 DEF Carried
  <2>3. QED
    BY <1>3, <1>6, <2>1, <2>2, BetweenOn
<1>8. NodeSound(nodes', Fresh)
  BY <1>1, <1>2, <1>5, <1>6, <1>7, Zenon DEF NodeSound, Carried
<1>9. QED
  BY <1>1, <1>2, <1>8

(* Return of a new node. *)
LEMMA ReturnNodeBuilt ==
  ASSUME IInv, IInv', Running, BuiltInv, NEW c, Onto(c), NEW kind, NEW span, NEW N \in Taken,
         ReturnNode(c, kind, span, N), Fits(nodes, RolesOf(kind), N),
         kind \in Results(frame.routine)
  PROVE  BuiltInv'
<1>1. /\ nodes' = Append(nodes, NewNode(c, kind, span, N)) /\ context' = c
      /\ calls' = Tail(calls) /\ returned' = Fresh
  BY DEF ReturnNode
<1>2. /\ nodes'[Fresh].kind = kind
      /\ nodes'[Fresh].from = frame.from /\ nodes'[Fresh].to = c.position
      /\ NodeSound(nodes', Fresh)
  BY <1>1, NewSound
<1>3. Working /\ Fresh # 0
  BY <1>1, <1>2, WorkingMade
<1>4. frame.from <= frame.from /\ c.position <= c.position
  BY WorkFacts DEF Onto, Lasts, ParserState
<1>5. QED
  BY <1>1, <1>2, <1>3, <1>4, ReturnsBuilt

(* The function goes on with a new node, which is all it holds then. *)
LEMMA ContinueFreshBuilt ==
  ASSUME IInv, IInv', Running, BuiltInv, NEW c, Onto(c), NEW point, NEW kind \in Expressions,
         NEW span, NEW N \in Taken,
         ContinueWith(point, c, NewNode(c, kind, span, N), <<Fresh>>),
         Fits(nodes, RolesOf(kind), N), frame.routine \in Expressing,
         Shape(frame.routine, point) = Only(<<Expressions>>),
         ~Owing(Resume(point, <<Fresh>>))
  PROVE  BuiltInv'
<1> DEFINE g == Resume(point, <<Fresh>>)
           parts == <<Fresh>>
<1>1. /\ nodes' = Append(nodes, NewNode(c, kind, span, N)) /\ context' = c
      /\ calls' = <<g>> \o Tail(calls) /\ returned' = 0
  BY DEF ContinueWith
<1>2. /\ nodes'[Fresh].kind = kind
      /\ nodes'[Fresh].from = frame.from /\ nodes'[Fresh].to = c.position
      /\ NodeSound(nodes', Fresh)
  BY <1>1, NewSound
<1>3. Working /\ Fresh \in Nat /\ Fresh # 0
  BY <1>1, <1>2, WorkingMade
<1>4. Len(parts) = 1 /\ parts[1] = Fresh /\ (\A k \in 1..Len(parts) : k = 1)
      /\ parts \in Seq(Nat)
  BY <1>3
<1>5. Fits(nodes', Only(<<Expressions>>), parts)
  <2>1. Fits(nodes', Leaf, <<>>) /\ <<>> \in Seq(Nat) /\ parts = Append(<<>>, Fresh)
    BY FitsNone
  <2>2. Fits(nodes', Roles(<<Expressions>>, {}, <<>>), parts)
    BY <1>2, <1>3, <2>1, FitsLonger
  <2>3. QED
    BY <2>2 DEF Only
<1> HIDE DEF parts
<1>6. Begun(c)
  BY DEF Begun, Beginning, Taking, Named, Expressing
<1>7. /\ frame.from <= frame.from /\ c.position <= c.position /\ frame.start = frame.from
  BY WorkFacts DEF Onto, Lasts, ParserState, FrameSound
<1>8. /\ Between(nodes', parts, frame.from, c.position)
      /\ Behinds(nodes', parts, frame.start)
  BY <1>2, <1>4, <1>7, Zenon DEF Between, Behinds
<1>9. Ordered(nodes', parts)
  <2>1. \A k, l \in 1..Len(parts) : ~(k < l)
    BY <1>4
  <2>2. QED
    BY <2>1 DEF Ordered
<1>10. FrameSound(nodes', Resume(point, parts), c.position)
  BY <1>5, <1>6, <1>8, <1>9, ResumedSound
<1>11. StandsIn(g, frame) /\ g = Resume(point, parts)
  BY ResumedIs DEF parts
<1> HIDE DEF g
<1>12. QED
  BY <1>1, <1>3, <1>10, <1>11, GoesOnBuilt DEF g

(* Beyond its start a function has begun. *)
LEMMA BegunStays ==
  ASSUME IInv, Running, BuiltInv, frame.point # "start", NEW c, Onto(c)
  PROVE  Begun(c)
<1>1. /\ frame.routine \in Beginning => frame.start < context.position
      /\ frame.start \in Nat /\ context.position \in Nat
  BY WorkFacts DEF FrameSound
<1>2. context.position <= c.position /\ c.position \in Nat
  BY DEF Onto, Lasts, ParserState
<1>3. QED
  BY <1>1, <1>2 DEF Begun

(* The function goes on with the node of one token behind its others. *)
LEMMA ContinueLeafBuilt ==
  ASSUME IInv, IInv', Running, BuiltInv, NEW c, Onto(c), Begun(c), NEW d, Onto(d),
         d.position <= c.position, NEW point, NEW kind, NEW span,
         ContinueWith(point, c, NodeFrom(context.position, d, kind, span, <<>>),
                      Append(frame.parts, Fresh)),
         RolesOf(kind) = Leaf, NEW list, kind \in list,
         Fits(nodes, ListOf(list), frame.parts), Shape(frame.routine, point) = ListOf(list),
         ~Owing(Resume(point, Append(frame.parts, Fresh)))
  PROVE  BuiltInv'
<1> DEFINE parts == Append(frame.parts, Fresh)
           g == Resume(point, parts)
           node == NodeFrom(context.position, d, kind, span, <<>>)
           n == Len(frame.parts)
<1>1. /\ nodes' = Append(nodes, node) /\ context' = c
      /\ calls' = <<g>> \o Tail(calls) /\ returned' = 0
  BY DEF ContinueWith
<1>2. /\ node.kind = kind /\ node.from = context.position /\ node.to = d.position
      /\ node.parts = <<>>
  BY DEF NodeFrom
<1> HIDE DEF node
<1>3. /\ Grown(nodes, nodes') /\ nodes'[Fresh] = node /\ Len(nodes) \in Nat
      /\ Fresh \in 1..Fresh /\ Len(nodes') = Fresh
  BY <1>1, GraftGrown
<1>4. /\ context.position <= c.position /\ c.position \in Nat /\ context.position \in Nat
      /\ context.position <= d.position /\ d.position \in Nat
      /\ frame.parts \in Seq(Nat) /\ Indices(frame.parts) \subseteq 0..Len(nodes)
      /\ Carried(nodes, frame, frame.parts, context.position)
      /\ frame.from <= frame.start /\ frame.start <= context.position
      /\ frame.from \in Nat /\ frame.start \in Nat
  BY WorkFacts DEF Onto, Lasts, ParserState, FrameSound
<1>5. NodeSound(nodes', Fresh)
  <2>1. Len(<<>>) = 0 /\ 1..0 = {}
    OBVIOUS
  <2>2. Ordered(nodes', <<>>) /\ Between(nodes', <<>>, context.position, d.position)
    BY <2>1 DEF Ordered, Between
  <2>3. Fits(nodes', RolesOf(kind), <<>>)
    BY FitsNone
  <2>4. QED
    BY <1>2, <1>3, <1>4, <2>2, <2>3, Zenon DEF NodeSound
<1>6. Working /\ Fresh \in Nat /\ Fresh # 0
  BY <1>1, <1>5, WorkingMade
<1>7. SameParts(nodes, nodes', frame.parts)
  BY <1>3, <1>4, PartsStay
<1>8. /\ Fits(nodes', ListOf(list), frame.parts)
      /\ Carried(nodes', frame, frame.parts, context.position)
  BY <1>4, <1>7, CarriedStays
<1>9. /\ parts \in Seq(Nat) /\ Len(parts) = n + 1 /\ n \in Nat
      /\ \A k \in 1..n : parts[k] = frame.parts[k]
      /\ parts[n + 1] = Fresh
      /\ \A k \in 1..Len(parts) : k \in 1..n \/ k = n + 1
  BY <1>4, <1>6, AppendIs
<1>10. Fits(nodes', ListOf(list), parts)
  BY <1>2, <1>3, <1>4, <1>6, <1>8, FitsLonger
<1> HIDE DEF parts, n
<1>11. Ordered(nodes', parts)
  <2> SUFFICES ASSUME NEW k \in 1..Len(parts), NEW l \in 1..Len(parts), k < l,
                      parts[k] # 0, parts[l] # 0
               PROVE  nodes'[parts[k]].to <= nodes'[parts[l]].from
    BY DEF Ordered
  <2>1. k \in 1..n
    BY <1>9
  <2>2. CASE l \in 1..n
    BY <1>8, <1>9, <2>1, <2>2 DEF Carried, Ordered, n
  <2>3. CASE l = n + 1
    <3>1. nodes'[parts[l]].from = context.position
      BY <1>2, <1>3, <1>9, <2>3
    <3>2. nodes'[parts[k]].to <= context.position
      BY <1>8, <1>9, <2>1 DEF Carried, Between, n
    <3>3. QED
      BY <3>1, <3>2
  <2>4. QED
    BY <1>9, <2>2, <2>3
<1>12. Between(nodes', frame.parts, frame.from, c.position)
  <2>1. nodes' \in Seq(Node) /\ Indices(frame.parts) \subseteq 0..Len(nodes')
    BY <1>3, <1>4 DEF Grown
  <2>2. QED
    BY <1>4, <1>8, <2>1, BetweenOn DEF Carried
<1>13. /\ nodes'[Fresh].to <= c.position /\ frame.from <= nodes'[Fresh].from
       /\ frame.start <= nodes'[Fresh].from
  BY <1>2, <1>3, <1>4
<1>14. \A k \in 1..n :
         parts[k] # 0 =>
           /\ frame.from <= nodes'[parts[k]].from /\ nodes'[parts[k]].to <= c.position
           /\ nodes'[parts[k]].kind # "Attribute" => frame.start <= nodes'[parts[k]].from
  BY <1>8, <1>9, <1>12, Zenon DEF Between, Behinds, Carried, n
<1>15. Between(nodes', parts, frame.from, c.position) /\ Behinds(nodes', parts, frame.start)
  BY <1>9, <1>13, <1>14, Zenon DEF Between, Behinds
<1>16. FrameSound(nodes', Resume(point, parts), c.position)
  BY <1>10, <1>11, <1>15, ResumedSound
<1>17. StandsIn(g, frame) /\ ~Owing(g) /\ g = Resume(point, parts)
  BY ResumedIs DEF parts
<1> HIDE DEF g
<1>18. QED
  BY <1>1, <1>6, <1>16, <1>17, GoesOnBuilt

(* The role of the last part. *)
LEMMA LastRole ==
  ASSUME NEW tree, NEW head, Len(head) \in Nat, NEW list, NEW A, NEW parts \in Seq(Nat),
         parts # <<>>, Last(parts) # 0, Fits(tree, Roles(head, list, <<A>>), parts)
  PROVE  tree[Last(parts)].kind \in A
<1> DEFINE n == Len(parts)
           tail == <<A>>
<1>1. n \in Nat /\ n \in 1..n /\ Len(tail) = 1 /\ tail[1] = A
  OBVIOUS
<1>2. /\ n >= Len(head) + Len(tail)
      /\ parts[n] # 0 => tree[parts[n]].kind \in RoleAt(Roles(head, list, tail), n, n)
  BY <1>1 DEF Fits, Roles
<1>3. Last(parts) = parts[n]
  BY DEF Last
<1> HIDE DEF n, tail
<1>4. Len(tail) \in Nat /\ n > n - Len(tail) /\ n - (n - Len(tail)) = 1
      /\ ~(n <= Len(head))
  BY <1>1, <1>2
<1>5. RoleAt(Roles(head, list, tail), n, n) = tail[n - (n - Len(tail))]
  BY <1>4, Zenon DEF RoleAt, Roles
<1>6. QED
  BY <1>1, <1>2, <1>3, <1>4, <1>5

(* Where a part of the frame stands. *)
LEMMA PartStands ==
  ASSUME IInv, Running, BuiltInv, NEW i \in Indices(frame.parts), i # 0
  PROVE  /\ i \in 1..Len(nodes) /\ i \in Nat
         /\ nodes[i] \in Node /\ nodes[i].from \in Nat /\ nodes[i].to \in Nat
         /\ nodes[i].from <= nodes[i].to
         /\ frame.from <= nodes[i].from /\ nodes[i].to <= context.position
         /\ nodes[i].from <= context.position
         /\ nodes[i].kind # "Attribute" => frame.start <= nodes[i].from
<1>1. /\ Carried(nodes, frame, frame.parts, context.position) /\ nodes \in Seq(Node)
      /\ Indices(frame.parts) \subseteq 0..Len(nodes) /\ Len(nodes) \in Nat
      /\ context.position \in Nat /\ \A j \in 1..Len(nodes) : NodeSound(nodes, j)
  BY WorkFacts DEF FrameSound
<1>2. i \in 1..Len(nodes) /\ i \in Nat
  BY <1>1
<1>3. nodes[i] \in Node
  BY <1>1, <1>2
<1>4. PICK k \in 1..Len(frame.parts) : frame.parts[k] = i
  BY DEF Indices
<1>5. /\ frame.from <= nodes[i].from /\ nodes[i].to <= context.position
      /\ nodes[i].kind # "Attribute" => frame.start <= nodes[i].from
  BY <1>1, <1>4 DEF Carried, Between, Behinds
<1>6. nodes[i].from <= nodes[i].to
  BY <1>1, <1>2 DEF NodeSound
<1>7. nodes[i].from \in Nat /\ nodes[i].to \in Nat
  BY <1>3 DEF Node
<1>8. nodes[i].from <= context.position
  BY <1>1, <1>5, <1>6, <1>7
<1>9. QED
  BY <1>2, <1>3, <1>5, <1>6, <1>7, <1>8

(* The function replaces a name by what it is the name of. *)
LEMMA TypedNameBuilt ==
  ASSUME IInv, IInv', Running, BuiltInv, NEW c, Onto(c), Begun(c), NEW point, NEW span,
         NEW kind \in {"Parameter", "Field"}, frame.parts # <<>>, Last(frame.parts) # 0,
         ContinueWith(point, c,
                      NodeFrom(nodes[Last(frame.parts)].from, context, kind, span,
                               <<Last(frame.parts), returned>>),
                      [frame.parts EXCEPT ![Len(frame.parts)] = Fresh]),
         NEW head, Len(head) \in Nat, NEW list, kind \in list,
         Fits(nodes, Roles(head, list, <<Names>>), frame.parts),
         Shape(frame.routine, point) = Roles(head, list, <<>>),
         Awaited(frame.routine, frame.point) = Types,
         ~Owing(Resume(point, [frame.parts EXCEPT ![Len(frame.parts)] = Fresh]))
  PROVE  BuiltInv'
<1> DEFINE n == Len(frame.parts)
           name == Last(frame.parts)
           parts == [frame.parts EXCEPT ![n] = Fresh]
           g == Resume(point, parts)
           pair == <<name, returned>>
           node == NodeFrom(nodes[name].from, context, kind, span, pair)
<1>1. /\ nodes' = Append(nodes, node) /\ context' = c
      /\ calls' = <<g>> \o Tail(calls) /\ returned' = 0
  BY DEF ContinueWith
<1>2. /\ node.kind = kind /\ node.from = nodes[name].from /\ node.to = context.position
      /\ node.parts = pair
  BY DEF NodeFrom
<1> HIDE DEF node
<1>3. /\ Grown(nodes, nodes') /\ nodes'[Fresh] = node /\ Len(nodes) \in Nat
      /\ Fresh \in 1..Fresh /\ Len(nodes') = Fresh /\ Fresh = Len(nodes) + 1
  BY <1>1, GraftGrown DEF Fresh
<1>4. /\ context.position <= c.position /\ c.position \in Nat /\ context.position \in Nat
      /\ frame.parts \in Seq(Nat) /\ Indices(frame.parts) \subseteq 0..Len(nodes)
      /\ Carried(nodes, frame, frame.parts, context.position)
      /\ AnswerSound(nodes, frame, returned, context.position)
      /\ frame.from \in Nat /\ frame.start \in Nat /\ nodes \in Seq(Node)
      /\ returned \in 0..Len(nodes) /\ returned \in Nat
  <2>1. returned \in 0..Len(nodes)
    BY WorkFacts
  <2>2. returned \in Nat
    BY <1>3, <2>1
  <2>3. QED
    BY <2>1, <2>2, WorkFacts DEF Onto, Lasts, ParserState, FrameSound
<1>5. /\ n \in Nat /\ n \in 1..n /\ name = frame.parts[n] /\ name \in 1..Len(nodes) /\ name \in Nat
  <2>1. n \in Nat /\ n # 0
    BY <1>4
  <2>2. n \in 1..n
    BY <2>1
  <2>3. name = frame.parts[n] /\ name \in Indices(frame.parts)
    BY <2>2 DEF Last, Indices
  <2>4. name \in 0..Len(nodes)
    BY <1>4, <2>3
  <2>5. QED
    BY <1>3, <2>1, <2>2, <2>3, <2>4
<1>6. nodes[name].kind \in Names
  BY <1>4, LastRole
<1>7. /\ nodes[name] \in Node /\ nodes[name].from \in Nat /\ nodes[name].to \in Nat
      /\ nodes[name].to <= context.position /\ frame.from <= nodes[name].from
      /\ frame.start <= nodes[name].from
      /\ nodes[name].from <= nodes[name].to /\ nodes[name].from <= context.position
  <2>1. name \in Indices(frame.parts) /\ name # 0
    BY <1>5 DEF Indices
  <2>2. nodes[name].kind # "Attribute"
    BY <1>6 DEF Names
  <2> HIDE DEF name
  <2>3. QED
    BY <2>1, <2>2, PartStands
<1>8. returned # 0 =>
        /\ nodes[returned].kind \in Types /\ nodes[returned].to <= context.position
        /\ nodes[name].to <= nodes[returned].from
        /\ nodes[returned] \in Node /\ nodes[returned].from \in Nat
        /\ nodes[returned].to \in Nat
  <2>1. returned # 0 =>
          /\ nodes[returned].kind \in Types /\ nodes[returned].to <= context.position
          /\ nodes[name].to <= nodes[returned].from
    BY <1>4, <1>5 DEF AnswerSound
  <2>2. returned # 0 => nodes[returned] \in Node
    BY <1>4
  <2>3. QED
    BY <2>1, <2>2 DEF Node
<1>9. /\ pair \in Seq(Nat) /\ Len(pair) = 2 /\ pair[1] = name /\ pair[2] = returned
      /\ \A k \in 1..Len(pair) : k = 1 \/ k = 2
      /\ pair = Append(<<name>>, returned) /\ <<name>> = Append(<<>>, name)
      /\ <<name>> \in Seq(Nat) /\ <<>> \in Seq(Nat)
  <2>1. pair \in Seq(Nat) /\ Len(pair) = 2 /\ pair[1] = name /\ pair[2] = returned
    BY <1>4, <1>5
  <2>2. <<name>> = Append(<<>>, name) /\ <<name>> \in Seq(Nat) /\ <<>> \in Seq(Nat)
    BY <1>5
  <2>3. pair = Append(<<name>>, returned)
    BY TupleLonger
  <2>4. QED
    BY <2>1, <2>2, <2>3
<1> HIDE DEF n, name, pair
<1>10. name # 0 /\ (returned # 0 => nodes'[returned] = nodes[returned])
       /\ nodes'[name] = nodes[name]
  <2>1. /\ Len(nodes) \in Nat /\ \A i \in 1..Len(nodes) : nodes'[i] = nodes[i]
        /\ name \in 1..Len(nodes) /\ returned \in 0..Len(nodes)
    BY <1>3, <1>4, <1>5 DEF Grown
  <2>2. QED
    BY <2>1
<1>11. NodeSound(nodes', Fresh)
  <2>1. Fits(nodes', Only(<<Names>>), <<name>>)
    <3>1. Fits(nodes', Leaf, <<>>) /\ (name # 0 => nodes'[name].kind \in Names)
      BY <1>6, <1>10, FitsNone
    <3>2. Fits(nodes', Roles(<<Names>>, {}, <<>>), <<name>>)
      BY <1>5, <1>9, <3>1, FitsLonger
    <3>3. QED
      BY <3>2 DEF Only
  <2>2. Fits(nodes', Only(<<Names, Types>>), pair)
    <3>1. returned # 0 => nodes'[returned].kind \in Types
      BY <1>8, <1>10
    <3>2. Fits(nodes', Only(<<Names, Types>>), Append(<<name>>, returned))
      BY <1>4, <1>9, <2>1, <3>1, FitsLonger
    <3>3. QED
      BY <1>9, <3>2
  <2>3. RolesOf(kind) = Only(<<Names, Types>>)
    <3>1. kind \notin Declarations /\ kind \notin Statements /\ kind \notin Expressions
          /\ kind # "Program"
      BY DEF Declarations, Statements, Expressions
    <3>2. QED
      BY <3>1, Zenon DEF RolesOf, Names
  <2>4. Ordered(nodes', pair)
    <3> SUFFICES ASSUME NEW k \in 1..Len(pair), NEW l \in 1..Len(pair), k < l,
                        pair[k] # 0, pair[l] # 0
                 PROVE  nodes'[pair[k]].to <= nodes'[pair[l]].from
      BY DEF Ordered
    <3>1. k = 1 /\ l = 2
      BY <1>9
    <3>2. QED
      BY <1>8, <1>9, <1>10, <3>1
  <2>5. Between(nodes', pair, nodes[name].from, context.position)
    <3>1. /\ nodes[name].from <= nodes[name].from
          /\ returned # 0 => nodes[name].from <= nodes[returned].from
      BY <1>7, <1>8
    <3>2. QED
      BY <1>7, <1>8, <1>9, <1>10, <3>1, Zenon DEF Between
  <2>6. QED
    BY <1>2, <1>3, <1>7, <2>2, <2>3, <2>4, <2>5, Zenon DEF NodeSound
<1>12. Working /\ Fresh \in Nat /\ Fresh # 0
  BY <1>1, <1>11, WorkingMade
<1>13. SameParts(nodes, nodes', frame.parts)
  BY <1>3, <1>4, PartsStay
<1>14. /\ Fits(nodes', Roles(head, list, <<Names>>), frame.parts)
       /\ Carried(nodes', frame, frame.parts, context.position)
  BY <1>4, <1>13, CarriedStays
<1>15. /\ parts \in Seq(Nat) /\ Len(parts) = n /\ parts[n] = Fresh
       /\ \A k \in 1..n : k # n => parts[k] = frame.parts[k]
  BY <1>4, <1>5, <1>12 DEF n
<1>16. Fits(nodes', Roles(head, list, <<>>), parts)
  <2>1. Fits(nodes', Roles(head, list, <<>>), [frame.parts EXCEPT ![Len(frame.parts)] = Fresh])
    BY <1>2, <1>3, <1>4, <1>12, <1>14, FitsReplaced
  <2>2. QED
    BY <2>1 DEF n
<1> HIDE DEF parts
<1>17. Ordered(nodes', parts)
  <2> SUFFICES ASSUME NEW k \in 1..Len(parts), NEW l \in 1..Len(parts), k < l,
                      parts[k] # 0, parts[l] # 0
               PROVE  nodes'[parts[k]].to <= nodes'[parts[l]].from
    BY DEF Ordered
  <2>1. k \in 1..n /\ l \in 1..n /\ k # n /\ n \in 1..n
    BY <1>5, <1>15
  <2>2. \A i, j \in 1..n : i < j /\ frame.parts[i] # 0 /\ frame.parts[j] # 0 =>
          nodes'[frame.parts[i]].to <= nodes'[frame.parts[j]].from
    BY <1>14 DEF Carried, Ordered, n
  <2>3. CASE l # n
    BY <1>15, <2>1, <2>2, <2>3
  <2>4. CASE l = n
    <3>1. nodes'[frame.parts[k]].to <= nodes'[name].from
      BY <1>5, <1>10, <1>15, <2>1, <2>2, <2>4
    <3>2. nodes'[parts[l]].from = nodes'[name].from
      BY <1>2, <1>3, <1>10, <1>15, <2>4
    <3>3. QED
      BY <1>15, <2>1, <3>1, <3>2
  <2>5. QED
    BY <2>3, <2>4
<1>18. Between(nodes', frame.parts, frame.from, c.position)
  <2>1. nodes' \in Seq(Node) /\ Indices(frame.parts) \subseteq 0..Len(nodes')
    BY <1>3, <1>4 DEF Grown
  <2>2. QED
    BY <1>4, <1>14, <2>1, BetweenOn DEF Carried
<1>19. /\ nodes'[Fresh].to <= c.position /\ frame.from <= nodes'[Fresh].from
       /\ frame.start <= nodes'[Fresh].from
  BY <1>2, <1>3, <1>4, <1>7
<1>20. \A k \in 1..n :
         k # n /\ parts[k] # 0 =>
           /\ frame.from <= nodes'[parts[k]].from /\ nodes'[parts[k]].to <= c.position
           /\ nodes'[parts[k]].kind # "Attribute" => frame.start <= nodes'[parts[k]].from
  BY <1>14, <1>15, <1>18, Zenon DEF Between, Behinds, Carried, n
<1>21. Between(nodes', parts, frame.from, c.position) /\ Behinds(nodes', parts, frame.start)
  BY <1>15, <1>19, <1>20, Zenon DEF Between, Behinds
<1>22. FrameSound(nodes', Resume(point, parts), c.position)
  BY <1>16, <1>17, <1>21, ResumedSound
<1>23. StandsIn(g, frame) /\ ~Owing(g) /\ g = Resume(point, parts)
  BY ResumedIs DEF parts, n
<1> HIDE DEF g
<1>24. QED
  BY <1>1, <1>12, <1>22, <1>23, GoesOnBuilt

-----------------------------------------------------------------------------
(* The steps, each by the way its segment ends: what it passes on of what   *)
(* the function holds.                                                      *)

(* The points at which a function is not waiting for what it must have. *)
Free(point) ==
  \/ point \in {"declarations", "attributes", "next parameter", "close", "return type", "fields",
                "members", "variants", "path", "statements", "else", "value", "type",
                "initializer", "operator", "postfix", "call"}
  \/ point = "body" /\ frame.routine = "Module"

(* As long as there is no error, all that is held goes into parts, but for  *)
(* attributes; and nothing does so twice.                                   *)
Keeping(c, parts) ==
  ~c.had_error =>
    \A i \in Indices(frame.parts) \union {returned} :
      i = 0 \/ nodes[i].kind = "Attribute" \/ i \in Indices(parts)
Single(parts) ==
  At("Block", "statement") /\ parts = Held => returned \notin Indices(frame.parts)
Moved(c, parts) == Onto(c) /\ Keeping(c, parts) /\ Single(parts)

GoesOn ==
  \E c, point : \E P \in Taken :
    /\ Moved(c, P) /\ Begun(c) /\ Continue(point, c, P)
    /\ Fits(nodes, Shape(frame.routine, point), P) /\ Free(point)

Calls ==
  \E c, point, callee : \E P \in Taken, routine \in Called :
    /\ Moved(c, P) /\ Begun(c) /\ InvokeFrame(callee, point, c, P) /\ Begins(callee, routine, c)
    /\ Fits(nodes, Shape(frame.routine, point), P)
    /\ Results(routine) \subseteq Awaited(frame.routine, point)
    /\ frame.routine = "If" /\ point = "else" /\ P[2] # 0 => nodes[P[2]].to < c.position

Becomes ==
  \E c, routine :
    /\ Moved(c, frame.parts) /\ Become(routine, c)
    /\ routine \notin Expressing /\ Results(routine) \subseteq Results(frame.routine)
    /\ Fits(nodes, Shape(routine, "start"), frame.parts)
    /\ Fits(nodes, ListOf({"Attribute"}), frame.parts)

GivesUp == \E c : Onto(c) /\ c.had_error /\ Return(c, 0)

Hands ==
  \E c, node :
    /\ Onto(c) /\ Keeping(c, <<node>>) /\ Return(c, node)
    /\ node \in Indices(frame.parts) \union {returned}
    /\ node # 0 => nodes[node].kind \in Results(frame.routine)
    /\ ~c.had_error => node # 0

Makes ==
  \E c, kind, span : \E N \in Taken :
    /\ Moved(c, N) /\ ReturnNode(c, kind, span, N)
    /\ Fits(nodes, RolesOf(kind), N) /\ kind \in Results(frame.routine)

Wraps ==
  \E c, point, span : \E N \in Taken, kind \in Expressions :
    /\ Moved(c, N) /\ ContinueWith(point, c, NewNode(c, kind, span, N), <<Fresh>>)
    /\ Fits(nodes, RolesOf(kind), N) /\ frame.routine \in Expressing
    /\ Shape(frame.routine, point) = Only(<<Expressions>>) /\ Free(point)

Adds ==
  \E c, d, point, kind, span, list :
    /\ Moved(c, frame.parts) /\ Begun(c) /\ Onto(d) /\ d.position <= c.position
    /\ ContinueWith(point, c, NodeFrom(context.position, d, kind, span, <<>>),
                    Append(frame.parts, Fresh))
    /\ RolesOf(kind) = Leaf /\ kind \in list
    /\ Fits(nodes, ListOf(list), frame.parts) /\ Shape(frame.routine, point) = ListOf(list)
    /\ Free(point)

TypesName ==
  \E c, point, span, head, list : \E kind \in {"Parameter", "Field"} :
    /\ Onto(c) /\ Begun(c)
    /\ frame.parts # <<>> /\ Last(frame.parts) # 0
    /\ ContinueWith(point, c,
                    NodeFrom(nodes[Last(frame.parts)].from, context, kind, span,
                             <<Last(frame.parts), returned>>),
                    [frame.parts EXCEPT ![Len(frame.parts)] = Fresh])
    /\ Len(head) \in Nat /\ kind \in list
    /\ Fits(nodes, Roles(head, list, <<Names>>), frame.parts)
    /\ Shape(frame.routine, point) = Roles(head, list, <<>>)
    /\ Awaited(frame.routine, frame.point) = Types /\ Free(point)

Repeats ==
  \E c :
    /\ Onto(c) /\ c.had_error /\ Return(c, Len(nodes)) /\ nodes # <<>>
    /\ frame.routine = "ExpressionStatement" /\ returned = 0
    /\ Last(nodes).kind = "ExpressionStatement" /\ Last(nodes).parts = <<0>>
    /\ Last(nodes).from = frame.from /\ Last(nodes).to = c.position

Move ==
  \/ GoesOn \/ Calls \/ Becomes \/ GivesUp \/ Hands \/ Makes \/ Wraps \/ Adds \/ TypesName
  \/ Repeats

(* A function that is free owes nothing. *)
LEMMA FreeOwes ==
  ASSUME IInv, Running, NEW point, Free(point), NEW parts
  PROVE  ~Owing(Resume(point, parts))
<1> DEFINE g == Resume(point, parts)
<1>1. g.point = point /\ g.routine = frame.routine
  BY ResumedIs
<1> HIDE DEF g
<1>2. ~Owing(g)
  BY <1>1 DEF Owing, Free
<1>3. QED
  BY <1>2 DEF g

(* Whatever way a segment ends, nodes and frames stay sound. *)
LEMMA MoveBuilt ==
  ASSUME IInv, IInv', Running, BuiltInv, Move
  PROVE  BuiltInv'
<1>1. ASSUME GoesOn PROVE BuiltInv'
  <2>1. PICK c, point : \E P \in Taken :
          /\ Moved(c, P) /\ Begun(c) /\ Continue(point, c, P)
          /\ Fits(nodes, Shape(frame.routine, point), P) /\ Free(point)
    BY <1>1 DEF GoesOn
  <2>2. PICK P \in Taken :
          /\ Moved(c, P) /\ Begun(c) /\ Continue(point, c, P)
          /\ Fits(nodes, Shape(frame.routine, point), P) /\ Free(point)
    BY <2>1
  <2>3. QED
    BY <2>2, FreeOwes, ContinueBuilt DEF Moved
<1>2. ASSUME Calls PROVE BuiltInv'
  BY <1>2, InvokeFrameBuilt DEF Calls, Moved
<1>3. ASSUME Becomes PROVE BuiltInv'
  BY <1>3, BecomeBuilt DEF Becomes, Moved
<1>4. ASSUME GivesUp PROVE BuiltInv'
  BY <1>4, ReturnNullBuilt DEF GivesUp
<1>5. ASSUME Hands PROVE BuiltInv'
  BY <1>5, ReturnBuilt DEF Hands
<1>6. ASSUME Makes PROVE BuiltInv'
  BY <1>6, ReturnNodeBuilt DEF Makes, Moved
<1>7. ASSUME Wraps PROVE BuiltInv'
  BY <1>7, FreeOwes, ContinueFreshBuilt DEF Wraps, Moved
<1>8. ASSUME Adds PROVE BuiltInv'
  BY <1>8, FreeOwes, ContinueLeafBuilt DEF Adds, Moved
<1>9. ASSUME TypesName PROVE BuiltInv'
  BY <1>9, FreeOwes, TypedNameBuilt DEF TypesName
<1>10. ASSUME Repeats PROVE BuiltInv'
  <2>1. PICK c :
          /\ Onto(c) /\ c.had_error /\ Return(c, Len(nodes)) /\ nodes # <<>>
          /\ frame.routine = "ExpressionStatement" /\ returned = 0
          /\ Last(nodes).kind = "ExpressionStatement" /\ Last(nodes).parts = <<0>>
          /\ Last(nodes).from = frame.from /\ Last(nodes).to = c.position
    BY <1>10 DEF Repeats
  <2>2. nodes' = nodes /\ context' = c /\ calls' = Tail(calls) /\ returned' = Len(nodes)
    BY <2>1 DEF Return
  <2>3. Working
    BY <2>1, <2>2, WorkingOn
  <2>4. "ExpressionStatement" \in Results(frame.routine)
    BY <2>1, ResultsTable DEF Stating, Statements
  <2>5. /\ nodes'[returned'].kind = "ExpressionStatement"
        /\ nodes'[returned'].from = frame.from /\ nodes'[returned'].to = c.position
    BY <2>1, <2>2 DEF Last
  <2>6. frame.from <= frame.from /\ c.position <= c.position
    BY <2>1, WorkFacts DEF Onto, Lasts, ParserState
  <2>7. QED
    BY <2>1, <2>2, <2>3, <2>4, <2>5, <2>6, ReturnsBuilt
<1>11. QED
  BY <1>1, <1>2, <1>3, <1>4, <1>5, <1>6, <1>7, <1>8, <1>9, <1>10 DEF Move

-----------------------------------------------------------------------------
(* What makes a step one of these. *)

(* Only a block finds at its statements what it may hold already. *)
LEMMA HeldOnce ==
  /\ ~At("Block", "statement") => \A parts : Single(parts)
  /\ Running /\ frame.routine # "Block" => ~At("Block", "statement")
  /\ Running /\ frame.point # "statement" => ~At("Block", "statement")
  BY DEF Single, At

(* All that a function holds. *)
LEMMA HeldAll ==
  ASSUME IInv, Running, BuiltInv, NEW c
  PROVE  Keeping(c, Held)
<1>1. /\ Len(Held) = Len(frame.parts) + 1 /\ Len(frame.parts) \in Nat
      /\ \A k \in 1..Len(frame.parts) : Held[k] = frame.parts[k]
      /\ Held[Len(frame.parts) + 1] = returned
  BY HeldIs
<1>2. \A i \in Indices(frame.parts) \union {returned} : i \in Indices(Held)
  BY <1>1 DEF Indices
<1>3. QED
  BY <1>2 DEF Keeping

(* What is returned has the kind it is awaited with. *)
LEMMA AnswerKind ==
  ASSUME IInv, Running, BuiltInv
  PROVE  /\ returned # 0 => nodes[returned].kind \in Awaited(frame.routine, frame.point)
         /\ Awaited(frame.routine, frame.point) = {} => returned = 0
         /\ Owing(frame) /\ returned = 0 => context.had_error
         /\ context.had_error \in BOOLEAN
         /\ Fits(nodes, Shape(frame.routine, frame.point), frame.parts)
         /\ returned \in Nat /\ frame.parts \in Seq(Nat)
<1>1. /\ AnswerSound(nodes, frame, returned, context.position)
      /\ ~context.had_error /\ Owing(frame) => returned # 0
      /\ FrameSound(nodes, frame, context.position)
  BY WorkFacts
<1>2. context.had_error \in BOOLEAN
  BY DEF IInv, GoodContext, ParserState
<1>3. returned \in Nat /\ frame.parts \in Seq(Nat)
  <2>1. returned \in 0..Len(nodes) /\ Len(nodes) \in Nat
    BY WorkFacts
  <2>2. QED
    BY <2>1, WorkFacts
<1>4. returned # 0 => nodes[returned].kind \in Awaited(frame.routine, frame.point)
  BY <1>1 DEF AnswerSound
<1>5. QED
  BY <1>1, <1>2, <1>3, <1>4 DEF FrameSound

(* The roles that are filled when what is returned is added. *)
LEMMA HeldFits ==
  ASSUME IInv, Running, BuiltInv, NEW K, K = Awaited(frame.routine, frame.point),
         NEW S, Fits(nodes, S, frame.parts)
  PROVE  /\ S = Leaf => \A list : Fits(nodes, Roles(<<K>>, list, <<>>), Held)
         /\ S = Leaf => Fits(nodes, Only(<<K>>), Held)
         /\ \A A : S = Only(<<A>>) => Fits(nodes, Only(<<A, K>>), Held)
         /\ \A A, B : S = Only(<<A, B>>) => Fits(nodes, Only(<<A, B, K>>), Held)
         /\ \A list : list # {} /\ K \subseteq list /\ S = ListOf(list) =>
              Fits(nodes, ListOf(list), Held)
         /\ \A A, list : list # {} /\ K \subseteq list /\ S = Roles(<<A>>, list, <<>>) =>
              Fits(nodes, Roles(<<A>>, list, <<>>), Held)
         /\ \A list : list # {} /\ S = ListOf(list) => Fits(nodes, Roles(<<>>, list, <<K>>), Held)
         /\ \A A, list : list # {} /\ S = Roles(<<A>>, list, <<>>) =>
              Fits(nodes, Roles(<<A>>, list, <<K>>), Held)
         /\ \A A, list : list # {} /\ S = Roles(<<>>, list, <<A>>) =>
              Fits(nodes, Roles(<<>>, list, <<A, K>>), Held)
<1>1. /\ returned # 0 => nodes[returned].kind \in K
      /\ Fits(nodes, S, frame.parts) /\ returned \in Nat /\ frame.parts \in Seq(Nat)
  BY AnswerKind
<1> DEFINE more == Append(frame.parts, returned)
<1>2. /\ \A list : Fits(nodes, Leaf, frame.parts) => Fits(nodes, Roles(<<K>>, list, <<>>), more)
      /\ \A A : Fits(nodes, Only(<<A>>), frame.parts) => Fits(nodes, Only(<<A, K>>), more)
      /\ \A A, B : Fits(nodes, Only(<<A, B>>), frame.parts) => Fits(nodes, Only(<<A, B, K>>), more)
      /\ \A list : list # {} /\ K \subseteq list /\ Fits(nodes, ListOf(list), frame.parts)
           => Fits(nodes, ListOf(list), more)
      /\ \A A, list :
           list # {} /\ K \subseteq list /\ Fits(nodes, Roles(<<A>>, list, <<>>), frame.parts)
           => Fits(nodes, Roles(<<A>>, list, <<>>), more)
      /\ \A list : list # {} /\ Fits(nodes, ListOf(list), frame.parts)
           => Fits(nodes, Roles(<<>>, list, <<K>>), more)
      /\ \A A, list : list # {} /\ Fits(nodes, Roles(<<A>>, list, <<>>), frame.parts)
           => Fits(nodes, Roles(<<A>>, list, <<K>>), more)
      /\ \A A, list : list # {} /\ Fits(nodes, Roles(<<>>, list, <<A>>), frame.parts)
           => Fits(nodes, Roles(<<>>, list, <<A, K>>), more)
  BY <1>1, FitsLonger
<1>3. more = Held
  BY DEF Held
<1> HIDE DEF more
<1>4. S = Leaf => Fits(nodes, Only(<<K>>), Held)
  BY <1>1, <1>2, <1>3 DEF Only
<1>5. QED
  BY <1>1, <1>2, <1>3, <1>4, Zenon

(* Before its first token a function holds attributes at most. *)
LEMMA AtStart ==
  ASSUME IInv, Running, BuiltInv, frame.point \in {"start", "attributes"},
         Fits(nodes, ListOf({"Attribute"}), frame.parts)
  PROVE  /\ returned = 0
         /\ \A c, parts : Keeping(c, parts)
<1>1. returned = 0
  BY AnswerKind, AwaitedTable
<1>2. \A k \in 1..Len(frame.parts) :
        frame.parts[k] # 0 => nodes[frame.parts[k]].kind = "Attribute"
  <2> TAKE k \in 1..Len(frame.parts)
  <2>1. Len(frame.parts) \in Nat
    BY AnswerKind
  <2>2. RoleAt(ListOf({"Attribute"}), k, Len(frame.parts)) = {"Attribute"}
    <3>1. Len(<<>>) = 0 /\ Len(<<>>) \in Nat /\ k \notin 1..Len(<<>>)
      OBVIOUS
    <3>2. QED
      BY <2>1, <3>1, RoleInHead, Zenon DEF ListOf
  <2>3. frame.parts[k] # 0 =>
          nodes[frame.parts[k]].kind \in RoleAt(ListOf({"Attribute"}), k, Len(frame.parts))
    BY DEF Fits
  <2>4. QED
    BY <2>2, <2>3
<1>3. QED
  BY <1>1, <1>2 DEF Keeping, Indices

(* What is taken along goes on, is passed by, or goes into a new node. *)
LEMMA MoveTaken ==
  ASSUME NEW c, NEW P \in Taken, Moved(c, P), NEW point
  PROVE  /\ (/\ Continue(point, c, P) /\ Free(point) /\ Begun(c)
             /\ Fits(nodes, Shape(frame.routine, point), P)) => Move
         /\ \A routine \in Called :
              (/\ Invoke(routine, point, c, P) /\ point # "else" /\ Begun(c)
               /\ Fits(nodes, Shape(frame.routine, point), P)
               /\ Results(routine) \subseteq Awaited(frame.routine, point)) => Move
         /\ \A routine \in Called : \A callee :
              (/\ InvokeFrame(callee, point, c, P) /\ point # "else" /\ Begun(c)
               /\ Begins(callee, routine, c) /\ Fits(nodes, Shape(frame.routine, point), P)
               /\ Results(routine) \subseteq Awaited(frame.routine, point)) => Move
         /\ \A kind, span :
              (/\ ReturnNode(c, kind, span, P)
               /\ Fits(nodes, RolesOf(kind), P) /\ kind \in Results(frame.routine)) => Move
<1>1. ASSUME Continue(point, c, P), Free(point), Begun(c),
             Fits(nodes, Shape(frame.routine, point), P)
      PROVE  Move
  BY <1>1 DEF Move, GoesOn
<1>2. ASSUME NEW routine \in Called, NEW callee, InvokeFrame(callee, point, c, P),
             Begins(callee, routine, c), point # "else", Begun(c),
             Fits(nodes, Shape(frame.routine, point), P),
             Results(routine) \subseteq Awaited(frame.routine, point)
      PROVE  Move
  <2>1. Calls
    BY <1>2 DEF Calls
  <2>2. QED
    BY <2>1 DEF Move
<1>3. ASSUME NEW kind, NEW span, ReturnNode(c, kind, span, P), Fits(nodes, RolesOf(kind), P),
             kind \in Results(frame.routine)
      PROVE  Move
  BY <1>3 DEF Move, Makes
<1>4. \A routine : Invoke(routine, point, c, P) =>
        InvokeFrame(Frame(routine, c), point, c, P) /\ Begins(Frame(routine, c), routine, c)
  BY FrameBegins DEF Invoke
<1>5. QED
  BY <1>1, <1>2, <1>3, <1>4

(* The function goes on, or calls another, with what was returned. *)
LEMMA MoveHeld ==
  ASSUME IInv, Running, BuiltInv, ~At("Block", "statement"), frame.point # "start",
         NEW c, Onto(c), NEW point
  PROVE  /\ (/\ Continue(point, c, Held) /\ Free(point)
             /\ Fits(nodes, Shape(frame.routine, point), Held)) => Move
         /\ \A routine \in Called :
              (/\ Invoke(routine, point, c, Held) /\ point # "else"
               /\ Fits(nodes, Shape(frame.routine, point), Held)
               /\ Results(routine) \subseteq Awaited(frame.routine, point)) => Move
         /\ \A kind, span :
              (/\ ReturnNode(c, kind, span, Held)
               /\ Fits(nodes, RolesOf(kind), Held) /\ kind \in Results(frame.routine)) => Move
<1>1. Moved(c, Held) /\ Begun(c) /\ Held \in Taken
  BY HeldAll, HeldOnce, BegunStays DEF Moved, Taken
<1>2. QED
  BY <1>1, MoveTaken

(* With its parts only, when nothing was returned or after an error. *)
LEMMA PartsMoved ==
  ASSUME IInv, Running, BuiltInv, NEW c, Onto(c), returned = 0 \/ c.had_error
  PROVE  Moved(c, frame.parts) /\ frame.parts \in Taken
<1>1. frame.parts # Held
  <2>1. Len(Held) = Len(frame.parts) + 1 /\ Len(frame.parts) \in Nat
    BY HeldIs
  <2>2. QED
    BY <2>1
<1>2. QED
  BY <1>1 DEF Moved, Taken, Keeping, Single

(* So it goes on or calls another. *)
LEMMA MoveParts ==
  ASSUME IInv, Running, BuiltInv, NEW c, Onto(c), Begun(c), returned = 0 \/ c.had_error, NEW point
  PROVE  /\ (/\ Continue(point, c, frame.parts) /\ Free(point)
             /\ Fits(nodes, Shape(frame.routine, point), frame.parts)) => Move
         /\ \A routine \in Called :
              (/\ Invoke(routine, point, c, frame.parts) /\ point # "else"
               /\ Fits(nodes, Shape(frame.routine, point), frame.parts)
               /\ Results(routine) \subseteq Awaited(frame.routine, point)) => Move
         /\ \A kind, span :
              (/\ ReturnNode(c, kind, span, frame.parts)
               /\ Fits(nodes, RolesOf(kind), frame.parts)
               /\ kind \in Results(frame.routine)) => Move
<1>1. Moved(c, frame.parts) /\ frame.parts \in Taken
  BY PartsMoved
<1>2. QED
  BY <1>1, MoveTaken

(* With nothing, from the start. *)
LEMMA NoneMoved ==
  ASSUME IInv, Running, BuiltInv, frame.point = "start",
         Fits(nodes, ListOf({"Attribute"}), frame.parts), NEW c, Onto(c)
  PROVE  Moved(c, <<>>) /\ <<>> \in Taken
<1>1. Keeping(c, <<>>)
  BY AtStart
<1>2. frame.point # "statement"
  OBVIOUS
<1>3. QED
  BY <1>1, <1>2, HeldOnce DEF Moved, Taken

(* So it begins. *)
LEMMA MoveNone ==
  ASSUME IInv, Running, BuiltInv, frame.point = "start",
         Fits(nodes, ListOf({"Attribute"}), frame.parts), NEW c, Onto(c), NEW point
  PROVE  /\ (/\ Continue(point, c, <<>>) /\ Free(point) /\ Begun(c)
             /\ Fits(nodes, Shape(frame.routine, point), <<>>)) => Move
         /\ \A routine \in Called :
              (/\ Invoke(routine, point, c, <<>>) /\ point # "else" /\ Begun(c)
               /\ Fits(nodes, Shape(frame.routine, point), <<>>)
               /\ Results(routine) \subseteq Awaited(frame.routine, point)) => Move
         /\ \A kind, span :
              (/\ ReturnNode(c, kind, span, <<>>)
               /\ RolesOf(kind) = Leaf /\ kind \in Results(frame.routine)) => Move
         /\ Return(c, 0) /\ c.had_error => Move
<1>1. Moved(c, <<>>) /\ <<>> \in Taken
  BY NoneMoved
<1>2. Fits(nodes, Leaf, <<>>)
  BY FitsNone
<1>3. Return(c, 0) /\ c.had_error => Move
  BY DEF Move, GivesUp
<1>4. QED
  BY <1>1, <1>2, <1>3, MoveTaken

(* Where no function has taken its first token yet. *)
LEMMA StartFits ==
  ASSUME IInv, Running, BuiltInv, frame.point = "start",
         frame.routine \in Declaring \union Stating \union Expressing
                             \union {"Block", "Identifier", "Type"}
  PROVE  /\ Fits(nodes, ListOf({"Attribute"}), frame.parts)
         /\ frame.routine \in Taking => Begun(Consumed(context))
              /\ Begun(Matched(Consumed(context), "mut")) /\ Onto(Matched(Consumed(context), "mut"))
         /\ frame.routine \notin Beginning => \A c : Begun(c)
<1>1. Shape(frame.routine, "start") = Leaf \/ Shape(frame.routine, "start") = ListOf({"Attribute"})
  BY DeclarationShapes, StatementShapes, ExpressionShapes, Zenon
<1>2. Fits(nodes, ListOf({"Attribute"}), frame.parts)
  <2>1. Fits(nodes, Shape(frame.routine, "start"), frame.parts) /\ frame.parts \in Seq(Nat)
    BY AnswerKind
  <2>2. Leaf = ListOf({}) /\ {} \subseteq {"Attribute"}
    BY DEF Leaf, Only, ListOf
  <2>3. Fits(nodes, ListOf({}), frame.parts) => Fits(nodes, ListOf({"Attribute"}), frame.parts)
    <3>1. \A list, wider : list \subseteq wider /\ Fits(nodes, ListOf(list), frame.parts)
            => Fits(nodes, ListOf(wider), frame.parts)
      BY <2>1, FitsAlso
    <3>2. QED
      BY <2>2, <3>1
  <2>4. QED
    BY <1>1, <2>1, <2>2, <2>3
<1>3. ASSUME frame.routine \in Taking
      PROVE  /\ Begun(Consumed(context))
             /\ Begun(Matched(Consumed(context), "mut")) /\ Onto(Matched(Consumed(context), "mut"))
  <2>1. Peek(context) # "eof"
    BY <1>3 DEF IInv, CallsInv
  <2>2. /\ context.position < Consumed(context).position
        /\ context.position < Matched(Consumed(context), "mut").position
        /\ Onto(Consumed(context)) /\ Onto(Matched(Consumed(context), "mut"))
    BY <2>1, OntoNext, OntoFacts, OntoMore
  <2>3. frame.start <= context.position /\ frame.start \in Nat /\ context.position \in Nat
    BY WorkFacts DEF FrameSound
  <2>4. Consumed(context).position \in Nat /\ Matched(Consumed(context), "mut").position \in Nat
    BY <2>2 DEF Onto, Lasts, ParserState
  <2>5. QED
    BY <2>2, <2>3, <2>4 DEF Begun
<1>4. frame.routine \notin Beginning => \A c : Begun(c)
  BY DEF Begun
<1>5. QED
  BY <1>2, <1>3, <1>4

(* The roles of the members of every class. *)
LEMMA RolesTable ==
  /\ RolesOf("Function") = Roles(<<>>, Signature, <<Types, {"Block"}>>)
  /\ \A kind \in {"Class", "Trait"} : RolesOf(kind) = Roles(<<Names>>, Declarations, <<>>)
  /\ RolesOf("Struct") = Roles(<<Names>>, {"Field"}, <<>>)
  /\ \A kind \in {"Enum", "Import"} : RolesOf(kind) = ListOf(Names)
  /\ RolesOf("Module") = Only(<<Names, {"Block"}>>)
  /\ RolesOf("Package") = Only(<<Names>>)
  /\ \A kind \in {"ExpressionStatement", "Return"} : RolesOf(kind) = Only(<<Expressions>>)
  /\ RolesOf("Variable") = Only(<<Names, Types, Expressions>>)
  /\ RolesOf("If") = Only(<<Expressions, Statements, Statements>>)
  /\ RolesOf("While") = Only(<<Expressions, Statements>>)
  /\ RolesOf("For") = Only(<<Names, Expressions, Statements>>)
  /\ RolesOf("Block") = ListOf(Statements)
  /\ RolesOf("Call") = Roles(<<Expressions>>, Expressions, <<>>)
  /\ \A kind \in {"Binary", "Assignment"} : RolesOf(kind) = Only(<<Expressions, Expressions>>)
  /\ \A kind \in {"MemberAccess", "Unary", "Parenthesized", "Match"} :
       RolesOf(kind) = Only(<<Expressions>>)
  /\ RolesOf("Program") = ListOf(Declarations)
  /\ \A kind \in Types \union {"Identifier", "Attribute", "IdentifierExpression",
                               "LiteralExpression"} : RolesOf(kind) = Leaf
<1>1. /\ \A kind \in Declarations : RolesOf(kind) = DeclarationRoles[kind]
      /\ \A kind \in Statements : RolesOf(kind) = StatementRoles[kind]
      /\ \A kind \in Expressions : RolesOf(kind) = ExpressionRoles[kind]
      /\ RolesOf("Program") = Roles(<<>>, Declarations, <<>>)
      /\ \A kind \in Types \union {"Identifier", "Attribute"} : RolesOf(kind) = Leaf
  <2>1. /\ \A kind \in Statements : kind \notin Declarations
        /\ \A kind \in Expressions : kind \notin Declarations /\ kind \notin Statements
        /\ \A kind \in Types \union {"Identifier", "Attribute", "Program"} :
             kind \notin Declarations /\ kind \notin Statements /\ kind \notin Expressions
        /\ \A kind \in Types \union {"Identifier", "Attribute"} :
             kind # "Program" /\ kind \notin {"Parameter", "Field"}
        /\ \A kind \in Declarations \union Statements \union Expressions :
             kind # "Program" /\ kind \notin {"Parameter", "Field"}
        /\ "Program" \notin {"Parameter", "Field"}
    BY DEF Declarations, Statements, Expressions, Types
  <2>2. \A kind \in Declarations : kind \notin Statements /\ kind \notin Expressions
    BY <2>1
  <2>3. \A kind \in Declarations : RolesOf(kind) = DeclarationRoles[kind]
    BY <2>1, <2>2, Zenon DEF RolesOf
  <2>4. \A kind \in Statements : RolesOf(kind) = StatementRoles[kind]
    BY <2>1, Zenon DEF RolesOf
  <2>5. \A kind \in Expressions : RolesOf(kind) = ExpressionRoles[kind]
    BY <2>1, Zenon DEF RolesOf
  <2>6. \A kind \in Types \union {"Identifier", "Attribute"} : RolesOf(kind) = Leaf
    BY <2>1, Zenon DEF RolesOf
  <2>7. RolesOf("Program") = Roles(<<>>, Declarations, <<>>)
    BY <2>1, Zenon DEF RolesOf
  <2>8. QED
    BY <2>3, <2>4, <2>5, <2>6, <2>7
<1>2. /\ Declarations = {"Function", "Class", "Struct", "Trait", "Enum", "Import", "Module",
                         "Package"}
      /\ Statements =
           {"ExpressionStatement", "Variable", "Return", "If", "While", "For", "Block"}
      /\ Expressions =
           {"IdentifierExpression", "LiteralExpression", "Call", "MemberAccess", "Unary",
            "Binary", "Parenthesized", "Assignment", "Match"}
  BY DEF Declarations, Statements, Expressions
<1>3. /\ DeclarationRoles["Function"] = Roles(<<>>, Signature, <<Types, {"Block"}>>)
      /\ \A kind \in {"Class", "Trait"} :
           DeclarationRoles[kind] = Roles(<<Names>>, Declarations, <<>>)
      /\ DeclarationRoles["Struct"] = Roles(<<Names>>, {"Field"}, <<>>)
      /\ \A kind \in {"Enum", "Import"} : DeclarationRoles[kind] = ListOf(Names)
      /\ DeclarationRoles["Module"] = Only(<<Names, {"Block"}>>)
      /\ DeclarationRoles["Package"] = Only(<<Names>>)
  BY <1>2 DEF DeclarationRoles, Signature, Names, ListOf
<1>4. /\ \A kind \in {"ExpressionStatement", "Return"} :
           StatementRoles[kind] = Only(<<Expressions>>)
      /\ StatementRoles["Variable"] = Only(<<Names, Types, Expressions>>)
      /\ StatementRoles["If"] = Only(<<Expressions, Statements, Statements>>)
      /\ StatementRoles["While"] = Only(<<Expressions, Statements>>)
      /\ StatementRoles["For"] = Only(<<Names, Expressions, Statements>>)
      /\ StatementRoles["Block"] = ListOf(Statements)
  BY <1>2 DEF StatementRoles, Names, ListOf
<1>5. /\ ExpressionRoles["Call"] = Roles(<<Expressions>>, Expressions, <<>>)
      /\ \A kind \in {"Binary", "Assignment"} :
           ExpressionRoles[kind] = Only(<<Expressions, Expressions>>)
      /\ \A kind \in {"MemberAccess", "Unary", "Parenthesized", "Match"} :
           ExpressionRoles[kind] = Only(<<Expressions>>)
      /\ \A kind \in {"IdentifierExpression", "LiteralExpression"} : ExpressionRoles[kind] = Leaf
  BY <1>2 DEF ExpressionRoles
<1>6. RolesOf("Program") = ListOf(Declarations)
  BY <1>1 DEF ListOf
<1>7. /\ RolesOf("Function") = DeclarationRoles["Function"]
      /\ RolesOf("Struct") = DeclarationRoles["Struct"]
      /\ RolesOf("Module") = DeclarationRoles["Module"]
      /\ RolesOf("Package") = DeclarationRoles["Package"]
      /\ \A kind \in {"Class", "Trait", "Enum", "Import"} : RolesOf(kind) = DeclarationRoles[kind]
  BY <1>1, <1>2
<1>8. \A kind \in Statements : RolesOf(kind) = StatementRoles[kind]
  BY <1>1
<1>9. \A kind \in Expressions : RolesOf(kind) = ExpressionRoles[kind]
  BY <1>1
<1>10. /\ \A kind \in {"ExpressionStatement", "Return"} : RolesOf(kind) = Only(<<Expressions>>)
       /\ RolesOf("Variable") = Only(<<Names, Types, Expressions>>)
       /\ RolesOf("If") = Only(<<Expressions, Statements, Statements>>)
       /\ RolesOf("While") = Only(<<Expressions, Statements>>)
       /\ RolesOf("For") = Only(<<Names, Expressions, Statements>>)
       /\ RolesOf("Block") = ListOf(Statements)
  BY <1>2, <1>4, <1>8
<1>11. /\ RolesOf("Call") = Roles(<<Expressions>>, Expressions, <<>>)
       /\ \A kind \in {"Binary", "Assignment"} : RolesOf(kind) = Only(<<Expressions, Expressions>>)
       /\ \A kind \in {"MemberAccess", "Unary", "Parenthesized", "Match"} :
            RolesOf(kind) = Only(<<Expressions>>)
       /\ \A kind \in {"IdentifierExpression", "LiteralExpression"} : RolesOf(kind) = Leaf
  BY <1>2, <1>5, <1>9
<1>12. /\ \A kind \in {"Class", "Trait"} : RolesOf(kind) = Roles(<<Names>>, Declarations, <<>>)
       /\ \A kind \in {"Enum", "Import"} : RolesOf(kind) = ListOf(Names)
  BY <1>3, <1>7
<1>13. QED
  BY <1>1, <1>3, <1>6, <1>7, <1>10, <1>11, <1>12

(* A frame with nothing in it, and one with one part. *)
LEMMA FewParts ==
  ASSUME IInv, Running, BuiltInv
  PROVE  /\ Fits(nodes, Leaf, frame.parts) => frame.parts = <<>> /\ \A c : Keeping(c, <<returned>>)
         /\ \A A : Fits(nodes, Only(<<A>>), frame.parts) =>
              /\ Len(frame.parts) = 1 /\ frame.parts # <<>> /\ frame.parts[1] \in Nat
              /\ Last(frame.parts) = frame.parts[1]
              /\ Indices(frame.parts) = {frame.parts[1]}
              /\ frame.parts[1] # 0 => nodes[frame.parts[1]].kind \in A
              /\ \A c : returned = 0 => Keeping(c, <<frame.parts[1]>>)
<1>1. frame.parts \in Seq(Nat) /\ Len(frame.parts) \in Nat
  BY AnswerKind
<1>2. ASSUME Fits(nodes, Leaf, frame.parts)
      PROVE  frame.parts = <<>> /\ \A c : Keeping(c, <<returned>>)
  <2>1. Len(frame.parts) = Len(<<>>) + Len(<<>>)
    BY <1>2 DEF Fits, Leaf, Only, Roles
  <2>2. Len(frame.parts) = 0
    BY <2>1
  <2>3. frame.parts = <<>>
    BY <1>1, <2>2
  <2>4. Indices(frame.parts) = {} /\ Indices(<<returned>>) = {returned}
    BY <2>3 DEF Indices
  <2>5. QED
    BY <2>3, <2>4 DEF Keeping
<1>3. ASSUME NEW A, Fits(nodes, Only(<<A>>), frame.parts)
      PROVE  /\ Len(frame.parts) = 1 /\ frame.parts # <<>> /\ frame.parts[1] \in Nat
             /\ Last(frame.parts) = frame.parts[1]
             /\ Indices(frame.parts) = {frame.parts[1]}
             /\ frame.parts[1] # 0 => nodes[frame.parts[1]].kind \in A
             /\ \A c : returned = 0 => Keeping(c, <<frame.parts[1]>>)
  <2>0. Only(<<A>>).list = {} /\ Only(<<A>>).head = <<A>> /\ Only(<<A>>).tail = <<>>
    BY DEF Only, Roles
  <2>1. Len(frame.parts) = Len(<<A>>) + Len(<<>>)
    BY <1>3, <2>0 DEF Fits
  <2>2. Len(frame.parts) = 1 /\ 1..1 = {1}
    BY <2>1
  <2>3. frame.parts # <<>> /\ frame.parts[1] \in Nat /\ 1 \in 1..Len(frame.parts)
    BY <1>1, <2>2
  <2>4. Last(frame.parts) = frame.parts[1]
    BY <2>2 DEF Last
  <2>5. Indices(frame.parts) = {frame.parts[1]} /\ Indices(<<frame.parts[1]>>) = {frame.parts[1]}
    BY <2>2 DEF Indices
  <2>6. RoleAt(Roles(<<A>>, {}, <<>>), 1, 1) = A
    <3>1. Len(<<A>>) \in Nat /\ 1 \in 1..1 /\ 1 \in 1..Len(<<A>>) /\ <<A>>[1] = A
      OBVIOUS
    <3>2. QED
      BY <3>1, RoleInHead
  <2>7. frame.parts[1] # 0 => nodes[frame.parts[1]].kind \in A
    BY <1>3, <2>2, <2>3, <2>6 DEF Fits, Only
  <2>8. \A c : returned = 0 => Keeping(c, <<frame.parts[1]>>)
    BY <2>5 DEF Keeping
  <2>9. QED
    BY <2>2, <2>3, <2>4, <2>5, <2>7, <2>8
<1>4. QED
  BY <1>2, <1>3

(* An expression gives back what it has. *)
LEMMA MoveHand ==
  ASSUME IInv, Running, BuiltInv, NEW c, Onto(c), frame.routine \in Expressing
  PROVE  /\ (/\ Return(c, returned) /\ Fits(nodes, Leaf, frame.parts)
             /\ Awaited(frame.routine, frame.point) = Expressions
             /\ returned # 0 \/ c.had_error) => Move
         /\ (/\ Return(c, frame.parts[1]) /\ Fits(nodes, Only(<<Expressions>>), frame.parts)
             /\ returned = 0 /\ frame.parts[1] # 0) => Move
<1>1. Results(frame.routine) = Expressions
  BY ResultsTable
<1>2. ASSUME Return(c, returned), Fits(nodes, Leaf, frame.parts),
             Awaited(frame.routine, frame.point) = Expressions, returned # 0 \/ c.had_error
      PROVE  Move
  <2>1. Keeping(c, <<returned>>) /\ (returned # 0 => nodes[returned].kind \in Expressions)
    BY <1>2, FewParts, AnswerKind
  <2>2. Hands
    BY <1>1, <1>2, <2>1 DEF Hands
  <2>3. QED
    BY <2>2 DEF Move
<1>3. ASSUME Return(c, frame.parts[1]), Fits(nodes, Only(<<Expressions>>), frame.parts),
             returned = 0, frame.parts[1] # 0
      PROVE  Move
  <2>1. /\ Keeping(c, <<frame.parts[1]>>) /\ nodes[frame.parts[1]].kind \in Expressions
        /\ frame.parts[1] \in Indices(frame.parts)
    BY <1>3, FewParts
  <2>2. Hands
    BY <1>1, <1>3, <2>1 DEF Hands
  <2>3. QED
    BY <2>2 DEF Move
<1>4. QED
  BY <1>2, <1>3

(* A new node around what it has. *)
LEMMA MoveWrap ==
  ASSUME IInv, Running, BuiltInv, frame.routine \in Expressing, NEW c, Onto(c),
         NEW kind \in Expressions, NEW span, NEW point, Free(point),
         Shape(frame.routine, point) = Only(<<Expressions>>)
  PROVE  /\ (/\ ContinueWith(point, c, NewNode(c, kind, span, Held), <<Fresh>>)
             /\ Fits(nodes, RolesOf(kind), Held)) => Move
         /\ (/\ ContinueWith(point, c, NewNode(c, kind, span, frame.parts), <<Fresh>>)
             /\ Fits(nodes, RolesOf(kind), frame.parts)
             /\ returned = 0) => Move
         /\ (/\ ContinueWith(point, c, NewNode(c, kind, span, <<>>), <<Fresh>>)
             /\ RolesOf(kind) = Leaf /\ frame.parts = <<>> /\ returned = 0) => Move
<1>1. ~At("Block", "statement")
  BY HeldOnce DEF Expressing
<1>2. ASSUME NEW N \in Taken, Keeping(c, N), Fits(nodes, RolesOf(kind), N),
             ContinueWith(point, c, NewNode(c, kind, span, N), <<Fresh>>)
      PROVE  Move
  <2>1. Moved(c, N)
    BY <1>1, <1>2, HeldOnce DEF Moved
  <2>2. Wraps
    BY <1>2, <2>1 DEF Wraps
  <2>3. QED
    BY <2>2 DEF Move
<1>3. Keeping(c, Held) /\ Held \in Taken /\ frame.parts \in Taken /\ <<>> \in Taken
  BY HeldAll DEF Taken
<1>4. returned = 0 => Keeping(c, frame.parts)
  BY DEF Keeping
<1>5. Fits(nodes, Leaf, <<>>)
  BY FitsNone
<1>6. QED
  BY <1>2, <1>3, <1>4, <1>5

-----------------------------------------------------------------------------
(* Every step is one of these.                                              *)

(* Expressions. *)
LEMMA AssignmentMoves ==
  ASSUME IInv, BuiltInv, ParseAssignment \/ LeftParsed \/ EndAssignment
  PROVE  Running /\ Move
<1>1. Running /\ frame.routine = "Assignment"
  BY DEF ParseAssignment, LeftParsed, EndAssignment, At
<1>2. /\ "Assignment" \in Expressing /\ "Binary" \in Expressing
      /\ "Assignment" \notin Beginning /\ ~At("Block", "statement")
      /\ Called = {"Declaration", "Identifier", "Type", "Block", "Statement"} \union Expressing
      /\ \A routine \in Expressing : routine \in Called
  BY <1>1, HeldOnce DEF Expressing, Beginning, Taking, Named, Called
<1>3. /\ Shape("Assignment", "start") = Leaf /\ Shape("Assignment", "left") = Leaf
      /\ Shape("Assignment", "value") = Only(<<Expressions>>)
      /\ Awaited("Assignment", "left") = Expressions
      /\ Awaited("Assignment", "value") = Expressions
      /\ Results("Assignment") = Expressions /\ Results("Binary") = Expressions
  BY <1>2, ExpressionShapes, AwaitedTable, ResultsTable
<1>4. Onto(context) /\ Onto(Consumed(context)) /\ \A c : Begun(c)
  BY <1>1, <1>2, OntoFacts DEF Begun
<1>5. ASSUME ParseAssignment PROVE Move
  <2>1. /\ frame.point = "start"
        /\ InvokeFrame(BinaryFrame(context, LogicalOr), "left", context, <<>>)
    BY <1>5 DEF ParseAssignment, At
  <2>2. Fits(nodes, ListOf({"Attribute"}), frame.parts)
    BY <1>1, <1>2, <2>1, StartFits
  <2>3. Moved(context, <<>>) /\ <<>> \in Taken
    BY <1>1, <1>4, <2>1, <2>2, NoneMoved
  <2>4. Begins(BinaryFrame(context, LogicalOr), "Binary", context) /\ Fits(nodes, Leaf, <<>>)
    BY FrameBegins, FitsNone
  <2>5. QED
    BY <1>1, <1>2, <1>3, <1>4, <2>1, <2>3, <2>4, MoveTaken
<1>6. ASSUME LeftParsed PROVE Move
  <2>1. frame.point = "left"
    BY <1>6 DEF LeftParsed, At
  <2>2. Fits(nodes, Leaf, frame.parts)
    BY <1>1, <1>3, <2>1, AnswerKind
  <2>3. CASE returned # 0 /\ Invoke("Assignment", "value", Consumed(context), Held)
    <3>1. Fits(nodes, Only(<<Expressions>>), Held)
      BY <1>1, <1>3, <2>1, <2>2, HeldFits
    <3>2. QED
      BY <1>1, <1>2, <1>3, <1>4, <2>1, <2>3, <3>1, MoveHeld
  <2>4. CASE Return(context, returned)
    <3>1. returned # 0 \/ context.had_error
      BY <1>1, <2>1, AnswerKind DEF Owing
    <3>2. QED
      BY <1>1, <1>2, <1>3, <1>4, <2>1, <2>2, <2>4, <3>1, MoveHand
  <2>5. QED
    BY <1>6, <2>3, <2>4 DEF LeftParsed
<1>7. ASSUME EndAssignment PROVE Move
  <2>1. frame.point = "value"
    BY <1>7 DEF EndAssignment, At
  <2>2. Fits(nodes, Only(<<Expressions>>), frame.parts)
    BY <1>1, <1>3, <2>1, AnswerKind
  <2>3. CASE returned = 0 /\ Return(context, Last(frame.parts))
    <3>1. Last(frame.parts) = frame.parts[1]
      BY <1>1, <2>2, FewParts
    <3>2. frame.parts[1] # 0
      <4>1. frame.parts[1] \in 1..Len(nodes)
        BY <1>1, <2>1, FirstPart, FrameFacts DEF Is
      <4>2. QED
        BY <4>1
    <3>3. QED
      BY <1>1, <1>2, <1>4, <2>2, <2>3, <3>1, <3>2, MoveHand
  <2>4. CASE returned # 0 /\ ReturnNode(context, "Assignment",
                     ExtendSpan(nodes[frame.parts[1]].span, nodes[returned].span), Held)
    <3>1. Fits(nodes, RolesOf("Assignment"), Held)
      BY <1>1, <1>3, <2>1, <2>2, HeldFits, RolesTable
    <3>2. "Assignment" \in Expressions
      BY DEF Expressions
    <3>3. QED
      BY <1>1, <1>2, <1>3, <1>4, <2>1, <2>4, <3>1, <3>2, MoveHeld
  <2>5. QED
    BY <1>7, <2>3, <2>4 DEF EndAssignment
<1>8. QED
  BY <1>1, <1>5, <1>6, <1>7

(* Binary expressions. *)
LEMMA BinaryMoves ==
  ASSUME IInv, BuiltInv, ParseBinary \/ OperandParsed \/ ParseOperator \/ RightParsed
  PROVE  Running /\ Move
<1>1. Running /\ frame.routine = "Binary"
  BY DEF ParseBinary, OperandParsed, ParseOperator, RightParsed, At
<1>2. /\ "Binary" \in Expressing /\ "Unary" \in Expressing
      /\ "Binary" \notin Beginning /\ ~At("Block", "statement")
      /\ \A routine \in Expressing : routine \in Called
  BY <1>1, HeldOnce DEF Expressing, Beginning, Taking, Named, Called
<1>3. /\ Shape("Binary", "start") = Leaf /\ Shape("Binary", "operand") = Leaf
      /\ Shape("Binary", "operator") = Only(<<Expressions>>)
      /\ Shape("Binary", "right") = Only(<<Expressions>>)
      /\ Awaited("Binary", "operand") = Expressions
      /\ Awaited("Binary", "operator") = {}
      /\ Awaited("Binary", "right") = Expressions
      /\ Results("Unary") = Expressions /\ Results("Binary") = Expressions
  BY <1>2, ExpressionShapes, AwaitedTable, ResultsTable
<1>4. Onto(context) /\ Onto(Consumed(context)) /\ \A c : Begun(c)
  BY <1>1, <1>2, OntoFacts DEF Begun
<1>5. ASSUME ParseBinary PROVE Move
  <2>1. frame.point = "start" /\ Invoke("Unary", "operand", context, <<>>)
    BY <1>5 DEF ParseBinary, At
  <2>2. Fits(nodes, ListOf({"Attribute"}), frame.parts) /\ Fits(nodes, Leaf, <<>>)
    BY <1>1, <1>2, <2>1, StartFits, FitsNone
  <2>3. QED
    BY <1>1, <1>2, <1>3, <1>4, <2>1, <2>2, MoveNone
<1>6. ASSUME OperandParsed PROVE Move
  <2>1. frame.point = "operand"
    BY <1>6 DEF OperandParsed, At
  <2>2. CASE returned # 0 /\ Continue("operator", context, Held)
    <3>1. Fits(nodes, Leaf, frame.parts)
      BY <1>1, <1>3, <2>1, AnswerKind
    <3>2. Fits(nodes, Only(<<Expressions>>), Held)
      BY <1>1, <1>3, <2>1, <3>1, HeldFits
    <3>3. QED
      BY <1>1, <1>2, <1>3, <1>4, <2>1, <2>2, <3>2, MoveHeld DEF Free
  <2>3. CASE returned = 0 /\ Return(context, 0)
    <3>1. context.had_error
      BY <1>1, <2>1, <2>3, AnswerKind DEF Owing
    <3>2. QED
      BY <1>4, <2>3, <3>1 DEF Move, GivesUp
  <2>4. QED
    BY <1>6, <2>2, <2>3 DEF OperandParsed
<1>7. ASSUME frame.point \in {"operator", "right"}, returned = 0,
             Return(context, Last(frame.parts))
      PROVE  Move
  <2>1. Fits(nodes, Only(<<Expressions>>), frame.parts)
    BY <1>1, <1>3, <1>7, AnswerKind
  <2>2. Last(frame.parts) = frame.parts[1]
    BY <1>1, <2>1, FewParts
  <2>3. frame.parts[1] # 0
    <3>1. frame.parts[1] \in 1..Len(nodes)
      BY <1>1, <1>7, FirstPart, FrameFacts DEF Is
    <3>2. QED
      BY <3>1
  <2>4. QED
    BY <1>1, <1>2, <1>4, <1>7, <2>1, <2>2, <2>3, MoveHand
<1>8. ASSUME ParseOperator PROVE Move
  <2>1. frame.point = "operator"
    BY <1>8 DEF ParseOperator, At
  <2>2. returned = 0
    BY <1>1, <1>3, <2>1, AnswerKind
  <2>3. CASE InvokeFrame(BinaryFrame(Consumed(context), Precedence[Peek(context)] + 1),
                         "right", Consumed(context), frame.parts)
    <3> DEFINE callee == BinaryFrame(Consumed(context), Precedence[Peek(context)] + 1)
    <3>1. Moved(Consumed(context), frame.parts) /\ frame.parts \in Taken
      BY <1>1, <1>4, <2>2, PartsMoved
    <3>2. Begins(callee, "Binary", Consumed(context))
      BY FrameBegins
    <3>3. Fits(nodes, Only(<<Expressions>>), frame.parts)
      BY <1>1, <1>3, <2>1, AnswerKind
    <3>4. InvokeFrame(callee, "right", Consumed(context), frame.parts)
      BY <2>3
    <3> HIDE DEF callee
    <3>5. QED
      BY <1>1, <1>2, <1>3, <1>4, <3>1, <3>2, <3>3, <3>4, MoveTaken
  <2>4. CASE Return(context, Last(frame.parts))
    BY <1>7, <2>1, <2>2, <2>4
  <2>5. QED
    BY <1>8, <2>3, <2>4 DEF ParseOperator
<1>9. ASSUME RightParsed PROVE Move
  <2>1. frame.point = "right"
    BY <1>9 DEF RightParsed, At
  <2>2. CASE returned = 0 /\ Return(context, Last(frame.parts))
    BY <1>7, <2>1, <2>2
  <2>3. CASE ContinueWith("operator", context,
                     NewNode(context, "Binary",
                             ExtendSpan(nodes[frame.parts[1]].span, nodes[returned].span),
                             Held), <<Fresh>>)
    <3>1. Fits(nodes, Only(<<Expressions>>), frame.parts)
      BY <1>1, <1>3, <2>1, AnswerKind
    <3>2. Fits(nodes, RolesOf("Binary"), Held)
      BY <1>1, <1>3, <2>1, <3>1, HeldFits, RolesTable
    <3>3. "Binary" \in Expressions /\ Free("operator")
      BY DEF Expressions, Free
    <3>4. QED
      BY <1>1, <1>2, <1>3, <1>4, <2>3, <3>2, <3>3, MoveWrap
  <2>4. QED
    BY <1>9, <2>2, <2>3 DEF RightParsed
<1>10. QED
  BY <1>1, <1>5, <1>6, <1>8, <1>9

(* Unary expressions. *)
LEMMA UnaryMoves ==
  ASSUME IInv, BuiltInv, ParseUnary \/ EndPrefix \/ EndPostfix
  PROVE  Running /\ Move
<1>1. Running /\ frame.routine = "Unary"
  BY DEF ParseUnary, EndPrefix, EndPostfix, At
<1>2. /\ "Primary" \in Expressing /\ "Unary" \in Expressing
      /\ "Unary" \notin Beginning /\ ~At("Block", "statement")
      /\ \A routine \in Expressing : routine \in Called
  BY <1>1, HeldOnce DEF Expressing, Beginning, Taking, Named, Called
<1>3. /\ \A point : Shape("Unary", point) = Leaf
      /\ Awaited("Unary", "operand") = Expressions
      /\ Awaited("Unary", "primary") = Expressions
      /\ Results("Unary") = Expressions /\ Results("Primary") = Expressions
      /\ RolesOf("Unary") = Only(<<Expressions>>) /\ "Unary" \in Expressions
  BY <1>2, ExpressionShapes, AwaitedTable, ResultsTable, RolesTable DEF Expressions
<1>4. Onto(context) /\ Onto(Consumed(context)) /\ \A c : Begun(c)
  BY <1>1, <1>2, OntoFacts DEF Begun
<1>5. ASSUME ParseUnary PROVE Move
  <2>1. /\ frame.point = "start"
        /\ \/ Invoke("Unary", "operand", Consumed(context), <<>>)
           \/ Invoke("Primary", "primary", context, <<>>)
    BY <1>5 DEF ParseUnary, At
  <2>2. Fits(nodes, ListOf({"Attribute"}), frame.parts) /\ Fits(nodes, Leaf, <<>>)
    BY <1>1, <1>2, <2>1, StartFits, FitsNone
  <2>3. CASE Invoke("Unary", "operand", Consumed(context), <<>>)
    BY <1>1, <1>2, <1>3, <1>4, <2>1, <2>2, <2>3, MoveNone
  <2>4. CASE Invoke("Primary", "primary", context, <<>>)
    BY <1>1, <1>2, <1>3, <1>4, <2>1, <2>2, <2>4, MoveNone
  <2>5. QED
    BY <2>1, <2>3, <2>4
<1>6. Fits(nodes, Leaf, frame.parts)
  BY <1>1, <1>3, AnswerKind
<1>7. frame.point \in {"operand", "primary"} => Fits(nodes, Only(<<Expressions>>), Held)
  <2>1. SUFFICES ASSUME frame.point \in {"operand", "primary"}
                 PROVE  Fits(nodes, Only(<<Expressions>>), Held)
    OBVIOUS
  <2>2. Awaited(frame.routine, frame.point) = Expressions
    BY <1>1, <1>3, <2>1
  <2>3. QED
    BY <1>1, <1>6, <2>2, HeldFits
<1>8. ASSUME EndPrefix PROVE Move
  <2>1. frame.point = "operand"
    BY <1>8 DEF EndPrefix, At
  <2>2. CASE returned # 0 /\ ReturnNode(context, "Unary", Extended(StartSpan, returned), Held)
    BY <1>1, <1>2, <1>3, <1>4, <1>7, <2>1, <2>2, MoveHeld
  <2>3. CASE returned = 0 /\ Return(context, 0)
    <3>1. context.had_error
      BY <1>1, <2>1, <2>3, AnswerKind DEF Owing
    <3>2. QED
      BY <1>4, <2>3, <3>1 DEF Move, GivesUp
  <2>4. QED
    BY <1>8, <2>2, <2>3 DEF EndPrefix
<1>9. ASSUME EndPostfix PROVE Move
  <2>1. frame.point = "primary"
    BY <1>9 DEF EndPostfix, At
  <2>2. CASE ReturnNode(Consumed(context), "Unary",
                  ExtendSpan(nodes[returned].span, TokenSpan(context.position)), Held)
    BY <1>1, <1>2, <1>3, <1>4, <1>7, <2>1, <2>2, MoveHeld
  <2>3. CASE Return(context, returned)
    <3>1. returned # 0 \/ context.had_error
      BY <1>1, <2>1, AnswerKind DEF Owing
    <3>2. QED
      BY <1>1, <1>2, <1>3, <1>4, <1>6, <2>1, <2>3, <3>1, MoveHand
  <2>4. QED
    BY <1>9, <2>2, <2>3 DEF EndPostfix
<1>10. QED
  BY <1>1, <1>5, <1>8, <1>9

(* Primary expressions. *)
LEMMA PrimaryMoves ==
  ASSUME IInv, BuiltInv, ParsePrimary \/ InnerParsed \/ EndMatch
  PROVE  Running /\ Move
<1>1. Running /\ frame.routine = "Primary"
  BY DEF ParsePrimary, InnerParsed, EndMatch, At
<1>2. /\ "Primary" \in Expressing /\ "Assignment" \in Called
      /\ "Primary" \notin Beginning /\ ~At("Block", "statement")
  BY <1>1, HeldOnce DEF Expressing, Beginning, Taking, Named, Called
<1>3. /\ Shape("Primary", "start") = Leaf
      /\ \A point \in {"inner", "scrutinee"} : Shape("Primary", point) = Leaf
      /\ Shape("Primary", "postfix") = Only(<<Expressions>>)
      /\ Awaited("Primary", "start") = {}
      /\ \A point \in {"inner", "scrutinee"} : Awaited("Primary", point) = Expressions
      /\ Results("Primary") = Expressions /\ Results("Assignment") = Expressions
      /\ \A kind \in {"LiteralExpression", "IdentifierExpression", "Parenthesized", "Match"} :
           kind \in Expressions
      /\ \A kind \in {"LiteralExpression", "IdentifierExpression"} : RolesOf(kind) = Leaf
      /\ \A kind \in {"Parenthesized", "Match"} : RolesOf(kind) = Only(<<Expressions>>)
      /\ Free("postfix")
  <2>1. /\ \A kind \in {"LiteralExpression", "IdentifierExpression"} : RolesOf(kind) = Leaf
        /\ \A kind \in {"Parenthesized", "Match"} : RolesOf(kind) = Only(<<Expressions>>)
    BY RolesTable
  <2>2. /\ \A kind \in {"LiteralExpression", "IdentifierExpression", "Parenthesized", "Match"} :
             kind \in Expressions
        /\ Free("postfix") /\ "Assignment" \in Expressing
    BY DEF Expressions, Free, Expressing
  <2>3. /\ Awaited("Primary", "start") = {}
        /\ \A point \in {"inner", "scrutinee"} : Awaited("Primary", point) = Expressions
    BY AwaitedTable
  <2>4. QED
    BY <1>2, <2>1, <2>2, <2>3, ExpressionShapes, ResultsTable
<1>4. /\ Onto(context) /\ Onto(Consumed(context)) /\ \A c : Begun(c)
      /\ Onto(Reported(context)) /\ Reported(context).had_error
      /\ Onto(ExpectedOrRecovered(context, ")"))
  BY <1>1, <1>2, OntoFacts DEF Begun
<1>5. ASSUME ParsePrimary PROVE Move
  <2>1. frame.point = "start"
    BY <1>5 DEF ParsePrimary, At
  <2>2. /\ Fits(nodes, ListOf({"Attribute"}), frame.parts) /\ Fits(nodes, Leaf, <<>>)
        /\ Fits(nodes, Leaf, frame.parts) /\ returned = 0
    BY <1>1, <1>2, <1>3, <2>1, StartFits, FitsNone, AnswerKind
  <2>3. frame.parts = <<>>
    BY <1>1, <2>2, FewParts
  <2>4. CASE ReturnNode(Consumed(context), "LiteralExpression", StartSpan, <<>>)
    BY <1>1, <1>3, <1>4, <2>1, <2>2, <2>4, MoveNone
  <2>5. CASE ContinueWith("postfix", Consumed(context),
                    NewNode(Consumed(context), "IdentifierExpression", StartSpan, <<>>),
                    <<Fresh>>)
    BY <1>1, <1>2, <1>3, <1>4, <2>2, <2>3, <2>5, MoveWrap
  <2>6. CASE Invoke("Assignment", "inner", Consumed(context), <<>>)
    BY <1>1, <1>2, <1>3, <1>4, <2>1, <2>2, <2>6, MoveNone
  <2>7. CASE Invoke("Assignment", "scrutinee", Consumed(context), <<>>)
    BY <1>1, <1>2, <1>3, <1>4, <2>1, <2>2, <2>7, MoveNone
  <2>8. CASE Return(Reported(context), 0)
    BY <1>4, <2>8 DEF Move, GivesUp
  <2>9. QED
    BY <1>5, <2>4, <2>5, <2>6, <2>7, <2>8 DEF ParsePrimary
<1>6. frame.point \in {"inner", "scrutinee"} => Fits(nodes, Only(<<Expressions>>), Held)
  <2>1. SUFFICES ASSUME frame.point \in {"inner", "scrutinee"}
                 PROVE  Fits(nodes, Only(<<Expressions>>), Held)
    OBVIOUS
  <2>2. Awaited(frame.routine, frame.point) = Expressions /\ Fits(nodes, Leaf, frame.parts)
    BY <1>1, <1>3, <2>1, AnswerKind
  <2>3. QED
    BY <1>1, <2>2, HeldFits
<1>7. ASSUME InnerParsed PROVE Move
  <2> DEFINE c == ExpectedOrRecovered(context, ")")
  <2>1. frame.point = "inner"
    BY <1>7 DEF InnerParsed, At
  <2>2. Onto(c)
    BY <1>4
  <2>3. CASE returned = 0 /\ Return(c, 0)
    <3>1. context.had_error
      BY <1>1, <2>1, <2>3, AnswerKind DEF Owing
    <3>2. c.had_error
      BY <2>2, <3>1 DEF Onto, Lasts
    <3>3. QED
      BY <2>2, <2>3, <3>2 DEF Move, GivesUp
  <2>4. CASE ContinueWith("postfix", c,
                    NewNode(c, "Parenthesized", nodes[returned].span, Held), <<Fresh>>)
    <3> HIDE DEF c
    <3>1. QED
      BY <1>1, <1>2, <1>3, <1>6, <2>1, <2>2, <2>4, MoveWrap
  <2>5. QED
    BY <1>7, <2>3, <2>4 DEF InnerParsed
<1>8. ASSUME EndMatch PROVE Move
  <2>1. frame.point = "scrutinee" /\ ReturnNode(context, "Match", SpanOf(returned, StartSpan), Held)
    BY <1>8 DEF EndMatch, At
  <2>2. QED
    BY <1>1, <1>2, <1>3, <1>4, <1>6, <2>1, MoveHeld
<1>9. QED
  BY <1>1, <1>5, <1>7, <1>8

(* What follows them. *)
LEMMA PostfixMoves ==
  ASSUME IInv, BuiltInv, ParsePostfix \/ ArgumentParsed \/ EndCall
  PROVE  Running /\ Move
<1>1. Running /\ frame.routine = "Primary"
  BY DEF ParsePostfix, ArgumentParsed, EndCall, At
<1>2. /\ "Primary" \in Expressing /\ "Assignment" \in Called
      /\ "Primary" \notin Beginning /\ ~At("Block", "statement")
  BY <1>1, HeldOnce DEF Expressing, Beginning, Taking, Named, Called
<1>3. /\ Shape("Primary", "postfix") = Only(<<Expressions>>)
      /\ \A point \in {"argument", "call"} :
           Shape("Primary", point) = Roles(<<Expressions>>, Expressions, <<>>)
      /\ \A point \in {"postfix", "call"} : Awaited("Primary", point) = {}
      /\ Awaited("Primary", "argument") = Expressions
      /\ Results("Primary") = Expressions /\ Results("Assignment") = Expressions
      /\ "Call" \in Expressions /\ "MemberAccess" \in Expressions
      /\ RolesOf("Call") = Roles(<<Expressions>>, Expressions, <<>>)
      /\ RolesOf("MemberAccess") = Only(<<Expressions>>)
      /\ Free("postfix") /\ Free("call")
  <2>1. RolesOf("Call") = Roles(<<Expressions>>, Expressions, <<>>)
        /\ RolesOf("MemberAccess") = Only(<<Expressions>>)
    BY RolesTable
  <2>2. /\ "Call" \in Expressions /\ "MemberAccess" \in Expressions
        /\ Free("postfix") /\ Free("call") /\ "Assignment" \in Expressing
    BY DEF Expressions, Free, Expressing
  <2>3. /\ \A point \in {"postfix", "call"} : Awaited("Primary", point) = {}
        /\ Awaited("Primary", "argument") = Expressions
    BY AwaitedTable
  <2>4. QED
    BY <1>2, <2>1, <2>2, <2>3, ExpressionShapes, ResultsTable
<1>4. /\ Onto(context) /\ Onto(Consumed(context)) /\ \A c : Begun(c)
      /\ Onto(Reported(Consumed(context))) /\ Onto(Consumed(Consumed(context)))
      /\ Onto(ExpectedOrRecovered(context, ")"))
  BY <1>1, <1>2, OntoFacts, OntoMore DEF Begun
<1>5. ASSUME ParsePostfix PROVE Move
  <2> DEFINE c == Consumed(context)
  <2>1. frame.point = "postfix"
    BY <1>5 DEF ParsePostfix, At
  <2>2. /\ Fits(nodes, Only(<<Expressions>>), frame.parts) /\ returned = 0
        /\ frame.parts \in Seq(Nat)
    BY <1>1, <1>3, <2>1, AnswerKind
  <2>3. Fits(nodes, Roles(<<Expressions>>, Expressions, <<>>), frame.parts)
    BY <2>2, FitsAlso
  <2>4. frame.parts[1] # 0
    <3>1. frame.parts[1] \in 1..Len(nodes)
      BY <1>1, <2>1, FirstPart, FrameFacts DEF Is
    <3>2. QED
      BY <3>1
  <2>5. Onto(c) /\ Onto(Consumed(c)) /\ Onto(Reported(c))
    BY <1>4
  <2>6. CASE Continue("call", c, frame.parts)
    BY <1>1, <1>3, <1>4, <2>2, <2>3, <2>5, <2>6, MoveParts
  <2>7. CASE Invoke("Assignment", "argument", c, frame.parts)
    BY <1>1, <1>2, <1>3, <1>4, <2>2, <2>3, <2>5, <2>7, MoveParts
  <2>8. CASE Return(Reported(c), frame.parts[1])
    BY <1>1, <1>2, <2>2, <2>4, <2>5, <2>8, MoveHand
  <2>9. CASE ContinueWith("postfix", Consumed(c),
                    NewNode(Consumed(c), "MemberAccess",
                            ExtendSpan(nodes[frame.parts[1]].span, TokenSpan(c.position)),
                            frame.parts), <<Fresh>>)
    BY <1>1, <1>2, <1>3, <2>2, <2>5, <2>9, MoveWrap
  <2>10. CASE Return(context, frame.parts[1])
    BY <1>1, <1>2, <1>4, <2>2, <2>4, <2>10, MoveHand
  <2>11. QED
    BY <1>5, <2>6, <2>7, <2>8, <2>9, <2>10 DEF ParsePostfix
<1>6. ASSUME ArgumentParsed PROVE Move
  <2>1. frame.point = "argument"
    BY <1>6 DEF ArgumentParsed, At
  <2>2. Fits(nodes, Roles(<<Expressions>>, Expressions, <<>>), frame.parts)
    BY <1>1, <1>3, <2>1, AnswerKind
  <2>3. CASE returned # 0
    <3>1. Expressions # {}
      BY DEF Expressions
    <3>2. Fits(nodes, Roles(<<Expressions>>, Expressions, <<>>), Held) /\ Kept = Held
      BY <1>1, <1>3, <2>1, <2>2, <2>3, <3>1, HeldFits DEF Kept
    <3>3. CASE Invoke("Assignment", "argument", Consumed(context), Held)
      BY <1>1, <1>2, <1>3, <1>4, <2>1, <3>2, <3>3, MoveHeld
    <3>4. CASE Continue("call", context, Held)
      BY <1>1, <1>2, <1>3, <1>4, <2>1, <3>2, <3>4, MoveHeld
    <3>5. QED
      BY <1>6, <3>2, <3>3, <3>4 DEF ArgumentParsed
  <2>4. CASE returned = 0
    <3>1. Kept = frame.parts
      BY <2>4 DEF Kept
    <3>2. CASE Invoke("Assignment", "argument", Consumed(context), frame.parts)
      BY <1>1, <1>2, <1>3, <1>4, <2>2, <2>4, <3>2, MoveParts
    <3>3. CASE Continue("call", context, frame.parts)
      BY <1>1, <1>2, <1>3, <1>4, <2>2, <2>4, <3>3, MoveParts
    <3>4. QED
      BY <1>6, <3>1, <3>2, <3>3 DEF ArgumentParsed
  <2>5. QED
    BY <2>3, <2>4
<1>7. ASSUME EndCall PROVE Move
  <2> DEFINE c == ExpectedOrRecovered(context, ")")
             span == ExtendSpan(nodes[frame.parts[1]].span, nodes[Last(frame.parts)].span)
  <2>1. /\ frame.point = "call"
        /\ ContinueWith("postfix", c, NewNode(c, "Call", span, frame.parts), <<Fresh>>)
    BY <1>7 DEF EndCall, At
  <2>2. returned = 0 /\ Fits(nodes, Roles(<<Expressions>>, Expressions, <<>>), frame.parts)
    BY <1>1, <1>3, <2>1, AnswerKind
  <2>3. Onto(c)
    BY <1>4
  <2> HIDE DEF c, span
  <2>4. QED
    BY <1>1, <1>2, <1>3, <2>1, <2>2, <2>3, MoveWrap
<1>8. QED
  BY <1>1, <1>5, <1>6, <1>7

(* Statements that begin. *)
LEMMA StatementsBegin ==
  ASSUME IInv, BuiltInv,
         \/ ParseStatement \/ \E routine \in {"If", "While"} : ParseCondition(routine)
         \/ ParseFor \/ ParseReturn \/ ParseVariable
         \/ ParseMatchStatement \/ ParseExpressionStatement
  PROVE  Running /\ Move
<1>1. /\ Running /\ frame.point = "start"
      /\ frame.routine \in {"Statement", "If", "While", "For", "Return", "Variable",
                            "MatchStatement", "ExpressionStatement"}
  BY DEF ParseStatement, ParseCondition, ParseFor, ParseReturn, ParseVariable,
         ParseMatchStatement, ParseExpressionStatement, At
<1>2. /\ frame.routine \in Stating
      /\ {"If", "While", "For", "Return", "Variable"} \subseteq Taking
      /\ "MatchStatement" \notin Beginning /\ "ExpressionStatement" \notin Beginning
      /\ "Assignment" \in Called /\ "Identifier" \in Called
  BY <1>1 DEF Stating, Beginning, Taking, Named, Called, Expressing
<1>3. /\ Fits(nodes, ListOf({"Attribute"}), frame.parts) /\ Fits(nodes, Leaf, <<>>)
      /\ frame.routine \in Taking =>
           /\ Begun(Consumed(context)) /\ Begun(Matched(Consumed(context), "mut"))
           /\ Onto(Matched(Consumed(context), "mut"))
      /\ frame.routine \notin Beginning => Begun(context)
      /\ Onto(context) /\ Onto(Consumed(context))
  BY <1>1, <1>2, StartFits, FitsNone, OntoFacts
<1>4. /\ Shape(frame.routine, "start") = Leaf
      /\ \A routine \in {"If", "While"} : Shape(routine, "condition") = Leaf
      /\ Shape("For", "iterator") = Leaf /\ Shape("Return", "value") = Leaf
      /\ Shape("Variable", "name") = Leaf
      /\ \A routine \in {"MatchStatement", "ExpressionStatement"} :
           Shape(routine, "expression") = Leaf
  BY <1>2, StatementShapes
<1>5. \A routine : /\ Awaited(routine, "condition") = Expressions
                   /\ Awaited(routine, "value") = Expressions
                   /\ Awaited(routine, "expression") = Expressions
                   /\ Awaited(routine, "iterator") = Names /\ Awaited(routine, "name") = Names
  BY AwaitedTable
<1>6. Results("Assignment") = Expressions /\ Results("Identifier") = Names
  BY ResultsTable DEF Expressing
<1>7. ASSUME ParseStatement PROVE Move
  <2> DEFINE routine == CASE Peek(context) = "let" -> "Variable"
                          [] Peek(context) = "return" -> "Return"
                          [] Peek(context) = "if" -> "If"
                          [] Peek(context) = "while" -> "While"
                          [] Peek(context) = "for" -> "For"
                          [] Peek(context) = "{" -> "Block"
                          [] Peek(context) = "match" -> "MatchStatement"
                          [] OTHER -> "ExpressionStatement"
  <2>1. frame.routine = "Statement" /\ Become(routine, context)
    BY <1>7 DEF ParseStatement, At
  <2>2. routine \in {"Variable", "Return", "If", "While", "For", "Block", "MatchStatement",
                     "ExpressionStatement"}
    OBVIOUS
  <2> HIDE DEF routine
  <2>3. /\ routine \notin Expressing
        /\ routine \in Stating \/ routine = "Block"
        /\ Results("Statement") = Statements /\ "Block" \in Statements
        /\ Results("Block") = {"Block"}
    <3>1. "Statement" \in Stating /\ "Block" \in Statements
      BY DEF Stating, Statements
    <3>2. QED
      BY <2>2, <3>1, ResultsTable DEF Expressing, Stating
  <2>4. Results(routine) \subseteq Results(frame.routine) /\ Shape(routine, "start") = Leaf
    BY <2>1, <2>3, ResultsTable, StatementShapes
  <2>5. /\ Fits(nodes, Leaf, frame.parts) /\ returned = 0
    <3>1. Awaited("Statement", "start") = {}
      BY AwaitedTable
    <3>2. QED
      BY <1>1, <1>4, <2>1, <3>1, AnswerKind
  <2>6. Moved(context, frame.parts)
    BY <1>1, <1>3, <2>5, PartsMoved
  <2>7. Becomes
    BY <1>3, <2>1, <2>3, <2>4, <2>5, <2>6 DEF Becomes
  <2>8. QED
    BY <2>7 DEF Move
<1>8. ASSUME NEW routine \in {"If", "While"}, ParseCondition(routine) PROVE Move
  <2>1. frame.routine = routine /\ Invoke("Assignment", "condition", Consumed(context), <<>>)
    BY <1>8 DEF ParseCondition, At
  <2>2. QED
    BY <1>1, <1>2, <1>3, <1>4, <1>5, <1>6, <2>1, MoveNone
<1>9. ASSUME ParseFor PROVE Move
  <2>1. frame.routine = "For" /\ Invoke("Identifier", "iterator", Consumed(context), <<>>)
    BY <1>9 DEF ParseFor, At
  <2>2. QED
    BY <1>1, <1>2, <1>3, <1>4, <1>5, <1>6, <2>1, MoveNone
<1>10. ASSUME ParseReturn PROVE Move
  <2>1. /\ frame.routine = "Return"
        /\ \/ Continue("value", Consumed(context), <<>>)
           \/ Invoke("Assignment", "value", Consumed(context), <<>>)
    BY <1>10 DEF ParseReturn, At
  <2>2. CASE Continue("value", Consumed(context), <<>>)
    BY <1>1, <1>2, <1>3, <1>4, <2>1, <2>2, MoveNone DEF Free
  <2>3. CASE Invoke("Assignment", "value", Consumed(context), <<>>)
    BY <1>1, <1>2, <1>3, <1>4, <1>5, <1>6, <2>1, <2>3, MoveNone
  <2>4. QED
    BY <2>1, <2>2, <2>3
<1>11. ASSUME ParseVariable PROVE Move
  <2> DEFINE c == Matched(Consumed(context), "mut")
  <2>1. frame.routine = "Variable" /\ Invoke("Identifier", "name", c, <<>>)
    BY <1>11 DEF ParseVariable, At
  <2>2. Onto(c) /\ Begun(c)
    BY <1>2, <1>3, <2>1
  <2> HIDE DEF c
  <2>3. QED
    BY <1>1, <1>2, <1>3, <1>4, <1>5, <1>6, <2>1, <2>2, MoveNone
<1>12. ASSUME ParseMatchStatement \/ ParseExpressionStatement PROVE Move
  <2>1. /\ frame.routine \in {"MatchStatement", "ExpressionStatement"}
        /\ Invoke("Assignment", "expression", context, <<>>)
    BY <1>12 DEF ParseMatchStatement, ParseExpressionStatement, At
  <2>2. QED
    BY <1>1, <1>2, <1>3, <1>4, <1>5, <1>6, <2>1, MoveNone
<1>13. QED
  BY <1>1, <1>7, <1>8, <1>9, <1>10, <1>11, <1>12

(* Blocks. *)
LEMMA BlockMoves ==
  ASSUME IInv, BuiltInv, ParseBlock \/ NextStatement \/ StatementParsed
  PROVE  Running /\ Move
<1>1. Running /\ frame.routine = "Block"
  BY DEF ParseBlock, NextStatement, StatementParsed, At
<1>2. /\ Shape("Block", "start") = Leaf
      /\ \A point \in {"statements", "statement"} : Shape("Block", point) = ListOf(Statements)
      /\ Awaited("Block", "statements") = {} /\ Awaited("Block", "statement") = Statements
      /\ Results("Block") = {"Block"} /\ Results("Statement") = Statements
      /\ RolesOf("Block") = ListOf(Statements)
      /\ "Statement" \in Called /\ Free("statements")
  <2>1. RolesOf("Block") = ListOf(Statements)
    BY RolesTable
  <2>2. "Statement" \in Stating /\ "Statement" \in Called /\ Free("statements")
    BY DEF Stating, Called, Free
  <2>3. Awaited("Block", "statements") = {} /\ Awaited("Block", "statement") = Statements
    BY AwaitedTable
  <2>4. QED
    BY <2>1, <2>2, <2>3, StatementShapes, ResultsTable
<1>3. /\ Onto(context) /\ Onto(Consumed(context))
      /\ Onto(Recovered(Reported(context))) /\ Recovered(Reported(context)).had_error
      /\ Onto(SynchronizedStatement(context)) /\ Onto(ExpectedOrRecovered(context, "}"))
  BY OntoFacts
<1>4. ASSUME ParseBlock PROVE Move
  <2>1. frame.point = "start"
    BY <1>4 DEF ParseBlock, At
  <2>2. Fits(nodes, ListOf({"Attribute"}), frame.parts) /\ Fits(nodes, ListOf(Statements), <<>>)
    BY <1>1, <2>1, StartFits, FitsNone DEF ListOf
  <2>3. CASE Peek(context) = "{" /\ Continue("statements", Consumed(context), <<>>)
    <3>1. context.position < Consumed(context).position /\ context.position \in Nat
      BY <2>3, OntoNext
    <3>2. frame.start <= context.position /\ frame.start \in Nat
      BY <1>1, WorkFacts DEF FrameSound
    <3>3. Consumed(context).position \in Nat
      BY <1>3 DEF Onto, Lasts, ParserState
    <3>4. frame.start < Consumed(context).position
      BY <3>1, <3>2, <3>3
    <3>5. Begun(Consumed(context))
      BY <3>4 DEF Begun
    <3>6. QED
      BY <1>1, <1>2, <1>3, <2>1, <2>2, <2>3, <3>5, MoveNone
  <2>4. CASE Return(Recovered(Reported(context)), 0)
    BY <1>1, <1>3, <2>1, <2>2, <2>4, MoveNone
  <2>5. QED
    BY <1>4, <2>3, <2>4 DEF ParseBlock
<1>5. ASSUME NextStatement PROVE Move
  <2>1. frame.point = "statements"
    BY <1>5 DEF NextStatement, At
  <2>2. /\ returned = 0 /\ Fits(nodes, ListOf(Statements), frame.parts)
        /\ \A c : Onto(c) => Begun(c)
    BY <1>1, <1>2, <2>1, AnswerKind, BegunStays
  <2>3. CASE ReturnClosed("}", "Block", StartSpan, frame.parts)
    BY <1>1, <1>2, <1>3, <2>2, <2>3, MoveParts DEF ReturnClosed
  <2>4. CASE Invoke("Statement", "statement", context, frame.parts)
    BY <1>1, <1>2, <1>3, <2>2, <2>4, MoveParts
  <2>5. QED
    BY <1>5, <2>3, <2>4 DEF NextStatement
<1>6. ASSUME StatementParsed PROVE Move
  <2>1. frame.point = "statement"
    BY <1>6 DEF StatementParsed, At
  <2>2. /\ Fits(nodes, ListOf(Statements), frame.parts)
        /\ \A c : Onto(c) => Begun(c)
    BY <1>1, <1>2, <2>1, AnswerKind, BegunStays
  <2>3. CASE returned = 0 /\ Continue("statements", SynchronizedStatement(context), frame.parts)
    BY <1>1, <1>2, <1>3, <2>2, <2>3, MoveParts
  <2>4. CASE returned \in Indices(frame.parts) /\ Continue("statements", context, frame.parts)
    <3>1. frame.parts # Held /\ frame.parts \in Taken
      <4>1. Len(Held) = Len(frame.parts) + 1 /\ Len(frame.parts) \in Nat
        BY <1>1, HeldIs
      <4>2. QED
        BY <4>1 DEF Taken
    <3>2. Moved(context, frame.parts)
      BY <1>3, <2>4, <3>1 DEF Moved, Keeping, Single
    <3>3. QED
      BY <1>1, <1>2, <1>3, <2>2, <2>4, <3>1, <3>2, MoveTaken
  <2>5. CASE returned \notin Indices(frame.parts) /\ Continue("statements", context, Held)
    <3>1. Moved(context, Held) /\ Held \in Taken
      BY <1>1, <1>3, <2>5, HeldAll DEF Moved, Single, Taken
    <3>2. Fits(nodes, ListOf(Statements), Held)
      <4>1. Statements # {} /\ Statements \subseteq Statements
        BY DEF Statements
      <4>2. QED
        BY <1>1, <1>2, <2>1, <2>2, <4>1, HeldFits
    <3>3. QED
      BY <1>1, <1>2, <1>3, <2>2, <2>5, <3>1, <3>2, MoveTaken
  <2>6. QED
    BY <1>6, <2>3, <2>4, <2>5 DEF StatementParsed
<1>7. QED
  BY <1>1, <1>4, <1>5, <1>6

(* Branches and loops. *)
LEMMA BranchMoves ==
  ASSUME IInv, BuiltInv,
         \/ \E routine \in {"If", "While"} : ConditionParsed(routine)
         \/ ThenParsed \/ EndIf \/ EndWhile \/ IteratorParsed \/ IterableParsed \/ EndFor
  PROVE  Running /\ Move
<1>1. /\ Running /\ frame.routine \in {"If", "While", "For"}
      /\ frame.point # "start" /\ ~At("Block", "statement")
  BY DEF ConditionParsed, ThenParsed, EndIf, EndWhile, IteratorParsed, IterableParsed, EndFor, At
<1>2. /\ Onto(context) /\ Onto(Consumed(context)) /\ Onto(ExpectedOrRecovered(context, "in"))
      /\ \A c : Onto(c) => Begun(c)
  BY <1>1, OntoFacts, BegunStays
<1>3. /\ \A routine \in {"If", "While"} :
           Shape(routine, "condition") = Leaf /\ Shape(routine, "body") = Only(<<Expressions>>)
      /\ Shape("If", "else") = Only(<<Expressions, Statements>>)
      /\ Shape("For", "iterator") = Leaf /\ Shape("For", "iterable") = Only(<<Names>>)
      /\ Shape("For", "body") = Only(<<Names, Expressions>>)
  BY StatementShapes
<1>4. /\ \A routine : /\ Awaited(routine, "condition") = Expressions
                      /\ Awaited(routine, "iterable") = Expressions
                      /\ Awaited(routine, "iterator") = Names
      /\ \A routine \in {"If", "While", "For"} : Awaited(routine, "body") = Statements
      /\ Awaited("If", "else") = Statements
  BY AwaitedTable
<1>5. /\ \A routine \in {"If", "While", "For"} : routine \in Results(routine)
      /\ Results("Statement") = Statements /\ Results("Assignment") = Expressions
      /\ "Statement" \in Called /\ "Assignment" \in Called
      /\ RolesOf("If") = Only(<<Expressions, Statements, Statements>>)
      /\ RolesOf("While") = Only(<<Expressions, Statements>>)
      /\ RolesOf("For") = Only(<<Names, Expressions, Statements>>)
  <2>1. /\ \A routine \in {"If", "While", "For", "Statement"} : routine \in Stating
        /\ \A routine \in {"If", "While", "For"} : routine \in Statements
        /\ "Assignment" \in Expressing
        /\ "Statement" \in Called /\ "Assignment" \in Called
    BY DEF Stating, Expressing, Statements, Called
  <2>2. QED
    BY <2>1, ResultsTable, RolesTable
<1>6. Fits(nodes, Shape(frame.routine, frame.point), frame.parts)
  BY <1>1, AnswerKind
<1>7. ASSUME NEW routine \in {"If", "While"}, ConditionParsed(routine) PROVE Move
  <2>1. /\ frame.routine = routine /\ frame.point = "condition"
        /\ Invoke("Statement", "body", context, Held)
    BY <1>7 DEF ConditionParsed, At
  <2>2. Fits(nodes, Only(<<Expressions>>), Held)
    <3>1. Fits(nodes, Leaf, frame.parts) /\ Awaited(frame.routine, frame.point) = Expressions
      BY <1>3, <1>4, <1>6, <2>1
    <3>2. QED
      BY <1>1, <3>1, HeldFits
  <2>3. QED
    BY <1>1, <1>2, <1>3, <1>4, <1>5, <2>1, <2>2, MoveHeld
<1>8. frame.routine \in {"If", "While"} /\ frame.point = "body" =>
        Fits(nodes, Only(<<Expressions, Statements>>), Held)
  <2>1. SUFFICES ASSUME frame.routine \in {"If", "While"}, frame.point = "body"
                 PROVE  Fits(nodes, Only(<<Expressions, Statements>>), Held)
    OBVIOUS
  <2>2. /\ Fits(nodes, Only(<<Expressions>>), frame.parts)
        /\ Awaited(frame.routine, frame.point) = Statements
    BY <1>3, <1>4, <1>6, <2>1
  <2>3. QED
    BY <1>1, <2>2, HeldFits
<1>9. ASSUME ThenParsed PROVE Move
  <2>1. frame.routine = "If" /\ frame.point = "body"
    BY <1>9 DEF ThenParsed, At
  <2>2. CASE Peek(context) = "else" /\ Invoke("Statement", "else", Consumed(context), Held)
    <3> DEFINE c == Consumed(context)
               callee == Frame("Statement", c)
    <3>1. Moved(c, Held) /\ Held \in Taken /\ Begun(c)
      BY <1>1, <1>2, HeldAll, HeldOnce DEF Moved, Taken
    <3>2. InvokeFrame(callee, "else", c, Held) /\ Begins(callee, "Statement", c)
      BY <2>2, FrameBegins DEF Invoke
    <3>3. Held[2] # 0 => nodes[Held[2]].to < c.position
      <4>1. Held[2] = returned
        <5>1. Len(frame.parts) = 1 /\ Held[Len(frame.parts) + 1] = returned
          <6>1. Fits(nodes, Only(<<Expressions>>), frame.parts)
            BY <1>3, <1>6, <2>1
          <6>2. QED
            BY <1>1, <6>1, FewParts, HeldIs
        <5>2. QED
          BY <5>1
      <4>2. returned # 0 => nodes[returned].to <= context.position
        BY <1>1, WorkFacts DEF AnswerSound
      <4>3. context.position < c.position /\ context.position \in Nat /\ c.position \in Nat
        BY <1>2, <2>2, OntoNext DEF Onto, Lasts, ParserState
      <4>4. returned # 0 => nodes[returned].to \in Nat
        <5>1. returned # 0 => nodes[returned] \in Node
          BY <1>1, WorkFacts
        <5>2. QED
          BY <5>1 DEF Node
      <4>5. QED
        BY <4>1, <4>2, <4>3, <4>4
    <3>4. Fits(nodes, Shape(frame.routine, "else"), Held)
      BY <1>3, <1>8, <2>1
    <3>5. Results("Statement") \subseteq Awaited(frame.routine, "else")
      BY <1>4, <1>5, <2>1
    <3> HIDE DEF c, callee
    <3>6. Calls
      BY <1>5, <3>1, <3>2, <3>3, <3>4, <3>5 DEF Calls
    <3>7. QED
      BY <3>6 DEF Move
  <2>3. CASE Continue("else", context, Held)
    BY <1>1, <1>2, <1>3, <1>8, <2>1, <2>3, MoveHeld DEF Free
  <2>4. QED
    BY <1>9, <2>2, <2>3 DEF ThenParsed
<1>10. ASSUME EndIf PROVE Move
  <2> DEFINE span == Extended(Extended(Extended(StartSpan, Held[1]), Held[2]), Held[3])
  <2>1. /\ frame.routine = "If" /\ frame.point = "else"
        /\ ReturnNode(context, "If", span, Held)
    BY <1>10 DEF EndIf, At
  <2> HIDE DEF span
  <2>2. /\ Fits(nodes, Only(<<Expressions, Statements>>), frame.parts)
        /\ Awaited(frame.routine, frame.point) = Statements
    BY <1>3, <1>4, <1>6, <2>1
  <2>3. Fits(nodes, RolesOf("If"), Held)
    BY <1>1, <1>5, <2>2, HeldFits
  <2>4. QED
    BY <1>1, <1>2, <1>5, <2>1, <2>3, MoveHeld
<1>11. ASSUME EndWhile PROVE Move
  <2> DEFINE span == Extended(Extended(StartSpan, Held[1]), Held[2])
  <2>1. /\ frame.routine = "While" /\ frame.point = "body"
        /\ ReturnNode(context, "While", span, Held)
    BY <1>11 DEF EndWhile, At
  <2> HIDE DEF span
  <2>2. QED
    BY <1>1, <1>2, <1>5, <1>8, <2>1, MoveHeld
<1>12. ASSUME IteratorParsed PROVE Move
  <2> DEFINE c == ExpectedOrRecovered(context, "in")
  <2>1. /\ frame.routine = "For" /\ frame.point = "iterator"
        /\ Invoke("Assignment", "iterable", c, Held)
    BY <1>12 DEF IteratorParsed, At
  <2>2. Fits(nodes, Leaf, frame.parts) /\ Awaited(frame.routine, frame.point) = Names
    BY <1>3, <1>4, <1>6, <2>1
  <2>3. Fits(nodes, Only(<<Names>>), Held) /\ Onto(c)
    BY <1>1, <1>2, <2>2, HeldFits
  <2> HIDE DEF c
  <2>4. QED
    BY <1>1, <1>3, <1>4, <1>5, <2>1, <2>3, MoveHeld
<1>13. ASSUME IterableParsed PROVE Move
  <2>1. /\ frame.routine = "For" /\ frame.point = "iterable"
        /\ Invoke("Statement", "body", context, Held)
    BY <1>13 DEF IterableParsed, At
  <2>2. /\ Fits(nodes, Only(<<Names>>), frame.parts)
        /\ Awaited(frame.routine, frame.point) = Expressions
    BY <1>3, <1>4, <1>6, <2>1
  <2>3. Fits(nodes, Only(<<Names, Expressions>>), Held)
    BY <1>1, <2>2, HeldFits
  <2>4. QED
    BY <1>1, <1>2, <1>3, <1>4, <1>5, <2>1, <2>3, MoveHeld
<1>14. ASSUME EndFor PROVE Move
  <2>1. /\ frame.routine = "For" /\ frame.point = "body"
        /\ ReturnNode(context, "For", Extended(StartSpan, returned), Held)
    BY <1>14 DEF EndFor, At
  <2>2. /\ Fits(nodes, Only(<<Names, Expressions>>), frame.parts)
        /\ Awaited(frame.routine, frame.point) = Statements
    BY <1>3, <1>4, <1>6, <2>1
  <2>3. Fits(nodes, RolesOf("For"), Held)
    BY <1>1, <1>5, <2>2, HeldFits
  <2>4. QED
    BY <1>1, <1>2, <1>5, <2>1, <2>3, MoveHeld
<1>15. QED
  BY <1>1, <1>7, <1>9, <1>10, <1>11, <1>12, <1>13, <1>14

(* Variables, returns and expression statements. *)
LEMMA SimpleStatementMoves ==
  ASSUME IInv, BuiltInv,
         \/ EndReturn \/ VariableNamed \/ VariableTyped \/ EndVariable
         \/ EndMatchStatement \/ EndExpressionStatement
  PROVE  Running /\ Move
<1>1. /\ Running /\ ~At("Block", "statement") /\ frame.point # "start"
      /\ frame.routine \in {"Return", "Variable", "MatchStatement", "ExpressionStatement"}
  BY DEF EndReturn, VariableNamed, VariableTyped, EndVariable, EndMatchStatement,
         EndExpressionStatement, At
<1>2. /\ Onto(context) /\ Onto(Consumed(context)) /\ Onto(ExpectedOrRecovered(context, ";"))
  BY OntoFacts
<1>3. /\ Shape("Return", "value") = Leaf /\ Shape("Variable", "name") = Leaf
      /\ Shape("Variable", "type") = Only(<<Names>>)
      /\ Shape("Variable", "initializer") = Only(<<Names, Types>>)
      /\ \A routine \in {"MatchStatement", "ExpressionStatement"} :
           Shape(routine, "expression") = Leaf
  BY StatementShapes
<1>4. \A routine : /\ Awaited(routine, "value") = Expressions
                   /\ Awaited(routine, "expression") = Expressions
                   /\ Awaited(routine, "initializer") = Expressions
                   /\ Awaited(routine, "name") = Names /\ Awaited(routine, "type") = Types
  BY AwaitedTable
<1>5. /\ \A routine \in {"Return", "Variable", "MatchStatement", "ExpressionStatement"} :
           Results(routine) = Statements
      /\ \A kind \in {"Return", "Variable", "ExpressionStatement"} : kind \in Statements
      /\ Results("Type") = Types /\ Results("Assignment") = Expressions
      /\ "Type" \in Called /\ "Assignment" \in Called
      /\ \A kind \in {"ExpressionStatement", "Return"} : RolesOf(kind) = Only(<<Expressions>>)
      /\ RolesOf("Variable") = Only(<<Names, Types, Expressions>>)
      /\ Free("type") /\ Free("initializer")
  <2>1. /\ \A routine \in {"Return", "Variable", "MatchStatement", "ExpressionStatement"} :
             routine \in Stating
        /\ \A kind \in {"Return", "Variable", "ExpressionStatement"} : kind \in Statements
        /\ "Assignment" \in Expressing /\ "Type" \in Called /\ "Assignment" \in Called
        /\ Free("type") /\ Free("initializer")
    BY DEF Stating, Expressing, Statements, Called, Free
  <2>2. QED
    BY <2>1, ResultsTable, RolesTable
<1>6. Fits(nodes, Shape(frame.routine, frame.point), frame.parts)
  BY <1>1, AnswerKind
<1>7. frame.point \in {"value", "expression"} => Fits(nodes, Only(<<Expressions>>), Held)
  <2>1. SUFFICES ASSUME frame.point \in {"value", "expression"},
                        Fits(nodes, Leaf, frame.parts)
                 PROVE  Fits(nodes, Only(<<Expressions>>), Held)
    <3>1. Shape("Return", "expression") = Leaf /\ Shape("Variable", "expression") = Leaf
          /\ Shape("Variable", "value") = Leaf
          /\ \A routine \in {"MatchStatement", "ExpressionStatement"} :
               Shape(routine, "value") = Leaf
      <4>1. \A routine \in {"Return", "Variable", "MatchStatement", "ExpressionStatement"} :
              routine # "Program" /\ routine \notin Declaring /\ routine \notin Expressing
        BY DEF Declaring, Named, Expressing
      <4>2. \A routine \in {"Return", "Variable", "MatchStatement", "ExpressionStatement"} :
              \A point : Shape(routine, point) = ShapeOfStatement(routine, point)
        BY <4>1, Zenon DEF Shape
      <4>3. \A routine \in {"Return", "Variable", "MatchStatement", "ExpressionStatement"},
               point \in {"value", "expression"} :
              ShapeOfStatement(routine, point) = Leaf
        BY DEF ShapeOfStatement
      <4>4. QED
        BY <4>2, <4>3
    <3>2. QED
      BY <1>1, <1>3, <1>6, <3>1
  <2>2. Awaited(frame.routine, frame.point) = Expressions
    BY <1>4, <2>1
  <2>3. QED
    BY <1>1, <2>1, <2>2, HeldFits
<1>8. ASSUME EndReturn PROVE Move
  <2> DEFINE span == IF Peek(context) = ";"
                       THEN ExtendSpan(StartSpan, TokenSpan(context.position)) ELSE StartSpan
  <2>1. /\ frame.routine = "Return" /\ frame.point = "value"
        /\ ReturnNode(ExpectedOrRecovered(context, ";"), "Return", span, Held)
    BY <1>8 DEF EndReturn, At, ReturnClosed
  <2> HIDE DEF span
  <2>2. QED
    BY <1>1, <1>2, <1>5, <1>7, <2>1, MoveHeld
<1>9. ASSUME VariableNamed PROVE Move
  <2>1. frame.routine = "Variable" /\ frame.point = "name"
    BY <1>9 DEF VariableNamed, At
  <2>2. Fits(nodes, Only(<<Names>>), Held)
    <3>1. Fits(nodes, Leaf, frame.parts) /\ Awaited(frame.routine, frame.point) = Names
      BY <1>3, <1>4, <1>6, <2>1
    <3>2. QED
      BY <1>1, <3>1, HeldFits
  <2>3. CASE returned = 0 /\ Return(context, 0)
    <3>1. context.had_error
      BY <1>1, <2>1, <2>3, AnswerKind DEF Owing
    <3>2. QED
      BY <1>2, <2>3, <3>1 DEF Move, GivesUp
  <2>4. CASE Invoke("Type", "type", Consumed(context), Held)
    BY <1>1, <1>2, <1>3, <1>4, <1>5, <2>1, <2>2, <2>4, MoveHeld
  <2>5. CASE Continue("type", context, Held)
    BY <1>1, <1>2, <1>3, <1>5, <2>1, <2>2, <2>5, MoveHeld
  <2>6. QED
    BY <1>9, <2>3, <2>4, <2>5 DEF VariableNamed
<1>10. ASSUME VariableTyped PROVE Move
  <2>1. frame.routine = "Variable" /\ frame.point = "type"
    BY <1>10 DEF VariableTyped, At
  <2>2. Fits(nodes, Only(<<Names, Types>>), Held)
    <3>1. Fits(nodes, Only(<<Names>>), frame.parts) /\ Awaited(frame.routine, frame.point) = Types
      BY <1>3, <1>4, <1>6, <2>1
    <3>2. QED
      BY <1>1, <3>1, HeldFits
  <2>3. CASE Invoke("Assignment", "initializer", Consumed(context), Held)
    BY <1>1, <1>2, <1>3, <1>4, <1>5, <2>1, <2>2, <2>3, MoveHeld
  <2>4. CASE Continue("initializer", context, Held)
    BY <1>1, <1>2, <1>3, <1>5, <2>1, <2>2, <2>4, MoveHeld
  <2>5. QED
    BY <1>10, <2>3, <2>4 DEF VariableTyped
<1>11. ASSUME EndVariable PROVE Move
  <2> DEFINE span == IF Peek(context) = ";"
                       THEN ExtendSpan(StartSpan, TokenSpan(context.position)) ELSE StartSpan
  <2>1. /\ frame.routine = "Variable" /\ frame.point = "initializer"
        /\ ReturnNode(ExpectedOrRecovered(context, ";"), "Variable", span, Held)
    BY <1>11 DEF EndVariable, At, ReturnClosed
  <2> HIDE DEF span
  <2>2. /\ Fits(nodes, Only(<<Names, Types>>), frame.parts)
        /\ Awaited(frame.routine, frame.point) = Expressions
    BY <1>3, <1>4, <1>6, <2>1
  <2>3. Fits(nodes, RolesOf("Variable"), Held)
    BY <1>1, <1>5, <2>2, HeldFits
  <2>4. QED
    BY <1>1, <1>2, <1>5, <2>1, <2>3, MoveHeld
<1>12. ASSUME EndMatchStatement PROVE Move
  <2>1. /\ frame.routine = "MatchStatement" /\ frame.point = "expression"
        /\ ReturnNode(context, "ExpressionStatement", SpanOf(returned, StartSpan), Held)
    BY <1>12 DEF EndMatchStatement, At
  <2>2. QED
    BY <1>1, <1>2, <1>5, <1>7, <2>1, MoveHeld
<1>13. ASSUME EndExpressionStatement PROVE Move
  <2> DEFINE c == ExpectedOrRecovered(context, ";")
             token == TokenSpan(context.position)
             span == IF returned # 0 /\ Peek(context) = ";"
                       THEN ExtendSpan(nodes[returned].span, token)
                       ELSE SpanOf(returned, token)
             node == NewNode(c, "ExpressionStatement", span, <<0>>)
  <2>1. /\ frame.routine = "ExpressionStatement" /\ frame.point = "expression"
        /\ \/ /\ returned = 0 /\ nodes # <<>> /\ Last(nodes) = node
              /\ Return(c, Len(nodes))
           \/ ReturnNode(c, "ExpressionStatement", span, Held)
    BY <1>13 DEF EndExpressionStatement, At
  <2>2. /\ node.kind = "ExpressionStatement" /\ node.parts = <<0>>
        /\ node.from = frame.from /\ node.to = c.position
    BY DEF NewNode, NodeFrom
  <2>3. Onto(c)
    BY <1>2
  <2> HIDE DEF c, span, node
  <2>4. CASE returned = 0 /\ nodes # <<>> /\ Last(nodes) = node /\ Return(c, Len(nodes))
    <3>1. context.had_error
      BY <1>1, <2>1, <2>4, AnswerKind DEF Owing
    <3>2. c.had_error
      BY <2>3, <3>1 DEF Onto, Lasts
    <3>3. Repeats
      BY <2>1, <2>2, <2>3, <2>4, <3>2 DEF Repeats
    <3>4. QED
      BY <3>3 DEF Move
  <2>5. CASE ReturnNode(c, "ExpressionStatement", span, Held)
    BY <1>1, <1>5, <1>7, <2>1, <2>3, <2>5, MoveHeld
  <2>6. QED
    BY <2>1, <2>4, <2>5
<1>14. QED
  BY <1>1, <1>8, <1>9, <1>10, <1>11, <1>12, <1>13

(* Programs, the attributes of a declaration, and what it becomes. *)
LEMMA ProgramMoves ==
  ASSUME IInv, BuiltInv, ParseDeclarations \/ DeclarationParsed
  PROVE  Running /\ Move
<1>1. /\ Running /\ frame.routine = "Program" /\ frame.point \in {"declarations", "parsed"}
      /\ ~At("Block", "statement") /\ frame.point # "start"
  BY DEF ParseDeclarations, DeclarationParsed, At
<1>2. /\ Onto(context) /\ Onto(Recovered(Reported(context))) /\ Onto(Recovered(context))
      /\ \A c : Begun(c)
  BY <1>1, OntoFacts DEF Begun, Beginning, Taking, Named
<1>3. /\ \A point : Shape("Program", point) = ListOf(Declarations)
      /\ Awaited("Program", "parsed") = Declarations
      /\ Awaited("Program", "declarations") = {}
      /\ Results("Declaration") = Declarations /\ "Declaration" \in Called
      /\ RolesOf("Program") = ListOf(Declarations) /\ Free("declarations")
      /\ Declarations # {} /\ Declarations \subseteq Declarations
  BY DeclarationShapes, AwaitedTable, ResultsTable, RolesTable DEF Called, Free, Declarations
<1>4. "Program" \in Results("Program")
  <2>1. /\ "Program" \notin Declaring /\ "Program" \notin Stating /\ "Program" \notin Expressing
        /\ "Program" \notin {"Declaration", "Identifier", "Type", "Block"}
    BY DEF Declaring, Named, Stating, Expressing
  <2>2. QED
    BY <2>1 DEF Results
<1>5. Fits(nodes, ListOf(Declarations), frame.parts)
  BY <1>1, <1>3, AnswerKind
<1>6. ASSUME ParseDeclarations PROVE Move
  <2>1. frame.point = "declarations" /\ returned = 0
    BY <1>1, <1>3, <1>6, AnswerKind DEF ParseDeclarations, At
  <2>2. CASE ReturnNode(context, "Program", SpanOfAll(frame.parts), frame.parts)
    BY <1>1, <1>2, <1>3, <1>4, <1>5, <2>1, <2>2, MoveParts
  <2>3. CASE Continue("declarations", Recovered(Reported(context)), frame.parts)
    BY <1>1, <1>2, <1>3, <1>5, <2>1, <2>3, MoveParts
  <2>4. CASE Invoke("Declaration", "parsed", context, frame.parts)
    BY <1>1, <1>2, <1>3, <1>5, <2>1, <2>4, MoveParts
  <2>5. QED
    BY <1>6, <2>2, <2>3, <2>4 DEF ParseDeclarations
<1>7. ASSUME DeclarationParsed PROVE Move
  <2>1. frame.point = "parsed"
    BY <1>7 DEF DeclarationParsed, At
  <2>2. CASE returned = 0 /\ Continue("declarations", Recovered(context), frame.parts)
    BY <1>1, <1>2, <1>3, <1>5, <2>2, MoveParts
  <2>3. CASE returned # 0 /\ Continue("declarations", context, Held)
    <3>1. Fits(nodes, ListOf(Declarations), Held)
      BY <1>1, <1>3, <1>5, <2>1, HeldFits
    <3>2. QED
      BY <1>1, <1>2, <1>3, <2>3, <3>1, MoveHeld
  <2>4. QED
    BY <1>7, <2>2, <2>3 DEF DeclarationParsed, Kept
<1>8. QED
  BY <1>1, <1>6, <1>7

(* Attributes are added one by one, and a declaration becomes one of its    *)
(* kinds.                                                                   *)
LEMMA DeclarationMoves ==
  ASSUME IInv, BuiltInv, ParseAttribute \/ ParseDeclaration
  PROVE  Running /\ Move
<1>1. /\ Running /\ frame.routine = "Declaration" /\ frame.point \in {"start", "attributes"}
      /\ ~At("Block", "statement")
  BY DEF ParseAttribute, ParseDeclaration, At
<1>2. /\ \A point : Shape("Declaration", point) = ListOf({"Attribute"})
      /\ RolesOf("Attribute") = Leaf /\ "Attribute" \in {"Attribute"} /\ Free("attributes")
      /\ \A c : Begun(c)
  BY <1>1, DeclarationShapes, RolesTable DEF Begun, Beginning, Taking, Named, Free
<1>3. Fits(nodes, ListOf({"Attribute"}), frame.parts)
  BY <1>1, <1>2, AnswerKind
<1>4. returned = 0
  BY <1>1, <1>3, AtStart
<1>5. \A c : Onto(c) => Moved(c, frame.parts)
  BY <1>1, <1>4, PartsMoved
<1>6. ASSUME ParseAttribute PROVE Move
  <2> DEFINE c == Consumed(context)
             span == TokenSpan(context.position)
  <2>1. ContinueWith("attributes", c, NodeFrom(context.position, c, "Attribute", span, <<>>),
                     Append(frame.parts, Fresh))
    BY <1>6 DEF ParseAttribute
  <2>2. Moved(c, frame.parts) /\ Onto(c) /\ c.position <= c.position
    BY <1>5, OntoFacts DEF Onto, Lasts, ParserState
  <2>3. Shape(frame.routine, "attributes") = ListOf({"Attribute"})
    BY <1>1, <1>2
  <2> HIDE DEF c, span
  <2>4. Adds
    BY <1>2, <1>3, <2>1, <2>2, <2>3 DEF Adds
  <2>5. QED
    BY <2>4 DEF Move
<1>7. ASSUME NEW routine \in Named \union {"Import", "Package"}, NEW c, Onto(c),
             Become(routine, c)
      PROVE  Move
  <2>1. routine \in Declaring /\ routine \notin Expressing
    BY <1>7 DEF Declaring, Named, Expressing
  <2>2. Results(routine) \subseteq Declarations /\ Results("Declaration") = Declarations
    BY <2>1, ResultsTable
  <2>3. Shape(routine, "start") = ListOf({"Attribute"})
    BY <2>1, DeclarationShapes
  <2>4. Becomes
    BY <1>1, <1>3, <1>5, <1>7, <2>1, <2>2, <2>3 DEF Becomes
  <2>5. QED
    BY <2>4 DEF Move
<1>8. ASSUME ParseDeclaration PROVE Move
  <2> DEFINE modified == Matched(Matched(context, "pub"), "async")
  <2>1. /\ Onto(modified) /\ Onto(context)
        /\ Onto(Reported(modified)) /\ Reported(modified).had_error
    BY OntoFacts, OntoMore
  <2>2. \/ Become("Import", context) \/ Become("Package", context)
        \/ Peek(modified) \in DeclarationKeywords /\ Become(RoutineOf[Peek(modified)], modified)
        \/ Return(Reported(modified), 0)
    BY <1>8 DEF ParseDeclaration
  <2> HIDE DEF modified
  <2>3. CASE Become("Import", context) \/ Become("Package", context)
    BY <1>7, <2>1, <2>3
  <2>4. CASE Peek(modified) \in DeclarationKeywords /\ Become(RoutineOf[Peek(modified)], modified)
    <3>1. \A t \in DeclarationKeywords : RoutineOf[t] \in Named
      BY DEF RoutineOf, DeclarationKeywords, Named
    <3>2. RoutineOf[Peek(modified)] \in Named \union {"Import", "Package"}
      BY <2>4, <3>1
    <3>3. QED
      BY <1>7, <2>1, <2>4, <3>2
  <2>5. CASE Return(Reported(modified), 0)
    BY <2>1, <2>5 DEF Move, GivesUp
  <2>6. QED
    BY <2>2, <2>3, <2>4, <2>5
<1>9. QED
  BY <1>1, <1>6, <1>8

(* The keyword and the name of a declaration. *)
LEMMA KeywordMoves ==
  ASSUME IInv, BuiltInv, NEW routine \in Named, ParseKeyword(routine) \/ NameMissing(routine)
  PROVE  Running /\ Move
<1>1. /\ Running /\ frame.routine = routine /\ frame.point \in {"start", "name"}
      /\ ~At("Block", "statement")
  BY DEF ParseKeyword, NameMissing, At
<1>2. ASSUME ParseKeyword(routine) PROVE Move
  <2> DEFINE c == Consumed(context)
             P == IF routine = "Function" THEN frame.parts ELSE <<>>
  <2>1. frame.point = "start" /\ Invoke("Identifier", "name", c, P) /\ Onto(c)
    BY <1>2, OntoFacts DEF ParseKeyword, At
  <2>2. /\ frame.routine \in Taking
        /\ frame.routine \in Declaring \union Stating \union Expressing
                               \union {"Block", "Identifier", "Type"}
    BY <1>1 DEF Taking, Declaring
  <2>3. Fits(nodes, ListOf({"Attribute"}), frame.parts) /\ Begun(c)
    BY <1>1, <2>1, <2>2, StartFits
  <2>4. returned = 0
    BY <1>1, <2>1, <2>3, AtStart
  <2>5. Results("Identifier") \subseteq Awaited(frame.routine, "name") /\ "Identifier" \in Called
    BY ResultsTable, AwaitedTable DEF Called
  <2> HIDE DEF c
  <2>6. CASE routine = "Function"
    <3>1. Shape(frame.routine, "name") = ListOf({"Attribute"}) /\ P = frame.parts
      BY <1>1, <2>6, DeclarationShapes
    <3> HIDE DEF P
    <3>2. QED
      BY <1>1, <2>1, <2>3, <2>4, <2>5, <3>1, MoveParts
  <2>7. CASE routine # "Function"
    <3>1. Shape(frame.routine, "name") = Leaf /\ P = <<>>
      BY <1>1, <2>7, DeclarationShapes DEF Named
    <3>2. Fits(nodes, Leaf, <<>>)
      BY FitsNone
    <3> HIDE DEF P
    <3>3. QED
      BY <1>1, <2>1, <2>3, <2>4, <2>5, <3>1, <3>2, MoveNone
  <2>8. QED
    BY <2>6, <2>7
<1>3. ASSUME NameMissing(routine) PROVE Move
  <2>1. frame.point = "name" /\ returned = 0 /\ Return(context, 0)
    BY <1>3 DEF NameMissing, At
  <2>2. context.had_error
    BY <1>1, <2>1, AnswerKind DEF Owing
  <2>3. QED
    BY <2>1, <2>2, OntoFacts DEF Move, GivesUp
<1>4. QED
  BY <1>1, <1>2, <1>3

(* A sequence that is not empty. *)
LEMMA NotEmpty ==
  ASSUME NEW S, NEW s \in Seq(S), s # <<>>
  PROVE  Len(s) \in Nat /\ Len(s) > 0 /\ 1 \in 1..Len(s) /\ Len(s) \in 1..Len(s)
  OBVIOUS

(* A sequence with an element is not empty. *)
LEMMA LongEnough ==
  ASSUME NEW s, Len(s) >= 1
  PROVE  s # <<>>
  OBVIOUS

(* A type is asked for when the name is there. *)
LEMMA NameReady ==
  ASSUME IInv, Running, BuiltInv, At("Function", "parameter type") \/ At("Struct", "field type")
  PROVE  frame.parts # <<>> /\ Last(frame.parts) # 0
<1>1. Ready(frame.routine, frame.point, frame.parts)
  <2>1. frame = calls[1] /\ calls \in Seq(FrameRecord) /\ calls # <<>>
    BY WorkFacts
  <2>2. 1 \in 1..Len(calls)
    BY <2>1, NotEmpty
  <2>3. QED
    BY <2>1, <2>2 DEF IInv, CallsInv, GoodFrame
<1>2. PartsNeeded(frame.routine, frame.point) = 1
  BY DEF PartsNeeded, At
<1>3. frame.routine \in Trusting /\ frame.point # "body"
  BY DEF Trusting, At
<1>4. Len(frame.parts) >= 1 /\ 0 \notin Indices(frame.parts)
  BY <1>1, <1>2, <1>3 DEF Ready
<1>5. frame.parts \in Seq(Nat)
  BY WorkFacts
<1>6. frame.parts # <<>> /\ Len(frame.parts) \in 1..Len(frame.parts)
  <2>1. frame.parts # <<>>
    BY <1>4, LongEnough
  <2>2. QED
    BY <1>5, <2>1, NotEmpty
<1>7. QED
  BY <1>4, <1>6 DEF Indices, Last

(* The name and the type of a parameter or a field are taken together. *)
LEMMA TypedNameMoves ==
  ASSUME IInv, Running, BuiltInv, NEW kind \in {"Parameter", "Field"}, NEW more, NEW done,
         TypedName(kind, more, done), frame.point # "start",
         Free(more), Free(done), frame.parts # <<>>, Last(frame.parts) # 0,
         NEW head, Len(head) \in Nat, NEW list, kind \in list,
         Fits(nodes, Roles(head, list, <<Names>>), frame.parts),
         Shape(frame.routine, more) = Roles(head, list, <<>>),
         Shape(frame.routine, done) = Roles(head, list, <<>>),
         Awaited(frame.routine, frame.point) = Types
  PROVE  Move
<1> DEFINE name == Last(frame.parts)
           span == Extended(nodes[name].span, returned)
           node == NodeFrom(nodes[name].from, context, kind, span, <<name, returned>>)
           parts == [frame.parts EXCEPT ![Len(frame.parts)] = Fresh]
<1>1. \/ ContinueWith(more, Consumed(context), node, parts)
      \/ ContinueWith(done, context, node, parts)
  BY DEF TypedName
<1>2. /\ Onto(context) /\ Begun(context) /\ Onto(Consumed(context)) /\ Begun(Consumed(context))
  BY OntoFacts, BegunStays
<1> HIDE DEF span
<1>3. ASSUME NEW point \in {more, done}, NEW c, Onto(c), Begun(c),
             ContinueWith(point, c, node, parts)
      PROVE  Move
  <2>1. Free(point) /\ Shape(frame.routine, point) = Roles(head, list, <<>>)
    BY <1>3
  <2>2. TypesName
    BY <1>3, <2>1 DEF TypesName
  <2>3. QED
    BY <2>2 DEF Move
<1> HIDE DEF node, parts
<1>4. QED
  BY <1>1, <1>2, <1>3

(* Functions. *)
LEMMA FunctionMoves ==
  ASSUME IInv, BuiltInv,
         \/ FunctionNamed \/ ParameterNamed \/ ParameterTyped \/ NextParameter
         \/ FunctionClosed \/ FunctionTyped \/ EndFunction
  PROVE  Running /\ Move
<1>1. /\ Running /\ frame.routine = "Function" /\ frame.point # "start"
      /\ ~At("Block", "statement")
  BY DEF FunctionNamed, NameFound, ParameterNamed, ParameterTyped, NextParameter, FunctionClosed,
         FunctionTyped, EndFunction, At
<1>2. /\ Onto(context) /\ Onto(Consumed(context)) /\ Onto(Recovered(Reported(context)))
      /\ Recovered(Reported(context)).had_error
      /\ Onto(ExpectedOrRecovered(context, "(")) /\ Onto(ExpectedOrRecovered(context, ")"))
      /\ Onto(Consumed(ExpectedOrRecovered(context, ")")))
      /\ \A c : Onto(c) => Begun(c)
  BY <1>1, OntoFacts, OntoMore, BegunStays
<1>3. /\ Shape("Function", "name") = ListOf({"Attribute"})
      /\ \A point \in {"parameter", "next parameter", "close", "return type"} :
           Shape("Function", point) = ListOf(Signature)
      /\ Shape("Function", "parameter type") = Roles(<<>>, Signature, <<Names>>)
      /\ Shape("Function", "body") = Roles(<<>>, Signature, <<Types>>)
      /\ Fits(nodes, Shape("Function", frame.point), frame.parts)
  BY <1>1, DeclarationShapes, AnswerKind
<1>4. /\ Awaited("Function", "name") = Names /\ Awaited("Function", "parameter") = Names
      /\ Awaited("Function", "parameter type") = Types
      /\ Awaited("Function", "return type") = Types /\ Awaited("Function", "body") = {"Block"}
      /\ Awaited("Function", "close") = {} /\ Awaited("Function", "next parameter") = {}
  BY AwaitedTable
<1>5. /\ Results("Identifier") = Names /\ Results("Type") = Types /\ Results("Block") = {"Block"}
      /\ Results("Function") = {"Function"}
      /\ {"Identifier", "Type", "Block"} \subseteq Called
      /\ Signature # {} /\ Names \subseteq Signature /\ {"Attribute"} \subseteq Signature
      /\ Free("close") /\ Free("next parameter") /\ Free("return type")
      /\ RolesOf("Function") = Roles(<<>>, Signature, <<Types, {"Block"}>>)
  BY ResultsTable, RolesTable DEF Named, Called, Signature, Names, Free
<1>6. ASSUME FunctionNamed PROVE Move
  <2> DEFINE c == ExpectedOrRecovered(context, "(")
  <2>1. /\ frame.point = "name"
        /\ \/ Continue("close", c, Held)
           \/ Invoke("Identifier", "parameter", c, Held)
    BY <1>6 DEF FunctionNamed, NameFound, At
  <2>2. Onto(c)
    BY <1>2
  <2> HIDE DEF c
  <2>3. Fits(nodes, ListOf(Signature), frame.parts)
    <3>1. Fits(nodes, ListOf({"Attribute"}), frame.parts) /\ frame.parts \in Seq(Nat)
      BY <1>1, <1>3, <2>1, AnswerKind
    <3>2. \A list, wider : list \subseteq wider /\ Fits(nodes, ListOf(list), frame.parts)
            => Fits(nodes, ListOf(wider), frame.parts)
      BY <3>1, FitsAlso
    <3>3. QED
      BY <1>5, <3>1, <3>2
  <2>4. Fits(nodes, ListOf(Signature), Held)
    BY <1>1, <1>4, <1>5, <2>1, <2>3, HeldFits
  <2>5. QED
    BY <1>1, <1>3, <1>4, <1>5, <2>1, <2>2, <2>4, MoveHeld
<1>7. ASSUME ParameterNamed PROVE Move
  <2>1. frame.point = "parameter" /\ Fits(nodes, ListOf(Signature), frame.parts)
    BY <1>3, <1>7 DEF ParameterNamed, At
  <2>2. CASE returned = 0 /\ Continue("close", context, frame.parts)
    BY <1>1, <1>2, <1>3, <1>5, <2>1, <2>2, MoveParts
  <2>3. CASE Continue("close", Recovered(Reported(context)), frame.parts)
    BY <1>1, <1>2, <1>3, <1>5, <2>1, <2>3, MoveParts
  <2>4. CASE Invoke("Type", "parameter type", Consumed(context), Held)
    <3>1. Fits(nodes, Roles(<<>>, Signature, <<Names>>), Held)
      BY <1>1, <1>4, <1>5, <2>1, HeldFits
    <3>2. QED
      BY <1>1, <1>2, <1>3, <1>4, <1>5, <2>4, <3>1, MoveHeld
  <2>5. QED
    BY <1>7, <2>2, <2>3, <2>4 DEF ParameterNamed
<1>8. ASSUME ParameterTyped PROVE Move
  <2>1. frame.point = "parameter type" /\ TypedName("Parameter", "next parameter", "close")
    BY <1>8 DEF ParameterTyped, At
  <2>2. frame.parts # <<>> /\ Last(frame.parts) # 0
    BY <1>1, <2>1, NameReady DEF At
  <2>3. /\ Fits(nodes, Roles(<<>>, Signature, <<Names>>), frame.parts)
        /\ Shape(frame.routine, "next parameter") = Roles(<<>>, Signature, <<>>)
        /\ Shape(frame.routine, "close") = Roles(<<>>, Signature, <<>>)
        /\ "Parameter" \in Signature /\ Len(<<>>) \in Nat
        /\ Awaited(frame.routine, frame.point) = Types
    BY <1>1, <1>3, <1>4, <2>1 DEF ListOf, Signature
  <2>4. "Parameter" \in {"Parameter", "Field"}
    OBVIOUS
  <2>5. QED
    BY <1>1, <1>5, <2>1, <2>2, <2>3, <2>4, TypedNameMoves
<1>9. ASSUME NextParameter PROVE Move
  <2>1. frame.point = "next parameter" /\ Invoke("Identifier", "parameter", context, frame.parts)
    BY <1>9 DEF NextParameter, At
  <2>2. returned = 0 /\ Fits(nodes, ListOf(Signature), frame.parts)
    BY <1>1, <1>3, <1>4, <2>1, AnswerKind
  <2>3. QED
    BY <1>1, <1>2, <1>3, <1>4, <1>5, <2>1, <2>2, MoveParts
<1>10. ASSUME FunctionClosed PROVE Move
  <2> DEFINE c == ExpectedOrRecovered(context, ")")
  <2>1. /\ frame.point = "close"
        /\ \/ Invoke("Type", "return type", Consumed(c), frame.parts)
           \/ Continue("return type", c, frame.parts)
    BY <1>10 DEF FunctionClosed, At
  <2>2. Onto(c) /\ Onto(Consumed(c))
    BY <1>2
  <2> HIDE DEF c
  <2>3. returned = 0 /\ Fits(nodes, ListOf(Signature), frame.parts)
    BY <1>1, <1>3, <1>4, <2>1, AnswerKind
  <2>4. CASE Invoke("Type", "return type", Consumed(c), frame.parts)
    <3>1. /\ Begun(Consumed(c)) /\ Onto(Consumed(c)) /\ "Type" \in Called
          /\ Fits(nodes, Shape(frame.routine, "return type"), frame.parts)
          /\ Results("Type") \subseteq Awaited(frame.routine, "return type")
      BY <1>1, <1>2, <1>3, <1>4, <1>5, <2>2, <2>3
    <3>2. QED
      BY <1>1, <2>3, <2>4, <3>1, MoveParts
  <2>5. CASE Continue("return type", c, frame.parts)
    BY <1>1, <1>2, <1>3, <1>5, <2>2, <2>3, <2>5, MoveParts
  <2>6. QED
    BY <2>1, <2>4, <2>5
<1>11. ASSUME FunctionTyped PROVE Move
  <2>1. frame.point = "return type" /\ Invoke("Block", "body", context, Held)
    BY <1>11 DEF FunctionTyped, At
  <2>2. Fits(nodes, Roles(<<>>, Signature, <<Types>>), Held)
    <3>1. Fits(nodes, ListOf(Signature), frame.parts)
      BY <1>3, <2>1
    <3>2. QED
      BY <1>1, <1>4, <1>5, <2>1, <3>1, HeldFits
  <2>3. QED
    BY <1>1, <1>2, <1>3, <1>4, <1>5, <2>1, <2>2, MoveHeld
<1>12. ASSUME EndFunction PROVE Move
  <2>1. /\ frame.point = "body"
        /\ ReturnNode(context, "Function", Extended(StartSpan, returned), Held)
    BY <1>12 DEF EndFunction, At
  <2>2. Fits(nodes, Roles(<<>>, Signature, <<Types, {"Block"}>>), Held)
    <3>1. Fits(nodes, Roles(<<>>, Signature, <<Types>>), frame.parts)
      BY <1>3, <2>1
    <3>2. QED
      BY <1>1, <1>4, <1>5, <2>1, <3>1, HeldFits
  <2>3. "Function" \in Results(frame.routine)
    BY <1>1, <1>5
  <2>4. QED
    BY <1>1, <1>2, <1>5, <2>1, <2>2, <2>3, MoveHeld
<1>13. QED
  BY <1>1, <1>6, <1>7, <1>8, <1>9, <1>10, <1>11, <1>12

(* Structs. *)
LEMMA StructMoves ==
  ASSUME IInv, BuiltInv, StructNamed \/ NextField \/ FieldNamed \/ FieldTyped \/ EndStruct
  PROVE  Running /\ Move
<1>1. /\ Running /\ frame.routine = "Struct" /\ frame.point # "start"
      /\ ~At("Block", "statement")
  BY DEF StructNamed, NameFound, NextField, FieldNamed, FieldTyped, EndStruct, At
<1>2. /\ Onto(context) /\ Onto(Consumed(context)) /\ Onto(Recovered(Reported(context)))
      /\ Recovered(Reported(context)).had_error /\ Onto(SynchronizedDeclaration(context))
      /\ Onto(ExpectedOrRecovered(context, "{")) /\ Onto(ExpectedOrRecovered(context, "}"))
      /\ Onto(Matched(ExpectedOrRecovered(context, "}"), ";"))
      /\ \A c : Onto(c) => Begun(c)
  BY <1>1, OntoFacts, OntoMore, BegunStays
<1>3. /\ Shape("Struct", "name") = Leaf
      /\ \A point \in {"fields", "field", "close"} :
           Shape("Struct", point) = Roles(<<Names>>, {"Field"}, <<>>)
      /\ Shape("Struct", "field type") = Roles(<<Names>>, {"Field"}, <<Names>>)
      /\ Fits(nodes, Shape("Struct", frame.point), frame.parts)
  BY <1>1, DeclarationShapes, AnswerKind
<1>4. /\ Awaited("Struct", "name") = Names /\ Awaited("Struct", "field") = Names
      /\ Awaited("Struct", "field type") = Types
      /\ Awaited("Struct", "close") = {} /\ Awaited("Struct", "fields") = {}
  BY AwaitedTable
<1>5. /\ Results("Identifier") = Names /\ Results("Type") = Types
      /\ Results("Struct") = {"Struct"}
      /\ {"Identifier", "Type"} \subseteq Called
      /\ {"Field"} # {} /\ Free("close") /\ Free("fields")
      /\ RolesOf("Struct") = Roles(<<Names>>, {"Field"}, <<>>)
  BY ResultsTable, RolesTable DEF Named, Called, Free
<1>6. ASSUME StructNamed PROVE Move
  <2> DEFINE c == ExpectedOrRecovered(context, "{")
  <2>1. frame.point = "name" /\ Continue("fields", c, Held)
    BY <1>6 DEF StructNamed, NameFound, At
  <2>2. Onto(c)
    BY <1>2
  <2> HIDE DEF c
  <2>3. Fits(nodes, Roles(<<Names>>, {"Field"}, <<>>), Held)
    <3>1. Fits(nodes, Leaf, frame.parts)
      BY <1>3, <2>1
    <3>2. QED
      BY <1>1, <1>4, <2>1, <3>1, HeldFits
  <2>4. QED
    BY <1>1, <1>3, <1>5, <2>1, <2>2, <2>3, MoveHeld
<1>7. ASSUME NextField PROVE Move
  <2>1. frame.point = "fields"
    BY <1>7 DEF NextField, At
  <2>2. returned = 0 /\ Fits(nodes, Roles(<<Names>>, {"Field"}, <<>>), frame.parts)
    BY <1>1, <1>3, <1>4, <2>1, AnswerKind
  <2>3. CASE Continue("close", context, frame.parts)
    BY <1>1, <1>2, <1>3, <1>5, <2>2, <2>3, MoveParts
  <2>4. CASE Invoke("Identifier", "field", context, frame.parts)
    BY <1>1, <1>2, <1>3, <1>4, <1>5, <2>2, <2>4, MoveParts
  <2>5. QED
    BY <1>7, <2>3, <2>4 DEF NextField
<1>8. ASSUME FieldNamed PROVE Move
  <2>1. frame.point = "field" /\ Fits(nodes, Roles(<<Names>>, {"Field"}, <<>>), frame.parts)
    BY <1>3, <1>8 DEF FieldNamed, At
  <2>2. CASE returned = 0 /\ Continue("fields", SynchronizedDeclaration(context), frame.parts)
    BY <1>1, <1>2, <1>3, <1>5, <2>1, <2>2, MoveParts
  <2>3. CASE Continue("fields", Recovered(Reported(context)), frame.parts)
    BY <1>1, <1>2, <1>3, <1>5, <2>1, <2>3, MoveParts
  <2>4. CASE Invoke("Type", "field type", Consumed(context), Held)
    <3>1. Fits(nodes, Roles(<<Names>>, {"Field"}, <<Names>>), Held)
      BY <1>1, <1>4, <1>5, <2>1, HeldFits
    <3>2. QED
      BY <1>1, <1>2, <1>3, <1>4, <1>5, <2>4, <3>1, MoveHeld
  <2>5. QED
    BY <1>8, <2>2, <2>3, <2>4 DEF FieldNamed
<1>9. ASSUME FieldTyped PROVE Move
  <2>1. frame.point = "field type" /\ TypedName("Field", "fields", "close")
    BY <1>9 DEF FieldTyped, At
  <2>2. frame.parts # <<>> /\ Last(frame.parts) # 0
    BY <1>1, <2>1, NameReady DEF At
  <2>3. /\ Fits(nodes, Roles(<<Names>>, {"Field"}, <<Names>>), frame.parts)
        /\ Shape(frame.routine, "fields") = Roles(<<Names>>, {"Field"}, <<>>)
        /\ Shape(frame.routine, "close") = Roles(<<Names>>, {"Field"}, <<>>)
        /\ "Field" \in {"Field"} /\ Len(<<Names>>) \in Nat
        /\ Awaited(frame.routine, frame.point) = Types
    BY <1>1, <1>3, <1>4, <2>1
  <2>4. "Field" \in {"Parameter", "Field"}
    OBVIOUS
  <2>5. QED
    BY <1>1, <1>5, <2>1, <2>2, <2>3, <2>4, TypedNameMoves
<1>10. ASSUME EndStruct PROVE Move
  <2> DEFINE c == Matched(ExpectedOrRecovered(context, "}"), ";")
             span == IF Peek(context) = "}"
                       THEN ExtendSpan(StartSpan, TokenSpan(context.position)) ELSE StartSpan
  <2>1. frame.point = "close" /\ ReturnNode(c, "Struct", span, frame.parts)
    BY <1>10 DEF EndStruct, At
  <2>2. Onto(c)
    BY <1>2
  <2> HIDE DEF c, span
  <2>3. /\ returned = 0 /\ Fits(nodes, Roles(<<Names>>, {"Field"}, <<>>), frame.parts)
        /\ "Struct" \in Results(frame.routine)
    BY <1>1, <1>3, <1>4, <1>5, <2>1, AnswerKind
  <2>4. QED
    BY <1>1, <1>2, <1>5, <2>1, <2>2, <2>3, MoveParts
<1>11. QED
  BY <1>1, <1>6, <1>7, <1>8, <1>9, <1>10

(* Classes and traits. *)
LEMMA BodyMoves ==
  ASSUME IInv, BuiltInv, NEW kind \in {"Class", "Trait"},
         BodyNamed(kind) \/ NextMember(kind) \/ MemberParsed(kind)
  PROVE  Running /\ Move
<1>1. /\ Running /\ frame.routine = kind /\ frame.point # "start"
      /\ ~At("Block", "statement")
  BY DEF BodyNamed, NameFound, NextMember, MemberParsed, At
<1>2. /\ Onto(context) /\ Onto(Consumed(context)) /\ Onto(SynchronizedDeclaration(context))
      /\ Onto(Expected(context, "}")) /\ \A c : Onto(c) => Begun(c)
  BY <1>1, OntoFacts, BegunStays
<1>3. /\ Shape(kind, "name") = Leaf
      /\ \A point \in {"members", "member"} :
           Shape(kind, point) = Roles(<<Names>>, Declarations, <<>>)
      /\ Fits(nodes, Shape(kind, frame.point), frame.parts)
  BY <1>1, DeclarationShapes, AnswerKind
<1>4. /\ Awaited(kind, "name") = Names /\ Awaited(kind, "member") = Declarations
      /\ Awaited(kind, "members") = {}
  BY AwaitedTable
<1>5. /\ Results("Declaration") = Declarations /\ Results(kind) = {kind}
      /\ "Declaration" \in Called /\ Declarations # {} /\ Free("members")
      /\ RolesOf(kind) = Roles(<<Names>>, Declarations, <<>>)
  BY ResultsTable, RolesTable DEF Named, Called, Free, Declarations
<1>6. ASSUME BodyNamed(kind) PROVE Move
  <2>1. frame.point = "name"
    BY <1>6 DEF BodyNamed, NameFound, At
  <2>2. Fits(nodes, Roles(<<Names>>, Declarations, <<>>), Held)
    <3>1. Fits(nodes, Leaf, frame.parts)
      BY <1>3, <2>1
    <3>2. QED
      BY <1>1, <1>4, <2>1, <3>1, HeldFits
  <2>3. CASE Continue("members", Consumed(context), Held)
    BY <1>1, <1>2, <1>3, <1>5, <2>2, <2>3, MoveHeld
  <2>4. CASE ReturnNode(context, kind, StartSpan, Held)
    BY <1>1, <1>2, <1>5, <2>2, <2>4, MoveHeld
  <2>5. QED
    BY <1>6, <2>3, <2>4 DEF BodyNamed
<1>7. ASSUME NextMember(kind) PROVE Move
  <2>1. frame.point = "members"
    BY <1>7 DEF NextMember, At
  <2>2. returned = 0 /\ Fits(nodes, Roles(<<Names>>, Declarations, <<>>), frame.parts)
    BY <1>1, <1>3, <1>4, <2>1, AnswerKind
  <2>3. CASE ReturnNode(Expected(context, "}"), kind, StartSpan, frame.parts)
    BY <1>1, <1>2, <1>5, <2>2, <2>3, MoveParts
  <2>4. CASE Invoke("Declaration", "member", context, frame.parts)
    BY <1>1, <1>2, <1>3, <1>4, <1>5, <2>2, <2>4, MoveParts
  <2>5. CASE Continue("members", SynchronizedDeclaration(context), frame.parts)
    BY <1>1, <1>2, <1>3, <1>5, <2>2, <2>5, MoveParts
  <2>6. QED
    BY <1>7, <2>3, <2>4, <2>5 DEF NextMember
<1>8. ASSUME MemberParsed(kind) PROVE Move
  <2>1. frame.point = "member" /\ Fits(nodes, Roles(<<Names>>, Declarations, <<>>), frame.parts)
    BY <1>3, <1>8 DEF MemberParsed, At
  <2>2. CASE returned = 0 /\ Continue("members", context, frame.parts)
    BY <1>1, <1>2, <1>3, <1>5, <2>1, <2>2, MoveParts
  <2>3. CASE Continue("members", context, Held)
    <3>1. Fits(nodes, Roles(<<Names>>, Declarations, <<>>), Held)
      <4>1. Declarations \subseteq Declarations
        OBVIOUS
      <4>2. QED
        BY <1>1, <1>4, <1>5, <2>1, <4>1, HeldFits
    <3>2. QED
      BY <1>1, <1>2, <1>3, <1>5, <2>3, <3>1, MoveHeld
  <2>4. QED
    BY <1>8, <2>2, <2>3 DEF MemberParsed, Kept
<1>9. QED
  BY <1>1, <1>6, <1>7, <1>8

(* Enums. *)
LEMMA EnumMoves ==
  ASSUME IInv, BuiltInv, EnumNamed \/ NextVariant \/ VariantParsed
  PROVE  Running /\ Move
<1>1. /\ Running /\ frame.routine = "Enum" /\ frame.point # "start"
      /\ ~At("Block", "statement")
  BY DEF EnumNamed, NameFound, NextVariant, VariantParsed, At
<1>2. /\ Onto(context) /\ Onto(Consumed(context)) /\ Onto(Matched(context, ";"))
      /\ Onto(Matched(Expected(context, "}"), ";")) /\ \A c : Onto(c) => Begun(c)
  BY <1>1, OntoFacts, OntoMore, BegunStays
<1>3. /\ Shape("Enum", "name") = Leaf
      /\ \A point \in {"variants", "variant"} : Shape("Enum", point) = ListOf(Names)
      /\ Fits(nodes, Shape("Enum", frame.point), frame.parts)
  BY <1>1, DeclarationShapes, AnswerKind
<1>4. /\ Awaited("Enum", "name") = Names /\ Awaited("Enum", "variant") = Names
      /\ Awaited("Enum", "variants") = {}
  BY AwaitedTable
<1>5. /\ Results("Identifier") = Names /\ "Enum" \in Results(frame.routine)
      /\ "Identifier" \in Called /\ Names # {} /\ Names \subseteq Names /\ Free("variants")
      /\ RolesOf("Enum") = ListOf(Names)
  BY <1>1, ResultsTable, RolesTable DEF Named, Called, Free, Names
<1>6. frame.point \in {"name", "variant"} => Fits(nodes, ListOf(Names), Held)
  <2>1. CASE frame.point = "name"
    <3>1. Fits(nodes, ListOf({}), frame.parts) /\ frame.parts \in Seq(Nat)
      <4>1. Leaf = ListOf({})
        BY DEF Leaf, Only, ListOf
      <4>2. QED
        BY <1>1, <1>3, <2>1, <4>1, AnswerKind
    <3>2. Fits(nodes, ListOf(Names), frame.parts)
      <4>1. \A list, wider : list \subseteq wider /\ Fits(nodes, ListOf(list), frame.parts)
              => Fits(nodes, ListOf(wider), frame.parts)
        BY <3>1, FitsAlso
      <4>2. {} \subseteq Names
        OBVIOUS
      <4>3. QED
        BY <3>1, <4>1, <4>2
    <3>3. QED
      BY <1>1, <1>4, <1>5, <2>1, <3>2, HeldFits
  <2>2. CASE frame.point = "variant"
    <3>1. Fits(nodes, ListOf(Names), frame.parts)
      BY <1>3, <2>2
    <3>2. QED
      BY <1>1, <1>4, <1>5, <2>2, <3>1, HeldFits
  <2>3. QED
    BY <2>1, <2>2
<1>7. ASSUME EnumNamed PROVE Move
  <2>1. frame.point = "name"
    BY <1>7 DEF EnumNamed, NameFound, At
  <2>2. Fits(nodes, ListOf(Names), Held)
    BY <1>6, <2>1
  <2>3. CASE Continue("variants", Consumed(context), Held)
    BY <1>1, <1>2, <1>3, <1>5, <2>2, <2>3, MoveHeld
  <2>4. CASE ReturnNode(Matched(context, ";"), "Enum", StartSpan, Held)
    BY <1>1, <1>2, <1>5, <2>2, <2>4, MoveHeld
  <2>5. QED
    BY <1>7, <2>3, <2>4 DEF EnumNamed
<1>8. ASSUME NextVariant PROVE Move
  <2>1. frame.point = "variants"
    BY <1>8 DEF NextVariant, At
  <2>2. returned = 0 /\ Fits(nodes, ListOf(Names), frame.parts)
    BY <1>1, <1>3, <1>4, <2>1, AnswerKind
  <2>3. CASE EndEnum(frame.parts)
    BY <1>1, <1>2, <1>5, <2>2, <2>3, MoveParts DEF EndEnum
  <2>4. CASE Invoke("Identifier", "variant", context, frame.parts)
    BY <1>1, <1>2, <1>3, <1>4, <1>5, <2>2, <2>4, MoveParts
  <2>5. QED
    BY <1>8, <2>3, <2>4 DEF NextVariant
<1>9. ASSUME VariantParsed PROVE Move
  <2>1. frame.point = "variant" /\ Fits(nodes, ListOf(Names), frame.parts)
    BY <1>3, <1>9 DEF VariantParsed, At
  <2>2. Fits(nodes, ListOf(Names), Held)
    BY <1>6, <2>1
  <2>3. CASE returned = 0 /\ Continue("variants", Consumed(context), frame.parts)
    BY <1>1, <1>2, <1>3, <1>5, <2>1, <2>3, MoveParts
  <2>4. CASE returned = 0 /\ EndEnum(frame.parts)
    BY <1>1, <1>2, <1>5, <2>1, <2>4, MoveParts DEF EndEnum
  <2>5. CASE Continue("variants", Consumed(context), Held)
    BY <1>1, <1>2, <1>3, <1>5, <2>2, <2>5, MoveHeld
  <2>6. CASE EndEnum(Held)
    BY <1>1, <1>2, <1>5, <2>2, <2>6, MoveHeld DEF EndEnum
  <2>7. QED
    BY <1>9, <2>3, <2>4, <2>5, <2>6 DEF VariantParsed, Kept
<1>10. QED
  BY <1>1, <1>7, <1>8, <1>9

(* Modules and packages. *)
LEMMA ModuleMoves ==
  ASSUME IInv, BuiltInv, ModuleNamed \/ EndModule \/ ParsePackage \/ EndPackage
  PROVE  Running /\ Move
<1>1. /\ Running /\ frame.routine \in {"Module", "Package"} /\ ~At("Block", "statement")
  BY DEF ModuleNamed, NameFound, EndModule, ParsePackage, EndPackage, At
<1>2. /\ Onto(context) /\ Onto(Consumed(context)) /\ Onto(ExpectedOrRecovered(context, ";"))
  BY OntoFacts
<1>3. /\ \A routine \in {"Module", "Package"} : Shape(routine, "name") = Leaf
      /\ Shape("Module", "body") = Only(<<Names>>)
      /\ Fits(nodes, Shape(frame.routine, frame.point), frame.parts)
  BY <1>1, DeclarationShapes, AnswerKind
<1>4. /\ \A routine : Awaited(routine, "name") = Names
      /\ Awaited("Module", "body") = {"Block"}
  BY AwaitedTable
<1>5. /\ Results("Identifier") = Names /\ Results("Block") = {"Block"}
      /\ frame.routine \in Results(frame.routine)
      /\ {"Identifier", "Block"} \subseteq Called
      /\ RolesOf("Module") = Only(<<Names, {"Block"}>>) /\ RolesOf("Package") = Only(<<Names>>)
      /\ frame.routine = "Module" => Free("body")
  BY <1>1, ResultsTable, RolesTable DEF Named, Called, Free
<1>6. frame.point = "name" => Fits(nodes, Only(<<Names>>), Held)
  <2>1. SUFFICES ASSUME frame.point = "name" PROVE Fits(nodes, Only(<<Names>>), Held)
    OBVIOUS
  <2>2. Fits(nodes, Leaf, frame.parts) /\ Awaited(frame.routine, frame.point) = Names
    BY <1>1, <1>3, <1>4, <2>1
  <2>3. QED
    BY <1>1, <2>2, HeldFits
<1>7. ASSUME ModuleNamed PROVE Move
  <2>1. frame.routine = "Module" /\ frame.point = "name"
    BY <1>7 DEF ModuleNamed, NameFound, At
  <2>2. Fits(nodes, Only(<<Names>>), Held)
    BY <1>6, <2>1
  <2>3. CASE Invoke("Block", "body", context, Held)
    BY <1>1, <1>2, <1>3, <1>4, <1>5, <2>1, <2>2, <2>3, MoveHeld
  <2>4. CASE Continue("body", context, Held)
    BY <1>1, <1>2, <1>3, <1>5, <2>1, <2>2, <2>4, MoveHeld
  <2>5. QED
    BY <1>7, <2>3, <2>4 DEF ModuleNamed
<1>8. ASSUME EndModule PROVE Move
  <2>1. /\ frame.routine = "Module" /\ frame.point = "body"
        /\ ReturnNode(context, "Module", Extended(StartSpan, returned), Held)
    BY <1>8 DEF EndModule, At
  <2>2. Fits(nodes, Only(<<Names, {"Block"}>>), Held)
    <3>1. Fits(nodes, Only(<<Names>>), frame.parts)
      BY <1>3, <2>1
    <3>2. QED
      BY <1>1, <1>4, <2>1, <3>1, HeldFits
  <2>3. QED
    BY <1>1, <1>2, <1>5, <2>1, <2>2, MoveHeld
<1>9. ASSUME ParsePackage PROVE Move
  <2>1. /\ frame.routine = "Package" /\ frame.point = "start"
        /\ Invoke("Identifier", "name", Consumed(context), <<>>)
    BY <1>9 DEF ParsePackage, At
  <2>2. /\ frame.routine \in Taking
        /\ frame.routine \in Declaring \union Stating \union Expressing
                               \union {"Block", "Identifier", "Type"}
    BY <2>1 DEF Taking, Declaring
  <2>3. /\ Fits(nodes, ListOf({"Attribute"}), frame.parts) /\ Begun(Consumed(context))
        /\ Fits(nodes, Leaf, <<>>)
    BY <1>1, <2>1, <2>2, StartFits, FitsNone
  <2>4. QED
    BY <1>1, <1>2, <1>3, <1>4, <1>5, <2>1, <2>3, MoveNone
<1>10. ASSUME EndPackage PROVE Move
  <2> DEFINE span == IF Peek(context) = ";"
                       THEN ExtendSpan(StartSpan, TokenSpan(context.position)) ELSE StartSpan
  <2>1. /\ frame.routine = "Package" /\ frame.point = "name"
        /\ ReturnNode(ExpectedOrRecovered(context, ";"), "Package", span, Held)
    BY <1>10 DEF EndPackage, ReturnClosed, At
  <2> HIDE DEF span
  <2>2. QED
    BY <1>1, <1>2, <1>5, <1>6, <2>1, MoveHeld
<1>11. QED
  BY <1>1, <1>7, <1>8, <1>9, <1>10

(* Imports: the segments of a path are added one by one. *)
LEMMA ImportMoves ==
  ASSUME IInv, BuiltInv, ParseImport \/ ParseSegment \/ EndImport
  PROVE  Running /\ Move
<1>1. Running /\ frame.routine = "Import" /\ ~At("Block", "statement")
  BY DEF ParseImport, ParseSegment, EndImport, At
<1>2. /\ \A point \in {"path", "close"} :
           Shape("Import", point) = ListOf(Names) /\ Awaited("Import", point) = {} /\ Free(point)
      /\ RolesOf("Import") = ListOf(Names) /\ "Import" \in Results(frame.routine)
      /\ RolesOf("Identifier") = Leaf /\ "Identifier" \in Names
  BY <1>1, DeclarationShapes, AwaitedTable, ResultsTable, RolesTable DEF Free, Names
<1>3. ASSUME ParseImport PROVE Move
  <2>1. frame.point = "start" /\ Continue("path", Consumed(context), <<>>)
    BY <1>3 DEF ParseImport, At
  <2>2. /\ frame.routine \in Taking
        /\ frame.routine \in Declaring \union Stating \union Expressing
                               \union {"Block", "Identifier", "Type"}
    BY <1>1 DEF Taking, Declaring
  <2>3. /\ Fits(nodes, ListOf({"Attribute"}), frame.parts) /\ Begun(Consumed(context))
        /\ Fits(nodes, ListOf(Names), <<>>) /\ Onto(Consumed(context))
    BY <1>1, <2>1, <2>2, StartFits, FitsNone, OntoFacts DEF ListOf
  <2>4. QED
    BY <1>1, <1>2, <2>1, <2>3, MoveNone
<1>4. frame.point \in {"path", "close"} =>
        /\ returned = 0 /\ Fits(nodes, ListOf(Names), frame.parts)
        /\ \A c : Onto(c) => Begun(c) /\ Moved(c, frame.parts)
  BY <1>1, <1>2, AnswerKind, BegunStays, PartsMoved
<1>5. ASSUME ParseSegment PROVE Move
  <2>1. frame.point = "path"
    BY <1>5 DEF ParseSegment, At
  <2>2. CASE Continue("close", Reported(context), frame.parts)
    BY <1>1, <1>2, <1>4, <2>1, <2>2, OntoFacts, MoveParts
  <2>3. CASE Peek(context) = "name"
    <3> DEFINE d == Consumed(context)
               c == Matched(d, "::")
               point == IF Peek(d) = "::" THEN "path" ELSE "close"
               span == TokenSpan(context.position)
    <3>1. ContinueWith(point, c, NodeFrom(context.position, d, "Identifier", span, <<>>),
                       Append(frame.parts, Fresh))
      BY <1>5, <2>3 DEF ParseSegment
    <3>2. Onto(d) /\ Onto(c)
      BY OntoFacts, OntoMore
    <3>3. d.position <= c.position
      BY <3>2, NowhereBack DEF Onto, Lasts
    <3>4. point \in {"path", "close"}
      OBVIOUS
    <3> HIDE DEF c, d, span, point
    <3>5. /\ Moved(c, frame.parts) /\ Begun(c) /\ Fits(nodes, ListOf(Names), frame.parts)
          /\ Shape(frame.routine, point) = ListOf(Names) /\ Free(point)
      BY <1>1, <1>2, <1>4, <2>1, <3>2, <3>4
    <3>6. Adds
      BY <1>2, <3>1, <3>2, <3>3, <3>5 DEF Adds
    <3>7. QED
      BY <3>6 DEF Move
  <2>4. QED
    BY <1>5, <2>2, <2>3 DEF ParseSegment
<1>6. ASSUME EndImport PROVE Move
  <2> DEFINE whole == Extended(StartSpan,
                               IF frame.parts = <<>> THEN 0 ELSE Last(frame.parts))
             span == IF Peek(context) = ";"
                       THEN ExtendSpan(whole, TokenSpan(context.position)) ELSE whole
             c == ExpectedOrRecovered(context, ";")
  <2>1. frame.point = "close" /\ ReturnNode(c, "Import", span, frame.parts)
    BY <1>6 DEF EndImport, ReturnClosed, At
  <2>2. Onto(c)
    BY OntoFacts
  <2> HIDE DEF whole, span, c
  <2>3. QED
    BY <1>1, <1>2, <1>4, <2>1, <2>2, MoveParts
<1>7. QED
  BY <1>1, <1>3, <1>5, <1>6

(* Identifiers and types. *)
LEMMA LeafMoves ==
  ASSUME IInv, BuiltInv, ParseIdentifier \/ ParseType
  PROVE  Running /\ Move
<1>1. Running /\ frame.routine \in {"Identifier", "Type"} /\ frame.point = "start"
  BY DEF ParseIdentifier, ParseType, At
<1>2. /\ Onto(Consumed(context)) /\ Onto(Reported(context)) /\ Reported(context).had_error
  BY OntoFacts
<1>3. Fits(nodes, ListOf({"Attribute"}), frame.parts)
  BY <1>1, StartFits
<1>4. /\ Results("Identifier") = Names /\ Results("Type") = Types
      /\ "Identifier" \in Names /\ "PrimitiveType" \in Types /\ "NamedType" \in Types
      /\ \A kind \in Types \union {"Identifier"} : RolesOf(kind) = Leaf
  BY ResultsTable, RolesTable DEF Names, Types
<1>5. CASE Return(Reported(context), 0)
  BY <1>1, <1>2, <1>3, <1>5, MoveNone
<1>6. ASSUME NEW kind \in Results(frame.routine), RolesOf(kind) = Leaf,
             ReturnNode(Consumed(context), kind, StartSpan, <<>>)
      PROVE  Running /\ Move
  BY <1>1, <1>2, <1>3, <1>6, MoveNone
<1>7. CASE ParseIdentifier
  <2>1. frame.routine = "Identifier"
    BY <1>7 DEF ParseIdentifier, At
  <2>2. QED
    BY <1>4, <1>5, <1>6, <1>7, <2>1 DEF ParseIdentifier
<1>8. CASE ParseType
  <2>1. frame.routine = "Type"
    BY <1>8 DEF ParseType, At
  <2>2. QED
    BY <1>4, <1>5, <1>6, <1>8, <2>1 DEF ParseType
<1>9. QED
  BY <1>7, <1>8

(* Every step is one of these moves. *)
LEMMA StepMoves ==
  ASSUME IInv, BuiltInv, [Next]_vars
  PROVE  UNCHANGED vars \/ (Running /\ Move)
<1>1. CASE UNCHANGED vars
  BY <1>1
<1>2. CASE DeclarationStep
  <2>1. CASE ParseDeclarations \/ DeclarationParsed
    BY <2>1, ProgramMoves
  <2>2. CASE ParseAttribute \/ ParseDeclaration
    BY <2>2, DeclarationMoves
  <2>3. CASE \E routine \in Named : ParseKeyword(routine) \/ NameMissing(routine)
    BY <2>3, KeywordMoves
  <2>4. CASE \/ FunctionNamed \/ ParameterNamed \/ ParameterTyped \/ NextParameter
             \/ FunctionClosed \/ FunctionTyped \/ EndFunction
    BY <2>4, FunctionMoves
  <2>5. CASE StructNamed \/ NextField \/ FieldNamed \/ FieldTyped \/ EndStruct
    BY <2>5, StructMoves
  <2>6. CASE \E kind \in {"Class", "Trait"} :
               BodyNamed(kind) \/ NextMember(kind) \/ MemberParsed(kind)
    BY <2>6, BodyMoves
  <2>7. CASE EnumNamed \/ NextVariant \/ VariantParsed
    BY <2>7, EnumMoves
  <2>8. CASE ModuleNamed \/ EndModule \/ ParsePackage \/ EndPackage
    BY <2>8, ModuleMoves
  <2>9. CASE ParseImport \/ ParseSegment \/ EndImport
    BY <2>9, ImportMoves
  <2>10. CASE ParseIdentifier \/ ParseType
    BY <2>10, LeafMoves
  <2>11. QED
    BY <1>2, <2>1, <2>2, <2>3, <2>4, <2>5, <2>6, <2>7, <2>8, <2>9, <2>10, Zenon DEF DeclarationStep
<1>3. CASE StatementStep
  <2>1. CASE \/ ParseStatement \/ \E routine \in {"If", "While"} : ParseCondition(routine)
             \/ ParseFor \/ ParseReturn \/ ParseVariable
             \/ ParseMatchStatement \/ ParseExpressionStatement
    BY <2>1, StatementsBegin
  <2>2. CASE ParseBlock \/ NextStatement \/ StatementParsed
    BY <2>2, BlockMoves
  <2>3. CASE \/ \E routine \in {"If", "While"} : ConditionParsed(routine)
             \/ ThenParsed \/ EndIf \/ EndWhile \/ IteratorParsed \/ IterableParsed \/ EndFor
    BY <2>3, BranchMoves
  <2>4. CASE \/ EndReturn \/ VariableNamed \/ VariableTyped \/ EndVariable
             \/ EndMatchStatement \/ EndExpressionStatement
    BY <2>4, SimpleStatementMoves
  <2>5. QED
    BY <1>3, <2>1, <2>2, <2>3, <2>4, Zenon DEF StatementStep
<1>4. CASE ExpressionStep
  <2>1. CASE ParseAssignment \/ LeftParsed \/ EndAssignment
    BY <2>1, AssignmentMoves
  <2>2. CASE ParseBinary \/ OperandParsed \/ ParseOperator \/ RightParsed
    BY <2>2, BinaryMoves
  <2>3. CASE ParseUnary \/ EndPrefix \/ EndPostfix
    BY <2>3, UnaryMoves
  <2>4. CASE ParsePrimary \/ InnerParsed \/ EndMatch
    BY <2>4, PrimaryMoves
  <2>5. CASE ParsePostfix \/ ArgumentParsed \/ EndCall
    BY <2>5, PostfixMoves
  <2>6. QED
    BY <1>4, <2>1, <2>2, <2>3, <2>4, <2>5, Zenon DEF ExpressionStep
<1>5. QED
  BY <1>1, <1>2, <1>3, <1>4 DEF Next, Finished

(* A program that has not begun holds nothing. *)
LEMMA InitBuilt ==
  ASSUME Init
  PROVE  BuiltInv
<1> DEFINE f == [Frame("Program", FreshContext) EXCEPT !.point = "declarations"]
<1>1. /\ nodes = <<>> /\ calls = <<f>> /\ returned = 0 /\ context = FreshContext
      /\ context.position = 0 /\ context.had_error = FALSE
  BY DEF Init, FreshContext
<1>2. /\ f.routine = "Program" /\ f.point = "declarations" /\ f.parts = <<>>
      /\ f.from = 0 /\ f.start = 0
  BY DEF Frame, FreshContext
<1> HIDE DEF f
<1>3. /\ Len(<<f>>) = 1 /\ Head(<<f>>) = f /\ 2..1 = {} /\ Len(<<>>) = 0 /\ 1..0 = {}
  OBVIOUS
<1>4. Fits(nodes, Shape("Program", "declarations"), <<>>)
  BY FitsNone, DeclarationShapes DEF ListOf
<1>5. Carried(nodes, f, <<>>, 0)
  BY <1>3 DEF Carried, Ordered, Between, Behinds
<1>6. "Program" \notin Expressing /\ "Program" \notin Beginning
  BY DEF Expressing, Beginning, Taking, Named
<1>7. FrameSound(nodes, f, 0)
  <2>1. f.from <= f.start /\ f.start <= 0
    BY <1>2
  <2>2. QED
    BY <1>2, <1>4, <1>5, <1>6, <2>1 DEF FrameSound
<1>8. ~Owing(f)
  BY <1>2 DEF Owing
<1>9. TopSound(nodes, f, 0, 0, FALSE)
  BY <1>7, <1>8 DEF TopSound, AnswerSound
<1>10. QED
  BY <1>1, <1>3, <1>9 DEF BuiltInv, Built

(* Steps keep it. *)
LEMMA StepBuilt ==
  ASSUME IInv, BuiltInv, [Next]_vars
  PROVE  BuiltInv'
<1>1. IInv'
  BY StepGood
<1>2. CASE UNCHANGED vars
  <2>1. nodes' = nodes /\ calls' = calls /\ returned' = returned /\ context' = context
    BY <1>2 DEF vars
  <2>2. BuiltInv' = BuiltInv
    BY <2>1 DEF BuiltInv
  <2>3. QED
    BY <2>2
<1>3. CASE Running /\ Move
  BY <1>1, <1>3, MoveBuilt
<1>4. QED
  BY <1>2, <1>3, StepMoves

(* Every node has the parts its members have, and they stand one after the  *)
(* other in the text the node was made from.                                *)
THEOREM NodesBuilt == Spec => [](\A i \in NodeIds : FitsItsRoles(i) /\ NodeSound(nodes, i))
<1>1. ASSUME BuiltInv PROVE \A i \in NodeIds : FitsItsRoles(i) /\ NodeSound(nodes, i)
  <2> TAKE i \in NodeIds
  <2>1. NodeSound(nodes, i)
    BY <1>1 DEF BuiltInv, Built, NodeIds
  <2>2. Fits(nodes, RolesOf(nodes[i].kind), nodes[i].parts)
    BY <2>1 DEF NodeSound
  <2>3. FitsItsRoles(i)
    BY <2>2, Zenon DEF Fits, FitsItsRoles
  <2>4. QED
    BY <2>1, <2>3
<1>2. Init => BuiltInv
  BY InitBuilt
<1>3. IInv /\ BuiltInv /\ [Next]_vars => BuiltInv'
  BY StepBuilt
<1>4. QED
  BY <1>1, <1>2, <1>3, Invariance, PTL DEF Spec
=============================================================================
