------------------------- MODULE ParserOwnersProofs -------------------------
(***************************************************************************)
(* Theorems of the trees that Parser builds, for every set of token        *)
(* streams and configurations: no node is held twice and without errors    *)
(* none is lost; a node spans text it was made from, and its parts.        *)
(***************************************************************************)
EXTENDS ParserTreeProofs

-----------------------------------------------------------------------------
(* Owners.  What a function passes on, it does not keep.                    *)

Once(parts) == \A k, l \in 1..Len(parts) : parts[k] # 0 /\ parts[k] = parts[l] => k = l
Apart(a, b) == \A i \in Indices(a) : i # 0 => i \notin Indices(b)

(* No two of the nodes and frames hold the same part. *)
Settled(tree, frames) ==
  /\ \A i \in 1..Len(tree) : Once(tree[i].parts)
  /\ \A d \in 1..Len(frames) : Once(frames[d].parts)
  /\ \A i, j \in 1..Len(tree) : i # j => Apart(tree[i].parts, tree[j].parts)
  /\ \A d, e \in 1..Len(frames) : d # e => Apart(frames[d].parts, frames[e].parts)
  /\ \A i \in 1..Len(tree), d \in 1..Len(frames) : Apart(tree[i].parts, frames[d].parts)

(* None of them holds one of S. *)
Clear(tree, frames, S) ==
  \A i \in S : i # 0 =>
    /\ \A j \in 1..Len(tree) : i \notin Indices(tree[j].parts)
    /\ \A d \in 1..Len(frames) : i \notin Indices(frames[d].parts)

(* What is returned is not held by another, but for the statement that a    *)
(* block is given again.  Without errors every node is held.                *)
Returning(tree, frames, r) ==
  IF frames = <<>> THEN Clear(tree, <<>>, {r})
  ELSE /\ Clear(tree, Tail(frames), {r})
       /\ r # 0 /\ r \in Indices(Head(frames).parts) => Is(Head(frames), "Block", {"statement"})
Found(tree, frames, r, i) ==
  \/ tree[i].kind = "Attribute" \/ i = r
  \/ \E j \in 1..Len(tree) : i \in Indices(tree[j].parts)
  \/ \E d \in 1..Len(frames) : i \in Indices(frames[d].parts)
HeldInv ==
  /\ Settled(nodes, calls) /\ Returning(nodes, calls, returned)
  /\ ~context.had_error => \A i \in 1..Len(nodes) : Found(nodes, calls, returned, i)

(* Being apart goes both ways. *)
LEMMA ApartBoth ==
  ASSUME NEW a, NEW b, Apart(a, b)
  PROVE  Apart(b, a)
  BY DEF Apart

(* A frame below the others. *)
LEMMA TailIs ==
  ASSUME NEW S, NEW s \in Seq(S), s # <<>>
  PROVE  /\ Tail(s) \in Seq(S) /\ Len(Tail(s)) = Len(s) - 1 /\ Len(s) \in Nat
         /\ \A d \in 1..Len(Tail(s)) : d + 1 \in 1..Len(s) /\ Tail(s)[d] = s[d + 1]
         /\ 1 \in 1..Len(s) /\ Head(s) = s[1] /\ s[1] \in S
         /\ \A d \in 2..Len(s) : d - 1 \in 1..Len(Tail(s)) /\ s[d] = Tail(s)[d - 1]
  OBVIOUS

(* A frame put on top. *)
LEMMA PutOn ==
  ASSUME NEW S, NEW s \in Seq(S), NEW g
  PROVE  LET more == <<g>> \o s IN
         /\ Len(more) = Len(s) + 1 /\ Len(s) \in Nat /\ more[1] = g /\ Head(more) = g
         /\ \A d \in 1..Len(s) : more[d + 1] = s[d]
         /\ \A d \in 1..Len(more) : d = 1 \/ (d - 1 \in 1..Len(s) /\ more[d] = s[d - 1])
         /\ more # <<>>
<1>1. <<g>> \in Seq({g}) /\ Len(<<g>>) = 1 /\ <<g>>[1] = g
  OBVIOUS
<1> DEFINE more == <<g>> \o s
<1>2. /\ Len(more) = 1 + Len(s) /\ Len(s) \in Nat
      /\ \A d \in 1..1 + Len(s) : more[d] = IF d <= 1 THEN <<g>>[d] ELSE s[d - 1]
  BY <1>1
<1>3. Head(more) = more[1]
  OBVIOUS
<1> HIDE DEF more
<1>4. Len(more) = Len(s) + 1 /\ Len(s) \in Nat /\ more[1] = g
  BY <1>1, <1>2
<1>5. \A d \in 1..Len(s) : more[d + 1] = s[d]
  BY <1>2
<1>6. \A d \in 1..Len(more) : d = 1 \/ (d - 1 \in 1..Len(s) /\ more[d] = s[d - 1])
  <2> TAKE d \in 1..Len(more)
  <2>1. d \in 1..1 + Len(s) /\ d \in Int
    BY <1>2
  <2>2. CASE d # 1
    <3>1. ~(d <= 1) /\ d - 1 \in 1..Len(s)
      BY <1>2, <2>1, <2>2
    <3>2. QED
      BY <1>2, <2>1, <3>1
  <2>3. QED
    BY <2>2
<1>7. more # <<>>
  <2>1. Len(more) >= 1
    BY <1>4
  <2>2. QED
    BY <2>1, LongEnough
<1>8. QED
  BY <1>3, <1>4, <1>5, <1>6, <1>7 DEF more

(* Two put on top of others. *)
LEMMA TwoOn ==
  ASSUME NEW S, NEW rest \in Seq(S), NEW g \in S, NEW callee \in S
  PROVE  <<callee, g>> \o rest = <<callee>> \o (<<g>> \o rest)
<1>1. <<callee>> \in Seq(S) /\ <<g>> \in Seq(S) /\ <<callee, g>> \in Seq(S)
  OBVIOUS
<1>2. <<callee, g>> = <<callee>> \o <<g>>
  <2> DEFINE both == <<callee>> \o <<g>>
  <2>1. /\ both \in Seq(S) /\ Len(both) = Len(<<callee>>) + Len(<<g>>)
        /\ \A i \in 1..Len(<<callee>>) + Len(<<g>>) :
             both[i] = IF i <= Len(<<callee>>) THEN <<callee>>[i] ELSE <<g>>[i - Len(<<callee>>)]
    BY <1>1, ConcatProperties
  <2>2. Len(<<callee>>) = 1 /\ Len(<<g>>) = 1 /\ Len(<<callee, g>>) = 2
        /\ <<callee>>[1] = callee /\ <<g>>[1] = g
        /\ <<callee, g>>[1] = callee /\ <<callee, g>>[2] = g
    OBVIOUS
  <2> HIDE DEF both
  <2>3. Len(both) = 2 /\ both[1] = callee /\ both[2] = g
    BY <2>1, <2>2
  <2>4. \A i \in 1..2 : i = 1 \/ i = 2
    OBVIOUS
  <2>5. \A i \in 1..Len(<<callee, g>>) : <<callee, g>>[i] = both[i]
    BY <2>2, <2>3, <2>4
  <2>6. <<callee, g>> = both
    BY <1>1, <2>1, <2>2, <2>3, <2>5, SeqEqual
  <2>7. QED
    BY <2>6 DEF both
<1>3. (<<callee>> \o <<g>>) \o rest = <<callee>> \o (<<g>> \o rest)
  BY <1>1, ConcatAssociative
<1>4. QED
  BY <1>2, <1>3

(* The frame that runs taken off. *)
LEMMA Opened ==
  ASSUME NEW tree, NEW S, NEW frames \in Seq(S), frames # <<>>, Settled(tree, frames)
  PROVE  /\ Settled(tree, Tail(frames)) /\ Once(Head(frames).parts)
         /\ Clear(tree, Tail(frames), Indices(Head(frames).parts))
<1> DEFINE rest == Tail(frames)
<1>1. /\ \A d \in 1..Len(rest) : d + 1 \in 1..Len(frames) /\ rest[d] = frames[d + 1] /\ d + 1 # 1
      /\ 1 \in 1..Len(frames) /\ Head(frames) = frames[1]
      /\ \A d, e \in 1..Len(rest) : d # e => d + 1 # e + 1
  BY TailIs
<1> HIDE DEF rest
<1>2. Settled(tree, rest)
  BY <1>1 DEF Settled
<1>3. Once(Head(frames).parts)
  BY <1>1 DEF Settled
<1>4. \A i \in 1..Len(tree) : Apart(Head(frames).parts, tree[i].parts)
  BY <1>1, ApartBoth DEF Settled
<1>5. \A d \in 1..Len(rest) : Apart(Head(frames).parts, rest[d].parts)
  BY <1>1 DEF Settled
<1>6. Clear(tree, rest, Indices(Head(frames).parts))
  BY <1>4, <1>5, Zenon DEF Clear, Apart
<1>7. QED
  BY <1>2, <1>3, <1>6 DEF rest

(* A frame put on top that holds what no other does. *)
LEMMA Closed ==
  ASSUME NEW tree, NEW S, NEW rest \in Seq(S), Settled(tree, rest),
         NEW g, Once(g.parts), Clear(tree, rest, Indices(g.parts))
  PROVE  /\ Settled(tree, <<g>> \o rest)
         /\ \A T : Clear(tree, rest, T) /\ (\A i \in T : i # 0 => i \notin Indices(g.parts))
                     => Clear(tree, <<g>> \o rest, T)
<1> DEFINE frames == <<g>> \o rest
<1>1. /\ \A d \in 1..Len(frames) : d = 1 \/ (d - 1 \in 1..Len(rest) /\ frames[d] = rest[d - 1])
      /\ frames[1] = g
  BY PutOn
<1>2. \A d, e \in 1..Len(frames) : d # e => d - 1 # e - 1
  <2>1. Len(frames) \in Nat
    BY PutOn
  <2> HIDE DEF frames
  <2>2. QED
    BY <2>1
<1> HIDE DEF frames
<1>3. /\ \A i \in 1..Len(tree) : Apart(g.parts, tree[i].parts)
      /\ \A d \in 1..Len(rest) : Apart(g.parts, rest[d].parts)
  BY DEF Clear, Apart
<1>4. /\ \A i \in 1..Len(tree) : Apart(tree[i].parts, g.parts)
      /\ \A d \in 1..Len(rest) : Apart(rest[d].parts, g.parts)
  BY <1>3, ApartBoth
<1>5. \A d \in 1..Len(frames) : Once(frames[d].parts)
  <2> TAKE d \in 1..Len(frames)
  <2>1. CASE d = 1
    BY <1>1, <2>1
  <2>2. CASE d # 1
    BY <1>1, <2>2 DEF Settled
  <2>3. QED
    BY <2>1, <2>2
<1>6. \A d, e \in 1..Len(frames) : d # e => Apart(frames[d].parts, frames[e].parts)
  <2> SUFFICES ASSUME NEW d \in 1..Len(frames), NEW e \in 1..Len(frames), d # e
               PROVE  Apart(frames[d].parts, frames[e].parts)
    OBVIOUS
  <2>1. CASE d = 1
    <3>1. e - 1 \in 1..Len(rest) /\ frames[e] = rest[e - 1] /\ frames[d] = g
      BY <1>1, <2>1
    <3>2. QED
      BY <1>3, <3>1
  <2>2. CASE e = 1
    <3>1. d - 1 \in 1..Len(rest) /\ frames[d] = rest[d - 1] /\ frames[e] = g
      BY <1>1, <2>2
    <3>2. QED
      BY <1>4, <3>1
  <2>3. CASE d # 1 /\ e # 1
    <3>1. /\ d - 1 \in 1..Len(rest) /\ frames[d] = rest[d - 1]
          /\ e - 1 \in 1..Len(rest) /\ frames[e] = rest[e - 1] /\ d - 1 # e - 1
      BY <1>1, <1>2, <2>3
    <3>2. Apart(rest[d - 1].parts, rest[e - 1].parts)
      BY <3>1 DEF Settled
    <3>3. QED
      BY <3>1, <3>2
  <2>4. QED
    BY <2>1, <2>2, <2>3
<1>7. \A i \in 1..Len(tree), d \in 1..Len(frames) : Apart(tree[i].parts, frames[d].parts)
  <2> SUFFICES ASSUME NEW i \in 1..Len(tree), NEW d \in 1..Len(frames)
               PROVE  Apart(tree[i].parts, frames[d].parts)
    OBVIOUS
  <2>1. CASE d = 1
    BY <1>1, <1>4, <2>1
  <2>2. CASE d # 1
    BY <1>1, <2>2 DEF Settled
  <2>3. QED
    BY <2>1, <2>2
<1>8. Settled(tree, frames)
  <2>1. /\ \A i \in 1..Len(tree) : Once(tree[i].parts)
        /\ \A i, j \in 1..Len(tree) : i # j => Apart(tree[i].parts, tree[j].parts)
    BY DEF Settled
  <2>2. QED
    BY <1>5, <1>6, <1>7, <2>1, Zenon DEF Settled
<1>9. ASSUME NEW T, Clear(tree, rest, T), \A i \in T : i # 0 => i \notin Indices(g.parts)
      PROVE  Clear(tree, frames, T)
  <2> SUFFICES ASSUME NEW i \in T, i # 0
               PROVE  /\ \A j \in 1..Len(tree) : i \notin Indices(tree[j].parts)
                      /\ \A d \in 1..Len(frames) : i \notin Indices(frames[d].parts)
    BY DEF Clear
  <2>1. /\ \A j \in 1..Len(tree) : i \notin Indices(tree[j].parts)
        /\ \A d \in 1..Len(rest) : i \notin Indices(rest[d].parts)
        /\ i \notin Indices(g.parts)
    BY <1>9 DEF Clear
  <2>2. QED
    BY <1>1, <2>1
<1>10. QED
  BY <1>8, <1>9 DEF frames

(* A node added that holds what no other does. *)
LEMMA Added ==
  ASSUME NEW tree \in Seq(Node), NEW rest, Settled(tree, rest), NEW node,
         Once(node.parts), Clear(tree, rest, Indices(node.parts)),
         NEW more, Len(more) = Len(tree) + 1, more[Len(tree) + 1] = node,
         \A i \in 1..Len(tree) : more[i] = tree[i]
  PROVE  /\ Settled(more, rest)
         /\ \A T : Clear(tree, rest, T) /\ (\A i \in T : i # 0 => i \notin Indices(node.parts))
                     => Clear(more, rest, T)
<1>1. \A i \in 1..Len(more) : i = Len(tree) + 1 \/ i \in 1..Len(tree)
  <2>1. Len(tree) \in Nat
    OBVIOUS
  <2>2. QED
    BY <2>1
<1> DEFINE m == Len(tree) + 1
<1>2. /\ \A i \in 1..Len(more) : i = m \/ (i \in 1..Len(tree) /\ more[i] = tree[i])
      /\ more[m] = node
  <2>1. \A i \in 1..Len(more) : i = m \/ (i \in 1..Len(tree) /\ more[i] = tree[i])
    BY <1>1
  <2>2. QED
    BY <2>1
<1> HIDE DEF m
<1>3. /\ \A i \in 1..Len(tree) : Apart(node.parts, tree[i].parts)
      /\ \A d \in 1..Len(rest) : Apart(node.parts, rest[d].parts)
  BY DEF Clear, Apart
<1>4. \A i \in 1..Len(tree) : Apart(tree[i].parts, node.parts)
  BY <1>3, ApartBoth
<1>5. \A i \in 1..Len(more) : Once(more[i].parts)
  <2> TAKE i \in 1..Len(more)
  <2>1. CASE i = m
    BY <1>2, <2>1
  <2>2. CASE i # m
    BY <1>2, <2>2 DEF Settled
  <2>3. QED
    BY <2>1, <2>2
<1>6. \A i, j \in 1..Len(more) : i # j => Apart(more[i].parts, more[j].parts)
  <2> SUFFICES ASSUME NEW i \in 1..Len(more), NEW j \in 1..Len(more), i # j
               PROVE  Apart(more[i].parts, more[j].parts)
    OBVIOUS
  <2>1. CASE i = m
    <3>1. j \in 1..Len(tree) /\ more[j] = tree[j] /\ more[i] = node
      BY <1>2, <2>1
    <3>2. QED
      BY <1>3, <3>1
  <2>2. CASE j = m
    <3>1. i \in 1..Len(tree) /\ more[i] = tree[i] /\ more[j] = node
      BY <1>2, <2>2
    <3>2. QED
      BY <1>4, <3>1
  <2>3. CASE i # m /\ j # m
    BY <1>2, <2>3 DEF Settled
  <2>4. QED
    BY <2>1, <2>2, <2>3
<1>7. \A i \in 1..Len(more), d \in 1..Len(rest) : Apart(more[i].parts, rest[d].parts)
  <2> SUFFICES ASSUME NEW i \in 1..Len(more), NEW d \in 1..Len(rest)
               PROVE  Apart(more[i].parts, rest[d].parts)
    OBVIOUS
  <2>1. CASE i = m
    BY <1>2, <1>3, <2>1
  <2>2. CASE i # m
    BY <1>2, <2>2 DEF Settled
  <2>3. QED
    BY <2>1, <2>2
<1>8. Settled(more, rest)
  <2>1. /\ \A d \in 1..Len(rest) : Once(rest[d].parts)
        /\ \A d, e \in 1..Len(rest) : d # e => Apart(rest[d].parts, rest[e].parts)
    BY DEF Settled
  <2>2. QED
    BY <1>5, <1>6, <1>7, <2>1, Zenon DEF Settled
<1>9. ASSUME NEW T, Clear(tree, rest, T), \A i \in T : i # 0 => i \notin Indices(node.parts)
      PROVE  Clear(more, rest, T)
  <2> SUFFICES ASSUME NEW i \in T, i # 0
               PROVE  /\ \A j \in 1..Len(more) : i \notin Indices(more[j].parts)
                      /\ \A d \in 1..Len(rest) : i \notin Indices(rest[d].parts)
    BY DEF Clear
  <2>1. /\ \A j \in 1..Len(tree) : i \notin Indices(tree[j].parts)
        /\ \A d \in 1..Len(rest) : i \notin Indices(rest[d].parts)
        /\ i \notin Indices(node.parts)
    BY <1>9 DEF Clear
  <2>2. QED
    BY <1>2, <2>1
<1>10. QED
  BY <1>8, <1>9

-----------------------------------------------------------------------------
(* What a step finds: neither what the frame holds nor what was returned to *)
(* it is held by another.                                                   *)
LEMMA Owns ==
  ASSUME IInv, Running, BuiltInv, HeldInv
  PROVE  /\ Settled(nodes, Tail(calls)) /\ Once(frame.parts)
         /\ Clear(nodes, Tail(calls), Indices(frame.parts) \union {returned})
         /\ returned # 0 /\ returned \in Indices(frame.parts) => At("Block", "statement")
         /\ Tail(calls) \in Seq(FrameRecord) /\ Head(calls) = frame
<1>1. calls \in Seq(FrameRecord) /\ calls # <<>> /\ frame = calls[1]
  BY WorkFacts
<1>2. Head(calls) = frame /\ Tail(calls) \in Seq(FrameRecord)
  BY <1>1, TailIs
<1>3. /\ Settled(nodes, Tail(calls)) /\ Once(frame.parts)
      /\ Clear(nodes, Tail(calls), Indices(frame.parts))
  BY <1>1, <1>2, Opened DEF HeldInv
<1>4. /\ Clear(nodes, Tail(calls), {returned})
      /\ returned # 0 /\ returned \in Indices(frame.parts) => Is(frame, "Block", {"statement"})
  BY <1>1, <1>2 DEF HeldInv, Returning
<1>5. Clear(nodes, Tail(calls), Indices(frame.parts) \union {returned})
  BY <1>3, <1>4 DEF Clear
<1>6. Is(frame, "Block", {"statement"}) => At("Block", "statement")
  BY DEF Is, At
<1>7. QED
  BY <1>2, <1>3, <1>4, <1>5, <1>6

(* What it takes along is its own, and there once. *)
LEMMA TakenOnce ==
  ASSUME IInv, Running, BuiltInv, HeldInv, NEW P \in Taken, Single(P)
  PROVE  Once(P) /\ Clear(nodes, Tail(calls), Indices(P))
         /\ Indices(P) \subseteq Indices(frame.parts) \union {returned}
<1>1. P = <<>> \/ P = frame.parts \/ P = Held
  BY DEF Taken
<1>2. Indices(<<>>) = {} /\ Once(<<>>)
  BY DEF Indices, Once
<1>3. /\ Len(Held) = Len(frame.parts) + 1 /\ Len(frame.parts) \in Nat
      /\ \A k \in 1..Len(frame.parts) : Held[k] = frame.parts[k]
      /\ Held[Len(frame.parts) + 1] = returned
      /\ \A k \in 1..Len(Held) : k \in 1..Len(frame.parts) \/ k = Len(frame.parts) + 1
      /\ Indices(Held) \subseteq Indices(frame.parts) \union {returned}
  BY HeldIs
<1>4. Indices(P) \subseteq Indices(frame.parts) \union {returned}
  BY <1>1, <1>2, <1>3
<1>5. Clear(nodes, Tail(calls), Indices(P))
  BY <1>4, Owns DEF Clear
<1>6. CASE P = Held
  <2>1. returned # 0 => \A k \in 1..Len(frame.parts) : frame.parts[k] # returned
    BY <1>6, Owns DEF Single, Indices
  <2>2. ASSUME NEW k \in 1..Len(Held), NEW l \in 1..Len(Held), Held[k] # 0, Held[k] = Held[l]
        PROVE  k = l
    <3>1. CASE k \in 1..Len(frame.parts) /\ l \in 1..Len(frame.parts)
      BY <1>3, <2>2, <3>1, Owns DEF Once
    <3>2. CASE k = Len(frame.parts) + 1 /\ l \in 1..Len(frame.parts)
      BY <1>3, <2>1, <2>2, <3>2
    <3>3. CASE k \in 1..Len(frame.parts) /\ l = Len(frame.parts) + 1
      BY <1>3, <2>1, <2>2, <3>3
    <3>4. QED
      BY <1>3, <3>1, <3>2, <3>3
  <2>3. Once(P)
    BY <1>6, <2>2 DEF Once
  <2>4. QED
    BY <1>4, <1>5, <2>3
<1>7. CASE P # Held
  BY <1>1, <1>2, <1>4, <1>5, <1>7, Owns
<1>8. QED
  BY <1>6, <1>7

(* The node that is made is held by none. *)
LEMMA FreshClear ==
  ASSUME IInv, Running, BuiltInv
  PROVE  /\ Clear(nodes, Tail(calls), {Fresh})
         /\ Fresh \notin Indices(frame.parts) \union {returned} /\ Fresh # 0 /\ Fresh \in Nat
<1>1. /\ Indices(frame.parts) \subseteq 0..Len(nodes) /\ returned \in 0..Len(nodes)
      /\ Len(nodes) \in Nat /\ Older(nodes) /\ calls \in Seq(FrameRecord) /\ calls # <<>>
  BY WorkFacts
<1>2. Fresh # 0 /\ Fresh \in Nat /\ Fresh \notin 0..Len(nodes)
  BY <1>1 DEF Fresh
<1>3. \A j \in 1..Len(nodes) : Fresh \notin Indices(nodes[j].parts)
  <2> TAKE j \in 1..Len(nodes)
  <2>1. Fresh \notin 0..j - 1
    BY <1>1 DEF Fresh
  <2>2. QED
    BY <1>1, <2>1 DEF Older
<1>4. \A d \in 1..Len(Tail(calls)) : Fresh \notin Indices(Tail(calls)[d].parts)
  <2> TAKE d \in 1..Len(Tail(calls))
  <2>1. d + 1 \in 1..Len(calls) /\ Tail(calls)[d] = calls[d + 1]
    BY <1>1, TailIs
  <2>2. Indices(calls[d + 1].parts) \subseteq 0..Len(nodes)
    BY <2>1 DEF IInv, CallsInv, GoodFrame
  <2>3. QED
    BY <1>2, <2>1, <2>2
<1>5. QED
  BY <1>1, <1>2, <1>3, <1>4 DEF Clear

-----------------------------------------------------------------------------
(* What a step leaves. *)

(* What neither the nodes nor the callers hold is in parts. *)
Left(tree, rest, parts, i) ==
  \/ tree[i].kind = "Attribute"
  \/ \E j \in 1..Len(tree) : i \in Indices(tree[j].parts)
  \/ \E d \in 1..Len(rest) : i \in Indices(rest[d].parts)
  \/ i \in Indices(parts)

(* A step that keeps what it finds leaves every node held. *)
LEMMA KeepingLeft ==
  ASSUME IInv, Running, BuiltInv, HeldInv, NEW c, Onto(c), ~c.had_error, NEW parts,
         Keeping(c, parts)
  PROVE  \A i \in 1..Len(nodes) : Left(nodes, Tail(calls), parts, i)
<1> TAKE i \in 1..Len(nodes)
<1>1. ~context.had_error
  BY DEF Onto, Lasts
<1>2. Found(nodes, calls, returned, i)
  BY <1>1 DEF HeldInv
<1>3. calls \in Seq(FrameRecord) /\ calls # <<>> /\ frame = calls[1] /\ Len(nodes) \in Nat
  BY WorkFacts
<1>4. i \in Indices(frame.parts) \union {returned} => Left(nodes, Tail(calls), parts, i)
  <2>1. i # 0
    BY <1>3
  <2>2. QED
    BY <2>1 DEF Keeping, Left
<1>5. ASSUME NEW d \in 1..Len(calls), i \in Indices(calls[d].parts)
      PROVE  Left(nodes, Tail(calls), parts, i)
  <2>1. CASE d = 1
    BY <1>3, <1>4, <1>5, <2>1
  <2>2. CASE d # 1
    <3>1. d \in 2..Len(calls)
      BY <2>2
    <3>2. d - 1 \in 1..Len(Tail(calls)) /\ calls[d] = Tail(calls)[d - 1]
      BY <1>3, <3>1, TailIs
    <3>3. QED
      BY <1>5, <3>2 DEF Left
  <2>3. QED
    BY <2>1, <2>2
<1>6. QED
  BY <1>2, <1>4, <1>5 DEF Found, Left

(* It goes on in a frame. *)
LEMMA HeldOn ==
  ASSUME NEW tree, NEW S, NEW rest \in Seq(S), Settled(tree, rest),
         NEW g, Once(g.parts), Clear(tree, rest, Indices(g.parts))
  PROVE  LET frames == <<g>> \o rest IN
         /\ Settled(tree, frames) /\ Returning(tree, frames, 0)
         /\ \A i : Left(tree, rest, g.parts, i) => Found(tree, frames, 0, i)
<1> DEFINE frames == <<g>> \o rest
<1>1. Settled(tree, frames)
  BY Closed
<1>2. /\ Len(frames) = Len(rest) + 1 /\ Len(rest) \in Nat
      /\ \A d \in 1..Len(rest) : frames[d + 1] = rest[d]
      /\ frames[1] = g
  BY PutOn
<1> HIDE DEF frames
<1>3. Returning(tree, frames, 0)
  BY DEF Returning, Clear
<1>4. 1 \in 1..Len(frames) /\ \A d \in 1..Len(rest) : d + 1 \in 1..Len(frames)
  BY <1>2
<1>5. \A i : Left(tree, rest, g.parts, i) => Found(tree, frames, 0, i)
  BY <1>2, <1>4 DEF Left, Found
<1>6. QED
  BY <1>1, <1>3, <1>5 DEF frames

(* It calls another function, which holds nothing yet. *)
LEMMA HeldCalling ==
  ASSUME NEW tree, NEW S, NEW rest \in Seq(S), Settled(tree, rest),
         NEW g \in S, Once(g.parts), Clear(tree, rest, Indices(g.parts)),
         NEW callee, callee.parts = <<>>
  PROVE  LET frames == <<callee, g>> \o rest IN
         /\ Settled(tree, frames) /\ Returning(tree, frames, 0)
         /\ \A i : Left(tree, rest, g.parts, i) => Found(tree, frames, 0, i)
<1> DEFINE below == <<g>> \o rest
           frames == <<callee, g>> \o rest
           T == S \union {callee}
<1>1. frames = <<callee>> \o below /\ below \in Seq(S)
  <2>1. <<g>> \in Seq(S) /\ rest \in Seq(T) /\ g \in T /\ callee \in T
    OBVIOUS
  <2>2. below \in Seq(S)
    BY <2>1
  <2>3. frames = <<callee>> \o below
    <3> HIDE DEF T
    <3>1. QED
      BY <2>1, TwoOn
  <2>4. QED
    BY <2>2, <2>3
<1>2. Settled(tree, below) /\ \A i : Left(tree, rest, g.parts, i) => Found(tree, below, 0, i)
  BY HeldOn
<1>3. Once(callee.parts) /\ Indices(callee.parts) = {}
  BY DEF Once, Indices
<1>4. Clear(tree, below, Indices(callee.parts))
  BY <1>3 DEF Clear
<1> HIDE DEF below, frames
<1>5. /\ Settled(tree, frames) /\ Returning(tree, frames, 0)
      /\ \A i : Left(tree, below, callee.parts, i) => Found(tree, frames, 0, i)
  BY <1>1, <1>2, <1>3, <1>4, HeldOn
<1>6. \A i : Found(tree, below, 0, i) => i = 0 \/ Left(tree, below, callee.parts, i)
  BY DEF Found, Left
<1>7. ASSUME NEW i, Left(tree, rest, g.parts, i) PROVE Found(tree, frames, 0, i)
  <2>1. i = 0 => Found(tree, frames, 0, i)
    BY DEF Found
  <2>2. QED
    BY <1>2, <1>5, <1>6, <1>7, <2>1
<1>8. QED
  BY <1>5, <1>7 DEF frames

(* It returns. *)
LEMMA HeldBack ==
  ASSUME NEW tree, NEW rest \in Seq(FrameRecord), Settled(tree, rest), NEW r, Clear(tree, rest, {r})
  PROVE  /\ Returning(tree, rest, r)
         /\ \A i : Left(tree, rest, <<r>>, i) => Found(tree, rest, r, i)
<1>1. Indices(<<r>>) = {r}
  BY DEF Indices
<1>2. \A i : Left(tree, rest, <<r>>, i) => Found(tree, rest, r, i)
  BY <1>1 DEF Left, Found
<1>3. CASE rest = <<>>
  <2>1. Clear(tree, <<>>, {r})
    BY <1>3
  <2>2. QED
    BY <1>2, <1>3, <2>1 DEF Returning
<1>4. CASE rest # <<>>
  <2>1. /\ \A d \in 1..Len(Tail(rest)) : d + 1 \in 1..Len(rest) /\ Tail(rest)[d] = rest[d + 1]
        /\ 1 \in 1..Len(rest) /\ Head(rest) = rest[1]
    BY <1>4, TailIs
  <2>2. Clear(tree, Tail(rest), {r})
    BY <2>1 DEF Clear
  <2>3. r # 0 => r \notin Indices(Head(rest).parts)
    BY <2>1 DEF Clear
  <2>4. QED
    BY <1>2, <1>4, <2>2, <2>3 DEF Returning
<1>5. QED
  BY <1>3, <1>4

(* A node is made of parts. *)
LEMMA HeldMade ==
  ASSUME IInv, Running, BuiltInv, HeldInv, NEW node, Once(node.parts),
         Indices(node.parts) \subseteq Indices(frame.parts) \union {returned},
         nodes' = Append(nodes, node)
  PROVE  /\ Settled(nodes', Tail(calls)) /\ Clear(nodes', Tail(calls), {Fresh})
         /\ \A T : Clear(nodes, Tail(calls), T)
                     /\ (\A i \in T : i # 0 => i \notin Indices(node.parts))
                     => Clear(nodes', Tail(calls), T)
         /\ \A i \in 1..Len(nodes') : i = Fresh \/ i \in 1..Len(nodes)
         /\ \A i \in 1..Len(nodes) : \A parts : Left(nodes, Tail(calls), node.parts, i)
              => Left(nodes', Tail(calls), parts, i)
         /\ \A i \in 1..Len(nodes) : \A parts, more :
              Left(nodes, Tail(calls), parts, i) /\ Indices(parts) \subseteq Indices(more)
                => Left(nodes', Tail(calls), more, i)
<1> DEFINE rest == Tail(calls)
<1>1. nodes \in Seq(Node) /\ Len(nodes) \in Nat
  BY WorkFacts
<1>2. /\ Len(nodes') = Len(nodes) + 1 /\ nodes'[Len(nodes) + 1] = node
      /\ \A i \in 1..Len(nodes) : nodes'[i] = nodes[i]
  BY <1>1
<1>3. Settled(nodes, rest) /\ Clear(nodes, rest, Indices(node.parts))
  BY Owns DEF Clear
<1>4. /\ Clear(nodes, rest, {Fresh}) /\ \A i \in {Fresh} : i \notin Indices(node.parts)
  BY FreshClear
<1> HIDE DEF rest
<1>5. /\ Settled(nodes', rest)
      /\ \A T : Clear(nodes, rest, T) /\ (\A i \in T : i # 0 => i \notin Indices(node.parts))
                  => Clear(nodes', rest, T)
  BY <1>1, <1>2, <1>3, Added
<1>6. Clear(nodes', rest, {Fresh})
  BY <1>4, <1>5
<1>7. /\ \A i \in 1..Len(nodes') : i = Fresh \/ i \in 1..Len(nodes)
      /\ \A i \in 1..Len(nodes) : i \in 1..Len(nodes')
      /\ Fresh \in 1..Len(nodes') /\ nodes'[Fresh] = node
  BY <1>1, <1>2 DEF Fresh
<1>8. ASSUME NEW i \in 1..Len(nodes), NEW parts, Left(nodes, rest, node.parts, i)
      PROVE  Left(nodes', rest, parts, i)
  BY <1>2, <1>7, <1>8 DEF Left
<1>9. ASSUME NEW i \in 1..Len(nodes), NEW parts, NEW more, Left(nodes, rest, parts, i),
             Indices(parts) \subseteq Indices(more)
      PROVE  Left(nodes', rest, more, i)
  BY <1>2, <1>7, <1>9 DEF Left
<1>10. QED
  BY <1>5, <1>6, <1>7, <1>8, <1>9 DEF rest

-----------------------------------------------------------------------------
(* The moves keep owners: a function that goes on, *)
LEMMA GoesOnHeld ==
  ASSUME IInv, Running, BuiltInv, HeldInv, NEW c, NEW P \in Taken, Moved(c, P),
         NEW g, g.parts = P, context' = c, calls' = <<g>> \o Tail(calls), returned' = 0,
         nodes' = nodes
  PROVE  HeldInv'
<1> DEFINE rest == Tail(calls)
<1>1. /\ Settled(nodes, rest) /\ rest \in Seq(FrameRecord)
      /\ Once(g.parts) /\ Clear(nodes, rest, Indices(g.parts))
  BY Owns, TakenOnce DEF Moved
<1>2. ~c.had_error => \A i \in 1..Len(nodes) : Left(nodes, rest, g.parts, i)
  BY KeepingLeft DEF Moved
<1> HIDE DEF rest
<1>3. /\ Settled(nodes, <<g>> \o rest) /\ Returning(nodes, <<g>> \o rest, 0)
      /\ \A i : Left(nodes, rest, g.parts, i) => Found(nodes, <<g>> \o rest, 0, i)
  BY <1>1, HeldOn
<1>4. calls' = <<g>> \o rest
  BY DEF rest
<1>5. QED
  BY <1>2, <1>3, <1>4 DEF HeldInv

(* one that calls another, *)
LEMMA CallsHeld ==
  ASSUME IInv, Running, BuiltInv, HeldInv, NEW c, NEW P \in Taken, Moved(c, P),
         NEW g, g.parts = P, NEW callee, callee.parts = <<>>,
         context' = c, calls' = <<callee, g>> \o Tail(calls), returned' = 0, nodes' = nodes
  PROVE  HeldInv'
<1> DEFINE rest == Tail(calls)
           S == FrameRecord \union {g}
<1>1. /\ Settled(nodes, rest) /\ rest \in Seq(FrameRecord)
      /\ Once(g.parts) /\ Clear(nodes, rest, Indices(g.parts))
  BY Owns, TakenOnce DEF Moved
<1>2. ~c.had_error => \A i \in 1..Len(nodes) : Left(nodes, rest, g.parts, i)
  BY KeepingLeft DEF Moved
<1> HIDE DEF rest
<1>3. rest \in Seq(S) /\ g \in S
  BY <1>1
<1> HIDE DEF S
<1>4. /\ Settled(nodes, <<callee, g>> \o rest) /\ Returning(nodes, <<callee, g>> \o rest, 0)
      /\ \A i : Left(nodes, rest, g.parts, i) => Found(nodes, <<callee, g>> \o rest, 0, i)
  BY <1>1, <1>3, HeldCalling
<1>5. calls' = <<callee, g>> \o rest
  BY DEF rest
<1>6. QED
  BY <1>2, <1>4, <1>5 DEF HeldInv

(* It gives back one of what it has, or nothing after an error. *)
LEMMA ReturnsHeld ==
  ASSUME IInv, Running, BuiltInv, HeldInv, NEW c, Onto(c), NEW node,
         node \in Indices(frame.parts) \union {returned, 0}, c.had_error \/ Keeping(c, <<node>>),
         context' = c, calls' = Tail(calls), returned' = node, nodes' = nodes
  PROVE  HeldInv'
<1> DEFINE rest == Tail(calls)
<1>1. /\ Settled(nodes, rest) /\ rest \in Seq(FrameRecord)
      /\ Clear(nodes, rest, {node})
  BY Owns DEF Clear
<1>2. ~c.had_error => \A i \in 1..Len(nodes) : Left(nodes, rest, <<node>>, i)
  BY KeepingLeft
<1>3. calls' = rest
  OBVIOUS
<1> HIDE DEF rest
<1>4. /\ Returning(nodes, rest, node)
      /\ \A i : Left(nodes, rest, <<node>>, i) => Found(nodes, rest, node, i)
  BY <1>1, HeldBack
<1>5. QED
  BY <1>1, <1>2, <1>3, <1>4 DEF HeldInv

(* It returns a node made of what it takes along. *)
LEMMA MakesHeld ==
  ASSUME IInv, Running, BuiltInv, HeldInv, NEW c, NEW N \in Taken, Moved(c, N),
         NEW node, node.parts = N,
         context' = c, calls' = Tail(calls), returned' = Fresh, nodes' = Append(nodes, node)
  PROVE  HeldInv'
<1> DEFINE rest == Tail(calls)
<1>1. /\ rest \in Seq(FrameRecord) /\ Once(node.parts)
      /\ Indices(node.parts) \subseteq Indices(frame.parts) \union {returned}
  BY Owns, TakenOnce DEF Moved
<1>2. /\ Settled(nodes', rest) /\ Clear(nodes', rest, {Fresh})
      /\ \A i \in 1..Len(nodes') : i = Fresh \/ i \in 1..Len(nodes)
      /\ \A i \in 1..Len(nodes) : \A parts : Left(nodes, rest, node.parts, i)
           => Left(nodes', rest, parts, i)
  BY <1>1, HeldMade
<1>3. ~c.had_error => \A i \in 1..Len(nodes) : Left(nodes, rest, node.parts, i)
  BY KeepingLeft DEF Moved
<1>4. calls' = rest
  OBVIOUS
<1> HIDE DEF rest
<1>5. /\ Returning(nodes', rest, Fresh)
      /\ \A i : Left(nodes', rest, <<Fresh>>, i) => Found(nodes', rest, Fresh, i)
  BY <1>1, <1>2, HeldBack
<1>6. Found(nodes', rest, Fresh, Fresh)
  BY DEF Found
<1>7. ~c.had_error => \A i \in 1..Len(nodes') : Found(nodes', rest, Fresh, i)
  BY <1>2, <1>3, <1>5, <1>6
<1>8. QED
  BY <1>2, <1>4, <1>5, <1>7 DEF HeldInv

(* It goes on with a node it has made, of N, among its parts. *)
LEMMA KeepsHeld ==
  ASSUME IInv, Running, BuiltInv, HeldInv, NEW c, NEW node, NEW g, Once(node.parts),
         Indices(node.parts) \subseteq Indices(frame.parts) \union {returned},
         Once(g.parts), Fresh \in Indices(g.parts),
         \A i \in Indices(g.parts) : i = Fresh \/ (i \in Indices(frame.parts) \union {returned} /\
           (i # 0 => i \notin Indices(node.parts))),
         ~c.had_error => \A i \in 1..Len(nodes) :
           Left(nodes, Tail(calls), node.parts, i) \/ Left(nodes, Tail(calls), g.parts, i),
         context' = c, calls' = <<g>> \o Tail(calls), returned' = 0, nodes' = Append(nodes, node)
  PROVE  HeldInv'
<1> DEFINE rest == Tail(calls)
           T == Indices(g.parts) \ {Fresh}
<1>1. /\ rest \in Seq(FrameRecord)
      /\ Clear(nodes, rest, Indices(frame.parts) \union {returned})
  BY Owns
<1>2. /\ Settled(nodes', rest) /\ Clear(nodes', rest, {Fresh})
      /\ \A i \in 1..Len(nodes') : i = Fresh \/ i \in 1..Len(nodes)
      /\ \A i \in 1..Len(nodes) : \A parts : Left(nodes, rest, node.parts, i)
           => Left(nodes', rest, parts, i)
      /\ \A i \in 1..Len(nodes) : \A parts, more :
           Left(nodes, rest, parts, i) /\ Indices(parts) \subseteq Indices(more)
             => Left(nodes', rest, more, i)
      /\ \A U : Clear(nodes, rest, U) /\ (\A i \in U : i # 0 => i \notin Indices(node.parts))
                  => Clear(nodes', rest, U)
  BY HeldMade
<1>3. ~c.had_error => \A i \in 1..Len(nodes) :
        Left(nodes, rest, node.parts, i) \/ Left(nodes, rest, g.parts, i)
  OBVIOUS
<1>4. calls' = <<g>> \o rest
  OBVIOUS
<1> HIDE DEF rest
<1>5. Clear(nodes, rest, T) /\ \A i \in T : i # 0 => i \notin Indices(node.parts)
  BY <1>1 DEF Clear
<1>6. Clear(nodes', rest, T)
  BY <1>2, <1>5
<1>7. Clear(nodes', rest, Indices(g.parts))
  <2>1. \A i \in Indices(g.parts) : i \in T \/ i \in {Fresh}
    OBVIOUS
  <2> HIDE DEF T
  <2>2. QED
    BY <1>2, <1>6, <2>1, Zenon DEF Clear
<1> HIDE DEF T
<1>8. /\ Settled(nodes', <<g>> \o rest) /\ Returning(nodes', <<g>> \o rest, 0)
      /\ \A i : Left(nodes', rest, g.parts, i) => Found(nodes', <<g>> \o rest, 0, i)
  BY <1>1, <1>2, <1>7, HeldOn
<1>9. Left(nodes', rest, g.parts, Fresh)
  BY DEF Left
<1>10. ~c.had_error => \A i \in 1..Len(nodes') : Left(nodes', rest, g.parts, i)
  BY <1>2, <1>3, <1>9
<1>11. QED
  BY <1>4, <1>8, <1>10 DEF HeldInv

(* The parts of a list with a new one at its end. *)
LEMMA NewListed ==
  ASSUME NEW parts \in Seq(Nat), Once(parts), NEW r \in Nat, r \notin Indices(parts)
  PROVE  LET more == Append(parts, r) IN
         /\ Once(more) /\ r \in Indices(more)
         /\ \A i \in Indices(more) : i = r \/ i \in Indices(parts)
         /\ Indices(parts) \subseteq Indices(more)
<1> DEFINE more == Append(parts, r)
<1>1. /\ Len(more) = Len(parts) + 1 /\ Len(parts) \in Nat
      /\ \A k \in 1..Len(parts) : more[k] = parts[k]
      /\ more[Len(parts) + 1] = r
      /\ \A k \in 1..Len(more) : k \in 1..Len(parts) \/ k = Len(parts) + 1
  BY AppendIs
<1> HIDE DEF more
<1>2. \A k \in 1..Len(parts) : parts[k] # r /\ k \in 1..Len(more)
  BY <1>1 DEF Indices
<1>3. Once(more)
  <2> SUFFICES ASSUME NEW k \in 1..Len(more), NEW l \in 1..Len(more), more[k] # 0, more[k] = more[l]
               PROVE  k = l
    BY DEF Once
  <2>1. CASE k \in 1..Len(parts) /\ l \in 1..Len(parts)
    BY <1>1, <2>1 DEF Once
  <2>2. CASE k \in 1..Len(parts) /\ l = Len(parts) + 1
    BY <1>1, <1>2, <2>2
  <2>3. CASE k = Len(parts) + 1 /\ l \in 1..Len(parts)
    BY <1>1, <1>2, <2>3
  <2>4. QED
    BY <1>1, <2>1, <2>2, <2>3
<1>4. Len(parts) + 1 \in 1..Len(more)
  BY <1>1
<1>5. r \in Indices(more)
  BY <1>1, <1>4 DEF Indices
<1>6. \A i \in Indices(more) : i = r \/ i \in Indices(parts)
  BY <1>1 DEF Indices
<1>7. Indices(parts) \subseteq Indices(more)
  BY <1>1, <1>2 DEF Indices
<1>8. QED
  BY <1>3, <1>5, <1>6, <1>7 DEF more

(* The parts of a list whose last is replaced by a new one. *)
LEMMA LastRenewed ==
  ASSUME NEW parts \in Seq(Nat), parts # <<>>, Once(parts), NEW r \in Nat, r \notin Indices(parts),
         NEW more, more = [parts EXCEPT ![Len(parts)] = r]
  PROVE  /\ Once(more) /\ r \in Indices(more)
         /\ \A i \in Indices(more) :
              i = r \/ (i \in Indices(parts) /\ (i # 0 => i # Last(parts)))
         /\ \A i \in Indices(parts) : i = Last(parts) \/ i \in Indices(more)
         /\ Last(parts) \in Indices(parts)
<1>0. PICK n : n = Len(parts)
  OBVIOUS
<1>1. /\ n \in Nat /\ n \in 1..n /\ Last(parts) = parts[n]
  BY <1>0 DEF Last
<1>2. /\ Len(more) = n /\ more[n] = r /\ \A k \in 1..n : k # n => more[k] = parts[k]
  BY <1>0, <1>1
<1>3. \A k \in 1..n : parts[k] # r
  BY <1>0 DEF Indices
<1>4. \A k, l \in 1..n : parts[k] # 0 /\ parts[k] = parts[l] => k = l
  BY <1>0 DEF Once
<1>5. \A k, l \in 1..n : more[k] # 0 /\ more[k] = more[l] => k = l
  BY <1>2, <1>3, <1>4
<1>6. Once(more)
  BY <1>2, <1>5 DEF Once
<1>7. Indices(more) = {more[k] : k \in 1..n} /\ Indices(parts) = {parts[k] : k \in 1..n}
  BY <1>0, <1>2 DEF Indices
<1>8. r \in Indices(more) /\ Last(parts) \in Indices(parts)
  BY <1>1, <1>2, <1>7
<1>9. \A i \in Indices(more) : i = r \/ (i \in Indices(parts) /\ (i # 0 => i # Last(parts)))
  <2> TAKE i \in Indices(more)
  <2>1. PICK k \in 1..n : i = more[k]
    BY <1>7
  <2>2. CASE k = n
    BY <1>2, <2>1, <2>2
  <2>3. CASE k # n
    BY <1>1, <1>2, <1>4, <1>7, <2>1, <2>3
  <2>4. QED
    BY <2>2, <2>3
<1>10. \A i \in Indices(parts) : i = Last(parts) \/ i \in Indices(more)
  BY <1>1, <1>2, <1>7
<1>11. QED
  BY <1>6, <1>8, <1>9, <1>10

(* A node of its own joins a list. *)
LEMMA AddsHeld ==
  ASSUME IInv, IInv', Running, BuiltInv, HeldInv, Adds
  PROVE  HeldInv'
<1>1. PICK c, d, point, kind, span, list :
        /\ Moved(c, frame.parts) /\ Begun(c) /\ Onto(d) /\ d.position <= c.position
        /\ ContinueWith(point, c, NodeFrom(context.position, d, kind, span, <<>>),
                        Append(frame.parts, Fresh))
        /\ RolesOf(kind) = Leaf /\ kind \in list
        /\ Fits(nodes, ListOf(list), frame.parts) /\ Shape(frame.routine, point) = ListOf(list)
        /\ Free(point)
  BY DEF Adds
<1> DEFINE node == NodeFrom(context.position, d, kind, span, <<>>)
           g == Resume(point, Append(frame.parts, Fresh))
           more == Append(frame.parts, Fresh)
<1>2. context' = c /\ calls' = <<g>> \o Tail(calls) /\ returned' = 0 /\ nodes' = Append(nodes, node)
  BY <1>1 DEF ContinueWith
<1>3. g.parts = more
  BY ResumedIs
<1>4. node.parts = <<>>
  BY DEF NodeFrom
<1>5. /\ Fresh \in Nat /\ Fresh \notin Indices(frame.parts) /\ frame.parts \in Seq(Nat)
      /\ Once(frame.parts)
  BY FreshClear, Owns, WorkFacts
<1>6. /\ Once(more) /\ Fresh \in Indices(more)
      /\ \A i \in Indices(more) : i = Fresh \/ i \in Indices(frame.parts)
      /\ Indices(frame.parts) \subseteq Indices(more)
  BY <1>5, NewListed
<1> HIDE DEF node, g, more
<1>7. Indices(node.parts) = {} /\ Once(node.parts)
  BY <1>4 DEF Indices, Once
<1>8. ~c.had_error => \A i \in 1..Len(nodes) : Left(nodes, Tail(calls), frame.parts, i)
  BY <1>1, KeepingLeft DEF Moved
<1>9. ~c.had_error => \A i \in 1..Len(nodes) : Left(nodes, Tail(calls), g.parts, i)
  BY <1>3, <1>6, <1>8 DEF Left
<1>10. QED
  BY <1>2, <1>3, <1>6, <1>7, <1>9, KeepsHeld

(* A name and its type become one. *)
LEMMA TypesNameHeld ==
  ASSUME IInv, IInv', Running, BuiltInv, HeldInv, TypesName
  PROVE  HeldInv'
<1> DEFINE name == Last(frame.parts)
           more == [frame.parts EXCEPT ![Len(frame.parts)] = Fresh]
<1>1. PICK c, point, span, kind :
        /\ Onto(c) /\ frame.parts # <<>> /\ name # 0
        /\ ContinueWith(point, c,
                        NodeFrom(nodes[name].from, context, kind, span, <<name, returned>>), more)
        /\ Awaited(frame.routine, frame.point) = Types
  BY DEF TypesName
<1> DEFINE node == NodeFrom(nodes[name].from, context, kind, span, <<name, returned>>)
           g == Resume(point, more)
<1>2. context' = c /\ calls' = <<g>> \o Tail(calls) /\ returned' = 0 /\ nodes' = Append(nodes, node)
  BY <1>1 DEF ContinueWith
<1>3. g.parts = more
  BY ResumedIs
<1>4. node.parts = <<name, returned>>
  BY DEF NodeFrom
<1>5. /\ Fresh \in Nat /\ Fresh \notin Indices(frame.parts) /\ frame.parts \in Seq(Nat)
      /\ Once(frame.parts)
  BY FreshClear, Owns, WorkFacts
<1>6. /\ Once(more) /\ Fresh \in Indices(more)
      /\ \A i \in Indices(more) :
           i = Fresh \/ (i \in Indices(frame.parts) /\ (i # 0 => i # name))
      /\ \A i \in Indices(frame.parts) : i = name \/ i \in Indices(more)
      /\ name \in Indices(frame.parts)
  BY <1>1, <1>5, LastRenewed
<1> HIDE DEF node, g, more, name
<1>7. ~At("Block", "statement")
  <2>1. Awaited("Block", "statement") = Statements /\ Statements # Types
    BY AwaitedTable DEF Statements, Types
  <2>2. QED
    BY <1>1, <2>1 DEF At
<1>8. returned # 0 => returned \notin Indices(frame.parts)
  BY <1>7, Owns
<1>9. Indices(node.parts) = {name, returned} /\ Once(node.parts)
  <2>1. /\ Len(node.parts) = 2 /\ node.parts[1] = name /\ node.parts[2] = returned
        /\ \A k \in 1..2 : k = 1 \/ k = 2
    BY <1>4
  <2>2. returned # 0 => name # returned
    BY <1>6, <1>8
  <2>3. Once(node.parts)
    BY <1>1, <2>1, <2>2 DEF Once
  <2>4. Indices(node.parts) = {name, returned}
    BY <2>1 DEF Indices
  <2>5. QED
    BY <2>3, <2>4
<1>10. ASSUME ~c.had_error, NEW i \in 1..Len(nodes)
       PROVE  Left(nodes, Tail(calls), node.parts, i) \/ Left(nodes, Tail(calls), g.parts, i)
  <2>1. Left(nodes, Tail(calls), Held, i)
    BY <1>1, <1>10, KeepingLeft, HeldAll
  <2>2. Indices(Held) \subseteq Indices(frame.parts) \union {returned}
    BY HeldIs
  <2>3. i \in Indices(Held) => i \in Indices(node.parts) \/ i \in Indices(g.parts)
    BY <1>3, <1>6, <1>9, <2>2
  <2>4. QED
    BY <2>1, <2>3 DEF Left
<1>11. \A i \in Indices(g.parts) : i = Fresh \/ (i \in Indices(frame.parts) \union {returned} /\
         (i # 0 => i \notin Indices(node.parts)))
  BY <1>3, <1>6, <1>8, <1>9
<1>12. Indices(node.parts) \subseteq Indices(frame.parts) \union {returned}
  BY <1>6, <1>9
<1>13. QED
  BY <1>2, <1>3, <1>6, <1>9, <1>10, <1>11, <1>12, KeepsHeld

(* What is held is made a node that stands for it. *)
LEMMA WrapsHeld ==
  ASSUME IInv, IInv', Running, BuiltInv, HeldInv, Wraps
  PROVE  HeldInv'
<1>1. PICK c, point, span, kind : \E N \in Taken :
        Moved(c, N) /\ ContinueWith(point, c, NewNode(c, kind, span, N), <<Fresh>>)
  BY DEF Wraps
<1>2. PICK N \in Taken :
        Moved(c, N) /\ ContinueWith(point, c, NewNode(c, kind, span, N), <<Fresh>>)
  BY <1>1
<1> DEFINE node == NewNode(c, kind, span, N)
           g == Resume(point, <<Fresh>>)
<1>3. context' = c /\ calls' = <<g>> \o Tail(calls) /\ returned' = 0 /\ nodes' = Append(nodes, node)
  BY <1>2 DEF ContinueWith
<1>4. g.parts = <<Fresh>>
  BY ResumedIs
<1>5. node.parts = N
  BY DEF NewNode, NodeFrom
<1> HIDE DEF node, g
<1>6. Indices(g.parts) = {Fresh} /\ Once(g.parts)
  BY <1>4 DEF Indices, Once
<1>7. Once(N) /\ Indices(N) \subseteq Indices(frame.parts) \union {returned}
  BY <1>2, TakenOnce DEF Moved
<1>8. ~c.had_error => \A i \in 1..Len(nodes) : Left(nodes, Tail(calls), N, i)
  BY <1>2, KeepingLeft DEF Moved
<1>9. QED
  BY <1>3, <1>5, <1>6, <1>7, <1>8, KeepsHeld

(* Every move but the one that gives a node again. *)
LEMMA MoveHolds ==
  ASSUME IInv, IInv', Running, BuiltInv, HeldInv, Move, ~Repeats
  PROVE  HeldInv'
<1>1. ASSUME GoesOn PROVE HeldInv'
  <2>1. PICK c, point : \E P \in Taken : Moved(c, P) /\ Continue(point, c, P)
    BY <1>1 DEF GoesOn
  <2>2. PICK P \in Taken : Moved(c, P) /\ Continue(point, c, P)
    BY <2>1
  <2> DEFINE g == Resume(point, P)
  <2>3. context' = c /\ calls' = <<g>> \o Tail(calls) /\ returned' = 0 /\ nodes' = nodes
    BY <2>2 DEF Continue
  <2>4. g.parts = P
    BY ResumedIs
  <2> HIDE DEF g
  <2>5. QED
    BY <2>2, <2>3, <2>4, GoesOnHeld
<1>2. ASSUME Calls PROVE HeldInv'
  <2>1. PICK c, point, callee : \E P \in Taken :
          Moved(c, P) /\ InvokeFrame(callee, point, c, P) /\ callee.parts = <<>>
    BY <1>2 DEF Calls, Begins
  <2>2. PICK P \in Taken : Moved(c, P) /\ InvokeFrame(callee, point, c, P) /\ callee.parts = <<>>
    BY <2>1
  <2> DEFINE g == Resume(point, P)
  <2>3. context' = c /\ calls' = <<callee, g>> \o Tail(calls) /\ returned' = 0 /\ nodes' = nodes
    BY <2>2 DEF InvokeFrame
  <2>4. g.parts = P
    BY ResumedIs
  <2> HIDE DEF g
  <2>5. QED
    BY <2>2, <2>3, <2>4, CallsHeld
<1>3. ASSUME Becomes PROVE HeldInv'
  <2>1. PICK c, routine : Moved(c, frame.parts) /\ Become(routine, c)
    BY <1>3 DEF Becomes
  <2> DEFINE g == [frame EXCEPT !.routine = routine, !.point = "start", !.start = c.position]
  <2>2. context' = c /\ calls' = <<g>> \o Tail(calls) /\ returned' = 0 /\ nodes' = nodes
    BY <2>1 DEF Become
  <2>3. g.parts = frame.parts
    BY WorkFacts DEF FrameRecord
  <2> HIDE DEF g
  <2>4. frame.parts \in Taken
    BY DEF Taken
  <2>5. QED
    BY <2>1, <2>2, <2>3, <2>4, GoesOnHeld
<1>4. ASSUME GivesUp PROVE HeldInv'
  <2>1. PICK c : Onto(c) /\ c.had_error /\ Return(c, 0)
    BY <1>4 DEF GivesUp
  <2>2. context' = c /\ calls' = Tail(calls) /\ returned' = 0 /\ nodes' = nodes
    BY <2>1 DEF Return
  <2>3. QED
    BY <2>1, <2>2, ReturnsHeld
<1>5. ASSUME Hands PROVE HeldInv'
  <2>1. PICK c, node : /\ Onto(c) /\ Keeping(c, <<node>>) /\ Return(c, node)
                       /\ node \in Indices(frame.parts) \union {returned}
    BY <1>5 DEF Hands
  <2>2. context' = c /\ calls' = Tail(calls) /\ returned' = node /\ nodes' = nodes
    BY <2>1 DEF Return
  <2>3. QED
    BY <2>1, <2>2, ReturnsHeld
<1>6. ASSUME Makes PROVE HeldInv'
  <2>1. PICK c, kind, span : \E N \in Taken : Moved(c, N) /\ ReturnNode(c, kind, span, N)
    BY <1>6 DEF Makes
  <2>2. PICK N \in Taken : Moved(c, N) /\ ReturnNode(c, kind, span, N)
    BY <2>1
  <2> DEFINE node == NewNode(c, kind, span, N)
  <2>3. context' = c /\ calls' = Tail(calls) /\ returned' = Fresh /\ nodes' = Append(nodes, node)
    BY <2>2 DEF ReturnNode
  <2>4. node.parts = N
    BY DEF NewNode, NodeFrom
  <2> HIDE DEF node
  <2>5. QED
    BY <2>2, <2>3, <2>4, MakesHeld
<1>7. ASSUME Wraps PROVE HeldInv'
  BY <1>7, WrapsHeld
<1>8. ASSUME Adds PROVE HeldInv'
  BY <1>8, AddsHeld
<1>9. ASSUME TypesName PROVE HeldInv'
  BY <1>9, TypesNameHeld
<1>10. QED
  BY <1>1, <1>2, <1>3, <1>4, <1>5, <1>6, <1>7, <1>8, <1>9 DEF Move

-----------------------------------------------------------------------------
(* What calls what.  Expressions call expressions only, and a statement     *)
(* becomes another before it calls anything.                                *)

Inner == Expressing \union {"MatchStatement", "ExpressionStatement"}
Nested(frames) ==
  \A d \in 2..Len(frames) :
    /\ frames[d].routine # "Statement"
    /\ frames[d].routine \in Inner => frames[d - 1].routine \in Expressing

(* How the stack changes in a step of a function that calls expressions.    *)
Goes == \E g : g.routine = frame.routine /\ calls' = <<g>> \o Tail(calls)
Enters ==
  \E g, h : /\ g.routine \in Expressing /\ h.routine = frame.routine
            /\ calls' = <<g, h>> \o Tail(calls)
Leaves == calls' = Tail(calls)

(* The ways a segment ends. *)
LEMMA Endings ==
  ASSUME IInv, Running
  PROVE  /\ \A point, c, parts : Continue(point, c, parts) => Goes
         /\ \A point, c, node, parts : ContinueWith(point, c, node, parts) => Goes
         /\ \A c, node : Return(c, node) => Leaves
         /\ \A c, kind, span, parts : ReturnNode(c, kind, span, parts) => Leaves
         /\ \A point, c, parts : \A routine \in Expressing :
              Invoke(routine, point, c, parts) => Enters
         /\ \A point, c, d, least, parts :
              InvokeFrame(BinaryFrame(d, least), point, c, parts) => Enters
         /\ \A c, routine : Become(routine, c) =>
              \E g : g.routine = routine /\ calls' = <<g>> \o Tail(calls)
<1>1. \A point, parts : Resume(point, parts).routine = frame.routine
  BY ResumedIs
<1>2. ASSUME NEW point, NEW c, NEW parts, Continue(point, c, parts) PROVE Goes
  BY <1>1, <1>2, Zenon DEF Continue, Goes
<1>3. ASSUME NEW point, NEW c, NEW node, NEW parts, ContinueWith(point, c, node, parts) PROVE Goes
  BY <1>1, <1>3, Zenon DEF ContinueWith, Goes
<1>4. ASSUME NEW c, NEW node, Return(c, node) PROVE Leaves
  BY <1>4, Zenon DEF Return, Leaves
<1>5. ASSUME NEW c, NEW kind, NEW span, NEW parts, ReturnNode(c, kind, span, parts) PROVE Leaves
  BY <1>5, Zenon DEF ReturnNode, Leaves
<1>6. ASSUME NEW callee, callee.routine \in Expressing, NEW point, NEW c, NEW parts,
             InvokeFrame(callee, point, c, parts)
      PROVE  Enters
  BY <1>1, <1>6, Zenon DEF InvokeFrame, Enters
<1>7. ASSUME NEW routine \in Expressing, NEW point, NEW c, NEW parts,
             Invoke(routine, point, c, parts)
      PROVE  Enters
  <2>1. Frame(routine, c).routine = routine
    BY DEF Frame
  <2>2. QED
    BY <1>6, <1>7, <2>1 DEF Invoke
<1>8. ASSUME NEW d, NEW least, NEW point, NEW c, NEW parts,
             InvokeFrame(BinaryFrame(d, least), point, c, parts)
      PROVE  Enters
  <2>1. BinaryFrame(d, least).routine = "Binary" /\ "Binary" \in Expressing
    BY DEF BinaryFrame, Frame, Expressing
  <2>2. QED
    BY <1>6, <1>8, <2>1
<1>9. ASSUME NEW c, NEW routine, Become(routine, c)
      PROVE  \E g : g.routine = routine /\ calls' = <<g>> \o Tail(calls)
  <2> DEFINE g == [frame EXCEPT !.routine = routine, !.point = "start", !.start = c.position]
  <2>1. calls' = <<g>> \o Tail(calls)
    BY <1>9 DEF Become
  <2>2. g.routine = routine
    <3>1. frame \in FrameRecord
      BY FrameFacts
    <3>2. QED
      BY <3>1 DEF FrameRecord
  <2> HIDE DEF g
  <2>3. QED
    BY <2>1, <2>2
<1>10. QED
  BY <1>2, <1>3, <1>4, <1>5, <1>7, <1>8, <1>9

(* Whose steps they are: of declarations, *)
LEMMA DeclarationRuns ==
  ASSUME DeclarationStep
  PROVE  Running /\ frame.routine \in
           Named \union {"Program", "Declaration", "Import", "Package", "Identifier", "Type"}
<1>1. ASSUME ParseDeclarations \/ DeclarationParsed PROVE Running /\ frame.routine = "Program"
  BY <1>1 DEF ParseDeclarations, DeclarationParsed, At
<1>2. ASSUME ParseAttribute \/ ParseDeclaration PROVE Running /\ frame.routine = "Declaration"
  BY <1>2 DEF ParseAttribute, ParseDeclaration, At
<1>3. ASSUME NEW routine \in Named, ParseKeyword(routine) \/ NameMissing(routine)
      PROVE  Running /\ frame.routine \in Named
  BY <1>3 DEF ParseKeyword, NameMissing, At
<1>4. ASSUME \/ FunctionNamed \/ ParameterNamed \/ ParameterTyped \/ NextParameter
             \/ FunctionClosed \/ FunctionTyped \/ EndFunction
      PROVE  Running /\ frame.routine = "Function"
  BY <1>4 DEF FunctionNamed, ParameterNamed, ParameterTyped, NextParameter,
     FunctionClosed, FunctionTyped, EndFunction, NameFound, At
<1>5. ASSUME StructNamed \/ NextField \/ FieldNamed \/ FieldTyped \/ EndStruct
      PROVE  Running /\ frame.routine = "Struct"
  BY <1>5 DEF StructNamed, NextField, FieldNamed, FieldTyped, EndStruct, NameFound, At
<1>6. ASSUME NEW kind \in {"Class", "Trait"},
             BodyNamed(kind) \/ NextMember(kind) \/ MemberParsed(kind)
      PROVE  Running /\ frame.routine \in {"Class", "Trait"}
  BY <1>6 DEF BodyNamed, NextMember, MemberParsed, NameFound, At
<1>7. ASSUME EnumNamed \/ NextVariant \/ VariantParsed PROVE Running /\ frame.routine = "Enum"
  BY <1>7 DEF EnumNamed, NextVariant, VariantParsed, NameFound, At
<1>8. ASSUME ModuleNamed \/ EndModule \/ ParsePackage \/ EndPackage
      PROVE  Running /\ frame.routine \in {"Module", "Package"}
  BY <1>8 DEF ModuleNamed, EndModule, ParsePackage, EndPackage, NameFound, At
<1>9. ASSUME ParseImport \/ ParseSegment \/ EndImport PROVE Running /\ frame.routine = "Import"
  BY <1>9 DEF ParseImport, ParseSegment, EndImport, At
<1>10. ASSUME ParseIdentifier \/ ParseType PROVE Running /\ frame.routine \in {"Identifier", "Type"}
  BY <1>10 DEF ParseIdentifier, ParseType, At
<1>11. {"Function", "Struct", "Class", "Trait", "Enum", "Module"} = Named
  BY DEF Named
<1> DEFINE R == Named \union {"Program", "Declaration", "Import", "Package", "Identifier", "Type"}
<1>12. /\ Named \subseteq R /\ "Program" \in R /\ "Declaration" \in R /\ "Import" \in R
       /\ {"Function", "Struct", "Class", "Trait", "Enum", "Module"} \subseteq R
       /\ "Package" \in R /\ "Identifier" \in R /\ "Type" \in R
  BY <1>11
<1> HIDE DEF R
<1>13. Running /\ frame.routine \in R
  <2>1. CASE ParseDeclarations \/ DeclarationParsed
    BY <1>1, <1>12, <2>1
  <2>2. CASE ParseAttribute \/ ParseDeclaration
    BY <1>2, <1>12, <2>2
  <2>3. CASE \E routine \in Named : ParseKeyword(routine) \/ NameMissing(routine)
    BY <1>3, <1>12, <2>3
  <2>4. CASE \/ FunctionNamed \/ ParameterNamed \/ ParameterTyped \/ NextParameter
             \/ FunctionClosed \/ FunctionTyped \/ EndFunction
    BY <1>4, <1>12, <2>4
  <2>5. CASE StructNamed \/ NextField \/ FieldNamed \/ FieldTyped \/ EndStruct
    BY <1>5, <1>12, <2>5
  <2>6. CASE \E kind \in {"Class", "Trait"} :
               BodyNamed(kind) \/ NextMember(kind) \/ MemberParsed(kind)
    BY <1>6, <1>12, <2>6
  <2>7. CASE EnumNamed \/ NextVariant \/ VariantParsed
    BY <1>7, <1>12, <2>7
  <2>8. CASE ModuleNamed \/ EndModule \/ ParsePackage \/ EndPackage
    BY <1>8, <1>12, <2>8
  <2>9. CASE ParseImport \/ ParseSegment \/ EndImport
    BY <1>9, <1>12, <2>9
  <2>10. CASE ParseIdentifier \/ ParseType
    BY <1>10, <1>12, <2>10
  <2>11. QED
    BY <2>1, <2>2, <2>3, <2>4, <2>5, <2>6, <2>7, <2>8, <2>9, <2>10, Zenon DEF DeclarationStep
<1>14. QED
  BY <1>13 DEF R

(* and of statements. *)
LEMMA StatementRuns ==
  ASSUME IInv, StatementStep
  PROVE  /\ Running
         /\ frame.routine = "Statement" =>
              \E c, routine : routine \notin Expressing /\ Become(routine, c)
         /\ frame.routine \in Inner => Enters \/ Leaves
         /\ frame.routine \notin Expressing
<1>1. /\ "Assignment" \in Expressing
      /\ \A routine \in {"Variable", "Return", "If", "While", "For", "Block", "MatchStatement",
                         "ExpressionStatement", "Statement"} : routine \notin Expressing
      /\ \A routine \in {"Variable", "Return", "If", "While", "For", "Block", "Statement"} :
           routine \notin Inner
      /\ \A routine \in {"Variable", "Return", "If", "While", "For", "Block", "MatchStatement",
                         "ExpressionStatement"} : routine # "Statement"
  BY DEF Inner, Expressing
<1>2. ASSUME ParseStatement
      PROVE  /\ Running /\ frame.routine = "Statement"
             /\ \E c, routine : routine \notin Expressing /\ Become(routine, c)
  <2>1. Running /\ frame.routine = "Statement"
    BY <1>2 DEF ParseStatement, At
  <2> DEFINE routine == CASE Peek(context) = "let" -> "Variable"
              [] Peek(context) = "return" -> "Return"
              [] Peek(context) = "if" -> "If"
              [] Peek(context) = "while" -> "While"
              [] Peek(context) = "for" -> "For"
              [] Peek(context) = "{" -> "Block"
              [] Peek(context) = "match" -> "MatchStatement"
              [] OTHER -> "ExpressionStatement"
  <2>2. Become(routine, context)
    BY <1>2 DEF ParseStatement
  <2>3. routine \in {"Variable", "Return", "If", "While", "For", "Block", "MatchStatement",
                     "ExpressionStatement"}
    OBVIOUS
  <2> HIDE DEF routine
  <2>4. QED
    BY <1>1, <2>1, <2>2, <2>3
<1>3. ASSUME ParseMatchStatement \/ ParseExpressionStatement
      PROVE  Running /\ Enters /\ frame.routine \in {"MatchStatement", "ExpressionStatement"}
  <2>1. Running /\ frame.routine \in {"MatchStatement", "ExpressionStatement"}
    BY <1>3 DEF ParseMatchStatement, ParseExpressionStatement, At
  <2>2. Invoke("Assignment", "expression", context, <<>>)
    BY <1>3 DEF ParseMatchStatement, ParseExpressionStatement
  <2>3. QED
    BY <1>1, <2>1, <2>2, Endings
<1>4. ASSUME EndMatchStatement \/ EndExpressionStatement
      PROVE  Running /\ Leaves /\ frame.routine \in {"MatchStatement", "ExpressionStatement"}
  <2>1. Running /\ frame.routine \in {"MatchStatement", "ExpressionStatement"}
    BY <1>4 DEF EndMatchStatement, EndExpressionStatement, At
  <2>2. \/ \E c, node : Return(c, node)
        \/ \E c, kind, span, parts : ReturnNode(c, kind, span, parts)
    <3>1. CASE EndMatchStatement
      BY <3>1, Zenon DEF EndMatchStatement
    <3>2. CASE EndExpressionStatement
      BY <3>2, Zenon DEF EndExpressionStatement
    <3>3. QED
      BY <1>4, <3>1, <3>2
  <2>3. QED
    BY <2>1, <2>2, Endings
<1>5. ASSUME \/ ParseBlock \/ NextStatement \/ StatementParsed
             \/ \E routine \in {"If", "While"} : ParseCondition(routine) \/ ConditionParsed(routine)
             \/ ThenParsed \/ EndIf \/ EndWhile
             \/ ParseFor \/ IteratorParsed \/ IterableParsed \/ EndFor
             \/ ParseReturn \/ EndReturn
             \/ ParseVariable \/ VariableNamed \/ VariableTyped \/ EndVariable
      PROVE  Running /\ frame.routine \in {"Variable", "Return", "If", "While", "For", "Block"}
  <2>1. CASE ParseBlock \/ NextStatement \/ StatementParsed
    BY <2>1 DEF ParseBlock, NextStatement, StatementParsed, At
  <2>2. CASE \E routine \in {"If", "While"} : ParseCondition(routine) \/ ConditionParsed(routine)
    BY <2>2 DEF ParseCondition, ConditionParsed, At
  <2>3. CASE ThenParsed \/ EndIf \/ EndWhile
    BY <2>3 DEF ThenParsed, EndIf, EndWhile, At
  <2>4. CASE ParseFor \/ IteratorParsed \/ IterableParsed \/ EndFor
    BY <2>4 DEF ParseFor, IteratorParsed, IterableParsed, EndFor, At
  <2>5. CASE ParseReturn \/ EndReturn
    BY <2>5 DEF ParseReturn, EndReturn, At
  <2>6. CASE ParseVariable \/ VariableNamed \/ VariableTyped \/ EndVariable
    BY <2>6 DEF ParseVariable, VariableNamed, VariableTyped, EndVariable, At
  <2>7. QED
    BY <1>5, <2>1, <2>2, <2>3, <2>4, <2>5, <2>6
<1>6. CASE ParseStatement
  BY <1>1, <1>2, <1>6
<1>7. CASE ParseMatchStatement \/ ParseExpressionStatement
  BY <1>1, <1>3, <1>7
<1>8. CASE EndMatchStatement \/ EndExpressionStatement
  BY <1>1, <1>4, <1>8
<1>9. CASE ~(ParseStatement \/ ParseMatchStatement \/ ParseExpressionStatement
             \/ EndMatchStatement \/ EndExpressionStatement)
  <2>1. Running /\ frame.routine \in {"Variable", "Return", "If", "While", "For", "Block"}
    BY <1>5, <1>9, Zenon DEF StatementStep
  <2>2. QED
    BY <1>1, <2>1
<1>10. QED
  BY <1>6, <1>7, <1>8, <1>9

(* and of expressions. *)
LEMMA ExpressionRuns ==
  ASSUME IInv, ExpressionStep
  PROVE  Running /\ frame.routine \in Expressing /\ (Goes \/ Enters \/ Leaves)
<1>1. /\ {"Assignment", "Binary", "Unary", "Primary"} = Expressing
  BY DEF Expressing
<1>2. Running /\ frame.routine \in {"Assignment", "Binary", "Unary", "Primary"}
  <2>1. CASE ParseAssignment \/ LeftParsed \/ EndAssignment
    BY <2>1 DEF ParseAssignment, LeftParsed, EndAssignment, At
  <2>2. CASE ParseBinary \/ OperandParsed \/ ParseOperator \/ RightParsed
    BY <2>2 DEF ParseBinary, OperandParsed, ParseOperator, RightParsed, At
  <2>3. CASE ParseUnary \/ EndPrefix \/ EndPostfix
    BY <2>3 DEF ParseUnary, EndPrefix, EndPostfix, At
  <2>4. CASE ParsePrimary \/ InnerParsed \/ EndMatch
    BY <2>4 DEF ParsePrimary, InnerParsed, EndMatch, At
  <2>5. CASE ParsePostfix \/ ArgumentParsed \/ EndCall
    BY <2>5 DEF ParsePostfix, ArgumentParsed, EndCall, At
  <2>6. QED
    BY <2>1, <2>2, <2>3, <2>4, <2>5 DEF ExpressionStep
<1>3. /\ \A point, c, parts : Continue(point, c, parts) => Goes
      /\ \A point, c, node, parts : ContinueWith(point, c, node, parts) => Goes
      /\ \A c, node : Return(c, node) => Leaves
      /\ \A c, kind, span, parts : ReturnNode(c, kind, span, parts) => Leaves
      /\ \A point, c, parts : \A routine \in {"Assignment", "Binary", "Unary", "Primary"} :
           Invoke(routine, point, c, parts) => Enters
      /\ \A point, c, d, least, parts :
           InvokeFrame(BinaryFrame(d, least), point, c, parts) => Enters
  BY <1>1, <1>2, Endings
<1>4. ASSUME NEW point, NEW c, NEW parts
      PROVE  /\ Invoke("Assignment", point, c, parts) => Enters
             /\ Invoke("Unary", point, c, parts) => Enters
             /\ Invoke("Primary", point, c, parts) => Enters
  BY <1>3
<1>5. ASSUME ParseAssignment PROVE Goes \/ Enters \/ Leaves
  BY <1>3, <1>5, Zenon DEF ParseAssignment
<1>6. ASSUME LeftParsed PROVE Goes \/ Enters \/ Leaves
  BY <1>3, <1>4, <1>6, Zenon DEF LeftParsed
<1>7. ASSUME EndAssignment PROVE Goes \/ Enters \/ Leaves
  BY <1>3, <1>7, Zenon DEF EndAssignment
<1>8. ASSUME ParseBinary PROVE Goes \/ Enters \/ Leaves
  BY <1>4, <1>8, Zenon DEF ParseBinary
<1>9. ASSUME OperandParsed PROVE Goes \/ Enters \/ Leaves
  BY <1>3, <1>9, Zenon DEF OperandParsed
<1>10. ASSUME ParseOperator PROVE Goes \/ Enters \/ Leaves
  BY <1>3, <1>10, Zenon DEF ParseOperator
<1>11. ASSUME RightParsed PROVE Goes \/ Enters \/ Leaves
  BY <1>3, <1>11, Zenon DEF RightParsed
<1>12. ASSUME ParseUnary PROVE Goes \/ Enters \/ Leaves
  BY <1>4, <1>12, Zenon DEF ParseUnary
<1>13. ASSUME EndPrefix PROVE Goes \/ Enters \/ Leaves
  BY <1>3, <1>13, Zenon DEF EndPrefix
<1>14. ASSUME EndPostfix PROVE Goes \/ Enters \/ Leaves
  BY <1>3, <1>14, Zenon DEF EndPostfix
<1>15. ASSUME ParsePrimary PROVE Goes \/ Enters \/ Leaves
  <2>1. CASE Peek(context) = "literal"
    <3>1. Peek(context) # "name" /\ Peek(context) # "(" /\ Peek(context) # "match"
      BY <2>1
    <3>2. QED
      BY <1>3, <1>15, <2>1, <3>1, Zenon DEF ParsePrimary
  <2>2. CASE Peek(context) = "name"
    <3>1. Peek(context) # "literal" /\ Peek(context) # "(" /\ Peek(context) # "match"
      BY <2>2
    <3>2. QED
      BY <1>3, <1>15, <2>2, <3>1, Zenon DEF ParsePrimary
  <2>3. CASE Peek(context) = "("
    <3>1. Peek(context) # "literal" /\ Peek(context) # "name" /\ Peek(context) # "match"
      BY <2>3
    <3>2. QED
      BY <1>4, <1>15, <2>3, <3>1, Zenon DEF ParsePrimary
  <2>4. CASE Peek(context) = "match"
    <3>1. Peek(context) # "literal" /\ Peek(context) # "name" /\ Peek(context) # "("
      BY <2>4
    <3>2. QED
      BY <1>4, <1>15, <2>4, <3>1, Zenon DEF ParsePrimary
  <2>5. CASE Peek(context) \notin {"literal", "name", "(", "match"}
    BY <1>3, <1>15, <2>5, Zenon DEF ParsePrimary
  <2>6. QED
    BY <2>1, <2>2, <2>3, <2>4, <2>5
<1>16. ASSUME InnerParsed PROVE Goes \/ Enters \/ Leaves
  BY <1>3, <1>16, Zenon DEF InnerParsed
<1>17. ASSUME EndMatch PROVE Goes \/ Enters \/ Leaves
  BY <1>3, <1>17, Zenon DEF EndMatch
<1>18. ASSUME ParsePostfix PROVE Goes \/ Enters \/ Leaves
  <2>1. CASE Peek(context) = "("
    <3>1. Peek(context) # "."
      BY <2>1
    <3>2. QED
      BY <1>3, <1>4, <1>18, <2>1, <3>1, Zenon DEF ParsePostfix
  <2>2. CASE Peek(context) = "."
    <3>1. Peek(context) # "("
      BY <2>2
    <3>2. QED
      BY <1>3, <1>18, <2>2, <3>1, Zenon DEF ParsePostfix
  <2>3. CASE Peek(context) # "(" /\ Peek(context) # "."
    BY <1>3, <1>18, <2>3, Zenon DEF ParsePostfix
  <2>4. QED
    BY <2>1, <2>2, <2>3
<1>19. ASSUME ArgumentParsed PROVE Goes \/ Enters \/ Leaves
  BY <1>3, <1>4, <1>19, Zenon DEF ArgumentParsed
<1>20. ASSUME EndCall PROVE Goes \/ Enters \/ Leaves
  BY <1>3, <1>20, Zenon DEF EndCall
<1>21. Goes \/ Enters \/ Leaves
  BY <1>5, <1>6, <1>7, <1>8, <1>9, <1>10, <1>11, <1>12, <1>13, <1>14, <1>15, <1>16, <1>17,
     <1>18, <1>19, <1>20, Zenon DEF ExpressionStep
<1>22. QED
  BY <1>1, <1>2, <1>21

(* The frame that runs taken off, or another put in its place. *)
LEMMA NestedOn ==
  ASSUME NEW frames \in Seq(FrameRecord), frames # <<>>, Nested(frames)
  PROVE  /\ Nested(Tail(frames))
         /\ \A g : (Head(frames).routine \in Expressing => g.routine \in Expressing)
                     => Nested(<<g>> \o Tail(frames))
<1> DEFINE rest == Tail(frames)
<1>1. /\ rest \in Seq(FrameRecord) /\ Len(rest) = Len(frames) - 1 /\ Len(frames) \in Nat
      /\ \A d \in 1..Len(rest) : d + 1 \in 1..Len(frames) /\ rest[d] = frames[d + 1]
      /\ Head(frames) = frames[1]
  BY TailIs
<1>2. \A d \in 2..Len(frames) :
        /\ frames[d].routine # "Statement"
        /\ frames[d].routine \in Inner => frames[d - 1].routine \in Expressing
  BY DEF Nested
<1> HIDE DEF rest
<1>3. Nested(rest)
  <2> SUFFICES ASSUME NEW d \in 2..Len(rest)
               PROVE  /\ rest[d].routine # "Statement"
                      /\ rest[d].routine \in Inner => rest[d - 1].routine \in Expressing
    BY DEF Nested
  <2>1. /\ d \in 1..Len(rest) /\ d - 1 \in 1..Len(rest) /\ d + 1 \in 2..Len(frames)
        /\ (d - 1) + 1 = d /\ (d + 1) - 1 = d
    BY <1>1
  <2>2. rest[d] = frames[d + 1] /\ rest[d - 1] = frames[d]
    BY <1>1, <2>1
  <2>3. /\ frames[d + 1].routine # "Statement"
        /\ frames[d + 1].routine \in Inner => frames[(d + 1) - 1].routine \in Expressing
    BY <1>2, <2>1
  <2>4. QED
    BY <2>1, <2>2, <2>3
<1>4. ASSUME NEW g, Head(frames).routine \in Expressing => g.routine \in Expressing
      PROVE  Nested(<<g>> \o rest)
  <2> DEFINE more == <<g>> \o rest
  <2>1. /\ Len(more) = Len(rest) + 1 /\ more[1] = g
        /\ \A d \in 1..Len(rest) : more[d + 1] = rest[d]
    BY <1>1, PutOn
  <2> HIDE DEF more
  <2> SUFFICES ASSUME NEW d \in 2..Len(more)
               PROVE  /\ more[d].routine # "Statement"
                      /\ more[d].routine \in Inner => more[d - 1].routine \in Expressing
    BY DEF Nested, more
  <2>2. /\ d \in 2..Len(frames) /\ d - 1 \in 1..Len(rest) /\ (d - 1) + 1 = d
        /\ (d # 2 => d - 2 \in 1..Len(rest) /\ (d - 2) + 1 = d - 1)
    BY <1>1, <2>1
  <2>3. more[d] = frames[d]
    BY <1>1, <2>1, <2>2
  <2>4. CASE d = 2
    <3>1. frames[2].routine \in Inner => Head(frames).routine \in Expressing
      BY <1>1, <1>2, <2>2, <2>4
    <3>2. QED
      BY <1>2, <1>4, <2>1, <2>2, <2>3, <2>4, <3>1
  <2>5. CASE d # 2
    <3>1. more[d - 1] = frames[d - 1]
      BY <1>1, <2>1, <2>2, <2>5
    <3>2. QED
      BY <1>2, <2>2, <2>3, <3>1
  <2>6. QED
    BY <2>4, <2>5
<1>5. QED
  BY <1>3, <1>4 DEF rest

(* One more put on top. *)
LEMMA NestedCall ==
  ASSUME NEW S, NEW frames \in Seq(S), frames # <<>>, Nested(frames),
         Head(frames).routine # "Statement", NEW g,
         Head(frames).routine \in Inner => g.routine \in Expressing
  PROVE  Nested(<<g>> \o frames)
<1> DEFINE more == <<g>> \o frames
<1>1. /\ Len(more) = Len(frames) + 1 /\ more[1] = g /\ Len(frames) \in Nat
      /\ \A d \in 1..Len(frames) : more[d + 1] = frames[d]
      /\ Head(frames) = frames[1]
  BY PutOn, TailIs
<1>2. \A d \in 2..Len(frames) :
        /\ frames[d].routine # "Statement"
        /\ frames[d].routine \in Inner => frames[d - 1].routine \in Expressing
  BY DEF Nested
<1> HIDE DEF more
<1> SUFFICES ASSUME NEW d \in 2..Len(more)
             PROVE  /\ more[d].routine # "Statement"
                    /\ more[d].routine \in Inner => more[d - 1].routine \in Expressing
  BY DEF Nested, more
<1>3. /\ d - 1 \in 1..Len(frames) /\ (d - 1) + 1 = d
      /\ (d # 2 => /\ d - 1 \in 2..Len(frames) /\ d - 2 \in 1..Len(frames)
                   /\ (d - 2) + 1 = d - 1 /\ (d - 1) - 1 = d - 2)
  BY <1>1
<1>4. more[d] = frames[d - 1]
  BY <1>1, <1>3
<1>5. CASE d = 2
  BY <1>1, <1>4, <1>5
<1>6. CASE d # 2
  <2>1. more[d - 1] = frames[d - 2]
    BY <1>1, <1>3, <1>6
  <2>2. QED
    BY <1>2, <1>3, <1>4, <1>6, <2>1
<1>7. QED
  BY <1>5, <1>6

(* Both at once. *)
LEMMA NestedEntered ==
  ASSUME NEW frames \in Seq(FrameRecord), frames # <<>>, Nested(frames), NEW g, NEW h,
         h.routine = Head(frames).routine, h.routine # "Statement",
         h.routine \in Inner => g.routine \in Expressing
  PROVE  Nested(<<g, h>> \o Tail(frames))
<1> DEFINE S == FrameRecord \union {g, h}
           below == <<h>> \o Tail(frames)
<1>1. Nested(below)
  BY NestedOn
<1>2. Tail(frames) \in Seq(S) /\ <<h>> \in Seq(S) /\ h \in S /\ g \in S
  BY TailIs
<1>3. below \in Seq(S) /\ below # <<>> /\ Head(below) = h
  BY <1>2, PutOn
<1>4. <<g, h>> \o Tail(frames) = <<g>> \o below
  <2> HIDE DEF S
  <2>1. QED
    BY <1>2, TwoOn DEF below
<1> HIDE DEF below, S
<1>5. QED
  BY <1>1, <1>3, <1>4, NestedCall

(* Functions stay nested like this. *)
LEMMA StepNested ==
  ASSUME IInv, BuiltInv, Nested(calls), [Next]_vars
  PROVE  Nested(calls')
<1>1. ASSUME Running
      PROVE  /\ calls \in Seq(FrameRecord) /\ calls # <<>>
             /\ \A g : (frame.routine \in Expressing => g.routine \in Expressing)
                         => Nested(<<g>> \o Tail(calls))
             /\ Nested(Tail(calls))
             /\ \A g, h : (/\ h.routine = frame.routine /\ h.routine # "Statement"
                           /\ h.routine \in Inner => g.routine \in Expressing)
                            => Nested(<<g, h>> \o Tail(calls))
  <2>1. calls \in Seq(FrameRecord) /\ calls # <<>>
    BY <1>1, WorkFacts
  <2>2. Head(calls) = frame
    BY DEF frame
  <2>3. QED
    BY <2>1, <2>2, NestedOn, NestedEntered
<1>2. Expressing \subseteq Inner /\ "Statement" \notin Inner
  BY DEF Inner, Expressing
<1>3. ASSUME Running, Goes \/ Enters \/ Leaves, frame.routine \in Inner
      PROVE  Nested(calls')
  <2>1. CASE Goes
    BY <1>1, <1>3, <2>1 DEF Goes
  <2>2. CASE Enters
    BY <1>1, <1>2, <1>3, <2>2 DEF Enters
  <2>3. CASE Leaves
    BY <1>1, <1>3, <2>3 DEF Leaves
  <2>4. QED
    BY <1>3, <2>1, <2>2, <2>3
<1>4. ASSUME Running, Move, frame.routine \notin Inner, frame.routine # "Statement"
      PROVE  Nested(calls')
  <2>1. frame.routine \notin Expressing
    BY <1>2, <1>4
  <2>2. \A g : Nested(<<g>> \o Tail(calls))
    BY <1>1, <1>4, <2>1
  <2>3. \A g, h : h.routine = frame.routine => Nested(<<g, h>> \o Tail(calls))
    BY <1>1, <1>4
  <2>4. Nested(Tail(calls))
    BY <1>1, <1>4
  <2>5. \/ \E g : calls' = <<g>> \o Tail(calls)
        \/ \E g, point, parts : calls' = <<g, Resume(point, parts)>> \o Tail(calls)
        \/ calls' = Tail(calls)
    <3>1. CASE GoesOn
      BY <3>1, Zenon DEF GoesOn, Continue
    <3>2. CASE Calls
      BY <3>2, Zenon DEF Calls, InvokeFrame
    <3>3. CASE Becomes
      BY <3>3, Zenon DEF Becomes, Become
    <3>4. CASE GivesUp
      BY <3>4, Zenon DEF GivesUp, Return
    <3>5. CASE Hands
      BY <3>5, Zenon DEF Hands, Return
    <3>6. CASE Makes
      BY <3>6, Zenon DEF Makes, ReturnNode
    <3>7. CASE Wraps
      BY <3>7, Zenon DEF Wraps, ContinueWith
    <3>8. CASE Adds
      BY <3>8, Zenon DEF Adds, ContinueWith
    <3>9. CASE TypesName
      BY <3>9, Zenon DEF TypesName, ContinueWith
    <3>10. CASE Repeats
      BY <3>10, Zenon DEF Repeats, Return
    <3>11. QED
      BY <1>4, <3>1, <3>2, <3>3, <3>4, <3>5, <3>6, <3>7, <3>8, <3>9, <3>10 DEF Move
  <2>6. \A point, parts : Resume(point, parts).routine = frame.routine
    BY <1>4, ResumedIs
  <2>7. QED
    BY <2>2, <2>3, <2>4, <2>5, <2>6
<1>5. CASE UNCHANGED vars
  BY <1>5 DEF vars, Nested
<1>6. CASE Next /\ ~UNCHANGED vars
  <2>1. Running /\ Move
    BY <1>6, StepMoves
  <2>2. CASE frame.routine = "Statement"
    <3>1. /\ "Statement" \notin Expressing
          /\ "Statement" \notin Named \union
               {"Program", "Declaration", "Import", "Package", "Identifier", "Type"}
      BY DEF Expressing, Named
    <3>2. StatementStep
      BY <1>6, <2>2, <3>1, DeclarationRuns, ExpressionRuns DEF Next, Finished
    <3>3. \E c, routine : routine \notin Expressing /\ Become(routine, c)
      BY <2>2, <3>2, StatementRuns
    <3>4. \E g : calls' = <<g>> \o Tail(calls)
      BY <2>1, <3>3, Endings
    <3>5. QED
      BY <1>1, <2>1, <2>2, <3>1, <3>4
  <2>3. CASE frame.routine \in Inner
    <3>1. \A routine \in Inner : routine \notin Named \union
            {"Program", "Declaration", "Import", "Package", "Identifier", "Type"}
      BY DEF Inner, Expressing, Named
    <3>2. ~DeclarationStep
      BY <2>3, <3>1, DeclarationRuns
    <3>3. Goes \/ Enters \/ Leaves
      BY <1>6, <2>3, <3>2, StatementRuns, ExpressionRuns DEF Next, Finished
    <3>4. QED
      BY <1>3, <2>1, <2>3, <3>3
  <2>4. CASE frame.routine \notin Inner /\ frame.routine # "Statement"
    BY <1>4, <2>1, <2>4
  <2>5. QED
    BY <2>2, <2>3, <2>4
<1>7. QED
  BY <1>5, <1>6

-----------------------------------------------------------------------------
(* The expression statement that is given again.  Only the block that asked *)
(* for it may hold it: it took no token, and between the start of any other *)
(* statement and the cursor there is one.                                   *)

Bare == {"ExpressionStatement"}
Quiet(roles) ==
  /\ roles.list \cap Bare = {}
  /\ Len(roles.head) \in Nat /\ Len(roles.tail) \in Nat
  /\ \A k \in 1..Len(roles.head) : roles.head[k] \cap Bare = {}
  /\ \A k \in 1..Len(roles.tail) : roles.tail[k] \cap Bare = {}

(* Roles without statements. *)
LEMMA QuietRoles ==
  ASSUME NEW A, NEW B, NEW list, A \cap Bare = {}, B \cap Bare = {}, list \cap Bare = {}
  PROVE  /\ Quiet(Roles(<<>>, list, <<>>)) /\ Quiet(Roles(<<A>>, list, <<>>))
         /\ Quiet(Roles(<<>>, list, <<B>>)) /\ Quiet(Roles(<<A>>, list, <<B>>))
         /\ Quiet(Roles(<<A, B>>, list, <<>>))
<1>1. /\ Len(<<>>) = 0 /\ 1..0 = {} /\ Len(<<A>>) = 1 /\ Len(<<B>>) = 1 /\ Len(<<A, B>>) = 2
      /\ \A k \in 1..1 : <<A>>[k] = A /\ <<B>>[k] = B
      /\ \A k \in 1..2 : <<A, B>>[k] = A \/ <<A, B>>[k] = B
  OBVIOUS
<1>2. \A head, tail : /\ Roles(head, list, tail).head = head /\ Roles(head, list, tail).list = list
                      /\ Roles(head, list, tail).tail = tail
  BY DEF Roles
<1>3. \A k \in 1..Len(<<>>) : FALSE
  BY <1>1
<1>4. /\ \A k \in 1..Len(<<A>>) : <<A>>[k] \cap Bare = {}
      /\ \A k \in 1..Len(<<B>>) : <<B>>[k] \cap Bare = {}
      /\ \A k \in 1..Len(<<A, B>>) : <<A, B>>[k] \cap Bare = {}
  BY <1>1
<1>5. Len(<<>>) \in Nat /\ Len(<<A>>) \in Nat /\ Len(<<B>>) \in Nat /\ Len(<<A, B>>) \in Nat
  OBVIOUS
<1>6. ASSUME NEW head, NEW tail, Len(head) \in Nat, Len(tail) \in Nat,
             \A k \in 1..Len(head) : head[k] \cap Bare = {},
             \A k \in 1..Len(tail) : tail[k] \cap Bare = {}
      PROVE  Quiet(Roles(head, list, tail))
  <2> DEFINE roles == Roles(head, list, tail)
  <2>1. roles.head = head /\ roles.list = list /\ roles.tail = tail
    BY <1>2
  <2> HIDE DEF roles
  <2>2. roles.list \cap Bare = {} /\ Len(roles.head) \in Nat /\ Len(roles.tail) \in Nat
    BY <1>6, <2>1
  <2>3. \A k \in 1..Len(roles.head) : roles.head[k] \cap Bare = {}
    BY <1>6, <2>1
  <2>4. \A k \in 1..Len(roles.tail) : roles.tail[k] \cap Bare = {}
    BY <1>6, <2>1
  <2>5. Quiet(roles)
    BY <2>2, <2>3, <2>4 DEF Quiet
  <2>6. QED
    BY <2>5 DEF roles
<1>7. QED
  BY <1>3, <1>4, <1>5, <1>6

(* What has such roles is no bare expression. *)
LEMMA QuietRole ==
  ASSUME NEW roles, Quiet(roles), NEW n \in Nat, NEW k \in 1..n,
         n >= Len(roles.head) + Len(roles.tail)
  PROVE  "ExpressionStatement" \notin RoleAt(roles, k, n)
<1> DEFINE a == Len(roles.head)
           b == Len(roles.tail)
<1>1. a \in Nat /\ b \in Nat
  BY DEF Quiet
<1>2. /\ \A j \in 1..a : "ExpressionStatement" \notin roles.head[j]
      /\ \A j \in 1..b : "ExpressionStatement" \notin roles.tail[j]
      /\ "ExpressionStatement" \notin roles.list
  BY DEF Quiet, Bare
<1>3. n >= a + b
  OBVIOUS
<1> HIDE DEF a, b
<1>4. CASE k <= a
  <2>1. k \in 1..a /\ ~(k > n - b)
    BY <1>1, <1>3, <1>4
  <2>2. RoleAt(roles, k, n) = roles.head[k]
    BY <1>4, <2>1, Zenon DEF RoleAt, a, b
  <2>3. QED
    BY <1>2, <2>1, <2>2
<1>5. CASE ~(k <= a) /\ k > n - b
  <2>1. k - (n - b) \in 1..b
    BY <1>1, <1>5
  <2>2. RoleAt(roles, k, n) = roles.tail[k - (n - b)]
    BY <1>5, Zenon DEF RoleAt, a, b
  <2>3. QED
    BY <1>2, <2>1, <2>2
<1>6. CASE ~(k <= a) /\ ~(k > n - b)
  <2>1. RoleAt(roles, k, n) = roles.list
    BY <1>6, Zenon DEF RoleAt, a, b
  <2>2. QED
    BY <1>2, <2>1
<1>7. QED
  BY <1>4, <1>5, <1>6

(* The frames that may hold one: a block, and an if with its second branch  *)
(* ahead.                                                                   *)
LEMMA QuietShapes ==
  ASSUME NEW routine, NEW point
  PROVE  \/ Quiet(Shape(routine, point))
         \/ routine = "Block" /\ point \in {"statements", "statement"}
         \/ routine = "If" /\ point = "else"
<1>1. \A S \in {Names, {"Attribute"}, Signature, Types, {"Field"}, Declarations, Expressions, {}} :
        S \cap Bare = {}
  <2>1. /\ Names \cap Bare = {} /\ {"Attribute"} \cap Bare = {} /\ Signature \cap Bare = {}
        /\ {"Field"} \cap Bare = {}
    BY DEF Names, Signature, Bare
  <2>2. Types \cap Bare = {} /\ Declarations \cap Bare = {}
    BY DEF Types, Declarations, Bare
  <2>3. Expressions \cap Bare = {}
    BY DEF Expressions, Bare
  <2>4. QED
    BY <2>1, <2>2, <2>3
<1> DEFINE Q == {Names, {"Attribute"}, Signature, Types, {"Field"}, Declarations, Expressions, {}}
<1>2. \A A, B, list \in Q :
        /\ Quiet(Roles(<<>>, list, <<>>)) /\ Quiet(Roles(<<A>>, list, <<>>))
        /\ Quiet(Roles(<<>>, list, <<B>>)) /\ Quiet(Roles(<<A>>, list, <<B>>))
        /\ Quiet(Roles(<<A, B>>, list, <<>>))
  <2>1. \A A \in Q : A \cap Bare = {}
    BY <1>1
  <2> HIDE DEF Q
  <2> TAKE A, B, list \in Q
  <2>2. A \cap Bare = {} /\ B \cap Bare = {} /\ list \cap Bare = {}
    BY <2>1
  <2>3. QED
    BY <2>2, QuietRoles
<1>3. /\ Names \in Q /\ {"Attribute"} \in Q /\ Signature \in Q /\ Types \in Q /\ {"Field"} \in Q
      /\ Declarations \in Q /\ Expressions \in Q /\ {} \in Q
  OBVIOUS
<1> HIDE DEF Q
<1>4. /\ \A A \in Q : Quiet(ListOf(A)) /\ Quiet(Only(<<A>>)) /\ \A B \in Q : Quiet(Only(<<A, B>>))
      /\ Quiet(Leaf)
  <2>1. Quiet(Leaf)
    BY <1>2, <1>3 DEF Leaf, Only, Roles
  <2>2. \A A \in Q : Quiet(ListOf(A))
    BY <1>2 DEF ListOf
  <2>3. \A A \in Q : Quiet(Only(<<A>>)) /\ \A B \in Q : Quiet(Only(<<A, B>>))
    BY <1>2, <1>3, Zenon DEF Only
  <2>4. QED
    BY <2>1, <2>2, <2>3
<1>5. CASE routine = "Program"
  BY <1>3, <1>4, <1>5, DeclarationShapes
<1>6. CASE routine \in Declaring
  <2>1. Shape(routine, point) = ShapeOfDeclaration(routine, point)
    <3>1. routine # "Program" /\ routine \notin Expressing
      BY <1>6 DEF Declaring, Named, Expressing
    <3>2. QED
      BY <1>6, <3>1, Zenon DEF Shape
  <2>2. ShapeOfDeclaration(routine, point) \in
          {ListOf({"Attribute"}), Leaf, ListOf(Signature), Roles(<<>>, Signature, <<Names>>),
           Roles(<<>>, Signature, <<Types>>), Roles(<<Names>>, {"Field"}, <<Names>>),
           Roles(<<Names>>, {"Field"}, <<>>), Roles(<<Names>>, Declarations, <<>>),
           Only(<<Names>>), ListOf(Names)}
    BY DEF ShapeOfDeclaration
  <2>3. Quiet(ShapeOfDeclaration(routine, point))
    BY <1>2, <1>3, <1>4, <2>2
  <2>4. QED
    BY <2>1, <2>3
<1>7. CASE routine \in Expressing
  <2>1. Shape(routine, point) = ShapeOfExpression(routine, point)
    <3>1. routine # "Program" /\ routine \notin Declaring
      BY <1>7 DEF Declaring, Named, Expressing
    <3>2. QED
      BY <1>7, <3>1, Zenon DEF Shape
  <2>2. ShapeOfExpression(routine, point) \in
          {Only(<<Expressions>>), Roles(<<Expressions>>, Expressions, <<>>), Leaf}
    BY DEF ShapeOfExpression
  <2>3. QED
    BY <1>2, <1>3, <1>4, <2>1, <2>2
<1>8. CASE routine # "Program" /\ routine \notin Declaring /\ routine \notin Expressing
  <2>1. Shape(routine, point) = ShapeOfStatement(routine, point)
    BY <1>8, Zenon DEF Shape
  <2>2. \/ ShapeOfStatement(routine, point) \in
             {Only(<<Names>>), Only(<<Names, Types>>), Only(<<Expressions>>),
              Only(<<Names, Expressions>>), Leaf}
        \/ routine = "Block" /\ point \in {"statements", "statement"}
        \/ routine = "If" /\ point = "else"
    BY DEF ShapeOfStatement
  <2>3. QED
    BY <1>3, <1>4, <2>1, <2>2
<1>9. QED
  BY <1>5, <1>6, <1>7, <1>8

(* The functions, by what they return. *)
LEMMA RoutinesAre ==
  \A routine \in Routines :
    \/ routine \in Named \union {"Import", "Package"}
    \/ routine \in {"Program", "Declaration", "Identifier", "Type"}
    \/ routine \in Stating \union {"Block"} \/ routine \in Expressing
  BY DEF Routines, Named, Stating, Expressing

(* The functions that return statements. *)
LEMMA StatementsFrom ==
  ASSUME NEW routine \in Routines, Results(routine) \subseteq Statements
  PROVE  routine \in Stating \union {"Block"}
<1>1. \/ routine \in Named \union {"Import", "Package"}
      \/ routine \in {"Program", "Declaration", "Identifier", "Type"}
      \/ routine \in Stating \union {"Block"} \/ routine \in Expressing
  BY RoutinesAre
<1>2. CASE routine \in Named \union {"Import", "Package"}
  <2>1. Results(routine) = {routine} /\ routine \notin Statements
    BY <1>2, ResultsTable DEF Named, Statements
  <2>2. QED
    BY <2>1
<1>3. CASE routine \in {"Declaration", "Identifier", "Type"}
  <2>1. /\ "Function" \in Declarations /\ "Identifier" \in Names /\ "NamedType" \in Types
        /\ "Function" \notin Statements /\ "Identifier" \notin Statements
        /\ "NamedType" \notin Statements
    BY DEF Declarations, Names, Types, Statements
  <2>2. QED
    BY <1>3, <2>1, ResultsTable
<1>4. CASE routine = "Program"
  <2>1. Results("Program") = {"Program"}
    <3>1. "Program" \notin Declaring /\ "Program" \notin Stating /\ "Program" \notin Expressing
      BY DEF Declaring, Named, Stating, Expressing
    <3>2. QED
      BY <3>1 DEF Results
  <2>2. "Program" \notin Statements
    BY DEF Statements
  <2>3. QED
    BY <1>4, <2>1, <2>2
<1>5. CASE routine \in Expressing
  <2>1. "Call" \in Expressions /\ "Call" \notin Statements
    BY DEF Expressions, Statements
  <2>2. QED
    BY <1>5, <2>1, ResultsTable
<1>6. QED
  BY <1>1, <1>2, <1>3, <1>4, <1>5

(* Every function returns something. *)
LEMMA ResultsSome ==
  ASSUME NEW routine \in Routines
  PROVE  Results(routine) # {}
<1>1. \/ routine \in Named \union {"Import", "Package"}
      \/ routine \in {"Program", "Declaration", "Identifier", "Type"}
      \/ routine \in Stating \union {"Block"} \/ routine \in Expressing
  BY RoutinesAre
<1>2. /\ "Function" \in Declarations /\ "Identifier" \in Names /\ "NamedType" \in Types
      /\ "Call" \in Expressions /\ "Block" \in Statements
  BY DEF Declarations, Names, Types, Expressions, Statements
<1>3. CASE routine \in Named \union {"Import", "Package"}
  <2>1. Results(routine) = {routine}
    BY <1>3, ResultsTable
  <2>2. QED
    BY <2>1
<1>4. CASE routine \in {"Declaration", "Identifier", "Type"}
  BY <1>2, <1>4, ResultsTable
<1>5. CASE routine = "Program"
  <2>1. /\ "Program" \notin Declaring /\ "Program" \notin Stating /\ "Program" \notin Expressing
    BY DEF Declaring, Named, Stating, Expressing
  <2>2. Results("Program") = {"Program"}
    BY <2>1 DEF Results
  <2>3. QED
    BY <1>5, <2>2
<1>6. CASE routine \in Stating \union {"Block"}
  BY <1>2, <1>6, ResultsTable
<1>7. CASE routine \in Expressing
  BY <1>2, <1>7, ResultsTable
<1>8. QED
  BY <1>1, <1>3, <1>4, <1>5, <1>6, <1>7

(* A bare expression among the parts of a frame. *)
LEMMA BareHolders ==
  ASSUME NEW tree, NEW f, NEW n \in Nat, n = Len(f.parts),
         Fits(tree, Shape(f.routine, f.point), f.parts),
         NEW k \in 1..n, f.parts[k] # 0, tree[f.parts[k]].kind = "ExpressionStatement"
  PROVE  \/ f.routine = "Block" /\ f.point \in {"statements", "statement"}
         \/ f.routine = "If" /\ f.point = "else" /\ k = 2
<1>1. /\ tree[f.parts[k]].kind \in RoleAt(Shape(f.routine, f.point), k, n)
      /\ n >= Len(Shape(f.routine, f.point).head) + Len(Shape(f.routine, f.point).tail)
  BY Zenon DEF Fits
<1>2. CASE Quiet(Shape(f.routine, f.point))
  BY <1>1, <1>2, QuietRole
<1>3. CASE f.routine = "If" /\ f.point = "else"
  <2> DEFINE roles == Only(<<Expressions, Statements>>)
  <2>1. Shape(f.routine, f.point) = roles
    BY <1>3, StatementShapes
  <2>2. Len(roles.head) = 2 /\ Len(roles.tail) = 0 /\ roles.list = {} /\ roles.head[1] = Expressions
    BY DEF Only, Roles
  <2> HIDE DEF roles
  <2>3. n = 2
    <3>1. n = Len(roles.head) + Len(roles.tail)
      BY <2>1, <2>2, Zenon DEF Fits
    <3>2. QED
      BY <2>2, <3>1
  <2>4. CASE k = 1
    <3>1. RoleAt(roles, k, n) = Expressions
      BY <2>2, <2>4 DEF RoleAt
    <3>2. "ExpressionStatement" \notin Expressions
      BY DEF Expressions
    <3>3. QED
      BY <1>1, <2>1, <3>1, <3>2
  <2>5. QED
    BY <1>3, <2>3, <2>4
<1>4. QED
  BY <1>2, <1>3, QuietShapes

(* What calls begins no later than what it has called. *)
LEMMA CallersBegin ==
  ASSUME IInv, Running, BuiltInv
  PROVE  \A d \in 1..Len(calls) : calls[d].from \in Nat /\ calls[d].from <= frame.from
<1>1. /\ calls \in Seq(FrameRecord) /\ calls # <<>> /\ frame = calls[1]
      /\ Len(calls) \in Nat
  BY WorkFacts
<1>2. \A d \in 1..Len(calls) : calls[d].from \in Nat /\ calls[d].start \in Nat
  <2>1. \A d \in 1..Len(calls) : calls[d] \in FrameRecord
    BY <1>1
  <2>2. \A f \in FrameRecord : f.from \in Nat /\ f.start \in Nat
    BY DEF FrameRecord
  <2>3. QED
    BY <2>1, <2>2
<1>3. \A d \in 2..Len(calls) :
        calls[d].from <= calls[d].start /\ calls[d].start <= calls[d - 1].from
  BY DEF BuiltInv, Built, CallSound, FrameSound
<1> DEFINE Bad == {d \in 1..Len(calls) : ~(calls[d].from <= frame.from)}
<1>4. ASSUME Bad # {} PROVE FALSE
  <2>1. Bad \in SUBSET Nat
    BY <1>1
  <2>2. PICK d \in Bad : \A y \in Bad : d <= y
    <3> HIDE DEF Bad
    <3>1. QED
      BY <1>4, <2>1, LeastExists
  <2>3. d \in 1..Len(calls) /\ ~(calls[d].from <= frame.from)
    OBVIOUS
  <2>4. CASE d = 1
    BY <1>1, <1>2, <2>3, <2>4
  <2>5. CASE d # 1
    <3>1. d \in 2..Len(calls) /\ d - 1 \in 1..Len(calls) /\ ~(d <= d - 1)
      BY <1>1, <2>3, <2>5
    <3>2. calls[d - 1].from <= frame.from
      BY <2>2, <3>1
    <3>3. /\ calls[d].from \in Nat /\ calls[d].start \in Nat /\ calls[d - 1].from \in Nat
          /\ frame.from \in Nat
      BY <1>1, <1>2, <2>3, <3>1
    <3>4. calls[d].from <= calls[d].start /\ calls[d].start <= calls[d - 1].from
      BY <1>3, <3>1
    <3> HIDE DEF Bad
    <3>5. calls[d].from <= frame.from
      BY <3>2, <3>3, <3>4
    <3>6. QED
      BY <2>3, <3>5
  <2>6. QED
    BY <2>4, <2>5
<1>5. QED
  BY <1>2, <1>4

(* A caller that holds a bare expression from where the function began.  *)
LEMMA BareCallers ==
  ASSUME IInv, Running, BuiltInv, NEW m \in 1..Len(nodes),
         nodes[m].kind = "ExpressionStatement", nodes[m].from = frame.from,
         NEW e \in 2..Len(calls), m \in Indices(calls[e].parts)
  PROVE  /\ calls[e].routine = "Block" /\ calls[e].point = "statement"
         /\ calls[e - 1].from = frame.from
         /\ Results(calls[e - 1].routine) \subseteq Statements
         /\ calls[e - 1].routine \in Routines
<1> DEFINE f == calls[e]
           g == calls[e - 1]
<1>1. /\ calls \in Seq(FrameRecord) /\ Len(calls) \in Nat /\ e \in 1..Len(calls)
      /\ e - 1 \in 1..Len(calls) /\ nodes \in Seq(Node) /\ m # 0
  BY WorkFacts
<1>2. /\ f \in FrameRecord /\ g \in FrameRecord /\ nodes[m] \in Node
  BY <1>1
<1>3. CallSound(nodes, f, g) /\ NodeSound(nodes, m)
  BY DEF BuiltInv, Built
<1> HIDE DEF f, g
<1>4. f.parts \in Seq(Nat) /\ g.from \in Nat /\ g.routine \in Routines
  BY <1>2 DEF FrameRecord
<1>5. PICK k \in 1..Len(f.parts) : f.parts[k] = m
  BY <1>4 DEF f, Indices
<1>6. /\ Fits(nodes, Shape(f.routine, f.point), f.parts)
      /\ Between(nodes, f.parts, f.from, g.from)
      /\ Results(g.routine) \subseteq Awaited(f.routine, f.point)
      /\ Is(f, "If", {"else"}) /\ f.parts[2] # 0 => nodes[f.parts[2]].to < g.from
  BY <1>3 DEF CallSound, FrameSound, Carried
<1>7. nodes[m].to <= g.from
  BY <1>1, <1>5, <1>6 DEF Between
<1>8. nodes[m].from <= nodes[m].to
  BY <1>3 DEF NodeSound
<1>9. nodes[m].from \in Nat /\ nodes[m].to \in Nat /\ frame.from \in Nat
  BY <1>2, WorkFacts DEF Node
<1>10. g.from <= frame.from
  BY <1>1, CallersBegin DEF g
<1>11. g.from = frame.from /\ ~(nodes[m].to < g.from)
  BY <1>4, <1>7, <1>8, <1>9, <1>10
<1>12. f.routine = "Block" /\ f.point \in {"statements", "statement"}
  <2>1. Len(f.parts) \in Nat /\ f.parts[k] # 0 /\ nodes[f.parts[k]].kind = "ExpressionStatement"
    BY <1>1, <1>4, <1>5
  <2>2. ~(f.routine = "If" /\ f.point = "else" /\ k = 2)
    BY <1>1, <1>5, <1>6, <1>11 DEF Is
  <2>3. QED
    BY <1>6, <2>1, <2>2, BareHolders
<1>13. f.point = "statement" /\ Results(g.routine) \subseteq Statements
  <2>1. CASE f.point = "statements"
    <3>1. Results(g.routine) = {}
      BY <1>6, <2>1, AwaitedTable
    <3>2. QED
      BY <1>4, <3>1, ResultsSome
  <2>2. CASE f.point = "statement"
    BY <1>6, <1>12, <2>2, AwaitedTable
  <2>3. QED
    BY <1>12, <2>1, <2>2
<1>14. QED
  BY <1>4, <1>11, <1>12, <1>13 DEF f, g

(* An expression is above expressions only. *)
LEMMA NoExpressionCalls ==
  ASSUME Nested(calls), Len(calls) \in Nat, calls[1].routine \notin Expressing
  PROVE  \A d \in 1..Len(calls) : calls[d].routine \notin Expressing
<1> DEFINE Bad == {d \in 1..Len(calls) : calls[d].routine \in Expressing}
<1>1. ASSUME Bad # {} PROVE FALSE
  <2>1. Bad \in SUBSET Nat
    OBVIOUS
  <2>2. PICK d \in Bad : \A y \in Bad : d <= y
    <3> HIDE DEF Bad
    <3>1. QED
      BY <1>1, <2>1, LeastExists
  <2>3. d \in 2..Len(calls) /\ d - 1 \in 1..Len(calls) /\ ~(d <= d - 1)
    <3>1. d \in 1..Len(calls) /\ d # 1
      OBVIOUS
    <3> HIDE DEF Bad
    <3>2. QED
      BY <3>1
  <2>4. calls[d - 1].routine \in Expressing
    <3>1. calls[d].routine \in Inner
      BY DEF Inner
    <3>2. QED
      BY <2>3, <3>1 DEF Nested
  <2>5. QED
    BY <2>2, <2>3, <2>4
<1>2. QED
  BY <1>1

(* Among the callers only the one that waits for the statement holds it. *)
LEMMA BareCaller ==
  ASSUME IInv, Running, BuiltInv, Nested(calls), frame.routine = "ExpressionStatement",
         NEW m \in 1..Len(nodes),
         nodes[m].kind = "ExpressionStatement", nodes[m].from = frame.from,
         NEW e \in 2..Len(calls), m \in Indices(calls[e].parts)
  PROVE  e = 2 /\ Is(calls[2], "Block", {"statement"})
<1>1. /\ calls[e].routine = "Block" /\ calls[e].point = "statement"
      /\ calls[e - 1].from = frame.from
      /\ Results(calls[e - 1].routine) \subseteq Statements
      /\ calls[e - 1].routine \in Routines
  BY BareCallers
<1>2. /\ calls \in Seq(FrameRecord) /\ Len(calls) \in Nat /\ frame = calls[1] /\ frame.from \in Nat
  BY WorkFacts
<1>3. ASSUME e # 2 PROVE FALSE
  <2> DEFINE g == calls[e - 1]
             h == calls[e - 2]
  <2>1. e - 1 \in 2..Len(calls) /\ e - 2 \in 1..Len(calls) /\ (e - 1) - 1 = e - 2
        /\ e - 1 \in 1..Len(calls)
    BY <1>2, <1>3
  <2>2. CallSound(nodes, g, h) /\ g.point # "start"
    BY <2>1 DEF BuiltInv, Built, IInv, CallsInv
  <2>3. h.from \in Nat /\ h.from <= frame.from
    BY <2>1, CallersBegin
  <2>4. g \in FrameRecord
    BY <1>2, <2>1
  <2> HIDE DEF h
  <2>5. g.start \in Nat
    BY <2>4 DEF FrameRecord
  <2>6. g.from = frame.from /\ g.routine \in Stating \union {"Block"}
    BY <1>1, StatementsFrom
  <2>7. g.routine # "Statement" /\ g.routine \notin Inner
    <3>1. g.routine # "Statement"
      BY <2>1 DEF Nested
    <3>2. g.routine \in Inner => h.routine \in Expressing
      BY <2>1 DEF Nested, h
    <3>3. h.routine \in Expressing => FALSE
      <4>1. calls[1].routine \notin Expressing
        BY <1>2 DEF Expressing
      <4>2. QED
        BY <1>2, <2>1, <4>1, NoExpressionCalls DEF h
    <3>4. QED
      BY <3>1, <3>2, <3>3
  <2> HIDE DEF g
  <2>8. g.routine \in Beginning
    BY <2>6, <2>7 DEF Stating, Inner, Beginning, Taking
  <2>9. g.from <= g.start /\ g.start < h.from
    BY <2>2, <2>8, Zenon DEF CallSound, FrameSound
  <2>10. QED
    BY <1>2, <2>3, <2>5, <2>6, <2>9
<1>4. QED
  BY <1>1, <1>3 DEF Is

(* So the statement may be returned again. *)
LEMMA RepeatsHeld ==
  ASSUME IInv, Running, BuiltInv, HeldInv, Nested(calls), Repeats
  PROVE  HeldInv'
<1>1. PICK c :
        /\ c.had_error /\ Return(c, Len(nodes)) /\ nodes # <<>>
        /\ frame.routine = "ExpressionStatement"
        /\ Last(nodes).kind = "ExpressionStatement" /\ Last(nodes).from = frame.from
  BY DEF Repeats
<1> DEFINE m == Len(nodes)
           rest == Tail(calls)
<1>2. /\ nodes \in Seq(Node) /\ calls \in Seq(FrameRecord) /\ calls # <<>> /\ Older(nodes)
  BY WorkFacts
<1>3. m \in 1..Len(nodes) /\ nodes[m] = Last(nodes) /\ m \in Nat
  <2>1. Len(nodes) \in Nat /\ Len(nodes) # 0
    BY <1>1, <1>2
  <2>2. QED
    BY <2>1 DEF Last
<1>4. nodes[m].kind = "ExpressionStatement" /\ nodes[m].from = frame.from
  BY <1>1, <1>3
<1>5. \A j \in 1..Len(nodes) : m \notin Indices(nodes[j].parts)
  <2> TAKE j \in 1..Len(nodes)
  <2>1. Indices(nodes[j].parts) \subseteq 0..j - 1
    BY <1>2 DEF Older
  <2>2. m \notin 0..j - 1
    BY <1>3
  <2> HIDE DEF m
  <2>3. QED
    BY <2>1, <2>2
<1>6. c.had_error /\ context' = c /\ calls' = rest /\ returned' = m /\ nodes' = nodes
  BY <1>1 DEF Return
<1> HIDE DEF m
<1>7. \A e \in 2..Len(calls) : m \in Indices(calls[e].parts)
        => e = 2 /\ Is(calls[2], "Block", {"statement"})
  BY <1>1, <1>3, <1>4, BareCaller
<1>8. /\ rest \in Seq(FrameRecord) /\ Len(rest) = Len(calls) - 1 /\ Len(calls) \in Nat
      /\ \A d \in 1..Len(rest) : d + 1 \in 1..Len(calls) /\ rest[d] = calls[d + 1]
  BY <1>2, TailIs
<1>9. Settled(nodes, rest)
  BY Owns
<1> HIDE DEF rest
<1>10. \A d \in 1..Len(rest) : m \in Indices(rest[d].parts)
         => d = 1 /\ Is(rest[1], "Block", {"statement"})
  <2> SUFFICES ASSUME NEW d \in 1..Len(rest), m \in Indices(rest[d].parts)
               PROVE  d = 1 /\ Is(rest[1], "Block", {"statement"})
    OBVIOUS
  <2>1. d + 1 \in 2..Len(calls) /\ (d + 1 = 2 => d = 1) /\ (d = 1 => d + 1 = 2)
    BY <1>8
  <2>2. rest[d] = calls[d + 1]
    BY <1>8
  <2>3. d + 1 = 2 /\ Is(calls[2], "Block", {"statement"})
    BY <1>7, <2>1, <2>2
  <2>4. d = 1 /\ rest[1] = calls[2]
    BY <2>1, <2>2, <2>3
  <2>5. QED
    BY <2>3, <2>4
<1>11. Returning(nodes, rest, m)
  <2>1. CASE rest = <<>>
    <3>1. Clear(nodes, <<>>, {m})
      <4>1. 1..Len(<<>>) = {}
        OBVIOUS
      <4>2. QED
        BY <1>5, <4>1 DEF Clear
    <3>2. QED
      BY <2>1, <3>1 DEF Returning
  <2>2. CASE rest # <<>>
    <3>1. /\ \A d \in 1..Len(Tail(rest)) : d + 1 \in 1..Len(rest) /\ Tail(rest)[d] = rest[d + 1]
                                           /\ d + 1 # 1
          /\ 1 \in 1..Len(rest) /\ Head(rest) = rest[1]
      <4>1. /\ \A d \in 1..Len(Tail(rest)) : d + 1 \in 1..Len(rest) /\ Tail(rest)[d] = rest[d + 1]
            /\ 1 \in 1..Len(rest) /\ Head(rest) = rest[1]
        BY <1>8, <2>2, TailIs
      <4>2. \A d \in 1..Len(Tail(rest)) : d + 1 # 1
        OBVIOUS
      <4>3. QED
        BY <4>1, <4>2
    <3>2. Clear(nodes, Tail(rest), {m})
      BY <1>5, <1>10, <3>1 DEF Clear
    <3>3. m \in Indices(Head(rest).parts) => Is(Head(rest), "Block", {"statement"})
      BY <1>10, <3>1
    <3>4. QED
      BY <2>2, <3>2, <3>3 DEF Returning
  <2>3. QED
    BY <2>1, <2>2
<1>12. QED
  BY <1>6, <1>9, <1>11 DEF HeldInv

-----------------------------------------------------------------------------
(* The trees. *)

TreeInv == BuiltInv /\ HeldInv /\ Nested(calls)

(* A program that has not begun owns nothing. *)
LEMMA InitTree ==
  ASSUME Init
  PROVE  TreeInv
<1> DEFINE f == [Frame("Program", FreshContext) EXCEPT !.point = "declarations"]
<1>1. nodes = <<>> /\ calls = <<f>> /\ returned = 0
  BY DEF Init
<1>2. f.parts = <<>>
  BY DEF Frame
<1> HIDE DEF f
<1>3. /\ Len(<<f>>) = 1 /\ <<f>>[1] = f /\ Head(<<f>>) = f /\ Tail(<<f>>) = <<>>
      /\ 2..1 = {} /\ Len(<<>>) = 0 /\ 1..0 = {} /\ <<f>> # <<>>
      /\ \A d, e \in 1..1 : d = 1 /\ e = 1
  OBVIOUS
<1>4. Indices(<<>>) = {} /\ Once(<<>>)
  BY <1>3 DEF Indices, Once
<1>5. Settled(nodes, calls)
  BY <1>1, <1>2, <1>3, <1>4 DEF Settled
<1>6. Returning(nodes, calls, returned)
  BY <1>1, <1>3 DEF Returning, Clear
<1>7. HeldInv
  BY <1>1, <1>3, <1>5, <1>6 DEF HeldInv
<1>8. Nested(calls)
  BY <1>1, <1>3 DEF Nested
<1>9. QED
  BY <1>7, <1>8, InitBuilt DEF TreeInv

(* Steps keep the trees. *)
LEMMA StepTree ==
  ASSUME IInv, TreeInv, [Next]_vars
  PROVE  TreeInv'
<1>1. IInv' /\ BuiltInv /\ HeldInv /\ Nested(calls)
  BY StepGood DEF TreeInv
<1>2. BuiltInv' /\ Nested(calls)'
  BY <1>1, StepBuilt, StepNested
<1>3. HeldInv'
  <2>1. CASE UNCHANGED vars
    <3>1. nodes' = nodes /\ calls' = calls /\ returned' = returned /\ context' = context
      BY <2>1 DEF vars
    <3>2. HeldInv' = HeldInv
      BY <3>1 DEF HeldInv
    <3>3. QED
      BY <1>1, <3>2
  <2>2. CASE Running /\ Move
    BY <1>1, <2>2, MoveHolds, RepeatsHeld
  <2>3. QED
    BY <1>1, <2>1, <2>2, StepMoves
<1>4. QED
  BY <1>2, <1>3 DEF TreeInv

(* Who holds a node. *)
InNode(i, z) ==
  \E j \in 1..Len(nodes) :
    \E k \in 1..Len(nodes[j].parts) : nodes[j].parts[k] = i /\ z = <<j, k>>
InFrame(i, z) ==
  \E d \in 1..Len(calls) :
    \E k \in 1..Len(calls[d].parts) : calls[d].parts[k] = i /\ z = <<-d, k>>
InReturned(i, z) == returned = i /\ (Running => i \notin Indices(frame.parts)) /\ z = <<0, 0>>

(* They are all that Holders lists. *)
LEMMA HoldersAre ==
  ASSUME NEW i
  PROVE  \A z : z \in Holders(i) <=> InNode(i, z) \/ InFrame(i, z) \/ InReturned(i, z)
<1> DEFINE OfNode(j) == {<<j, k>> : k \in {m \in 1..Len(nodes[j].parts) : nodes[j].parts[m] = i}}
           OfFrame(d) == {<<-d, k>> : k \in {m \in 1..Len(calls[d].parts) : calls[d].parts[m] = i}}
           OfNodes == UNION {OfNode(j) : j \in NodeIds}
           OfFrames == UNION {OfFrame(d) : d \in 1..Len(calls)}
           OfNone == IF returned = i /\ (Running => i \notin Indices(frame.parts))
                       THEN {<<0, 0>>} ELSE {}
<1>1. Holders(i) = OfNodes \union OfFrames \union OfNone
  BY Zenon DEF Holders
<1>2. \A z, j : z \in OfNode(j) <=>
        \E k \in 1..Len(nodes[j].parts) : nodes[j].parts[k] = i /\ z = <<j, k>>
  OBVIOUS
<1>3. \A z, d : z \in OfFrame(d) <=>
        \E k \in 1..Len(calls[d].parts) : calls[d].parts[k] = i /\ z = <<-d, k>>
  OBVIOUS
<1>4. \A z : z \in OfNone <=> InReturned(i, z)
  BY DEF InReturned
<1> HIDE DEF OfNode, OfFrame
<1>5. \A z : z \in OfNodes <=> \E j \in NodeIds : z \in OfNode(j)
  OBVIOUS
<1>6. \A z : z \in OfFrames <=> \E d \in 1..Len(calls) : z \in OfFrame(d)
  OBVIOUS
<1> HIDE DEF OfNodes, OfFrames, OfNone
<1>7. \A z : z \in OfNodes <=> InNode(i, z)
  BY <1>2, <1>5, Zenon DEF InNode, NodeIds
<1>8. \A z : z \in OfFrames <=> InFrame(i, z)
  BY <1>3, <1>6, Zenon DEF InFrame
<1>9. QED
  BY <1>1, <1>4, <1>7, <1>8

(* Where one frame or node holds something, no other place does. *)
LEMMA OneHolder ==
  ASSUME IInv, TreeInv, NEW i \in NodeIds, NEW x \in Holders(i), NEW y \in Holders(i)
  PROVE  x = y
<1>1. /\ Settled(nodes, calls) /\ Returning(nodes, calls, returned)
  BY DEF TreeInv, HeldInv
<1>2. i # 0 /\ i \in Nat /\ NodeIds = 1..Len(nodes) /\ nodes \in Seq(Node) /\ Len(nodes) \in Nat
      /\ calls \in Seq(FrameRecord) /\ Len(calls) \in Nat
  BY DEF NodeIds, IInv, NodesInv, CallsInv
<1>3. \A z \in Holders(i) : InNode(i, z) \/ InFrame(i, z) \/ InReturned(i, z)
  BY HoldersAre
<1>4. ASSUME NEW a, NEW b, InNode(i, a), InNode(i, b) PROVE a = b
  <2>1. PICK j \in 1..Len(nodes) :
          \E k \in 1..Len(nodes[j].parts) : nodes[j].parts[k] = i /\ a = <<j, k>>
    BY <1>4 DEF InNode
  <2>2. PICK k \in 1..Len(nodes[j].parts) : nodes[j].parts[k] = i /\ a = <<j, k>>
    BY <2>1
  <2>3. PICK l \in 1..Len(nodes) :
          \E n \in 1..Len(nodes[l].parts) : nodes[l].parts[n] = i /\ b = <<l, n>>
    BY <1>4 DEF InNode
  <2>4. PICK n \in 1..Len(nodes[l].parts) : nodes[l].parts[n] = i /\ b = <<l, n>>
    BY <2>3
  <2>5. i \in Indices(nodes[j].parts) /\ i \in Indices(nodes[l].parts)
    BY <2>2, <2>4 DEF Indices
  <2>6. j = l
    BY <1>1, <1>2, <2>5 DEF Settled, Apart
  <2>7. k = n
    BY <1>1, <1>2, <2>2, <2>4, <2>6 DEF Settled, Once
  <2>8. QED
    BY <2>2, <2>4, <2>6, <2>7
<1>5. ASSUME NEW a, NEW b, InFrame(i, a), InFrame(i, b) PROVE a = b
  <2>1. PICK d \in 1..Len(calls) :
          \E k \in 1..Len(calls[d].parts) : calls[d].parts[k] = i /\ a = <<-d, k>>
    BY <1>5 DEF InFrame
  <2>2. PICK k \in 1..Len(calls[d].parts) : calls[d].parts[k] = i /\ a = <<-d, k>>
    BY <2>1
  <2>3. PICK e \in 1..Len(calls) :
          \E n \in 1..Len(calls[e].parts) : calls[e].parts[n] = i /\ b = <<-e, n>>
    BY <1>5 DEF InFrame
  <2>4. PICK n \in 1..Len(calls[e].parts) : calls[e].parts[n] = i /\ b = <<-e, n>>
    BY <2>3
  <2>5. i \in Indices(calls[d].parts) /\ i \in Indices(calls[e].parts)
    BY <2>2, <2>4 DEF Indices
  <2>6. d = e
    BY <1>1, <1>2, <2>5 DEF Settled, Apart
  <2>7. k = n
    BY <1>1, <1>2, <2>2, <2>4, <2>6 DEF Settled, Once
  <2>8. QED
    BY <2>2, <2>4, <2>6, <2>7
<1>6. ASSUME NEW a, NEW b, InNode(i, a), InFrame(i, b) PROVE FALSE
  <2>1. PICK j \in 1..Len(nodes) : i \in Indices(nodes[j].parts)
    BY <1>6 DEF Indices, InNode, InFrame
  <2>2. PICK d \in 1..Len(calls) : i \in Indices(calls[d].parts)
    BY <1>6 DEF Indices, InNode, InFrame
  <2>3. QED
    BY <1>1, <1>2, <2>1, <2>2 DEF Settled, Apart
<1>7. ASSUME NEW a, NEW b, InReturned(i, a), InNode(i, b) \/ InFrame(i, b) PROVE FALSE
  <2>1. returned = i /\ (Running => i \notin Indices(frame.parts))
    BY <1>7 DEF InReturned
  <2>2. \/ \E j \in 1..Len(nodes) : i \in Indices(nodes[j].parts)
        \/ \E d \in 1..Len(calls) : i \in Indices(calls[d].parts)
    BY <1>7 DEF Indices, InNode, InFrame
  <2>3. CASE calls = <<>>
    <3>1. Clear(nodes, <<>>, {i})
      BY <1>1, <2>1, <2>3 DEF Returning
    <3>2. 1..Len(calls) = {}
      BY <2>3
    <3>3. QED
      BY <1>2, <2>2, <3>1, <3>2 DEF Clear
  <2>4. CASE calls # <<>>
    <3>1. Clear(nodes, Tail(calls), {i}) /\ i \notin Indices(frame.parts) /\ frame = calls[1]
      BY <1>1, <1>2, <2>1, <2>4, TailIs DEF Returning, Running, frame
    <3>2. \A d \in 1..Len(calls) :
            d = 1 \/ (d - 1 \in 1..Len(Tail(calls)) /\ calls[d] = Tail(calls)[d - 1])
      <4>1. \A d \in 1..Len(calls) : d = 1 \/ d \in 2..Len(calls)
        BY <1>2
      <4>2. QED
        BY <1>2, <2>4, <4>1, TailIs
    <3>3. QED
      BY <1>2, <2>2, <3>1, <3>2 DEF Clear
  <2>5. QED
    BY <2>3, <2>4
<1>8. ASSUME NEW a, NEW b, InReturned(i, a), InReturned(i, b) PROVE a = b
  BY <1>8 DEF InReturned
<1>9. QED
  BY <1>3, <1>4, <1>5, <1>6, <1>7, <1>8

(* What is found is held. *)
LEMMA FoundHeld ==
  ASSUME NEW i \in NodeIds, Found(nodes, calls, returned, i), nodes[i].kind # "Attribute",
         calls \in Seq(FrameRecord)
  PROVE  Holders(i) # {}
<1>1. ASSUME NEW j \in NodeIds, i \in Indices(nodes[j].parts) PROVE Holders(i) # {}
  <2>1. PICK k \in 1..Len(nodes[j].parts) : nodes[j].parts[k] = i
    BY <1>1 DEF Indices
  <2>2. <<j, k>> \in Holders(i)
    BY <2>1, HoldersAre DEF InNode, NodeIds
  <2>3. QED
    BY <2>2
<1>2. ASSUME NEW d \in 1..Len(calls), i \in Indices(calls[d].parts) PROVE Holders(i) # {}
  <2>1. PICK k \in 1..Len(calls[d].parts) : calls[d].parts[k] = i
    BY <1>2 DEF Indices
  <2>2. <<-d, k>> \in Holders(i)
    BY <2>1, HoldersAre DEF InFrame
  <2>3. QED
    BY <2>2
<1>3. ASSUME i = returned, Running => i \notin Indices(frame.parts) PROVE Holders(i) # {}
  <2>1. <<0, 0>> \in Holders(i)
    BY <1>3, HoldersAre DEF InReturned
  <2>2. QED
    BY <2>1
<1>4. ASSUME Running, i \in Indices(frame.parts) PROVE Holders(i) # {}
  <2>1. 1 \in 1..Len(calls) /\ frame = calls[1]
    BY <1>4, TailIs DEF Running, frame
  <2>2. QED
    BY <1>2, <1>4, <2>1
<1>5. QED
  BY <1>1, <1>2, <1>3, <1>4 DEF Found, NodeIds

(* TreesOwned: the nodes form trees.  Each has the parts its members have,  *)
(* all of them older than it, and one owner at most; without errors none is *)
(* lost between the parser's functions.                                     *)
THEOREM TreesAreOwned == Spec => []TreesOwned
<1>1. ASSUME IInv, TreeInv PROVE TreesOwned
  <2> SUFFICES ASSUME NEW i \in NodeIds
               PROVE  /\ FitsItsRoles(i)
                      /\ \A j \in PartsOf(i) : j < i
                      /\ Cardinality(Holders(i)) <= 1
                      /\ ~context.had_error /\ nodes[i].kind # "Attribute" => Holders(i) # {}
    BY DEF TreesOwned
  <2>1. FitsItsRoles(i)
    <3>1. Fits(nodes, RolesOf(nodes[i].kind), nodes[i].parts)
      BY <1>1 DEF TreeInv, BuiltInv, Built, NodeSound, NodeIds
    <3>2. QED
      BY <3>1, Zenon DEF Fits, FitsItsRoles
  <2>2. \A j \in PartsOf(i) : j < i
    <3>1. Indices(nodes[i].parts) \subseteq 0..i - 1 /\ i \in Nat
      BY <1>1 DEF IInv, NodesInv, Older, NodeIds
    <3>2. PartsOf(i) \subseteq Indices(nodes[i].parts)
      BY DEF PartsOf
    <3>3. QED
      BY <3>1, <3>2
  <2>3. Cardinality(Holders(i)) <= 1
    <3>1. CASE Holders(i) = {}
      BY <3>1, FS_EmptySet
    <3>2. CASE Holders(i) # {}
      <4>1. PICK x : x \in Holders(i)
        BY <3>2
      <4>2. Holders(i) = {x}
        BY <1>1, <4>1, OneHolder
      <4>3. Cardinality({x}) = 1
        BY FS_Singleton
      <4>4. QED
        BY <4>2, <4>3
    <3>3. QED
      BY <3>1, <3>2
  <2>4. ~context.had_error /\ nodes[i].kind # "Attribute" => Holders(i) # {}
    BY <1>1, FoundHeld DEF TreeInv, HeldInv, IInv, CallsInv, NodeIds
  <2>5. QED
    BY <2>1, <2>2, <2>3, <2>4
<1>2. Init => TreeInv
  BY InitTree
<1>3. IInv /\ TreeInv /\ [Next]_vars => TreeInv'
  BY StepTree
<1>4. QED
  BY <1>1, <1>2, <1>3, Invariance, PTL DEF Spec

-----------------------------------------------------------------------------
(* Spans.  A node spans tokens it was made from, and what it holds.         *)

(* A span of tokens from the first on and before the second; after an       *)
(* error it may take in that one too.                                       *)
Inside(span, from, to, failed) ==
  /\ span \in Span /\ IsValid(span)
  /\ from <= span.start /\ span.end <= to /\ (~failed => span.end < to)

CoversAll(tree, span, parts) ==
  \A k \in 1..Len(parts) :
    parts[k] # 0 =>
      tree[parts[k]].kind = "Attribute" \/ Covers(span, tree[parts[k]].span)

(* The span of a node: a program may span nothing.                          *)
Spans(tree, node, failed) ==
  /\ node.kind # "Program" => Inside(node.span, node.from, node.to, failed)
  /\ node.kind = "Program" /\ IsValid(node.span) =>
       node.from <= node.span.start /\ node.span.end <= node.to
  /\ ~failed /\ ~SpansKeyword(node) => CoversAll(tree, node.span, node.parts)

(* A program ends the parse, so that no node holds one. *)
SpanInv ==
  /\ \A i \in 1..Len(nodes) : Spans(nodes, nodes[i], context.had_error)
  /\ \A i \in 1..Len(nodes) : nodes[i].kind = "Program" => i = Len(nodes) /\ ~Running

(* A span stays inside where there is more room. *)
LEMMA InsideOn ==
  ASSUME NEW span, NEW from \in Nat, NEW to \in Nat, NEW failed \in BOOLEAN,
         Inside(span, from, to, failed),
         NEW first \in Nat, first <= from, NEW end \in Nat, to <= end,
         NEW fails \in BOOLEAN, failed => fails
  PROVE  Inside(span, first, end, fails)
  BY DEF Inside, Span

(* Two spans and the one that covers both. *)
LEMMA ExtendCovers ==
  ASSUME NEW a \in Span, NEW b \in Span, IsValid(a), IsValid(b)
  PROVE  LET s == ExtendSpan(a, b) IN
         /\ s \in Span /\ IsValid(s) /\ s.start <= a.start /\ s.start <= b.start
         /\ a.end <= s.end /\ b.end <= s.end
         /\ s.start = a.start \/ s.start = b.start
         /\ s.end = a.end \/ s.end = b.end
<1>1. ExtendSpan(a, b) = Merge(a, b)
  BY Zenon DEF ExtendSpan
<1>2. QED
  BY <1>1 DEF Merge, Span, IsValid

(* What one of them covers is covered, and they stay inside. *)
LEMMA ExtendInside ==
  ASSUME NEW from \in Nat, NEW to \in Nat, NEW failed \in BOOLEAN,
         NEW a, Inside(a, from, to, failed), NEW b, Inside(b, from, to, failed)
  PROVE  LET s == ExtendSpan(a, b) IN
         /\ Inside(s, from, to, failed) /\ Covers(s, a) /\ Covers(s, b)
         /\ \A c \in Span : Covers(a, c) \/ Covers(b, c) => Covers(s, c)
<1> DEFINE s == ExtendSpan(a, b)
<1>1. a \in Span /\ b \in Span /\ IsValid(a) /\ IsValid(b)
  BY DEF Inside
<1>2. /\ s \in Span /\ IsValid(s) /\ s.start <= a.start /\ s.start <= b.start
      /\ a.end <= s.end /\ b.end <= s.end
      /\ s.start = a.start \/ s.start = b.start
      /\ s.end = a.end \/ s.end = b.end
  BY <1>1, ExtendCovers
<1> HIDE DEF s
<1>3. Inside(s, from, to, failed)
  BY <1>2 DEF Inside
<1>4. Covers(s, a) /\ Covers(s, b)
  BY <1>2 DEF Covers
<1>5. ASSUME NEW c \in Span, Covers(a, c) \/ Covers(b, c) PROVE Covers(s, c)
  BY <1>1, <1>2, <1>5 DEF Covers, Span
<1>6. QED
  BY <1>3, <1>4, <1>5 DEF s

(* The span of a token. *)
LEMMA TokenInside ==
  ASSUME NEW p \in Nat, NEW from \in Nat, from <= p, NEW to \in Nat, p <= to,
         NEW failed \in BOOLEAN, ~failed => p < to
  PROVE  Inside(TokenSpan(p), from, to, failed)
  BY DEF Inside, TokenSpan, Span, IsValid

(* New nodes and new errors leave the spans of the others as they should be. *)
LEMMA SpansStay ==
  ASSUME NEW tree, NEW more, NEW node \in Node,
         Grown(tree, more), Indices(node.parts) \subseteq 0..Len(tree),
         NEW failed \in BOOLEAN, NEW fails \in BOOLEAN, failed => fails,
         Spans(tree, node, failed)
  PROVE  Spans(more, node, fails)
<1>1. node.from \in Nat /\ node.to \in Nat /\ node.parts \in Seq(Nat) /\ Len(tree) \in Nat
  BY DEF Node, Grown
<1>2. node.kind # "Program" => Inside(node.span, node.from, node.to, fails)
  BY <1>1, InsideOn DEF Spans
<1>3. ASSUME ~fails, ~SpansKeyword(node) PROVE CoversAll(more, node.span, node.parts)
  <2>1. CoversAll(tree, node.span, node.parts)
    BY <1>3 DEF Spans
  <2>2. SUFFICES ASSUME NEW k \in 1..Len(node.parts), node.parts[k] # 0
                 PROVE  \/ more[node.parts[k]].kind = "Attribute"
                        \/ Covers(node.span, more[node.parts[k]].span)
    BY DEF CoversAll
  <2>3. node.parts[k] \in 1..Len(tree)
    BY <1>1, <2>2 DEF Indices
  <2>4. more[node.parts[k]] = tree[node.parts[k]]
    BY <2>3 DEF Grown
  <2>5. QED
    BY <2>1, <2>2, <2>4 DEF CoversAll
<1>4. QED
  BY <1>2, <1>3 DEF Spans

(* What a step does to the nodes, with respect to spans. *)
Spanned ==
  \/ nodes' = nodes
  \/ \E node : /\ nodes' = Append(nodes, node) /\ Spans(nodes, node, context'.had_error)
               /\ node.kind = "Program" => calls' = <<>>

(* That is enough. *)
LEMMA SpannedKeeps ==
  ASSUME IInv, IInv', Running, BuiltInv, SpanInv, context.had_error => context'.had_error, Spanned
  PROVE  SpanInv'
<1>1. /\ nodes \in Seq(Node) /\ nodes' \in Seq(Node) /\ Len(nodes) \in Nat
      /\ \A i \in 1..Len(nodes) : nodes[i].kind # "Program"
      /\ Older(nodes) /\ Older(nodes')
      /\ context.had_error \in BOOLEAN /\ context'.had_error \in BOOLEAN
  BY DEF IInv, NodesInv, SpanInv, GoodContext, ParserState
<1>2. Grown(nodes, nodes') =>
        \A i \in 1..Len(nodes) : Spans(nodes', nodes[i], context'.had_error)
  <2>1. SUFFICES ASSUME Grown(nodes, nodes'), NEW i \in 1..Len(nodes)
                 PROVE  Spans(nodes', nodes[i], context'.had_error)
    OBVIOUS
  <2>2. Spans(nodes, nodes[i], context.had_error) /\ nodes[i] \in Node
    BY <1>1, <2>1 DEF SpanInv
  <2>3. Indices(nodes[i].parts) \subseteq 0..Len(nodes)
    <3>1. Indices(nodes[i].parts) \subseteq 0..i - 1
      BY <1>1, <2>1 DEF Older
    <3>2. 0..i - 1 \subseteq 0..Len(nodes)
      BY <1>1, <2>1
    <3>3. QED
      BY <3>1, <3>2
  <2>4. QED
    BY <1>1, <2>1, <2>2, <2>3, SpansStay
<1>3. CASE nodes' = nodes
  <2>1. Grown(nodes, nodes')
    BY <1>1, <1>3 DEF Grown
  <2>2. QED
    BY <1>1, <1>2, <1>3, <2>1 DEF SpanInv
<1>4. ASSUME NEW node, nodes' = Append(nodes, node), Spans(nodes, node, context'.had_error),
             node.kind = "Program" => calls' = <<>>
      PROVE  SpanInv'
  <2>1. /\ Len(nodes') = Len(nodes) + 1 /\ nodes'[Len(nodes) + 1] = node
        /\ \A i \in 1..Len(nodes) : nodes'[i] = nodes[i]
        /\ \A i \in 1..Len(nodes') : i \in 1..Len(nodes) \/ i = Len(nodes')
    BY <1>1, <1>4
  <2>2. Grown(nodes, nodes')
    BY <1>1, <2>1 DEF Grown
  <2>3. Len(nodes') \in 1..Len(nodes') /\ node \in Node
    <3>1. Len(nodes') \in 1..Len(nodes')
      BY <1>1, <2>1
    <3>2. QED
      BY <1>1, <2>1, <3>1
  <2>4. Indices(node.parts) \subseteq 0..Len(nodes)
    BY <1>1, <2>1, <2>3 DEF Older
  <2>5. Spans(nodes', node, context'.had_error)
    BY <1>1, <1>4, <2>2, <2>3, <2>4, SpansStay
  <2>6. \A i \in 1..Len(nodes') : Spans(nodes', nodes'[i], context'.had_error)
    BY <1>2, <2>1, <2>2, <2>5
  <2>7. \A i \in 1..Len(nodes') : nodes'[i].kind = "Program" => i = Len(nodes') /\ ~Running'
    BY <1>1, <1>4, <2>1 DEF Running
  <2>8. QED
    BY <2>6, <2>7 DEF SpanInv
<1>5. QED
  BY <1>3, <1>4 DEF Spanned

(* A node that is made from the tokens from the first on. *)
LEMMA MadeSpanned ==
  ASSUME NEW c, NEW from, NEW kind, kind # "Program", NEW span, NEW parts,
         nodes' = Append(nodes, NodeFrom(from, c, kind, span, parts)),
         Inside(span, from, c.position, context'.had_error),
         \/ context'.had_error \/ kind \in {"Class", "Trait", "Enum"}
         \/ kind = "Module" /\ parts[2] = 0
         \/ CoversAll(nodes, span, parts)
  PROVE  Spanned
<1> DEFINE node == NodeFrom(from, c, kind, span, parts)
<1>1. /\ node.kind = kind /\ node.span = span /\ node.parts = parts
      /\ node.from = from /\ node.to = c.position
  BY DEF NodeFrom
<1>2. nodes' = Append(nodes, node)
  OBVIOUS
<1> HIDE DEF node
<1>3. Spans(nodes, node, context'.had_error)
  BY <1>1 DEF Spans, SpansKeyword
<1>4. QED
  BY <1>1, <1>2, <1>3 DEF Spanned

(* The node a function returns, and the one it goes on with. *)
LEMMA ReturnSpanned ==
  ASSUME NEW c, NEW kind, kind # "Program", NEW span, NEW parts,
         \/ ReturnNode(c, kind, span, parts)
         \/ \E point, more : ContinueWith(point, c, NewNode(c, kind, span, parts), more),
         Inside(span, frame.from, c.position, c.had_error),
         \/ c.had_error \/ kind \in {"Class", "Trait", "Enum"}
         \/ kind = "Module" /\ parts[2] = 0
         \/ CoversAll(nodes, span, parts)
  PROVE  Spanned
<1>1. context' = c /\ nodes' = Append(nodes, NodeFrom(frame.from, c, kind, span, parts))
  BY DEF ReturnNode, ContinueWith, NewNode
<1>2. QED
  BY <1>1, MadeSpanned

(* No part of the running frame is a program, and each has a span between  *)
(* the start of the frame and the cursor.                                  *)
LEMMA PartSpan ==
  ASSUME IInv, Running, BuiltInv, SpanInv, NEW i \in Indices(frame.parts) \union {returned},
         i # 0
  PROVE  /\ i \in 1..Len(nodes) /\ nodes[i] \in Node
         /\ nodes[i].from \in Nat /\ nodes[i].to \in Nat
         /\ Inside(nodes[i].span, nodes[i].from, nodes[i].to, context.had_error)
         /\ frame.from <= nodes[i].from /\ nodes[i].to <= context.position
         /\ Inside(nodes[i].span, frame.from, context.position, context.had_error)
         /\ nodes[i].kind # "Attribute" => frame.start <= nodes[i].span.start
<1>1. /\ FrameSound(nodes, frame, context.position)
      /\ AnswerSound(nodes, frame, returned, context.position)
      /\ frame.from \in Nat /\ frame.start \in Nat /\ context.position \in Nat
      /\ Indices(frame.parts) \subseteq 0..Len(nodes) /\ Len(nodes) \in Nat
      /\ returned \in 0..Len(nodes) /\ nodes \in Seq(Node)
      /\ context.had_error \in BOOLEAN
  BY WorkFacts, AnswerKind
<1>2. i \in 1..Len(nodes)
  BY <1>1
<1>3. nodes[i] \in Node /\ nodes[i].from \in Nat /\ nodes[i].to \in Nat
  <2>1. nodes[i] \in Node
    BY <1>1, <1>2
  <2>2. QED
    BY <2>1 DEF Node
<1>4. Inside(nodes[i].span, nodes[i].from, nodes[i].to, context.had_error)
  BY <1>2 DEF SpanInv, Spans
<1>5. /\ frame.from <= nodes[i].from /\ nodes[i].to <= context.position
      /\ nodes[i].kind # "Attribute" => frame.start <= nodes[i].from
  <2>1. CASE i \in Indices(frame.parts)
    BY <2>1, PartStands
  <2>2. CASE i = returned
    <3>1. nodes[i].to <= context.position /\ frame.start <= nodes[i].from
      BY <1>1, <2>2 DEF AnswerSound
    <3>2. frame.from <= frame.start
      BY <1>1 DEF FrameSound
    <3>3. QED
      BY <1>1, <1>3, <3>1, <3>2
  <2>3. QED
    BY <2>1, <2>2
<1>6. Inside(nodes[i].span, frame.from, context.position, context.had_error)
  BY <1>1, <1>3, <1>4, <1>5, InsideOn
<1>7. nodes[i].kind # "Attribute" => frame.start <= nodes[i].span.start
  <2>1. nodes[i].from <= nodes[i].span.start /\ nodes[i].span.start \in Nat
    BY <1>4 DEF Inside, Span
  <2>2. QED
    BY <1>1, <1>3, <1>5, <2>1
<1>8. QED
  BY <1>2, <1>3, <1>4, <1>5, <1>6, <1>7

(* What is returned begins behind the parts of the frame. *)
LEMMA ReturnedBehind ==
  ASSUME IInv, Running, BuiltInv, SpanInv, returned # 0, ~context.had_error,
         NEW i \in Indices(frame.parts), i # 0
  PROVE  nodes[i].span.end < nodes[returned].span.start
<1>1. /\ Inside(nodes[i].span, nodes[i].from, nodes[i].to, context.had_error)
      /\ Inside(nodes[returned].span, nodes[returned].from, nodes[returned].to,
                context.had_error)
      /\ nodes[i].to \in Nat /\ nodes[returned].from \in Nat
  BY PartSpan
<1>2. nodes[i].to <= nodes[returned].from
  <2>1. AnswerSound(nodes, frame, returned, context.position)
    BY WorkFacts
  <2>2. PICK k \in 1..Len(frame.parts) : frame.parts[k] = i
    BY DEF Indices
  <2>3. QED
    BY <2>1, <2>2 DEF AnswerSound
<1>3. QED
  BY <1>1, <1>2 DEF Inside, Span

(* And they follow one another. *)
LEMMA PartsFollow ==
  ASSUME IInv, Running, BuiltInv, SpanInv, ~context.had_error,
         NEW k \in 1..Len(frame.parts), NEW l \in 1..Len(frame.parts), k < l,
         frame.parts[k] # 0, frame.parts[l] # 0
  PROVE  /\ nodes[frame.parts[k]].span.end < nodes[frame.parts[l]].span.start
         /\ nodes[frame.parts[k]].span.start <= nodes[frame.parts[l]].span.start
         /\ nodes[frame.parts[k]].span.end <= nodes[frame.parts[l]].span.end
<1> DEFINE i == frame.parts[k]
           j == frame.parts[l]
<1>1. i \in Indices(frame.parts) /\ j \in Indices(frame.parts)
  BY DEF Indices
<1>2. nodes[i].to <= nodes[j].from
  <2>1. Ordered(nodes, frame.parts)
    BY WorkFacts DEF FrameSound, Carried
  <2>2. QED
    BY <2>1 DEF Ordered
<1>3. i # 0 /\ j # 0
  OBVIOUS
<1> HIDE DEF i, j
<1>4. /\ Inside(nodes[i].span, nodes[i].from, nodes[i].to, context.had_error)
      /\ Inside(nodes[j].span, nodes[j].from, nodes[j].to, context.had_error)
      /\ nodes[i].to \in Nat /\ nodes[j].from \in Nat
  BY <1>1, <1>3, PartSpan
<1>5. nodes[i].span.end < nodes[j].span.start
  BY <1>2, <1>4 DEF Inside, Span
<1>6. /\ nodes[i].span.start <= nodes[j].span.start
      /\ nodes[i].span.end <= nodes[j].span.end
  BY <1>4, <1>5 DEF Inside, Span, IsValid
<1>7. QED
  BY <1>5, <1>6 DEF i, j

(* Its own start, where the function has taken a token. *)
LEMMA StartInside ==
  ASSUME IInv, Running, BuiltInv
  PROVE  /\ StartSpan \in Span /\ StartSpan.start = frame.start /\ StartSpan.end = frame.start
         /\ Inside(StartSpan, frame.from, context.position, TRUE)
         /\ frame.routine \in Beginning /\ frame.point # "start" =>
              Inside(StartSpan, frame.from, context.position, FALSE)
<1>1. /\ FrameSound(nodes, frame, context.position)
      /\ frame.from \in Nat /\ frame.start \in Nat /\ context.position \in Nat
  BY WorkFacts
<1>2. /\ frame.from <= frame.start /\ frame.start <= context.position
      /\ frame.routine \in Beginning /\ frame.point # "start" => frame.start < context.position
  BY <1>1 DEF FrameSound
<1>3. StartSpan \in Span /\ StartSpan.start = frame.start /\ StartSpan.end = frame.start
  BY <1>1 DEF StartSpan, TokenSpan, Span
<1>4. QED
  BY <1>1, <1>2, <1>3, TokenInside DEF StartSpan

(* The node of one token. *)
LEMMA LeafSpanned ==
  ASSUME IInv, Peek(context) # "eof", NEW p \in Nat, NEW from \in Nat, from <= p,
         p <= context.position, NEW kind, kind # "Program",
         nodes' = Append(nodes, NodeFrom(from, Consumed(context), kind, TokenSpan(p), <<>>)),
         context'.had_error \in BOOLEAN
  PROVE  Spanned
<1>1. Consumed(context).position = context.position + 1 /\ context.position \in Nat
  BY OntoNext
<1>2. Consumed(context).position \in Nat /\ p < Consumed(context).position
  BY <1>1
<1>3. Inside(TokenSpan(p), from, Consumed(context).position, context'.had_error)
  BY <1>2, TokenInside
<1>4. CoversAll(nodes, TokenSpan(p), <<>>)
  BY DEF CoversAll
<1>5. QED
  BY <1>3, <1>4, MadeSpanned

(* A token that closes a function's node closes its span too. *)
LEMMA ClosedInside ==
  ASSUME IInv, Running, BuiltInv, SpanInv, NEW type, type # "eof",
         NEW base, Inside(base, frame.from, context.position, context.had_error),
         base.start <= frame.start, NEW P \in Taken,
         NEW c \in ParserState, ExpectedOrRecovered(context, type).position <= c.position,
         ExpectedOrRecovered(context, type).had_error => c.had_error
  PROVE  LET span == IF Peek(context) = type
                       THEN ExtendSpan(base, TokenSpan(context.position)) ELSE base
         IN  /\ Inside(span, frame.from, c.position, c.had_error)
             /\ c.had_error \/ CoversAll(nodes, span, P)
<1> DEFINE token == TokenSpan(context.position)
           s == ExtendSpan(base, token)
           d == ExpectedOrRecovered(context, type)
<1>1. /\ frame.from \in Nat /\ frame.start \in Nat /\ context.position \in Nat
      /\ frame.from <= context.position
      /\ P \in Seq(Nat) /\ Indices(P) \subseteq Indices(frame.parts) \union {returned, 0}
  <2>1. Indices(frame.parts) \subseteq Indices(frame.parts) \union {returned, 0}
        /\ Indices(<<>>) = {}
    BY DEF Indices
  <2>2. Indices(P) \subseteq Indices(frame.parts) \union {returned, 0}
    BY <2>1, HeldIs DEF Taken
  <2>3. frame.from <= context.position
    BY FrameFacts DEF GoodFrame
  <2>4. QED
    BY <2>2, <2>3, WorkFacts, TakenCarried
<1>2. /\ Onto(d) /\ d.position \in Nat /\ c.position \in Nat /\ c.had_error \in BOOLEAN
      /\ context.position <= c.position
  <2>1. Onto(d)
    BY OntoFacts
  <2>2. d.position \in Nat /\ c.position \in Nat /\ c.had_error \in BOOLEAN
        /\ context.position <= d.position
    BY <2>1 DEF Onto, Lasts, ParserState
  <2>3. QED
    BY <1>1, <2>1, <2>2
<1>3. base \in Span /\ IsValid(base) /\ base.start \in Nat /\ base.end \in Int
      /\ frame.from <= base.start /\ base.end <= context.position
  BY DEF Inside, Span
<1>4. CASE Peek(context) = type
  <2>1. context.position < c.position
    <3>1. Peek(context) # "eof" /\ d = Consumed(context)
      BY <1>4 DEF ExpectedOrRecovered
    <3>2. d.position = context.position + 1
      BY <3>1, OntoNext
    <3>3. QED
      BY <1>1, <1>2, <3>2
  <2>2. token \in Span /\ IsValid(token) /\ token.start = context.position
        /\ token.end = context.position
    BY <1>1 DEF TokenSpan, Span, IsValid
  <2>3. /\ s \in Span /\ IsValid(s) /\ s.start <= base.start /\ s.start <= token.start
        /\ base.end <= s.end /\ token.end <= s.end
        /\ s.start = base.start \/ s.start = token.start
        /\ s.end = base.end \/ s.end = token.end
    <3> HIDE DEF token
    <3>1. QED
      BY <1>3, <2>2, ExtendCovers
  <2>4. s.start \in Nat /\ s.end = context.position /\ frame.from <= s.start
        /\ s.start <= frame.start
    <3>1. s.start \in Nat /\ s.end \in Int
      BY <2>3 DEF Span
    <3>2. token.start = context.position /\ token.end = context.position
      BY <2>2
    <3> HIDE DEF s, token
    <3>3. frame.from <= s.start /\ s.start <= frame.start
      BY <1>1, <1>3, <2>3, <3>1, <3>2
    <3>4. s.end = context.position
      BY <1>1, <1>3, <2>3, <3>1, <3>2
    <3>5. QED
      BY <3>1, <3>3, <3>4
  <2> HIDE DEF s, token
  <2>5. Inside(s, frame.from, c.position, c.had_error)
    BY <1>1, <1>2, <2>1, <2>3, <2>4 DEF Inside
  <2>6. CoversAll(nodes, s, P)
    <3>1. SUFFICES ASSUME NEW k \in 1..Len(P), P[k] # 0, nodes[P[k]].kind # "Attribute"
                   PROVE  Covers(s, nodes[P[k]].span)
      BY DEF CoversAll
    <3>2. P[k] \in Indices(frame.parts) \union {returned}
      BY <1>1, <3>1 DEF Indices
    <3>3. /\ Inside(nodes[P[k]].span, frame.from, context.position, context.had_error)
          /\ frame.start <= nodes[P[k]].span.start
      BY <3>1, <3>2, PartSpan
    <3>4. nodes[P[k]].span.start \in Nat /\ nodes[P[k]].span.end <= context.position
      BY <3>3 DEF Inside, Span
    <3>5. s.start <= nodes[P[k]].span.start
      BY <1>1, <2>4, <3>3, <3>4
    <3>6. QED
      BY <2>4, <3>4, <3>5 DEF Covers
  <2>7. QED
    BY <1>4, <2>5, <2>6 DEF s, token
<1>5. CASE Peek(context) # type
  <2>1. c.had_error
    <3>1. d = Recovered(Reported(context))
      BY <1>5 DEF ExpectedOrRecovered
    <3>2. QED
      BY <3>1, OntoFacts
  <2>2. Inside(base, frame.from, c.position, c.had_error)
    BY <1>1, <1>2, <1>3, <2>1 DEF Inside
  <2>3. QED
    BY <1>5, <2>1, <2>2
<1>6. QED
  BY <1>4, <1>5

(* The span that a function extends to what is returned covers all it held. *)
LEMMA ExtendedReturned ==
  ASSUME IInv, Running, BuiltInv, SpanInv, returned # 0
  PROVE  LET span == Extended(StartSpan, returned)
         IN  /\ Inside(span, frame.from, context.position, context.had_error)
             /\ context.had_error \/ CoversAll(nodes, span, Held)
<1> DEFINE inner == nodes[returned].span
           s == ExtendSpan(StartSpan, inner)
<1>1. Extended(StartSpan, returned) = s
  BY DEF Extended
<1>2. /\ frame.from \in Nat /\ frame.start \in Nat /\ context.position \in Nat
      /\ frame.from <= frame.start
      /\ AnswerSound(nodes, frame, returned, context.position)
  BY WorkFacts DEF FrameSound
<1>3. /\ StartSpan \in Span /\ StartSpan.start = frame.start /\ StartSpan.end = frame.start
      /\ IsValid(StartSpan)
  BY <1>2, StartInside DEF IsValid
<1>4. /\ Inside(inner, nodes[returned].from, nodes[returned].to, context.had_error)
      /\ Inside(inner, frame.from, context.position, context.had_error)
      /\ nodes[returned].from \in Nat
  BY PartSpan
<1>5. inner \in Span /\ IsValid(inner) /\ inner.start \in Nat /\ inner.end \in Int
      /\ inner.start <= inner.end /\ nodes[returned].from <= inner.start
  BY <1>4 DEF Inside, Span, IsValid
<1>6. frame.start <= nodes[returned].from
  BY <1>2 DEF AnswerSound
<1>7. frame.start <= inner.start
  <2> HIDE DEF inner
  <2>1. QED
    BY <1>2, <1>4, <1>5, <1>6
<1>8. /\ s \in Span /\ IsValid(s) /\ s.start <= StartSpan.start /\ s.start <= inner.start
      /\ StartSpan.end <= s.end /\ inner.end <= s.end
      /\ s.start = StartSpan.start \/ s.start = inner.start
      /\ s.end = StartSpan.end \/ s.end = inner.end
  <2> HIDE DEF inner
  <2>1. QED
    BY <1>3, <1>5, ExtendCovers
<1>9. s.start = frame.start /\ s.end = inner.end
  <2>1. s.start \in Nat /\ s.end \in Int
    BY <1>8 DEF Span
  <2> HIDE DEF s, inner
  <2>2. QED
    BY <1>2, <1>3, <1>5, <1>7, <1>8, <2>1
<1> HIDE DEF s
<1>10. Inside(s, frame.from, context.position, context.had_error)
  BY <1>2, <1>4, <1>8, <1>9 DEF Inside
<1>11. ASSUME ~context.had_error PROVE CoversAll(nodes, s, Held)
  <2>1. SUFFICES ASSUME NEW k \in 1..Len(Held), Held[k] # 0, nodes[Held[k]].kind # "Attribute"
                 PROVE  Covers(s, nodes[Held[k]].span)
    BY DEF CoversAll
  <2>2. Held[k] \in Indices(frame.parts) \union {returned}
    BY <2>1, HeldIs DEF Indices
  <2>3. /\ Inside(nodes[Held[k]].span, frame.from, context.position, context.had_error)
        /\ frame.start <= nodes[Held[k]].span.start
    BY <2>1, <2>2, PartSpan
  <2>4. nodes[Held[k]].span.end <= inner.end
    <3>1. CASE Held[k] = returned
      BY <1>5, <3>1
    <3>2. CASE Held[k] \in Indices(frame.parts)
      <4>1. nodes[Held[k]].span.end < inner.start
        BY <1>11, <2>1, <3>2, ReturnedBehind
      <4>2. nodes[Held[k]].span.end \in Int
        BY <2>3 DEF Inside, Span
      <4> HIDE DEF inner
      <4>3. QED
        BY <1>5, <4>1, <4>2
    <3>3. QED
      BY <2>2, <3>1, <3>2
  <2>5. QED
    BY <1>9, <2>3, <2>4 DEF Covers
<1>12. QED
  BY <1>1, <1>10, <1>11

(* A span extended to a part that may be null. *)
LEMMA ExtendedInside ==
  ASSUME NEW from \in Nat, NEW to \in Nat, NEW failed \in BOOLEAN,
         NEW span, Inside(span, from, to, failed),
         NEW part, part # 0 => Inside(nodes[part].span, from, to, failed)
  PROVE  LET s == Extended(span, part) IN
         /\ Inside(s, from, to, failed)
         /\ part # 0 => Covers(s, nodes[part].span)
         /\ \A c \in Span : Covers(span, c) => Covers(s, c)
<1>1. CASE part = 0
  BY <1>1 DEF Extended
<1>2. CASE part # 0
  <2>1. Extended(span, part) = ExtendSpan(span, nodes[part].span)
    BY <1>2 DEF Extended
  <2>2. QED
    BY <1>2, <2>1, ExtendInside
<1>3. QED
  BY <1>1, <1>2

(* A span that covers the parts of the frame and what was returned. *)
LEMMA HeldCovered ==
  ASSUME IInv, Running, BuiltInv, NEW span,
         \A i \in Indices(frame.parts) \union {returned} : i # 0 => Covers(span, nodes[i].span)
  PROVE  CoversAll(nodes, span, Held)
<1>1. \A k \in 1..Len(Held) : Held[k] \in Indices(frame.parts) \union {returned}
  BY HeldIs DEF Indices
<1>2. QED
  BY <1>1 DEF CoversAll

(* The one part that an operator works on, and its operand. *)
LEMMA FirstSpan ==
  ASSUME IInv, Running, BuiltInv, SpanInv,
         \/ Is(frame, "Assignment", {"value"})
         \/ Is(frame, "Binary", {"operator", "right"})
         \/ Is(frame, "Primary", {"postfix", "argument", "call"})
  PROVE  /\ frame.parts \in Seq(Nat) /\ Len(frame.parts) >= 1 /\ Len(frame.parts) \in Nat
         /\ frame.parts[1] \in Indices(frame.parts) /\ frame.parts[1] # 0
         /\ Last(frame.parts) \in Indices(frame.parts) /\ Last(frame.parts) # 0
         /\ 0 \notin Indices(frame.parts)
         /\ \A i \in Indices(frame.parts) :
              Inside(nodes[i].span, frame.from, context.position, context.had_error)
<1>1. /\ frame.parts \in Seq(Nat) /\ Len(frame.parts) >= 1 /\ Len(frame.parts) \in Nat
      /\ 0 \notin Indices(frame.parts)
  <2>1. frame.routine \in {"Assignment", "Binary", "Primary"} /\ frame.point # "body"
    BY DEF Is
  <2>2. PartsNeeded(frame.routine, frame.point) = 1
    BY DEF Is, PartsNeeded
  <2>3. QED
    BY <2>1, <2>2, TrustedFacts
<1>2. 1 \in 1..Len(frame.parts) /\ Len(frame.parts) \in 1..Len(frame.parts)
  BY <1>1
<1>3. frame.parts[1] \in Indices(frame.parts) /\ Last(frame.parts) \in Indices(frame.parts)
  BY <1>2 DEF Indices, Last
<1>4. \A i \in Indices(frame.parts) :
        Inside(nodes[i].span, frame.from, context.position, context.had_error)
  BY <1>1, PartSpan
<1>5. QED
  BY <1>1, <1>3, <1>4

(* Infix operators span from the left side to the right one. *)
LEMMA InfixSpanned ==
  ASSUME IInv, Running, BuiltInv, SpanInv, returned # 0,
         Is(frame, "Assignment", {"value"}) \/ Is(frame, "Binary", {"right"}),
         NEW kind, kind # "Program",
         NEW span, span = ExtendSpan(nodes[frame.parts[1]].span, nodes[returned].span),
         \/ ReturnNode(context, kind, span, Held)
         \/ \E point, more :
              ContinueWith(point, context, NewNode(context, kind, span, Held), more)
  PROVE  Spanned
<1>1. /\ frame.from \in Nat /\ context.position \in Nat /\ context.had_error \in BOOLEAN
      /\ Shape("Assignment", "value") = Only(<<Expressions>>)
      /\ Shape("Binary", "right") = Only(<<Expressions>>)
  BY WorkFacts, AnswerKind, ExpressionShapes
<1>2. Indices(frame.parts) = {frame.parts[1]}
  <2>1. Fits(nodes, Only(<<Expressions>>), frame.parts)
    BY <1>1, AnswerKind DEF Is
  <2>2. QED
    BY <2>1, FewParts
<1>3. /\ Inside(nodes[frame.parts[1]].span, frame.from, context.position, context.had_error)
      /\ Inside(nodes[returned].span, frame.from, context.position, context.had_error)
  <2>1. Is(frame, "Binary", {"right"}) => Is(frame, "Binary", {"operator", "right"})
    BY DEF Is
  <2>2. QED
    BY <2>1, FirstSpan, PartSpan
<1>4. /\ Inside(span, frame.from, context.position, context.had_error)
      /\ Covers(span, nodes[frame.parts[1]].span) /\ Covers(span, nodes[returned].span)
  BY <1>1, <1>3, ExtendInside
<1>5. CoversAll(nodes, span, Held)
  BY <1>2, <1>4, HeldCovered
<1>6. QED
  BY <1>4, <1>5, ReturnSpanned

(* The expressions that make a node. *)
LEMMA AssignmentSpans ==
  ASSUME IInv, Running, BuiltInv, SpanInv, EndAssignment \/ RightParsed
  PROVE  Spanned
<1> DEFINE span == ExtendSpan(nodes[frame.parts[1]].span, nodes[returned].span)
<1>1. CASE EndAssignment
  <2>1. Is(frame, "Assignment", {"value"})
    BY <1>1 DEF EndAssignment, At, Is
  <2>2. CASE Return(context, Last(frame.parts))
    BY <2>2 DEF Return, Spanned
  <2>3. CASE returned # 0 /\ ReturnNode(context, "Assignment", span, Held)
    <3> HIDE DEF span
    <3>1. QED
      BY <2>1, <2>3, InfixSpanned DEF span
  <2>4. QED
    BY <1>1, <2>2, <2>3 DEF EndAssignment
<1>2. CASE RightParsed
  <2>1. Is(frame, "Binary", {"right"})
    BY <1>2 DEF RightParsed, At, Is
  <2>2. CASE Return(context, Last(frame.parts))
    BY <2>2 DEF Return, Spanned
  <2>3. CASE /\ returned # 0
             /\ ContinueWith("operator", context, NewNode(context, "Binary", span, Held),
                             <<Fresh>>)
    <3> HIDE DEF span
    <3>1. QED
      BY <2>1, <2>3, InfixSpanned DEF span
  <2>4. QED
    BY <1>2, <2>2, <2>3 DEF RightParsed
<1>3. QED
  BY <1>1, <1>2

(* Frames that have no parts before what is returned. *)
LEMMA AloneCovered ==
  ASSUME IInv, Running, BuiltInv, SpanInv, Fits(nodes, Leaf, frame.parts), NEW span,
         returned # 0 => Covers(span, nodes[returned].span)
  PROVE  CoversAll(nodes, span, Held)
<1>1. frame.parts = <<>>
  BY FewParts
<1>2. Indices(frame.parts) = {}
  BY <1>1 DEF Indices
<1>3. QED
  BY <1>2, HeldCovered

(* Operators before and after their operand. *)
LEMMA UnarySpans ==
  ASSUME IInv, Running, BuiltInv, SpanInv, EndPrefix \/ EndPostfix
  PROVE  Spanned
<1>1. CASE EndPrefix
  <2> DEFINE span == Extended(StartSpan, returned)
  <2>1. CASE Return(context, 0)
    BY <2>1 DEF Return, Spanned
  <2>2. CASE returned # 0 /\ ReturnNode(context, "Unary", span, Held)
    <3>1. /\ Inside(span, frame.from, context.position, context.had_error)
          /\ context.had_error \/ CoversAll(nodes, span, Held)
      BY <2>2, ExtendedReturned
    <3> HIDE DEF span
    <3>2. QED
      BY <2>2, <3>1, ReturnSpanned
  <2>3. QED
    BY <1>1, <2>1, <2>2 DEF EndPrefix
<1>2. CASE EndPostfix
  <2> DEFINE c == Consumed(context)
             token == TokenSpan(context.position)
             inner == nodes[returned].span
             span == ExtendSpan(inner, token)
  <2>1. CASE Return(context, returned)
    BY <2>1 DEF Return, Spanned
  <2>2. CASE /\ returned # 0 /\ Peek(context) \in PostfixOperators
             /\ ReturnNode(c, "Unary", span, Held)
    <3>1. Peek(context) # "eof"
      BY <2>2 DEF PostfixOperators
    <3>2. /\ c.position = context.position + 1 /\ context.position \in Nat /\ Onto(c)
          /\ frame.from \in Nat /\ context.had_error \in BOOLEAN
          /\ frame.from <= context.position
      BY <3>1, OntoNext, OntoFacts, WorkFacts, AnswerKind, FrameFacts DEF GoodFrame
    <3>3. c.position \in Nat /\ c.had_error \in BOOLEAN /\ (context.had_error => c.had_error)
      BY <3>2 DEF Onto, Lasts, ParserState
    <3>4. Inside(inner, frame.from, context.position, context.had_error)
      BY <2>2, PartSpan
    <3>5. context.position <= c.position /\ context.position < c.position
      BY <3>2, <3>3
    <3>6. Inside(inner, frame.from, c.position, c.had_error)
      BY <3>2, <3>3, <3>4, <3>5, InsideOn
    <3>7. Inside(token, frame.from, c.position, c.had_error)
      BY <3>2, <3>3, <3>5, TokenInside
    <3>8. Inside(span, frame.from, c.position, c.had_error) /\ Covers(span, inner)
      <4> HIDE DEF inner, token
      <4>1. QED
        BY <3>2, <3>3, <3>6, <3>7, ExtendInside
    <3>9. Fits(nodes, Leaf, frame.parts)
      BY <1>2, AnswerKind, ExpressionShapes DEF EndPostfix, At
    <3> HIDE DEF span, c
    <3>10. CoversAll(nodes, span, Held)
      BY <3>8, <3>9, AloneCovered
    <3>11. QED
      BY <2>2, <3>8, <3>10, ReturnSpanned
  <2>3. QED
    BY <1>2, <2>1, <2>2 DEF EndPostfix
<1>3. QED
  BY <1>1, <1>2

(* The node of the token a function starts with. *)
LEMMA TokenSpanned ==
  ASSUME IInv, Running, BuiltInv, Peek(context) # "eof", NEW kind, kind # "Program",
         \/ ReturnNode(Consumed(context), kind, StartSpan, <<>>)
         \/ \E point, more :
              ContinueWith(point, Consumed(context),
                           NewNode(Consumed(context), kind, StartSpan, <<>>), more)
  PROVE  Spanned
<1>1. /\ nodes' = Append(nodes, NodeFrom(frame.from, Consumed(context), kind,
                                         TokenSpan(frame.start), <<>>))
      /\ context' = Consumed(context)
  BY DEF ReturnNode, ContinueWith, NewNode, StartSpan
<1>2. context'.had_error \in BOOLEAN
  BY <1>1, OntoFacts DEF Onto, Lasts, ParserState
<1>3. /\ frame.from \in Nat /\ frame.start \in Nat
      /\ frame.from <= frame.start /\ frame.start <= context.position
  BY WorkFacts DEF FrameSound
<1>4. QED
  BY <1>1, <1>2, <1>3, LeafSpanned

(* Calls that go on: a token behind what the frame holds. *)
LEMMA TokenBehind ==
  ASSUME IInv, Running, BuiltInv, NEW c, Onto(c), NEW span,
         Inside(span, frame.from, context.position, context.had_error)
  PROVE  /\ Inside(span, frame.from, c.position, c.had_error)
         /\ c.position \in Nat /\ c.had_error \in BOOLEAN /\ frame.from \in Nat
         /\ context.position <= c.position /\ context.position \in Nat
         /\ frame.from <= context.position
<1>1. /\ context.position \in Nat /\ frame.from \in Nat /\ context.had_error \in BOOLEAN
      /\ frame.from <= context.position
  BY WorkFacts, AnswerKind, FrameFacts DEF GoodFrame
<1>2. c.position \in Nat /\ c.had_error \in BOOLEAN /\ (context.had_error => c.had_error)
      /\ context.position <= c.position
  BY DEF Onto, Lasts, ParserState
<1>3. QED
  BY <1>1, <1>2, InsideOn

(* Primary expressions. *)
LEMMA PrimarySpans ==
  ASSUME IInv, Running, BuiltInv, SpanInv, ParsePrimary \/ InnerParsed \/ EndMatch
  PROVE  Spanned
<1>1. CASE ParsePrimary
  <2>1. \/ /\ Peek(context) = "literal"
           /\ ReturnNode(Consumed(context), "LiteralExpression", StartSpan, <<>>)
        \/ /\ Peek(context) = "name"
           /\ ContinueWith("postfix", Consumed(context),
                           NewNode(Consumed(context), "IdentifierExpression", StartSpan, <<>>),
                           <<Fresh>>)
        \/ Invoke("Assignment", "inner", Consumed(context), <<>>)
        \/ Invoke("Assignment", "scrutinee", Consumed(context), <<>>)
        \/ Return(Reported(context), 0)
    BY <1>1, Zenon DEF ParsePrimary
  <2>2. CASE \/ Invoke("Assignment", "inner", Consumed(context), <<>>)
             \/ Invoke("Assignment", "scrutinee", Consumed(context), <<>>)
             \/ Return(Reported(context), 0)
    BY <2>2 DEF Invoke, InvokeFrame, Return, Spanned
  <2>3. CASE /\ Peek(context) = "literal"
             /\ ReturnNode(Consumed(context), "LiteralExpression", StartSpan, <<>>)
    BY <2>3, TokenSpanned
  <2>4. CASE /\ Peek(context) = "name"
             /\ ContinueWith("postfix", Consumed(context),
                             NewNode(Consumed(context), "IdentifierExpression", StartSpan, <<>>),
                             <<Fresh>>)
    BY <2>4, TokenSpanned
  <2>5. QED
    BY <2>1, <2>2, <2>3, <2>4
<1>2. CASE InnerParsed
  <2> DEFINE c == ExpectedOrRecovered(context, ")")
             inner == nodes[returned].span
  <2>1. \/ Return(c, 0)
        \/ /\ returned # 0
           /\ ContinueWith("postfix", c, NewNode(c, "Parenthesized", inner, Held), <<Fresh>>)
    BY <1>2 DEF InnerParsed
  <2>2. CASE Return(c, 0)
    BY <2>2 DEF Return, Spanned
  <2>3. CASE /\ returned # 0
             /\ ContinueWith("postfix", c, NewNode(c, "Parenthesized", inner, Held), <<Fresh>>)
    <3>1. Inside(inner, frame.from, context.position, context.had_error) /\ Onto(c)
      BY <2>3, PartSpan, OntoFacts
    <3>2. Fits(nodes, Leaf, frame.parts)
      BY <1>2, AnswerKind, ExpressionShapes DEF InnerParsed, At
    <3>3. Covers(inner, nodes[returned].span)
      BY <3>1 DEF Covers, Inside, Span
    <3> HIDE DEF c, inner
    <3>4. Inside(inner, frame.from, c.position, c.had_error)
      BY <3>1, TokenBehind
    <3>5. CoversAll(nodes, inner, Held)
      BY <3>2, <3>3, AloneCovered
    <3>6. QED
      BY <2>3, <3>4, <3>5, ReturnSpanned
  <2>4. QED
    BY <2>1, <2>2, <2>3
<1>3. CASE EndMatch
  <2> DEFINE span == SpanOf(returned, StartSpan)
  <2>1. /\ frame.routine = "Primary" /\ frame.point = "scrutinee"
        /\ ReturnNode(context, "Match", span, Held)
    BY <1>3 DEF EndMatch, At
  <2>2. Fits(nodes, Leaf, frame.parts)
    BY <2>1, AnswerKind, ExpressionShapes
  <2>3. CASE returned = 0
    <3>1. context.had_error
      BY <2>1, <2>3, AnswerKind DEF Owing
    <3>2. span = StartSpan
      BY <2>3 DEF SpanOf
    <3>3. Inside(span, frame.from, context.position, context.had_error)
      BY <3>1, <3>2, StartInside DEF Inside
    <3> HIDE DEF span
    <3>4. QED
      BY <2>1, <3>1, <3>3, ReturnSpanned
  <2>4. CASE returned # 0
    <3>1. span = nodes[returned].span
      BY <2>4 DEF SpanOf
    <3>2. Inside(span, frame.from, context.position, context.had_error)
      BY <2>4, <3>1, PartSpan
    <3> HIDE DEF span
    <3>3. Covers(span, nodes[returned].span)
      BY <3>1, <3>2 DEF Covers, Inside, Span
    <3>4. CoversAll(nodes, span, Held)
      BY <2>2, <3>3, AloneCovered
    <3>5. QED
      BY <2>1, <3>2, <3>4, ReturnSpanned
  <2>5. QED
    BY <2>3, <2>4
<1>4. QED
  BY <1>1, <1>2, <1>3

(* What is behind a primary expression. *)
LEMMA PostfixSpans ==
  ASSUME IInv, Running, BuiltInv, SpanInv, ParsePostfix \/ EndCall
  PROVE  Spanned
<1>1. CASE ParsePostfix
  <2> DEFINE c == Consumed(context)
             d == Consumed(c)
             left == nodes[frame.parts[1]].span
             token == TokenSpan(c.position)
             span == ExtendSpan(left, token)
  <2>1. \/ Continue("call", c, frame.parts) \/ Invoke("Assignment", "argument", c, frame.parts)
        \/ Return(Reported(c), frame.parts[1]) \/ Return(context, frame.parts[1])
        \/ /\ Peek(context) = "." /\ Peek(c) = "name"
           /\ ContinueWith("postfix", d, NewNode(d, "MemberAccess", span, frame.parts), <<Fresh>>)
    BY <1>1, Zenon DEF ParsePostfix
  <2>2. CASE \/ Continue("call", c, frame.parts)
             \/ Invoke("Assignment", "argument", c, frame.parts)
             \/ Return(Reported(c), frame.parts[1]) \/ Return(context, frame.parts[1])
    BY <2>2 DEF Continue, Invoke, InvokeFrame, Return, Spanned
  <2>3. CASE /\ Peek(context) = "." /\ Peek(c) = "name"
             /\ ContinueWith("postfix", d, NewNode(d, "MemberAccess", span, frame.parts), <<Fresh>>)
    <3>1. /\ Is(frame, "Primary", {"postfix", "argument", "call"})
          /\ frame.routine = "Primary" /\ frame.point = "postfix"
      BY <1>1 DEF ParsePostfix, At, Is
    <3>2. Fits(nodes, Only(<<Expressions>>), frame.parts)
      BY <3>1, AnswerKind, ExpressionShapes
    <3>3. Inside(left, frame.from, context.position, context.had_error)
      BY <3>1, FirstSpan
    <3>4. GoodContext(c) /\ StreamInv /\ Onto(c) /\ Onto(d)
      <4>1. Peek(context) # "eof"
        BY <2>3
      <4>2. Onto(c) /\ Onto(d)
        BY OntoFacts, OntoMore
      <4>3. QED
        BY <4>1, <4>2, ConsumedFollows DEF IInv, Follows
    <3>5. d.position = c.position + 1
      BY <2>3, <3>4, ConsumedFollows
    <3> HIDE DEF left
    <3>6. /\ Inside(left, frame.from, d.position, d.had_error)
          /\ d.position \in Nat /\ d.had_error \in BOOLEAN /\ frame.from \in Nat
          /\ c.position \in Nat /\ frame.from <= c.position
      <4> HIDE DEF c, d
      <4>1. /\ Inside(left, frame.from, d.position, d.had_error)
            /\ d.position \in Nat /\ d.had_error \in BOOLEAN /\ frame.from \in Nat
        BY <3>3, <3>4, TokenBehind
      <4>2. /\ c.position \in Nat /\ context.position <= c.position
            /\ frame.from <= context.position /\ context.position \in Nat
        BY <3>3, <3>4, TokenBehind
      <4>3. QED
        BY <4>1, <4>2
    <3> HIDE DEF d, c
    <3>7. Inside(token, frame.from, d.position, d.had_error)
      BY <3>5, <3>6, TokenInside
    <3>8. Inside(span, frame.from, d.position, d.had_error) /\ Covers(span, left)
      <4> HIDE DEF token
      <4>1. QED
        BY <3>6, <3>7, ExtendInside
    <3> HIDE DEF span, token
    <3>9. CoversAll(nodes, span, frame.parts)
      <4>1. Indices(frame.parts) = {frame.parts[1]}
        BY <3>2, FewParts
      <4>2. \A k \in 1..Len(frame.parts) : frame.parts[k] = frame.parts[1]
        BY <4>1 DEF Indices
      <4>3. QED
        BY <3>8, <4>2 DEF CoversAll, left
    <3>10. QED
      BY <2>3, <3>8, <3>9, ReturnSpanned
  <2>4. QED
    BY <2>1, <2>2, <2>3
<1>2. CASE EndCall
  <2> DEFINE c == ExpectedOrRecovered(context, ")")
             left == nodes[frame.parts[1]].span
             right == nodes[Last(frame.parts)].span
             span == ExtendSpan(left, right)
  <2>1. /\ Is(frame, "Primary", {"postfix", "argument", "call"})
        /\ ContinueWith("postfix", c, NewNode(c, "Call", span, frame.parts), <<Fresh>>)
    BY <1>2 DEF EndCall, At, Is
  <2>2. /\ frame.parts[1] \in Indices(frame.parts) /\ Last(frame.parts) \in Indices(frame.parts)
        /\ Inside(left, frame.from, context.position, context.had_error)
        /\ Inside(right, frame.from, context.position, context.had_error)
        /\ frame.parts \in Seq(Nat) /\ Len(frame.parts) >= 1 /\ Len(frame.parts) \in Nat
    BY <2>1, FirstSpan
  <2>3. /\ frame.from \in Nat /\ context.position \in Nat /\ context.had_error \in BOOLEAN
        /\ Onto(c)
    BY WorkFacts, AnswerKind, OntoFacts
  <2> HIDE DEF left, right, c
  <2>4. /\ Inside(span, frame.from, context.position, context.had_error)
        /\ Covers(span, left) /\ Covers(span, right)
    BY <2>2, <2>3, ExtendInside
  <2> HIDE DEF span
  <2>5. Inside(span, frame.from, c.position, c.had_error)
    BY <2>3, <2>4, TokenBehind
  <2>6. ASSUME ~context.had_error PROVE CoversAll(nodes, span, frame.parts)
    <3>1. SUFFICES ASSUME NEW k \in 1..Len(frame.parts)
                   PROVE  Covers(span, nodes[frame.parts[k]].span)
      BY DEF CoversAll
    <3>2. frame.parts[k] \in Indices(frame.parts) /\ frame.parts[k] # 0
      BY <2>1, <3>1, FirstSpan DEF Indices
    <3>3. k = 1 \/ k = Len(frame.parts) \/ (1 < k /\ k < Len(frame.parts))
      BY <2>2, <3>1
    <3>4. CASE k = 1
      BY <2>4, <3>4 DEF left
    <3>5. CASE k = Len(frame.parts)
      BY <2>4, <3>5 DEF right, Last
    <3>6. CASE 1 < k /\ k < Len(frame.parts)
      <4> DEFINE n == Len(frame.parts)
      <4>1. 1 \in 1..n /\ n \in 1..n /\ frame.parts[1] # 0 /\ frame.parts[n] # 0
        BY <2>1, <2>2, FirstSpan DEF Last
      <4>2. left.start <= nodes[frame.parts[k]].span.start
        BY <2>6, <3>1, <3>2, <3>6, <4>1, PartsFollow DEF left
      <4>3. nodes[frame.parts[k]].span.end <= right.end
        BY <2>6, <3>1, <3>2, <3>6, <4>1, PartsFollow DEF right, Last
      <4>4. nodes[frame.parts[k]].span \in Span
        BY <3>2, PartSpan DEF Inside
      <4>5. /\ span.start <= left.start /\ right.end <= span.end
            /\ span \in Span /\ left \in Span /\ right \in Span
        BY <2>2, <2>4 DEF Covers, Inside
      <4>6. /\ span.start \in Nat /\ span.end \in Int /\ left.start \in Nat
            /\ right.end \in Int /\ nodes[frame.parts[k]].span.start \in Nat
            /\ nodes[frame.parts[k]].span.end \in Int
        BY <4>4, <4>5 DEF Span
      <4>7. /\ span.start <= nodes[frame.parts[k]].span.start
            /\ nodes[frame.parts[k]].span.end <= span.end
        BY <4>2, <4>3, <4>5, <4>6
      <4>8. QED
        BY <4>7 DEF Covers
    <3>7. QED
      BY <3>3, <3>4, <3>5, <3>6
  <2>7. c.had_error \/ CoversAll(nodes, span, frame.parts)
    BY <2>3, <2>6 DEF Onto, Lasts
  <2>8. QED
    BY <2>1, <2>5, <2>7, ReturnSpanned
<1>3. QED
  BY <1>1, <1>2

(* Functions that end with a token of their own. *)
LEMMA ClosedSpanned ==
  ASSUME IInv, Running, BuiltInv, SpanInv, frame.routine \in Beginning, frame.point # "start",
         NEW type, type # "eof", NEW kind, kind # "Program", NEW P \in Taken,
         ReturnClosed(type, kind, StartSpan, P)
  PROVE  Spanned
<1> DEFINE c == ExpectedOrRecovered(context, type)
           span == IF Peek(context) = type
                     THEN ExtendSpan(StartSpan, TokenSpan(context.position)) ELSE StartSpan
<1>1. ReturnNode(c, kind, span, P)
  BY DEF ReturnClosed
<1>2. /\ Inside(StartSpan, frame.from, context.position, context.had_error)
      /\ StartSpan.start <= frame.start
  <2>1. /\ StartSpan.start = frame.start /\ frame.start \in Nat
        /\ Inside(StartSpan, frame.from, context.position, FALSE)
    BY StartInside, WorkFacts
  <2>2. QED
    BY <2>1 DEF Inside
<1>3. c \in ParserState /\ c.position <= c.position
  <2>1. c \in ParserState
    BY OntoFacts DEF Onto, Lasts
  <2>2. c.position \in Nat
    BY <2>1 DEF ParserState
  <2>3. QED
    BY <2>1, <2>2
<1>4. Inside(span, frame.from, c.position, c.had_error) /\ (c.had_error \/ CoversAll(nodes, span, P))
  BY <1>2, <1>3, ClosedInside
<1> HIDE DEF c, span
<1>5. QED
  BY <1>1, <1>4, ReturnSpanned

(* Functions that end with what they called last. *)
LEMMA ExtendedSpanned ==
  ASSUME IInv, Running, BuiltInv, SpanInv, frame.routine \in Beginning, frame.point # "start",
         NEW kind, kind # "Program",
         ReturnNode(context, kind, Extended(StartSpan, returned), Held),
         returned = 0 => context.had_error \/ (kind = "Module" /\ Held[2] = 0)
  PROVE  Spanned
<1>1. CASE returned = 0
  <2>1. ReturnNode(context, kind, StartSpan, Held)
    BY <1>1 DEF Extended
  <2>2. Inside(StartSpan, frame.from, context.position, context.had_error)
    BY StartInside DEF Inside
  <2>3. QED
    BY <1>1, <2>1, <2>2, ReturnSpanned
<1>2. CASE returned # 0
  <2> DEFINE span == Extended(StartSpan, returned)
  <2>1. /\ Inside(span, frame.from, context.position, context.had_error)
        /\ context.had_error \/ CoversAll(nodes, span, Held)
    BY <1>2, ExtendedReturned
  <2>2. ReturnNode(context, kind, span, Held)
    OBVIOUS
  <2> HIDE DEF span
  <2>3. QED
    BY <2>1, <2>2, ReturnSpanned
<1>3. QED
  BY <1>1, <1>2

(* The points at which a function has a few parts. *)
LEMMA HeldFew ==
  ASSUME IInv, Running, BuiltInv
  PROVE  /\ \A A : Fits(nodes, Only(<<A>>), frame.parts) =>
              /\ Len(frame.parts) = 1 /\ Len(Held) = 2 /\ Held[2] = returned
              /\ Held[1] = frame.parts[1]
         /\ \A A, B : Fits(nodes, Only(<<A, B>>), frame.parts) => Len(Held) = 3
         /\ \A k \in 1..Len(Held) : Held[k] \in Indices(frame.parts) \union {returned}
<1>1. /\ Held \in Seq(Nat) /\ Len(Held) = Len(frame.parts) + 1 /\ Len(frame.parts) \in Nat
      /\ \A k \in 1..Len(frame.parts) : Held[k] = frame.parts[k]
      /\ Held[Len(frame.parts) + 1] = returned
      /\ Indices(Held) \subseteq Indices(frame.parts) \union {returned}
  BY HeldIs
<1>2. ASSUME NEW A, Fits(nodes, Only(<<A>>), frame.parts)
      PROVE  /\ Len(frame.parts) = 1 /\ Len(Held) = 2 /\ Held[2] = returned
             /\ Held[1] = frame.parts[1]
  <2>1. Len(frame.parts) = 1
    BY <1>2, FewParts
  <2>2. QED
    BY <1>1, <2>1
<1>3. ASSUME NEW A, NEW B, Fits(nodes, Only(<<A, B>>), frame.parts) PROVE Len(Held) = 3
  <2>1. Len(frame.parts) = 2
    BY <1>3 DEF Fits, Only, Roles
  <2>2. QED
    BY <1>1, <2>1
<1>4. QED
  BY <1>1, <1>2, <1>3 DEF Indices

(* The span of what begins at the start and takes in two or three parts.    *)
LEMMA BranchSpanned ==
  ASSUME IInv, Running, BuiltInv, SpanInv, frame.routine \in Beginning, frame.point # "start",
         NEW kind, kind # "Program", NEW span,
         ReturnNode(context, kind, span, Held),
         \/ /\ Len(Held) = 2
            /\ span = Extended(Extended(StartSpan, Held[1]), Held[2])
         \/ /\ Len(Held) = 3
            /\ span = Extended(Extended(Extended(StartSpan, Held[1]), Held[2]), Held[3])
  PROVE  Spanned
<1> DEFINE In(s) == Inside(s, frame.from, context.position, context.had_error)
           one == Extended(StartSpan, Held[1])
           two == Extended(one, Held[2])
           three == Extended(two, Held[3])
<1>1. /\ frame.from \in Nat /\ context.position \in Nat /\ context.had_error \in BOOLEAN
      /\ \A k \in 1..Len(Held) : Held[k] # 0 => In(nodes[Held[k]].span)
  <2>1. \A k \in 1..Len(Held) : Held[k] \in Indices(frame.parts) \union {returned}
    BY HeldFew
  <2>2. QED
    BY <2>1, PartSpan, WorkFacts, AnswerKind
<1>2. In(StartSpan)
  BY StartInside DEF Inside
<1>3. /\ 1 \in 1..Len(Held) /\ 2 \in 1..Len(Held) /\ (Len(Held) = 3 => 3 \in 1..Len(Held))
      /\ \A k \in 1..Len(Held) : k = 1 \/ k = 2 \/ (k = 3 /\ Len(Held) = 3)
  <2>1. Len(Held) = 2 \/ Len(Held) = 3
    OBVIOUS
  <2>2. \A n : n = 2 \/ n = 3 =>
          /\ 1 \in 1..n /\ 2 \in 1..n /\ (n = 3 => 3 \in 1..n)
          /\ \A k \in 1..n : k = 1 \/ k = 2 \/ (k = 3 /\ n = 3)
    OBVIOUS
  <2>3. QED
    BY <2>1, <2>2, Zenon
<1>4. /\ In(one) /\ (Held[1] # 0 => Covers(one, nodes[Held[1]].span))
  BY <1>1, <1>2, <1>3, ExtendedInside
<1>5. /\ In(two) /\ (Held[2] # 0 => Covers(two, nodes[Held[2]].span))
      /\ \A s \in Span : Covers(one, s) => Covers(two, s)
  <2> HIDE DEF one
  <2>1. QED
    BY <1>1, <1>3, <1>4, ExtendedInside
<1>6. Len(Held) = 3 =>
        /\ In(three) /\ (Held[3] # 0 => Covers(three, nodes[Held[3]].span))
        /\ \A s \in Span : Covers(two, s) => Covers(three, s)
  <2> HIDE DEF two
  <2>1. QED
    BY <1>1, <1>3, <1>5, ExtendedInside
<1>7. \A k \in 1..Len(Held) : Held[k] # 0 => nodes[Held[k]].span \in Span
  BY <1>1 DEF Inside
<1> HIDE DEF one, two, three
<1>8. CASE Len(Held) = 2 /\ span = two
  <2>1. CoversAll(nodes, span, Held)
    BY <1>3, <1>4, <1>5, <1>7, <1>8 DEF CoversAll
  <2>2. QED
    BY <1>5, <1>8, <2>1, ReturnSpanned
<1>9. CASE Len(Held) = 3 /\ span = three
  <2>1. CoversAll(nodes, span, Held)
    BY <1>3, <1>4, <1>5, <1>6, <1>7, <1>9 DEF CoversAll
  <2>2. QED
    BY <1>6, <1>9, <2>1, ReturnSpanned
<1>10. QED
  BY <1>8, <1>9 DEF one, two, three

(* Blocks, branches and loops. *)
LEMMA BranchSpans ==
  ASSUME IInv, Running, BuiltInv, SpanInv, NextStatement \/ EndIf \/ EndWhile \/ EndFor
  PROVE  Spanned
<1>1. /\ frame.routine \in Beginning /\ frame.point # "start"
      /\ Fits(nodes, Shape(frame.routine, frame.point), frame.parts)
  BY AnswerKind DEF NextStatement, EndIf, EndWhile, EndFor, At, Beginning, Taking
<1>2. CASE NextStatement
  <2>1. CASE Invoke("Statement", "statement", context, frame.parts)
    BY <2>1 DEF Invoke, InvokeFrame, Spanned
  <2>2. CASE ReturnClosed("}", "Block", StartSpan, frame.parts)
    BY <1>1, <2>2, ClosedSpanned DEF Taken
  <2>3. QED
    BY <1>2, <2>1, <2>2 DEF NextStatement
<1>3. CASE EndIf
  <2>1. /\ frame.routine = "If" /\ frame.point = "else"
        /\ ReturnNode(context, "If",
                Extended(Extended(Extended(StartSpan, Held[1]), Held[2]), Held[3]), Held)
    BY <1>3 DEF EndIf, At
  <2>2. Len(Held) = 3
    BY <1>1, <2>1, HeldFew, StatementShapes
  <2>3. QED
    BY <1>1, <2>1, <2>2, BranchSpanned
<1>4. CASE EndWhile
  <2>1. /\ frame.routine = "While" /\ frame.point = "body"
        /\ ReturnNode(context, "While", Extended(Extended(StartSpan, Held[1]), Held[2]), Held)
    BY <1>4 DEF EndWhile, At
  <2>2. Len(Held) = 2
    BY <1>1, <2>1, HeldFew, StatementShapes
  <2>3. QED
    BY <1>1, <2>1, <2>2, BranchSpanned
<1>5. CASE EndFor
  <2>1. /\ frame.routine = "For" /\ frame.point = "body"
        /\ ReturnNode(context, "For", Extended(StartSpan, returned), Held)
    BY <1>5 DEF EndFor, At
  <2>2. Owing(frame)
    BY <2>1 DEF Owing
  <2>3. returned # 0 \/ context.had_error
    BY <2>2, AnswerKind
  <2>4. "For" # "Program"
    OBVIOUS
  <2>5. QED
    BY <1>1, <2>1, <2>3, <2>4, ExtendedSpanned
<1>6. QED
  BY <1>2, <1>3, <1>4, <1>5

(* Statements of one line. *)
LEMMA LineSpans ==
  ASSUME IInv, Running, BuiltInv, SpanInv,
         EndReturn \/ EndVariable \/ EndMatchStatement \/ EndExpressionStatement
  PROVE  Spanned
<1>1. CASE EndReturn \/ EndVariable
  <2>1. frame.routine \in Beginning /\ frame.point # "start" /\ Held \in Taken
    BY <1>1 DEF EndReturn, EndVariable, At, Beginning, Taking, Taken
  <2>2. \/ ReturnClosed(";", "Return", StartSpan, Held)
        \/ ReturnClosed(";", "Variable", StartSpan, Held)
    BY <1>1 DEF EndReturn, EndVariable
  <2>3. QED
    BY <2>1, <2>2, ClosedSpanned
<1>2. ASSUME frame.point = "expression",
             frame.routine \in {"MatchStatement", "ExpressionStatement"}
      PROVE  /\ Fits(nodes, Leaf, frame.parts) /\ (returned = 0 => context.had_error)
             /\ returned # 0 =>
                  /\ Inside(nodes[returned].span, frame.from, context.position, context.had_error)
                  /\ Covers(nodes[returned].span, nodes[returned].span)
  <2>1. Fits(nodes, Leaf, frame.parts) /\ (returned = 0 => context.had_error)
    BY <1>2, AnswerKind, StatementShapes DEF Owing
  <2>2. ASSUME returned # 0
        PROVE  /\ Inside(nodes[returned].span, frame.from, context.position, context.had_error)
               /\ Covers(nodes[returned].span, nodes[returned].span)
    <3>1. Inside(nodes[returned].span, frame.from, context.position, context.had_error)
      BY <2>2, PartSpan
    <3>2. QED
      BY <3>1 DEF Inside, Covers, Span
  <2>3. QED
    BY <2>1, <2>2
<1>3. CASE EndMatchStatement
  <2> DEFINE span == SpanOf(returned, StartSpan)
  <2>1. /\ frame.routine = "MatchStatement" /\ frame.point = "expression"
        /\ ReturnNode(context, "ExpressionStatement", span, Held)
    BY <1>3 DEF EndMatchStatement, At
  <2>2. CASE returned = 0
    <3>1. context.had_error /\ span = StartSpan
      BY <1>2, <2>1, <2>2 DEF SpanOf
    <3>2. Inside(span, frame.from, context.position, context.had_error)
      BY <3>1, StartInside DEF Inside
    <3> HIDE DEF span
    <3>3. QED
      BY <2>1, <3>1, <3>2, ReturnSpanned
  <2>3. CASE returned # 0
    <3>1. span = nodes[returned].span
      BY <2>3 DEF SpanOf
    <3> HIDE DEF span
    <3>2. CoversAll(nodes, span, Held)
      BY <1>2, <2>1, <2>3, <3>1, AloneCovered
    <3>3. QED
      BY <1>2, <2>1, <2>3, <3>1, <3>2, ReturnSpanned
  <2>4. QED
    BY <2>2, <2>3
<1>4. CASE EndExpressionStatement
  <2> DEFINE c == ExpectedOrRecovered(context, ";")
             token == TokenSpan(context.position)
             inner == nodes[returned].span
             span == IF returned # 0 /\ Peek(context) = ";"
                       THEN ExtendSpan(inner, token) ELSE SpanOf(returned, token)
  <2>1. /\ frame.routine = "ExpressionStatement" /\ frame.point = "expression"
        /\ Return(c, Len(nodes)) \/ ReturnNode(c, "ExpressionStatement", span, Held)
    BY <1>4 DEF EndExpressionStatement, At
  <2>2. /\ Onto(c) /\ c.position \in Nat /\ c.had_error \in BOOLEAN
        /\ context.position <= c.position /\ (context.had_error => c.had_error)
        /\ frame.from \in Nat /\ context.position \in Nat /\ frame.from <= context.position
    <3>1. Onto(c)
      BY OntoFacts
    <3>2. c.position \in Nat /\ c.had_error \in BOOLEAN
          /\ context.position <= c.position /\ (context.had_error => c.had_error)
      BY <3>1 DEF Onto, Lasts, ParserState
    <3>3. QED
      BY <3>1, <3>2, WorkFacts, FrameFacts DEF GoodFrame
  <2>3. Peek(context) = ";" => context.position < c.position
    <3>1. SUFFICES ASSUME Peek(context) = ";" PROVE context.position < c.position
      OBVIOUS
    <3>2. c = Consumed(context)
      BY <3>1 DEF ExpectedOrRecovered
    <3>3. QED
      BY <3>1, <3>2, OntoNext
  <2>4. Peek(context) # ";" => c.had_error
    <3>1. SUFFICES ASSUME Peek(context) # ";" PROVE c.had_error
      OBVIOUS
    <3>2. c = Recovered(Reported(context))
      BY <3>1 DEF ExpectedOrRecovered
    <3>3. QED
      BY <3>2, OntoFacts
  <2>5. CASE Return(c, Len(nodes))
    BY <2>5 DEF Return, Spanned
  <2>6. CASE ReturnNode(c, "ExpressionStatement", span, Held) /\ returned = 0
    <3>1. c.had_error /\ span = token
      BY <1>2, <2>1, <2>2, <2>6 DEF SpanOf
    <3> HIDE DEF c, span
    <3>2. Inside(token, frame.from, c.position, c.had_error)
      BY <2>2, <3>1, TokenInside
    <3>3. QED
      BY <2>6, <3>1, <3>2, ReturnSpanned
  <2>7. CASE ReturnNode(c, "ExpressionStatement", span, Held) /\ returned # 0
    <3> HIDE DEF c
    <3>1. Inside(inner, frame.from, c.position, c.had_error)
      BY <1>2, <2>1, <2>2, <2>7, TokenBehind
    <3>2. CASE Peek(context) = ";"
      <4>1. span = ExtendSpan(inner, token)
        BY <2>7, <3>2
      <4>2. Inside(token, frame.from, c.position, c.had_error)
        BY <2>2, <2>3, <3>2, TokenInside
      <4> HIDE DEF span, token
      <4>3. Inside(span, frame.from, c.position, c.had_error) /\ Covers(span, inner)
        BY <2>2, <3>1, <4>1, <4>2, ExtendInside
      <4>4. CoversAll(nodes, span, Held)
        BY <1>2, <2>1, <4>3, AloneCovered
      <4>5. QED
        BY <2>7, <4>3, <4>4, ReturnSpanned
    <3>3. CASE Peek(context) # ";"
      <4>1. span = inner
        BY <2>7, <3>3 DEF SpanOf
      <4> HIDE DEF span
      <4>2. QED
        BY <2>4, <2>7, <3>1, <3>3, <4>1, ReturnSpanned
    <3>4. QED
      BY <3>2, <3>3
  <2>8. QED
    BY <2>1, <2>5, <2>6, <2>7
<1>5. QED
  BY <1>1, <1>3, <1>4

(* Declarations and types of one token. *)
LEMMA WordSpans ==
  ASSUME IInv, Running, BuiltInv, SpanInv,
         ParseAttribute \/ ParseSegment \/ ParseIdentifier \/ ParseType
  PROVE  Spanned
<1> DEFINE node(kind) ==
             NodeFrom(context.position, Consumed(context), kind, TokenSpan(context.position), <<>>)
<1>1. /\ context.position \in Nat /\ context.position <= context.position
      /\ Onto(Consumed(context)) /\ \A type : Onto(Matched(Consumed(context), type))
  <2>1. context.position \in Nat /\ Onto(Consumed(context))
    BY WorkFacts, OntoFacts
  <2>2. \A type : Onto(Matched(Consumed(context), type))
    BY <2>1, OntoMore
  <2>3. QED
    BY <2>1, <2>2
<1>2. ASSUME NEW kind, kind # "Program", Peek(context) # "eof", nodes' = Append(nodes, node(kind)),
             Onto(context')
      PROVE  Spanned
  <2>1. context'.had_error \in BOOLEAN
    BY <1>2 DEF Onto, Lasts, ParserState
  <2>2. QED
    BY <1>1, <1>2, <2>1, LeafSpanned
<1>3. CASE ParseAttribute
  <2>1. /\ nodes' = Append(nodes, node("Attribute")) /\ context' = Consumed(context)
        /\ Peek(context) # "eof"
    BY <1>3 DEF ParseAttribute, ContinueWith
  <2>2. Onto(context') /\ "Attribute" # "Program"
    BY <1>1, <2>1
  <2> HIDE DEF node
  <2>3. QED
    BY <1>2, <2>1, <2>2
<1>4. CASE ParseSegment
  <2>1. \/ nodes' = nodes
        \/ /\ nodes' = Append(nodes, node("Identifier")) /\ Peek(context) # "eof"
           /\ context' = Matched(Consumed(context), "::")
    BY <1>4 DEF ParseSegment, Continue, ContinueWith
  <2> HIDE DEF node
  <2>2. QED
    BY <1>1, <1>2, <2>1 DEF Spanned
<1>5. CASE ParseIdentifier
  <2>1. \/ Return(Reported(context), 0)
        \/ /\ Peek(context) = "name"
           /\ ReturnNode(Consumed(context), "Identifier", StartSpan, <<>>)
    BY <1>5 DEF ParseIdentifier
  <2>2. CASE Return(Reported(context), 0)
    BY <2>2 DEF Return, Spanned
  <2>3. QED
    BY <2>1, <2>2, TokenSpanned
<1>6. CASE ParseType
  <2>1. \/ Return(Reported(context), 0)
        \/ /\ Peek(context) = "type"
           /\ ReturnNode(Consumed(context), "PrimitiveType", StartSpan, <<>>)
        \/ /\ Peek(context) = "name"
           /\ ReturnNode(Consumed(context), "NamedType", StartSpan, <<>>)
    BY <1>6, Zenon DEF ParseType
  <2>2. CASE Return(Reported(context), 0)
    BY <2>2 DEF Return, Spanned
  <2>3. QED
    BY <2>1, <2>2, TokenSpanned
<1>7. QED
  BY <1>3, <1>4, <1>5, <1>6

(* A name and a type: the node begins where its name does. *)
LEMMA TypedNameSpans ==
  ASSUME IInv, Running, BuiltInv, SpanInv, NEW kind, kind # "Program", NEW more, NEW done,
         TypedName(kind, more, done),
         frame.parts # <<>>, Last(frame.parts) # 0, Owing(frame)
  PROVE  Spanned
<1> DEFINE name == Last(frame.parts)
           span == Extended(nodes[name].span, returned)
           from == nodes[name].from
           node == NodeFrom(from, context, kind, span, <<name, returned>>)
<1>1. /\ nodes' = Append(nodes, node) /\ Onto(context')
  <2>1. nodes' = Append(nodes, node) /\ (context' = context \/ context' = Consumed(context))
    BY DEF TypedName, ContinueWith
  <2> HIDE DEF node
  <2>2. QED
    BY <2>1, OntoFacts
<1>2. /\ context.position \in Nat /\ context.had_error \in BOOLEAN
      /\ context'.had_error \in BOOLEAN /\ (context.had_error => context'.had_error)
      /\ (returned = 0 => context.had_error)
  BY <1>1, WorkFacts, AnswerKind DEF Onto, Lasts, ParserState
<1>3. \E k \in 1..Len(frame.parts) : frame.parts[k] = name
  <2>1. frame.parts \in Seq(Nat)
    BY WorkFacts
  <2>2. Len(frame.parts) \in 1..Len(frame.parts)
    BY <2>1, NotEmpty
  <2>3. QED
    BY <2>2 DEF Last
<1>4. name \in Indices(frame.parts) /\ name # 0
  BY <1>3 DEF Indices
<1> HIDE DEF name
<1>5. /\ Inside(nodes[name].span, from, nodes[name].to, context.had_error)
      /\ from \in Nat /\ nodes[name].to \in Nat /\ nodes[name].to <= context.position
      /\ from <= nodes[name].to
  BY <1>4, PartSpan, PartStands
<1>6. Inside(nodes[name].span, from, context.position, context.had_error)
  BY <1>2, <1>5, InsideOn
<1>7. ASSUME returned # 0
      PROVE  Inside(nodes[returned].span, from, context.position, context.had_error)
  <2>1. /\ Inside(nodes[returned].span, nodes[returned].from, nodes[returned].to,
                  context.had_error)
        /\ nodes[returned].from \in Nat /\ nodes[returned].to \in Nat
        /\ nodes[returned].to <= context.position
    BY <1>7, PartSpan
  <2>2. nodes[name].to <= nodes[returned].from
    <3>1. AnswerSound(nodes, frame, returned, context.position)
      BY WorkFacts
    <3>2. QED
      BY <1>3, <1>4, <1>7, <3>1 DEF AnswerSound
  <2>3. from <= nodes[returned].from
    BY <1>5, <2>1, <2>2
  <2>4. QED
    BY <1>2, <1>5, <2>1, <2>3, InsideOn
<1>8. /\ Inside(span, from, context.position, context.had_error)
      /\ returned # 0 => Covers(span, nodes[returned].span)
      /\ \A s \in Span : Covers(nodes[name].span, s) => Covers(span, s)
  BY <1>2, <1>5, <1>6, <1>7, ExtendedInside
<1>9. Covers(span, nodes[name].span)
  <2>1. nodes[name].span \in Span /\ Covers(nodes[name].span, nodes[name].span)
    BY <1>5 DEF Inside, Covers, Span
  <2>2. QED
    BY <1>8, <2>1
<1> HIDE DEF span, from
<1>10. CoversAll(nodes, span, <<name, returned>>)
  <2>1. \A k \in 1..Len(<<name, returned>>) :
          <<name, returned>>[k] = name \/ <<name, returned>>[k] = returned
    OBVIOUS
  <2>2. QED
    BY <1>8, <1>9, <2>1 DEF CoversAll
<1>11. Inside(span, from, context.position, context'.had_error)
  <2>1. from \in Nat /\ from <= from /\ context.position <= context.position
    BY <1>2, <1>5
  <2>2. QED
    BY <1>2, <1>8, <2>1, InsideOn
<1>12. QED
  BY <1>1, <1>10, <1>11, MadeSpanned

(* Parameters and fields. *)
LEMMA TypedSpans ==
  ASSUME IInv, Running, BuiltInv, SpanInv, ParameterTyped \/ FieldTyped
  PROVE  Spanned
<1>1. At("Function", "parameter type") \/ At("Struct", "field type")
  BY DEF ParameterTyped, FieldTyped
<1>2. frame.parts # <<>> /\ Last(frame.parts) # 0 /\ Owing(frame)
  BY <1>1, NameReady DEF Owing, At
<1>3. \/ TypedName("Parameter", "next parameter", "close")
      \/ TypedName("Field", "fields", "close")
  BY DEF ParameterTyped, FieldTyped
<1>4. QED
  BY <1>2, <1>3, TypedNameSpans

(* Functions, modules and packages. *)
LEMMA BodySpans ==
  ASSUME IInv, Running, BuiltInv, SpanInv, EndFunction \/ EndModule \/ EndPackage
  PROVE  Spanned
<1>1. frame.routine \in Beginning /\ frame.point # "start" /\ Held \in Taken
  BY DEF EndFunction, EndModule, EndPackage, At, Beginning, Taking, Named, Taken
<1>2. CASE EndFunction
  <2>1. /\ frame.routine = "Function" /\ frame.point = "body"
        /\ ReturnNode(context, "Function", Extended(StartSpan, returned), Held)
    BY <1>2 DEF EndFunction, At
  <2>2. returned = 0 => context.had_error
    BY <2>1, AnswerKind DEF Owing
  <2>3. "Function" # "Program"
    OBVIOUS
  <2>4. QED
    BY <1>1, <2>1, <2>2, <2>3, ExtendedSpanned
<1>3. CASE EndModule
  <2>1. /\ frame.routine = "Module" /\ frame.point = "body"
        /\ ReturnNode(context, "Module", Extended(StartSpan, returned), Held)
    BY <1>3 DEF EndModule, At
  <2>2. Fits(nodes, Only(<<Names>>), frame.parts)
    BY <2>1, AnswerKind, DeclarationShapes
  <2>3. Held[2] = returned
    BY <2>2, HeldFew
  <2>4. "Module" # "Program"
    OBVIOUS
  <2>5. QED
    BY <1>1, <2>1, <2>3, <2>4, ExtendedSpanned
<1>4. CASE EndPackage
  <2>1. ReturnClosed(";", "Package", StartSpan, Held)
    BY <1>4 DEF EndPackage
  <2>2. QED
    BY <1>1, <2>1, ClosedSpanned
<1>5. QED
  BY <1>2, <1>3, <1>4

(* Structs and imports. *)
LEMMA CloseSpans ==
  ASSUME IInv, Running, BuiltInv, SpanInv, EndStruct \/ EndImport
  PROVE  Spanned
<1>1. /\ frame.routine \in Beginning /\ frame.point # "start" /\ frame.parts \in Taken
      /\ frame.from \in Nat /\ context.position \in Nat /\ context.had_error \in BOOLEAN
      /\ frame.start \in Nat
  <2>1. frame.routine \in Beginning /\ frame.point # "start" /\ frame.parts \in Taken
    BY DEF EndStruct, EndImport, At, Beginning, Taking, Named, Taken
  <2>2. QED
    BY <2>1, WorkFacts, AnswerKind
<1>2. /\ Inside(StartSpan, frame.from, context.position, context.had_error)
      /\ StartSpan.start = frame.start /\ StartSpan.end = frame.start /\ StartSpan \in Span
  BY <1>1, StartInside DEF Inside
<1>3. CASE EndStruct
  <2> DEFINE d == ExpectedOrRecovered(context, "}")
             c == Matched(d, ";")
             span == IF Peek(context) = "}"
                       THEN ExtendSpan(StartSpan, TokenSpan(context.position)) ELSE StartSpan
  <2>1. ReturnNode(c, "Struct", span, frame.parts)
    BY <1>3 DEF EndStruct
  <2>2. Onto(d)
    BY OntoFacts
  <2>3. d \in ParserState
    BY <2>2 DEF Onto, Lasts
  <2>4. d.position <= c.position
    BY <2>3, NowhereBack
  <2>5. c \in ParserState /\ (d.had_error => c.had_error)
    <3>1. c \in ParserState
      <4>1. Onto(c)
        BY <2>2, OntoMore
      <4>2. QED
        BY <4>1 DEF Onto, Lasts
    <3>2. c.had_error = d.had_error
      BY <2>3 DEF Matched, Consumed, ParserState
    <3>3. QED
      BY <3>1, <3>2
  <2>6. StartSpan.start <= frame.start
    BY <1>1, <1>2
  <2>7. /\ Inside(span, frame.from, c.position, c.had_error)
        /\ c.had_error \/ CoversAll(nodes, span, frame.parts)
    BY <1>1, <1>2, <2>4, <2>5, <2>6, ClosedInside
  <2> HIDE DEF c, span
  <2>8. QED
    BY <2>1, <2>7, ReturnSpanned
<1>4. CASE EndImport
  <2> DEFINE last == IF frame.parts = <<>> THEN 0 ELSE Last(frame.parts)
             base == Extended(StartSpan, last)
             c == ExpectedOrRecovered(context, ";")
             span == IF Peek(context) = ";"
                       THEN ExtendSpan(base, TokenSpan(context.position)) ELSE base
  <2>1. ReturnNode(c, "Import", span, frame.parts)
    BY <1>4 DEF EndImport, ReturnClosed
  <2>2. last # 0 => last \in Indices(frame.parts)
    <3>1. SUFFICES ASSUME frame.parts # <<>> PROVE Last(frame.parts) \in Indices(frame.parts)
      OBVIOUS
    <3>2. Len(frame.parts) \in 1..Len(frame.parts)
      BY <3>1, WorkFacts, NotEmpty
    <3>3. QED
      BY <3>2 DEF Indices, Last
  <2> HIDE DEF last
  <2>3. last # 0 => Inside(nodes[last].span, frame.from, context.position, context.had_error)
    BY <2>2, PartSpan
  <2>4. /\ Inside(base, frame.from, context.position, context.had_error)
        /\ \A s \in Span : Covers(StartSpan, s) => Covers(base, s)
    BY <1>1, <1>2, <2>3, ExtendedInside
  <2>5. base.start <= frame.start
    <3>1. Covers(StartSpan, StartSpan)
      BY <1>1, <1>2 DEF Covers
    <3>2. QED
      BY <1>2, <2>4, <3>1 DEF Covers
  <2>6. c \in ParserState /\ c.position <= c.position
    <3>1. c \in ParserState
      BY OntoFacts DEF Onto, Lasts
    <3> HIDE DEF c
    <3>2. c.position \in Nat
      BY <3>1 DEF ParserState
    <3>3. QED
      BY <3>1, <3>2
  <2> HIDE DEF base
  <2>7. /\ Inside(span, frame.from, c.position, c.had_error)
        /\ c.had_error \/ CoversAll(nodes, span, frame.parts)
    BY <1>1, <2>4, <2>5, <2>6, ClosedInside
  <2> HIDE DEF c, span
  <2>8. QED
    BY <2>1, <2>7, ReturnSpanned
<1>5. QED
  BY <1>3, <1>4

(* A declaration that spans its keyword. *)
LEMMA KeywordSpanned ==
  ASSUME IInv, Running, BuiltInv, SpanInv, NEW kind \in {"Class", "Trait", "Enum"},
         frame.routine \in Beginning, frame.point # "start",
         NEW c, Onto(c), NEW parts, ReturnNode(c, kind, StartSpan, parts)
  PROVE  Spanned
<1>1. Inside(StartSpan, frame.from, context.position, context.had_error)
  BY StartInside DEF Inside
<1>2. Inside(StartSpan, frame.from, c.position, c.had_error)
  BY <1>1, TokenBehind
<1>3. QED
  BY <1>2, ReturnSpanned

(* Classes, traits and enums. *)
LEMMA KeywordSpans ==
  ASSUME IInv, Running, BuiltInv, SpanInv,
         \/ \E kind \in {"Class", "Trait"} : BodyNamed(kind) \/ NextMember(kind)
         \/ EnumNamed \/ NextVariant \/ VariantParsed
  PROVE  Spanned
<1>1. frame.routine \in Beginning /\ frame.point # "start"
  BY DEF BodyNamed, NextMember, EnumNamed, NextVariant, VariantParsed, NameFound, At,
         Beginning, Taking, Named
<1>2. /\ Onto(context) /\ Onto(Expected(context, "}")) /\ Onto(Matched(context, ";"))
      /\ Onto(Matched(Expected(context, "}"), ";"))
  BY OntoFacts, OntoMore
<1>3. ASSUME NEW kind \in {"Class", "Trait"}, BodyNamed(kind) \/ NextMember(kind) PROVE Spanned
  <2>1. \/ nodes' = nodes
        \/ ReturnNode(context, kind, StartSpan, Held)
        \/ ReturnNode(Expected(context, "}"), kind, StartSpan, frame.parts)
    <3>1. CASE BodyNamed(kind)
      BY <3>1 DEF BodyNamed, Continue
    <3>2. CASE NextMember(kind)
      <4>1. \/ ReturnNode(Expected(context, "}"), kind, StartSpan, frame.parts)
            \/ Invoke("Declaration", "member", context, frame.parts)
            \/ Continue("members", SynchronizedDeclaration(context), frame.parts)
        BY <3>2, Zenon DEF NextMember
      <4>2. QED
        BY <4>1 DEF Invoke, InvokeFrame, Continue
    <3>3. QED
      BY <1>3, <3>1, <3>2
  <2>2. kind \in {"Class", "Trait", "Enum"}
    OBVIOUS
  <2>3. QED
    BY <1>1, <1>2, <2>1, <2>2, KeywordSpanned DEF Spanned
<1>4. CASE EnumNamed \/ NextVariant \/ VariantParsed
  <2>1. \/ nodes' = nodes
        \/ ReturnNode(Matched(context, ";"), "Enum", StartSpan, Held)
        \/ ReturnNode(Matched(Expected(context, "}"), ";"), "Enum", StartSpan, frame.parts)
        \/ ReturnNode(Matched(Expected(context, "}"), ";"), "Enum", StartSpan, Kept)
    BY <1>4 DEF EnumNamed, NextVariant, VariantParsed, EndEnum, Continue, Invoke, InvokeFrame
  <2>2. "Enum" \in {"Class", "Trait", "Enum"}
    OBVIOUS
  <2>3. QED
    BY <1>1, <1>2, <2>1, <2>2, KeywordSpanned DEF Spanned
<1>5. QED
  BY <1>3, <1>4

(* The span over some nodes, and what it covers. *)
LEMMA AllSpans ==
  ASSUME NEW parts \in Seq(Nat), parts # <<>>, 0 \notin Indices(parts),
         NEW from \in Nat, NEW to \in Nat,
         \A i \in Indices(parts) : Inside(nodes[i].span, from, to, TRUE)
  PROVE  LET span == SpanOfAll(parts)
         IN  from <= span.start /\ span.end <= to /\ CoversAll(nodes, span, parts)
<1> DEFINE starts == {nodes[i].span.start : i \in Indices(parts)}
           ends == {nodes[i].span.end : i \in Indices(parts)}
           first == CHOOSE p \in starts : \A i \in Indices(parts) : p <= nodes[i].span.start
           last == CHOOSE p \in ends : \A i \in Indices(parts) : p >= nodes[i].span.end
<1>1. \A i \in Indices(parts) :
        /\ nodes[i].span.start \in Nat /\ nodes[i].span.end \in Int
        /\ from <= nodes[i].span.start /\ nodes[i].span.end <= to
  BY DEF Inside, Span
<1>2. parts[1] \in Indices(parts)
  <2>1. 1 \in 1..Len(parts)
    OBVIOUS
  <2>2. QED
    BY <2>1 DEF Indices
<1>3. \E p \in starts : \A i \in Indices(parts) : p <= nodes[i].span.start
  <2>1. starts \in SUBSET Nat /\ starts # {}
    BY <1>1, <1>2
  <2>2. PICK p \in starts : \A q \in starts : p <= q
    BY <2>1, LeastExists
  <2>3. QED
    BY <2>2
<1>4. \E p \in ends : \A i \in Indices(parts) : p >= nodes[i].span.end
  <2> DEFINE below == {to - nodes[i].span.end : i \in Indices(parts)}
  <2>1. below \in SUBSET Nat /\ below # {}
    BY <1>1, <1>2
  <2>2. PICK b \in below : \A q \in below : b <= q
    BY <2>1, LeastExists
  <2>3. PICK k \in Indices(parts) : b = to - nodes[k].span.end
    BY <2>2
  <2>4. \A i \in Indices(parts) : to - nodes[k].span.end <= to - nodes[i].span.end
    BY <2>2, <2>3
  <2>5. \A i \in Indices(parts) : nodes[k].span.end >= nodes[i].span.end
    <3> TAKE i \in Indices(parts)
    <3>1. to - nodes[k].span.end <= to - nodes[i].span.end
      BY <2>4
    <3>2. nodes[i].span.end \in Int /\ nodes[k].span.end \in Int
      BY <1>1
    <3>3. \A l \in Nat, a \in Int, b1 \in Int : l - a <= l - b1 => a >= b1
      OBVIOUS
    <3>4. QED
      BY <3>1, <3>2, <3>3
  <2>6. QED
    BY <2>3, <2>5
<1>5. /\ first \in starts /\ \A i \in Indices(parts) : first <= nodes[i].span.start
      /\ last \in ends /\ \A i \in Indices(parts) : last >= nodes[i].span.end
  BY <1>3, <1>4, Zenon
<1>6. SpanOfAll(parts) = [start |-> first, end |-> last]
  BY Zenon DEF SpanOfAll
<1> HIDE DEF first, last
<1>7. SpanOfAll(parts).start = first /\ SpanOfAll(parts).end = last
  BY <1>6
<1>8. from <= first /\ last <= to /\ last \in Int
  BY <1>1, <1>5
<1>9. \A k \in 1..Len(parts) :
        /\ first <= nodes[parts[k]].span.start /\ nodes[parts[k]].span.end <= last
  <2> TAKE k \in 1..Len(parts)
  <2>1. parts[k] \in Indices(parts)
    BY DEF Indices
  <2>2. QED
    BY <1>1, <1>5, <1>8, <2>1
<1>10. CoversAll(nodes, SpanOfAll(parts), parts)
  BY <1>7, <1>9 DEF CoversAll, Covers
<1>11. QED
  BY <1>7, <1>8, <1>10

(* No function waits for a program: it is the last that returns. *)
LEMMA ProgramLast ==
  ASSUME IInv, Running, BuiltInv, frame.routine = "Program"
  PROVE  Tail(calls) = <<>>
<1>1. calls \in Seq(FrameRecord) /\ calls # <<>> /\ frame = calls[1]
  BY WorkFacts
<1>2. ASSUME Len(calls) >= 2 PROVE FALSE
  <2>1. 2 \in 2..Len(calls) /\ 2 - 1 = 1
    BY <1>1, <1>2
  <2>2. CallSound(nodes, calls[2], frame)
    BY <1>1, <2>1 DEF BuiltInv, Built
  <2>3. Results("Program") \subseteq Awaited(calls[2].routine, calls[2].point)
    BY <2>2 DEF CallSound
  <2>4. "Program" \in Results("Program")
    <3>1. /\ "Program" \notin Declaring /\ "Program" \notin Expressing /\ "Program" \notin Stating
          /\ "Program" \notin {"Declaration", "Identifier", "Type", "Block"}
      BY DEF Declaring, Named, Expressing, Stating
    <3>2. Results("Program") = {"Program"}
      BY <3>1 DEF Results
    <3>3. QED
      BY <3>2
  <2>5. \A routine, point : "Program" \notin Awaited(routine, point)
    <3>1. /\ "Program" \notin Names /\ "Program" \notin Types /\ "Program" \notin Declarations
          /\ "Program" \notin Expressions /\ "Program" \notin Statements
          /\ "Program" \notin {"Block"} /\ "Program" \notin {}
      BY DEF Names, Types, Declarations, Expressions, Statements
    <3>2. QED
      BY <3>1, Zenon DEF Awaited
  <2>6. QED
    BY <2>3, <2>4, <2>5
<1>3. Len(calls) = 1
  BY <1>1, <1>2
<1>4. Tail(calls) \in Seq(FrameRecord) /\ Len(Tail(calls)) = 0
  BY <1>1, <1>3
<1>5. QED
  BY <1>4, EmptySeq

(* Programs. *)
LEMMA ProgramSpans ==
  ASSUME IInv, Running, BuiltInv, SpanInv, ParseDeclarations
  PROVE  Spanned
<1> DEFINE span == SpanOfAll(frame.parts)
           node == NodeFrom(frame.from, context, "Program", span, frame.parts)
<1>1. /\ frame.routine = "Program" /\ frame.point = "declarations"
      /\ \/ nodes' = nodes
         \/ nodes' = Append(nodes, node) /\ calls' = Tail(calls)
  BY DEF ParseDeclarations, At, ReturnNode, NewNode, Continue, Invoke, InvokeFrame
<1>2. /\ frame.parts \in Seq(Nat) /\ 0 \notin Indices(frame.parts)
      /\ frame.from \in Nat /\ context.position \in Nat
  <2>1. /\ frame.parts \in Seq(Nat) /\ frame.from \in Nat /\ context.position \in Nat
    BY WorkFacts
  <2>2. 0 \notin Indices(frame.parts)
    BY <1>1, PartsFacts DEF Ready, Trusting
  <2>3. QED
    BY <2>1, <2>2
<1>3. /\ node.kind = "Program" /\ node.span = span /\ node.from = frame.from
      /\ node.to = context.position /\ node.parts = frame.parts
  BY DEF NodeFrom
<1>4. CASE frame.parts = <<>>
  <2>1. span = NoSpan
    BY <1>4 DEF SpanOfAll
  <2>2. ~IsValid(span) /\ CoversAll(nodes, span, frame.parts)
    BY <1>4, <2>1 DEF NoSpan, IsValid, CoversAll
  <2> HIDE DEF span, node
  <2>3. Spans(nodes, node, context'.had_error)
    BY <1>3, <2>2 DEF Spans
  <2>4. calls' = Tail(calls) => calls' = <<>>
    BY <1>1, ProgramLast
  <2>5. QED
    BY <1>1, <2>3, <2>4 DEF Spanned
<1>5. CASE frame.parts # <<>>
  <2>1. \A i \in Indices(frame.parts) : Inside(nodes[i].span, frame.from, context.position, TRUE)
    <3> TAKE i \in Indices(frame.parts)
    <3>1. Inside(nodes[i].span, frame.from, context.position, context.had_error)
      BY <1>2, PartSpan
    <3>2. QED
      BY <3>1 DEF Inside
  <2>2. /\ frame.from <= span.start /\ span.end <= context.position
        /\ CoversAll(nodes, span, frame.parts)
    BY <1>2, <1>5, <2>1, AllSpans
  <2> HIDE DEF span, node
  <2>3. Spans(nodes, node, context'.had_error)
    BY <1>3, <2>2 DEF Spans
  <2>4. calls' = Tail(calls) => calls' = <<>>
    BY <1>1, ProgramLast
  <2>5. QED
    BY <1>1, <2>3, <2>4 DEF Spanned
<1>6. QED
  BY <1>4, <1>5

(* The steps of declarations that make no node. *)
LEMMA QuietDeclarations ==
  ASSUME DeclarationStep,
         ~(ParseDeclarations \/ ParseAttribute \/ ParameterTyped \/ EndFunction \/ FieldTyped
             \/ EndStruct),
         ~(\E kind \in {"Class", "Trait"} : BodyNamed(kind) \/ NextMember(kind)),
         ~(EnumNamed \/ NextVariant \/ VariantParsed \/ EndModule \/ EndPackage
             \/ ParseSegment \/ EndImport \/ ParseIdentifier \/ ParseType)
  PROVE  nodes' = nodes
<1>1. CASE DeclarationParsed \/ ParseDeclaration
  BY <1>1 DEF DeclarationParsed, ParseDeclaration, Continue, Become, Return
<1>2. CASE \E routine \in Named : ParseKeyword(routine) \/ NameMissing(routine)
  BY <1>2 DEF ParseKeyword, NameMissing, Invoke, InvokeFrame, Return
<1>3. CASE FunctionNamed \/ ParameterNamed \/ NextParameter \/ FunctionClosed \/ FunctionTyped
  BY <1>3 DEF FunctionNamed, ParameterNamed, NextParameter, FunctionClosed, FunctionTyped,
     Continue, Invoke, InvokeFrame
<1>4. CASE StructNamed \/ NextField \/ FieldNamed
  BY <1>4 DEF StructNamed, NextField, FieldNamed, Continue, Invoke, InvokeFrame
<1>5. CASE \E kind \in {"Class", "Trait"} : MemberParsed(kind)
  BY <1>5 DEF MemberParsed, Continue
<1>6. CASE ModuleNamed \/ ParsePackage \/ ParseImport
  BY <1>6 DEF ModuleNamed, ParsePackage, ParseImport, Continue, Invoke, InvokeFrame
<1>7. QED
  BY <1>1, <1>2, <1>3, <1>4, <1>5, <1>6, Zenon DEF DeclarationStep

(* The steps of statements that make none. *)
LEMMA QuietStatements ==
  ASSUME StatementStep,
         ~(NextStatement \/ EndIf \/ EndWhile \/ EndFor),
         ~(EndReturn \/ EndVariable \/ EndMatchStatement \/ EndExpressionStatement)
  PROVE  nodes' = nodes
<1>1. CASE ParseStatement \/ ParseBlock \/ StatementParsed
  BY <1>1 DEF ParseStatement, ParseBlock, StatementParsed, Continue, Become, Return
<1>2. CASE \E routine \in {"If", "While"} : ParseCondition(routine) \/ ConditionParsed(routine)
  BY <1>2 DEF ParseCondition, ConditionParsed, Invoke, InvokeFrame
<1>3. CASE ThenParsed \/ ParseFor \/ IteratorParsed \/ IterableParsed
  BY <1>3 DEF ThenParsed, ParseFor, IteratorParsed, IterableParsed, Continue, Invoke, InvokeFrame
<1>4. CASE ParseReturn \/ ParseVariable \/ VariableNamed \/ VariableTyped
  BY <1>4 DEF ParseReturn, ParseVariable, VariableNamed, VariableTyped, Continue, Invoke,
     InvokeFrame, Return
<1>5. CASE ParseMatchStatement \/ ParseExpressionStatement
  BY <1>5 DEF ParseMatchStatement, ParseExpressionStatement, Invoke, InvokeFrame
<1>6. QED
  BY <1>1, <1>2, <1>3, <1>4, <1>5, Zenon DEF StatementStep

(* Every step makes a node with an honest span, or none. *)
LEMMA StepSpanned ==
  ASSUME IInv, Running, BuiltInv, SpanInv, Next
  PROVE  Spanned
<1>1. CASE DeclarationStep
  <2>1. CASE ParseDeclarations
    BY <2>1, ProgramSpans
  <2>2. CASE ParseAttribute \/ ParseSegment \/ ParseIdentifier \/ ParseType
    BY <2>2, WordSpans
  <2>3. CASE ParameterTyped \/ FieldTyped
    BY <2>3, TypedSpans
  <2>4. CASE EndFunction \/ EndModule \/ EndPackage
    BY <2>4, BodySpans
  <2>5. CASE EndStruct \/ EndImport
    BY <2>5, CloseSpans
  <2>6. CASE \/ \E kind \in {"Class", "Trait"} : BodyNamed(kind) \/ NextMember(kind)
             \/ EnumNamed \/ NextVariant \/ VariantParsed
    BY <2>6, KeywordSpans
  <2>7. CASE nodes' = nodes
    BY <2>7 DEF Spanned
  <2>8. QED
    BY <1>1, <2>1, <2>2, <2>3, <2>4, <2>5, <2>6, <2>7, QuietDeclarations, Zenon
<1>2. CASE StatementStep
  <2>1. CASE NextStatement \/ EndIf \/ EndWhile \/ EndFor
    BY <2>1, BranchSpans
  <2>2. CASE EndReturn \/ EndVariable \/ EndMatchStatement \/ EndExpressionStatement
    BY <2>2, LineSpans
  <2>3. CASE nodes' = nodes
    BY <2>3 DEF Spanned
  <2>4. QED
    BY <1>2, <2>1, <2>2, <2>3, QuietStatements, Zenon
<1>3. CASE ExpressionStep
  <2>1. CASE ParseAssignment \/ LeftParsed \/ ParseBinary \/ OperandParsed
    BY <2>1 DEF ParseAssignment, LeftParsed, ParseBinary, OperandParsed, Continue, Invoke,
       InvokeFrame, Return, Spanned
  <2>2. CASE ParseOperator \/ ParseUnary \/ ArgumentParsed
    BY <2>2 DEF ParseOperator, ParseUnary, ArgumentParsed, Continue, Invoke, InvokeFrame, Return,
       Spanned
  <2>3. CASE EndAssignment \/ RightParsed
    BY <2>3, AssignmentSpans
  <2>4. CASE EndPrefix \/ EndPostfix
    BY <2>4, UnarySpans
  <2>5. CASE ParsePrimary \/ InnerParsed \/ EndMatch
    BY <2>5, PrimarySpans
  <2>6. CASE ParsePostfix \/ EndCall
    BY <2>6, PostfixSpans
  <2>7. QED
    BY <1>3, <2>1, <2>2, <2>3, <2>4, <2>5, <2>6, Zenon DEF ExpressionStep
<1>4. CASE Finished
  BY <1>4 DEF Finished
<1>5. QED
  BY <1>1, <1>2, <1>3, <1>4 DEF Next

(* No error is forgotten. *)
LEMMA ErrorsRemain ==
  ASSUME IInv, BuiltInv, [Next]_vars
  PROVE  context.had_error => context'.had_error
<1>1. CASE UNCHANGED vars
  BY <1>1 DEF vars
<1>2. CASE Move
  <2>1. \E c : Onto(c) /\ context' = c
    BY <1>2 DEF Move, GoesOn, Calls, Becomes, GivesUp, Hands, Makes, Wraps, Adds, TypesName,
       Repeats, Moved, Continue, ContinueWith, InvokeFrame, Become, Return, ReturnNode
  <2>2. QED
    BY <2>1 DEF Onto, Lasts
<1>3. QED
  BY <1>1, <1>2, StepMoves

(* Steps keep the spans. *)
LEMMA StepSpans ==
  ASSUME IInv, BuiltInv, SpanInv, [Next]_vars
  PROVE  SpanInv'
<1>1. CASE UNCHANGED vars
  <2>1. nodes' = nodes /\ context' = context /\ calls' = calls
    BY <1>1 DEF vars
  <2>2. SpanInv' = SpanInv
    BY <2>1 DEF SpanInv, Running, Spans, CoversAll
  <2>3. QED
    BY <2>2
<1>2. CASE Next /\ Running
  <2>1. IInv' /\ Spanned /\ (context.had_error => context'.had_error)
    BY <1>2, StepGood, StepSpanned, ErrorsRemain
  <2>2. QED
    BY <1>2, <2>1, SpannedKeeps
<1>3. QED
  BY <1>1, <1>2, StepMoves

(* Every span lies in the text of its node and covers those of the parts,   *)
(* which follow one another.                                                *)
THEOREM SpansAreHonest == Spec => []SpansHonest
<1>1. ASSUME IInv, BuiltInv, SpanInv PROVE SpansHonest
  <2>1. SUFFICES ASSUME NEW i \in NodeIds
                 PROVE  LET node == nodes[i] IN
                   /\ IsValid(node.span) =>
                        node.from <= node.span.start /\ node.span.end <= node.to
                   /\ ~context.had_error =>
                        /\ IsValid(node.span) \/ node.kind = "Program"
                        /\ node.span.end < node.to \/ node.kind = "Program"
                        /\ ~SpansKeyword(node) =>
                             \A j \in PartsOf(i) :
                               nodes[j].kind = "Attribute" \/ Covers(node.span, nodes[j].span)
                        /\ \A k, l \in 1..Len(node.parts) :
                             k < l /\ node.parts[k] # 0 /\ node.parts[l] # 0 =>
                               nodes[node.parts[k]].span.end < nodes[node.parts[l]].span.start
    BY DEF SpansHonest
  <2> DEFINE node == nodes[i]
  <2>2. /\ i \in 1..Len(nodes) /\ Len(nodes) \in Nat /\ NodeSound(nodes, i)
        /\ Spans(nodes, nodes[i], context.had_error)
        /\ Indices(nodes[i].parts) \subseteq 0..i - 1
    BY <1>1, <2>1 DEF NodeIds, SpanInv, BuiltInv, Built, IInv, NodesInv, Older
  <2>3. \A k \in 1..Len(node.parts) : node.parts[k] # 0 =>
          /\ node.parts[k] \in 1..Len(nodes)
          /\ Inside(nodes[node.parts[k]].span, nodes[node.parts[k]].from,
                    nodes[node.parts[k]].to, context.had_error)
    <3> TAKE k \in 1..Len(node.parts)
    <3> HAVE node.parts[k] # 0
    <3>1. node.parts[k] \in 0..i - 1
      BY <2>2 DEF Indices
    <3>2. node.parts[k] \in 1..Len(nodes) /\ node.parts[k] # Len(nodes)
      BY <2>2, <3>1
    <3>3. nodes[node.parts[k]].kind # "Program"
      BY <1>1, <3>2 DEF SpanInv
    <3>4. Spans(nodes, nodes[node.parts[k]], context.had_error)
      BY <1>1, <3>2 DEF SpanInv
    <3>5. QED
      BY <3>2, <3>3, <3>4 DEF Spans
  <2>4. ASSUME ~context.had_error, ~SpansKeyword(node), NEW j \in PartsOf(i)
        PROVE  nodes[j].kind = "Attribute" \/ Covers(node.span, nodes[j].span)
    <3>1. CoversAll(nodes, node.span, node.parts)
      BY <2>2, <2>4 DEF Spans
    <3>2. j # 0 /\ \E k \in 1..Len(node.parts) : node.parts[k] = j
      BY <2>4 DEF PartsOf, Indices
    <3>3. QED
      BY <3>1, <3>2 DEF CoversAll
  <2>5. ASSUME ~context.had_error, NEW k \in 1..Len(node.parts), NEW l \in 1..Len(node.parts),
               k < l, node.parts[k] # 0, node.parts[l] # 0
        PROVE  nodes[node.parts[k]].span.end < nodes[node.parts[l]].span.start
    <3> DEFINE a == nodes[node.parts[k]]
               b == nodes[node.parts[l]]
    <3>1. a.to <= b.from
      BY <2>2, <2>5 DEF NodeSound, Ordered
    <3>2. /\ Inside(a.span, a.from, a.to, FALSE) /\ Inside(b.span, b.from, b.to, FALSE)
          /\ a \in Node /\ b \in Node
      <4>1. nodes \in Seq(Node) /\ context.had_error = FALSE
        BY <1>1, <2>5 DEF IInv, NodesInv, GoodContext, ParserState
      <4>2. /\ node.parts[k] \in 1..Len(nodes) /\ node.parts[l] \in 1..Len(nodes)
            /\ Inside(a.span, a.from, a.to, context.had_error)
            /\ Inside(b.span, b.from, b.to, context.had_error)
        BY <2>3, <2>5
      <4>3. a \in Node /\ b \in Node
        BY <4>1, <4>2
      <4>4. QED
        BY <4>1, <4>2, <4>3
    <3> HIDE DEF a, b
    <3>3. a.span \in Span /\ b.span \in Span /\ a.to \in Nat /\ b.from \in Nat
          /\ a.span.end < a.to /\ b.from <= b.span.start
      BY <3>2 DEF Inside, Node
    <3>4. a.span.end < b.span.start
      BY <3>1, <3>3 DEF Span
    <3>5. QED
      BY <3>4 DEF a, b
  <2>6. /\ IsValid(node.span) => node.from <= node.span.start /\ node.span.end <= node.to
        /\ ~context.had_error =>
             /\ IsValid(node.span) \/ node.kind = "Program"
             /\ node.span.end < node.to \/ node.kind = "Program"
    BY <2>2 DEF Spans, Inside
  <2>7. QED
    BY <2>4, <2>5, <2>6
<1>2. ASSUME Init PROVE SpanInv
  <2>1. nodes = <<>> /\ 1..Len(<<>>) = {}
    BY <1>2 DEF Init
  <2>2. QED
    BY <2>1 DEF SpanInv
<1>3. Init => BuiltInv
  BY InitBuilt
<1>4. IInv /\ BuiltInv /\ [Next]_vars => BuiltInv'
  BY StepBuilt
<1>5. IInv /\ BuiltInv /\ SpanInv /\ [Next]_vars => SpanInv'
  BY StepSpans
<1>6. QED
  BY <1>1, <1>2, <1>3, <1>4, <1>5, Invariance, PTL DEF Spec
=============================================================================
