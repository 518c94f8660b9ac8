----------------------------- MODULE AstPrinter -----------------------------
(***************************************************************************)
(* AstPrettyPrinter::Print (compiler/ast) on a node: the visitor writes a  *)
(* line for a node, indents, writes or visits its parts and dedents.  What *)
(* is printed is a sequence of these operations; a line is the nodes it is *)
(* about, none for a heading such as "Parameters" or a flag.               *)
(***************************************************************************)
EXTENDS Parser

SeqExt == INSTANCE SequencesExt

Line(about) == <<[op |-> "write", about |-> about]>>
Write(node) == Line({node})
Heading == Line({})
In == <<[op |-> "indent", about |-> {}]>>
Out == <<[op |-> "dedent", about |-> {}]>>

(* Accept on a part that may be null: what its own visit prints. *)
Visit(printed, part) == IF part = 0 THEN <<>> ELSE printed[part]

VisitEach(printed, parts) ==
  SeqExt!FlattenSeq([k \in 1..Len(parts) |-> Visit(printed, parts[k])])

(* A heading with what is printed under it; a line with a name in it. *)
Under(line, body) == line \o In \o body \o Out
Section(printed, part) == Under(Heading, Visit(printed, part))
NameLine(part) == IF part = 0 THEN <<>> ELSE Write(part)

Of(parts, kind) == SelectSeq(parts, LAMBDA part : part # 0 /\ nodes[part].kind = kind)

(* VisitProgram and the visits of declarations.  Visibility and the other  *)
(* flags are lines of no node and are left out.                            *)
VisitDeclaration(printed, i) ==
  LET kind == nodes[i].kind
      parts == nodes[i].parts
      n == Len(parts)
  IN  Under(Write(i),
        CASE kind = "Program" -> VisitEach(printed, parts)
          [] kind = "Function" ->
               NameLine(Head(Of(parts, "Identifier")))
                 \o VisitEach(printed, Of(parts, "Attribute"))
                 \o Under(Heading, VisitEach(printed, Of(parts, "Parameter")))
                 \o Section(printed, parts[n - 1])
                 \o Section(printed, parts[n])
          [] kind \in {"Class", "Struct", "Trait"} ->
               NameLine(parts[1]) \o VisitEach(printed, Tail(parts))
          [] kind = "Enum" -> SeqExt!FlattenSeq([k \in 1..n |-> NameLine(parts[k])])
          [] kind = "Import" -> Line(Indices(parts))
          [] kind = "Module" -> NameLine(parts[1]) \o Visit(printed, parts[2])
          [] kind = "Package" -> NameLine(parts[1]))

(* An if whose visit forgets the Dedent after its condition. *)
VisitStatementUndented(printed, i) ==
  LET kind == nodes[i].kind
      parts == nodes[i].parts
  IN  IF kind = "If"
        THEN Under(Write(i), Heading \o In \o Visit(printed, parts[1])
                               \o Section(printed, parts[2]) \o Section(printed, parts[3]))
        ELSE Under(Write(i), VisitEach(printed, parts))

(* The visits of statements. *)
VisitStatement(printed, i) ==
  LET kind == nodes[i].kind
      parts == nodes[i].parts
      optional(k) == IF parts[k] = 0 THEN <<>> ELSE Section(printed, parts[k])
  IN  Under(Write(i),
        CASE kind \in {"ExpressionStatement", "Return"} -> Visit(printed, parts[1])
          [] kind = "Variable" -> NameLine(parts[1]) \o optional(2) \o optional(3)
          [] kind = "If" ->
               Section(printed, parts[1]) \o Section(printed, parts[2]) \o optional(3)
          [] kind = "While" -> Section(printed, parts[1]) \o Section(printed, parts[2])
          [] kind = "For" ->
               NameLine(parts[1]) \o Section(printed, parts[2]) \o Section(printed, parts[3])
          [] kind = "Block" -> VisitEach(printed, parts))

(* The visits of expressions. *)
VisitExpression(printed, i) ==
  LET kind == nodes[i].kind
      parts == nodes[i].parts
  IN  Under(Write(i),
        CASE kind \in {"IdentifierExpression", "LiteralExpression"} -> Heading
          [] kind = "Call" ->
               Section(printed, parts[1]) \o Under(Heading, VisitEach(printed, Tail(parts)))
          [] kind = "MemberAccess" -> Section(printed, parts[1]) \o Under(Heading, Heading)
          [] kind = "Unary" -> Heading \o Heading \o Section(printed, parts[1])
          [] kind \in {"Binary", "Assignment"} ->
               Heading \o Section(printed, parts[1]) \o Section(printed, parts[2])
          [] kind \in {"Parenthesized", "Match"} -> Visit(printed, parts[1]))

(* The visits of types, identifiers, parameters, fields and attributes. *)
VisitLeaf(printed, i) ==
  CASE nodes[i].kind = "NamedType" -> Under(Write(i), Heading)
    [] nodes[i].kind \in {"Parameter", "Field"} ->
         Under(Write(i), VisitEach(printed, nodes[i].parts))
    [] nodes[i].kind \in {"PrimitiveType", "Identifier", "Attribute"} -> Write(i)

(* Accept: the visit of the kind of the node.  A node is younger than its  *)
(* parts, so the nodes are printed in their order.                         *)
Printed ==
  LET accept[i \in 0..Len(nodes)] ==
        IF i = 0 THEN <<>>
        ELSE LET before == accept[i - 1]
                 kind == nodes[i].kind
             IN  Append(before,
                   CASE kind \in Declarations \union {"Program"} -> VisitDeclaration(before, i)
                     [] kind \in Statements -> VisitStatement(before, i)
                     [] kind \in Expressions -> VisitExpression(before, i)
                     [] OTHER -> VisitLeaf(before, i))
  IN  accept[Len(nodes)]

(* PrintNode(root): the lines with the depth they are written at. *)
PrintNode(root) == Printed[root]

Depth(printed, k) ==
  Cardinality({j \in 1..k : printed[j].op = "indent"})
    - Cardinality({j \in 1..k : printed[j].op = "dedent"})

LinesOf(printed, i) == {k \in 1..Len(printed) : i \in printed[k].about}

(* The nodes the tree under root is made of. *)
Tree(root) ==
  LET under[i \in 1..root] == {i} \union UNION {under[j] : j \in PartsOf(i)}
  IN  under[root]

(* Printing the program that the parser returned, with errors or without,  *)
(* prints its tree: every node of it on one line, deeper than the line of  *)
(* its owner and with nothing as shallow as that between them, no line     *)
(* about anything else, and the indentation ends where it began.  A missed *)
(* Dedent, a part that no visit reaches and one that two reach break it.   *)
TreePrinted ==
  ~Running =>
    LET printed == PrintNode(returned)
        tree == Tree(returned)
        line(i) == CHOOSE k \in LinesOf(printed, i) : TRUE
    IN  /\ Depth(printed, Len(printed)) = 0
        /\ UNION {printed[k].about : k \in 1..Len(printed)} = tree
        /\ \A i \in tree : Cardinality(LinesOf(printed, i)) = 1
        /\ \A i \in tree : \A j \in PartsOf(i) :
             /\ line(i) < line(j)
             /\ \A k \in line(i) + 1..line(j) : Depth(printed, k) > Depth(printed, line(i))
=============================================================================
