----------------------------- MODULE SyntaxTree -----------------------------
(***************************************************************************)
(* The syntax tree of compiler/ast.  Every MakeNode appends to nodes, so   *)
(* that a node is its index, 0 is the null pointer and a node is younger   *)
(* than its parts.  A node keeps what the passes after the parser can tell *)
(* apart: its kind, its span and what it owns; the nodes that wrap the     *)
(* identifier or the literal of one token are one node with it.            *)
(***************************************************************************)
EXTENDS ParserContext

VARIABLE nodes

Declarations ==
  {"Function", "Class", "Struct", "Trait", "Enum", "Import", "Module", "Package"}
Statements ==
  {"ExpressionStatement", "Variable", "Return", "If", "While", "For", "Block"}
Expressions ==
  {"IdentifierExpression", "LiteralExpression", "Call", "MemberAccess", "Unary", "Binary",
   "Parenthesized", "Assignment", "Match"}
Types == {"PrimitiveType", "NamedType"}
Kinds ==
  UNION {Declarations, Statements, Expressions, Types,
         {"Program", "Identifier", "Parameter", "Field", "Attribute"}}

(* A span names its first and its last token; the empty one is the         *)
(* SourceSpan that is not valid.                                           *)
Span == [start : Nat, end : Int]
NoSpan == [start |-> 0, end |-> -1]
TokenSpan(p) == [start |-> p, end |-> p]
IsValid(span) == span.start <= span.end

(* Merge and ExtendSpan: the smallest span that covers both. *)
Merge(base, extra) ==
  [start |-> IF base.start < extra.start THEN base.start ELSE extra.start,
   end |-> IF base.end > extra.end THEN base.end ELSE extra.end]
ExtendSpan(base, extra) ==
  CASE ~IsValid(base) -> extra
    [] IsValid(base) /\ ~IsValid(extra) -> base
    [] OTHER -> Merge(base, extra)

(* span extended over a part that may be null. *)
Extended(span, part) == IF part = 0 THEN span ELSE ExtendSpan(span, nodes[part].span)
SpanOf(part, otherwise) == IF part = 0 THEN otherwise ELSE nodes[part].span

(* from and to are history: the node was made from the tokens from the     *)
(* first on and before the second.                                         *)
Node ==
  [kind : Kinds, span : Span, from : Nat, to : Nat, parts : Seq(Nat)]

Last(s) == s[Len(s)]
Indices(s) == {s[k] : k \in 1..Len(s)}
PartsOf(i) == Indices(nodes[i].parts) \ {0}

-----------------------------------------------------------------------------
(* What the members of each node class may point to: the roles before a    *)
(* list, the list, and the roles after it.                                 *)

Roles(head, list, tail) == [head |-> head, list |-> list, tail |-> tail]
Only(head) == Roles(head, {}, <<>>)
Leaf == Only(<<>>)

DeclarationRoles ==
  [kind \in Declarations |->
     CASE kind = "Function" -> Roles(<<>>, {"Attribute", "Identifier", "Parameter"},
                                     <<Types, {"Block"}>>)
       [] kind \in {"Class", "Trait"} -> Roles(<<{"Identifier"}>>, Declarations, <<>>)
       [] kind = "Struct" -> Roles(<<{"Identifier"}>>, {"Field"}, <<>>)
       [] kind \in {"Enum", "Import"} -> Roles(<<>>, {"Identifier"}, <<>>)
       [] kind = "Module" -> Only(<<{"Identifier"}, {"Block"}>>)
       [] kind = "Package" -> Only(<<{"Identifier"}>>)]

StatementRoles ==
  [kind \in Statements |->
     CASE kind \in {"ExpressionStatement", "Return"} -> Only(<<Expressions>>)
       [] kind = "Variable" -> Only(<<{"Identifier"}, Types, Expressions>>)
       [] kind = "If" -> Only(<<Expressions, Statements, Statements>>)
       [] kind = "While" -> Only(<<Expressions, Statements>>)
       [] kind = "For" -> Only(<<{"Identifier"}, Expressions, Statements>>)
       [] kind = "Block" -> Roles(<<>>, Statements, <<>>)]

ExpressionRoles ==
  [kind \in Expressions |->
     CASE kind \in {"IdentifierExpression", "LiteralExpression"} -> Leaf
       [] kind = "Call" -> Roles(<<Expressions>>, Expressions, <<>>)
       [] kind \in {"Binary", "Assignment"} -> Only(<<Expressions, Expressions>>)
       [] OTHER -> Only(<<Expressions>>)]

RolesOf(kind) ==
  CASE kind \in Declarations -> DeclarationRoles[kind]
    [] kind \in Statements -> StatementRoles[kind]
    [] kind \in Expressions -> ExpressionRoles[kind]
    [] kind = "Program" -> Roles(<<>>, Declarations, <<>>)
    [] kind \in {"Parameter", "Field"} -> Only(<<{"Identifier"}, Types>>)
    [] OTHER -> Leaf

(* The k-th part of a node with n parts may be of one of these kinds. *)
RoleAt(roles, k, n) ==
  CASE k <= Len(roles.head) -> roles.head[k]
    [] k > n - Len(roles.tail) -> roles.tail[k - (n - Len(roles.tail))]
    [] OTHER -> roles.list

FitsItsRoles(i) ==
  LET roles == RolesOf(nodes[i].kind)
      n == Len(nodes[i].parts)
  IN  /\ n >= Len(roles.head) + Len(roles.tail)
      /\ \A k \in 1..n :
           LET part == nodes[i].parts[k]
           IN  part # 0 => nodes[part].kind \in RoleAt(roles, k, n)
=============================================================================
