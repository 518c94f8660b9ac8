--------------------------- MODULE SourceRegistry ---------------------------
(***************************************************************************)
(* What SourceManager promises its callers (compiler/source/README.md):    *)
(* every registered source has an identifier of its own, for good; a path  *)
(* is registered from disk once; an in-memory source takes over its name.  *)
(* Nothing here says how an identifier is found or which lock is held.     *)
(***************************************************************************)
EXTENDS Naturals

CONSTANTS
  Paths,        (* the strings a source can be looked up by              *)
  BufferNames   (* those of them that name in-memory sources             *)

VARIABLES
  sources,      (* the registered sources                                *)
  index         (* for each path, the identifier it is looked up as      *)

NoId == 0

Source == [id : Nat \ {NoId}, key : Paths, kind : {"Physical", "Memory"}]

Init ==
  /\ sources = {}
  /\ index = [p \in Paths |-> NoId]

(* A source joins the registry under an identifier no source has. *)
Register(s) ==
  /\ s \in Source
  /\ \A other \in sources : other.id # s.id
  /\ sources' = sources \union {s}
  /\ index' = [index EXCEPT ![s.key] = s.id]

(* From disk, only a path not yet looked up; in memory, any buffer's name. *)
RegisterPhysical(s) == s.kind = "Physical" /\ index[s.key] = NoId /\ Register(s)
RegisterMemory(s) == s.kind = "Memory" /\ s.key \in BufferNames /\ Register(s)

Next == \E s \in sources' \ sources : RegisterPhysical(s) \/ RegisterMemory(s)

Spec == Init /\ [][Next]_<<sources, index>>
=============================================================================
