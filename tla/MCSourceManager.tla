-------------------------- MODULE MCSourceManager --------------------------
(* Instances of SourceManager for TLC: "a.myc" is relative, "/x/a.myc" is   *)
(* absolute, and a buffer may be named like a file on disk.                 *)
EXTENDS SourceManager

MCDirectories == {"/x", "/y"}
MCRequests == {"a.myc", "/x/a.myc"}
MCPaths == {"/x/a.myc", "/y/a.myc", "<stdin>"}
MCBufferNames == {"/x/a.myc", "<stdin>"}
MCCanonical ==
  [d \in MCDirectories |->
    [r \in MCRequests |-> IF r = "a.myc" /\ d = "/y" THEN "/y/a.myc" ELSE "/x/a.myc"]]
=============================================================================
