--------------------------- MODULE SourceManager ---------------------------
(***************************************************************************)
(* The source registry of compiler/source with several threads inside it.  *)
(* mutex_ guards path_index_ and files_: each locked section of the code   *)
(* is one step here.  What the code does outside the lock is a step of its *)
(* own: resolving the path, reading the file, and next_id_++, which is a   *)
(* load and a store of a plain integer.                                    *)
(***************************************************************************)
EXTENDS Naturals, Sequences, FiniteSets

CONSTANTS
  Threads,
  Directories,  (* values of FileLoader::working_directory_              *)
  Requests,     (* path arguments of LoadFile                            *)
  Paths,        (* every string that can be a key of path_index_         *)
  BufferNames,  (* names given to AddMemoryBuffer and AddVirtualFile     *)
  Canonical,    (* NormalizePath: directory, request -> absolute path    *)
  MaxFiles      (* bound on the files registered                         *)

ASSUME PathAssumption ==
  /\ Canonical \in [Directories -> [Requests -> Paths]]
  /\ BufferNames \subseteq Paths

NoId == 0       (* identifiers start at 1 *)
NoFile == [id |-> NoId]

VARIABLES
  working_directory, next_id, files, path_index,
  reported,     (* the codes of the errors emitted to diagnostics_       *)
  pc, call,     (* where each thread is in its call, and its locals      *)
  returned,     (* history: the identifiers calls returned, by path      *)
  overlapped,   (* history: two threads were inside next_id_++ at once   *)
  moved         (* history: the directory changed under a running load   *)

vars == <<working_directory, next_id, files, path_index, reported, pc, call,
          returned, overlapped, moved>>

(* Text kept is valid UTF-8; a buffer's that was not is cleared. *)
Texts == {"utf8", "cleared"}
Kinds == {"Physical", "Memory"}
Codes == {"SourceFileNotFound", "SourceFileReadError", "SourceInvalidEncoding"}

(* A registered SourceFile; key is the path_index_ entry made for it. *)
File == [id : Nat \ {NoId}, key : Paths, path : Paths, kind : Kinds, text : Texts]

(* The locals of LoadFile, AddMemoryBuffer and AddVirtualFile: the request *)
(* until the file is read, then the SourceFile being built.                *)
Probing == [request : Requests, key : Paths]
Building == [key : Paths, path : Paths, kind : Kinds, text : Texts]
Locals == Probing \union Building \union File \union {NoFile}

Locations == {"idle", "probe", "read", "take_id", "bump_id", "insert"}

Init ==
  /\ working_directory \in Directories
  /\ next_id = 1
  /\ files = <<>>
  /\ path_index = [p \in Paths |-> NoId]
  /\ reported = {}
  /\ pc = [t \in Threads |-> "idle"]
  /\ call = [t \in Threads |-> NoFile]
  /\ returned = {}
  /\ overlapped = FALSE
  /\ moved = FALSE

-----------------------------------------------------------------------------
(* Lookups, each a shared-locked read. *)

(* ResolvePath, against the directory of the moment. *)
Resolved(r) == Canonical[working_directory][r]

(* GetFile of the last match instead of the first. *)
GetFileLast(id) ==
  LET At == {i \in DOMAIN files : files[i].id = id} IN
  IF At = {} THEN NoFile
  ELSE files[CHOOSE i \in At : \A j \in At : j <= i]

(* GetFile scans files_ in order. *)
GetFile(id) ==
  LET At == {i \in DOMAIN files : files[i].id = id} IN
  IF At = {} THEN NoFile
  ELSE files[CHOOSE i \in At : \A j \in At : i <= j]

(* The bound: calls that may still register a file leave it room. *)
Room == Len(files) + Cardinality({t \in Threads : pc[t] # "idle"}) < MaxFiles

-----------------------------------------------------------------------------
(* The steps of a call by thread t. *)

Enter(t, location, locals) ==
  /\ pc' = [pc EXCEPT ![t] = location]
  /\ call' = [call EXCEPT ![t] = locals]

Return(t, key, id) ==
  /\ Enter(t, "idle", NoFile)
  /\ returned' = returned \union {[key |-> key, id |-> id]}

(* LoadFile that resolves against a directory fixed at start-up. *)
BeginLoadFixed(t, r) ==
  /\ pc[t] = "idle" /\ Room
  /\ \E d \in Directories :
       Enter(t, "probe", [request |-> r, key |-> Canonical[d][r]])
  /\ UNCHANGED <<working_directory, next_id, files, path_index, reported,
                 returned, overlapped, moved>>

(* LoadFile: the key is computed before any lock is taken. *)
BeginLoad(t, r) ==
  /\ pc[t] = "idle" /\ Room
  /\ Enter(t, "probe", [request |-> r, key |-> Resolved(r)])
  /\ UNCHANGED <<working_directory, next_id, files, path_index, reported,
                 returned, overlapped, moved>>

(* Under the shared lock: an indexed path answers at once. *)
Probe(t) ==
  LET existing == path_index[call[t].key] IN
  /\ pc[t] = "probe"
  /\ \/ /\ existing # NoId
        /\ Return(t, call[t].key, existing)
     \/ /\ existing = NoId
        /\ Enter(t, "read", call[t])
        /\ UNCHANGED returned
  /\ UNCHANGED <<working_directory, next_id, files, path_index, reported,
                 overlapped, moved>>

(* Load that leaves the encoding to its caller. *)
ReadFileUnvalidated(t) ==
  /\ pc[t] = "read"
  /\ \E text \in Texts \union {"invalid"} :
       Enter(t, "take_id", [key |-> call[t].key, path |-> Resolved(call[t].request),
                            kind |-> "Physical", text |-> text])
  /\ UNCHANGED <<working_directory, next_id, files, path_index, reported,
                 returned, overlapped, moved>>

(* Load resolves the request again, reads the file and validates it. *)
ReadFile(t) ==
  /\ pc[t] = "read"
  /\ Enter(t, "take_id", [key |-> call[t].key, path |-> Resolved(call[t].request),
                          kind |-> "Physical", text |-> "utf8"])
  /\ UNCHANGED <<working_directory, next_id, files, path_index, reported,
                 returned, overlapped, moved>>

(* Load fails: EmitLoadError names the failure, the caller gets nullopt. *)
FailRead(t, code) ==
  /\ pc[t] = "read"
  /\ reported' = reported \union {code}
  /\ Enter(t, "idle", NoFile)
  /\ UNCHANGED <<working_directory, next_id, files, path_index,
                 returned, overlapped, moved>>

(* AddMemoryBuffer and AddVirtualFile: the name is the key as it stands,   *)
(* invalid text is reported and dropped.                                   *)
BeginBuffer(t, name, text) ==
  /\ pc[t] = "idle" /\ Room
  /\ reported' = IF text = "cleared" THEN reported \union {"SourceInvalidEncoding"}
                 ELSE reported
  /\ Enter(t, "take_id", [key |-> name, path |-> name, kind |-> "Memory", text |-> text])
  /\ UNCHANGED <<working_directory, next_id, files, path_index,
                 returned, overlapped, moved>>

WithId(t, id) ==
  [id |-> id, key |-> call[t].key, path |-> call[t].path,
   kind |-> call[t].kind, text |-> call[t].text]

(* Numbering by the files registered so far. *)
TakeIdByCount(t) ==
  /\ pc[t] = "take_id"
  /\ Enter(t, "bump_id", WithId(t, Len(files) + 1))
  /\ overlapped' = (overlapped \/ \E other \in Threads : pc[other] = "bump_id")
  /\ UNCHANGED <<working_directory, next_id, files, path_index, reported,
                 returned, moved>>

(* next_id_++ outside the lock: the load ... *)
TakeId(t) ==
  /\ pc[t] = "take_id"
  /\ Enter(t, "bump_id", WithId(t, next_id))
  /\ overlapped' = (overlapped \/ \E other \in Threads : pc[other] = "bump_id")
  /\ UNCHANGED <<working_directory, next_id, files, path_index, reported,
                 returned, moved>>

(* ... and the store. *)
BumpId(t) ==
  /\ pc[t] = "bump_id"
  /\ next_id' = call[t].id + 1
  /\ Enter(t, "insert", call[t])
  /\ UNCHANGED <<working_directory, files, path_index, reported,
                 returned, overlapped, moved>>

(* Under the unique lock: index the file, keep it, return its identifier. *)
Insert(t) ==
  /\ path_index' = [path_index EXCEPT ![call[t].key] = call[t].id]
  /\ files' = Append(files, call[t])
  /\ Return(t, call[t].key, call[t].id)

InsertBuffer(t) ==
  /\ pc[t] = "insert" /\ call[t].kind = "Memory"
  /\ Insert(t)
  /\ UNCHANGED <<working_directory, next_id, reported, overlapped, moved>>

(* LoadFile's end without the second look at path_index_. *)
InsertLoadedBlindly(t) ==
  /\ pc[t] = "insert" /\ call[t].kind = "Physical"
  /\ Insert(t)
  /\ UNCHANGED <<working_directory, next_id, reported, overlapped, moved>>

InsertLoaded(t) ==
  /\ pc[t] = "insert" /\ call[t].kind = "Physical"
  /\ path_index[call[t].key] = NoId
  /\ Insert(t)
  /\ UNCHANGED <<working_directory, next_id, reported, overlapped, moved>>

(* LoadFile's end that writes path_index_ before it looks. *)
YieldAfterIndexing(t) ==
  LET existing == path_index[call[t].key] IN
  /\ pc[t] = "insert" /\ call[t].kind = "Physical"
  /\ existing # NoId
  /\ path_index' = [path_index EXCEPT ![call[t].key] = call[t].id]
  /\ Return(t, call[t].key, existing)
  /\ UNCHANGED <<working_directory, next_id, files, reported, overlapped, moved>>

(* LoadFile's end that answers with the identifier it took for itself. *)
YieldOwnId(t) ==
  /\ pc[t] = "insert" /\ call[t].kind = "Physical"
  /\ path_index[call[t].key] # NoId
  /\ Return(t, call[t].key, call[t].id)
  /\ UNCHANGED <<working_directory, next_id, files, path_index, reported,
                 overlapped, moved>>

(* Another thread registered the path first: its identifier is returned,   *)
(* the one taken here is spent.                                            *)
YieldToExisting(t) ==
  LET existing == path_index[call[t].key] IN
  /\ pc[t] = "insert" /\ call[t].kind = "Physical"
  /\ existing # NoId
  /\ Return(t, call[t].key, existing)
  /\ UNCHANGED <<working_directory, next_id, files, path_index, reported,
                 overlapped, moved>>

(* SetWorkingDirectory locks mutex_, which resolving a path does not. *)
SetWorkingDirectory(d) ==
  /\ working_directory' = d
  /\ moved' = (moved \/ \E t \in Threads : pc[t] \in {"probe", "read"})
  /\ UNCHANGED <<next_id, files, path_index, reported, pc, call, returned, overlapped>>

Step(t) ==
  \/ \E r \in Requests : BeginLoad(t, r)
  \/ \E name \in BufferNames, text \in Texts : BeginBuffer(t, name, text)
  \/ Probe(t)
  \/ ReadFile(t)
  \/ \E code \in Codes : FailRead(t, code)
  \/ TakeId(t)
  \/ BumpId(t)
  \/ InsertBuffer(t)
  \/ InsertLoaded(t)
  \/ YieldToExisting(t)

Next ==
  \/ \E t \in Threads : Step(t)
  \/ \E d \in Directories : SetWorkingDirectory(d)

Spec == Init /\ [][Next]_vars

(* The executions in which no two threads meet inside next_id_++. *)
SerialNext == Next /\ ~ overlapped'
SerialSpec == Init /\ [][SerialNext]_vars

-----------------------------------------------------------------------------
(* TypeOK: the registry and every thread's locals stay in their types; in  *)
(* particular no text is kept that is not valid UTF-8.                     *)
TypeOK ==
  /\ working_directory \in Directories
  /\ next_id \in Nat \ {NoId}
  /\ files \in Seq(File)
  /\ path_index \in [Paths -> Nat]
  /\ reported \subseteq Codes
  /\ pc \in [Threads -> Locations]
  /\ call \in [Threads -> Locals]
  /\ \A t \in Threads :
       /\ pc[t] \in {"probe", "read"} => call[t] \in Probing
       /\ pc[t] = "take_id" => call[t] \in Building
       /\ pc[t] \in {"bump_id", "insert"} => call[t] \in File
  /\ returned \subseteq [key : Paths, id : Nat \ {NoId}]
  /\ overlapped \in BOOLEAN
  /\ moved \in BOOLEAN

(* An indexed path always leads to a file that was stored under it, though *)
(* path_index_ and files_ are written one after the other and a load may   *)
(* give up between taking its identifier and storing its file.             *)
IndexNamesStoredFiles ==
  \A p \in Paths : path_index[p] # NoId =>
    \E i \in DOMAIN files : files[i].id = path_index[p] /\ files[i].key = p

(* However many threads load a path at once, it is stored from disk once   *)
(* (the second look at path_index_ in LoadFile).                           *)
LoadedOnce ==
  \A i, j \in DOMAIN files :
    /\ files[i].kind = "Physical" /\ files[j].kind = "Physical"
    /\ files[i].key = files[j].key
    => i = j

(* Every load of a path, early or late, gets the same identifier, unless a *)
(* buffer was given that path as its name.                                 *)
RepeatedLoadsAgree ==
  \A a, b \in returned : a.key = b.key /\ a.key \notin BufferNames => a.id = b.id

(* While no two threads meet inside next_id_++ no identifier is used twice, *)
(* though it is taken long before the lock.                                 *)
UniqueUnlessOverlapped ==
  ~ overlapped => \A i, j \in DOMAIN files : files[i].id = files[j].id => i = j

(* Under the same condition an identifier a caller holds answers for the    *)
(* path it was given for, whatever was registered or raced since.           *)
HeldIdsAnswer ==
  ~ overlapped => \A r \in returned :
    GetFile(r.id) # NoFile /\ GetFile(r.id).key = r.key

(* LoadFile resolves its argument twice.  Unless the directory changes in   *)
(* between, the text stored under a path is that path's.                    *)
KeysArePaths == ~ moved => \A i \in DOMAIN files : files[i].key = files[i].path

(* An identifier answers with the same file for ever, even once two files   *)
(* share it (files_ only grows, GetFile takes the first).                   *)
StableIds ==
  [][\A i \in DOMAIN files : GetFile(files[i].id)' = GetFile(files[i].id)]_vars

(* What the identifiers are for, without the condition: an identifier a     *)
(* call returned leads to the file of that call ("Load operations take an   *)
(* exclusive lock", compiler/source/README.md).  next_id_++ is not covered. *)
IdsAnswerAlways ==
  \A r \in returned : GetFile(r.id) # NoFile /\ GetFile(r.id).key = r.key

(* The registry its callers see: the stored sources and the index.          *)
StoredSources ==
  {[id |-> files[i].id, key |-> files[i].key, kind |-> files[i].kind] : i \in DOMAIN files}

Registry == INSTANCE SourceRegistry WITH sources <- StoredSources, index <- path_index

(* Without overlap in next_id_++ the locking and the two looks at           *)
(* path_index_ implement the abstract registry.                             *)
ImplementsRegistry == Registry!Spec
=============================================================================
