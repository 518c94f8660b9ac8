------------------------ MODULE SourceManagerProofs ------------------------
(***************************************************************************)
(* What holds of the source registry for every number of threads, every    *)
(* set of paths and every length of run.                                   *)
(***************************************************************************)
EXTENDS SourceManager, WellFoundedInduction, TLAPS

LEMMA InitTypeOK == Init => TypeOK
<1> SUFFICES ASSUME Init PROVE TypeOK
  OBVIOUS
<1>1. files \in Seq(File)
  BY DEF Init
<1>2. call \in [Threads -> Locals]
  BY DEF Init, Locals
<1>3. path_index \in [Paths -> Nat] /\ next_id \in Nat \ {NoId}
  BY DEF Init, NoId
<1>. QED
  BY <1>1, <1>2, <1>3 DEF Init, TypeOK, Locations

LEMMA NextTypeOK == TypeOK /\ [Next]_vars => TypeOK'
<1> SUFFICES ASSUME TypeOK, [Next]_vars PROVE TypeOK'
  OBVIOUS
<1> USE PathAssumption
<1>1. ASSUME NEW t \in Threads, NEW r \in Requests, BeginLoad(t, r) PROVE TypeOK'
  BY <1>1 DEF BeginLoad, Enter, Resolved, TypeOK, Probing, Locals, Locations
<1>2. ASSUME NEW t \in Threads, NEW name \in BufferNames, NEW text \in Texts,
             BeginBuffer(t, name, text)
      PROVE TypeOK'
  BY <1>2 DEF BeginBuffer, Enter, TypeOK, Building, Locals, Locations, Kinds, Codes
<1>3. ASSUME NEW t \in Threads, Probe(t) PROVE TypeOK'
  <2>1. call[t] \in Probing /\ call[t].key \in Paths
    BY <1>3 DEF Probe, TypeOK, Probing
  <2>2. CASE path_index[call[t].key] = NoId
    BY <1>3, <2>1, <2>2 DEF Probe, Enter, TypeOK, Locals, Locations
  <2>3. CASE path_index[call[t].key] # NoId
    <3>1. returned' \subseteq [key : Paths, id : Nat \ {NoId}]
      BY <1>3, <2>1, <2>3 DEF Probe, Return, TypeOK
    <3>. QED
      BY <1>3, <2>3, <3>1 DEF Probe, Return, Enter, TypeOK, Locals, Locations
  <2>. QED
    BY <2>2, <2>3
<1>4. ASSUME NEW t \in Threads, ReadFile(t) PROVE TypeOK'
  <2>1. Resolved(call[t].request) \in Paths /\ call[t].key \in Paths
    BY <1>4 DEF ReadFile, Resolved, TypeOK, Probing
  <2>. DEFINE built == [key |-> call[t].key, path |-> Resolved(call[t].request),
                        kind |-> "Physical", text |-> "utf8"]
  <2>2. built \in Building
    BY <2>1 DEF Building, Kinds, Texts
  <2>. HIDE DEF built
  <2>3. pc' = [pc EXCEPT ![t] = "take_id"] /\ call' = [call EXCEPT ![t] = built]
    BY <1>4 DEF ReadFile, Enter, built
  <2>. QED
    BY <1>4, <2>2, <2>3 DEF ReadFile, TypeOK, Locals, Locations
<1>5. ASSUME NEW t \in Threads, NEW code \in Codes, FailRead(t, code) PROVE TypeOK'
  BY <1>5 DEF FailRead, Enter, TypeOK, Locals, Locations
<1>6. ASSUME NEW t \in Threads, TakeId(t) PROVE TypeOK'
  BY <1>6 DEF TakeId, Enter, WithId, TypeOK, Building, File, Locals, Locations, NoId
<1>7. ASSUME NEW t \in Threads, BumpId(t) PROVE TypeOK'
  BY <1>7 DEF BumpId, Enter, TypeOK, File, Locals, Locations, NoId
<1>8. ASSUME NEW t \in Threads, InsertBuffer(t) \/ InsertLoaded(t) PROVE TypeOK'
  <2>1. call[t] \in File
    BY <1>8 DEF InsertBuffer, InsertLoaded, TypeOK
  <2>2. call[t].key \in Paths /\ call[t].id \in Nat \ {NoId}
    BY <2>1 DEF File
  <2>3. files' \in Seq(File)
    <3>1. files' = Append(files, call[t])
      BY <1>8 DEF InsertBuffer, InsertLoaded, Insert
    <3>. QED
      BY <2>1, <3>1 DEF TypeOK
  <2>4. returned' \subseteq [key : Paths, id : Nat \ {NoId}]
    BY <1>8, <2>2 DEF InsertBuffer, InsertLoaded, Insert, Return, TypeOK
  <2>5. path_index' \in [Paths -> Nat]
    BY <1>8, <2>2 DEF InsertBuffer, InsertLoaded, Insert, TypeOK, NoId
  <2>. QED
    <3>1. /\ UNCHANGED <<working_directory, next_id, reported, overlapped, moved>>
          /\ Enter(t, "idle", NoFile)
      BY <1>8 DEF InsertBuffer, InsertLoaded, Insert, Return
    <3>2. /\ pc' \in [Threads -> Locations]
          /\ call' \in [Threads -> Locals]
      BY <3>1 DEF Enter, TypeOK, Locals, Locations
    <3>3. \A u \in Threads : pc'[u] # "idle" => pc'[u] = pc[u] /\ call'[u] = call[u]
      BY <3>1 DEF Enter, TypeOK
    <3>. QED
      BY <2>3, <2>4, <2>5, <3>1, <3>2, <3>3 DEF TypeOK
<1>9. ASSUME NEW t \in Threads, YieldToExisting(t) PROVE TypeOK'
  BY <1>9 DEF YieldToExisting, Return, Enter, TypeOK, File, Locals, Locations, NoId
<1>10. ASSUME NEW d \in Directories, SetWorkingDirectory(d) PROVE TypeOK'
  BY <1>10 DEF SetWorkingDirectory, TypeOK
<1>11. CASE UNCHANGED vars
  BY <1>11 DEF vars, TypeOK
<1>. QED
  BY <1>1, <1>2, <1>3, <1>4, <1>5, <1>6, <1>7, <1>8, <1>9, <1>10, <1>11 DEF Next, Step

(* TypeOK holds in every reachable state. *)
THEOREM TypeCorrect == Spec => []TypeOK
  BY InitTypeOK, NextTypeOK, PTL DEF Spec

-----------------------------------------------------------------------------
(* The stored files, the index and the answers given. *)

IsStored(id, key) == \E i \in DOMAIN files : files[i].id = id /\ files[i].key = key

StoredAreIndexed == \A i \in DOMAIN files : path_index[files[i].key] # NoId

BuffersNamed ==
  \A t \in Threads :
    pc[t] \in {"take_id", "bump_id", "insert"} /\ call[t].kind = "Memory"
    => call[t].key \in BufferNames

HeldStored ==
  \A r \in returned :
    /\ IsStored(r.id, r.key)
    /\ r.key \notin BufferNames => r.id = path_index[r.key]

RegistryInv ==
  /\ TypeOK
  /\ IndexNamesStoredFiles
  /\ StoredAreIndexed
  /\ LoadedOnce
  /\ BuffersNamed
  /\ HeldStored

(* A step either leaves the registry alone, at most answering with what the *)
(* index holds, or stores the file its thread has built.                    *)
Answers ==
  \/ returned' = returned
  \/ \E p \in Paths : /\ path_index[p] # NoId
                      /\ returned' = returned \union {[key |-> p, id |-> path_index[p]]}

Stores(t) ==
  /\ pc[t] = "insert"
  /\ call[t].kind = "Physical" => path_index[call[t].key] = NoId
  /\ call[t] \in File
  /\ Insert(t)
  /\ UNCHANGED <<next_id, overlapped, moved, working_directory>>

LEMMA StepShape ==
  ASSUME TypeOK, [Next]_vars
  PROVE  \/ UNCHANGED <<files, path_index>> /\ Answers
         \/ \E t \in Threads : Stores(t)
<1>1. ASSUME NEW t \in Threads, Probe(t) \/ YieldToExisting(t)
      PROVE  UNCHANGED <<files, path_index>> /\ Answers
  <2>1. call[t].key \in Paths
    BY <1>1 DEF Probe, YieldToExisting, TypeOK, Probing, File
  <2>. QED
    BY <1>1, <2>1 DEF Probe, YieldToExisting, Return, Answers
<1>2. ASSUME NEW t \in Threads, InsertBuffer(t) \/ InsertLoaded(t)
      PROVE  Stores(t)
  BY <1>2 DEF InsertBuffer, InsertLoaded, Stores, TypeOK
<1>3. ASSUME NEW t \in Threads, NEW r \in Requests, BeginLoad(t, r)
      PROVE  UNCHANGED <<files, path_index, returned>>
  BY <1>3 DEF BeginLoad
<1>4. ASSUME NEW t \in Threads, NEW name \in BufferNames, NEW text \in Texts,
             BeginBuffer(t, name, text)
      PROVE  UNCHANGED <<files, path_index, returned>>
  BY <1>4 DEF BeginBuffer
<1>5. ASSUME NEW t \in Threads, ReadFile(t) \/ TakeId(t) \/ BumpId(t)
      PROVE  UNCHANGED <<files, path_index, returned>>
  BY <1>5 DEF ReadFile, TakeId, BumpId
<1>6. ASSUME NEW t \in Threads, NEW code \in Codes, FailRead(t, code)
      PROVE  UNCHANGED <<files, path_index, returned>>
  BY <1>6 DEF FailRead
<1>7. ASSUME NEW d \in Directories, SetWorkingDirectory(d)
      PROVE  UNCHANGED <<files, path_index, returned>>
  BY <1>7 DEF SetWorkingDirectory
<1>8. CASE UNCHANGED vars
  BY <1>8 DEF vars, Answers
<1>. QED
  BY <1>1, <1>2, <1>3, <1>4, <1>5, <1>6, <1>7, <1>8 DEF Next, Step, Answers

(* What storing a file does to the sequence, position by position. *)
LEMMA StoresAppends ==
  ASSUME TypeOK, NEW t \in Threads, Stores(t)
  PROVE  /\ files' = Append(files, call[t])
         /\ Len(files') = Len(files) + 1
         /\ DOMAIN files = 1..Len(files) /\ DOMAIN files' = 1..Len(files')
         /\ \A i \in DOMAIN files : files'[i] = files[i]
         /\ files'[Len(files')] = call[t]
         /\ Len(files) \in Nat
         /\ call[t].key \in Paths /\ call[t].id \in Nat \ {NoId}
         /\ path_index' = [path_index EXCEPT ![call[t].key] = call[t].id]
         /\ returned' = returned \union {[key |-> call[t].key, id |-> call[t].id]}
<1>1. files \in Seq(File) /\ call[t] \in File
  BY DEF TypeOK, Stores
<1>2. files' = Append(files, call[t])
  BY DEF Stores, Insert
<1>3. call[t].key \in Paths /\ call[t].id \in Nat \ {NoId}
  BY <1>1 DEF File
<1>. QED
  BY <1>1, <1>2, <1>3 DEF Stores, Insert, Return

LEMMA NextBuffersNamed == TypeOK /\ BuffersNamed /\ [Next]_vars => BuffersNamed'
<1> SUFFICES ASSUME TypeOK, BuffersNamed, [Next]_vars PROVE BuffersNamed'
  OBVIOUS
<1>1. ASSUME NEW t \in Threads, NEW r \in Requests, BeginLoad(t, r) PROVE BuffersNamed'
  BY <1>1 DEF BeginLoad, Enter, TypeOK, BuffersNamed
<1>2. ASSUME NEW t \in Threads, NEW name \in BufferNames, NEW text \in Texts,
             BeginBuffer(t, name, text)
      PROVE BuffersNamed'
  BY <1>2 DEF BeginBuffer, Enter, TypeOK, BuffersNamed
<1>3. ASSUME NEW t \in Threads, ReadFile(t) PROVE BuffersNamed'
  BY <1>3 DEF ReadFile, Enter, TypeOK, BuffersNamed
<1>4. ASSUME NEW t \in Threads, TakeId(t) PROVE BuffersNamed'
  BY <1>4 DEF TakeId, Enter, WithId, TypeOK, BuffersNamed
<1>5. ASSUME NEW t \in Threads, BumpId(t) PROVE BuffersNamed'
  BY <1>5 DEF BumpId, Enter, TypeOK, BuffersNamed
<1>6. ASSUME NEW t \in Threads,
             \/ Probe(t) \/ \E code \in Codes : FailRead(t, code)
             \/ InsertBuffer(t) \/ InsertLoaded(t) \/ YieldToExisting(t)
      PROVE BuffersNamed'
  BY <1>6 DEF Probe, FailRead, InsertBuffer, InsertLoaded, YieldToExisting, Insert,
              Return, Enter, TypeOK, BuffersNamed
<1>7. ASSUME NEW d \in Directories, SetWorkingDirectory(d) PROVE BuffersNamed'
  BY <1>7 DEF SetWorkingDirectory, BuffersNamed
<1>8. CASE UNCHANGED vars
  BY <1>8 DEF vars, BuffersNamed
<1>. QED
  BY <1>1, <1>2, <1>3, <1>4, <1>5, <1>6, <1>7, <1>8 DEF Next, Step

LEMMA InitRegistryInv == Init => RegistryInv
  BY InitTypeOK
     DEF Init, RegistryInv, IndexNamesStoredFiles, StoredAreIndexed, LoadedOnce,
         BuffersNamed, HeldStored, NoId

LEMMA NextRegistryInv == RegistryInv /\ [Next]_vars => RegistryInv'
<1> SUFFICES ASSUME RegistryInv, [Next]_vars PROVE RegistryInv'
  OBVIOUS
<1>1. TypeOK' /\ BuffersNamed'
  BY NextTypeOK, NextBuffersNamed DEF RegistryInv
<1>2. CASE UNCHANGED <<files, path_index>> /\ Answers
  <2>1. IndexNamesStoredFiles' /\ StoredAreIndexed' /\ LoadedOnce'
    BY <1>2 DEF RegistryInv, IndexNamesStoredFiles, StoredAreIndexed, LoadedOnce
  <2>2. HeldStored'
    <3>1. \A p \in Paths : path_index[p] # NoId => IsStored(path_index[p], p)
      BY DEF RegistryInv, IndexNamesStoredFiles, IsStored
    <3>2. \A id, key : IsStored(id, key)' <=> IsStored(id, key)
      BY <1>2 DEF IsStored
    <3>. QED
      BY <1>2, <3>1, <3>2 DEF RegistryInv, HeldStored, Answers
  <2>. QED
    BY <1>1, <2>1, <2>2 DEF RegistryInv
<1>3. ASSUME NEW t \in Threads, Stores(t) PROVE RegistryInv'
  <2>. PICK key, id, n : key = call[t].key /\ id = call[t].id /\ n = Len(files)
    OBVIOUS
  <2>1. /\ n \in Nat /\ Len(files') = n + 1
        /\ DOMAIN files = 1..n /\ DOMAIN files' = 1..(n + 1)
        /\ \A i \in 1..n : files'[i] = files[i]
        /\ files'[n + 1] = call[t]
        /\ key \in Paths /\ id \in Nat \ {NoId}
        /\ path_index' = [path_index EXCEPT ![key] = id]
        /\ returned' = returned \union {[key |-> key, id |-> id]}
    BY <1>3, StoresAppends DEF RegistryInv
  <2>2. path_index \in [Paths -> Nat] /\ \A i \in 1..n : files[i] \in File
    BY <2>1 DEF RegistryInv, TypeOK
  <2>3. \A i \in 1..n : files[i].key \in Paths
    BY <2>2 DEF File
  <2>4. \A i, k : IsStored(i, k) => IsStored(i, k)'
    BY <2>1 DEF IsStored
  <2>5. IsStored(id, key)'
    BY <2>1 DEF IsStored
  <2>6. IndexNamesStoredFiles'
    <3>1. \A p \in Paths : path_index[p] # NoId => IsStored(path_index[p], p)
      BY DEF RegistryInv, IndexNamesStoredFiles, IsStored
    <3>2. \A p \in Paths : path_index'[p] = IF p = key THEN id ELSE path_index[p]
      BY <2>1, <2>2
    <3>3. ASSUME NEW p \in Paths, NEW k, k = path_index'[p], k # NoId
          PROVE  IsStored(k, p)'
      BY <3>1, <3>2, <3>3, <2>4, <2>5
    <3>. QED
      BY <3>3 DEF IndexNamesStoredFiles, IsStored
  <2>7. StoredAreIndexed'
    <3>1. \A i \in 1..n : path_index[files[i].key] # NoId
      BY <2>1 DEF RegistryInv, StoredAreIndexed
    <3>. QED
      BY <3>1, <2>1, <2>2, <2>3 DEF StoredAreIndexed
  <2>8. LoadedOnce'
    <3>1. call[t].kind = "Physical" => \A i \in 1..n : files[i].key # key
      BY <1>3, <2>1 DEF Stores, RegistryInv, StoredAreIndexed
    <3>. QED
      BY <3>1, <2>1 DEF RegistryInv, LoadedOnce
  <2>9. HeldStored'
    <3>1. key \in BufferNames \/ path_index[key] = NoId
      <4>1. call[t].kind \in {"Physical", "Memory"}
        BY <1>3 DEF Stores, File, Kinds
      <4>. QED
        BY <1>3, <4>1 DEF Stores, RegistryInv, BuffersNamed
    <3>2. ASSUME NEW r \in returned
          PROVE  IsStored(r.id, r.key)'
                 /\ (r.key \notin BufferNames => r.id = path_index'[r.key])
      <4>1. r.key \in Paths /\ r.id # NoId
        BY DEF RegistryInv, TypeOK
      <4>. QED
        BY <2>1, <2>2, <2>4, <3>1, <4>1 DEF RegistryInv, HeldStored
    <3>3. path_index'[key] = id
      BY <2>1, <2>2
    <3>. QED
      BY <2>1, <2>5, <3>2, <3>3 DEF HeldStored
  <2>. QED
    BY <1>1, <2>6, <2>7, <2>8, <2>9 DEF RegistryInv
<1>. QED
  BY <1>2, <1>3, StepShape DEF RegistryInv

THEOREM RegistryInvariance == Spec => []RegistryInv
  BY InitRegistryInv, NextRegistryInv, PTL DEF Spec

(* Every indexed path leads to a stored file of that path. *)
THEOREM IndexSound == Spec => []IndexNamesStoredFiles
<1>1. RegistryInv => IndexNamesStoredFiles
  BY DEF RegistryInv
<1>. QED
  BY <1>1, RegistryInvariance, PTL

(* A path is stored from disk once, however many threads load it. *)
THEOREM LoadsDeduplicated == Spec => []LoadedOnce
<1>1. RegistryInv => LoadedOnce
  BY DEF RegistryInv
<1>. QED
  BY <1>1, RegistryInvariance, PTL

(* All loads of a path that no buffer is named after get one identifier. *)
THEOREM LoadsAgree == Spec => []RepeatedLoadsAgree
<1>1. RegistryInv => RepeatedLoadsAgree
  BY DEF RegistryInv, HeldStored, RepeatedLoadsAgree
<1>. QED
  BY <1>1, RegistryInvariance, PTL

-----------------------------------------------------------------------------
(* The identifiers, while no two threads have met inside next_id_++. *)

StoredBelow == \A i \in DOMAIN files : files[i].id < next_id
BumpsNext == \A t \in Threads : pc[t] = "bump_id" => call[t].id = next_id
OneBumps == \A t, u \in Threads : pc[t] = "bump_id" /\ pc[u] = "bump_id" => t = u
TakenBelow ==
  \A t \in Threads : pc[t] = "insert" =>
    /\ call[t].id < next_id
    /\ \A i \in DOMAIN files : files[i].id # call[t].id
TakenDiffer ==
  \A t, u \in Threads :
    pc[t] = "insert" /\ pc[u] = "insert" /\ call[t].id = call[u].id => t = u
StoredDiffer == \A i, j \in DOMAIN files : files[i].id = files[j].id => i = j

FreshIds ==
  /\ StoredBelow
  /\ BumpsNext
  /\ OneBumps
  /\ TakenBelow
  /\ TakenDiffer
  /\ StoredDiffer

IdsInv == ~ overlapped => FreshIds

LEMMA InitIdsInv == Init => IdsInv
  BY DEF Init, IdsInv, FreshIds, StoredBelow, BumpsNext, OneBumps, TakenBelow,
         TakenDiffer, StoredDiffer

LEMMA NextIdsInv == TypeOK /\ IdsInv /\ [Next]_vars => IdsInv'
<1> SUFFICES ASSUME TypeOK, IdsInv, [Next]_vars, ~ overlapped' PROVE FreshIds'
  BY DEF IdsInv
<1> USE DEF FreshIds, StoredBelow, BumpsNext, OneBumps, TakenBelow, TakenDiffer,
            StoredDiffer
<1>1. ASSUME NEW t \in Threads, TakeId(t) PROVE FreshIds'
  <2>1. FreshIds /\ \A u \in Threads : pc[u] # "bump_id"
    BY <1>1 DEF TakeId, IdsInv
  <2>2. /\ UNCHANGED <<files, next_id>>
        /\ pc' = [pc EXCEPT ![t] = "bump_id"]
        /\ call'[t].id = next_id
        /\ \A u \in Threads : u # t => call'[u] = call[u]
    BY <1>1 DEF TakeId, Enter, WithId, TypeOK
  <2>. QED
    BY <2>1, <2>2 DEF TypeOK
<1>2. ASSUME NEW t \in Threads, BumpId(t) PROVE FreshIds'
  <2>1. FreshIds /\ call[t].id = next_id /\ next_id \in Nat
    BY <1>2 DEF BumpId, IdsInv, TypeOK
  <2>2. /\ UNCHANGED <<files, call>>
        /\ next_id' = next_id + 1
        /\ pc[t] = "bump_id"
        /\ pc' = [pc EXCEPT ![t] = "insert"]
    BY <1>2, <2>1 DEF BumpId, Enter, TypeOK
  <2>3. \A i \in DOMAIN files : files[i].id \in Nat
    <3>1. \A i \in DOMAIN files : files[i] \in File
      BY DEF TypeOK
    <3>. QED
      BY <3>1 DEF File
  <2>4. \A u \in Threads : pc[u] = "insert" => call[u].id \in Nat
    BY DEF TypeOK, File
  <2>. QED
    BY <2>1, <2>2, <2>3, <2>4 DEF TypeOK
<1>3. ASSUME NEW t \in Threads, Stores(t) PROVE FreshIds'
  <2>1. FreshIds
    BY <1>3 DEF Stores, IdsInv
  <2>2. /\ UNCHANGED next_id
        /\ pc[t] = "insert"
        /\ pc' = [pc EXCEPT ![t] = "idle"]
        /\ call' = [call EXCEPT ![t] = NoFile]
    BY <1>3 DEF Stores, Insert, Return, Enter
  <2>3. PICK n : n = Len(files)
    OBVIOUS
  <2>4. /\ n \in Nat
        /\ DOMAIN files = 1..n /\ DOMAIN files' = 1..(n + 1)
        /\ \A i \in 1..n : files'[i] = files[i]
        /\ files'[n + 1] = call[t]
    BY <1>3, <2>3, StoresAppends
  <2>5. \A u \in Threads : pc'[u] # "idle" => u # t /\ pc'[u] = pc[u] /\ call'[u] = call[u]
    BY <2>2 DEF TypeOK
  <2>6. StoredBelow' /\ BumpsNext' /\ OneBumps' /\ TakenDiffer'
    BY <2>1, <2>2, <2>4, <2>5
  <2>7. TakenBelow'
    BY <2>1, <2>2, <2>4, <2>5
  <2>8. StoredDiffer'
    BY <2>1, <2>2, <2>4
  <2>. QED
    BY <2>6, <2>7, <2>8
<1>4. ASSUME UNCHANGED <<files, next_id>>,
             \A u \in Threads : pc'[u] \in {"bump_id", "insert"} =>
                                 pc'[u] = pc[u] /\ call'[u] = call[u],
             overlapped' = overlapped
      PROVE  FreshIds'
  <2>1. FreshIds
    BY <1>4 DEF IdsInv
  <2>. QED
    BY <1>4, <2>1
<1>5. ASSUME NEW t \in Threads,
             \/ \E r \in Requests : BeginLoad(t, r)
             \/ \E name \in BufferNames, text \in Texts : BeginBuffer(t, name, text)
             \/ Probe(t) \/ ReadFile(t) \/ \E code \in Codes : FailRead(t, code)
             \/ YieldToExisting(t)
      PROVE  FreshIds'
  <2>1. UNCHANGED <<files, next_id, overlapped>>
    BY <1>5 DEF BeginLoad, BeginBuffer, Probe, ReadFile, FailRead, YieldToExisting
  <2>2. pc'[t] \notin {"bump_id", "insert"}
    BY <1>5 DEF BeginLoad, BeginBuffer, Probe, ReadFile, FailRead, YieldToExisting,
                Return, Enter, TypeOK
  <2>3. \A u \in Threads : u # t => pc'[u] = pc[u] /\ call'[u] = call[u]
    BY <1>5 DEF BeginLoad, BeginBuffer, Probe, ReadFile, FailRead, YieldToExisting,
                Return, Enter, TypeOK
  <2>. QED
    BY <1>4, <2>1, <2>2, <2>3
<1>6. ASSUME NEW d \in Directories, SetWorkingDirectory(d) PROVE FreshIds'
  BY <1>4, <1>6 DEF SetWorkingDirectory
<1>7. CASE UNCHANGED vars
  BY <1>4, <1>7 DEF vars
<1>8. ASSUME NEW t \in Threads, InsertBuffer(t) \/ InsertLoaded(t) PROVE Stores(t)
  BY <1>8 DEF InsertBuffer, InsertLoaded, Stores, TypeOK
<1>. QED
  BY <1>1, <1>2, <1>3, <1>5, <1>6, <1>7, <1>8 DEF Next, Step

SourceInv == RegistryInv /\ IdsInv

THEOREM Invariance == Spec => []SourceInv
<1>1. Init => SourceInv
  BY InitRegistryInv, InitIdsInv DEF SourceInv
<1>2. SourceInv /\ [Next]_vars => SourceInv'
  BY NextRegistryInv, NextIdsInv DEF SourceInv, RegistryInv
<1>. QED
  BY <1>1, <1>2, PTL DEF Spec

(* Without overlap in next_id_++ no two stored files share an identifier. *)
THEOREM IdsUnique == Spec => []UniqueUnlessOverlapped
<1>1. SourceInv => UniqueUnlessOverlapped
  BY DEF SourceInv, IdsInv, FreshIds, StoredDiffer, UniqueUnlessOverlapped
<1>. QED
  BY <1>1, Invariance, PTL

-----------------------------------------------------------------------------
(* GetFile. *)

(* A non-empty set of positions has a first one. *)
LEMMA FirstExists ==
  ASSUME NEW S \in SUBSET Nat, S # {}
  PROVE  \E x \in S : \A y \in S : x <= y
<1>1. IsWellFoundedOn(OpToRel(<, Nat), Nat)
  BY NatLessThanWellFounded
<1>2. PICK x \in S : \A y \in S : ~ (<<y, x>> \in OpToRel(<, Nat))
  BY <1>1, WFMin, Zenon
<1>3. \A y \in S : ~ (y < x)
  BY <1>2 DEF OpToRel
<1>. QED
  BY <1>3

(* GetFile answers with the first file of that identifier. *)
FirstAnswers ==
  \A i \in DOMAIN files :
    \E k \in DOMAIN files :
      /\ k <= i
      /\ files[k].id = files[i].id
      /\ \A j \in DOMAIN files : files[j].id = files[i].id => k <= j
      /\ GetFile(files[i].id) = files[k]

LEMMA GetFileFirst == TypeOK => FirstAnswers
<1> SUFFICES ASSUME TypeOK, NEW i \in DOMAIN files
             PROVE  \E k \in DOMAIN files :
                      /\ k <= i
                      /\ files[k].id = files[i].id
                      /\ \A j \in DOMAIN files : files[j].id = files[i].id => k <= j
                      /\ GetFile(files[i].id) = files[k]
  BY DEF FirstAnswers
<1>. DEFINE At == {j \in DOMAIN files : files[j].id = files[i].id}
<1>1. At \in SUBSET Nat /\ i \in At
  BY DEF TypeOK
<1>2. \E x \in At : \A y \in At : x <= y
  BY <1>1, FirstExists
<1>3. PICK k : k = CHOOSE x \in At : \A y \in At : x <= y
  OBVIOUS
<1>4. k \in At /\ \A y \in At : k <= y
  BY <1>2, <1>3
<1>5. GetFile(files[i].id) = files[k]
  BY <1>1, <1>3 DEF GetFile
<1>. QED
  BY <1>1, <1>4, <1>5

(* An identifier a caller holds answers for the path it was given for. *)
THEOREM HeldIdsResolve == Spec => []HeldIdsAnswer
<1>1. ASSUME SourceInv PROVE HeldIdsAnswer
  <2> SUFFICES ASSUME ~ overlapped, NEW r \in returned
               PROVE  GetFile(r.id) # NoFile /\ GetFile(r.id).key = r.key
    BY DEF HeldIdsAnswer
  <2>1. PICK i \in DOMAIN files : files[i].id = r.id /\ files[i].key = r.key
    BY <1>1 DEF SourceInv, RegistryInv, HeldStored, IsStored
  <2>2. PICK k \in DOMAIN files : files[k].id = r.id /\ GetFile(r.id) = files[k]
    BY <1>1, <2>1, GetFileFirst DEF SourceInv, RegistryInv, FirstAnswers
  <2>3. k = i
    BY <1>1, <2>1, <2>2 DEF SourceInv, IdsInv, FreshIds, StoredDiffer
  <2>4. r.id # NoId
    BY <1>1 DEF SourceInv, RegistryInv, TypeOK
  <2>. QED
    BY <2>1, <2>2, <2>3, <2>4 DEF NoFile
<1>. QED
  BY <1>1, Invariance, PTL

(* An identifier answers with the same file for ever. *)
THEOREM IdsStable == Spec => StableIds
<1>0. TypeOK' => FirstAnswers'
  BY GetFileFirst, PTL
<1>1. ASSUME TypeOK, TypeOK', [Next]_vars, NEW i \in DOMAIN files
      PROVE  GetFile(files[i].id)' = GetFile(files[i].id)
  <2>1. CASE UNCHANGED <<files, path_index>> /\ Answers
    BY <2>1 DEF GetFile
  <2>2. ASSUME NEW t \in Threads, Stores(t)
        PROVE  GetFile(files[i].id)' = GetFile(files[i].id)
    <3>1. PICK n : n = Len(files)
      OBVIOUS
    <3>2. /\ n \in Nat
          /\ DOMAIN files = 1..n /\ DOMAIN files' = 1..(n + 1)
          /\ \A j \in 1..n : files'[j] = files[j]
      BY <2>2, <3>1, <1>1, StoresAppends
    <3>3. PICK k \in 1..n :
            /\ files[k].id = files[i].id
            /\ \A j \in 1..n : files[j].id = files[i].id => k <= j
            /\ GetFile(files[i].id) = files[k]
      BY <1>1, <3>2, GetFileFirst DEF FirstAnswers
    <3>4. PICK l \in 1..(n + 1) :
            /\ l <= i
            /\ files'[l].id = files'[i].id
            /\ \A j \in 1..(n + 1) : files'[j].id = files'[i].id => l <= j
            /\ GetFile(files[i].id)' = files'[l]
      BY <1>0, <1>1, <3>2 DEF FirstAnswers
    <3>5. l = k
      BY <1>1, <3>2, <3>3, <3>4
    <3>. QED
      BY <3>2, <3>3, <3>4, <3>5
  <2>. QED
    BY <1>1, <2>1, <2>2, StepShape
<1>2. TypeOK /\ TypeOK' /\ [Next]_vars =>
        [\A i \in DOMAIN files : GetFile(files[i].id)' = GetFile(files[i].id)]_vars
  BY <1>1
<1>. QED
  BY <1>2, TypeCorrect, PTL DEF Spec, StableIds

-----------------------------------------------------------------------------
(* Paths. *)

PathsInv ==
  ~ moved =>
    /\ \A t \in Threads : pc[t] \in {"probe", "read"} =>
         call[t].key = Resolved(call[t].request)
    /\ \A t \in Threads : pc[t] \in {"take_id", "bump_id", "insert"} =>
         call[t].key = call[t].path
    /\ KeysArePaths

LEMMA NextPathsInv == TypeOK /\ PathsInv /\ [Next]_vars => PathsInv'
<1> SUFFICES ASSUME TypeOK, PathsInv, [Next]_vars PROVE PathsInv'
  OBVIOUS
<1> USE DEF PathsInv, KeysArePaths, Resolved
<1>1. ASSUME NEW t \in Threads, Stores(t) PROVE PathsInv'
  <2>1. PICK n : n = Len(files)
    OBVIOUS
  <2>2. /\ n \in Nat
        /\ DOMAIN files = 1..n /\ DOMAIN files' = 1..(n + 1)
        /\ \A i \in 1..n : files'[i] = files[i]
        /\ files'[n + 1] = call[t]
    BY <1>1, <2>1, StoresAppends
  <2>3. /\ UNCHANGED <<moved, working_directory>>
        /\ pc[t] = "insert"
        /\ pc' = [pc EXCEPT ![t] = "idle"]
        /\ \A u \in Threads : u # t => call'[u] = call[u]
    BY <1>1 DEF Stores, Insert, Return, Enter, TypeOK
  <2>. QED
    BY <2>2, <2>3 DEF TypeOK
<1>2. ASSUME NEW t \in Threads, InsertBuffer(t) \/ InsertLoaded(t) PROVE Stores(t)
  BY <1>2 DEF InsertBuffer, InsertLoaded, Stores, TypeOK
<1>3. ASSUME NEW t \in Threads, NEW r \in Requests, BeginLoad(t, r) PROVE PathsInv'
  BY <1>3 DEF BeginLoad, Enter, TypeOK
<1>4. ASSUME NEW t \in Threads, NEW name \in BufferNames, NEW text \in Texts,
             BeginBuffer(t, name, text)
      PROVE  PathsInv'
  BY <1>4 DEF BeginBuffer, Enter, TypeOK
<1>5. ASSUME NEW t \in Threads, Probe(t) \/ YieldToExisting(t) PROVE PathsInv'
  BY <1>5 DEF Probe, YieldToExisting, Return, Enter, TypeOK
<1>6. ASSUME NEW t \in Threads, ReadFile(t) PROVE PathsInv'
  BY <1>6 DEF ReadFile, Enter, TypeOK
<1>7. ASSUME NEW t \in Threads, NEW code \in Codes, FailRead(t, code) PROVE PathsInv'
  BY <1>7 DEF FailRead, Enter, TypeOK
<1>8. ASSUME NEW t \in Threads, TakeId(t) PROVE PathsInv'
  BY <1>8 DEF TakeId, Enter, WithId, TypeOK
<1>9. ASSUME NEW t \in Threads, BumpId(t) PROVE PathsInv'
  BY <1>9 DEF BumpId, Enter, TypeOK
<1>10. ASSUME NEW d \in Directories, SetWorkingDirectory(d) PROVE PathsInv'
  BY <1>10 DEF SetWorkingDirectory
<1>11. CASE UNCHANGED vars
  BY <1>11 DEF vars
<1>. QED
  BY <1>1, <1>2, <1>3, <1>4, <1>5, <1>6, <1>7, <1>8, <1>9, <1>10, <1>11 DEF Next, Step

(* Unless the directory changes under a load, text is stored under its path. *)
THEOREM PathsHonest == Spec => []KeysArePaths
<1>1. Init => TypeOK /\ PathsInv
  BY InitTypeOK DEF Init, PathsInv, KeysArePaths
<1>2. TypeOK /\ PathsInv /\ [Next]_vars => (TypeOK /\ PathsInv)'
  BY NextTypeOK, NextPathsInv
<1>3. TypeOK /\ PathsInv => KeysArePaths
  BY DEF PathsInv, KeysArePaths
<1>. QED
  BY <1>1, <1>2, <1>3, PTL DEF Spec

-----------------------------------------------------------------------------
(* The refinement. *)

LEMMA InitRefines == Init => Registry!Init
  BY DEF Init, Registry!Init, StoredSources, NoId, Registry!NoId

(* Storing a file registers a source under an identifier of its own; every *)
(* other step leaves the abstract registry alone.                           *)
LEMMA StepRefines ==
  ASSUME SourceInv, [Next]_vars, ~ overlapped
  PROVE  [Registry!Next]_<<StoredSources, path_index>>
<1>1. CASE UNCHANGED <<files, path_index>> /\ Answers
  BY <1>1 DEF StoredSources
<1>2. ASSUME NEW t \in Threads, Stores(t) PROVE Registry!Next
  <2>1. PICK n, f : n = Len(files) /\ f = call[t]
    OBVIOUS
  <2>2. PICK s : s = [id |-> f.id, key |-> f.key, kind |-> f.kind]
    OBVIOUS
  <2>3. /\ n \in Nat
        /\ DOMAIN files = 1..n /\ DOMAIN files' = 1..(n + 1)
        /\ \A i \in 1..n : files'[i] = files[i]
        /\ files'[n + 1] = f
        /\ path_index' = [path_index EXCEPT ![f.key] = f.id]
    BY <1>2, <2>1, StoresAppends DEF SourceInv, RegistryInv
  <2>4. StoredSources' = StoredSources \union {s}
    BY <2>2, <2>3 DEF StoredSources
  <2>5. \A i \in 1..n : files[i].id # f.id
    BY <1>2, <2>1, <2>3 DEF Stores, SourceInv, IdsInv, FreshIds, TakenBelow
  <2>6. \A other \in StoredSources : other.id # s.id
    BY <2>2, <2>3, <2>5 DEF StoredSources
  <2>7. f \in File
    BY <1>2, <2>1 DEF Stores
  <2>8. s \in Registry!Source /\ s.kind \in {"Physical", "Memory"}
    BY <2>2, <2>7 DEF Registry!Source, File, Kinds, NoId, Registry!NoId
  <2>9. Registry!Register(s)
    BY <2>2, <2>3, <2>4, <2>6, <2>8 DEF Registry!Register
  <2>10. s.kind = "Physical" => path_index[s.key] = Registry!NoId
    BY <1>2, <2>1, <2>2 DEF Stores, NoId, Registry!NoId
  <2>11. s.kind = "Memory" => s.key \in BufferNames
    BY <1>2, <2>1, <2>2 DEF Stores, SourceInv, RegistryInv, BuffersNamed
  <2>12. s \in StoredSources' \ StoredSources
    BY <2>4, <2>6
  <2>. QED
    BY <2>8, <2>9, <2>10, <2>11, <2>12
       DEF Registry!Next, Registry!RegisterPhysical, Registry!RegisterMemory
<1>. QED
  BY <1>1, <1>2, StepShape DEF SourceInv, RegistryInv

(* Without overlap in next_id_++ the threaded manager is the registry. *)
THEOREM RegistryImplemented == SerialSpec => ImplementsRegistry
<1>1. Init => SourceInv /\ ~ overlapped
  BY InitRegistryInv, InitIdsInv DEF SourceInv, Init
<1>2. SourceInv /\ ~ overlapped /\ [SerialNext]_vars => (SourceInv /\ ~ overlapped)'
  BY NextRegistryInv, NextIdsInv DEF SourceInv, RegistryInv, SerialNext, vars
<1>3. SourceInv /\ ~ overlapped /\ [SerialNext]_vars =>
        [Registry!Next]_<<StoredSources, path_index>>
  BY StepRefines DEF SerialNext
<1>. QED
  BY <1>1, <1>2, <1>3, InitRefines, PTL
     DEF SerialSpec, ImplementsRegistry, Registry!Spec
=============================================================================
