------------------------------ MODULE AppRegistry ------------------------------
(***************************************************************************)
(* AppRegistry (fasm-engine/src/admin/registry.rs): the namespaces and the *)
(* manifests of their applications, in memory behind an RwLock, and on     *)
(* disk one directory per namespace and application with a manifest and    *)
(* the uploaded files.                                                     *)
(*                                                                         *)
(* What a method does under the write lock is one action; what it does     *)
(* before it takes the lock (create_namespace's mkdir, store_file's write) *)
(* is an action of its own.  The parameter ok of an action is whether the  *)
(* method goes on, or returns Ok.  The disk may fail at any operation, at  *)
(* most once (disk_ok); remove_dir_all, whose failures the code ignores,   *)
(* may then leave any part of the directory behind.  The rename of a       *)
(* manifest is atomic and its temporary file is never read, so persisting  *)
(* a manifest happens or does not.                                         *)
(***************************************************************************)
EXTENDS Integers, Sequences, FiniteSets, Positions

CONSTANTS
  Namespaces,
  Apps,         \* pairs <<namespace, name>>
  Files,        \* file names
  Records,      \* RouteRecord: records with at least the fields id and file
  DiskFails,    \* whether the disk may fail
  NoApp         \* stands for an absent manifest

VARIABLES
  namespaces,   \* memory: the keys of RegistryInner.namespaces
  apps,         \* memory: the manifest of each application
  dirs,         \* disk: the directories of namespaces and applications
  manifests,    \* disk: the manifest.json of each application
  blobs,        \* disk: what each application's files contain
  disk_ok       \* history: no disk operation has failed

vars == <<namespaces, apps, dirs, manifests, blobs, disk_ok>>
memory == <<namespaces, apps>>
disk == <<dirs, manifests, blobs, disk_ok>>

Manifests == [files : SUBSET Files, routes : Seq(Records)]
EmptyManifest == [files |-> {}, routes |-> <<>>]

\* What is assumed of the constants, by the modules that instantiate this one.
RegistryAssumption ==
  /\ \A a \in Apps : a[1] \in Namespaces
  /\ \A r \in Records : r.file \in Files
  /\ NoApp \notin Manifests
  /\ DiskFails \in BOOLEAN

\* A file is missing, source, bytecode, or what a broken write left.
Contents == {"missing", "source", "bytecode", "torn"}
NoBlobs == [f \in Files |-> "missing"]

Init ==
  /\ namespaces = {}
  /\ apps = [a \in Apps |-> NoApp]
  /\ dirs = {}
  /\ manifests = [a \in Apps |-> NoApp]
  /\ blobs = [a \in Apps |-> NoBlobs]
  /\ disk_ok = TRUE

DiskFault == DiskFails /\ disk_ok /\ disk_ok' = FALSE
DiskWorks == disk_ok' = disk_ok

-----------------------------------------------------------------------------
\* create_namespace before its lock: create_dir_all, which may find the
\* directory in place.
MakeNamespaceDir(n, ok) ==
  /\ IF ok THEN DiskWorks /\ dirs' = dirs \cup {n}
           ELSE DiskFault /\ dirs' = dirs
  /\ UNCHANGED <<memory, manifests, blobs>>

\* create_namespace under its lock.
InsertNamespace(n, ok) ==
  /\ ok = (n \notin namespaces)
  /\ namespaces' = namespaces \cup {n}
  /\ UNCHANGED <<apps, disk>>

\* remove_dir_all of the directories of S (applications and namespaces).
RemoveDirs(S) ==
  \/ /\ DiskWorks
     /\ dirs' = dirs \ S
     /\ manifests' = [a \in Apps |-> IF a \in S THEN NoApp ELSE manifests[a]]
     /\ blobs' = [a \in Apps |-> IF a \in S THEN NoBlobs ELSE blobs[a]]
  \/ /\ DiskFault
     /\ \E gone \in SUBSET (S \cap Apps), lost \in SUBSET (S \cap Apps) :
          /\ gone \subseteq lost
          /\ dirs' = dirs \ gone
          /\ manifests' = [a \in Apps |-> IF a \in lost THEN NoApp ELSE manifests[a]]
          /\ \E unlinked \in SUBSET ((S \cap Apps) \X Files) :
               blobs' = [a \in Apps |-> [f \in Files |->
                           IF a \in gone \/ <<a, f>> \in unlinked
                           THEN "missing" ELSE blobs[a][f]]]

\* delete_namespace of a namespace without applications.
DeleteNamespace(n, ok) ==
  /\ ok = (n \in namespaces /\ \A a \in Apps : a[1] = n => apps[a] = NoApp)
  /\ IF ok THEN /\ namespaces' = namespaces \ {n}
                /\ RemoveDirs({n} \cup {a \in Apps : a[1] = n})
                /\ UNCHANGED apps
           ELSE UNCHANGED vars

\* persist_manifest: it needs the application's directory.
Persist(a, manifest, ok) ==
  \/ ok /\ a \in dirs /\ DiskWorks /\ manifests' = [manifests EXCEPT ![a] = manifest]
  \/ ~ok /\ (IF a \in dirs THEN DiskFault ELSE DiskWorks) /\ UNCHANGED manifests

\* Mutant of CreateApp: the manifest is not written.
CreateAppUnsaved(a, ok) ==
  /\ a[1] \in namespaces /\ apps[a] = NoApp /\ ok /\ DiskWorks
  /\ dirs' = dirs \cup {a[1], a}
  /\ apps' = [apps EXCEPT ![a] = EmptyManifest]
  /\ UNCHANGED <<namespaces, manifests, blobs>>

\* create_app: the directories, the manifest, and only then the memory.
CreateApp(a, ok) ==
  IF a[1] \notin namespaces \/ apps[a] # NoApp
  THEN ~ok /\ UNCHANGED vars
  ELSE /\ \/ /\ dirs' = dirs \cup {a[1], a}
             /\ manifests' = IF ok THEN [manifests EXCEPT ![a] = EmptyManifest] ELSE manifests
          \/ ~ok /\ UNCHANGED <<dirs, manifests>>
       /\ IF ok THEN DiskWorks ELSE DiskFault
       /\ apps' = IF ok THEN [apps EXCEPT ![a] = EmptyManifest] ELSE apps
       /\ UNCHANGED <<namespaces, blobs>>

\* delete_app: the memory, and then the directory.
DeleteApp(a, ok) ==
  /\ ok = (apps[a] # NoApp)
  /\ IF ok THEN /\ apps' = [apps EXCEPT ![a] = NoApp]
                /\ RemoveDirs({a})
                /\ UNCHANGED namespaces
           ELSE UNCHANGED vars

\* store_file before its lock: the bytes are written whether or not the
\* application exists, as long as its directory does.
WriteFile(a, f, content, ok) ==
  /\ IF ok THEN a \in dirs /\ DiskWorks /\ blobs' = [blobs EXCEPT ![a][f] = content]
     ELSE IF a \in dirs THEN DiskFault /\ \E left \in {blobs[a][f], "torn"} :
                                            blobs' = [blobs EXCEPT ![a][f] = left]
          ELSE DiskWorks /\ UNCHANGED blobs
  /\ UNCHANGED <<memory, dirs, manifests>>

\* Mutant of Update: the manifest is written before it is changed.
UpdateStale(a, manifest, ok) ==
  /\ apps' = [apps EXCEPT ![a] = manifest]
  /\ Persist(a, apps[a], ok)
  /\ UNCHANGED <<namespaces, dirs>>

\* The methods that change a manifest in memory and then persist it; when that
\* fails the memory stays changed.
Update(a, manifest, ok) ==
  /\ apps' = [apps EXCEPT ![a] = manifest]
  /\ Persist(a, manifest, ok)
  /\ UNCHANGED <<namespaces, dirs>>

NotFound(a, ok) == apps[a] = NoApp /\ ~ok /\ UNCHANGED vars

\* store_file under its lock.
RecordFile(a, f, ok) ==
  \/ NotFound(a, ok)
  \/ /\ apps[a] # NoApp
     /\ Update(a, [apps[a] EXCEPT !.files = @ \cup {f}], ok)
     /\ UNCHANGED blobs

Referenced(a, f) == \E i \in 1..Len(apps[a].routes) : apps[a].routes[i].file = f

\* delete_file: refused while a route refers to the file; the file goes after
\* the manifest was written, and a failure to remove it is ignored.
DeleteFile(a, f, ok) ==
  \/ NotFound(a, ok)
  \/ apps[a] # NoApp /\ Referenced(a, f) /\ ~ok /\ UNCHANGED vars
  \/ /\ apps[a] # NoApp
     /\ ~Referenced(a, f)
     /\ Update(a, [apps[a] EXCEPT !.files = @ \ {f}], ok)
     /\ \/ ok /\ blobs' = [blobs EXCEPT ![a][f] = "missing"]
        \/ (~ok \/ DiskFails) /\ UNCHANGED blobs

AddRouteRecord(a, record, ok) ==
  \/ NotFound(a, ok)
  \/ /\ apps[a] # NoApp
     /\ Update(a, [apps[a] EXCEPT !.routes = Append(@, record)], ok)
     /\ UNCHANGED blobs

RemoveRouteRecord(a, id, ok) ==
  \/ NotFound(a, ok)
  \/ /\ apps[a] # NoApp
     /\ LET records == apps[a].routes IN
          \E p \in Ascending({i \in 1..Len(records) : records[i].id # id}) :
            Update(a, [apps[a] EXCEPT !.routes = [k \in DOMAIN p |-> records[p[k]]]], ok)
     /\ UNCHANGED blobs

\* The process ends and a new one runs load_from_disk: the manifests found make
\* the memory, and their namespaces the namespaces.  A file that was being
\* written may be left torn; an end inside one of the locked methods leaves on
\* disk what a failure of the disk there leaves.
Restart(writing) ==
  /\ apps' = manifests
  /\ namespaces' = {a[1] : a \in {b \in Apps : manifests[b] # NoApp}}
  /\ \E torn \in SUBSET {w \in writing : w[1] \in dirs} :
       blobs' = [a \in Apps |-> [f \in Files |->
                   IF <<a, f>> \in torn THEN "torn" ELSE blobs[a][f]]]
  /\ UNCHANGED <<dirs, manifests, disk_ok>>

\* Callers may call any method at any time; the ids of new records are fresh.
Fresh(r) ==
  \A a \in Apps : \A m \in {apps[a], manifests[a]} \ {NoApp} :
    \A i \in 1..Len(m.routes) : m.routes[i].id # r.id

Call(ok) ==
  \/ \E n \in Namespaces :
       MakeNamespaceDir(n, ok) \/ InsertNamespace(n, ok) \/ DeleteNamespace(n, ok)
  \/ \E a \in Apps : CreateApp(a, ok) \/ DeleteApp(a, ok)
  \/ \E a \in Apps, f \in Files : RecordFile(a, f, ok) \/ DeleteFile(a, f, ok)
  \/ \E a \in Apps, f \in Files, c \in {"source", "bytecode"} : WriteFile(a, f, c, ok)
  \/ \E a \in Apps, r \in Records : Fresh(r) /\ AddRouteRecord(a, r, ok)
  \/ \E a \in Apps, r \in Records : RemoveRouteRecord(a, r.id, ok)

Next ==
  \/ \E ok \in BOOLEAN : Call(ok)
  \/ \E w \in Apps \X Files : Restart({w})

Spec == Init /\ [][Next]_vars

-----------------------------------------------------------------------------
\* Type invariant of the registry (registry.rs RegistryInner and the layout of
\* data_dir).
TypeOK ==
  /\ namespaces \subseteq Namespaces
  /\ apps \in [Apps -> Manifests \cup {NoApp}]
  /\ dirs \subseteq Namespaces \cup Apps
  /\ manifests \in [Apps -> Manifests \cup {NoApp}]
  /\ blobs \in [Apps -> [Files -> Contents]]
  /\ disk_ok \in BOOLEAN

\* Unless the disk failed, a restart at any moment loses no change of an
\* application and brings none back: the manifests on disk are those in memory
\* (registry.rs:198-366, each method persists under its lock).
DiskFollowsMemory == disk_ok => manifests = apps

\* Also when the disk fails, what is written is the whole manifest as memory now
\* has it, never an older or another application's one.
SaveIsCurrent ==
  \A a \in Apps :
    manifests'[a] \notin {manifests[a], NoApp} => manifests'[a] = apps'[a]
SavedIsCurrent == [][SaveIsCurrent]_vars
=============================================================================
