------------------------------- MODULE RouteAdmin -------------------------------
(***************************************************************************)
(* The admin API's handlers (admin/namespace.rs, apps.rs, files.rs,        *)
(* routes.rs) and the engine's start-up (engine.rs): the composition of    *)
(* RouteTable and AppRegistry.  A handler is a task that takes the locks of the table *)
(* and of the registry one after the other and holds neither in between,   *)
(* so the steps of handlers interleave; its client may leave, which drops  *)
(* it at the next await; and the process may end at any moment.            *)
(*                                                                         *)
(* The requests clients may make are given: each is made at most once.     *)
(* Routes are literal paths under one method, which is all the collision   *)
(* rule needs (RouteTable has the rest), and a uuid is its number in the   *)
(* order of issue.                                                         *)
(***************************************************************************)
EXTENDS Integers, Sequences, FiniteSets, Functions, SequencesExt, Positions

CONSTANTS
  Namespace, Apps, Files, Words,
  StaticWords,     \* the paths of the static routes, a sequence
  Requests,        \* the admin requests: records [op, app, ...] of the kinds below
  Leavers,         \* the requests whose client may leave before the answer
  DiskFails,       \* whether the disk may fail (once)
  MaxRestarts,     \* bound on restarts
  MaxId,           \* bound on uuids
  NoApp

(***************************************************************************)
(* [op |-> "namespace"]                     to create the namespace        *)
(* [op |-> "disband"]                       to delete the namespace        *)
(* [op |-> "create",     app]                                              *)
(* [op |-> "delete",     app]                                              *)
(* [op |-> "upload",     app, file, content]                               *)
(* [op |-> "remove",     app, file]                                        *)
(* [op |-> "register",   app, file, path]                                  *)
(* [op |-> "unregister", app]               of an id the client has seen   *)
(***************************************************************************)

VARIABLES
  namespaces, apps, dirs, manifests, blobs, disk_ok,   \* AppRegistry
  routes, issued,                                      \* RouteTable
  at,          \* where each request's handler is
  ids,         \* the route ids each handler of this process holds or held
  owner,       \* history: the application a route id was registered for
  refused,     \* history: the routes of registrations that were answered with an error,
               \* those that start-up gave to their records included
  booting,     \* the records that start-up has not registered yet
  restarts     \* how often the process was restarted

registryVars == <<namespaces, apps, dirs, manifests, blobs, disk_ok>>
tableVars == <<routes, issued>>
vars == <<registryVars, tableVars, at, ids, owner, refused, booting, restarts>>

RouteIds == 1..MaxId
Records == [id : RouteIds, path : Words, file : Files]

AR == INSTANCE AppRegistry WITH Namespaces <- {Namespace}

ASSUME AdminAssumption ==
  /\ AR!RegistryAssumption
  /\ \A r \in Requests :
       /\ r.op \in {"namespace", "disband", "create", "delete", "upload", "remove",
                    "register", "unregister"}
       /\ r.op \notin {"namespace", "disband"} => r.app \in Apps
       /\ r.op \in {"upload", "remove", "register"} => r.file \in Files
       /\ r.op = "upload" => r.content \in {"source", "bytecode"}
       /\ r.op = "register" => r.path \in Words
  /\ IsFiniteSet(Apps)
  /\ StaticWords \in Seq(Words)
  /\ MaxId \in Nat /\ MaxId >= Len(StaticWords)

Static == [i \in 1..Len(StaticWords) |->
             [method |-> "GET", path |-> <<[kind |-> "literal", text |-> StaticWords[i]]>>]]
Unserved == [segments |-> <<>>, path |-> <<>>, fields |-> <<>>]
RT == INSTANCE RouteTable WITH Verbs <- {"GET"}, Upper <- [v \in {"GET"} |-> v],
        Names <- {}, Lengths <- {1}, args <- Unserved

Pattern(w) == <<RT!Literal(w)>>
Live == {routes[i].id : i \in {j \in 1..Len(routes) : routes[j].managed}}

(***************************************************************************)
(* A handler is "new" until the request arrives, then before the step it   *)
(* is named for, and finally answered "ok" or "error", or "left" by its    *)
(* client, or "gone" with the process.                                     *)
(***************************************************************************)
First(op) ==
  CASE op = "namespace" -> "mkdir"
    [] op = "disband" -> "disband"
    [] op = "create" -> "create"
    [] op = "delete" -> "snapshot"
    [] op = "upload" -> "write"
    [] op = "remove" -> "remove"
    [] op = "register" -> "check"
    [] op = "unregister" -> "unroute"
Over == {"ok", "error", "left", "gone"}
Steps == {"new", "mkdir", "enlist", "disband", "create", "snapshot", "unload", "delete", "write", "file", "remove", "check",
          "load", "insert", "record", "rollback", "unroute", "unrecord"} \cup Over

\* The engine was started once, with an empty data_dir.
Init ==
  /\ AR!Init
  /\ RT!Init
  /\ at = [r \in Requests |-> "new"]
  /\ ids = [r \in Requests |-> <<>>]
  /\ owner = [id \in RouteIds |-> NoApp]
  /\ refused = {}
  /\ booting = <<>>
  /\ restarts = 0

Serving == booting = <<>>
Goto(r, from, to) == Serving /\ at[r] = from /\ at' = [at EXCEPT ![r] = to]

\* The ids that applications' manifests list, as GET .../routes shows them.
Recorded(a) == IF apps[a] = NoApp THEN {} ELSE Range(apps[a].routes)
Listed == UNION {{rec.id : rec \in Recorded(a)} : a \in Apps}

-----------------------------------------------------------------------------
\* The request arrives.  One to unregister names an id that was listed to its
\* client, of whichever application.
Arrive(r) ==
  /\ Goto(r, "new", First(r.op))
  /\ IF r.op = "unregister" THEN \E id \in Listed : ids' = [ids EXCEPT ![r] = <<id>>]
                            ELSE UNCHANGED ids
  /\ UNCHANGED <<registryVars, tableVars, owner, refused, booting, restarts>>

\* A step that is one call of the registry.
Call(r, from, onOk, onError, Method(_)) ==
  /\ \E ok \in BOOLEAN : Goto(r, from, IF ok THEN onOk ELSE onError) /\ Method(ok)
  /\ UNCHANGED <<tableVars, ids, owner, refused, booting, restarts>>

\* create_namespace makes the directory, then takes its lock.
MakeDir(r) == Call(r, "mkdir", "enlist", "error", LAMBDA ok : AR!MakeNamespaceDir(Namespace, ok))
Enlist(r) == Call(r, "enlist", "ok", "error", LAMBDA ok : AR!InsertNamespace(Namespace, ok))

Disband(r) == Call(r, "disband", "ok", "error", LAMBDA ok : AR!DeleteNamespace(Namespace, ok))

Create(r) == Call(r, "create", "ok", "error", LAMBDA ok : AR!CreateApp(r.app, ok))

\* upload_file: store_file writes the bytes, then takes its lock.
Write(r) == Call(r, "write", "file", "error",
                 LAMBDA ok : AR!WriteFile(r.app, r.file, r.content, ok))
File(r) == Call(r, "file", "ok", "error", LAMBDA ok : AR!RecordFile(r.app, r.file, ok))

RemoveFile(r) == Call(r, "remove", "ok", "error", LAMBDA ok : AR!DeleteFile(r.app, r.file, ok))

\* register_route: the application exists and lists the file.
Check(r) ==
  /\ Goto(r, "check", IF apps[r.app] # NoApp /\ r.file \in apps[r.app].files
                      THEN "load" ELSE "error")
  /\ UNCHANGED <<registryVars, tableVars, ids, owner, refused, booting, restarts>>

\* load_program takes source or bytecode; what a broken write left may compile.
Load(r) ==
  /\ at[r] = "load"
  /\ \/ blobs[r.app][r.file] # "missing" /\ Goto(r, "load", "insert")
     \/ blobs[r.app][r.file] \in {"missing", "torn"} /\ Goto(r, "load", "error")
  /\ UNCHANGED <<registryVars, tableVars, ids, owner, refused, booting, restarts>>

\* add_route_dyn on behalf of an application, while there are uuids.
AddRoute(id, app, word) ==
  /\ id \in RouteIds
  /\ RT!AddRouteDyn(id, "GET", Pattern(word))
  /\ owner' = [owner EXCEPT ![id] = app]

Insert(r) ==
  /\ at[r] = "insert"
  /\ IF RT!Collides("GET", Pattern(r.path))
     THEN Goto(r, "insert", "error") /\ UNCHANGED <<tableVars, ids, owner>>
     ELSE LET id == RT!Fresh IN
            /\ Goto(r, "insert", "record")
            /\ AddRoute(id, r.app, r.path)
            /\ ids' = [ids EXCEPT ![r] = <<id>>]
  /\ UNCHANGED <<registryVars, refused, booting, restarts>>

\* Mutant of Record: the result of add_route_record is not waited for.
RecordSkipped(r) ==
  /\ Goto(r, "record", "ok")
  /\ UNCHANGED <<registryVars, tableVars, ids, owner, refused, booting, restarts>>

\* add_route_record; on an error the live route is taken back.
Record(r) ==
  Call(r, "record", "ok", "rollback",
       LAMBDA ok : AR!AddRouteRecord(r.app, [id |-> ids[r][1], path |-> r.path, file |-> r.file], ok))

\* remove_route for each of some ids, under one lock; those that are not live
\* are passed over.
RemoveRoutes(removed) ==
  /\ \E p \in Ascending({i \in 1..Len(routes) : routes[i].id \notin removed \/ ~routes[i].managed}) :
       routes' = [k \in DOMAIN p |-> routes[p[k]]]
  /\ UNCHANGED issued

\* Mutant of Rollback: the error is returned at once.
RollbackSkipped(r) ==
  /\ Goto(r, "rollback", "error")
  /\ refused' = refused \cup Range(ids[r])
  /\ UNCHANGED <<registryVars, tableVars, ids, owner, booting, restarts>>

Rollback(r) ==
  /\ Goto(r, "rollback", "error")
  /\ RemoveRoutes(Range(ids[r]))
  /\ refused' = refused \cup Range(ids[r])
  /\ UNCHANGED <<registryVars, ids, owner, booting, restarts>>

\* unregister_route: the live route by its id, then the record of the
\* application the client named; a failure of the latter is only logged.
Unroute(r) ==
  /\ Goto(r, "unroute", IF Range(ids[r]) \subseteq Live THEN "unrecord" ELSE "error")
  /\ RemoveRoutes(Range(ids[r]))
  /\ UNCHANGED <<registryVars, ids, owner, refused, booting, restarts>>

\* Mutant of Unrecord: the manifest is left to the next start.
UnrecordSkipped(r) ==
  /\ Goto(r, "unrecord", "ok")
  /\ UNCHANGED <<registryVars, tableVars, ids, owner, refused, booting, restarts>>

Unrecord(r) == Call(r, "unrecord", "ok", "ok",
                    LAMBDA ok : AR!RemoveRouteRecord(r.app, ids[r][1], ok))

\* delete_app: the ids the manifest lists, their live routes, the application.
Snapshot(r) ==
  /\ at[r] = "snapshot"
  /\ IF apps[r.app] = NoApp
     THEN Goto(r, "snapshot", "error") /\ UNCHANGED ids
     ELSE /\ Goto(r, "snapshot", "unload")
          /\ ids' = [ids EXCEPT ![r] = [i \in 1..Len(apps[r.app].routes) |->
                                         apps[r.app].routes[i].id]]
  /\ UNCHANGED <<registryVars, tableVars, owner, refused, booting, restarts>>

\* Mutant of Unload: every managed route is removed.
UnloadEverything(r) ==
  /\ Goto(r, "unload", "delete")
  /\ RemoveRoutes(Live)
  /\ UNCHANGED <<registryVars, ids, owner, refused, booting, restarts>>

Unload(r) ==
  /\ Goto(r, "unload", "delete")
  /\ RemoveRoutes(Range(ids[r]))
  /\ UNCHANGED <<registryVars, ids, owner, refused, booting, restarts>>

Delete(r) == Call(r, "delete", "ok", "error", LAMBDA ok : AR!DeleteApp(r.app, ok))

\* The client leaves: the handler is dropped where it awaits a lock.
Leave(r) ==
  /\ r \in Leavers
  /\ at[r] \notin Over \cup {"new", "mkdir", "write", "load"}
  /\ Goto(r, at[r], "left")
  /\ UNCHANGED <<registryVars, tableVars, ids, owner, refused, booting, restarts>>

Handle(r) ==
  \/ Arrive(r) \/ MakeDir(r) \/ Enlist(r) \/ Disband(r) \/ Create(r) \/ Write(r) \/ File(r) \/ RemoveFile(r)
  \/ Check(r) \/ Load(r) \/ Insert(r) \/ Record(r) \/ Rollback(r)
  \/ Unroute(r) \/ Unrecord(r)
  \/ Snapshot(r) \/ Unload(r) \/ Delete(r)

-----------------------------------------------------------------------------
\* What start-up will register: the applications in any order, the routes of
\* each in the order of its manifest.
Reloads ==
  LET found == {a \in Apps : manifests[a] # NoApp}
      of(a) == [i \in 1..Len(manifests[a].routes) |->
                  [app |-> a, record |-> manifests[a].routes[i]]]
  IN  {FlattenSeq([i \in 1..Len(order) |-> of(order[i])]) : order \in SetToSeqs(found)}

\* from_configs gives every static route a new uuid.
StaticIds == [i \in 1..Len(Static) |-> Len(issued) + i]

\* The process ends, at any moment, and is started again: the static routes get
\* new ids, the manifests are loaded, the handlers are lost.
Restart ==
  /\ restarts < MaxRestarts /\ Len(issued) + Len(Static) <= MaxId
  /\ restarts' = restarts + 1
  /\ AR!Restart({<<r.app, r.file>> : r \in {q \in Requests : at[q] = "write"}})
  /\ issued' = issued \o StaticIds
  /\ routes' = [i \in 1..Len(Static) |->
                  [id |-> StaticIds[i], method |-> "GET", segments |-> Static[i].path,
                   managed |-> FALSE]]
  /\ at' = [r \in Requests |-> IF at[r] \in Over \cup {"new"} THEN at[r] ELSE "gone"]
  /\ ids' = [r \in Requests |-> <<>>]
  /\ booting' \in Reloads
  /\ UNCHANGED <<owner, refused>>

\* Start-up registers the next persisted route: compile_source_file (which reads
\* source only) and add_route_dyn, under a new id; a failure of either is logged
\* and the route skipped.
Reload ==
  /\ booting # <<>>
  /\ booting' = Tail(booting)
  /\ LET app == booting[1].app  rec == booting[1].record IN
       \/ /\ blobs[app][rec.file] \in {"source", "torn"}
          /\ ~RT!Collides("GET", Pattern(rec.path))
          /\ AddRoute(RT!Fresh, app, rec.path)
          /\ refused' = refused \cup {RT!Fresh : id \in {rec.id} \cap refused}
       \/ /\ blobs[app][rec.file] # "source" \/ RT!Collides("GET", Pattern(rec.path))
          /\ UNCHANGED <<tableVars, owner, refused>>
  /\ UNCHANGED <<registryVars, at, ids, restarts>>

Next ==
  \/ \E r \in Requests : Handle(r) \/ Leave(r)
  \/ Restart
  \/ Reload

Spec == Init /\ [][Next]_vars

-----------------------------------------------------------------------------
\* Type invariant of the composition.
TypeOK ==
  /\ AR!TypeOK
  /\ RT!TypeOK
  /\ at \in [Requests -> Steps]
  /\ ids \in [Requests -> Seq(RouteIds)]
  /\ owner \in [RouteIds -> Apps \cup {NoApp}]
  /\ refused \subseteq RouteIds
  /\ booting \in Seq([app : Apps, record : Records])

\* No handler of the process is under way.
Quiet == Serving /\ \A r \in Requests : at[r] \in Over \cup {"new"}
Asked(op) == {r \in Requests : r.op = op}
Serves(a, w) == \E i \in 1..Len(routes) : /\ routes[i].managed
                                         /\ routes[i].segments = Pattern(w)
                                         /\ owner[routes[i].id] = a

\* A registration that was answered with an error has lost its own route, whatever
\* step failed and whatever ran in between (routes.rs:112-117); and it is served no
\* more by start-up either, at any later restart, unless the disk failed, which
\* leaves its record in memory for a later manifest (registry.rs:345-350).
FailedRegistrationGone ==
  /\ \A r \in Asked("register") : at[r] = "error" => Range(ids[r]) \cap Live = {}
  /\ disk_ok => refused \cap Live = {}

\* admin/routes.rs:113, "Roll back the RouteTable insertion so state stays
\* consistent": a registration that was answered with an error is never served.
RefusedNeverServed == refused \cap Live = {}

\* The route of an acknowledged registration stays until a request takes it
\* away that named it, or that deletes its application and had seen it.
RegisteredUntilTaken ==
  \A r \in Asked("register") :
    at[r] = "ok" /\ Range(ids[r]) \cap Live = {} =>
      \A id \in Range(ids[r]) :
        \E q \in Asked("unregister") \cup Asked("delete") :
          id \in Range(ids[q]) /\ at[q] \in {"unrecord", "delete"} \cup Over

\* No request of these kinds was made.
NoneAsked(ops) == \A r \in Requests : r.op \in ops => at[r] = "new"

\* With a disk that works and clients that wait, the live managed routes are the
\* recorded ones when no handler is under way: conflicting registrations, an
\* unregistration and a restart at any moment leave no difference.
RecordsMatchRoutes ==
  /\ Quiet /\ disk_ok
  /\ NoneAsked({"delete", "remove"})
  /\ \A r \in Requests : at[r] # "left"
  => \A a \in Apps, w \in Words :
       Serves(a, w) <=> \E rec \in Recorded(a) : rec.path = w

\* README.md:102 of the engine, "The route is persisted [...] and survives engine
\* restarts": an acknowledged registration is served, also after a restart at any
\* moment, while nobody asks to undo a part of it.
AcknowledgedServes ==
  Serving /\ disk_ok /\ NoneAsked({"delete", "remove", "unregister"}) =>
    \A r \in Asked("register") : at[r] = "ok" => Serves(r.app, r.path)

\* The registry's promises (AppRegistry) in the midst of all this: a restart at
\* any moment loses no change of an application and brings none back, and what is
\* written is never older than what memory has.
DiskFollowsMemory == AR!DiskFollowsMemory
SavedIsCurrent == [][AR!SaveIsCurrent]_vars
=============================================================================
