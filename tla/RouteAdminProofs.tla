---------------------------- MODULE RouteAdminProofs ----------------------------
(***************************************************************************)
(* Proofs about RouteAdmin for every set of requests, applications, files  *)
(* and paths, every static configuration and every bound.                  *)
(***************************************************************************)
EXTENDS RouteAdmin, SequenceTheorems, FiniteSetTheorems, WellFoundedInduction, TLAPS

\* A handler takes the steps of its operation only.
StepOf(op, step) ==
  /\ step \in {"mkdir", "enlist"} => op = "namespace"
  /\ step = "disband" => op = "disband"
  /\ step = "create" => op = "create"
  /\ step \in {"snapshot", "unload", "delete"} => op = "delete"
  /\ step \in {"write", "file"} => op = "upload"
  /\ step = "remove" => op = "remove"
  /\ step \in {"check", "load", "insert", "record", "rollback"} => op = "register"
  /\ step \in {"unroute", "unrecord"} => op = "unregister"

StepsOfOperation == \A r \in Requests : StepOf(r.op, at[r])

\* A registration has no id before add_route_dyn gives it one, of its own.
OwnIds ==
  \A r \in Asked("register") :
    /\ at[r] \in {"new", "check", "load", "insert"} => ids[r] = <<>>
    /\ at[r] \in {"record", "rollback"} => Len(ids[r]) = 1
    /\ \A id \in Range(ids[r]) :
         /\ id <= Len(issued)
         /\ \A q \in Asked("register") : q # r => id \notin Range(ids[q])

\* A request that named an id, or saw it, and has removed its route.
Settled == {"unrecord", "delete"} \cup Over
Taken(id) ==
  \E q \in Asked("unregister") \cup Asked("delete") : id \in Range(ids[q]) /\ at[q] \in Settled

\* The route of a registration is live from then on, unless it was taken.
LiveUntilTaken ==
  \A r \in Asked("register") :
    at[r] \in {"record", "ok"} => \A id \in Range(ids[r]) : id \in Live \/ Taken(id)

\* A registration that was answered with an error has lost its route.
ErrorsGone == \A r \in Asked("register") : at[r] = "error" => Range(ids[r]) \cap Live = {}

\* Uuids are given out in order.
IdsIssued == \A i \in 1..Len(issued) : issued[i] = i

\* While the disk has not failed, what is in memory is on disk, in a directory
\* of its own.
AppsHaveDirs == disk_ok => manifests = apps /\ \A a \in Apps : apps[a] # NoApp => a \in dirs

\* The part of the invariant that is about the table, of which the composition
\* sees the routes and the ids given out.
TableOK ==
  /\ routes \in Seq(RT!Routes)
  /\ issued \in Seq(RouteIds)
  /\ IdsIssued

\* The part that is about the handlers and start-up.
Bootings == [app : Apps, record : Records]
HandlersOK ==
  /\ at \in [Requests -> Steps]
  /\ ids \in [Requests -> Seq(RouteIds)]
  /\ owner \in [RouteIds -> Apps \cup {NoApp}]
  /\ booting \in Seq(Bootings)
  /\ StepsOfOperation /\ OwnIds /\ ErrorsGone /\ LiveUntilTaken

IInv == AR!TypeOK /\ AppsHaveDirs /\ TableOK /\ HandlersOK

-----------------------------------------------------------------------------
(***************************************************************************)
(* The registry.  Every step of the engine is a step of AppRegistry with   *)
(* proper arguments, or leaves the registry alone.                         *)
(***************************************************************************)
RegistryCall(ok) ==
  \/ AR!MakeNamespaceDir(Namespace, ok) \/ AR!InsertNamespace(Namespace, ok)
  \/ AR!DeleteNamespace(Namespace, ok)
  \/ \E a \in Apps : AR!CreateApp(a, ok) \/ AR!DeleteApp(a, ok)
  \/ \E a \in Apps, f \in Files : AR!RecordFile(a, f, ok) \/ AR!DeleteFile(a, f, ok)
  \/ \E a \in Apps, f \in Files, c \in {"source", "bytecode"} : AR!WriteFile(a, f, c, ok)
  \/ \E a \in Apps, rec \in Records : AR!AddRouteRecord(a, rec, ok)
  \/ \E a \in Apps : \E id : AR!RemoveRouteRecord(a, id, ok)

RegistryStep ==
  \/ \E ok \in BOOLEAN : RegistryCall(ok)
  \/ \E writing : AR!Restart(writing)
  \/ UNCHANGED registryVars

\* What a handler asks of the registry has the arguments of its request.
LEMMA StepIsRegistryStep ==
  ASSUME HandlersOK, [Next]_vars PROVE RegistryStep
<1>1. ASSUME NEW r \in Requests, Handle(r) PROVE RegistryStep
  <2>2. CASE MakeDir(r) \/ Enlist(r) \/ Disband(r)
    BY <2>2 DEF MakeDir, Enlist, Disband, Call, RegistryStep, RegistryCall
  <2>3. CASE Create(r)
    <3>1. r.app \in Apps
      BY <2>3, AdminAssumption DEF Create, Call, Goto, HandlersOK, StepsOfOperation, StepOf
    <3> QED
      BY <2>3, <3>1 DEF Create, Call, RegistryStep, RegistryCall
  <2>4. CASE Write(r)
    <3>1. r.app \in Apps /\ r.file \in Files /\ r.content \in {"source", "bytecode"}
      BY <2>4, AdminAssumption DEF Write, Call, Goto, HandlersOK, StepsOfOperation, StepOf
    <3> QED
      BY <2>4, <3>1 DEF Write, Call, RegistryStep, RegistryCall
  <2>5. CASE File(r)
    <3>1. r.app \in Apps /\ r.file \in Files
      BY <2>5, AdminAssumption DEF File, Call, Goto, HandlersOK, StepsOfOperation, StepOf
    <3> QED
      BY <2>5, <3>1 DEF File, Call, RegistryStep, RegistryCall
  <2>6. CASE RemoveFile(r)
    <3>1. r.app \in Apps /\ r.file \in Files
      BY <2>6, AdminAssumption DEF RemoveFile, Call, Goto, HandlersOK, StepsOfOperation, StepOf
    <3> QED
      BY <2>6, <3>1 DEF RemoveFile, Call, RegistryStep, RegistryCall
  <2>7. CASE Record(r)
    <3>1. at[r] = "record" /\ r.op = "register"
      BY <2>7 DEF Record, Call, Goto, HandlersOK, StepsOfOperation, StepOf
    <3>2. r.app \in Apps /\ r.file \in Files /\ r.path \in Words
      BY <3>1, AdminAssumption
    <3>3. ids[r] \in Seq(RouteIds) /\ Len(ids[r]) = 1
      BY <3>1 DEF HandlersOK, OwnIds, Asked
    <3>4. ids[r][1] \in RouteIds
      BY <3>3
    <3>5. [id |-> ids[r][1], path |-> r.path, file |-> r.file] \in Records
      BY <3>2, <3>4 DEF Records
    <3> QED
      BY <2>7, <3>2, <3>5 DEF Record, Call, RegistryStep, RegistryCall
  <2>8. CASE Unrecord(r)
    <3>1. r.app \in Apps
      BY <2>8, AdminAssumption DEF Unrecord, Call, Goto, HandlersOK, StepsOfOperation, StepOf
    <3> QED
      BY <2>8, <3>1 DEF Unrecord, Call, RegistryStep, RegistryCall
  <2>9. CASE Delete(r)
    <3>1. r.app \in Apps
      BY <2>9, AdminAssumption DEF Delete, Call, Goto, HandlersOK, StepsOfOperation, StepOf
    <3> QED
      BY <2>9, <3>1 DEF Delete, Call, RegistryStep, RegistryCall
  <2>10. CASE \/ Arrive(r) \/ Check(r) \/ Load(r) \/ Insert(r) \/ Rollback(r) \/ Unroute(r)
              \/ Snapshot(r) \/ Unload(r)
    BY <2>10 DEF Arrive, Check, Load, Insert, Rollback, Unroute, Snapshot, Unload, RegistryStep
  <2> QED
    BY <1>1, <2>2, <2>3, <2>4, <2>5, <2>6, <2>7, <2>8, <2>9, <2>10 DEF Handle
<1>2. ASSUME NEW r \in Requests, Leave(r) PROVE RegistryStep
  BY <1>2 DEF Leave, RegistryStep
<1>3. CASE Restart
  BY <1>3 DEF Restart, RegistryStep
<1>4. CASE Reload \/ UNCHANGED vars
  BY <1>4 DEF Reload, vars, RegistryStep
<1> QED
  BY <1>1, <1>2, <1>3, <1>4 DEF Next

-----------------------------------------------------------------------------
LEMMA RemoveDirsTypes ==
  ASSUME AR!TypeOK, NEW S, AR!RemoveDirs(S)
  PROVE  /\ dirs' \subseteq {Namespace} \cup Apps
         /\ manifests' \in [Apps -> AR!Manifests \cup {NoApp}]
         /\ blobs' \in [Apps -> [Files -> AR!Contents]]
         /\ disk_ok' \in BOOLEAN
<1>1. /\ dirs \subseteq {Namespace} \cup Apps
      /\ manifests \in [Apps -> AR!Manifests \cup {NoApp}]
      /\ blobs \in [Apps -> [Files -> AR!Contents]]
      /\ disk_ok \in BOOLEAN
  BY DEF AR!TypeOK
<1>2. "missing" \in AR!Contents /\ AR!NoBlobs \in [Files -> AR!Contents]
  BY DEF AR!NoBlobs, AR!Contents
<1>3. disk_ok' \in BOOLEAN
  BY <1>1 DEF AR!RemoveDirs, AR!DiskWorks, AR!DiskFault
<1>4. dirs' \subseteq dirs
  BY DEF AR!RemoveDirs
<1>5. \E T : manifests' = [a \in Apps |-> IF a \in T THEN NoApp ELSE manifests[a]]
  BY DEF AR!RemoveDirs
<1>6. blobs' \in [Apps -> [Files -> AR!Contents]]
  <2>1. CASE AR!DiskWorks /\ blobs' = [a \in Apps |-> IF a \in S THEN AR!NoBlobs ELSE blobs[a]]
    BY <1>1, <1>2, <2>1
  <2>2. CASE /\ AR!DiskFault
             /\ \E gone \in SUBSET (S \cap Apps), lost \in SUBSET (S \cap Apps) :
                  /\ gone \subseteq lost
                  /\ dirs' = dirs \ gone
                  /\ manifests' = [a \in Apps |-> IF a \in lost THEN NoApp ELSE manifests[a]]
                  /\ \E unlinked \in SUBSET ((S \cap Apps) \X Files) :
                       blobs' = [a \in Apps |-> [f \in Files |->
                                   IF a \in gone \/ <<a, f>> \in unlinked
                                   THEN "missing" ELSE blobs[a][f]]]
    <3>1. PICK gone \in SUBSET (S \cap Apps), lost \in SUBSET (S \cap Apps) :
                 \E unlinked \in SUBSET ((S \cap Apps) \X Files) :
                       blobs' = [a \in Apps |-> [f \in Files |->
                                   IF a \in gone \/ <<a, f>> \in unlinked
                                   THEN "missing" ELSE blobs[a][f]]]
      BY <2>2, Zenon
    <3>2. PICK unlinked :
                       blobs' = [a \in Apps |-> [f \in Files |->
                                   IF a \in gone \/ <<a, f>> \in unlinked
                                   THEN "missing" ELSE blobs[a][f]]]
      BY <3>1, Zenon
    <3> QED
      BY <1>1, <1>2, <3>2
  <2> QED
    BY <2>1, <2>2 DEF AR!RemoveDirs
<1> QED
  BY <1>1, <1>3, <1>4, <1>5, <1>6

\* What Update does to a manifest of the right type.
LEMMA UpdateTypes ==
  ASSUME AR!TypeOK, NEW a \in Apps, NEW m \in AR!Manifests, NEW ok \in BOOLEAN,
         AR!Update(a, m, ok), blobs' \in [Apps -> [Files -> AR!Contents]]
  PROVE  AR!TypeOK'
<1>1. disk_ok' \in BOOLEAN /\ manifests' \in [Apps -> AR!Manifests \cup {NoApp}]
  BY DEF AR!Update, AR!Persist, AR!DiskWorks, AR!DiskFault, AR!TypeOK
<1>2. apps' \in [Apps -> AR!Manifests \cup {NoApp}] /\ namespaces' = namespaces /\ dirs' = dirs
  BY DEF AR!Update, AR!TypeOK
<1> QED
  BY <1>1, <1>2 DEF AR!TypeOK

\* A record taken from or added to a manifest leaves a manifest.
LEMMA FinitePositions ==
  ASSUME NEW n \in Nat, NEW S \in SUBSET (1..n)
  PROVE  IsFiniteSet(S) /\ Cardinality(S) \in Nat
<1>1. IsFiniteSet(1..n)
  BY FS_Interval
<1>2. IsFiniteSet(S)
  BY <1>1, FS_Subset
<1> QED
  BY <1>2, FS_CardinalityType

\* An ascending enumeration lists each position of its set once.
LEMMA AscendingFacts ==
  ASSUME NEW n \in Nat, NEW S \in SUBSET (1..n), NEW p \in Ascending(S)
  PROVE  /\ Cardinality(S) \in Nat
         /\ p \in [1..Cardinality(S) -> S]
         /\ \A i, j \in 1..Cardinality(S) : i # j => p[i] # p[j]
         /\ \A k \in S : \E i \in 1..Cardinality(S) : p[i] = k
<1> DEFINE c == Cardinality(S)
<1>1. IsFiniteSet(S) /\ c \in Nat
  BY FinitePositions
<1>2. p \in [1..c -> S] /\ \A i, j \in 1..c : i < j => p[i] < p[j]
  BY DEF Ascending
<1>3. \A i, j \in 1..c : i # j => p[i] # p[j]
  <2> SUFFICES ASSUME NEW i \in 1..c, NEW j \in 1..c, i # j PROVE p[i] # p[j]
    OBVIOUS
  <2>1. p[i] \in 1..n /\ p[j] \in 1..n
    BY <1>2
  <2>2. i < j \/ j < i
    BY <1>1
  <2> QED
    BY <1>2, <2>1, <2>2
<1>4. p \in Injection(1..c, S)
  BY <1>2, <1>3 DEF Injection, IsInjective
<1>5. Cardinality(1..c) = c
  BY <1>1, FS_Interval
<1>6. p \in Surjection(1..c, S)
  BY <1>1, <1>4, <1>5, FS_Injection
<1> QED
  BY <1>1, <1>2, <1>3, <1>6 DEF Surjection

\* What is kept of a vector.
LEMMA KeptFacts ==
  ASSUME NEW T, NEW s \in Seq(T), NEW S \in SUBSET (1..Len(s)), NEW p \in Ascending(S)
  PROVE  /\ [k \in DOMAIN p |-> s[p[k]]] \in Seq(T)
         /\ DOMAIN p = 1..Cardinality(S) /\ Cardinality(S) \in Nat
         /\ \A k \in DOMAIN p : p[k] \in S
         /\ \A i \in S : \E k \in DOMAIN p : p[k] = i
<1> DEFINE c == Cardinality(S)
<1>1. Len(s) \in Nat /\ \A i \in 1..Len(s) : s[i] \in T
  BY LenProperties, ElementOfSeq
<1>2. c \in Nat /\ p \in [1..c -> S] /\ \A k \in S : \E i \in 1..c : p[i] = k
  BY <1>1, AscendingFacts
<1> HIDE DEF c
<1>3. \A k \in 1..c : s[p[k]] \in T
  BY <1>1, <1>2
<1>4. [k \in 1..c |-> s[p[k]]] \in Seq(T)
  BY <1>2, <1>3
<1> QED
  BY <1>2, <1>4 DEF c

LEMMA EmptyIsManifest == AR!EmptyManifest \in AR!Manifests
BY EmptySeq DEF AR!EmptyManifest, AR!Manifests

\* No step of the engine spoils the registry.
LEMMA RegistryTypes ==
  ASSUME AR!TypeOK, RegistryStep PROVE AR!TypeOK'
<1>1. /\ apps \in [Apps -> AR!Manifests \cup {NoApp}]
      /\ manifests \in [Apps -> AR!Manifests \cup {NoApp}]
      /\ blobs \in [Apps -> [Files -> AR!Contents]]
  BY DEF AR!TypeOK
<1>2. \A a \in Apps : a[1] = Namespace
  BY AdminAssumption DEF AR!RegistryAssumption
<1>3. ASSUME NEW ok \in BOOLEAN, NEW a \in Apps, AR!NotFound(a, ok) PROVE AR!TypeOK'
  BY <1>3 DEF AR!NotFound, AR!vars, AR!TypeOK
<1>4. ASSUME NEW ok \in BOOLEAN, AR!MakeNamespaceDir(Namespace, ok) PROVE AR!TypeOK'
  BY <1>4 DEF AR!MakeNamespaceDir, AR!DiskWorks, AR!DiskFault, AR!memory, AR!TypeOK
<1>5. ASSUME NEW ok \in BOOLEAN, AR!InsertNamespace(Namespace, ok) PROVE AR!TypeOK'
  BY <1>5 DEF AR!InsertNamespace, AR!disk, AR!TypeOK
<1>6. ASSUME NEW ok \in BOOLEAN, AR!DeleteNamespace(Namespace, ok) PROVE AR!TypeOK'
  <2>1. CASE UNCHANGED AR!vars
    BY <2>1 DEF AR!vars, AR!TypeOK
  <2>2. ASSUME NEW S, AR!RemoveDirs(S), namespaces' = namespaces \ {Namespace}, UNCHANGED apps
        PROVE  AR!TypeOK'
    BY <2>2, RemoveDirsTypes DEF AR!TypeOK
  <2> QED
    BY <1>6, <2>1, <2>2 DEF AR!DeleteNamespace
<1>7. ASSUME NEW ok \in BOOLEAN, NEW a \in Apps, AR!CreateApp(a, ok) PROVE AR!TypeOK'
  <2>1. CASE UNCHANGED AR!vars
    BY <2>1 DEF AR!vars, AR!TypeOK
  <2>2. CASE ~ UNCHANGED AR!vars
    <3>1. /\ dirs' = dirs \/ dirs' = dirs \cup {a[1], a}
          /\ manifests' = manifests \/ manifests' = [manifests EXCEPT ![a] = AR!EmptyManifest]
          /\ apps' = apps \/ apps' = [apps EXCEPT ![a] = AR!EmptyManifest]
          /\ disk_ok' \in {disk_ok, FALSE}
          /\ UNCHANGED <<namespaces, blobs>>
      BY <1>7, <2>2 DEF AR!CreateApp, AR!DiskWorks, AR!DiskFault
    <3> QED
      BY <1>2, <3>1, EmptyIsManifest DEF AR!TypeOK
  <2> QED
    BY <2>1, <2>2
<1>8. ASSUME NEW ok \in BOOLEAN, NEW a \in Apps, AR!DeleteApp(a, ok) PROVE AR!TypeOK'
  <2>1. CASE UNCHANGED AR!vars
    BY <2>1 DEF AR!vars, AR!TypeOK
  <2>2. CASE AR!RemoveDirs({a}) /\ apps' = [apps EXCEPT ![a] = NoApp] /\ UNCHANGED namespaces
    BY <2>2, RemoveDirsTypes DEF AR!TypeOK
  <2> QED
    BY <1>8, <2>1, <2>2 DEF AR!DeleteApp
<1>9. ASSUME NEW ok \in BOOLEAN, NEW a \in Apps, NEW f \in Files, AR!RecordFile(a, f, ok)
      PROVE  AR!TypeOK'
  <2>1. CASE /\ apps[a] # NoApp
             /\ AR!Update(a, [apps[a] EXCEPT !.files = @ \cup {f}], ok)
             /\ UNCHANGED blobs
    <3>1. [apps[a] EXCEPT !.files = @ \cup {f}] \in AR!Manifests
      BY <1>1, <2>1 DEF AR!Manifests
    <3> QED
      BY <1>1, <2>1, <3>1, UpdateTypes
  <2> QED
    BY <1>3, <1>9, <2>1 DEF AR!RecordFile
<1>10. ASSUME NEW ok \in BOOLEAN, NEW a \in Apps, NEW f \in Files, AR!DeleteFile(a, f, ok)
       PROVE  AR!TypeOK'
  <2>1. CASE UNCHANGED AR!vars
    BY <2>1 DEF AR!vars, AR!TypeOK
  <2>2. CASE /\ apps[a] # NoApp
             /\ AR!Update(a, [apps[a] EXCEPT !.files = @ \ {f}], ok)
             /\ blobs' \in {blobs, [blobs EXCEPT ![a][f] = "missing"]}
    <3>1. [apps[a] EXCEPT !.files = @ \ {f}] \in AR!Manifests
      BY <1>1, <2>2 DEF AR!Manifests
    <3>2. blobs' \in [Apps -> [Files -> AR!Contents]]
      <4>1. "missing" \in AR!Contents
        BY DEF AR!Contents
      <4>2. [blobs EXCEPT ![a][f] = "missing"] \in [Apps -> [Files -> AR!Contents]]
        BY <1>1, <4>1
      <4> QED
        BY <1>1, <2>2, <4>2
    <3> QED
      BY <2>2, <3>1, <3>2, UpdateTypes
  <2> QED
    BY <1>3, <1>10, <2>1, <2>2 DEF AR!DeleteFile
<1>11. ASSUME NEW ok \in BOOLEAN, NEW a \in Apps, NEW f \in Files,
              NEW c \in {"source", "bytecode"}, AR!WriteFile(a, f, c, ok)
       PROVE  AR!TypeOK'
  <2>1. /\ \E d \in AR!Contents : blobs' = [blobs EXCEPT ![a][f] = d] \/ UNCHANGED blobs
        /\ disk_ok' \in {disk_ok, FALSE}
        /\ UNCHANGED <<AR!memory, dirs, manifests>>
    <3>1. {"source", "bytecode", "torn", blobs[a][f]} \subseteq AR!Contents
      BY <1>1 DEF AR!Contents
    <3> QED
      BY <1>11, <3>1 DEF AR!WriteFile, AR!DiskWorks, AR!DiskFault
  <2>2. blobs' \in [Apps -> [Files -> AR!Contents]]
    <3>1. \A d \in AR!Contents : [blobs EXCEPT ![a][f] = d] \in [Apps -> [Files -> AR!Contents]]
      BY <1>1
    <3> QED
      BY <1>1, <2>1, <3>1
  <2> QED
    BY <1>1, <2>1, <2>2 DEF AR!TypeOK, AR!memory
<1>12. ASSUME NEW ok \in BOOLEAN, NEW a \in Apps, NEW rec \in Records,
              AR!AddRouteRecord(a, rec, ok)
       PROVE  AR!TypeOK'
  <2>1. CASE /\ apps[a] # NoApp
             /\ AR!Update(a, [apps[a] EXCEPT !.routes = Append(@, rec)], ok)
             /\ UNCHANGED blobs
    <3>1. [apps[a] EXCEPT !.routes = Append(@, rec)] \in AR!Manifests
      <4>1. apps[a] \in AR!Manifests /\ apps[a].routes \in Seq(Records)
        BY <1>1, <2>1 DEF AR!Manifests
      <4>2. Append(apps[a].routes, rec) \in Seq(Records)
        BY <4>1, AppendProperties
      <4> QED
        BY <4>1, <4>2 DEF AR!Manifests
    <3> QED
      BY <1>1, <2>1, <3>1, UpdateTypes
  <2> QED
    BY <1>3, <1>12, <2>1 DEF AR!AddRouteRecord
<1>13. ASSUME NEW ok \in BOOLEAN, NEW a \in Apps, NEW id, AR!RemoveRouteRecord(a, id, ok)
       PROVE  AR!TypeOK'
  <2>1. CASE apps[a] # NoApp /\ ~ AR!NotFound(a, ok)
    <3> DEFINE records == apps[a].routes
               kept == {i \in 1..Len(records) : records[i].id # id}
    <3>1. apps[a] \in AR!Manifests /\ records \in Seq(Records)
      BY <1>1, <2>1 DEF AR!Manifests
    <3>2. PICK p \in AR!Ascending(kept) :
             AR!Update(a, [apps[a] EXCEPT !.routes = [k \in DOMAIN p |-> records[p[k]]]], ok)
      BY <1>13, <2>1 DEF AR!RemoveRouteRecord
    <3>3. [k \in DOMAIN p |-> records[p[k]]] \in Seq(Records)
      <4>1. p \in Ascending(kept)
        BY <3>2 DEF Ascending, AR!Ascending, Cardinality, AR!Cardinality, IsFiniteSet, AR!IsFiniteSet
      <4> QED
        BY <3>1, <4>1, KeptFacts
    <3>4. [apps[a] EXCEPT !.routes = [k \in DOMAIN p |-> records[p[k]]]] \in AR!Manifests
      BY <3>1, <3>3 DEF AR!Manifests
    <3>5. UNCHANGED blobs
      BY <1>13, <2>1 DEF AR!RemoveRouteRecord
    <3> QED
      BY <1>1, <3>2, <3>4, <3>5, UpdateTypes
  <2> QED
    BY <1>3, <1>13, <2>1 DEF AR!RemoveRouteRecord
<1>14. ASSUME NEW writing, AR!Restart(writing) PROVE AR!TypeOK'
  <2>1. namespaces' \subseteq {Namespace}
    BY <1>2, <1>14 DEF AR!Restart
  <2>2. PICK torn : blobs' = [a \in Apps |-> [f \in Files |->
                       IF <<a, f>> \in torn THEN "torn" ELSE blobs[a][f]]]
    BY <1>14, Zenon DEF AR!Restart
  <2>3. blobs' \in [Apps -> [Files -> AR!Contents]]
    BY <1>1, <2>2 DEF AR!Contents
  <2> QED
    BY <1>1, <1>14, <2>1, <2>3 DEF AR!Restart, AR!TypeOK
<1>15. CASE UNCHANGED registryVars
  BY <1>15 DEF registryVars, AR!TypeOK
<1> QED
  BY <1>4, <1>5, <1>6, <1>7, <1>8, <1>9, <1>10, <1>11, <1>12, <1>13, <1>14, <1>15
  DEF RegistryStep, RegistryCall

LEMMA RemoveDirsKeeps ==
  ASSUME AR!TypeOK, NEW S, AR!RemoveDirs(S)
  PROVE  /\ \A a \in Apps : manifests'[a] \in {manifests[a], NoApp}
         /\ disk_ok' => /\ disk_ok
                        /\ dirs' = dirs \ S
                        /\ \A a \in Apps :
                             manifests'[a] = IF a \in S THEN NoApp ELSE manifests[a]
<1>1. \A a \in Apps : manifests'[a] \in {manifests[a], NoApp}
  BY DEF AR!RemoveDirs
<1>2. disk_ok' => /\ disk_ok
                  /\ dirs' = dirs \ S
                  /\ manifests' = [a \in Apps |-> IF a \in S THEN NoApp ELSE manifests[a]]
  BY DEF AR!RemoveDirs, AR!DiskWorks, AR!DiskFault
<1> QED
  BY <1>1, <1>2

\* persist_manifest writes what the caller has put in memory, or the disk fails.
LEMMA UpdateKeeps ==
  ASSUME AR!TypeOK, AppsHaveDirs, NEW a \in Apps, apps[a] # NoApp, NEW m,
         NEW ok \in BOOLEAN, AR!Update(a, m, ok)
  PROVE  AppsHaveDirs' /\ AR!SaveIsCurrent
<1>1. apps' = [apps EXCEPT ![a] = m] /\ dirs' = dirs
  BY DEF AR!Update
<1>2. CASE manifests' = [manifests EXCEPT ![a] = m] /\ disk_ok' = disk_ok /\ a \in dirs
  <2>1. AR!SaveIsCurrent
    BY <1>1, <1>2 DEF AR!SaveIsCurrent, AR!TypeOK
  <2>2. AppsHaveDirs'
    BY <1>1, <1>2 DEF AppsHaveDirs, AR!TypeOK
  <2> QED
    BY <2>1, <2>2
<1>3. CASE UNCHANGED manifests /\ ~disk_ok'
  BY <1>3 DEF AR!SaveIsCurrent, AppsHaveDirs
<1>4. CASE UNCHANGED manifests /\ a \notin dirs /\ disk_ok' = disk_ok
  BY <1>4 DEF AR!SaveIsCurrent, AppsHaveDirs
<1> QED
  BY <1>2, <1>3, <1>4 DEF AR!Update, AR!Persist, AR!DiskWorks, AR!DiskFault

\* Every call of the registry leaves disk and memory alike, unless the disk
\* fails, and writes no manifest but the one memory has then.
LEMMA RegistryKeeps ==
  ASSUME AR!TypeOK, AppsHaveDirs, RegistryStep PROVE AppsHaveDirs' /\ AR!SaveIsCurrent
<1>1. /\ apps \in [Apps -> AR!Manifests \cup {NoApp}]
      /\ manifests \in [Apps -> AR!Manifests \cup {NoApp}]
  BY DEF AR!TypeOK
<1>2. \A a \in Apps : a[1] = Namespace
  BY AdminAssumption DEF AR!RegistryAssumption
<1>3. ASSUME UNCHANGED <<apps, manifests>>, disk_ok' = disk_ok \/ ~disk_ok', dirs \subseteq dirs'
      PROVE  AppsHaveDirs' /\ AR!SaveIsCurrent
  BY <1>3 DEF AppsHaveDirs, AR!SaveIsCurrent
<1>4. CASE UNCHANGED AR!vars
  BY <1>3, <1>4 DEF AR!vars
<1>5. ASSUME NEW ok \in BOOLEAN, NEW a \in Apps, AR!NotFound(a, ok)
      PROVE  AppsHaveDirs' /\ AR!SaveIsCurrent
  BY <1>4, <1>5 DEF AR!NotFound
<1>6. ASSUME NEW ok \in BOOLEAN,
             AR!MakeNamespaceDir(Namespace, ok) \/ AR!InsertNamespace(Namespace, ok)
      PROVE  AppsHaveDirs' /\ AR!SaveIsCurrent
  BY <1>3, <1>6 DEF AR!MakeNamespaceDir, AR!InsertNamespace, AR!DiskWorks, AR!DiskFault,
                    AR!memory, AR!disk
<1>7. ASSUME NEW ok \in BOOLEAN, AR!DeleteNamespace(Namespace, ok)
      PROVE  AppsHaveDirs' /\ AR!SaveIsCurrent
  <2> DEFINE S == {Namespace} \cup {a \in Apps : a[1] = Namespace}
  <2>1. CASE UNCHANGED apps /\ AR!RemoveDirs(S) /\ \A a \in Apps : apps[a] = NoApp
    <3> HIDE DEF S
    <3>1. AR!SaveIsCurrent
      BY <2>1, RemoveDirsKeeps DEF AR!SaveIsCurrent
    <3>2. ASSUME disk_ok' PROVE manifests' = apps'
      <4>1. \A a \in Apps : manifests'[a] = NoApp /\ apps'[a] = NoApp
        BY <2>1, <3>2, RemoveDirsKeeps DEF AppsHaveDirs
      <4>2. manifests' \in [Apps -> AR!Manifests \cup {NoApp}]
        BY <2>1, RemoveDirsTypes
      <4> QED
        BY <1>1, <2>1, <4>1, <4>2
    <3> QED
      BY <2>1, <3>1, <3>2 DEF AppsHaveDirs
  <2> QED
    BY <1>2, <1>4, <1>7, <2>1 DEF AR!DeleteNamespace
<1>8. ASSUME NEW ok \in BOOLEAN, NEW a \in Apps, AR!CreateApp(a, ok)
      PROVE  AppsHaveDirs' /\ AR!SaveIsCurrent
  <2>1. CASE /\ dirs' = dirs \cup {a[1], a}
             /\ manifests' = [manifests EXCEPT ![a] = AR!EmptyManifest]
             /\ apps' = [apps EXCEPT ![a] = AR!EmptyManifest]
             /\ disk_ok' = disk_ok
    <3>1. AR!SaveIsCurrent
      BY <1>1, <2>1 DEF AR!SaveIsCurrent
    <3>2. AppsHaveDirs'
      BY <1>1, <2>1 DEF AppsHaveDirs
    <3> QED
      BY <3>1, <3>2
  <2>2. CASE ~disk_ok' /\ UNCHANGED <<manifests, apps>>
    BY <2>2 DEF AppsHaveDirs, AR!SaveIsCurrent
  <2> QED
    BY <1>4, <1>8, <2>1, <2>2 DEF AR!CreateApp, AR!DiskWorks, AR!DiskFault
<1>9. ASSUME NEW ok \in BOOLEAN, NEW a \in Apps, AR!DeleteApp(a, ok)
      PROVE  AppsHaveDirs' /\ AR!SaveIsCurrent
  <2>1. CASE AR!RemoveDirs({a}) /\ apps' = [apps EXCEPT ![a] = NoApp]
    <3>1. AR!SaveIsCurrent
      BY <2>1, RemoveDirsKeeps DEF AR!SaveIsCurrent
    <3>2. ASSUME disk_ok' PROVE manifests' = apps' /\ \A b \in Apps : apps'[b] # NoApp => b \in dirs'
      <4>1. /\ disk_ok
            /\ dirs' = dirs \ {a}
            /\ \A b \in Apps : manifests'[b] = IF b \in {a} THEN NoApp ELSE manifests[b]
        BY <2>1, <3>2, RemoveDirsKeeps
      <4>2. manifests' \in [Apps -> AR!Manifests \cup {NoApp}]
        BY <2>1, RemoveDirsTypes
      <4>3. \A b \in Apps : apps'[b] = IF b = a THEN NoApp ELSE apps[b]
        BY <1>1, <2>1
      <4>4. apps' \in [Apps -> AR!Manifests \cup {NoApp}]
        BY <1>1, <2>1
      <4>5. manifests = apps /\ \A b \in Apps : apps[b] # NoApp => b \in dirs
        BY <4>1 DEF AppsHaveDirs
      <4> QED
        BY <4>1, <4>2, <4>3, <4>4, <4>5
    <3> QED
      BY <3>1, <3>2 DEF AppsHaveDirs
  <2> QED
    BY <1>4, <1>9, <2>1 DEF AR!DeleteApp
<1>10. ASSUME NEW ok \in BOOLEAN, NEW a \in Apps, NEW f \in Files,
              AR!RecordFile(a, f, ok) \/ AR!DeleteFile(a, f, ok)
       PROVE  AppsHaveDirs' /\ AR!SaveIsCurrent
  <2>1. \/ AR!NotFound(a, ok)
        \/ UNCHANGED AR!vars
        \/ apps[a] # NoApp /\ \E m : AR!Update(a, m, ok)
    BY <1>10 DEF AR!RecordFile, AR!DeleteFile
  <2> QED
    BY <1>4, <1>5, <2>1, UpdateKeeps
<1>11. ASSUME NEW ok \in BOOLEAN, NEW a \in Apps, NEW f \in Files, NEW c,
              AR!WriteFile(a, f, c, ok)
       PROVE  AppsHaveDirs' /\ AR!SaveIsCurrent
  BY <1>3, <1>11 DEF AR!WriteFile, AR!DiskWorks, AR!DiskFault, AR!memory
<1>12. ASSUME NEW ok \in BOOLEAN, NEW a \in Apps, NEW rec, AR!AddRouteRecord(a, rec, ok)
       PROVE  AppsHaveDirs' /\ AR!SaveIsCurrent
  <2>1. AR!NotFound(a, ok) \/ (apps[a] # NoApp /\ \E m : AR!Update(a, m, ok))
    BY <1>12 DEF AR!AddRouteRecord
  <2> QED
    BY <1>5, <2>1, UpdateKeeps
<1>13. ASSUME NEW ok \in BOOLEAN, NEW a \in Apps, NEW id, AR!RemoveRouteRecord(a, id, ok)
       PROVE  AppsHaveDirs' /\ AR!SaveIsCurrent
  <2>1. AR!NotFound(a, ok) \/ (apps[a] # NoApp /\ \E m : AR!Update(a, m, ok))
    BY <1>13 DEF AR!RemoveRouteRecord
  <2> QED
    BY <1>5, <2>1, UpdateKeeps
<1>14. ASSUME NEW writing, AR!Restart(writing) PROVE AppsHaveDirs' /\ AR!SaveIsCurrent
  BY <1>14 DEF AR!Restart, AppsHaveDirs, AR!SaveIsCurrent
<1>15. CASE UNCHANGED registryVars
  BY <1>3, <1>15 DEF registryVars
<1> QED
  BY <1>6, <1>7, <1>8, <1>9, <1>10, <1>11, <1>12, <1>13, <1>14, <1>15
  DEF RegistryStep, RegistryCall

-----------------------------------------------------------------------------
(***************************************************************************)
(* Start-up's list of routes: the manifests one after the other.           *)
(***************************************************************************)
\* A nonempty set of naturals has a least element.
LEMMA LeastElement ==
  ASSUME NEW S \in SUBSET Nat, S # {}
  PROVE  \E m \in S : \A n \in S : m <= n
<1> DEFINE R == OpToRel(<, Nat)
<1>1. IsWellFoundedOn(R, Nat)
  BY NatLessThanWellFounded
<1> HIDE DEF R
<1>2. PICK m \in S : \A n \in S : ~ (<<n, m>> \in R)
  BY <1>1, WFMin
<1>3. \A k, n \in Nat : <<n, k>> \in R <=> n < k
  BY DEF R, OpToRel
<1>4. \A n \in S : ~(n < m) /\ n \in Nat /\ m \in Nat
  BY <1>2, <1>3
<1> QED
  BY <1>4

\* The recursion of FlattenSeq.
Flattens(f, seqs, n) ==
  \A i \in 1..n : f[i] = IF i = 1 THEN seqs[i] ELSE f[i - 1] \o seqs[i]

\* It has a solution up to every position.
LEMMA FlattenExists ==
  ASSUME NEW T, NEW seqs \in Seq(Seq(T)), NEW n \in Nat, n <= Len(seqs)
  PROVE  \E f \in [1..n -> Seq(T)] : Flattens(f, seqs, n)
<1> DEFINE Solvable(k) == \E f \in [1..k -> Seq(T)] : Flattens(f, seqs, k)
           Good == {k \in Nat : k <= Len(seqs) => Solvable(k)}
<1>1. Len(seqs) \in Nat /\ \A i \in 1..Len(seqs) : seqs[i] \in Seq(T)
  BY LenProperties, ElementOfSeq
<1>2. Solvable(0)
  <2>1. [i \in 1..0 |-> {}] \in [1..0 -> Seq(T)] /\ Flattens([i \in 1..0 |-> {}], seqs, 0)
    BY DEF Flattens
  <2> QED
    BY <2>1
<1>3. ASSUME NEW k \in Nat, k + 1 <= Len(seqs), Solvable(k) PROVE Solvable(k + 1)
  <2>1. PICK g \in [1..k -> Seq(T)] : Flattens(g, seqs, k)
    BY <1>3
  <2> DEFINE last == IF k = 0 THEN seqs[1] ELSE g[k] \o seqs[k + 1]
             f == [i \in 1..(k + 1) |-> IF i = k + 1 THEN last ELSE g[i]]
  <2>2. last \in Seq(T)
    <3>1. CASE k = 0
      BY <1>1, <1>3, <3>1
    <3>2. CASE k # 0
      <4>1. g[k] \in Seq(T) /\ seqs[k + 1] \in Seq(T)
        BY <1>1, <1>3, <2>1, <3>2
      <4> QED
        BY <3>2, <4>1, ConcatProperties
    <3> QED
      BY <3>1, <3>2
  <2> HIDE DEF last
  <2>3. f \in [1..(k + 1) -> Seq(T)]
    BY <2>1, <2>2
  <2>4. ASSUME NEW i \in 1..(k + 1)
        PROVE  f[i] = IF i = 1 THEN seqs[i] ELSE f[i - 1] \o seqs[i]
    <3>1. CASE i = k + 1
      <4>1. f[i] = last
        BY <3>1
      <4>2. k # 0 => f[i - 1] = g[k]
        BY <3>1
      <4> QED
        BY <3>1, <4>1, <4>2 DEF last
    <3>2. CASE i # k + 1
      <4>1. i \in 1..k /\ f[i] = g[i]
        BY <3>2
      <4>2. i # 1 => f[i - 1] = g[i - 1]
        BY <4>1
      <4>3. g[i] = IF i = 1 THEN seqs[i] ELSE g[i - 1] \o seqs[i]
        BY <2>1, <4>1 DEF Flattens
      <4> QED
        BY <4>1, <4>2, <4>3
    <3> QED
      BY <3>1, <3>2
  <2> HIDE DEF f
  <2>5. Flattens(f, seqs, k + 1)
    BY <2>4 DEF Flattens
  <2> QED
    BY <2>3, <2>5
<1> HIDE DEF Solvable
<1>4. Good = Nat
  <2> SUFFICES ASSUME Nat \ Good # {} PROVE FALSE
    OBVIOUS
  <2>1. Nat \ Good \in SUBSET Nat
    OBVIOUS
  <2> HIDE DEF Good
  <2>2. PICK m \in Nat \ Good : \A k \in Nat \ Good : m <= k
    BY <2>1, LeastElement
  <2>3. m \in Nat /\ m <= Len(seqs) /\ ~Solvable(m)
    BY <2>2 DEF Good
  <2>4. m # 0
    BY <1>2, <2>3
  <2>5. m - 1 \in Nat /\ m - 1 + 1 = m /\ m - 1 < m /\ m - 1 <= Len(seqs)
    BY <1>1, <2>3, <2>4
  <2>6. m - 1 \in Good
    BY <2>2, <2>5
  <2>7. Solvable(m - 1)
    BY <2>5, <2>6 DEF Good
  <2>8. Solvable(m - 1 + 1)
    BY <1>3, <2>3, <2>5, <2>7
  <2> QED
    BY <2>3, <2>5, <2>8
<1> QED
  BY <1>4 DEF Solvable

\* So FlattenSeq of some sequences follows it.
LEMMA FlattenSolved ==
  ASSUME NEW T, NEW seqs \in Seq(Seq(T)), Len(seqs) # 0
  PROVE  \E c : /\ FlattenSeq(seqs) = c[Len(seqs)]
                /\ \A i \in 1..Len(seqs) :
                     c[i] \in Seq(T) /\ c[i] = IF i = 1 THEN seqs[i] ELSE c[i - 1] \o seqs[i]
<1> DEFINE n == Len(seqs)
           Solved(f) == f = [i \in 1..n |-> IF i = 1 THEN seqs[i] ELSE f[i - 1] \o seqs[i]]
           c == CHOOSE f : Solved(f)
<1>1. n \in Nat
  BY LenProperties
<1>2. FlattenSeq(seqs) = c[n]
  BY DEF FlattenSeq
<1>3. PICK f \in [1..n -> Seq(T)] : Flattens(f, seqs, n)
  <2>1. n \in Nat /\ n <= Len(seqs)
    BY <1>1
  <2> QED
    BY <2>1, FlattenExists, Zenon
<1>4. Solved(f)
  BY <1>3 DEF Flattens
<1>5. Solved(c)
  <2> HIDE DEF Solved
  <2> QED
    BY <1>4, Zenon
<1>6. \A i \in 1..n : seqs[i] \in Seq(T)
  BY <1>1, ElementOfSeq
<1>7. \A i \in 1..n : c[i] = IF i = 1 THEN seqs[i] ELSE c[i - 1] \o seqs[i]
  BY <1>5
<1> HIDE DEF c, Solved
<1> DEFINE Bad == {i \in 1..n : c[i] \notin Seq(T)}
<1>8. Bad = {}
  <2> SUFFICES ASSUME Bad # {} PROVE FALSE
    OBVIOUS
  <2>1. Bad \in SUBSET Nat /\ Bad \subseteq 1..n
    BY <1>1
  <2>2. PICK m \in Bad : \A k \in Bad : m <= k
    <3> HIDE DEF Bad
    <3> QED
      BY <2>1, LeastElement
  <2>3. m \in 1..n /\ c[m] = IF m = 1 THEN seqs[m] ELSE c[m - 1] \o seqs[m]
    BY <1>7, <2>1, <2>2
  <2>4. m # 1 /\ m - 1 \in 1..n /\ m - 1 < m
    BY <1>1, <1>6, <2>2, <2>3
  <2>5. c[m - 1] \in Seq(T)
    BY <2>2, <2>4
  <2>6. c[m] \in Seq(T)
    BY <1>6, <2>3, <2>4, <2>5, ConcatProperties
  <2> QED
    BY <2>2, <2>6
<1> QED
  BY <1>2, <1>7, <1>8, Zenon

LEMMA FlattenType ==
  ASSUME NEW T, NEW seqs \in Seq(Seq(T)) PROVE FlattenSeq(seqs) \in Seq(T)
<1>1. Len(seqs) \in Nat
  BY LenProperties
<1>2. CASE Len(seqs) = 0
  <2>1. FlattenSeq(seqs) = seqs
    BY <1>2 DEF FlattenSeq
  <2>2. seqs = << >>
    BY <1>2, EmptySeq
  <2> QED
    BY <2>1, <2>2, EmptySeq
<1>3. CASE Len(seqs) # 0
  <2>1. Len(seqs) \in 1..Len(seqs)
    BY <1>1, <1>3
  <2> QED
    BY <1>3, <2>1, FlattenSolved
<1> QED
  BY <1>2, <1>3

\* It has the elements of the sequences and no others.
LEMMA FlattenElements ==
  ASSUME NEW T, NEW seqs \in Seq(Seq(T))
  PROVE  \A x : x \in Range(FlattenSeq(seqs)) <=> \E i \in 1..Len(seqs) : x \in Range(seqs[i])
<1>1. Len(seqs) \in Nat /\ \A i \in 1..Len(seqs) : seqs[i] \in Seq(T)
  BY LenProperties, ElementOfSeq
<1>2. CASE Len(seqs) = 0
  <2>1. FlattenSeq(seqs) = seqs
    BY <1>2 DEF FlattenSeq
  <2>2. DOMAIN seqs = {} /\ 1..Len(seqs) = {}
    BY <1>2, LenProperties
  <2> QED
    BY <2>1, <2>2 DEF Range
<1>3. CASE Len(seqs) # 0
  <2> DEFINE n == Len(seqs)
  <2>1. PICK c : /\ FlattenSeq(seqs) = c[n]
                 /\ \A i \in 1..n :
                      c[i] \in Seq(T) /\ c[i] = IF i = 1 THEN seqs[i] ELSE c[i - 1] \o seqs[i]
    BY <1>3, FlattenSolved
  <2> DEFINE Elements(m) == \A x : x \in Range(c[m]) <=> \E i \in 1..m : x \in Range(seqs[i])
             Bad == {m \in 1..n : ~Elements(m)}
  <2>2. Bad = {}
    <3> SUFFICES ASSUME Bad # {} PROVE FALSE
      OBVIOUS
    <3>1. Bad \in SUBSET Nat /\ Bad \subseteq 1..n
      BY <1>1
    <3>2. PICK m \in Bad : \A k \in Bad : m <= k
      <4> HIDE DEF Bad
      <4> QED
        BY <3>1, LeastElement
    <3>3. m \in 1..n /\ c[m] = IF m = 1 THEN seqs[m] ELSE c[m - 1] \o seqs[m]
      BY <2>1, <3>1, <3>2
    <3>4. CASE m = 1
      <4>1. Elements(1)
        BY <3>3, <3>4
      <4> QED
        BY <3>2, <3>4, <4>1
    <3>5. CASE m # 1
      <4>1. m - 1 \in 1..n /\ m - 1 < m
        BY <1>1, <3>3, <3>5
      <4>2. Elements(m - 1)
        <5>1. m - 1 \notin Bad
          <6> HIDE DEF Bad
          <6> QED
            BY <1>1, <3>2, <3>3, <4>1
        <5> QED
          BY <4>1, <5>1
      <4>3. \A x : x \in Range(c[m - 1] \o seqs[m]) <=> x \in Range(c[m - 1]) \/ x \in Range(seqs[m])
        <5>1. c[m - 1] \in Seq(T) /\ seqs[m] \in Seq(T)
          BY <1>1, <2>1, <3>3, <4>1
        <5>2. Range(c[m - 1] \o seqs[m]) = Range(c[m - 1]) \cup Range(seqs[m])
          BY <5>1, RangeConcatenation
        <5> QED
          BY <5>2
      <4>4. Elements(m)
        <5>1. \A i : i \in 1..m <=> i \in 1..(m - 1) \/ i = m
          BY <1>1, <3>3, <4>1
        <5> QED
          BY <3>3, <3>5, <4>2, <4>3, <5>1
      <4> QED
        BY <3>2, <4>4
    <3> QED
      BY <3>4, <3>5
  <2>3. Elements(n)
    <3>1. n \in 1..n
      BY <1>1, <1>3
    <3> QED
      BY <2>2, <3>1
  <2> QED
    BY <2>1, <2>3
<1> QED
  BY <1>2, <1>3

\* Start-up is given every record that is on disk, and no other.
LEMMA ReloadsFacts ==
  ASSUME AR!TypeOK, NEW b \in Reloads
  PROVE  /\ b \in Seq(Bootings)
         /\ \A e : e \in Range(b) <=>
              \E a \in Apps : /\ manifests[a] # NoApp
                             /\ \E rec \in Range(manifests[a].routes) : e = [app |-> a, record |-> rec]
<1> DEFINE found == {a \in Apps : manifests[a] # NoApp}
           of(a) == [i \in 1..Len(manifests[a].routes) |->
                       [app |-> a, record |-> manifests[a].routes[i]]]
<1>1. \A a \in found : of(a) \in Seq(Bootings)
  <2> SUFFICES ASSUME NEW a \in found PROVE of(a) \in Seq(Bootings)
    OBVIOUS
  <2>1. a \in Apps /\ manifests[a].routes \in Seq(Records)
    BY DEF AR!TypeOK, AR!Manifests
  <2>2. Len(manifests[a].routes) \in Nat
    BY <2>1, LenProperties
  <2>3. \A i \in 1..Len(manifests[a].routes) : manifests[a].routes[i] \in Records
    BY <2>1, ElementOfSeq
  <2>4. \A i \in 1..Len(manifests[a].routes) :
          [app |-> a, record |-> manifests[a].routes[i]] \in Bootings
    BY <2>1, <2>3 DEF Bootings
  <2> QED
    BY <2>2, <2>4
<1>2. IsFiniteSet(found) /\ Cardinality(found) \in Nat
  BY AdminAssumption, FS_Subset, FS_CardinalityType
<1>3. PICK order \in SetToSeqs(found) :
        b = FlattenSeq([i \in 1..Len(order) |-> of(order[i])])
  BY Zenon DEF Reloads
<1>4. /\ order \in [1..Cardinality(found) -> found]
      /\ \A i, j \in 1..Cardinality(found) : i # j => order[i] # order[j]
  BY <1>3 DEF SetToSeqs
<1> HIDE DEF found
<1>5. \A a \in found : \E i \in 1..Cardinality(found) : order[i] = a
  <2>1. order \in Injection(1..Cardinality(found), found)
    BY <1>4 DEF Injection, IsInjective
  <2>2. Cardinality(1..Cardinality(found)) = Cardinality(found)
    BY <1>2, FS_Interval
  <2>3. order \in Surjection(1..Cardinality(found), found)
    BY <1>2, <2>1, <2>2, FS_Injection
  <2> QED
    BY <2>3 DEF Surjection
<1>6. \A a \in found : \A e :
        e \in Range(of(a)) <=> \E rec \in Range(manifests[a].routes) : e = [app |-> a, record |-> rec]
  <2> SUFFICES ASSUME NEW a \in found, NEW e
               PROVE  e \in Range(of(a)) <=>
                        \E rec \in Range(manifests[a].routes) : e = [app |-> a, record |-> rec]
    OBVIOUS
  <2>1. DOMAIN manifests[a].routes = 1..Len(manifests[a].routes)
    BY LenProperties DEF AR!TypeOK, AR!Manifests, found
  <2> QED
    BY <2>1 DEF Range
<1> HIDE DEF of
<1>7. Len(order) = Cardinality(found) /\ \A i \in 1..Len(order) : order[i] \in found
  BY <1>2, <1>4
<1>8. \A i \in 1..Len(order) : of(order[i]) \in Seq(Bootings)
  BY <1>1, <1>7
<1> DEFINE seqs == [i \in 1..Len(order) |-> of(order[i])]
<1>9. seqs \in Seq(Seq(Bootings)) /\ Len(seqs) = Len(order)
  BY <1>2, <1>7, <1>8
<1>10. \A i \in 1..Len(order) : seqs[i] = of(order[i])
  OBVIOUS
<1> HIDE DEF seqs
<1>11. FlattenSeq(seqs) \in Seq(Bootings)
  BY <1>9, FlattenType
<1>12. \A e : e \in Range(FlattenSeq(seqs)) <=> \E i \in 1..Len(order) : e \in Range(seqs[i])
  BY <1>9, FlattenElements
<1>13. ASSUME NEW e
       PROVE  e \in Range(FlattenSeq(seqs)) <=>
                \E a \in found : \E rec \in Range(manifests[a].routes) : e = [app |-> a, record |-> rec]
  <2>1. e \in Range(FlattenSeq(seqs)) <=> \E a \in found : e \in Range(of(a))
    BY <1>5, <1>7, <1>10, <1>12
  <2> QED
    BY <1>6, <2>1
<1> QED
  BY <1>3, <1>11, <1>13 DEF seqs, found

-----------------------------------------------------------------------------
(***************************************************************************)
(* The table.                                                              *)
(***************************************************************************)
LEMMA PatternType == \A w \in Words : Pattern(w) \in RT!Patterns
<1> SUFFICES ASSUME NEW w \in Words PROVE Pattern(w) \in RT!Patterns
  OBVIOUS
<1>1. RT!Literal(w) \in RT!Segments
  BY DEF RT!Segments
<1>2. Pattern(w) \in [1..1 -> RT!Segments]
  BY <1>1 DEF Pattern
<1> QED
  BY <1>2 DEF RT!Patterns

LEMMA StaticType ==
  /\ Len(Static) = Len(StaticWords) /\ Len(Static) \in Nat
  /\ \A i \in 1..Len(Static) : Static[i].path \in RT!Patterns
<1>1. Len(StaticWords) \in Nat /\ \A i \in 1..Len(StaticWords) : StaticWords[i] \in Words
  BY AdminAssumption, LenProperties, ElementOfSeq
<1>2. Len(Static) = Len(StaticWords)
  BY <1>1 DEF Static
<1>3. \A i \in 1..Len(Static) : Static[i].path = Pattern(StaticWords[i])
  BY <1>1, <1>2 DEF Static, Pattern, RT!Literal
<1> QED
  BY <1>1, <1>2, <1>3, PatternType

\* The live routes, position by position.
LEMMA LiveMember ==
  \A id : id \in Live <=> \E i \in 1..Len(routes) : routes[i].managed /\ routes[i].id = id
BY DEF Live

\* add_route_dyn adds one live route, with the next id.
LEMMA AddRouteFacts ==
  ASSUME TableOK, NEW a, NEW w \in Words, AddRoute(RT!Fresh, a, w)
  PROVE  /\ TableOK'
         /\ Len(issued') = Len(issued) + 1 /\ RT!Fresh = Len(issued) + 1
         /\ RT!Fresh \in RouteIds
         /\ Live' = Live \cup {RT!Fresh}
<1> DEFINE id == RT!Fresh
           n == Len(routes)
           rec == [id |-> id, method |-> [v \in {"GET"} |-> v]["GET"],
                   segments |-> Pattern(w), managed |-> TRUE]
<1>1. /\ routes' = Append(routes, rec)
      /\ issued' = Append(issued, id)
      /\ id = Len(issued) + 1 /\ id \in RouteIds
  BY DEF AddRoute, RT!AddRouteDyn, RT!Fresh
<1>2. /\ rec \in RT!Routes
      /\ rec.managed /\ rec.id = id
  BY <1>1, PatternType DEF RT!Routes, RT!Ids, RouteIds
<1> HIDE DEF rec, id
<1>3. n \in Nat /\ Len(issued) \in Nat
  BY LenProperties DEF TableOK
<1>4. /\ routes' \in Seq(RT!Routes) /\ Len(routes') = n + 1
      /\ \A i \in 1..(n + 1) : routes'[i] = IF i = n + 1 THEN rec ELSE routes[i]
  BY <1>1, <1>2, <1>3, AppendProperties DEF TableOK
<1>5. /\ issued' \in Seq(RouteIds) /\ Len(issued') = Len(issued) + 1
      /\ \A i \in 1..(Len(issued) + 1) :
           issued'[i] = IF i = Len(issued) + 1 THEN id ELSE issued[i]
  BY <1>1, <1>3, AppendProperties DEF TableOK
<1>6. TableOK'
  BY <1>1, <1>3, <1>4, <1>5 DEF TableOK, IdsIssued
<1>7. Live' = Live \cup {id}
  <2>1. \A x : x \in Live' <=> \E i \in 1..(n + 1) : routes'[i].managed /\ routes'[i].id = x
    BY <1>4 DEF Live
  <2>2. \A x \in Live' : x \in Live \cup {id}
    BY <1>2, <1>3, <1>4, <2>1, LiveMember
  <2>3. \A x \in Live : x \in Live'
    BY <1>3, <1>4, <2>1, LiveMember
  <2>4. id \in Live'
    BY <1>2, <1>3, <1>4, <2>1
  <2> QED
    BY <2>2, <2>3, <2>4
<1> QED
  BY <1>1, <1>5, <1>6, <1>7 DEF id

\* remove_route removes the live routes of the ids and no other.
LEMMA RemoveRoutesFacts ==
  ASSUME TableOK, NEW removed, RemoveRoutes(removed)
  PROVE  TableOK' /\ UNCHANGED issued /\ Live' = Live \ removed
<1> DEFINE kept == {i \in 1..Len(routes) : routes[i].id \notin removed \/ ~routes[i].managed}
<1>1. PICK p \in Ascending(kept) : routes' = [k \in DOMAIN p |-> routes[p[k]]]
  BY Zenon DEF RemoveRoutes
<1>2. UNCHANGED issued
  BY DEF RemoveRoutes
<1>3. kept \in SUBSET (1..Len(routes)) /\ routes \in Seq(RT!Routes)
  BY DEF TableOK
<1> HIDE DEF kept
<1>4. /\ [k \in DOMAIN p |-> routes[p[k]]] \in Seq(RT!Routes)
      /\ DOMAIN p = 1..Cardinality(kept) /\ Cardinality(kept) \in Nat
      /\ \A k \in DOMAIN p : p[k] \in kept
      /\ \A i \in kept : \E k \in DOMAIN p : p[k] = i
  BY <1>3, KeptFacts
<1>5. TableOK'
  BY <1>1, <1>2, <1>4 DEF TableOK, IdsIssued
<1>6. Len(routes') = Cardinality(kept) /\ \A k \in 1..Len(routes') : routes'[k] = routes[p[k]]
  BY <1>1, <1>4
<1>7. \A x : x \in Live' <=> \E k \in 1..Len(routes') : routes'[k].managed /\ routes'[k].id = x
  BY DEF Live
<1>8. \A x \in Live' : x \in Live \ removed
  BY <1>4, <1>6, <1>7, LiveMember DEF kept
<1>9. ASSUME NEW x \in Live \ removed PROVE x \in Live'
  <2>1. PICK i \in 1..Len(routes) : routes[i].managed /\ routes[i].id = x
    BY LiveMember
  <2>2. i \in kept
    BY <2>1 DEF kept
  <2>3. PICK k \in DOMAIN p : p[k] = i
    BY <1>4, <2>2
  <2> QED
    BY <1>4, <1>6, <1>7, <2>1, <2>3
<1> QED
  BY <1>2, <1>5, <1>8, <1>9

-----------------------------------------------------------------------------
(***************************************************************************)
(* The handlers.                                                           *)
(***************************************************************************)
\* The steps a handler may go to that give out no id.
Advances(r, to) ==
  /\ to \in Steps \ {"new", "record"}
  /\ StepOf(r.op, to)
  /\ r.op = "register" =>
       /\ to \in {"check", "load", "insert"} => at[r] \in {"new", "check", "load"}
       /\ to = "error" => at[r] \in {"check", "load", "insert"}
       /\ to \in {"ok", "rollback"} => at[r] = "record"
  /\ r.op \in {"unregister", "delete"} /\ at[r] \in Settled => to \in Settled

\* What was taken stays taken while handlers go on and keep what they named.
LEMMA TakenStays ==
  ASSUME HandlersOK, NEW r \in Requests, NEW to, at' = [at EXCEPT ![r] = to],
         r.op \in {"unregister", "delete"} /\ at[r] \in Settled => to \in Settled,
         \A q \in Asked("unregister") \cup Asked("delete") :
           at[q] \in Settled => ids'[q] = ids[q]
  PROVE  \A id : Taken(id) => Taken(id)'
<1> SUFFICES ASSUME NEW id, Taken(id) PROVE Taken(id)'
  OBVIOUS
<1>1. PICK q \in Asked("unregister") \cup Asked("delete") :
         id \in Range(ids[q]) /\ at[q] \in Settled
  BY DEF Taken
<1>2. q \in Requests /\ q.op \in {"unregister", "delete"}
  BY <1>1 DEF Asked
<1>3. at'[q] \in Settled
  BY <1>1, <1>2 DEF HandlersOK
<1>4. id \in Range(ids'[q])
  BY <1>1
<1> QED
  BY <1>1, <1>3, <1>4 DEF Taken

\* A handler that only goes on keeps the invariant.
LEMMA MoveKeeps ==
  ASSUME HandlersOK, NEW r \in Requests, NEW to, Advances(r, to),
         at' = [at EXCEPT ![r] = to], UNCHANGED <<tableVars, ids, owner, booting>>
  PROVE  HandlersOK'
<1>1. \A q \in Requests : at'[q] = IF q = r THEN to ELSE at[q]
  BY DEF HandlersOK
<1>2. Live' = Live /\ issued' = issued /\ ids' = ids
  BY DEF tableVars, Live
<1>3. \A id : Taken(id) => Taken(id)'
  BY <1>2, TakenStays DEF Advances
<1>4. at' \in [Requests -> Steps]
  BY DEF HandlersOK, Advances
<1>5. StepsOfOperation'
  BY <1>1 DEF HandlersOK, StepsOfOperation, Advances
<1>6. \A q \in Asked("register") : q \in Requests /\ q.op = "register"
  BY DEF Asked
<1>7. OwnIds'
  <2>1. ASSUME NEW q \in Asked("register")
        PROVE  /\ at'[q] \in {"new", "check", "load", "insert"} => ids'[q] = <<>>
               /\ at'[q] \in {"record", "rollback"} => Len(ids'[q]) = 1
    <3>1. /\ at[q] \in {"new", "check", "load", "insert"} => ids[q] = <<>>
          /\ at[q] \in {"record", "rollback"} => Len(ids[q]) = 1
      BY DEF HandlersOK, OwnIds
    <3> QED
      BY <1>1, <1>2, <1>6, <3>1 DEF Advances
  <2> QED
    BY <1>2, <2>1 DEF HandlersOK, OwnIds
<1>8. ErrorsGone'
  <2> SUFFICES ASSUME NEW q \in Asked("register"), at'[q] = "error"
               PROVE  Range(ids[q]) \cap Live = {}
    BY <1>2 DEF ErrorsGone
  <2>1. CASE q = r
    <3>1. ids[q] = <<>>
      BY <1>1, <1>6, <2>1 DEF Advances, HandlersOK, OwnIds
    <3> QED
      BY <3>1 DEF Range
  <2>2. CASE q # r
    BY <1>1, <1>6, <2>2 DEF HandlersOK, ErrorsGone
  <2> QED
    BY <2>1, <2>2
<1>9. LiveUntilTaken'
  <2> SUFFICES ASSUME NEW q \in Asked("register"), at'[q] \in {"record", "ok"},
                      NEW id \in Range(ids[q])
               PROVE  id \in Live \/ Taken(id)'
    BY <1>2 DEF LiveUntilTaken
  <2>1. at[q] \in {"record", "ok"}
    BY <1>1, <1>6 DEF Advances
  <2> QED
    BY <1>3, <2>1 DEF HandlersOK, LiveUntilTaken
<1> QED
  BY <1>2, <1>4, <1>5, <1>7, <1>8, <1>9 DEF HandlersOK

\* A request names or lists the ids it is about: nothing is taken by that yet.
LEMMA NamingKeeps ==
  ASSUME HandlersOK, NEW r \in Requests, NEW to, NEW named \in Seq(RouteIds),
         r.op \in {"unregister", "delete"}, at[r] \notin Settled, StepOf(r.op, to), to \in Steps,
         at' = [at EXCEPT ![r] = to], ids' = [ids EXCEPT ![r] = named],
         UNCHANGED <<tableVars, owner, booting>>
  PROVE  HandlersOK'
<1>1. /\ \A q \in Requests : at'[q] = IF q = r THEN to ELSE at[q]
      /\ \A q \in Requests : ids'[q] = IF q = r THEN named ELSE ids[q]
  BY DEF HandlersOK
<1>2. Live' = Live /\ issued' = issued
  BY DEF tableVars, Live
<1>3. \A q \in Asked("register") : q \in Requests /\ at'[q] = at[q] /\ ids'[q] = ids[q]
  BY <1>1 DEF Asked
<1>4. \A id : Taken(id) => Taken(id)'
  <2>1. \A q \in Asked("unregister") \cup Asked("delete") :
          at[q] \in Settled => ids'[q] = ids[q]
    BY <1>1 DEF Asked
  <2> QED
    BY <2>1, TakenStays
<1>5. at' \in [Requests -> Steps] /\ ids' \in [Requests -> Seq(RouteIds)]
  BY DEF HandlersOK
<1>6. StepsOfOperation'
  BY <1>1 DEF HandlersOK, StepsOfOperation
<1>7. OwnIds'
  BY <1>2, <1>3 DEF HandlersOK, OwnIds
<1>8. ErrorsGone'
  BY <1>2, <1>3 DEF HandlersOK, ErrorsGone
<1>9. LiveUntilTaken'
  BY <1>2, <1>3, <1>4 DEF HandlersOK, LiveUntilTaken
<1> QED
  BY <1>5, <1>6, <1>7, <1>8, <1>9 DEF HandlersOK

\* Uuids are not given out twice: no request for a registration has the next one.
LEMMA NextIdIsNew ==
  ASSUME TableOK, HandlersOK, NEW q \in Asked("register")
  PROVE  \A id \in Range(ids[q]) : id # RT!Fresh
<1>1. Len(issued) \in Nat
  BY LenProperties DEF TableOK
<1>2. ids[q] \in Seq(RouteIds)
  BY DEF HandlersOK, Asked
<1>3. \A id \in Range(ids[q]) : id \in RouteIds
  BY <1>2, LenProperties, ElementOfSeq DEF Range
<1>4. \A id \in Range(ids[q]) : id <= Len(issued)
  BY DEF HandlersOK, OwnIds
<1> QED
  BY <1>1, <1>3, <1>4 DEF RT!Fresh, RouteIds

\* A registration gets a route of its own.
LEMMA InsertStep ==
  ASSUME TableOK, HandlersOK, NEW r \in Requests, Insert(r) PROVE TableOK' /\ HandlersOK'
<1> DEFINE id == RT!Fresh
<1>1. at[r] = "insert" /\ r.op = "register" /\ r \in Asked("register")
  BY DEF Insert, HandlersOK, StepsOfOperation, StepOf, Asked
<1>2. ids[r] = <<>>
  BY <1>1 DEF HandlersOK, OwnIds
<1>3. CASE Goto(r, "insert", "error") /\ UNCHANGED <<tableVars, ids, owner, booting>>
  <2>1. at' = [at EXCEPT ![r] = "error"] /\ Advances(r, "error")
    BY <1>1, <1>3 DEF Goto, Advances, StepOf, Steps, Over, Settled
  <2>2. HandlersOK'
    BY <1>3, <2>1, MoveKeeps
  <2> QED
    BY <1>3, <2>2 DEF TableOK, IdsIssued, tableVars
<1>4. CASE /\ at' = [at EXCEPT ![r] = "record"]
           /\ AddRoute(id, r.app, r.path)
           /\ ids' = [ids EXCEPT ![r] = <<id>>]
           /\ UNCHANGED booting
  <2>1. r.app \in Apps /\ r.path \in Words
    BY <1>1, AdminAssumption
  <2>2. /\ TableOK'
        /\ Len(issued') = Len(issued) + 1 /\ id = Len(issued) + 1
        /\ id \in RouteIds
        /\ Live' = Live \cup {id}
    BY <1>4, <2>1, AddRouteFacts
  <2>3. Len(issued) \in Nat
    BY LenProperties DEF TableOK
  <2>4. owner' = [owner EXCEPT ![id] = r.app]
    BY <1>4 DEF AddRoute
  <2>5. \A q \in Asked("register") : \A x \in Range(ids[q]) : x # id
    BY NextIdIsNew
  <2>6. <<id>> \in Seq(RouteIds) /\ Len(<<id>>) = 1 /\ Range(<<id>>) = {id}
    BY <2>2 DEF Range
  <2> HIDE DEF id
  <2>7. /\ \A q \in Requests : at'[q] = IF q = r THEN "record" ELSE at[q]
        /\ \A q \in Requests : ids'[q] = IF q = r THEN <<id>> ELSE ids[q]
    BY <1>4 DEF HandlersOK
  <2>8. \A q \in Asked("register") : q \in Requests /\ q.op = "register"
    BY DEF Asked
  <2>9. /\ at' \in [Requests -> Steps]
        /\ ids' \in [Requests -> Seq(RouteIds)]
        /\ owner' \in [RouteIds -> Apps \cup {NoApp}]
        /\ booting' \in Seq(Bootings)
    BY <1>4, <2>1, <2>2, <2>4, <2>6 DEF HandlersOK, Steps
  <2>10. StepsOfOperation'
    BY <1>1, <2>7 DEF HandlersOK, StepsOfOperation, StepOf
  <2>11. \A x : Taken(x) => Taken(x)'
    <3>1. \A q \in Asked("unregister") \cup Asked("delete") : ids'[q] = ids[q]
      BY <1>1, <2>7 DEF Asked
    <3> QED
      BY <1>1, <1>4, <3>1, TakenStays
  <2>12. OwnIds'
    <3>1. ASSUME NEW q \in Asked("register")
          PROVE  /\ at'[q] \in {"new", "check", "load", "insert"} => ids'[q] = <<>>
                 /\ at'[q] \in {"record", "rollback"} => Len(ids'[q]) = 1
      BY <2>6, <2>7, <2>8 DEF HandlersOK, OwnIds
    <3>2. ASSUME NEW q \in Asked("register"), NEW x \in Range(ids'[q])
          PROVE  /\ x <= Len(issued')
                 /\ \A o \in Asked("register") : o # q => x \notin Range(ids'[o])
      <4>1. CASE q = r
        <5>1. x = id
          BY <2>6, <2>7, <4>1
        <5> QED
          BY <2>2, <2>3, <2>5, <2>7, <2>8, <4>1, <5>1
      <4>2. CASE q # r
        <5>1. x \in Range(ids[q])
          BY <2>7, <2>8, <4>2
        <5>2. x <= Len(issued) /\ \A o \in Asked("register") : o # q => x \notin Range(ids[o])
          BY <5>1 DEF HandlersOK, OwnIds
        <5>3. x \in RouteIds
          <6>1. ids[q] \in Seq(RouteIds)
            BY <2>8 DEF HandlersOK
          <6> QED
            BY <5>1, <6>1, LenProperties, ElementOfSeq DEF Range
        <5> QED
          BY <2>2, <2>3, <2>5, <2>6, <2>7, <2>8, <5>1, <5>2, <5>3 DEF RouteIds
      <4> QED
        BY <4>1, <4>2
    <3> QED
      BY <3>1, <3>2 DEF OwnIds
  <2>13. ErrorsGone'
    BY <2>2, <2>5, <2>7, <2>8 DEF HandlersOK, ErrorsGone
  <2>14. LiveUntilTaken'
    <3> SUFFICES ASSUME NEW q \in Asked("register"), at'[q] \in {"record", "ok"},
                        NEW x \in Range(ids'[q])
                 PROVE  x \in Live' \/ Taken(x)'
      BY DEF LiveUntilTaken
    <3>1. CASE q = r
      BY <2>2, <2>6, <2>7, <2>8, <3>1
    <3>2. CASE q # r
      BY <2>2, <2>7, <2>8, <2>11, <3>2 DEF HandlersOK, LiveUntilTaken
    <3> QED
      BY <3>1, <3>2
  <2> QED
    BY <2>2, <2>9, <2>10, <2>12, <2>13, <2>14 DEF HandlersOK
<1> QED
  BY <1>1, <1>3, <1>4 DEF Insert, Goto

\* A failed registration takes its own route back; a request that has named or
\* listed routes takes those.
LEMMA RemovalKeeps ==
  ASSUME TableOK, HandlersOK, NEW r \in Requests, NEW to,
         \/ r.op = "register" /\ at[r] = "rollback" /\ to = "error"
         \/ r.op \in {"unregister", "delete"} /\ at[r] \notin Settled /\ to \in Settled,
         StepOf(r.op, to), to \in Steps,
         at' = [at EXCEPT ![r] = to], RemoveRoutes(Range(ids[r])),
         UNCHANGED <<ids, owner, booting>>
  PROVE  TableOK' /\ HandlersOK'
<1>1. TableOK' /\ issued' = issued /\ Live' = Live \ Range(ids[r])
  BY RemoveRoutesFacts
<1>2. \A q \in Requests : at'[q] = IF q = r THEN to ELSE at[q]
  BY DEF HandlersOK
<1>3. \A q \in Asked("register") : q \in Requests /\ q.op = "register"
  BY DEF Asked
<1>4. at' \in [Requests -> Steps] /\ StepsOfOperation'
  BY <1>2 DEF HandlersOK, StepsOfOperation
<1>5. \A id : Taken(id) => Taken(id)'
  BY TakenStays
<1>6. OwnIds'
  <2>1. \A q \in Asked("register") :
          at'[q] \in {"new", "check", "load", "insert", "record", "rollback"} => at'[q] = at[q]
    BY <1>2, <1>3 DEF Settled, Over
  <2> QED
    BY <1>1, <2>1 DEF HandlersOK, OwnIds
<1>7. ErrorsGone'
  BY <1>1, <1>2, <1>3 DEF HandlersOK, ErrorsGone
<1>8. LiveUntilTaken'
  <2> SUFFICES ASSUME NEW q \in Asked("register"), at'[q] \in {"record", "ok"},
                      NEW id \in Range(ids[q])
               PROVE  id \in Live' \/ Taken(id)'
    BY DEF LiveUntilTaken
  <2>1. q # r /\ at[q] \in {"record", "ok"}
    BY <1>2, <1>3
  <2>2. id \in Live \/ Taken(id)
    BY <2>1 DEF HandlersOK, LiveUntilTaken
  <2>3. CASE id \notin Range(ids[r])
    BY <1>1, <1>5, <2>2, <2>3
  <2>4. CASE id \in Range(ids[r])
    <3>1. r \notin Asked("register")
      BY <2>1, <2>4 DEF HandlersOK, OwnIds
    <3>2. r.op \in {"unregister", "delete"} /\ at'[r] \in Settled
      BY <1>2, <3>1 DEF Asked
    <3>3. id \in Range(ids'[r])
      BY <2>4
    <3> QED
      BY <3>2, <3>3 DEF Taken, Asked
  <2> QED
    BY <2>3, <2>4
<1> QED
  BY <1>1, <1>4, <1>6, <1>7, <1>8 DEF HandlersOK

\* Rollback, Unroute and Unload.
LEMMA RemovalStep ==
  ASSUME TableOK, HandlersOK, NEW r \in Requests, Rollback(r) \/ Unroute(r) \/ Unload(r)
  PROVE  TableOK' /\ HandlersOK'
<1>1. CASE Rollback(r)
  <2>1. r.op = "register" /\ at[r] = "rollback" /\ at' = [at EXCEPT ![r] = "error"]
    BY <1>1 DEF Rollback, Goto, HandlersOK, StepsOfOperation, StepOf
  <2>2. StepOf(r.op, "error") /\ "error" \in Steps
    BY DEF StepOf, Steps, Over
  <2> QED
    BY <1>1, <2>1, <2>2, RemovalKeeps DEF Rollback
<1>2. CASE Unroute(r)
  <2> DEFINE to == IF Range(ids[r]) \subseteq Live THEN "unrecord" ELSE "error"
  <2>1. r.op = "unregister" /\ at[r] = "unroute" /\ at' = [at EXCEPT ![r] = to]
    BY <1>2 DEF Unroute, Goto, HandlersOK, StepsOfOperation, StepOf
  <2>2. StepOf(r.op, to) /\ to \in Steps /\ to \in Settled /\ at[r] \notin Settled
    BY <2>1 DEF StepOf, Steps, Over, Settled
  <2> HIDE DEF to
  <2> QED
    BY <1>2, <2>1, <2>2, RemovalKeeps DEF Unroute
<1>3. CASE Unload(r)
  <2>1. r.op = "delete" /\ at[r] = "unload" /\ at' = [at EXCEPT ![r] = "delete"]
    BY <1>3 DEF Unload, Goto, HandlersOK, StepsOfOperation, StepOf
  <2>2. StepOf(r.op, "delete") /\ "delete" \in Steps /\ "delete" \in Settled /\ at[r] \notin Settled
    BY <2>1 DEF StepOf, Steps, Over, Settled
  <2> QED
    BY <1>3, <2>1, <2>2, RemovalKeeps DEF Unload
<1> QED
  BY <1>1, <1>2, <1>3

\* The process ends: the handlers with their ids are lost, the table has the
\* static routes under new ids.
LEMMA RestartStep ==
  ASSUME AR!TypeOK, TableOK, HandlersOK, Restart PROVE TableOK' /\ HandlersOK'
<1>1. /\ issued' = issued \o StaticIds
      /\ routes' = [i \in 1..Len(Static) |->
                      [id |-> StaticIds[i], method |-> "GET", segments |-> Static[i].path,
                       managed |-> FALSE]]
      /\ Len(issued) + Len(Static) <= MaxId
      /\ at' = [r \in Requests |-> IF at[r] \in Over \cup {"new"} THEN at[r] ELSE "gone"]
      /\ ids' = [r \in Requests |-> <<>>]
      /\ booting' \in Reloads
      /\ owner' = owner
  BY DEF Restart
<1>2. Len(issued) \in Nat /\ Len(Static) \in Nat
  BY StaticType, LenProperties DEF TableOK
<1>3. /\ StaticIds \in Seq(RouteIds) /\ Len(StaticIds) = Len(Static)
      /\ \A i \in 1..Len(Static) : StaticIds[i] = Len(issued) + i /\ StaticIds[i] \in RouteIds
  <2>1. \A i \in 1..Len(Static) : Len(issued) + i \in RouteIds
    BY <1>1, <1>2, AdminAssumption DEF RouteIds
  <2>2. StaticIds \in [1..Len(Static) -> RouteIds]
    BY <2>1 DEF StaticIds
  <2> QED
    BY <1>2, <2>1, <2>2 DEF StaticIds
<1>4. TableOK'
  <2>1. routes' \in Seq(RT!Routes)
    <3>1. \A i \in 1..Len(Static) :
            [id |-> StaticIds[i], method |-> "GET", segments |-> Static[i].path,
             managed |-> FALSE] \in RT!Routes
      BY <1>3, StaticType DEF RT!Routes, RT!Ids, RouteIds
    <3> QED
      BY <1>1, <1>2, <3>1
  <2>2. /\ issued' \in Seq(RouteIds)
        /\ Len(issued') = Len(issued) + Len(Static)
        /\ \A i \in 1..(Len(issued) + Len(Static)) :
             issued'[i] = IF i <= Len(issued) THEN issued[i] ELSE StaticIds[i - Len(issued)]
    <3>1. issued \in Seq(RouteIds) /\ StaticIds \in Seq(RouteIds)
      BY <1>3 DEF TableOK
    <3>2. /\ issued \o StaticIds \in Seq(RouteIds)
          /\ Len(issued \o StaticIds) = Len(issued) + Len(StaticIds)
          /\ \A i \in 1..(Len(issued) + Len(StaticIds)) :
               (issued \o StaticIds)[i]
                 = IF i <= Len(issued) THEN issued[i] ELSE StaticIds[i - Len(issued)]
      BY <3>1, ConcatProperties
    <3> QED
      BY <1>1, <1>3, <3>2
  <2>3. ASSUME NEW i \in 1..(Len(issued) + Len(Static)) PROVE issued'[i] = i
    <3>1. CASE i <= Len(issued)
      BY <1>2, <2>2, <3>1 DEF TableOK, IdsIssued
    <3>2. CASE ~(i <= Len(issued))
      <4>1. i - Len(issued) \in 1..Len(Static) /\ Len(issued) + (i - Len(issued)) = i
        BY <1>2, <3>2
      <4>2. StaticIds[i - Len(issued)] = i
        BY <1>3, <4>1
      <4> QED
        BY <2>2, <3>2, <4>2
    <3> QED
      BY <3>1, <3>2
  <2> QED
    BY <2>1, <2>2, <2>3 DEF TableOK, IdsIssued
<1>5. booting' \in Seq(Bootings)
  BY <1>1, ReloadsFacts
<1>6. at' \in [Requests -> Steps] /\ ids' \in [Requests -> Seq(RouteIds)]
  BY <1>1 DEF HandlersOK, Steps, Over
<1>7. \A r \in Requests : ids'[r] = <<>> /\ at'[r] \in Over \cup {"new"}
  BY <1>1 DEF Over
<1>8. StepsOfOperation'
  BY <1>7 DEF StepsOfOperation, StepOf, Over
<1>9. \A r \in Asked("register") : r \in Requests /\ Range(ids'[r]) = {}
  BY <1>7 DEF Asked, Range
<1>10. OwnIds' /\ ErrorsGone' /\ LiveUntilTaken'
  BY <1>7, <1>9 DEF OwnIds, ErrorsGone, LiveUntilTaken, Over
<1> QED
  BY <1>1, <1>4, <1>5, <1>6, <1>8, <1>10 DEF HandlersOK

\* Start-up registers a route or passes it over.
LEMMA ReloadStep ==
  ASSUME TableOK, HandlersOK, Reload PROVE TableOK' /\ HandlersOK'
<1> DEFINE app == booting[1].app  rec == booting[1].record
<1>1. booting # <<>> /\ booting' = Tail(booting) /\ UNCHANGED <<at, ids>>
  BY DEF Reload
<1>2. app \in Apps /\ rec.path \in Words
  <2>1. booting[1] \in Bootings
    BY <1>1, EmptySeq, LenProperties, ElementOfSeq DEF HandlersOK
  <2> QED
    BY <2>1 DEF Bootings, Records
<1>3. booting' \in Seq(Bootings)
  BY <1>1, HeadTailProperties DEF HandlersOK
<1>4. /\ StepsOfOperation'
      /\ \A id : Taken(id) => Taken(id)'
  BY <1>1 DEF HandlersOK, StepsOfOperation, Taken
<1>5. CASE UNCHANGED <<tableVars, owner, refused>>
  <2>1. TableOK' /\ Live' = Live /\ issued' = issued
    BY <1>5 DEF TableOK, IdsIssued, Live, tableVars
  <2>2. OwnIds' /\ ErrorsGone' /\ LiveUntilTaken'
    BY <1>1, <1>4, <2>1 DEF HandlersOK, OwnIds, ErrorsGone, LiveUntilTaken
  <2> QED
    BY <1>1, <1>3, <1>4, <1>5, <2>1, <2>2 DEF HandlersOK
<1>6. CASE AddRoute(RT!Fresh, app, rec.path)
  <2>1. /\ TableOK'
        /\ Len(issued') = Len(issued) + 1
        /\ RT!Fresh \in RouteIds
        /\ Live' = Live \cup {RT!Fresh}
    BY <1>2, <1>6, AddRouteFacts
  <2>2. Len(issued) \in Nat
    BY LenProperties DEF TableOK
  <2>3. owner' \in [RouteIds -> Apps \cup {NoApp}]
    BY <1>2, <1>6 DEF AddRoute, HandlersOK
  <2>4. \A q \in Asked("register") : \A id \in Range(ids[q]) : id # RT!Fresh
    BY NextIdIsNew
  <2>5. OwnIds'
    <3>1. ASSUME NEW q \in Asked("register"), NEW id \in Range(ids[q]) PROVE id <= Len(issued')
      <4>1. id <= Len(issued)
        BY DEF HandlersOK, OwnIds
      <4>2. id \in RouteIds
        <5>1. ids[q] \in Seq(RouteIds)
          BY DEF HandlersOK, Asked
        <5> QED
          BY <5>1, LenProperties, ElementOfSeq DEF Range
      <4> QED
        BY <2>1, <2>2, <4>1, <4>2 DEF RouteIds
    <3> QED
      BY <1>1, <3>1 DEF HandlersOK, OwnIds
  <2>6. ErrorsGone'
    BY <1>1, <2>1, <2>4 DEF HandlersOK, ErrorsGone
  <2>7. LiveUntilTaken'
    BY <1>1, <1>4, <2>1 DEF HandlersOK, LiveUntilTaken
  <2> QED
    BY <1>1, <1>3, <1>4, <2>1, <2>3, <2>5, <2>6, <2>7 DEF HandlersOK
<1> QED
  BY <1>5, <1>6 DEF Reload

\* The steps that give out or take away no route.
LEMMA PlainStep ==
  ASSUME HandlersOK, NEW r \in Requests,
         \/ Arrive(r) \/ MakeDir(r) \/ Enlist(r) \/ Disband(r) \/ Create(r) \/ Write(r)
         \/ File(r) \/ RemoveFile(r) \/ Check(r) \/ Load(r) \/ Record(r) \/ Unrecord(r)
         \/ Delete(r) \/ Leave(r) \/ Snapshot(r),
         UNCHANGED ids
  PROVE  HandlersOK' /\ UNCHANGED tableVars
<1>1. StepOf(r.op, at[r])
  BY DEF HandlersOK, StepsOfOperation
<1>2. ASSUME NEW to, Advances(r, to), at' = [at EXCEPT ![r] = to],
             UNCHANGED <<tableVars, ids, owner, booting>>
      PROVE  HandlersOK' /\ UNCHANGED tableVars
  BY <1>2, MoveKeeps
<1> USE DEF Advances, StepOf, Steps, Over, Settled, Goto
<1>3. CASE Arrive(r)
  <2>1. at[r] = "new" /\ at' = [at EXCEPT ![r] = First(r.op)]
    BY <1>3 DEF Arrive
  <2>2. r.op \in {"namespace", "disband", "create", "delete", "upload", "remove", "register",
                  "unregister"}
    BY AdminAssumption
  <2>3. Advances(r, First(r.op))
    BY <2>1, <2>2 DEF First
  <2> QED
    BY <1>2, <1>3, <2>1, <2>3 DEF Arrive
<1>4. CASE MakeDir(r)
  <2>1. Advances(r, "enlist") /\ Advances(r, "error")
    BY <1>1, <1>4 DEF MakeDir, Call
  <2> QED
    BY <1>2, <1>4, <2>1 DEF MakeDir, Call
<1>5. CASE Enlist(r)
  <2>1. Advances(r, "ok") /\ Advances(r, "error")
    BY <1>1, <1>5 DEF Enlist, Call
  <2> QED
    BY <1>2, <1>5, <2>1 DEF Enlist, Call
<1>6. CASE Disband(r)
  <2>1. Advances(r, "ok") /\ Advances(r, "error")
    BY <1>1, <1>6 DEF Disband, Call
  <2> QED
    BY <1>2, <1>6, <2>1 DEF Disband, Call
<1>7. CASE Create(r)
  <2>1. Advances(r, "ok") /\ Advances(r, "error")
    BY <1>1, <1>7 DEF Create, Call
  <2> QED
    BY <1>2, <1>7, <2>1 DEF Create, Call
<1>8. CASE Write(r)
  <2>1. Advances(r, "file") /\ Advances(r, "error")
    BY <1>1, <1>8 DEF Write, Call
  <2> QED
    BY <1>2, <1>8, <2>1 DEF Write, Call
<1>9. CASE File(r)
  <2>1. Advances(r, "ok") /\ Advances(r, "error")
    BY <1>1, <1>9 DEF File, Call
  <2> QED
    BY <1>2, <1>9, <2>1 DEF File, Call
<1>10. CASE RemoveFile(r)
  <2>1. Advances(r, "ok") /\ Advances(r, "error")
    BY <1>1, <1>10 DEF RemoveFile, Call
  <2> QED
    BY <1>2, <1>10, <2>1 DEF RemoveFile, Call
<1>11. CASE Check(r)
  <2>1. Advances(r, "load") /\ Advances(r, "error")
    BY <1>1, <1>11 DEF Check
  <2> QED
    BY <1>2, <1>11, <2>1 DEF Check
<1>12. CASE Load(r)
  <2>1. Advances(r, "insert") /\ Advances(r, "error")
    BY <1>1, <1>12 DEF Load
  <2> QED
    BY <1>2, <1>12, <2>1 DEF Load
<1>13. CASE Record(r)
  <2>1. Advances(r, "ok") /\ Advances(r, "rollback")
    BY <1>1, <1>13 DEF Record, Call
  <2> QED
    BY <1>2, <1>13, <2>1 DEF Record, Call
<1>14. CASE Unrecord(r)
  <2>1. Advances(r, "ok")
    BY <1>1, <1>14 DEF Unrecord, Call
  <2> QED
    BY <1>2, <1>14, <2>1 DEF Unrecord, Call
<1>15. CASE Delete(r)
  <2>1. Advances(r, "ok") /\ Advances(r, "error")
    BY <1>1, <1>15 DEF Delete, Call
  <2> QED
    BY <1>2, <1>15, <2>1 DEF Delete, Call
<1>16. CASE Leave(r)
  <2>1. Advances(r, "left")
    BY <1>1, <1>16 DEF Leave
  <2> QED
    BY <1>2, <1>16, <2>1 DEF Leave
<1>17. CASE Snapshot(r)
  <2>1. Advances(r, "unload") /\ Advances(r, "error")
    BY <1>1, <1>17 DEF Snapshot
  <2> QED
    BY <1>2, <1>17, <2>1 DEF Snapshot
<1> QED
  BY <1>3, <1>4, <1>5, <1>6, <1>7, <1>8, <1>9, <1>10, <1>11, <1>12, <1>13, <1>14, <1>15,
     <1>16, <1>17

\* Whatever a handler does next.
LEMMA HandleStep ==
  ASSUME AR!TypeOK, TableOK, HandlersOK, NEW r \in Requests, Handle(r) \/ Leave(r)
  PROVE  TableOK' /\ HandlersOK'
<1>1. ASSUME HandlersOK' /\ UNCHANGED tableVars PROVE TableOK' /\ HandlersOK'
  BY <1>1 DEF TableOK, IdsIssued, tableVars
<1>2. CASE Insert(r)
  BY <1>2, InsertStep
<1>3. CASE Rollback(r) \/ Unroute(r) \/ Unload(r)
  BY <1>3, RemovalStep
<1>4. CASE Arrive(r) /\ ids' # ids
  <2>1. PICK id \in Listed : ids' = [ids EXCEPT ![r] = <<id>>]
    BY <1>4 DEF Arrive
  <2>2. r.op = "unregister" /\ at[r] = "new" /\ at' = [at EXCEPT ![r] = "unroute"]
    BY <1>4 DEF Arrive, Goto, First
  <2>3. id \in RouteIds
    <3>1. PICK a \in Apps : \E rec \in Recorded(a) : id = rec.id
      BY DEF Listed
    <3>2. PICK rec \in Recorded(a) : id = rec.id
      BY <3>1
    <3>3. apps[a].routes \in Seq(Records) /\ rec \in Range(apps[a].routes)
      BY <3>2 DEF Recorded, AR!TypeOK, AR!Manifests
    <3>4. rec \in Records
      BY <3>3, LenProperties, ElementOfSeq DEF Range
    <3> QED
      BY <3>2, <3>4 DEF Records
  <2>4. <<id>> \in Seq(RouteIds)
    BY <2>3
  <2>5. at[r] \notin Settled /\ StepOf(r.op, "unroute") /\ "unroute" \in Steps
    BY <2>2 DEF Settled, Over, StepOf, Steps
  <2>6. UNCHANGED <<tableVars, owner, booting>>
    BY <1>4 DEF Arrive
  <2>7. HandlersOK'
    BY <2>1, <2>2, <2>4, <2>5, <2>6, NamingKeeps
  <2> QED
    BY <1>1, <2>6, <2>7
<1>5. CASE Snapshot(r) /\ ids' # ids
  <2> DEFINE named == [i \in 1..Len(apps[r.app].routes) |-> apps[r.app].routes[i].id]
  <2>1. /\ apps[r.app] # NoApp /\ at[r] = "snapshot" /\ at' = [at EXCEPT ![r] = "unload"]
        /\ ids' = [ids EXCEPT ![r] = named]
        /\ UNCHANGED <<tableVars, owner, booting>>
    BY <1>5 DEF Snapshot, Goto
  <2>2. r.op = "delete"
    BY <2>1 DEF HandlersOK, StepsOfOperation, StepOf
  <2>3. named \in Seq(RouteIds)
    <3>1. r.app \in Apps
      BY <2>2, AdminAssumption
    <3>2. apps[r.app].routes \in Seq(Records)
      BY <2>1, <3>1 DEF AR!TypeOK, AR!Manifests
    <3>3. \A i \in 1..Len(apps[r.app].routes) : apps[r.app].routes[i].id \in RouteIds
      <4>1. \A i \in 1..Len(apps[r.app].routes) : apps[r.app].routes[i] \in Records
        BY <3>2, ElementOfSeq
      <4> QED
        BY <4>1 DEF Records
    <3>4. Len(apps[r.app].routes) \in Nat
      BY <3>2, LenProperties
    <3> QED
      BY <3>3, <3>4
  <2>4. at[r] \notin Settled /\ StepOf(r.op, "unload") /\ "unload" \in Steps
    BY <2>1, <2>2 DEF Settled, Over, StepOf, Steps
  <2> HIDE DEF named
  <2>5. HandlersOK'
    BY <2>1, <2>2, <2>3, <2>4, NamingKeeps
  <2> QED
    BY <1>1, <2>1, <2>5
<1>6. CASE Arrive(r) /\ ids' = ids
  BY <1>1, <1>6, PlainStep
<1>7. CASE Snapshot(r) /\ ids' = ids
  BY <1>1, <1>7, PlainStep
<1>8. CASE MakeDir(r) \/ Enlist(r) \/ Disband(r) \/ Create(r) \/ Write(r)
           \/ File(r) \/ RemoveFile(r) \/ Check(r) \/ Load(r) \/ Record(r) \/ Unrecord(r)
           \/ Delete(r) \/ Leave(r)
  <2>1. ids' = ids
    BY <1>8 DEF MakeDir, Enlist, Disband, Create, Write, File, RemoveFile, Check, Load, Record,
                Unrecord, Delete, Leave, Call
  <2> QED
    BY <1>1, <1>8, <2>1, PlainStep
<1> QED
  BY <1>2, <1>3, <1>4, <1>5, <1>6, <1>7, <1>8 DEF Handle

LEMMA InitIInv == Init => IInv
<1> SUFFICES ASSUME Init PROVE IInv
  OBVIOUS
<1>1. AR!TypeOK /\ AppsHaveDirs
  BY DEF Init, AR!Init, AR!TypeOK, AR!NoBlobs, AR!Contents, AppsHaveDirs
<1>2. Len(Static) \in Nat /\ Len(Static) <= MaxId
  BY StaticType, AdminAssumption
<1>3. /\ issued = [i \in 1..Len(Static) |-> i]
      /\ \A i \in 1..Len(Static) : routes[i] \in RT!Routes
      /\ \E f : routes = [i \in 1..Len(Static) |-> f[i]]
  <2>1. issued = [i \in 1..Len(Static) |-> i]
    BY DEF Init, RT!Init
  <2>2. routes = [i \in 1..Len(Static) |->
                    [id |-> issued[i], method |-> [v \in {"GET"} |-> v][Static[i].method],
                     segments |-> Static[i].path, managed |-> FALSE]]
    BY DEF Init, RT!Init
  <2>3. \A i \in 1..Len(Static) : Static[i].method = "GET"
    BY StaticType, AdminAssumption, LenProperties DEF Static
  <2>4. \A i \in 1..Len(Static) :
          [id |-> issued[i], method |-> [v \in {"GET"} |-> v][Static[i].method],
           segments |-> Static[i].path, managed |-> FALSE] \in RT!Routes
    BY <1>2, <2>1, <2>3, StaticType, AdminAssumption DEF RT!Routes, RT!Ids
  <2>5. \A i \in 1..Len(Static) : routes[i] \in RT!Routes
    BY <2>2, <2>4
  <2> QED
    BY <2>1, <2>2, <2>5
<1>4. TableOK
  <2>1. routes \in Seq(RT!Routes)
    BY <1>2, <1>3
  <2>2. issued \in Seq(RouteIds) /\ Len(issued) = Len(Static)
    BY <1>2, <1>3, AdminAssumption DEF RouteIds
  <2> QED
    BY <1>2, <1>3, <2>1, <2>2 DEF TableOK, IdsIssued
<1>5. /\ \A r \in Requests : at[r] = "new" /\ ids[r] = <<>>
      /\ at \in [Requests -> Steps]
      /\ ids \in [Requests -> Seq(RouteIds)]
      /\ owner \in [RouteIds -> Apps \cup {NoApp}]
      /\ booting \in Seq(Bootings)
  BY DEF Init, Steps
<1>6. StepsOfOperation
  BY <1>5 DEF StepsOfOperation, StepOf
<1>7. OwnIds /\ ErrorsGone /\ LiveUntilTaken
  BY <1>5 DEF OwnIds, ErrorsGone, LiveUntilTaken, Asked, Range
<1> QED
  BY <1>1, <1>4, <1>5, <1>6, <1>7 DEF IInv, HandlersOK

LEMMA NextStep == IInv /\ [Next]_vars => IInv'
<1> SUFFICES ASSUME IInv, [Next]_vars PROVE IInv'
  OBVIOUS
<1>1. AR!TypeOK /\ TableOK /\ HandlersOK /\ AppsHaveDirs
  BY DEF IInv
<1>2. RegistryStep
  BY <1>1, StepIsRegistryStep
<1>3. AR!TypeOK' /\ AppsHaveDirs'
  BY <1>1, <1>2, RegistryTypes, RegistryKeeps
<1>4. TableOK' /\ HandlersOK'
  <2>1. ASSUME NEW r \in Requests, Handle(r) \/ Leave(r) PROVE TableOK' /\ HandlersOK'
    BY <1>1, <2>1, HandleStep
  <2>2. CASE Restart
    BY <1>1, <2>2, RestartStep
  <2>3. CASE Reload
    BY <1>1, <2>3, ReloadStep
  <2>4. CASE UNCHANGED vars
    <3>1. TableOK' /\ Live' = Live
      BY <1>1, <2>4 DEF vars, tableVars, TableOK, IdsIssued, Live
    <3>2. \A id : Taken(id) => Taken(id)'
      BY <2>4 DEF vars, Taken
    <3>3. StepsOfOperation' /\ OwnIds' /\ ErrorsGone' /\ LiveUntilTaken'
      BY <1>1, <2>4, <3>1, <3>2
      DEF vars, tableVars, HandlersOK, StepsOfOperation, OwnIds, ErrorsGone,
          LiveUntilTaken
    <3> QED
      BY <1>1, <2>4, <3>1, <3>3 DEF vars, HandlersOK
  <2> QED
    BY <2>1, <2>2, <2>3, <2>4 DEF Next
<1> QED
  BY <1>3, <1>4 DEF IInv

LEMMA Invariance == Spec => []IInv
<1>1. Init => IInv
  BY InitIInv
<1>2. IInv /\ [Next]_vars => IInv'
  BY NextStep
<1> QED
  BY <1>1, <1>2, PTL DEF Spec

-----------------------------------------------------------------------------
(***************************************************************************)
(* Routes and records.  While nothing is undone, what the manifests record *)
(* and what the table serves correspond, step by step of every handler and *)
(* of start-up: Correspondence is inductive as long as the engine is       *)
(* Undisturbed.                                                            *)
(***************************************************************************)

\* Every upload brings source, and none replaces another one.
SourceUploadedOnce ==
  \A u \in Asked("upload") :
    /\ u.content = "source"
    /\ \A v \in Asked("upload") : v.app = u.app /\ v.file = u.file => v = u

OneApplication == \A a, b \in Apps : a = b

\* The disk works, nobody asked to undo anything; or only, of the one
\* application there is, to unregister routes, and no client left.
NobodyLeft == \A r \in Requests : at[r] # "left"
Undisturbed ==
  /\ disk_ok
  /\ NoneAsked({"delete", "remove"})
  /\ NoneAsked({"unregister"}) \/ (OneApplication /\ NobodyLeft)

\* No file that is listed is being written, or will be.
FilesWritten ==
  /\ \A a \in Apps : apps[a] # NoApp =>
       \A f \in apps[a].files :
         /\ blobs[a][f] \in {"source", "missing"}
         /\ \A u \in Asked("upload") : u.app = a /\ u.file = f => at[u] \notin {"new", "write"}
  /\ \A u \in Asked("upload") : at[u] = "file" => blobs[u.app][u.file] \in {"source", "missing"}

\* The file f of a is listed and has source.
Loadable(a, f) == apps[a] # NoApp /\ f \in apps[a].files /\ blobs[a][f] = "source"

\* Ids that are in use were given out.
AllIssued ==
  /\ \A i \in 1..Len(routes) : routes[i].id <= Len(issued)
  /\ \A r \in Requests : \A id \in Range(ids[r]) : id <= Len(issued)
  /\ \A id \in Listed : id <= Len(issued)

\* A managed route has its path for itself; the others are the static ones.
PathsApart ==
  /\ \A i, j \in 1..Len(routes) :
       i # j /\ routes[i].managed => routes[i].segments # routes[j].segments
  /\ \A k \in 1..Len(StaticWords) :
       \E i \in 1..Len(routes) : ~routes[i].managed /\ routes[i].segments = Pattern(StaticWords[k])
  /\ \A i \in 1..Len(routes) : ~routes[i].managed =>
       \E k \in 1..Len(StaticWords) : routes[i].segments = Pattern(StaticWords[k])

\* The route id serves the path w for the application a.
ServedBy(a, w, id) ==
  /\ \E i \in 1..Len(routes) :
       routes[i].managed /\ routes[i].segments = Pattern(w) /\ routes[i].id = id
  /\ owner[id] = a

\* A recorded id of an earlier process, which no request can take any more, and
\* the id of a route that start-up gave out, which no client has seen.
Stale(id) ==
  id \notin Live /\ \A q \in Asked("unregister") : at[q] = "unrecord" => id \notin Range(ids[q])
Unseen(id) == id \notin Listed /\ \A r \in Requests : id \notin Range(ids[r])

\* Each record is served, by its own route or the one of start-up, or will be,
\* or is about to be removed.
RecordServed(a, rec) ==
  \/ ServedBy(a, rec.path, rec.id)
  \/ /\ Stale(rec.id)
     /\ \/ \E id \in RouteIds : Unseen(id) /\ ServedBy(a, rec.path, id)
        \/ [app |-> a, record |-> rec] \in Range(booting)
  \/ \E q \in Asked("unregister") : at[q] = "unrecord" /\ rec.id \in Range(ids[q])

RecordOK(a, rec) ==
  /\ Loadable(a, rec.file)
  /\ rec.path \notin Range(StaticWords)
  /\ RecordServed(a, rec)
  /\ \A b \in Apps : \A other \in Recorded(b) : other.path = rec.path => b = a
RecordsServed == \A a \in Apps : \A rec \in Recorded(a) : RecordOK(a, rec)

\* Each managed route is recorded or about to be.
RouteRecorded(i) ==
  \/ \E a \in Apps : \E rec \in Recorded(a) :
       /\ owner[routes[i].id] = a /\ routes[i].segments = Pattern(rec.path)
       /\ rec.id = routes[i].id \/ Stale(rec.id)
  \/ \E r \in Asked("register") :
       /\ at[r] = "record" /\ routes[i].id \in Range(ids[r])
       /\ routes[i].segments = Pattern(r.path)
RoutesRecorded ==
  NobodyLeft => \A i \in 1..Len(routes) : routes[i].managed => RouteRecorded(i)

\* Start-up registers what is recorded, and has registered nothing else; it lets
\* no handler run.
BootsRecorded ==
  /\ \A k \in 1..Len(booting) : booting[k].record \in Recorded(booting[k].app)
  /\ booting # <<>> => \A r \in Requests : at[r] \in Over \cup {"new"}
  /\ booting # <<>> => \A i \in 1..Len(routes) : routes[i].managed =>
       /\ Unseen(routes[i].id)
       /\ \E a \in Apps : \E rec \in Recorded(a) :
            owner[routes[i].id] = a /\ routes[i].segments = Pattern(rec.path)

\* What a handler has established, still holds.
RegisterOK(r) ==
  /\ at[r] = "load" => apps[r.app] # NoApp /\ r.file \in apps[r.app].files
  /\ at[r] \in {"insert", "record"} => Loadable(r.app, r.file)
  /\ at[r] = "record" =>
       \A id \in Range(ids[r]) :
         /\ ServedBy(r.app, r.path, id)
         /\ id \notin Listed
         /\ \A q \in Requests : q # r => id \notin Range(ids[q])
  /\ at[r] # "rollback"
  /\ at[r] = "ok" /\ NoneAsked({"unregister"}) => \E rec \in Recorded(r.app) : rec.path = r.path
RegistersOK == \A r \in Asked("register") : RegisterOK(r)

UnregistersOK ==
  \A q \in Asked("unregister") :
    /\ at[q] \in {"unroute", "unrecord"} => Len(ids[q]) = 1
    /\ at[q] = "unrecord" => Range(ids[q]) \cap Live = {}

Correspondence ==
  /\ FilesWritten /\ AllIssued /\ PathsApart
  /\ RecordsServed /\ RoutesRecorded /\ BootsRecorded
  /\ RegistersOK /\ UnregistersOK
CalmOK == Undisturbed => Correspondence

-----------------------------------------------------------------------------
\* What the registry keeps in a step that changes no record.
RegistryKept ==
  \A a \in Apps :
    /\ Recorded(a)' = Recorded(a)
    /\ apps[a] # NoApp =>
         /\ apps'[a] # NoApp
         /\ \A f \in apps[a].files :
              f \in apps'[a].files /\ (blobs[a][f] = "source" => blobs'[a][f] = "source")

LEMMA BootTypes ==
  ASSUME HandlersOK, NEW k \in 1..Len(booting)
  PROVE  booting[k].app \in Apps /\ booting[k].record \in Records
<1>1. booting[k] \in Bootings
  BY ElementOfSeq DEF HandlersOK
<1> QED
  BY <1>1 DEF Bootings

\* A handler goes on, changing neither a route nor a record.
LEMMA QuietStep ==
  ASSUME HandlersOK, Correspondence, FilesWritten', RegistryKept, Serving,
         NEW r \in Requests, NEW to, at' = [at EXCEPT ![r] = to],
         UNCHANGED <<tableVars, owner, booting>>,
         \/ ids' = ids /\ to # "unroute"
         \/ to = "unroute" /\ r.op = "unregister" /\ \E id \in Listed : ids' = [ids EXCEPT ![r] = <<id>>],
         at[r] \notin Over \cup {"unrecord", "rollback"}, at[r] = "record" => to = "left",
         to \notin {"new", "unrecord", "record", "rollback"},
         r.op = "register" =>
           /\ to # "ok"
           /\ to = "load" => apps'[r.app] # NoApp /\ r.file \in apps'[r.app].files
           /\ to = "insert" => Loadable(r.app, r.file)'
  PROVE  Correspondence'
<1>1. /\ at \in [Requests -> Steps] /\ ids \in [Requests -> Seq(RouteIds)]
      /\ UNCHANGED <<routes, issued, owner, booting>>
  BY DEF HandlersOK, tableVars
<1>2. \A q \in Requests : at'[q] = IF q = r THEN to ELSE at[q]
  BY <1>1
<1>3. Listed' = Listed
  BY DEF RegistryKept, Listed
<1>4. \A q \in Requests : \/ ids'[q] = ids[q] /\ (q = r => to # "unroute")
                          \/ /\ q = r /\ to = "unroute" /\ r.op = "unregister"
                             /\ Len(ids'[q]) = 1 /\ Range(ids'[q]) \subseteq Listed
  <2>1. CASE ids' = ids /\ to # "unroute"
    BY <2>1
  <2>2. ASSUME to = "unroute", r.op = "unregister", NEW id \in Listed,
               ids' = [ids EXCEPT ![r] = <<id>>]
        PROVE  \A q \in Requests :
                 \/ ids'[q] = ids[q] /\ (q = r => to # "unroute")
                 \/ /\ q = r /\ to = "unroute" /\ r.op = "unregister"
                    /\ Len(ids'[q]) = 1 /\ Range(ids'[q]) \subseteq Listed
    <3>1. Len(<<id>>) = 1 /\ Range(<<id>>) = {id}
      BY DEF Range
    <3> QED
      BY <1>1, <2>2, <3>1
  <2> QED
    BY <2>1, <2>2
<1>5. \A q \in Asked("unregister") : at'[q] = "unrecord" <=> at[q] = "unrecord"
  BY <1>2 DEF Asked
<1>6. \A q \in Asked("unregister") : at[q] = "unrecord" => ids'[q] = ids[q]
  BY <1>4 DEF Asked
<1>7. Live' = Live
  BY <1>1 DEF Live
<1>8. \A id : Stale(id) => Stale(id)'
  BY <1>5, <1>6, <1>7 DEF Stale
<1>9. \A id : Unseen(id) => Unseen(id)'
  BY <1>3, <1>4 DEF Unseen
<1>10. \A a, w, id : ServedBy(a, w, id)' <=> ServedBy(a, w, id)
  BY <1>1 DEF ServedBy
<1>11. \A a \in Apps : \A f : Loadable(a, f) => Loadable(a, f)'
  BY DEF Loadable, RegistryKept
<1>12. AllIssued'
  <2>1. \A q \in Requests : \A id \in Range(ids'[q]) : id <= Len(issued)
    BY <1>4 DEF Correspondence, AllIssued
  <2> QED
    BY <1>1, <1>3, <2>1 DEF Correspondence, AllIssued
<1>13. PathsApart'
  BY <1>1 DEF Correspondence, PathsApart
<1>14. RecordsServed'
  <2> SUFFICES ASSUME NEW a \in Apps, NEW rec \in Recorded(a) PROVE RecordOK(a, rec)'
    BY DEF RegistryKept, RecordsServed
  <2>1. RecordOK(a, rec)
    BY DEF Correspondence, RecordsServed
  <2>2. RecordServed(a, rec)'
    BY <1>1, <1>5, <1>6, <1>8, <1>9, <1>10, <2>1 DEF RecordOK, RecordServed
  <2> QED
    BY <1>11, <2>1, <2>2 DEF RegistryKept, RecordOK
<1>15. RoutesRecorded'
  <2> SUFFICES ASSUME NobodyLeft', NEW i \in 1..Len(routes), routes[i].managed
               PROVE  RouteRecorded(i)'
    BY <1>1 DEF RoutesRecorded
  <2>1. NobodyLeft /\ to # "left"
    BY <1>1, <1>2 DEF NobodyLeft, Over
  <2>2. RouteRecorded(i)
    BY <2>1 DEF Correspondence, RoutesRecorded
  <2>3. CASE \E a \in Apps : \E rec \in Recorded(a) :
                /\ owner[routes[i].id] = a /\ routes[i].segments = Pattern(rec.path)
                /\ rec.id = routes[i].id \/ Stale(rec.id)
    BY <1>1, <1>8, <2>3 DEF RouteRecorded, RegistryKept
  <2>4. CASE \E q \in Asked("register") :
                /\ at[q] = "record" /\ routes[i].id \in Range(ids[q])
                /\ routes[i].segments = Pattern(q.path)
    <3>1. PICK q \in Asked("register") : /\ at[q] = "record" /\ routes[i].id \in Range(ids[q])
                                         /\ routes[i].segments = Pattern(q.path)
      BY <2>4
    <3>2. q # r /\ at'[q] = "record" /\ ids'[q] = ids[q]
      BY <1>2, <1>4, <2>1, <3>1 DEF Asked
    <3> QED
      BY <1>1, <3>1, <3>2 DEF RouteRecorded
  <2> QED
    BY <2>2, <2>3, <2>4 DEF RouteRecorded
<1>16. BootsRecorded'
  BY <1>1, <1>9, BootTypes DEF RegistryKept, Correspondence, BootsRecorded, Serving
<1>17. RegistersOK'
  <2> SUFFICES ASSUME NEW q \in Asked("register") PROVE RegisterOK(q)'
    BY DEF RegistersOK, Asked
  <2>1. q \in Requests /\ q.op = "register" /\ q.app \in Apps
    BY AdminAssumption DEF Asked
  <2>2. CASE q = r
    BY <1>2, <2>1, <2>2, Zenon DEF RegisterOK, Over
  <2>3. CASE q # r
    <3>1. at'[q] = at[q] /\ ids'[q] = ids[q]
      BY <1>2, <1>4, <2>1, <2>3
    <3>2. RegisterOK(q)
      BY DEF Correspondence, RegistersOK
    <3>3. NoneAsked({"unregister"})' => NoneAsked({"unregister"})
      BY <1>2 DEF NoneAsked
    <3>4. at[q] = "record" =>
               \A id \in Range(ids[q]) : \A p \in Requests : p # q => id \notin Range(ids'[p])
      BY <1>4, <3>2 DEF RegisterOK
    <3> QED
      BY <1>3, <1>10, <1>11, <2>1, <3>1, <3>2, <3>3, <3>4 DEF RegistryKept, RegisterOK
  <2> QED
    BY <2>2, <2>3
<1>18. UnregistersOK'
  BY <1>2, <1>4, <1>7 DEF Correspondence, UnregistersOK, Asked
<1> QED
  BY <1>12, <1>13, <1>14, <1>15, <1>16, <1>17, <1>18 DEF Correspondence

\* A path collides with the routes that have it.
LEMMA CollidesFacts ==
  ASSUME TableOK, NEW w \in Words
  PROVE  RT!Collides("GET", Pattern(w)) <=> \E i \in 1..Len(routes) : routes[i].segments = Pattern(w)
<1>1. ASSUME NEW i \in 1..Len(routes)
      PROVE  /\ routes[i].method = [v \in {"GET"} |-> v]["GET"]
             /\ RT!SegmentsEqual(routes[i].segments, Pattern(w)) <=> routes[i].segments = Pattern(w)
  <2>1. routes[i] \in RT!Routes
    BY ElementOfSeq DEF TableOK
  <2>2. routes[i].method = "GET" /\ routes[i].segments \in RT!Patterns
    BY <2>1 DEF RT!Routes
  <2>3. routes[i].segments \in [1..1 -> RT!Segments]
    BY <2>2 DEF RT!Patterns
  <2>4. RT!Segments = {RT!Literal(v) : v \in Words}
    BY DEF RT!Segments
  <2> DEFINE s == routes[i].segments
             p == Pattern(w)
  <2>5. s \in [1..1 -> RT!Segments] /\ p \in [1..1 -> RT!Segments] /\ Len(s) = 1 /\ Len(p) = 1
    BY <2>3, <2>4 DEF Pattern
  <2>6. s[1].kind = "literal"
    BY <2>4, <2>5 DEF RT!Literal
  <2> HIDE DEF s, p
  <2>7. s = p <=> s[1] = p[1]
    BY <2>5
  <2>8. RT!SegmentsEqual(s, p) <=> s = p
    BY <2>5, <2>6, <2>7 DEF RT!SegmentsEqual
  <2> QED
    BY <2>2, <2>8 DEF s, p
<1> QED
  BY <1>1 DEF RT!Collides

LEMMA PatternsDiffer == \A v, w : Pattern(v) = Pattern(w) => v = w
BY DEF Pattern, RT!Literal

LEMMA IdTypes ==
  ASSUME AR!TypeOK, TableOK, HandlersOK
  PROVE  /\ \A i \in 1..Len(routes) : routes[i].id \in RouteIds
         /\ \A r \in Requests : \A id \in Range(ids[r]) : id \in RouteIds
         /\ \A id \in Listed : id \in RouteIds
         /\ Len(issued) \in Nat
<1>1. ASSUME NEW i \in 1..Len(routes) PROVE routes[i].id \in RouteIds
  <2>1. routes[i] \in RT!Routes
    BY ElementOfSeq DEF TableOK
  <2> QED
    BY <2>1 DEF RT!Routes, RT!Ids, RouteIds
<1>2. ASSUME NEW r \in Requests, NEW id \in Range(ids[r]) PROVE id \in RouteIds
  <2>1. ids[r] \in Seq(RouteIds)
    BY DEF HandlersOK
  <2> QED
    BY <2>1, LenProperties, ElementOfSeq DEF Range
<1>3. ASSUME NEW a \in Apps, NEW rec \in Recorded(a) PROVE rec.id \in RouteIds
  <2>1. apps[a].routes \in Seq(Records) /\ rec \in Range(apps[a].routes)
    BY DEF Recorded, AR!TypeOK, AR!Manifests
  <2>2. rec \in Records
    BY <2>1, LenProperties, ElementOfSeq DEF Range
  <2> QED
    BY <2>2 DEF Records
<1>4. Len(issued) \in Nat
  BY LenProperties DEF TableOK
<1> QED
  BY <1>1, <1>2, <1>3, <1>4 DEF Listed

\* Ids in use are not given out again.
LEMMA FreshIsNew ==
  ASSUME AR!TypeOK, TableOK, HandlersOK, AllIssued
  PROVE  Unseen(RT!Fresh) /\ \A i \in 1..Len(routes) : routes[i].id # RT!Fresh
<1>1. Len(issued) \in Nat /\ RT!Fresh = Len(issued) + 1
  BY IdTypes DEF RT!Fresh
<1>2. ASSUME NEW x \in RouteIds, x <= Len(issued) PROVE x # RT!Fresh
  BY <1>1, <1>2 DEF RouteIds
<1> QED
  BY <1>2, IdTypes DEF AllIssued, Unseen

\* The new route has its path for itself and takes nothing from the others.
LEMMA AddRouteCalm ==
  ASSUME AR!TypeOK, TableOK, HandlersOK, AllIssued, PathsApart,
         NEW a \in Apps, NEW w \in Words, NEW id0, id0 = RT!Fresh, AddRoute(id0, a, w)
  PROVE  /\ Len(routes) \in Nat /\ Len(routes') = Len(routes) + 1
         /\ \A i \in 1..Len(routes) :
              routes'[i] = routes[i] /\ owner'[routes[i].id] = owner[routes[i].id]
         /\ LET new == routes'[Len(routes) + 1] IN
              new.id = id0 /\ new.segments = Pattern(w) /\ new.managed
         /\ \A b, v, id : ServedBy(b, v, id) => ServedBy(b, v, id)'
         /\ ServedBy(a, w, id0)'
         /\ PathsApart'
<1> DEFINE n == Len(routes)
           rec == [id |-> id0, method |-> [v \in {"GET"} |-> v]["GET"],
                   segments |-> Pattern(w), managed |-> TRUE]
<1>1. /\ routes' = Append(routes, rec)
      /\ owner' = [owner EXCEPT ![id0] = a]
      /\ id0 \in RouteIds
      /\ ~RT!Collides("GET", Pattern(w))
  BY DEF AddRoute, RT!AddRouteDyn, RT!Fresh
<1>2. \A i \in 1..n : routes[i].segments # Pattern(w)
  BY <1>1, CollidesFacts
<1>3. rec.id = id0 /\ rec.segments = Pattern(w) /\ rec.managed
  OBVIOUS
<1>4. \A i \in 1..n : routes[i].id # id0
  BY FreshIsNew
<1> HIDE DEF rec
<1>5. /\ n \in Nat /\ Len(routes') = n + 1
      /\ \A i \in 1..n : routes'[i] = routes[i]
      /\ routes'[n + 1] = rec
  BY <1>1, AppendProperties, LenProperties DEF TableOK
<1>6. \A i \in 1..n : owner'[routes[i].id] = owner[routes[i].id]
  BY <1>1, <1>4 DEF HandlersOK
<1>7. owner'[id0] = a
  BY <1>1 DEF HandlersOK
<1>8. \A b, v, id : ServedBy(b, v, id) => ServedBy(b, v, id)'
  BY <1>5, <1>6 DEF ServedBy
<1>9. ServedBy(a, w, id0)'
  BY <1>3, <1>5, <1>7 DEF ServedBy
<1>10. PathsApart'
  <2>1. \A i, j \in 1..(n + 1) :
          i # j /\ routes'[i].managed => routes'[i].segments # routes'[j].segments
    <3> SUFFICES ASSUME NEW i \in 1..(n + 1), NEW j \in 1..(n + 1), i # j, routes'[i].managed
                 PROVE  routes'[i].segments # routes'[j].segments
      OBVIOUS
    <3>1. CASE i = n + 1
      BY <1>2, <1>3, <1>5, <3>1
    <3>2. CASE j = n + 1
      BY <1>2, <1>3, <1>5, <3>2
    <3>3. CASE i # n + 1 /\ j # n + 1
      BY <1>5, <3>3 DEF PathsApart
    <3> QED
      BY <3>1, <3>2, <3>3
  <2>2. \A k \in 1..Len(StaticWords) :
          \E i \in 1..(n + 1) : ~routes'[i].managed /\ routes'[i].segments = Pattern(StaticWords[k])
    <3> SUFFICES ASSUME NEW k \in 1..Len(StaticWords)
                 PROVE  \E i \in 1..(n + 1) :
                          ~routes'[i].managed /\ routes'[i].segments = Pattern(StaticWords[k])
      OBVIOUS
    <3>1. PICK i \in 1..n : ~routes[i].managed /\ routes[i].segments = Pattern(StaticWords[k])
      BY DEF PathsApart
    <3> QED
      BY <1>5, <3>1
  <2>3. \A i \in 1..(n + 1) : ~routes'[i].managed =>
          \E k \in 1..Len(StaticWords) : routes'[i].segments = Pattern(StaticWords[k])
    <3> SUFFICES ASSUME NEW i \in 1..(n + 1), ~routes'[i].managed
                 PROVE  \E k \in 1..Len(StaticWords) : routes'[i].segments = Pattern(StaticWords[k])
      OBVIOUS
    <3>1. i \in 1..n
      BY <1>3, <1>5
    <3> QED
      BY <1>5, <3>1 DEF PathsApart
  <2> QED
    BY <1>5, <2>1, <2>2, <2>3 DEF PathsApart
<1> QED
  BY <1>3, <1>5, <1>6, <1>8, <1>9, <1>10

\* A route without a record, or whose path is free again.
LEMMA RemoveRoutesCalm ==
  ASSUME TableOK, PathsApart, NEW removed, RemoveRoutes(removed)
  PROVE  /\ \A k \in 1..Len(routes') : \E i \in 1..Len(routes) : routes'[k] = routes[i]
         /\ \A i \in 1..Len(routes) : routes[i].id \notin removed \/ ~routes[i].managed =>
              \E k \in 1..Len(routes') : routes'[k] = routes[i]
         /\ PathsApart'
<1> DEFINE kept == {i \in 1..Len(routes) : routes[i].id \notin removed \/ ~routes[i].managed}
<1>1. PICK p \in Ascending(kept) : routes' = [k \in DOMAIN p |-> routes[p[k]]]
  BY Zenon DEF RemoveRoutes
<1>2. kept \in SUBSET (1..Len(routes)) /\ routes \in Seq(RT!Routes) /\ Len(routes) \in Nat
  BY LenProperties DEF TableOK
<1> HIDE DEF kept
<1>3. /\ DOMAIN p = 1..Cardinality(kept) /\ Cardinality(kept) \in Nat
      /\ \A k \in DOMAIN p : p[k] \in kept
      /\ \A i \in kept : \E k \in DOMAIN p : p[k] = i
      /\ \A k, l \in DOMAIN p : k # l => p[k] # p[l]
  <2>1. /\ [k \in DOMAIN p |-> routes[p[k]]] \in Seq(RT!Routes)
        /\ DOMAIN p = 1..Cardinality(kept) /\ Cardinality(kept) \in Nat
        /\ \A k \in DOMAIN p : p[k] \in kept
        /\ \A i \in kept : \E k \in DOMAIN p : p[k] = i
    BY <1>2, KeptFacts
  <2>2. \A k, l \in 1..Cardinality(kept) : k # l => p[k] # p[l]
    <3> DEFINE n == Len(routes)
    <3>1. n \in Nat /\ kept \in SUBSET (1..n)
      BY <1>2
    <3> HIDE DEF n
    <3>2. /\ Cardinality(kept) \in Nat
          /\ p \in [1..Cardinality(kept) -> kept]
          /\ \A i, j \in 1..Cardinality(kept) : i # j => p[i] # p[j]
          /\ \A k \in kept : \E i \in 1..Cardinality(kept) : p[i] = k
      BY <3>1, AscendingFacts
    <3> QED
      BY <3>2
  <2> QED
    BY <2>1, <2>2
<1>4. Len(routes') = Cardinality(kept) /\ \A k \in 1..Len(routes') : routes'[k] = routes[p[k]]
  BY <1>1, <1>3
<1>5. \A k \in 1..Len(routes') : p[k] \in 1..Len(routes)
  BY <1>2, <1>3, <1>4
<1>6. \A i \in kept : \E k \in 1..Len(routes') : routes'[k] = routes[i]
  BY <1>3, <1>4
<1>7. PathsApart'
  <2>1. \A k, l \in 1..Len(routes') :
          k # l /\ routes'[k].managed => routes'[k].segments # routes'[l].segments
    <3> SUFFICES ASSUME NEW k \in 1..Len(routes'), NEW l \in 1..Len(routes'), k # l, routes'[k].managed
                 PROVE  routes'[k].segments # routes'[l].segments
      OBVIOUS
    <3>1. p[k] # p[l] /\ p[k] \in 1..Len(routes) /\ p[l] \in 1..Len(routes)
      BY <1>3, <1>4, <1>5
    <3>2. routes'[k] = routes[p[k]] /\ routes'[l] = routes[p[l]]
      BY <1>4
    <3> QED
      BY <3>1, <3>2 DEF PathsApart
  <2>2. \A k \in 1..Len(StaticWords) :
          \E i \in 1..Len(routes') :
            ~routes'[i].managed /\ routes'[i].segments = Pattern(StaticWords[k])
    <3> SUFFICES ASSUME NEW k \in 1..Len(StaticWords)
                 PROVE  \E i \in 1..Len(routes') :
                          ~routes'[i].managed /\ routes'[i].segments = Pattern(StaticWords[k])
      OBVIOUS
    <3>1. PICK i \in 1..Len(routes) :
                 ~routes[i].managed /\ routes[i].segments = Pattern(StaticWords[k])
      BY DEF PathsApart
    <3>2. i \in kept
      BY <3>1 DEF kept
    <3> QED
      BY <1>6, <3>1, <3>2
  <2>3. \A i \in 1..Len(routes') : ~routes'[i].managed =>
          \E k \in 1..Len(StaticWords) : routes'[i].segments = Pattern(StaticWords[k])
    BY <1>4, <1>5 DEF PathsApart
  <2> QED
    BY <2>1, <2>2, <2>3 DEF PathsApart
<1> QED
  BY <1>4, <1>5, <1>6, <1>7 DEF kept

LEMMA FilesKept ==
  ASSUME FilesWritten, HandlersOK, UNCHANGED <<apps, blobs>>,
         NEW r \in Requests, NEW to, at' = [at EXCEPT ![r] = to],
         to \notin {"new", "file"}, to = "write" => at[r] = "new"
  PROVE  FilesWritten' /\ RegistryKept
<1>1. \A q \in Requests : at'[q] = IF q = r THEN to ELSE at[q]
  BY DEF HandlersOK
<1>2. \A a : Recorded(a)' = Recorded(a)
  BY DEF Recorded
<1>3. FilesWritten'
  BY <1>1 DEF FilesWritten, Asked
<1> QED
  BY <1>2, <1>3 DEF RegistryKept

\* A registration gets its route.
LEMMA InsertCalm ==
  ASSUME IInv, Correspondence, NEW r \in Requests, Insert(r) PROVE Correspondence'
<1>1. AR!TypeOK /\ TableOK /\ HandlersOK
  BY DEF IInv
<1>2. /\ at[r] = "insert" /\ r.op = "register" /\ r \in Asked("register")
      /\ r.app \in Apps /\ r.path \in Words
  <2>1. at[r] = "insert" /\ r.op = "register"
    BY <1>1 DEF Insert, HandlersOK, StepsOfOperation, StepOf
  <2> QED
    BY <2>1, AdminAssumption DEF Asked
<1>3. UNCHANGED <<apps, blobs, booting>>
  BY DEF Insert, registryVars
<1>4. CASE Goto(r, "insert", "error") /\ UNCHANGED <<tableVars, ids, owner>>
  <2>1. Serving /\ at' = [at EXCEPT ![r] = "error"]
    BY <1>4 DEF Goto
  <2>2. FilesWritten' /\ RegistryKept
    BY <1>1, <1>3, <2>1, FilesKept DEF Correspondence
  <2> QED
    BY <1>1, <1>2, <1>3, <1>4, <2>1, <2>2, QuietStep DEF Over
<1>5. ASSUME NEW id0, id0 = RT!Fresh, at' = [at EXCEPT ![r] = "record"],
             AddRoute(id0, r.app, r.path), ids' = [ids EXCEPT ![r] = <<id0>>]
      PROVE  Correspondence'
  <2>1. FilesWritten' /\ RegistryKept
    BY <1>1, <1>3, <1>5, FilesKept DEF Correspondence
  <2>2. /\ \A q \in Requests : at'[q] = IF q = r THEN "record" ELSE at[q]
        /\ \A q \in Requests : Range(ids'[q]) = IF q = r THEN {id0} ELSE Range(ids[q])
        /\ \A q \in Requests : q # r => ids'[q] = ids[q]
    <3>1. Range(<<id0>>) = {id0}
      BY DEF Range
    <3> QED
      BY <1>1, <1>5, <3>1 DEF HandlersOK
  <2>3. Listed' = Listed
    BY <2>1 DEF RegistryKept, Listed
  <2>4. AllIssued /\ PathsApart
    BY DEF Correspondence
  <2>5. Unseen(id0) /\ \A i \in 1..Len(routes) : routes[i].id # id0
    BY <1>1, <1>5, <2>4, FreshIsNew
  <2> DEFINE n == Len(routes)
             new == routes'[n + 1]
  <2>6. /\ n \in Nat /\ Len(routes') = n + 1
        /\ \A i \in 1..n : routes'[i] = routes[i] /\ owner'[routes[i].id] = owner[routes[i].id]
        /\ new.id = id0 /\ new.segments = Pattern(r.path) /\ new.managed
        /\ \A b, v, id : ServedBy(b, v, id) => ServedBy(b, v, id)'
        /\ ServedBy(r.app, r.path, id0)'
        /\ PathsApart'
    BY <1>1, <1>2, <1>5, <2>4, AddRouteCalm
  <2> HIDE DEF n, new
  <2>7. Len(issued') = Len(issued) + 1 /\ id0 = Len(issued) + 1 /\ Live' = Live \cup {id0}
    BY <1>1, <1>2, <1>5, AddRouteFacts
  <2>8. \A id : id # id0 /\ Stale(id) => Stale(id)'
    BY <2>2, <2>7 DEF Stale, Asked
  <2>9. \A id \in Listed : id # id0
    BY <2>5 DEF Unseen
  <2>10. \A id : id # id0 /\ Unseen(id) => Unseen(id)'
    BY <2>2, <2>3 DEF Unseen
  <2>11. \A a \in Apps : \A f : Loadable(a, f) => Loadable(a, f)'
    BY <2>1 DEF Loadable, RegistryKept
  <2>12. AllIssued'
    <3>1. \A x \in RouteIds : x <= Len(issued) => x <= Len(issued')
      BY <1>1, <2>7, IdTypes DEF RouteIds
    <3>2. \A i \in 1..Len(routes') : routes'[i].id <= Len(issued')
      BY <1>1, <2>4, <2>6, <2>7, <3>1, IdTypes DEF AllIssued, n, new
    <3>3. \A q \in Requests : \A id \in Range(ids'[q]) : id <= Len(issued')
      BY <1>1, <2>2, <2>4, <2>7, <3>1, IdTypes DEF AllIssued
    <3>4. \A id \in Listed' : id <= Len(issued')
      BY <1>1, <2>3, <2>4, <3>1, IdTypes DEF AllIssued
    <3> QED
      BY <3>2, <3>3, <3>4 DEF AllIssued
  <2>13. RecordsServed'
    <3> SUFFICES ASSUME NEW a \in Apps, NEW rec \in Recorded(a) PROVE RecordOK(a, rec)'
      BY <2>1 DEF RegistryKept, RecordsServed
    <3>1. RecordOK(a, rec)
      BY DEF Correspondence, RecordsServed
    <3>2. rec.id # id0
      BY <2>9 DEF Listed
    <3>3. RecordServed(a, rec)'
      <4>1. \A id : ServedBy(a, rec.path, id) => id # id0
        BY <2>5 DEF ServedBy
      <4>2. ServedBy(a, rec.path, rec.id) => ServedBy(a, rec.path, rec.id)'
        BY <2>6
      <4>3. ASSUME NEW id \in RouteIds, Unseen(id), ServedBy(a, rec.path, id)
            PROVE  Unseen(id)' /\ ServedBy(a, rec.path, id)'
        BY <2>6, <2>10, <4>1, <4>3
      <4>4. Stale(rec.id) => Stale(rec.id)'
        BY <2>8, <3>2
      <4>5. \A q \in Asked("unregister") : at[q] = "unrecord" => at'[q] = "unrecord" /\ ids'[q] = ids[q]
        BY <1>2, <2>2 DEF Asked
      <4> QED
        BY <1>3, <3>1, <4>2, <4>3, <4>4, <4>5 DEF RecordOK, RecordServed
    <3> QED
      BY <2>1, <2>11, <3>1, <3>3 DEF RegistryKept, RecordOK
  <2>14. RoutesRecorded'
    <3> SUFFICES ASSUME NobodyLeft', NEW i \in 1..Len(routes'), routes'[i].managed
                 PROVE  RouteRecorded(i)'
      BY DEF RoutesRecorded
    <3>1. NobodyLeft
      BY <1>2, <2>2 DEF NobodyLeft
    <3>2. CASE i = n + 1
      <4>1. /\ at'[r] = "record" /\ routes'[i].id \in Range(ids'[r])
            /\ routes'[i].segments = Pattern(r.path)
        BY <2>2, <2>6, <3>2 DEF new
      <4> QED
        BY <1>2, <4>1 DEF RouteRecorded, Asked
    <3>3. CASE i # n + 1
      <4>1. i \in 1..n /\ routes'[i] = routes[i] /\ owner'[routes[i].id] = owner[routes[i].id]
        BY <2>6, <3>3
      <4>2. RouteRecorded(i)
        BY <3>1, <4>1 DEF Correspondence, RoutesRecorded, n
      <4>3. CASE \E a \in Apps : \E rec \in Recorded(a) :
                   /\ owner[routes[i].id] = a /\ routes[i].segments = Pattern(rec.path)
                   /\ rec.id = routes[i].id \/ Stale(rec.id)
        <5>0. PICK a \in Apps : \E rec \in Recorded(a) :
                   /\ owner[routes[i].id] = a /\ routes[i].segments = Pattern(rec.path)
                   /\ rec.id = routes[i].id \/ Stale(rec.id)
          BY <4>3
        <5>1. PICK rec \in Recorded(a) :
                   /\ owner[routes[i].id] = a /\ routes[i].segments = Pattern(rec.path)
                   /\ rec.id = routes[i].id \/ Stale(rec.id)
          BY <5>0
        <5>2. rec.id # id0 /\ rec \in Recorded(a)'
          BY <2>1, <2>9 DEF Listed, RegistryKept
        <5> QED
          BY <2>8, <4>1, <5>1, <5>2 DEF RouteRecorded
      <4>4. CASE \E q \in Asked("register") :
                   /\ at[q] = "record" /\ routes[i].id \in Range(ids[q])
                   /\ routes[i].segments = Pattern(q.path)
        <5>1. PICK q \in Asked("register") :
                   /\ at[q] = "record" /\ routes[i].id \in Range(ids[q])
                   /\ routes[i].segments = Pattern(q.path)
          BY <4>4
        <5>2. at'[q] = "record" /\ Range(ids'[q]) = Range(ids[q])
          BY <1>2, <2>2, <5>1 DEF Asked
        <5> QED
          BY <4>1, <5>1, <5>2 DEF RouteRecorded
      <4> QED
        BY <4>2, <4>3, <4>4 DEF RouteRecorded
    <3> QED
      BY <3>2, <3>3
  <2>15. BootsRecorded'
    <3>1. booting = <<>>
      BY DEF Insert, Goto, Serving
    <3> QED
      BY <1>3, <3>1 DEF BootsRecorded
  <2>16. RegistersOK'
    <3> SUFFICES ASSUME NEW q \in Asked("register") PROVE RegisterOK(q)'
      BY DEF RegistersOK, Asked
    <3>1. q \in Requests /\ q.op = "register" /\ q.app \in Apps /\ RegisterOK(q)
      BY AdminAssumption DEF Asked, Correspondence, RegistersOK
    <3>2. CASE q = r
      <4>1. Loadable(r.app, r.file)'
        BY <1>2, <2>11, <3>1, <3>2 DEF RegisterOK
      <4>2. \A p \in Requests : p # r => id0 \notin Range(ids'[p])
        BY <2>2, <2>5 DEF Unseen
      <4> QED
        BY <2>2, <2>3, <2>6, <2>9, <3>1, <3>2, <4>1, <4>2 DEF RegisterOK
    <3>3. CASE q # r
      <4>1. at'[q] = at[q] /\ ids'[q] = ids[q]
        BY <2>2, <3>1, <3>3
      <4>2. NoneAsked({"unregister"})' => NoneAsked({"unregister"})
        BY <1>2, <2>2 DEF NoneAsked
      <4>3. \A id \in Range(ids[q]) : id # id0
        BY <2>5, <3>1 DEF Unseen
      <4>4. at[q] = "record" =>
              \A id \in Range(ids[q]) : \A p \in Requests : p # q => id \notin Range(ids'[p])
        BY <2>2, <3>1, <4>3 DEF RegisterOK
      <4> QED
        BY <2>1, <2>3, <2>6, <2>11, <3>1, <4>1, <4>2, <4>4 DEF RegistryKept, RegisterOK
    <3> QED
      BY <3>2, <3>3
  <2>17. UnregistersOK'
    <3> SUFFICES ASSUME NEW q \in Asked("unregister")
                 PROVE  /\ at'[q] \in {"unroute", "unrecord"} => Len(ids'[q]) = 1
                        /\ at'[q] = "unrecord" => Range(ids'[q]) \cap Live' = {}
      BY DEF UnregistersOK, Asked
    <3>1. q \in Requests /\ q # r
      BY <1>2 DEF Asked
    <3>2. at'[q] = at[q] /\ ids'[q] = ids[q] /\ id0 \notin Range(ids[q])
      BY <2>2, <2>5, <3>1 DEF Unseen
    <3> QED
      BY <2>7, <3>2 DEF Correspondence, UnregistersOK
  <2> QED
    BY <2>1, <2>6, <2>12, <2>13, <2>14, <2>15, <2>16, <2>17 DEF Correspondence
<1> QED
  <2>1. \/ Goto(r, "insert", "error") /\ UNCHANGED <<tableVars, ids, owner>>
        \/ /\ at' = [at EXCEPT ![r] = "record"] /\ AddRoute(RT!Fresh, r.app, r.path)
           /\ ids' = [ids EXCEPT ![r] = <<RT!Fresh>>]
    BY DEF Insert, Goto
  <2> QED
    BY <1>4, <1>5, <2>1

\* The route of an unregistration goes; its record is about to.
LEMMA UnrouteCalm ==
  ASSUME IInv, Correspondence, NEW r \in Requests, Unroute(r) PROVE Correspondence'
<1>1. AR!TypeOK /\ TableOK /\ HandlersOK
  BY DEF IInv
<1>2. /\ at[r] = "unroute" /\ r \in Asked("unregister") /\ r.op = "unregister"
      /\ Len(ids[r]) = 1 /\ UNCHANGED <<apps, blobs, booting, ids, owner>>
  <2>1. at[r] = "unroute" /\ r.op = "unregister"
    BY <1>1 DEF Unroute, Goto, HandlersOK, StepsOfOperation, StepOf
  <2> QED
    BY <2>1 DEF Asked, Correspondence, UnregistersOK, Unroute, registryVars
<1>3. PICK x : Range(ids[r]) = {x}
  <2>1. ids[r] \in Seq(RouteIds)
    BY <1>1 DEF HandlersOK
  <2>2. Range(ids[r]) = {ids[r][1]}
    BY <1>2, <2>1 DEF Range
  <2> QED
    BY <2>2
<1>4. PICK to \in {"unrecord", "error"} :
        at' = [at EXCEPT ![r] = to] /\ (to = "unrecord" <=> x \in Live)
  BY <1>3 DEF Unroute, Goto
<1>5. \A q \in Requests : at'[q] = IF q = r THEN to ELSE at[q]
  BY <1>1, <1>4 DEF HandlersOK
<1>6. RemoveRoutes({x})
  BY <1>3 DEF Unroute
<1>7. UNCHANGED issued /\ Live' = Live \ {x}
  BY <1>1, <1>6, RemoveRoutesFacts
<1>8. /\ \A k \in 1..Len(routes') : \E i \in 1..Len(routes) : routes'[k] = routes[i]
      /\ \A i \in 1..Len(routes) : routes[i].id # x \/ ~routes[i].managed =>
           \E k \in 1..Len(routes') : routes'[k] = routes[i]
      /\ PathsApart'
  <2>1. \A i \in 1..Len(routes) : routes[i].id # x => routes[i].id \notin {x}
    OBVIOUS
  <2> QED
    BY <1>1, <1>6, <2>1, RemoveRoutesCalm DEF Correspondence
<1>9. FilesWritten' /\ RegistryKept
  BY <1>1, <1>2, <1>4, FilesKept DEF Correspondence
<1>10. \A a \in Apps : Recorded(a)' = Recorded(a)
  BY <1>9 DEF RegistryKept
<1>11. Listed' = Listed
  BY <1>10 DEF Listed
<1>12. \A b, v, id : id # x /\ ServedBy(b, v, id) => ServedBy(b, v, id)'
  BY <1>2, <1>8 DEF ServedBy
<1>13. \A id : Stale(id) => Stale(id)'
  <2> SUFFICES ASSUME NEW id, Stale(id), NEW q \in Asked("unregister"), at'[q] = "unrecord"
               PROVE  id \notin Range(ids[q])
    BY <1>2, <1>7 DEF Stale, Asked
  <2>1. CASE q = r
    BY <1>3, <1>4, <1>5, <2>1 DEF Stale, Asked
  <2>2. CASE q # r
    BY <1>5, <2>2 DEF Stale, Asked
  <2> QED
    BY <2>1, <2>2
<1>14. \A id : Unseen(id) => Unseen(id)' /\ id # x
  BY <1>2, <1>3, <1>11 DEF Unseen
<1>15. \A a \in Apps : \A f : Loadable(a, f) => Loadable(a, f)'
  BY <1>2 DEF Loadable
<1>16. AllIssued'
  BY <1>2, <1>7, <1>8, <1>11 DEF Correspondence, AllIssued
<1>17. RecordsServed'
  <2> SUFFICES ASSUME NEW a \in Apps, NEW rec \in Recorded(a) PROVE RecordOK(a, rec)'
    BY <1>10 DEF RecordsServed
  <2>1. RecordOK(a, rec)
    BY DEF Correspondence, RecordsServed
  <2>2. CASE ServedBy(a, rec.path, rec.id)
    <3>1. ASSUME rec.id # x PROVE RecordServed(a, rec)'
      BY <1>12, <2>2, <3>1 DEF RecordServed
    <3>2. ASSUME rec.id = x PROVE RecordServed(a, rec)'
      <4>1. x \in Live
        BY <2>2, <3>2, LiveMember DEF ServedBy
      <4>2. at'[r] = "unrecord" /\ rec.id \in Range(ids'[r])
        BY <1>2, <1>3, <1>4, <1>5, <3>2, <4>1
      <4> QED
        BY <1>2, <4>2 DEF RecordServed, Asked
    <3>3. RecordServed(a, rec)'
      BY <3>1, <3>2
    <3> QED
      BY <1>10, <1>15, <2>1, <3>3 DEF RecordOK
  <2>3. CASE /\ Stale(rec.id)
             /\ \/ \E id \in RouteIds : Unseen(id) /\ ServedBy(a, rec.path, id)
                \/ [app |-> a, record |-> rec] \in Range(booting)
    <3>1. RecordServed(a, rec)'
      BY <1>2, <1>12, <1>13, <1>14, <2>3 DEF RecordServed
    <3> QED
      BY <1>10, <1>15, <2>1, <3>1 DEF RecordOK
  <2>4. CASE \E q \in Asked("unregister") : at[q] = "unrecord" /\ rec.id \in Range(ids[q])
    <3>1. PICK q \in Asked("unregister") : at[q] = "unrecord" /\ rec.id \in Range(ids[q])
      BY <2>4
    <3>2. at'[q] = "unrecord" /\ ids'[q] = ids[q]
      BY <1>2, <1>5, <3>1 DEF Asked
    <3>3. RecordServed(a, rec)'
      BY <3>1, <3>2 DEF RecordServed, Asked
    <3> QED
      BY <1>10, <1>15, <2>1, <3>3 DEF RecordOK
  <2> QED
    BY <2>1, <2>2, <2>3, <2>4 DEF RecordOK, RecordServed
<1>18. RoutesRecorded'
  <2> SUFFICES ASSUME NobodyLeft', NEW k \in 1..Len(routes'), routes'[k].managed
               PROVE  RouteRecorded(k)'
    BY DEF RoutesRecorded
  <2>1. PICK i \in 1..Len(routes) : routes'[k] = routes[i]
    BY <1>8
  <2>2. NobodyLeft
    BY <1>2, <1>5 DEF NobodyLeft
  <2>3. RouteRecorded(i)
    BY <2>1, <2>2 DEF Correspondence, RoutesRecorded
  <2>4. CASE \E a \in Apps : \E rec \in Recorded(a) :
               /\ owner[routes[i].id] = a /\ routes[i].segments = Pattern(rec.path)
               /\ rec.id = routes[i].id \/ Stale(rec.id)
    BY <1>2, <1>10, <1>13, <2>1, <2>4 DEF RouteRecorded
  <2>5. CASE \E q \in Asked("register") :
               /\ at[q] = "record" /\ routes[i].id \in Range(ids[q])
               /\ routes[i].segments = Pattern(q.path)
    <3>1. PICK q \in Asked("register") :
               /\ at[q] = "record" /\ routes[i].id \in Range(ids[q])
               /\ routes[i].segments = Pattern(q.path)
      BY <2>5
    <3>2. at'[q] = "record" /\ ids'[q] = ids[q]
      BY <1>2, <1>5, <3>1 DEF Asked
    <3> QED
      BY <2>1, <3>1, <3>2 DEF RouteRecorded
  <2> QED
    BY <2>3, <2>4, <2>5 DEF RouteRecorded
<1>19. BootsRecorded'
  <2>1. booting = <<>>
    BY DEF Unroute, Goto, Serving
  <2> QED
    BY <1>2, <2>1 DEF BootsRecorded
<1>20. RegistersOK'
  <2> SUFFICES ASSUME NEW q \in Asked("register") PROVE RegisterOK(q)'
    BY DEF RegistersOK, Asked
  <2>1. q \in Requests /\ q # r /\ q.app \in Apps /\ RegisterOK(q)
    BY <1>2, AdminAssumption DEF Asked, Correspondence, RegistersOK
  <2>2. at'[q] = at[q] /\ ids'[q] = ids[q]
    BY <1>2, <1>5, <2>1
  <2>3. ~NoneAsked({"unregister"})'
    BY <1>2, <1>4, <1>5 DEF NoneAsked
  <2>4. at[q] = "record" => \A id \in Range(ids[q]) : id # x
    BY <1>3, <2>1 DEF RegisterOK
  <2> QED
    BY <1>2, <1>11, <1>12, <1>15, <2>1, <2>2, <2>3, <2>4 DEF RegisterOK
<1>21. UnregistersOK'
  <2> SUFFICES ASSUME NEW q \in Asked("unregister")
               PROVE  /\ at'[q] \in {"unroute", "unrecord"} => Len(ids'[q]) = 1
                      /\ at'[q] = "unrecord" => Range(ids'[q]) \cap Live' = {}
    BY DEF UnregistersOK, Asked
  <2>1. CASE q = r
    BY <1>2, <1>3, <1>7, <2>1
  <2>2. CASE q # r
    BY <1>2, <1>5, <1>7, <2>2 DEF Asked, Correspondence, UnregistersOK
  <2> QED
    BY <2>1, <2>2
<1> QED
  BY <1>8, <1>9, <1>16, <1>17, <1>18, <1>19, <1>20, <1>21 DEF Correspondence

\* What became of a manifest's records.
LEMMA RecordsOfUpdate ==
  ASSUME AR!TypeOK, NEW a \in Apps, apps[a] # NoApp, NEW records \in Seq(Records), NEW ok,
         AR!Update(a, [apps[a] EXCEPT !.routes = records], ok)
  PROVE  /\ \A b \in Apps : Recorded(b)' = IF b = a THEN Range(records) ELSE Recorded(b)
         /\ \A b \in Apps : apps[b] # NoApp => apps'[b] # NoApp /\ apps'[b].files = apps[b].files
         /\ \A b \in Apps : apps'[b] # NoApp => apps[b] # NoApp
<1> DEFINE m == [apps[a] EXCEPT !.routes = records]
<1>1. apps' = [apps EXCEPT ![a] = m] /\ apps \in [Apps -> AR!Manifests \cup {NoApp}]
  BY DEF AR!Update, AR!TypeOK
<1>2. apps[a] \in AR!Manifests
  BY <1>1
<1>3. m \in AR!Manifests /\ m.routes = records /\ m.files = apps[a].files
  BY <1>2 DEF AR!Manifests
<1>4. m # NoApp
  BY <1>3, AdminAssumption DEF AR!RegistryAssumption
<1> HIDE DEF m
<1>5. \A b \in Apps : apps'[b] = IF b = a THEN m ELSE apps[b]
  BY <1>1
<1> QED
  BY <1>3, <1>4, <1>5 DEF Recorded

\* The record of a registration is written.
LEMMA RecordCalm ==
  ASSUME IInv, Undisturbed', Correspondence, NEW r \in Requests, Record(r) PROVE Correspondence'
<1>1. AR!TypeOK /\ TableOK /\ HandlersOK /\ AppsHaveDirs
  BY DEF IInv
<1>2. /\ at[r] = "record" /\ r \in Asked("register") /\ r.op = "register"
      /\ r.app \in Apps /\ r.file \in Files /\ r.path \in Words
      /\ UNCHANGED <<routes, issued, ids, owner, booting>>
  <2>1. at[r] = "record" /\ r.op = "register"
    BY <1>1 DEF Record, Call, Goto, HandlersOK, StepsOfOperation, StepOf
  <2> QED
    BY <2>1, AdminAssumption DEF Asked, Record, Call, tableVars
<1>3. PICK x \in RouteIds : ids[r] = <<x>>
  <2>1. ids[r] \in Seq(RouteIds) /\ Len(ids[r]) = 1
    BY <1>1, <1>2 DEF HandlersOK, OwnIds
  <2> QED
    BY <2>1
<1>4. Range(ids[r]) = {x} /\ ids[r][1] = x
  BY <1>3 DEF Range
<1>5. RegisterOK(r)
  BY <1>2 DEF Correspondence, RegistersOK
<1> DEFINE rec0 == [id |-> x, path |-> r.path, file |-> r.file]
<1>6. PICK ok \in BOOLEAN : /\ Goto(r, "record", IF ok THEN "ok" ELSE "rollback")
                            /\ AR!AddRouteRecord(r.app, rec0, ok)
  BY <1>4 DEF Record, Call
<1>7. /\ apps[r.app] # NoApp
      /\ AR!Update(r.app, [apps[r.app] EXCEPT !.routes = Append(@, rec0)], ok)
      /\ UNCHANGED blobs
  BY <1>2, <1>5, <1>6 DEF RegisterOK, Loadable, AR!AddRouteRecord, AR!NotFound
<1>8. ok
  <2>1. disk_ok' => disk_ok
    BY <1>7 DEF AR!Update, AR!Persist, AR!DiskWorks, AR!DiskFault
  <2>2. r.app \in dirs
    BY <1>1, <1>2, <1>7, <2>1 DEF AppsHaveDirs, Undisturbed
  <2> QED
    BY <1>7, <2>2 DEF AR!Update, AR!Persist, AR!DiskFault, Undisturbed
<1>9. \A q \in Requests : at'[q] = IF q = r THEN "ok" ELSE at[q]
  BY <1>1, <1>6, <1>8 DEF Goto, HandlersOK
<1>10. /\ rec0 \in Records /\ rec0.id = x /\ rec0.path = r.path /\ rec0.file = r.file
       /\ apps[r.app].routes \in Seq(Records)
  BY <1>1, <1>2, <1>7 DEF Records, AR!TypeOK, AR!Manifests
<1> HIDE DEF rec0
<1>11. /\ \A b \in Apps : Recorded(b)' = IF b = r.app THEN Recorded(b) \cup {rec0} ELSE Recorded(b)
       /\ \A b \in Apps : apps[b] # NoApp => apps'[b] # NoApp /\ apps'[b].files = apps[b].files
       /\ \A b \in Apps : apps'[b] # NoApp => apps[b] # NoApp
  <2> DEFINE records == Append(apps[r.app].routes, rec0)
  <2>1. records \in Seq(Records)
    BY <1>10, AppendProperties
  <2>2. Range(records) = Range(apps[r.app].routes) \cup {rec0}
    <3> DEFINE old == apps[r.app].routes
    <3>1. /\ Len(old) \in Nat /\ DOMAIN old = 1..Len(old)
          /\ DOMAIN records = 1..(Len(old) + 1)
          /\ \A i \in 1..Len(old) : records[i] = old[i]
          /\ records[Len(old) + 1] = rec0
      BY <1>10, AppendProperties, LenProperties
    <3> HIDE DEF old, records
    <3> QED
      BY <3>1 DEF Range, old
  <2>3. AR!Update(r.app, [apps[r.app] EXCEPT !.routes = records], ok)
    BY <1>7
  <2> HIDE DEF records
  <2>4. /\ \A b \in Apps : Recorded(b)' = IF b = r.app THEN Range(records) ELSE Recorded(b)
        /\ \A b \in Apps : apps[b] # NoApp => apps'[b] # NoApp /\ apps'[b].files = apps[b].files
        /\ \A b \in Apps : apps'[b] # NoApp => apps[b] # NoApp
    BY <1>1, <1>2, <1>7, <2>1, <2>3, RecordsOfUpdate
  <2> QED
    BY <1>7, <2>2, <2>4 DEF Recorded
<1>12. \A id : id \in Listed' <=> id \in Listed \/ id = x
  BY <1>2, <1>10, <1>11 DEF Listed
<1>13. \A a \in Apps : \A f : Loadable(a, f) => Loadable(a, f)'
  BY <1>7, <1>11 DEF Loadable
<1>14. \A a, w, id : ServedBy(a, w, id)' <=> ServedBy(a, w, id)
  BY <1>2 DEF ServedBy
<1>15. \A id : Stale(id) => Stale(id)'
  BY <1>2, <1>9 DEF Stale, Live, Asked
<1>16. \A id : Unseen(id) => Unseen(id)'
  BY <1>2, <1>4, <1>12 DEF Unseen
<1>17. booting = <<>>
  BY <1>6 DEF Goto, Serving
<1>18. ServedBy(r.app, r.path, x) /\ Loadable(r.app, r.file)
  BY <1>2, <1>4, <1>5 DEF RegisterOK
<1>19. FilesWritten'
  <2>1. \A u \in Asked("upload") : at'[u] = at[u]
    BY <1>2, <1>9 DEF Asked
  <2> QED
    BY <1>7, <1>11, <2>1 DEF Correspondence, FilesWritten, Asked
<1>20. AllIssued'
  <2>1. x <= Len(issued)
    BY <1>2, <1>4 DEF Correspondence, AllIssued
  <2> QED
    BY <1>2, <1>12, <2>1 DEF Correspondence, AllIssued
<1>21. PathsApart'
  BY <1>2 DEF Correspondence, PathsApart
<1>22. \A b \in Apps : \A rec \in Recorded(b) : rec.path = r.path => b = r.app
  <2> SUFFICES ASSUME NEW b \in Apps, NEW rec \in Recorded(b), rec.path = r.path, b # r.app PROVE FALSE
    OBVIOUS
  <2>1. NoneAsked({"unregister"})
    <3>1. NoneAsked({"unregister"})'
      BY <1>2 DEF Undisturbed, OneApplication
    <3> QED
      BY <1>2, <1>9, <3>1 DEF NoneAsked
  <2>2. ~ \E q \in Asked("unregister") : at[q] = "unrecord"
    BY <2>1 DEF NoneAsked, Asked
  <2>3. \E id : ServedBy(b, r.path, id)
    BY <1>17, <2>2 DEF Correspondence, RecordsServed, RecordOK, RecordServed, Range
  <2>4. PICK i \in 1..Len(routes) : /\ routes[i].managed /\ routes[i].segments = Pattern(r.path)
                                    /\ owner[routes[i].id] = b
    BY <2>3 DEF ServedBy
  <2>5. PICK j \in 1..Len(routes) : /\ routes[j].managed /\ routes[j].segments = Pattern(r.path)
                                    /\ owner[routes[j].id] = r.app
    BY <1>18 DEF ServedBy
  <2> QED
    BY <2>4, <2>5 DEF Correspondence, PathsApart
<1>23. r.path \notin Range(StaticWords)
  <2> SUFFICES ASSUME r.path \in Range(StaticWords) PROVE FALSE
    OBVIOUS
  <2>1. PICK k \in 1..Len(StaticWords) : StaticWords[k] = r.path
    BY AdminAssumption, LenProperties DEF Range
  <2>2. PICK i \in 1..Len(routes) : ~routes[i].managed /\ routes[i].segments = Pattern(r.path)
    BY <2>1 DEF Correspondence, PathsApart
  <2>3. PICK j \in 1..Len(routes) : routes[j].managed /\ routes[j].segments = Pattern(r.path)
    BY <1>18 DEF ServedBy
  <2> QED
    BY <2>2, <2>3 DEF Correspondence, PathsApart
<1>24. RecordsServed'
  <2> SUFFICES ASSUME NEW a \in Apps, NEW rec \in Recorded(a)' PROVE RecordOK(a, rec)'
    BY DEF RecordsServed
  <2>1. CASE rec \in Recorded(a)
    <3>1. RecordOK(a, rec)
      BY <2>1 DEF Correspondence, RecordsServed
    <3>2. ASSUME NEW b \in Apps, NEW other \in Recorded(b)', other.path = rec.path PROVE b = a
      BY <1>10, <1>11, <1>22, <2>1, <3>1, <3>2 DEF RecordOK
    <3>3. \A q \in Asked("unregister") : at[q] = "unrecord" => at'[q] = "unrecord"
      BY <1>2, <1>9 DEF Asked
    <3>4. RecordServed(a, rec)'
      BY <1>2, <1>14, <1>15, <1>16, <3>1, <3>3 DEF RecordOK, RecordServed
    <3> QED
      BY <1>13, <3>1, <3>2, <3>4 DEF RecordOK
  <2>2. CASE a = r.app /\ rec = rec0
    <3>1. RecordServed(a, rec)'
      BY <1>10, <1>14, <1>18, <2>2 DEF RecordServed
    <3>2. ASSUME NEW b \in Apps, NEW other \in Recorded(b)', other.path = rec.path PROVE b = a
      BY <1>10, <1>11, <1>22, <2>2, <3>2
    <3> QED
      BY <1>10, <1>13, <1>18, <1>23, <2>2, <3>1, <3>2 DEF RecordOK
  <2> QED
    BY <1>11, <2>1, <2>2
<1>25. RoutesRecorded'
  <2> SUFFICES ASSUME NobodyLeft', NEW i \in 1..Len(routes), routes[i].managed
               PROVE  RouteRecorded(i)'
    BY <1>2 DEF RoutesRecorded
  <2>1. NobodyLeft
    BY <1>2, <1>9 DEF NobodyLeft
  <2>2. RouteRecorded(i)
    BY <2>1 DEF Correspondence, RoutesRecorded
  <2>3. CASE \E a \in Apps : \E rec \in Recorded(a) :
               /\ owner[routes[i].id] = a /\ routes[i].segments = Pattern(rec.path)
               /\ rec.id = routes[i].id \/ Stale(rec.id)
    <3>1. \A a \in Apps : \A rec \in Recorded(a) : rec \in Recorded(a)'
      BY <1>11
    <3> QED
      BY <1>2, <1>15, <2>3, <3>1 DEF RouteRecorded
  <2>4. ASSUME NEW q \in Asked("register"), at[q] = "record", routes[i].id \in Range(ids[q]),
               routes[i].segments = Pattern(q.path)
        PROVE  RouteRecorded(i)'
    <3>1. CASE q = r
      <4>1. rec0 \in Recorded(r.app)' /\ rec0.id = routes[i].id /\ routes[i].segments = Pattern(rec0.path)
        BY <1>2, <1>4, <1>10, <1>11, <2>4, <3>1
      <4>2. owner[routes[i].id] = r.app
        BY <1>18, <1>4, <2>4, <3>1 DEF ServedBy
      <4> QED
        BY <1>2, <4>1, <4>2 DEF RouteRecorded
    <3>2. CASE q # r
      BY <1>2, <1>9, <2>4, <3>2 DEF RouteRecorded, Asked
    <3> QED
      BY <3>1, <3>2
  <2> QED
    BY <2>2, <2>3, <2>4 DEF RouteRecorded
<1>26. BootsRecorded'
  BY <1>2, <1>17 DEF BootsRecorded
<1>27. RegistersOK'
  <2> SUFFICES ASSUME NEW q \in Asked("register") PROVE RegisterOK(q)'
    BY DEF RegistersOK, Asked
  <2>1. q \in Requests /\ q.app \in Apps /\ RegisterOK(q)
    BY AdminAssumption DEF Asked, Correspondence, RegistersOK
  <2>2. CASE q = r
    <3>1. rec0 \in Recorded(r.app)' /\ rec0.path = r.path
      BY <1>2, <1>10, <1>11
    <3> QED
      BY <1>2, <1>9, <2>2, <3>1 DEF RegisterOK
  <2>3. CASE q # r
    <3>1. at'[q] = at[q] /\ ids'[q] = ids[q]
      BY <1>2, <1>9, <2>1, <2>3
    <3>2. NoneAsked({"unregister"})' => NoneAsked({"unregister"})
      BY <1>2, <1>9 DEF NoneAsked
    <3>3. at[q] = "record" => \A id \in Range(ids[q]) : id # x
      BY <1>2, <1>4, <2>1, <2>3 DEF RegisterOK
    <3>4. \A rec : rec \in Recorded(q.app) => rec \in Recorded(q.app)'
      BY <1>11, <2>1
    <3>5. apps[q.app] # NoApp => apps'[q.app] # NoApp /\ apps'[q.app].files = apps[q.app].files
      BY <1>11, <2>1
    <3> QED
      BY <1>2, <1>12, <1>13, <1>14, <2>1, <3>1, <3>2, <3>3, <3>4, <3>5 DEF RegisterOK
  <2> QED
    BY <2>2, <2>3
<1>28. UnregistersOK'
  <2>1. \A q \in Asked("unregister") : at'[q] = at[q]
    BY <1>2, <1>9 DEF Asked
  <2>2. Live' = Live
    BY <1>2 DEF Live
  <2> QED
    BY <1>2, <2>1, <2>2 DEF Correspondence, UnregistersOK
<1> QED
  BY <1>19, <1>20, <1>21, <1>24, <1>25, <1>26, <1>27, <1>28 DEF Correspondence

\* What is left of a manifest's records.
LEMMA KeptRecords ==
  ASSUME NEW records \in Seq(Records), NEW x,
         NEW p \in Ascending({i \in 1..Len(records) : records[i].id # x})
  PROVE  /\ [k \in DOMAIN p |-> records[p[k]]] \in Seq(Records)
         /\ Range([k \in DOMAIN p |-> records[p[k]]]) = {rec \in Range(records) : rec.id # x}
<1> DEFINE S == {i \in 1..Len(records) : records[i].id # x}
           left == [k \in DOMAIN p |-> records[p[k]]]
<1>1. S \in SUBSET (1..Len(records)) /\ p \in Ascending(S)
  OBVIOUS
<1>2. DOMAIN records = 1..Len(records)
  BY LenProperties
<1>3. \A i : i \in S <=> i \in 1..Len(records) /\ records[i].id # x
  OBVIOUS
<1> HIDE DEF S
<1>4. /\ left \in Seq(Records)
      /\ DOMAIN p = 1..Cardinality(S) /\ Cardinality(S) \in Nat
      /\ \A k \in DOMAIN p : p[k] \in S
      /\ \A i \in S : \E k \in DOMAIN p : p[k] = i
  BY <1>1, KeptFacts
<1>5. DOMAIN left = DOMAIN p /\ \A k \in DOMAIN p : left[k] = records[p[k]]
  OBVIOUS
<1> HIDE DEF left
<1>6. \A rec : rec \in Range(left) <=> \E k \in DOMAIN p : rec = records[p[k]]
  BY <1>5 DEF Range
<1>7. \A rec : rec \in Range(records) <=> \E i \in 1..Len(records) : rec = records[i]
  BY <1>2 DEF Range
<1>8. ASSUME NEW rec \in Range(left) PROVE rec \in Range(records) /\ rec.id # x
  BY <1>3, <1>4, <1>6, <1>7, <1>8
<1>9. ASSUME NEW rec \in Range(records), rec.id # x PROVE rec \in Range(left)
  BY <1>3, <1>4, <1>6, <1>7, <1>9
<1> QED
  BY <1>4, <1>8, <1>9 DEF left

\* The record of an unregistration goes, of the one application there is.
LEMMA UnrecordCalm ==
  ASSUME IInv, Undisturbed', Correspondence, NEW r \in Requests, Unrecord(r) PROVE Correspondence'
<1>1. AR!TypeOK /\ TableOK /\ HandlersOK /\ AppsHaveDirs
  BY DEF IInv
<1>2. /\ at[r] = "unrecord" /\ r \in Asked("unregister") /\ r.op = "unregister"
      /\ r.app \in Apps
      /\ UNCHANGED <<routes, issued, ids, owner, booting>>
  <2>1. at[r] = "unrecord" /\ r.op = "unregister"
    BY <1>1 DEF Unrecord, Call, Goto, HandlersOK, StepsOfOperation, StepOf
  <2> QED
    BY <2>1, AdminAssumption DEF Asked, Unrecord, Call, tableVars
<1>3. PICK x \in RouteIds : ids[r] = <<x>>
  <2>1. ids[r] \in Seq(RouteIds) /\ Len(ids[r]) = 1
    BY <1>1, <1>2 DEF HandlersOK, Correspondence, UnregistersOK
  <2> QED
    BY <2>1
<1>4. Range(ids[r]) = {x} /\ ids[r][1] = x /\ x \notin Live
  <2>1. Range(ids[r]) = {x} /\ ids[r][1] = x
    BY <1>3 DEF Range
  <2> QED
    BY <1>2, <2>1 DEF Correspondence, UnregistersOK
<1>5. PICK ok \in BOOLEAN : /\ Goto(r, "unrecord", "ok")
                            /\ AR!RemoveRouteRecord(r.app, x, ok)
  BY <1>4 DEF Unrecord, Call
<1>6. \A q \in Requests : at'[q] = IF q = r THEN "ok" ELSE at[q]
  BY <1>1, <1>5 DEF Goto, HandlersOK
<1>7. OneApplication
  <2>1. ~NoneAsked({"unregister"})'
    BY <1>2, <1>6 DEF NoneAsked
  <2> QED
    BY <2>1 DEF Undisturbed, OneApplication
<1>8. \A b \in Apps : b = r.app
  BY <1>2, <1>7 DEF OneApplication
<1>9. /\ \A b \in Apps : Recorded(b)' = {rec \in Recorded(b) : rec.id # x}
      /\ \A b \in Apps : apps[b] # NoApp => apps'[b] # NoApp /\ apps'[b].files = apps[b].files
      /\ \A b \in Apps : apps'[b] # NoApp => apps[b] # NoApp
      /\ UNCHANGED blobs
  <2>1. CASE AR!NotFound(r.app, ok)
    <3>1. UNCHANGED <<apps, blobs>> /\ Recorded(r.app) = {}
      BY <2>1 DEF AR!NotFound, AR!vars, Recorded
    <3>2. Recorded(r.app)' = {}
      BY <3>1 DEF Recorded
    <3> QED
      BY <1>8, <3>1, <3>2
  <2>2. CASE apps[r.app] # NoApp /\ ~ AR!NotFound(r.app, ok)
    <3> DEFINE records == apps[r.app].routes
    <3>0. UNCHANGED blobs
      BY <1>5, <2>2 DEF AR!RemoveRouteRecord
    <3>1. records \in Seq(Records) /\ Recorded(r.app) = Range(records)
      BY <1>1, <1>2, <2>2 DEF AR!TypeOK, AR!Manifests, Recorded
    <3>2. PICK p \in Ascending({i \in 1..Len(records) : records[i].id # x}) :
            AR!Update(r.app, [apps[r.app] EXCEPT !.routes = [k \in DOMAIN p |-> records[p[k]]]], ok)
      BY <1>5, <2>2 DEF AR!RemoveRouteRecord, Ascending, AR!Ascending, Cardinality, AR!Cardinality,
                        IsFiniteSet, AR!IsFiniteSet
    <3> DEFINE left == [k \in DOMAIN p |-> records[p[k]]]
    <3> HIDE DEF records
    <3>3. left \in Seq(Records) /\ Range(left) = {rec \in Range(records) : rec.id # x}
      BY <3>1, KeptRecords
    <3>4. AR!Update(r.app, [apps[r.app] EXCEPT !.routes = left], ok)
      BY <3>2
    <3> HIDE DEF left
    <3>5. /\ \A b \in Apps : Recorded(b)' = IF b = r.app THEN Range(left) ELSE Recorded(b)
          /\ \A b \in Apps : apps[b] # NoApp => apps'[b] # NoApp /\ apps'[b].files = apps[b].files
          /\ \A b \in Apps : apps'[b] # NoApp => apps[b] # NoApp
      BY <1>1, <1>2, <2>2, <3>3, <3>4, RecordsOfUpdate
    <3> QED
      BY <1>8, <3>0, <3>1, <3>3, <3>5
  <2> QED
    BY <1>5, <2>1, <2>2 DEF AR!RemoveRouteRecord
<1>10. \A id : id \in Listed' => id \in Listed
  BY <1>9 DEF Listed
<1>11. \A a \in Apps : \A f : Loadable(a, f) => Loadable(a, f)'
  BY <1>9 DEF Loadable
<1>12. \A a, w, id : ServedBy(a, w, id)' <=> ServedBy(a, w, id)
  BY <1>2 DEF ServedBy
<1>13. \A id : Stale(id) => Stale(id)' /\ id # x
  BY <1>2, <1>4, <1>6 DEF Stale, Live, Asked
<1>14. \A id : Unseen(id) => Unseen(id)'
  BY <1>2, <1>10 DEF Unseen
<1>15. booting = <<>>
  BY <1>5 DEF Goto, Serving
<1>16. FilesWritten'
  <2>1. \A u \in Asked("upload") : at'[u] = at[u]
    BY <1>2, <1>6 DEF Asked
  <2> QED
    BY <1>9, <2>1 DEF Correspondence, FilesWritten, Asked
<1>17. AllIssued'
  BY <1>2, <1>10 DEF Correspondence, AllIssued
<1>18. PathsApart'
  BY <1>2 DEF Correspondence, PathsApart
<1>19. RecordsServed'
  <2> SUFFICES ASSUME NEW a \in Apps, NEW rec \in Recorded(a)' PROVE RecordOK(a, rec)'
    BY DEF RecordsServed
  <2>1. rec \in Recorded(a) /\ rec.id # x
    BY <1>9
  <2>2. RecordOK(a, rec)
    BY <2>1 DEF Correspondence, RecordsServed
  <2>3. \A b \in Apps : \A other \in Recorded(b)' : other \in Recorded(b)
    BY <1>9
  <2>4. \A q \in Asked("unregister") : at[q] = "unrecord" /\ rec.id \in Range(ids[q]) => at'[q] = "unrecord"
    BY <1>4, <1>6, <2>1 DEF Asked
  <2>5. RecordServed(a, rec)'
    BY <1>2, <1>12, <1>13, <1>14, <2>2, <2>4 DEF RecordOK, RecordServed, Asked
  <2> QED
    BY <1>11, <2>2, <2>3, <2>5 DEF RecordOK
<1>20. RoutesRecorded'
  <2> SUFFICES ASSUME NobodyLeft', NEW i \in 1..Len(routes), routes[i].managed
               PROVE  RouteRecorded(i)'
    BY <1>2 DEF RoutesRecorded
  <2>1. NobodyLeft
    BY <1>2, <1>6 DEF NobodyLeft
  <2>2. RouteRecorded(i)
    BY <2>1 DEF Correspondence, RoutesRecorded
  <2>3. routes[i].id # x
    BY <1>4, LiveMember
  <2>4. ASSUME NEW a \in Apps, NEW rec \in Recorded(a),
               owner[routes[i].id] = a, routes[i].segments = Pattern(rec.path),
               rec.id = routes[i].id \/ Stale(rec.id)
        PROVE  RouteRecorded(i)'
    <3>1. rec.id # x
      BY <1>13, <2>3, <2>4
    <3>2. rec \in Recorded(a)'
      BY <1>9, <3>1
    <3> QED
      BY <1>2, <1>13, <2>4, <3>2 DEF RouteRecorded
  <2>5. ASSUME NEW q \in Asked("register"), at[q] = "record", routes[i].id \in Range(ids[q]),
               routes[i].segments = Pattern(q.path)
        PROVE  RouteRecorded(i)'
    <3>1. at'[q] = "record" /\ ids'[q] = ids[q]
      BY <1>2, <1>6, <2>5 DEF Asked
    <3> QED
      BY <1>2, <2>5, <3>1 DEF RouteRecorded, Asked
  <2> QED
    BY <2>2, <2>4, <2>5 DEF RouteRecorded
<1>21. BootsRecorded'
  BY <1>2, <1>15 DEF BootsRecorded
<1>22. RegistersOK'
  <2> SUFFICES ASSUME NEW q \in Asked("register") PROVE RegisterOK(q)'
    BY DEF RegistersOK, Asked
  <2>1. q \in Requests /\ q # r /\ q.app \in Apps /\ RegisterOK(q)
    BY <1>2, AdminAssumption DEF Asked, Correspondence, RegistersOK
  <2>2. at'[q] = at[q] /\ ids'[q] = ids[q]
    BY <1>2, <1>6, <2>1
  <2>3. ~NoneAsked({"unregister"})'
    BY <1>2, <1>6 DEF NoneAsked
  <2>4. apps[q.app] # NoApp => apps'[q.app] # NoApp /\ apps'[q.app].files = apps[q.app].files
    BY <1>9, <2>1
  <2> QED
    BY <1>2, <1>10, <1>11, <1>12, <2>1, <2>2, <2>3, <2>4 DEF RegisterOK
<1>23. UnregistersOK'
  <2>1. \A q \in Asked("unregister") : at'[q] = at[q] \/ at'[q] = "ok"
    BY <1>2, <1>6 DEF Asked
  <2>2. Live' = Live
    BY <1>2 DEF Live
  <2> QED
    BY <1>2, <2>1, <2>2 DEF Correspondence, UnregistersOK
<1> QED
  BY <1>16, <1>17, <1>18, <1>19, <1>20, <1>21, <1>22, <1>23 DEF Correspondence

\* The process is started again: what is recorded is to be registered.
LEMMA RestartCalm ==
  ASSUME IInv, Undisturbed', Correspondence, Restart PROVE Correspondence'
<1>1. AR!TypeOK /\ TableOK /\ HandlersOK /\ AppsHaveDirs
  BY DEF IInv
<1>2. /\ issued' = issued \o StaticIds
      /\ routes' = [i \in 1..Len(Static) |->
                      [id |-> StaticIds[i], method |-> "GET", segments |-> Static[i].path,
                       managed |-> FALSE]]
      /\ at' = [r \in Requests |-> IF at[r] \in Over \cup {"new"} THEN at[r] ELSE "gone"]
      /\ ids' = [r \in Requests |-> <<>>]
      /\ booting' \in Reloads
      /\ apps' = manifests /\ disk_ok' = disk_ok
  BY DEF Restart, AR!Restart
<1>3. apps' = apps
  BY <1>1, <1>2 DEF AppsHaveDirs, Undisturbed
<1>4. \A r \in Requests : /\ Range(ids'[r]) = {}
                          /\ at'[r] = IF at[r] \in Over \cup {"new"} THEN at[r] ELSE "gone"
  BY <1>2 DEF Range
<1>5. \A r \in Requests : at'[r] \in Over \cup {"new"}
  BY <1>4 DEF Over
<1>6. \A a \in Apps : Recorded(a)' = Recorded(a)
  BY <1>3 DEF Recorded
<1>7. Listed' = Listed
  BY <1>6 DEF Listed
<1>8. PICK torn : /\ torn \subseteq {<<r.app, r.file>> : r \in {q \in Requests : at[q] = "write"}}
                  /\ blobs' = [a \in Apps |-> [f \in Files |->
                                 IF <<a, f>> \in torn THEN "torn" ELSE blobs[a][f]]]
  <2>1. \E torn \in SUBSET {w \in {<<r.app, r.file>> : r \in {q \in Requests : at[q] = "write"}} :
                               w[1] \in dirs} :
          blobs' = [a \in Apps |-> [f \in Files |->
                      IF <<a, f>> \in torn THEN "torn" ELSE blobs[a][f]]]
    BY Zenon DEF Restart, AR!Restart
  <2> QED
    BY <2>1
<1>9. ASSUME NEW a \in Apps, apps[a] # NoApp, NEW f \in apps[a].files PROVE blobs'[a][f] = blobs[a][f]
  <2>1. <<a, f>> \notin torn
    <3> SUFFICES ASSUME <<a, f>> \in torn PROVE FALSE
      OBVIOUS
    <3>1. PICK q \in Requests : at[q] = "write" /\ q.app = a /\ q.file = f
      BY <1>8
    <3>2. q \in Asked("upload")
      BY <1>1, <3>1 DEF HandlersOK, StepsOfOperation, StepOf, Asked
    <3> QED
      BY <1>9, <3>1, <3>2 DEF Correspondence, FilesWritten
  <2>2. f \in Files
    BY <1>1, <1>9 DEF AR!TypeOK, AR!Manifests
  <2> QED
    BY <1>8, <2>1, <2>2
<1>10. \A a \in Apps : \A f : Loadable(a, f) => Loadable(a, f)'
  BY <1>3, <1>9 DEF Loadable
<1>11. /\ Len(routes') = Len(StaticWords) /\ Len(StaticWords) \in Nat
       /\ \A i \in 1..Len(StaticWords) :
            /\ routes'[i].id = Len(issued) + i
            /\ routes'[i].segments = Pattern(StaticWords[i])
            /\ ~routes'[i].managed
  <2>1. Len(Static) = Len(StaticWords) /\ Len(Static) \in Nat
    BY StaticType
  <2>2. \A i \in 1..Len(Static) : Static[i].path = Pattern(StaticWords[i])
    BY <2>1 DEF Static, Pattern, RT!Literal
  <2>3. \A i \in 1..Len(Static) : StaticIds[i] = Len(issued) + i
    BY DEF StaticIds
  <2> QED
    BY <1>2, <2>1, <2>2, <2>3
<1>12. Live' = {}
  BY <1>11 DEF Live
<1>13. \A id : Stale(id)'
  BY <1>4, <1>12 DEF Stale, Asked
<1>14. FilesWritten'
  <2>1. \A u \in Asked("upload") : at'[u] # "file" /\ (at[u] \notin {"new", "write"} => at'[u] \notin {"new", "write"})
    BY <1>4 DEF Asked, Over
  <2> QED
    BY <1>3, <1>9, <2>1 DEF Correspondence, FilesWritten, Asked
<1>15. AllIssued'
  <2>1. Len(issued') = Len(issued) + Len(StaticWords)
    <3>1. Len(issued) \in Nat /\ Len(issued) + Len(Static) <= MaxId
      BY <1>1, IdTypes DEF Restart
    <3>2. \A i \in 1..Len(Static) : Len(issued) + i \in RouteIds
      BY <3>1, StaticType, AdminAssumption DEF RouteIds
    <3>3. StaticIds \in Seq(RouteIds) /\ Len(StaticIds) = Len(StaticWords)
      BY <3>2, StaticType DEF StaticIds
    <3>4. issued \in Seq(RouteIds)
      BY <1>1 DEF TableOK
    <3>5. Len(issued \o StaticIds) = Len(issued) + Len(StaticIds)
      BY <3>3, <3>4, ConcatProperties
    <3> QED
      BY <1>2, <3>3, <3>5
  <2>2. Len(issued) \in Nat /\ \A id \in Listed : id \in RouteIds
    BY <1>1, IdTypes
  <2>3. \A i \in 1..Len(routes') : routes'[i].id <= Len(issued')
    BY <1>11, <2>1, <2>2
  <2>4. \A id \in Listed' : id <= Len(issued')
    BY <1>7, <1>11, <2>1, <2>2 DEF Correspondence, AllIssued, RouteIds
  <2> QED
    BY <1>4, <2>3, <2>4 DEF AllIssued
<1>16. PathsApart'
  BY <1>11 DEF PathsApart
<1>17. \A e : e \in Range(booting') <=>
         \E a \in Apps : \E rec \in Recorded(a) : e = [app |-> a, record |-> rec]
  BY <1>1, <1>2, <1>3, ReloadsFacts DEF Recorded
<1>18. RecordsServed'
  <2> SUFFICES ASSUME NEW a \in Apps, NEW rec \in Recorded(a) PROVE RecordOK(a, rec)'
    BY <1>6 DEF RecordsServed
  <2>1. RecordOK(a, rec)
    BY DEF Correspondence, RecordsServed
  <2>2. RecordServed(a, rec)'
    BY <1>13, <1>17 DEF RecordServed
  <2> QED
    BY <1>6, <1>10, <2>1, <2>2 DEF RecordOK
<1>19. RoutesRecorded' /\ (booting' # <<>> => \A i \in 1..Len(routes') : ~routes'[i].managed)
  BY <1>11 DEF RoutesRecorded
<1>20. BootsRecorded'
  <2>1. booting' \in Seq(Bootings)
    BY <1>1, <1>2, ReloadsFacts
  <2>2. \A k \in 1..Len(booting') : booting'[k] \in Range(booting')
    BY <2>1, LenProperties DEF Range
  <2>3. ASSUME NEW k \in 1..Len(booting')
        PROVE  (booting[k].record \in Recorded(booting[k].app))'
    <3>1. PICK a \in Apps : \E rec \in Recorded(a) : booting'[k] = [app |-> a, record |-> rec]
      BY <1>17, <2>2
    <3>2. PICK rec \in Recorded(a) : booting'[k] = [app |-> a, record |-> rec]
      BY <3>1
    <3>3. booting'[k].app = a /\ booting'[k].record = rec
      BY <3>2
    <3> QED
      BY <1>3, <3>3 DEF Recorded
  <2> QED
    BY <1>5, <1>19, <2>3 DEF BootsRecorded
<1>21. RegistersOK'
  <2> SUFFICES ASSUME NEW q \in Asked("register") PROVE RegisterOK(q)'
    BY DEF RegistersOK, Asked
  <2>1. q \in Requests /\ q.app \in Apps /\ RegisterOK(q)
    BY AdminAssumption DEF Asked, Correspondence, RegistersOK
  <2>2. NoneAsked({"unregister"})' => NoneAsked({"unregister"})
    BY <1>4 DEF NoneAsked, Over
  <2>3. at'[q] \in Over \cup {"new"} /\ (at'[q] = "ok" => at[q] = "ok")
    BY <1>4, <2>1 DEF Over
  <2> QED
    BY <1>6, <2>1, <2>2, <2>3 DEF RegisterOK, Over
<1>22. UnregistersOK'
  BY <1>5 DEF UnregistersOK, Over, Asked
<1> QED
  BY <1>14, <1>15, <1>16, <1>18, <1>19, <1>20, <1>21, <1>22 DEF Correspondence

\* Start-up serves the next record, unless its path is served already.
LEMMA ReloadCalm ==
  ASSUME IInv, Correspondence, Reload PROVE Correspondence'
<1>1. AR!TypeOK /\ TableOK /\ HandlersOK
  BY DEF IInv
<1>2. booting # <<>> /\ booting' = Tail(booting) /\ UNCHANGED <<apps, blobs, at, ids>>
  BY DEF Reload, registryVars
<1>3. /\ booting \in Seq(Bootings) /\ Len(booting) \in Nat /\ Len(booting) >= 1
      /\ booting[1] \in Bootings
      /\ Len(booting') = Len(booting) - 1
      /\ \A k \in 1..Len(booting') : k + 1 \in 1..Len(booting) /\ booting'[k] = booting[k + 1]
      /\ \A e \in Range(booting) : e = booting[1] \/ e \in Range(booting')
  <2>1. booting \in Seq(Bootings) /\ Len(booting) \in Nat /\ Len(booting) >= 1
    BY <1>1, <1>2, EmptySeq, LenProperties DEF HandlersOK
  <2>2. /\ booting[1] \in Bootings /\ Len(booting') = Len(booting) - 1
        /\ \A k \in 1..Len(booting') : booting'[k] = booting[k + 1]
        /\ DOMAIN booting' = 1..Len(booting') /\ DOMAIN booting = 1..Len(booting)
    BY <1>2, <2>1, ElementOfSeq, LenProperties, HeadTailProperties
  <2>3. ASSUME NEW e \in Range(booting), e # booting[1] PROVE e \in Range(booting')
    <3>1. PICK k \in 1..Len(booting) : e = booting[k]
      BY <2>2 DEF Range
    <3>2. k - 1 \in 1..Len(booting') /\ k - 1 + 1 = k
      BY <2>1, <2>2, <2>3, <3>1
    <3>3. e = booting'[k - 1]
      BY <2>2, <3>1, <3>2
    <3> QED
      BY <2>2, <3>2, <3>3 DEF Range
  <2> QED
    BY <2>1, <2>2, <2>3
<1>4. PICK app \in Apps, rec0 \in Records : booting[1] = [app |-> app, record |-> rec0]
  BY <1>3 DEF Bootings
<1>4a. /\ rec0.path \in Words /\ rec0 \in Recorded(app)
       /\ booting[1].app = app /\ booting[1].record = rec0
  BY <1>3, <1>4 DEF Records, Correspondence, BootsRecorded
<1>5. RecordOK(app, rec0)
  BY <1>4a DEF Correspondence, RecordsServed
<1>6. blobs[app][rec0.file] = "source"
  BY <1>5 DEF RecordOK, Loadable
<1>7. /\ \A a \in Apps : Recorded(a)' = Recorded(a)
      /\ Listed' = Listed
      /\ \A a \in Apps : \A f : Loadable(a, f)' <=> Loadable(a, f)
  BY <1>2 DEF Recorded, Listed, Loadable
<1>8. AllIssued /\ PathsApart
  BY DEF Correspondence
<1>9. \A id : Unseen(id)' <=> Unseen(id)
  BY <1>2, <1>7 DEF Unseen
<1>10. FilesWritten'
  BY <1>2 DEF Correspondence, FilesWritten
<1>11. ASSUME \A a, w, id : ServedBy(a, w, id) => ServedBy(a, w, id)',
              \A id \in Listed : Stale(id) => Stale(id)',
              \E id \in RouteIds : Unseen(id) /\ ServedBy(app, rec0.path, id)'
       PROVE  RecordsServed' /\ RegistersOK'
  <2>1. ASSUME NEW a \in Apps, NEW rec \in Recorded(a) PROVE RecordOK(a, rec)'
    <3>1. RecordOK(a, rec)
      BY DEF Correspondence, RecordsServed
    <3>2. Stale(rec.id) => Stale(rec.id)'
      BY <1>11 DEF Listed
    <3>3. [app |-> a, record |-> rec] = booting[1] => a = app /\ rec = rec0
      BY <1>4
    <3>4. RecordServed(a, rec)'
      <4>1. CASE ServedBy(a, rec.path, rec.id)
        BY <1>11, <4>1 DEF RecordServed
      <4>2. CASE Stale(rec.id) /\ \E id \in RouteIds : Unseen(id) /\ ServedBy(a, rec.path, id)
        BY <1>9, <1>11, <3>2, <4>2 DEF RecordServed
      <4>3. CASE Stale(rec.id) /\ [app |-> a, record |-> rec] \in Range(booting)
        <5>1. Stale(rec.id)'
          BY <3>2, <4>3
        <5>2. CASE [app |-> a, record |-> rec] = booting[1]
          BY <1>9, <1>11, <3>3, <5>1, <5>2 DEF RecordServed
        <5>3. CASE [app |-> a, record |-> rec] \in Range(booting')
          BY <5>1, <5>3 DEF RecordServed
        <5> QED
          BY <1>3, <4>3, <5>2, <5>3
      <4>4. CASE \E q \in Asked("unregister") : at[q] = "unrecord" /\ rec.id \in Range(ids[q])
        BY <1>2, <4>4 DEF RecordServed, Asked
      <4> QED
        BY <3>1, <4>1, <4>2, <4>3, <4>4 DEF RecordOK, RecordServed
    <3> QED
      BY <1>7, <3>1, <3>4 DEF RecordOK
  <2>2. ASSUME NEW q \in Asked("register") PROVE RegisterOK(q)'
    <3>1. q \in Requests /\ q.app \in Apps /\ RegisterOK(q)
      BY AdminAssumption DEF Asked, Correspondence, RegistersOK
    <3> QED
      BY <1>2, <1>7, <1>11, <3>1 DEF RegisterOK, NoneAsked
  <2> QED
    BY <1>7, <2>1, <2>2 DEF RecordsServed, RegistersOK, Asked
<1>12. \A k \in 1..Len(booting') : (booting[k].record \in Recorded(booting[k].app))'
  BY <1>2, <1>3 DEF Recorded, Correspondence, BootsRecorded
<1>13. ASSUME NEW i \in 1..Len(routes), routes[i].managed
       PROVE  /\ Unseen(routes[i].id)
              /\ \E a \in Apps : \E rec \in Recorded(a) :
                   owner[routes[i].id] = a /\ routes[i].segments = Pattern(rec.path)
  BY <1>2, <1>13 DEF Correspondence, BootsRecorded
<1>14. CASE UNCHANGED <<tableVars, owner, refused>> /\ RT!Collides("GET", Pattern(rec0.path))
  <2>1. UNCHANGED <<routes, issued, owner>>
    BY <1>14 DEF tableVars
  <2>2. PICK i \in 1..Len(routes) : routes[i].segments = Pattern(rec0.path)
    BY <1>1, <1>4a, <1>14, CollidesFacts
  <2>3. routes[i].managed
    <3> SUFFICES ASSUME ~routes[i].managed PROVE FALSE
      OBVIOUS
    <3>1. PICK k \in 1..Len(StaticWords) : Pattern(rec0.path) = Pattern(StaticWords[k])
      BY <1>8, <2>2 DEF PathsApart
    <3>2. rec0.path = StaticWords[k]
      BY <3>1, PatternsDiffer
    <3>3. DOMAIN StaticWords = 1..Len(StaticWords)
      BY AdminAssumption, LenProperties
    <3> QED
      BY <1>5, <3>2, <3>3 DEF RecordOK, Range
  <2>4. PICK a \in Apps : \E rec \in Recorded(a) :
              owner[routes[i].id] = a /\ routes[i].segments = Pattern(rec.path)
    BY <1>13, <2>3
  <2>5. PICK rec \in Recorded(a) : owner[routes[i].id] = a /\ routes[i].segments = Pattern(rec.path)
    BY <2>4
  <2>6. rec.path = rec0.path
    BY <2>2, <2>5, PatternsDiffer
  <2>7. a = app
    BY <1>5, <2>6 DEF RecordOK
  <2>8. routes[i].id \in RouteIds /\ Unseen(routes[i].id) /\ ServedBy(app, rec0.path, routes[i].id)
    BY <1>1, <1>13, <2>2, <2>3, <2>5, <2>7, IdTypes DEF ServedBy
  <2>9. \A b, w, id : ServedBy(b, w, id)' <=> ServedBy(b, w, id)
    BY <2>1 DEF ServedBy
  <2>10. \A id : Stale(id)' <=> Stale(id)
    BY <1>2, <2>1 DEF Stale, Live
  <2>11. RecordsServed' /\ RegistersOK'
    <3>1. \E id \in RouteIds : Unseen(id) /\ ServedBy(app, rec0.path, id)'
      BY <2>8, <2>9
    <3> QED
      BY <1>11, <2>9, <2>10, <3>1
  <2>12. AllIssued' /\ PathsApart'
    BY <1>2, <1>7, <1>8, <2>1 DEF AllIssued, PathsApart
  <2>13. RoutesRecorded'
    BY <1>2, <1>7, <2>1, <2>10 DEF Correspondence, RoutesRecorded, RouteRecorded, NobodyLeft
  <2>14. BootsRecorded'
    BY <1>2, <1>7, <1>9, <1>12, <1>13, <2>1 DEF Correspondence, BootsRecorded
  <2>15. UnregistersOK'
    <3>1. Live' = Live
      BY <2>1 DEF Live
    <3> QED
      BY <1>2, <3>1 DEF Correspondence, UnregistersOK
  <2> QED
    BY <1>10, <2>11, <2>12, <2>13, <2>14, <2>15 DEF Correspondence
<1>15. ASSUME NEW id0, id0 = RT!Fresh, AddRoute(id0, app, rec0.path) PROVE Correspondence'
  <2>1. Unseen(id0) /\ \A i \in 1..Len(routes) : routes[i].id # id0
    BY <1>1, <1>8, <1>15, FreshIsNew
  <2> DEFINE n == Len(routes)
             new == routes'[n + 1]
  <2>2. /\ n \in Nat /\ Len(routes') = n + 1
        /\ \A i \in 1..n : routes'[i] = routes[i] /\ owner'[routes[i].id] = owner[routes[i].id]
        /\ new.id = id0 /\ new.segments = Pattern(rec0.path) /\ new.managed
        /\ \A b, v, id : ServedBy(b, v, id) => ServedBy(b, v, id)'
        /\ ServedBy(app, rec0.path, id0)'
        /\ PathsApart'
    BY <1>1, <1>4a, <1>8, <1>15, AddRouteCalm
  <2> HIDE DEF n, new
  <2>3. /\ Len(issued') = Len(issued) + 1 /\ id0 = Len(issued) + 1 /\ Live' = Live \cup {id0}
        /\ id0 \in RouteIds
    BY <1>1, <1>4a, <1>15, AddRouteFacts
  <2>4. \A id \in Listed : Stale(id) => Stale(id)'
    BY <1>2, <2>1, <2>3 DEF Stale, Unseen, Asked
  <2>5. RecordsServed' /\ RegistersOK'
    BY <1>11, <2>1, <2>2, <2>3, <2>4
  <2>6. AllIssued'
    <3>1. \A x \in RouteIds : x <= Len(issued) => x <= Len(issued')
      BY <1>1, <2>3, IdTypes DEF RouteIds
    <3>2. \A i \in 1..Len(routes') : routes'[i].id <= Len(issued')
      BY <1>1, <1>8, <2>2, <2>3, <3>1, IdTypes DEF AllIssued, n, new
    <3>3. \A q \in Requests : \A id \in Range(ids'[q]) : id <= Len(issued')
      BY <1>1, <1>2, <1>8, <3>1, IdTypes DEF AllIssued
    <3>4. \A id \in Listed' : id <= Len(issued')
      BY <1>1, <1>7, <1>8, <3>1, IdTypes DEF AllIssued
    <3> QED
      BY <3>2, <3>3, <3>4 DEF AllIssued
  <2>7. owner'[id0] = app
    BY <2>2 DEF ServedBy
  <2>8. ASSUME NEW i \in 1..Len(routes'), routes'[i].managed
        PROVE  /\ Unseen(routes'[i].id)
               /\ \E a \in Apps : \E rec \in Recorded(a) :
                    owner'[routes'[i].id] = a /\ routes'[i].segments = Pattern(rec.path)
    <3>1. CASE i = n + 1
      BY <1>4a, <2>1, <2>2, <2>7, <3>1 DEF new
    <3>2. CASE i # n + 1
      <4>1. i \in 1..Len(routes) /\ routes'[i] = routes[i] /\ owner'[routes[i].id] = owner[routes[i].id]
        BY <2>2, <3>2 DEF n
      <4> QED
        BY <1>13, <2>8, <4>1
    <3> QED
      BY <3>1, <3>2
  <2>9. BootsRecorded'
    BY <1>2, <1>7, <1>9, <1>12, <2>8 DEF Correspondence, BootsRecorded
  <2>10. RoutesRecorded'
    <3> SUFFICES ASSUME NobodyLeft', NEW i \in 1..Len(routes'), routes'[i].managed
                 PROVE  RouteRecorded(i)'
      BY DEF RoutesRecorded
    <3>1. CASE i = n + 1
      <4>1. Stale(rec0.id)
        <5>1. ~ServedBy(app, rec0.path, rec0.id)
          BY <1>1, <1>4a, <1>15, CollidesFacts DEF AddRoute, RT!AddRouteDyn, ServedBy
        <5>2. \A q \in Requests : at[q] # "unrecord"
          BY <1>2 DEF Correspondence, BootsRecorded, Over
        <5> QED
          BY <1>5, <5>1, <5>2 DEF RecordOK, RecordServed, Asked
      <4>2. Stale(rec0.id)' /\ rec0 \in Recorded(app)'
        BY <1>4a, <1>7, <2>4, <4>1 DEF Listed
      <4> QED
        BY <2>2, <2>7, <3>1, <4>2 DEF RouteRecorded, new
    <3>2. CASE i # n + 1
      <4>1. /\ i \in 1..Len(routes) /\ routes'[i] = routes[i]
            /\ owner'[routes[i].id] = owner[routes[i].id]
        BY <2>2, <3>2 DEF n
      <4>2. RouteRecorded(i)
        BY <1>2, <3>2, <4>1 DEF Correspondence, RoutesRecorded, NobodyLeft
      <4>3. \A a \in Apps : \A rec \in Recorded(a) : Stale(rec.id) => Stale(rec.id)'
        BY <2>4 DEF Listed
      <4> QED
        BY <1>2, <1>7, <4>1, <4>2, <4>3 DEF RouteRecorded, Asked
    <3> QED
      BY <3>1, <3>2
  <2>11. UnregistersOK'
    BY <1>2, <2>1, <2>3 DEF Correspondence, UnregistersOK, Unseen, Asked
  <2> QED
    BY <1>10, <2>2, <2>5, <2>6, <2>9, <2>10, <2>11 DEF Correspondence
<1> QED
  BY <1>4a, <1>6, <1>14, <1>15 DEF Reload

\* The namespace is made, or removed with no application in it.
LEMMA NamespaceCalm ==
  ASSUME IInv, Undisturbed', Correspondence, NEW r \in Requests,
         MakeDir(r) \/ Enlist(r) \/ Disband(r)
  PROVE  Correspondence'
<1>1. AR!TypeOK /\ HandlersOK
  BY DEF IInv
<1>2. /\ at[r] \in {"mkdir", "enlist", "disband"}
      /\ Serving /\ UNCHANGED <<tableVars, ids, owner, booting>>
  BY DEF MakeDir, Enlist, Disband, Call, Goto
<1>3. r.op \in {"namespace", "disband"}
  BY <1>1, <1>2 DEF HandlersOK, StepsOfOperation, StepOf
<1>4. PICK to \in {"enlist", "ok", "error"} : at' = [at EXCEPT ![r] = to]
  BY DEF MakeDir, Enlist, Disband, Call, Goto
<1>5. FilesWritten' /\ RegistryKept
  <2>1. CASE UNCHANGED <<apps, blobs>>
    BY <1>1, <1>4, <2>1, FilesKept DEF Correspondence
  <2>2. ASSUME \A a \in Apps : apps[a] = NoApp, apps' = apps,
               \A a \in Apps : blobs'[a] \in {blobs[a], AR!NoBlobs}
        PROVE  FilesWritten' /\ RegistryKept
    <3>1. \A q \in Requests : at'[q] = "file" => at[q] = "file"
      BY <1>1, <1>4 DEF HandlersOK
    <3>2. \A u \in Asked("upload") : u.app \in Apps /\ u.file \in Files
      BY AdminAssumption DEF Asked
    <3>3. \A a \in Apps : Recorded(a)' = Recorded(a)
      BY <2>2 DEF Recorded
    <3>4. \A u \in Asked("upload") : at'[u] = "file" => blobs'[u.app][u.file] \in {"source", "missing"}
      BY <2>2, <3>1, <3>2 DEF Correspondence, FilesWritten, AR!NoBlobs, Asked
    <3> QED
      BY <2>2, <3>3, <3>4 DEF FilesWritten, RegistryKept
  <2>3. CASE AR!DeleteNamespace(Namespace, TRUE)
    <3>1. apps' = apps /\ \A a \in Apps : apps[a] = NoApp
      BY <2>3, AdminAssumption DEF AR!DeleteNamespace, AR!RegistryAssumption
    <3>2. \A a \in Apps : blobs'[a] \in {blobs[a], AR!NoBlobs}
      BY <2>3 DEF AR!DeleteNamespace, AR!RemoveDirs, AR!DiskFault, Undisturbed
    <3> QED
      BY <2>2, <3>1, <3>2
  <2>4. CASE MakeDir(r) \/ Enlist(r)
    BY <2>1, <2>4
    DEF MakeDir, Enlist, Call, AR!MakeNamespaceDir, AR!InsertNamespace, AR!memory, AR!disk
  <2>5. CASE Disband(r)
    BY <2>1, <2>3, <2>5 DEF Disband, Call, AR!DeleteNamespace, AR!vars
  <2> QED
    BY <2>4, <2>5
<1>6. r.op # "register" /\ to \notin {"unroute", "load", "insert"}
  BY <1>3
<1> QED
  BY <1>1, <1>2, <1>4, <1>5, <1>6, QuietStep DEF Over

\* An application is created, without files.
LEMMA CreateCalm ==
  ASSUME IInv, Undisturbed', Correspondence, NEW r \in Requests, Create(r) PROVE Correspondence'
<1>1. AR!TypeOK /\ HandlersOK
  BY DEF IInv
<1>2. at[r] = "create" /\ Serving /\ UNCHANGED <<tableVars, ids, owner, booting>>
  BY DEF Create, Call, Goto
<1>3. r.op = "create" /\ r.app \in Apps
  BY <1>1, <1>2, AdminAssumption DEF HandlersOK, StepsOfOperation, StepOf
<1>4. PICK to \in {"ok", "error"} : at' = [at EXCEPT ![r] = to]
  BY DEF Create, Call, Goto
<1>5. FilesWritten' /\ RegistryKept
  <2>1. CASE UNCHANGED <<apps, blobs>>
    BY <1>1, <1>4, <2>1, FilesKept DEF Correspondence
  <2>2. CASE apps' = [apps EXCEPT ![r.app] = AR!EmptyManifest] /\ blobs' = blobs /\ apps[r.app] = NoApp
    <3>1. \A a \in Apps : apps'[a] = IF a = r.app THEN AR!EmptyManifest ELSE apps[a]
      BY <1>1, <2>2 DEF AR!TypeOK
    <3>2. /\ AR!EmptyManifest # NoApp
          /\ AR!EmptyManifest.files = {} /\ Range(AR!EmptyManifest.routes) = {}
      <4>1. AR!EmptyManifest # NoApp
        BY EmptyIsManifest, AdminAssumption DEF AR!RegistryAssumption
      <4>2. AR!EmptyManifest.files = {} /\ Range(AR!EmptyManifest.routes) = {}
        BY DEF AR!EmptyManifest, Range
      <4> QED
        BY <4>1, <4>2
    <3>3. \A q \in Requests : at'[q] = IF q = r THEN to ELSE at[q]
      BY <1>1, <1>4 DEF HandlersOK
    <3>4. \A a \in Apps : Recorded(a)' = Recorded(a)
      BY <2>2, <3>1, <3>2 DEF Recorded
    <3>5. FilesWritten'
      BY <2>2, <3>1, <3>2, <3>3 DEF Correspondence, FilesWritten, Asked
    <3> QED
      BY <2>2, <3>1, <3>2, <3>4, <3>5 DEF RegistryKept
  <2> QED
    BY <2>1, <2>2 DEF Create, Call, AR!CreateApp, AR!vars
<1>6. r.op # "register" /\ to \notin {"unroute", "load", "insert"}
  BY <1>3
<1> QED
  BY <1>1, <1>2, <1>4, <1>5, <1>6, QuietStep DEF Over

\* The bytes of a file are written, before it is listed.
LEMMA WriteCalm ==
  ASSUME SourceUploadedOnce, IInv, Undisturbed', Correspondence, NEW r \in Requests, Write(r)
  PROVE  Correspondence'
<1>1. AR!TypeOK /\ HandlersOK
  BY DEF IInv
<1>2. at[r] = "write" /\ Serving /\ UNCHANGED <<tableVars, ids, owner, booting>>
  BY DEF Write, Call, Goto
<1>3. r \in Asked("upload") /\ r.op = "upload" /\ r.app \in Apps /\ r.file \in Files
  BY <1>1, <1>2, AdminAssumption DEF HandlersOK, StepsOfOperation, StepOf, Asked
<1>4. r.content = "source"
  BY <1>3 DEF SourceUploadedOnce
<1>5. PICK ok \in BOOLEAN : /\ at' = [at EXCEPT ![r] = IF ok THEN "file" ELSE "error"]
                            /\ AR!WriteFile(r.app, r.file, r.content, ok)
  BY DEF Write, Call, Goto
<1>6. apps' = apps /\ \A a \in Apps : Recorded(a)' = Recorded(a)
  BY <1>5 DEF AR!WriteFile, AR!memory, Recorded
<1>7. /\ ok => \A a \in Apps : \A f \in Files :
                 blobs'[a][f] = IF a = r.app /\ f = r.file THEN "source" ELSE blobs[a][f]
      /\ ~ok => blobs' = blobs
  <2>1. CASE ok
    <3>1. blobs' = [blobs EXCEPT ![r.app][r.file] = "source"]
      BY <1>4, <1>5, <2>1 DEF AR!WriteFile
    <3> QED
      BY <1>1, <1>3, <2>1, <3>1 DEF AR!TypeOK
  <2>2. CASE ~ok
    BY <1>5, <2>2 DEF AR!WriteFile, AR!DiskFault, Undisturbed
  <2> QED
    BY <2>1, <2>2
<1>8. \A q \in Requests : at'[q] = IF q = r THEN IF ok THEN "file" ELSE "error" ELSE at[q]
  BY <1>1, <1>5 DEF HandlersOK
<1>9. \A a \in Apps : apps[a] # NoApp => apps[a].files \subseteq Files
  BY <1>1 DEF AR!TypeOK, AR!Manifests
<1>10. FilesWritten'
  <2>1. ASSUME NEW a \in Apps, apps[a] # NoApp, NEW f \in apps[a].files
        PROVE  /\ blobs'[a][f] \in {"source", "missing"}
               /\ \A u \in Asked("upload") : u.app = a /\ u.file = f => at'[u] \notin {"new", "write"}
    <3>1. blobs[a][f] \in {"source", "missing"}
      BY <2>1 DEF Correspondence, FilesWritten
    <3>2. \A u \in Asked("upload") : u.app = a /\ u.file = f => at[u] \notin {"new", "write"}
      BY <2>1 DEF Correspondence, FilesWritten
    <3>3. f \in Files
      BY <1>9, <2>1
    <3>4. blobs'[a][f] \in {"source", "missing"}
      BY <1>7, <3>1, <3>3
    <3> QED
      BY <1>8, <3>2, <3>4 DEF Asked
  <2>2. ASSUME NEW u \in Asked("upload"), at'[u] = "file"
        PROVE  blobs'[u.app][u.file] \in {"source", "missing"}
    <3>1. u \in Requests /\ u.app \in Apps /\ u.file \in Files
      BY AdminAssumption DEF Asked
    <3>2. u = r \/ at[u] = "file"
      BY <1>8, <2>2, <3>1
    <3>3. u = r => ok
      BY <1>8, <2>2, <3>1
    <3>4. at[u] = "file" => blobs[u.app][u.file] \in {"source", "missing"}
      BY DEF Correspondence, FilesWritten
    <3> QED
      BY <1>7, <3>1, <3>2, <3>3, <3>4
  <2> QED
    BY <1>6, <2>1, <2>2 DEF FilesWritten, Asked
<1>11. RegistryKept
  <2>1. \A a \in Apps : \A f \in Files : blobs[a][f] = "source" => blobs'[a][f] = "source"
    BY <1>7
  <2> QED
    BY <1>6, <1>9, <2>1 DEF RegistryKept
<1> DEFINE to == IF ok THEN "file" ELSE "error"
<1>12. /\ r.op # "register" /\ to \notin {"unroute", "load", "insert", "new", "unrecord", "record", "rollback"}
       /\ at' = [at EXCEPT ![r] = to]
  BY <1>3, <1>5
<1> HIDE DEF to
<1> QED
  BY <1>1, <1>2, <1>10, <1>11, <1>12, QuietStep DEF Over

\* The file is listed, after its bytes were written.
LEMMA FileCalm ==
  ASSUME SourceUploadedOnce, IInv, Undisturbed', Correspondence, NEW r \in Requests, File(r)
  PROVE  Correspondence'
<1>1. AR!TypeOK /\ HandlersOK
  BY DEF IInv
<1>2. at[r] = "file" /\ Serving /\ UNCHANGED <<tableVars, ids, owner, booting>>
  BY DEF File, Call, Goto
<1>3. r \in Asked("upload") /\ r.op = "upload" /\ r.app \in Apps /\ r.file \in Files
  BY <1>1, <1>2, AdminAssumption DEF HandlersOK, StepsOfOperation, StepOf, Asked
<1>4. PICK to \in {"ok", "error"} : at' = [at EXCEPT ![r] = to]
  BY DEF File, Call, Goto
<1>5. \A q \in Requests : at'[q] = IF q = r THEN to ELSE at[q]
  BY <1>1, <1>4 DEF HandlersOK
<1>6. FilesWritten' /\ RegistryKept
  <2>1. CASE UNCHANGED <<apps, blobs>>
    BY <1>1, <1>4, <2>1, FilesKept DEF Correspondence
  <2> DEFINE m == [apps[r.app] EXCEPT !.files = @ \cup {r.file}]
  <2>2. CASE apps[r.app] # NoApp /\ apps' = [apps EXCEPT ![r.app] = m] /\ blobs' = blobs
    <3>1. apps[r.app] \in AR!Manifests
      BY <1>1, <1>3, <2>2 DEF AR!TypeOK
    <3>2. /\ m \in AR!Manifests /\ m.routes = apps[r.app].routes
          /\ m.files = apps[r.app].files \cup {r.file}
      BY <1>3, <3>1 DEF AR!Manifests
    <3>3. m # NoApp
      BY <3>2, AdminAssumption DEF AR!RegistryAssumption
    <3>4. \A a \in Apps : apps'[a] = IF a = r.app THEN m ELSE apps[a]
      BY <1>1, <2>2 DEF AR!TypeOK
    <3> HIDE DEF m
    <3>5. \A a \in Apps : Recorded(a)' = Recorded(a)
      BY <2>2, <3>2, <3>3, <3>4 DEF Recorded
    <3>6. ASSUME NEW a \in Apps, apps'[a] # NoApp, NEW f \in apps'[a].files
          PROVE  /\ blobs'[a][f] \in {"source", "missing"}
                 /\ \A u \in Asked("upload") : u.app = a /\ u.file = f => at'[u] \notin {"new", "write"}
      <4>1. CASE apps[a] # NoApp /\ f \in apps[a].files
        BY <1>4, <1>5, <2>2, <4>1 DEF Correspondence, FilesWritten, Asked
      <4>2. CASE a = r.app /\ f = r.file
        <5>1. \A u \in Asked("upload") : u.app = a /\ u.file = f => u = r
          BY <1>3, <4>2 DEF SourceUploadedOnce
        <5>2. blobs[a][f] \in {"source", "missing"}
          BY <1>2, <1>3, <4>2 DEF Correspondence, FilesWritten
        <5> QED
          BY <1>4, <1>5, <2>2, <5>1, <5>2 DEF Asked
      <4> QED
        BY <2>2, <3>2, <3>4, <3>6, <4>1, <4>2
    <3>7. \A u \in Asked("upload") : at'[u] = "file" => blobs'[u.app][u.file] \in {"source", "missing"}
      BY <1>4, <1>5, <2>2 DEF Correspondence, FilesWritten, Asked
    <3>8. FilesWritten'
      BY <3>6, <3>7 DEF FilesWritten, Asked
    <3> QED
      BY <2>2, <3>2, <3>3, <3>4, <3>5, <3>8 DEF RegistryKept
  <2> QED
    BY <2>1, <2>2 DEF File, Call, AR!RecordFile, AR!NotFound, AR!vars, AR!Update
<1>7. r.op # "register" /\ to \notin {"unroute", "load", "insert"}
  BY <1>3
<1> QED
  BY <1>1, <1>2, <1>4, <1>6, <1>7, QuietStep DEF Over

\* A handler looks at the registry, or is dropped.
LEMMA LookingCalm ==
  ASSUME IInv, Undisturbed', Correspondence, NEW r \in Requests,
         Arrive(r) \/ Check(r) \/ Load(r) \/ Leave(r)
  PROVE  Correspondence'
<1>1. AR!TypeOK /\ HandlersOK
  BY DEF IInv
<1>2. /\ Serving /\ UNCHANGED <<tableVars, owner, booting, apps, blobs>>
  BY DEF Arrive, Check, Load, Leave, Goto, registryVars
<1>3. RegistryKept
  BY <1>2 DEF RegistryKept, Recorded
<1>4. CASE Arrive(r)
  <2>1. at[r] = "new" /\ at' = [at EXCEPT ![r] = First(r.op)]
    BY <1>4 DEF Arrive, Goto
  <2>2. r.op \in {"namespace", "disband", "create", "delete", "upload", "remove",
                  "register", "unregister"}
    BY AdminAssumption
  <2>3. /\ First(r.op) \notin {"new", "file", "ok", "unrecord", "record", "rollback", "load", "insert"}
        /\ First(r.op) = "unroute" <=> r.op = "unregister"
    BY <2>2 DEF First
  <2>4. FilesWritten'
    BY <1>1, <1>2, <2>1, <2>3, FilesKept DEF Correspondence
  <2>5. \/ ids' = ids /\ First(r.op) # "unroute"
        \/ /\ First(r.op) = "unroute" /\ r.op = "unregister"
           /\ \E id \in Listed : ids' = [ids EXCEPT ![r] = <<id>>]
    BY <1>4, <2>3 DEF Arrive
  <2> DEFINE to == First(r.op)
  <2>6. at' = [at EXCEPT ![r] = to]
    BY <2>1
  <2>7. at[r] \notin Over \cup {"unrecord", "rollback", "record"}
    BY <2>1 DEF Over
  <2> HIDE DEF to
  <2>8. /\ to \notin {"new", "ok", "unrecord", "record", "rollback", "load", "insert"}
        /\ \/ ids' = ids /\ to # "unroute"
           \/ /\ to = "unroute" /\ r.op = "unregister"
              /\ \E id \in Listed : ids' = [ids EXCEPT ![r] = <<id>>]
    BY <2>3, <2>5 DEF to
  <2> QED
    BY <1>1, <1>2, <1>3, <2>4, <2>6, <2>7, <2>8, QuietStep
<1>5. CASE Check(r)
  <2>1. at[r] = "check" /\ ids' = ids
    BY <1>5 DEF Check, Goto
  <2>2. PICK to \in {"load", "error"} :
          /\ at' = [at EXCEPT ![r] = to]
          /\ to = "load" => apps[r.app] # NoApp /\ r.file \in apps[r.app].files
    BY <1>5 DEF Check, Goto
  <2>3. FilesWritten'
    BY <1>1, <1>2, <2>2, FilesKept DEF Correspondence
  <2> QED
    BY <1>1, <1>2, <1>3, <2>1, <2>2, <2>3, QuietStep DEF Over
<1>6. CASE Load(r)
  <2>1. at[r] = "load" /\ ids' = ids
    BY <1>6 DEF Load, Goto
  <2>2. PICK to \in {"insert", "error"} :
          at' = [at EXCEPT ![r] = to] /\ (to = "insert" => blobs[r.app][r.file] # "missing")
    BY <1>6 DEF Load, Goto
  <2>3. r.op = "register" /\ r.app \in Apps
    BY <1>1, <2>1, AdminAssumption DEF HandlersOK, StepsOfOperation, StepOf
  <2>4. apps[r.app] # NoApp /\ r.file \in apps[r.app].files
    BY <2>1, <2>3 DEF Correspondence, RegistersOK, RegisterOK, Asked
  <2>5. to = "insert" => Loadable(r.app, r.file)'
    BY <1>2, <2>2, <2>3, <2>4 DEF Correspondence, FilesWritten, Loadable
  <2>6. FilesWritten'
    BY <1>1, <1>2, <2>2, FilesKept DEF Correspondence
  <2> QED
    BY <1>1, <1>2, <1>3, <2>1, <2>2, <2>5, <2>6, QuietStep DEF Over
<1>7. CASE Leave(r)
  <2>1. at[r] \notin Over \cup {"new", "mkdir", "write", "load"} /\ at' = [at EXCEPT ![r] = "left"] /\ ids' = ids
    BY <1>7 DEF Leave, Goto
  <2>2. at'[r] = "left" /\ ~NobodyLeft'
    BY <1>1, <2>1 DEF HandlersOK, NobodyLeft
  <2>3. at[r] # "unrecord"
    <3> SUFFICES ASSUME at[r] = "unrecord" PROVE FALSE
      OBVIOUS
    <3>1. r.op = "unregister"
      BY <1>1 DEF HandlersOK, StepsOfOperation, StepOf
    <3> QED
      BY <2>2, <3>1 DEF Undisturbed, NoneAsked
  <2>4. at[r] # "rollback"
    <3> SUFFICES ASSUME at[r] = "rollback" PROVE FALSE
      OBVIOUS
    <3>1. r.op = "register"
      BY <1>1 DEF HandlersOK, StepsOfOperation, StepOf
    <3> QED
      BY <3>1 DEF Correspondence, RegistersOK, RegisterOK, Asked
  <2>5. FilesWritten'
    BY <1>1, <1>2, <2>1, FilesKept DEF Correspondence
  <2> QED
    BY <1>1, <1>2, <1>3, <2>1, <2>3, <2>4, <2>5, QuietStep
<1> QED
  BY <1>4, <1>5, <1>6, <1>7

\* What undoes an application or a file was asked for.
LEMMA NothingUndone ==
  ASSUME IInv, Undisturbed', Correspondence, NEW r \in Requests
  PROVE  ~(RemoveFile(r) \/ Rollback(r) \/ Snapshot(r) \/ Unload(r) \/ Delete(r))
<1>1. HandlersOK
  BY DEF IInv
<1>2. ~Rollback(r)
  <2> SUFFICES ASSUME Rollback(r) PROVE FALSE
    OBVIOUS
  <2>1. at[r] = "rollback" /\ r.op = "register"
    BY <1>1 DEF Rollback, Goto, HandlersOK, StepsOfOperation, StepOf
  <2> QED
    BY <2>1 DEF Correspondence, RegistersOK, RegisterOK, Asked
<1>3. ASSUME RemoveFile(r) \/ Snapshot(r) \/ Unload(r) \/ Delete(r) PROVE FALSE
  <2>1. at[r] \in {"remove", "snapshot", "unload", "delete"}
    BY <1>3 DEF RemoveFile, Snapshot, Unload, Delete, Call, Goto
  <2>2. r.op \in {"remove", "delete"}
    BY <1>1, <2>1 DEF HandlersOK, StepsOfOperation, StepOf
  <2>3. \E to \in {"ok", "error", "unload", "delete"} : at' = [at EXCEPT ![r] = to]
    BY <1>3 DEF RemoveFile, Snapshot, Unload, Delete, Call, Goto
  <2>4. at'[r] # "new"
    BY <1>1, <2>3 DEF HandlersOK
  <2> QED
    BY <2>2, <2>4 DEF Undisturbed, NoneAsked
<1> QED
  BY <1>2, <1>3

\* What was asked for stays asked for, and a disk that failed has failed.
\* A disk that failed stays so.
LEMMA DiskStays == ASSUME IInv, [Next]_vars PROVE disk_ok' => disk_ok
<1>1. RegistryStep
  BY StepIsRegistryStep DEF IInv
<1>2. ASSUME NEW a, NEW m, NEW ok, AR!Update(a, m, ok) PROVE disk_ok' => disk_ok
  BY <1>2 DEF AR!Update, AR!Persist, AR!DiskFault, AR!DiskWorks
<1>3. ASSUME NEW S, AR!RemoveDirs(S) PROVE disk_ok' => disk_ok
  BY <1>3 DEF AR!RemoveDirs, AR!DiskFault, AR!DiskWorks
<1>4. ASSUME NEW ok \in BOOLEAN, RegistryCall(ok) PROVE disk_ok' => disk_ok
  <2>1. CASE \/ AR!MakeNamespaceDir(Namespace, ok) \/ AR!InsertNamespace(Namespace, ok)
             \/ AR!DeleteNamespace(Namespace, ok)
    BY <1>3, <2>1 DEF AR!MakeNamespaceDir, AR!InsertNamespace, AR!DeleteNamespace,
                      AR!DiskFault, AR!DiskWorks, AR!disk, AR!vars
  <2>2. ASSUME NEW a \in Apps, AR!CreateApp(a, ok) \/ AR!DeleteApp(a, ok) PROVE disk_ok' => disk_ok
    BY <1>3, <2>2 DEF AR!CreateApp, AR!DeleteApp, AR!DiskFault, AR!DiskWorks, AR!vars
  <2>3. ASSUME NEW a \in Apps, NEW f \in Files, AR!RecordFile(a, f, ok) \/ AR!DeleteFile(a, f, ok)
        PROVE  disk_ok' => disk_ok
    BY <1>2, <2>3 DEF AR!RecordFile, AR!DeleteFile, AR!NotFound, AR!vars
  <2>4. ASSUME NEW a \in Apps, NEW f \in Files, NEW c, AR!WriteFile(a, f, c, ok)
        PROVE  disk_ok' => disk_ok
    BY <2>4 DEF AR!WriteFile, AR!DiskFault, AR!DiskWorks
  <2>5. ASSUME NEW a \in Apps, NEW rec \in Records, AR!AddRouteRecord(a, rec, ok)
        PROVE  disk_ok' => disk_ok
    BY <1>2, <2>5 DEF AR!AddRouteRecord, AR!NotFound, AR!vars
  <2>6. ASSUME NEW a \in Apps, NEW id, AR!RemoveRouteRecord(a, id, ok) PROVE disk_ok' => disk_ok
    BY <1>2, <2>6 DEF AR!RemoveRouteRecord, AR!NotFound, AR!vars
  <2> QED
    BY <1>4, <2>1, <2>2, <2>3, <2>4, <2>5, <2>6 DEF RegistryCall
<1> QED
  BY <1>1, <1>4 DEF RegistryStep, registryVars, AR!Restart

LEMMA DisturbedStays ==
  ASSUME IInv, [Next]_vars, Undisturbed' PROVE Undisturbed
<1>1. HandlersOK
  BY DEF IInv
<1>2. disk_ok' => disk_ok
  BY DiskStays
<1>3. \A q \in Requests : (at'[q] = "new" => at[q] = "new") /\ (at[q] = "left" => at'[q] = "left")
  <2>1. ASSUME NEW r \in Requests, Handle(r) \/ Leave(r)
        PROVE  \E to : at' = [at EXCEPT ![r] = to] /\ to # "new" /\ at[r] # "left"
    <3>1. r.op \in {"namespace", "disband", "create", "delete", "upload", "remove",
                    "register", "unregister"}
      BY AdminAssumption
    <3>2. First(r.op) # "new"
      BY <3>1 DEF First
    <3>3. CASE Arrive(r)
      BY <3>2, <3>3 DEF Arrive, Goto
    <3>4. CASE Leave(r)
      BY <3>4 DEF Leave, Goto, Over
    <3>5. CASE \/ MakeDir(r) \/ Enlist(r) \/ Disband(r) \/ Create(r) \/ Write(r) \/ File(r)
               \/ RemoveFile(r) \/ Record(r) \/ Unrecord(r) \/ Delete(r)
      BY <3>5 DEF MakeDir, Enlist, Disband, Create, Write, File, RemoveFile, Record, Unrecord,
                  Delete, Call, Goto
    <3>6. CASE \/ Check(r) \/ Load(r) \/ Insert(r) \/ Rollback(r) \/ Unroute(r)
               \/ Snapshot(r) \/ Unload(r)
      BY <3>6 DEF Check, Load, Insert, Rollback, Unroute, Snapshot, Unload, Goto
    <3> QED
      BY <2>1, <3>3, <3>4, <3>5, <3>6 DEF Handle
  <2>2. ASSUME NEW r \in Requests, Handle(r) \/ Leave(r)
        PROVE  \A q \in Requests :
                 (at'[q] = "new" => at[q] = "new") /\ (at[q] = "left" => at'[q] = "left")
    BY <1>1, <2>1, <2>2 DEF HandlersOK
  <2>3. CASE Restart
    BY <2>3 DEF Restart, Over
  <2>4. CASE Reload \/ UNCHANGED vars
    BY <2>4 DEF Reload, vars
  <2> QED
    BY <2>2, <2>3, <2>4 DEF Next
<1> QED
  BY <1>2, <1>3 DEF Undisturbed, NoneAsked, NobodyLeft

LEMMA CalmInit == Init => CalmOK
<1> SUFFICES ASSUME Init PROVE Correspondence
  BY DEF CalmOK
<1>1. IInv
  BY InitIInv
<1>2. AR!TypeOK /\ TableOK /\ HandlersOK
  BY <1>1 DEF IInv
<1>3. /\ \A a \in Apps : apps[a] = NoApp
      /\ \A r \in Requests : at[r] = "new" /\ ids[r] = <<>> /\ Range(ids[r]) = {}
      /\ booting = <<>>
  BY DEF Init, AR!Init, Range
<1>4. (\A a \in Apps : Recorded(a) = {}) /\ Listed = {}
  BY <1>3 DEF Recorded, Listed
<1>5. /\ Len(routes) = Len(StaticWords) /\ Len(StaticWords) \in Nat
      /\ \A i \in 1..Len(routes) : /\ ~routes[i].managed
                                   /\ routes[i].segments = Pattern(StaticWords[i])
                                   /\ routes[i].id = i
      /\ Len(issued) = Len(StaticWords)
  <2>1. Len(Static) = Len(StaticWords) /\ Len(Static) \in Nat
    BY StaticType
  <2>2. issued = [i \in 1..Len(Static) |-> i]
    BY DEF Init, RT!Init
  <2>3. routes = [i \in 1..Len(Static) |->
                    [id |-> issued[i], method |-> [v \in {"GET"} |-> v][Static[i].method],
                     segments |-> Static[i].path, managed |-> FALSE]]
    BY DEF Init, RT!Init
  <2>4. \A i \in 1..Len(Static) : Static[i].path = Pattern(StaticWords[i])
    BY <2>1 DEF Static, Pattern, RT!Literal
  <2>5. Len(routes) = Len(Static) /\ Len(issued) = Len(Static)
    BY <2>1, <2>2, <2>3
  <2> QED
    BY <2>1, <2>2, <2>3, <2>4, <2>5
<1>6. FilesWritten /\ AllIssued
  <2>1. FilesWritten
    BY <1>3 DEF FilesWritten, Asked
  <2>2. \A i \in 1..Len(routes) : routes[i].id <= Len(issued)
    BY <1>5
  <2> QED
    BY <1>3, <1>4, <2>1, <2>2 DEF AllIssued
<1>7. PathsApart
  BY <1>5 DEF PathsApart
<1>8. RecordsServed /\ RoutesRecorded /\ BootsRecorded
  BY <1>3, <1>4, <1>5 DEF RecordsServed, RoutesRecorded, BootsRecorded
<1>9. RegistersOK /\ UnregistersOK
  BY <1>3 DEF RegistersOK, RegisterOK, UnregistersOK, Asked
<1> QED
  BY <1>6, <1>7, <1>8, <1>9 DEF Correspondence

LEMMA CalmStep ==
  ASSUME SourceUploadedOnce, IInv, CalmOK, [Next]_vars PROVE CalmOK'
<1> SUFFICES ASSUME Undisturbed' PROVE Correspondence'
  BY DEF CalmOK
<1>1. Undisturbed /\ Correspondence
  BY DisturbedStays DEF CalmOK
<1>2. ASSUME NEW r \in Requests, Handle(r) \/ Leave(r) PROVE Correspondence'
  <2>1. CASE MakeDir(r) \/ Enlist(r) \/ Disband(r)
    BY <1>1, <2>1, NamespaceCalm
  <2>2. CASE Create(r)
    BY <1>1, <2>2, CreateCalm
  <2>3. CASE Write(r)
    BY <1>1, <2>3, WriteCalm
  <2>4. CASE File(r)
    BY <1>1, <2>4, FileCalm
  <2>5. CASE Arrive(r) \/ Check(r) \/ Load(r) \/ Leave(r)
    BY <1>1, <2>5, LookingCalm
  <2>6. CASE Insert(r)
    BY <1>1, <2>6, InsertCalm
  <2>7. CASE Record(r)
    BY <1>1, <2>7, RecordCalm
  <2>8. CASE Unroute(r)
    BY <1>1, <2>8, UnrouteCalm
  <2>9. CASE Unrecord(r)
    BY <1>1, <2>9, UnrecordCalm
  <2>10. CASE RemoveFile(r) \/ Rollback(r) \/ Snapshot(r) \/ Unload(r) \/ Delete(r)
    BY <1>1, <2>10, NothingUndone
  <2> QED
    BY <1>2, <2>1, <2>2, <2>3, <2>4, <2>5, <2>6, <2>7, <2>8, <2>9, <2>10 DEF Handle
<1>3. CASE Restart
  BY <1>1, <1>3, RestartCalm
<1>4. CASE Reload
  BY <1>1, <1>4, ReloadCalm
<1>5. CASE UNCHANGED vars
  <2>1. UNCHANGED <<apps, blobs, routes, issued, at, ids, owner, booting>>
    BY <1>5 DEF vars, registryVars, tableVars
  <2>2. (\A a : Recorded(a)' = Recorded(a)) /\ Listed' = Listed /\ Live' = Live
    BY <2>1 DEF Recorded, Listed, Live
  <2>3. /\ \A id : Stale(id)' = Stale(id) /\ Unseen(id)' = Unseen(id)
        /\ \A a, w, id : ServedBy(a, w, id)' = ServedBy(a, w, id)
        /\ \A a, f : Loadable(a, f)' = Loadable(a, f)
    BY <2>1, <2>2 DEF Stale, Unseen, ServedBy, Loadable
  <2>4. FilesWritten' /\ AllIssued' /\ PathsApart' /\ UnregistersOK'
    BY <1>1, <2>1, <2>2
    DEF Correspondence, FilesWritten, AllIssued, PathsApart, UnregistersOK
  <2>5. RecordsServed'
    BY <1>1, <2>1, <2>2, <2>3 DEF Correspondence, RecordsServed, RecordOK, RecordServed
  <2>6. RoutesRecorded' /\ BootsRecorded'
    BY <1>1, <2>1, <2>2, <2>3
    DEF Correspondence, RoutesRecorded, RouteRecorded, BootsRecorded, NobodyLeft
  <2>7. RegistersOK'
    BY <1>1, <2>1, <2>2, <2>3 DEF Correspondence, RegistersOK, RegisterOK, NoneAsked
  <2> QED
    BY <2>4, <2>5, <2>6, <2>7 DEF Correspondence
<1> QED
  BY <1>2, <1>3, <1>4, <1>5 DEF Next

LEMMA CalmInvariance ==
  ASSUME SourceUploadedOnce PROVE Spec => [](IInv /\ CalmOK)
<1>1. Init => IInv /\ CalmOK
  BY InitIInv, CalmInit
<1>2. IInv /\ CalmOK /\ [Next]_vars => (IInv /\ CalmOK)'
  BY NextStep, CalmStep
<1> QED
  BY <1>1, <1>2, PTL DEF Spec

-----------------------------------------------------------------------------
(***************************************************************************)
(* Refused registrations.  While the disk works, no record of one is kept, *)
(* in memory or in what start-up still has to register, so that no restart *)
(* can bring its route back.                                               *)
(***************************************************************************)
Booted == {booting[k].record.id : k \in 1..Len(booting)}

\* The ids that can still become routes; and the registrations that have a route
\* and no record yet.
Kept == Live \cup Listed \cup Booted
Pending == {r \in Asked("register") : at[r] \in {"record", "rollback"}}
NoRecordYet ==
  \A r \in Pending : \A id \in Range(ids[r]) : id \notin refused \cup Listed \cup Booted

RefusalsOK ==
  /\ refused \subseteq RouteIds
  /\ disk_ok => /\ refused \cap Kept = {}
                /\ \A id \in refused \cup Listed \cup Booted : id <= Len(issued)
                /\ NoRecordYet

LEMMA BootedTypes == ASSUME HandlersOK PROVE Booted \subseteq RouteIds
<1> SUFFICES ASSUME NEW k \in 1..Len(booting) PROVE booting[k].record.id \in RouteIds
  BY DEF Booted
<1>1. booting[k] \in Bootings
  BY ElementOfSeq DEF HandlersOK
<1> QED
  BY <1>1 DEF Bootings, Records

\* A step that keeps the refusals, gives out no id and adds no record.
LEMMA RefusalsPlain ==
  ASSUME RefusalsOK, disk_ok' => disk_ok, UNCHANGED <<refused, issued>>,
         Live' \subseteq Live, Listed' \subseteq Listed, Booted' \subseteq Booted,
         \A r \in Asked("register") :
           at'[r] \in {"record", "rollback"} => at[r] \in {"record", "rollback"} /\ ids'[r] = ids[r]
  PROVE  RefusalsOK'
<1> SUFFICES ASSUME disk_ok'
             PROVE  /\ (refused \cap Kept = {})'
                    /\ \A id \in refused' \cup Listed' \cup Booted' : id <= Len(issued')
                    /\ NoRecordYet'
  BY DEF RefusalsOK
<1>1. /\ refused \cap Kept = {}
      /\ \A id \in refused \cup Listed \cup Booted : id <= Len(issued)
      /\ NoRecordYet
  BY DEF RefusalsOK
<1>2. Pending' \subseteq Pending /\ \A r \in Pending' : ids'[r] = ids[r]
  BY DEF Pending, Asked
<1> QED
  BY <1>1, <1>2 DEF Kept, NoRecordYet

\* What a step of a handler keeps: the ids of its process and of the records.
LEMMA ListedShrinks ==
  ASSUME \A a \in Apps : Recorded(a)' \subseteq Recorded(a) PROVE Listed' \subseteq Listed
BY DEF Listed

\* The registry's methods other than add_route_record add no record.
LEMMA NoRecordAdded ==
  ASSUME AR!TypeOK, NEW ok \in BOOLEAN, NEW a \in Apps,
         \/ AR!MakeNamespaceDir(Namespace, ok) \/ AR!InsertNamespace(Namespace, ok)
         \/ AR!DeleteNamespace(Namespace, ok)
         \/ AR!CreateApp(a, ok) \/ AR!DeleteApp(a, ok)
         \/ \E f, c : AR!WriteFile(a, f, c, ok)
         \/ \E f : AR!RecordFile(a, f, ok) \/ AR!DeleteFile(a, f, ok)
         \/ \E id : AR!RemoveRouteRecord(a, id, ok)
  PROVE  Listed' \subseteq Listed
<1>1. apps \in [Apps -> AR!Manifests \cup {NoApp}]
  BY DEF AR!TypeOK
<1>2. ASSUME apps' = apps PROVE Listed' \subseteq Listed
  BY <1>2 DEF Listed, Recorded
<1>3. ASSUME NEW m, apps' = [apps EXCEPT ![a] = m],
             m # NoApp => Range(m.routes) \subseteq Recorded(a)
      PROVE  Listed' \subseteq Listed
  <2>1. \A b \in Apps : apps'[b] = IF b = a THEN m ELSE apps[b]
    BY <1>1, <1>3
  <2>2. \A b \in Apps : Recorded(b)' \subseteq Recorded(b)
    BY <1>3, <2>1 DEF Recorded
  <2> QED
    BY <2>2, ListedShrinks
<1>4. CASE \/ AR!MakeNamespaceDir(Namespace, ok) \/ AR!InsertNamespace(Namespace, ok)
           \/ AR!DeleteNamespace(Namespace, ok) \/ \E f, c : AR!WriteFile(a, f, c, ok)
  BY <1>2, <1>4 DEF AR!MakeNamespaceDir, AR!InsertNamespace, AR!DeleteNamespace, AR!WriteFile,
                    AR!memory, AR!vars
<1>5. CASE AR!CreateApp(a, ok)
  <2>1. Range(AR!EmptyManifest.routes) = {}
    BY DEF AR!EmptyManifest, Range
  <2> QED
    BY <1>2, <1>3, <1>5, <2>1 DEF AR!CreateApp, AR!vars
<1>6. CASE AR!DeleteApp(a, ok)
  BY <1>2, <1>3, <1>6 DEF AR!DeleteApp, AR!vars
<1>7. ASSUME NEW f, AR!RecordFile(a, f, ok) \/ AR!DeleteFile(a, f, ok) PROVE Listed' \subseteq Listed
  <2>1. CASE apps' = apps
    BY <1>2, <2>1
  <2>2. ASSUME apps[a] # NoApp, NEW files, apps' = [apps EXCEPT ![a] = [apps[a] EXCEPT !.files = files]]
        PROVE  Listed' \subseteq Listed
    <3> DEFINE m == [apps[a] EXCEPT !.files = files]
    <3>1. apps[a] \in AR!Manifests
      BY <1>1, <2>2
    <3>2. m.routes = apps[a].routes
      BY <3>1 DEF AR!Manifests
    <3>3. Range(m.routes) \subseteq Recorded(a)
      BY <2>2, <3>2 DEF Recorded
    <3>4. apps' = [apps EXCEPT ![a] = m]
      BY <2>2
    <3> HIDE DEF m
    <3> QED
      BY <1>3, <3>3, <3>4
  <2> QED
    BY <1>7, <2>1, <2>2 DEF AR!RecordFile, AR!DeleteFile, AR!NotFound, AR!Update, AR!vars
<1>8. ASSUME NEW id, AR!RemoveRouteRecord(a, id, ok) PROVE Listed' \subseteq Listed
  <2>1. CASE apps' = apps
    BY <1>2, <2>1
  <2>2. CASE apps' # apps
    <3> DEFINE records == apps[a].routes
    <3>1. apps[a] # NoApp
      BY <1>8, <2>2 DEF AR!RemoveRouteRecord, AR!NotFound, AR!vars
    <3>2. PICK p \in Ascending({i \in 1..Len(records) : records[i].id # id}) :
            AR!Update(a, [apps[a] EXCEPT !.routes = [k \in DOMAIN p |-> records[p[k]]]], ok)
      <4>1. ~AR!NotFound(a, ok)
        BY <2>2 DEF AR!NotFound, AR!vars
      <4> QED
        BY <1>8, <3>1, <4>1 DEF AR!RemoveRouteRecord, Ascending, AR!Ascending, Cardinality,
                                AR!Cardinality, IsFiniteSet, AR!IsFiniteSet
    <3>3. records \in Seq(Records)
      BY <1>1, <3>1 DEF AR!Manifests
    <3> DEFINE left == [k \in DOMAIN p |-> records[p[k]]]
    <3>4. left \in Seq(Records) /\ Range(left) \subseteq Range(records)
      <4> HIDE DEF records
      <4>1. Range(left) = {rec \in Range(records) : rec.id # id} /\ left \in Seq(Records)
        BY <3>3, KeptRecords
      <4> QED
        BY <4>1
    <3>5. Range(records) = Recorded(a)
      BY <3>1 DEF Recorded
    <3>6. AR!Update(a, [apps[a] EXCEPT !.routes = left], ok)
      BY <3>2
    <3> HIDE DEF left, records
    <3>7. \A b \in Apps : Recorded(b)' = IF b = a THEN Range(left) ELSE Recorded(b)
      BY <3>1, <3>4, <3>6, RecordsOfUpdate
    <3> QED
      BY <3>4, <3>5, <3>7, ListedShrinks
  <2> QED
    BY <2>1, <2>2
<1> QED
  BY <1>4, <1>5, <1>6, <1>7, <1>8

LEMMA RefusalsInit == Init => RefusalsOK
<1> SUFFICES ASSUME Init PROVE RefusalsOK
  OBVIOUS
<1>1. \A a \in Apps : Recorded(a) = {}
  BY DEF Init, AR!Init, Recorded
<1>2. refused = {} /\ booting = <<>> /\ \A r \in Requests : at[r] = "new"
  BY DEF Init
<1>3. Listed = {} /\ Booted = {} /\ Pending = {}
  BY <1>1, <1>2 DEF Listed, Booted, Pending, Asked
<1> QED
  BY <1>2, <1>3 DEF RefusalsOK, NoRecordYet

\* A handler's step other than the giving out, the recording and the taking back
\* of a route.
LEMMA RefusalsLooking ==
  ASSUME IInv, RefusalsOK, disk_ok' => disk_ok, NEW r \in Requests,
         \/ Arrive(r) \/ MakeDir(r) \/ Enlist(r) \/ Disband(r) \/ Create(r) \/ Write(r) \/ File(r)
         \/ RemoveFile(r) \/ Check(r) \/ Load(r) \/ Unroute(r) \/ Unrecord(r) \/ Snapshot(r)
         \/ Unload(r) \/ Delete(r) \/ Leave(r)
  PROVE  RefusalsOK'
<1>1. AR!TypeOK /\ TableOK /\ HandlersOK
  BY DEF IInv
<1>2. UNCHANGED <<refused, issued, booting>> /\ Live' \subseteq Live
  <2>1. CASE Unroute(r) \/ Unload(r)
    BY <1>1, <2>1, RemoveRoutesFacts DEF Unroute, Unload
  <2>2. CASE ~(Unroute(r) \/ Unload(r))
    <3>1. UNCHANGED <<refused, tableVars, booting>>
      BY <2>2 DEF Arrive, MakeDir, Enlist, Disband, Create, Write, File, RemoveFile, Check, Load,
                  Unrecord, Snapshot, Delete, Leave, Call
    <3> QED
      BY <3>1 DEF tableVars, Live
  <2> QED
    BY <2>1, <2>2
<1>3. \A q \in Asked("register") :
        at'[q] \in {"record", "rollback"} => at[q] \in {"record", "rollback"} /\ ids'[q] = ids[q]
  <2>1. \E to : at' = [at EXCEPT ![r] = to] /\ to \notin {"record", "rollback"}
    <3>1. r.op \in {"namespace", "disband", "create", "delete", "upload", "remove",
                    "register", "unregister"}
      BY AdminAssumption
    <3>2. First(r.op) \notin {"record", "rollback"}
      BY <3>1 DEF First
    <3> QED
      BY <3>2 DEF Arrive, MakeDir, Enlist, Disband, Create, Write, File, RemoveFile, Check, Load,
                  Unroute, Unrecord, Snapshot, Unload, Delete, Leave, Call, Goto, Over
  <2>2. \A q \in Requests : q # r => ids'[q] = ids[q]
    BY <1>1 DEF HandlersOK, Arrive, MakeDir, Enlist, Disband, Create, Write, File, RemoveFile,
                Check, Load, Unroute, Unrecord, Snapshot, Unload, Delete, Leave, Call
  <2> QED
    BY <1>1, <2>1, <2>2 DEF HandlersOK, Asked
<1>4. Booted' = Booted
  BY <1>2 DEF Booted
<1>5. Listed' \subseteq Listed
  <2>1. ASSUME apps' = apps PROVE Listed' \subseteq Listed
    BY <2>1 DEF Listed, Recorded
  <2>2. CASE \/ Arrive(r) \/ Check(r) \/ Load(r) \/ Unroute(r) \/ Snapshot(r) \/ Unload(r) \/ Leave(r)
    BY <2>1, <2>2 DEF Arrive, Check, Load, Unroute, Snapshot, Unload, Leave, registryVars
  <2>3. CASE MakeDir(r) \/ Enlist(r) \/ Disband(r)
    <3>1. PICK ok \in BOOLEAN : \/ AR!MakeNamespaceDir(Namespace, ok)
                                \/ AR!InsertNamespace(Namespace, ok)
                                \/ AR!DeleteNamespace(Namespace, ok)
      BY <2>3 DEF MakeDir, Enlist, Disband, Call
    <3>2. CASE AR!MakeNamespaceDir(Namespace, ok) \/ AR!InsertNamespace(Namespace, ok)
      BY <2>1, <3>2 DEF AR!MakeNamespaceDir, AR!InsertNamespace, AR!memory
    <3>3. CASE AR!DeleteNamespace(Namespace, ok)
      BY <2>1, <3>3 DEF AR!DeleteNamespace, AR!vars
    <3> QED
      BY <3>1, <3>2, <3>3
  <2>4. CASE Create(r) \/ Delete(r)
    <3>1. r.app \in Apps
      BY <1>1, <2>4, AdminAssumption
      DEF Create, Delete, Call, Goto, HandlersOK, StepsOfOperation, StepOf
    <3>2. PICK ok \in BOOLEAN : AR!CreateApp(r.app, ok) \/ AR!DeleteApp(r.app, ok)
      BY <2>4 DEF Create, Delete, Call
    <3> QED
      BY <1>1, <3>1, <3>2, NoRecordAdded
  <2>5. CASE Write(r) \/ File(r) \/ RemoveFile(r)
    <3>1. r.app \in Apps /\ r.file \in Files
      BY <1>1, <2>5, AdminAssumption
      DEF Write, File, RemoveFile, Call, Goto, HandlersOK, StepsOfOperation, StepOf
    <3>2. PICK ok \in BOOLEAN : \/ AR!WriteFile(r.app, r.file, r.content, ok)
                                \/ AR!RecordFile(r.app, r.file, ok)
                                \/ AR!DeleteFile(r.app, r.file, ok)
      BY <2>5 DEF Write, File, RemoveFile, Call
    <3> QED
      BY <1>1, <3>1, <3>2, NoRecordAdded
  <2>6. CASE Unrecord(r)
    <3>1. r.app \in Apps
      BY <1>1, <2>6, AdminAssumption DEF Unrecord, Call, Goto, HandlersOK, StepsOfOperation, StepOf
    <3>2. PICK ok \in BOOLEAN : AR!RemoveRouteRecord(r.app, ids[r][1], ok)
      BY <2>6 DEF Unrecord, Call
    <3> QED
      BY <1>1, <3>1, <3>2, NoRecordAdded
  <2> QED
    BY <2>2, <2>3, <2>4, <2>5, <2>6
<1> QED
  BY <1>2, <1>3, <1>4, <1>5, RefusalsPlain

\* A new route has an id that is nowhere yet.
LEMMA RefusalsInsert ==
  ASSUME IInv, RefusalsOK, NEW r \in Requests, Insert(r) PROVE RefusalsOK'
<1>1. AR!TypeOK /\ TableOK /\ HandlersOK
  BY DEF IInv
<1>2. /\ r \in Asked("register") /\ r.op = "register"
      /\ UNCHANGED <<registryVars, refused, booting>>
  BY <1>1 DEF Insert, Goto, HandlersOK, StepsOfOperation, StepOf, Asked
<1>3. disk_ok' = disk_ok /\ Listed' = Listed /\ Booted' = Booted /\ refused' = refused
  BY <1>2 DEF registryVars, Listed, Recorded, Booted
<1>4. CASE at' = [at EXCEPT ![r] = "error"] /\ UNCHANGED <<tableVars, ids, owner>>
  <2>1. \A q \in Asked("register") :
          at'[q] \in {"record", "rollback"} => at[q] \in {"record", "rollback"} /\ ids'[q] = ids[q]
    BY <1>1, <1>4 DEF HandlersOK, Asked
  <2>2. UNCHANGED issued /\ Live' = Live
    BY <1>4 DEF tableVars, Live
  <2> QED
    BY <1>3, <2>1, <2>2, RefusalsPlain
<1>5. CASE /\ at' = [at EXCEPT ![r] = "record"]
           /\ AddRoute(RT!Fresh, r.app, r.path)
           /\ ids' = [ids EXCEPT ![r] = <<RT!Fresh>>]
  <2> SUFFICES ASSUME disk_ok PROVE RefusalsOK'
    BY <1>2, <1>3 DEF RefusalsOK
  <2> DEFINE id == RT!Fresh
  <2>1. r.path \in Words
    BY <1>2, AdminAssumption
  <2>2. /\ Len(issued') = Len(issued) + 1 /\ id = Len(issued) + 1
        /\ id \in RouteIds /\ Live' = Live \cup {id}
    BY <1>1, <1>5, <2>1, AddRouteFacts
  <2>3. Len(issued) \in Nat /\ \A x \in Listed : x \in RouteIds
    BY <1>1, IdTypes
  <2> HIDE DEF id
  <2>4. /\ refused \cap Kept = {} /\ NoRecordYet
        /\ refused \subseteq RouteIds /\ Booted \subseteq RouteIds
        /\ \A x \in refused \cup Listed \cup Booted : x <= Len(issued)
    BY <1>1, BootedTypes DEF RefusalsOK
  <2>5. \A x \in refused \cup Listed \cup Booted : x # id /\ x <= Len(issued')
    BY <2>2, <2>3, <2>4 DEF RouteIds
  <2>6. (refused \cap Kept = {})'
    BY <1>3, <2>2, <2>4, <2>5 DEF Kept
  <2>7. /\ \A q \in Requests : at'[q] = IF q = r THEN "record" ELSE at[q]
        /\ \A q \in Requests : ids'[q] = IF q = r THEN <<id>> ELSE ids[q]
    BY <1>1, <1>5 DEF HandlersOK, id
  <2>8. NoRecordYet'
    <3> SUFFICES ASSUME NEW q \in Pending', NEW x \in Range(ids'[q])
                 PROVE  x \notin refused \cup Listed \cup Booted
      BY <1>3 DEF NoRecordYet
    <3>1. q \in Asked("register") /\ q \in Requests
      BY DEF Pending, Asked
    <3>2. CASE q = r
      <4>1. x = id
        BY <1>2, <2>7, <3>2 DEF Range
      <4> QED
        BY <2>5, <4>1
    <3>3. CASE q # r
      BY <2>4, <2>7, <3>1, <3>3 DEF NoRecordYet, Pending
    <3> QED
      BY <3>2, <3>3
  <2> QED
    BY <1>3, <2>4, <2>5, <2>6, <2>8 DEF RefusalsOK
<1> QED
  BY <1>4, <1>5 DEF Insert, Goto

\* A record is kept of a registration that is not refused afterwards, unless the
\* disk fails.
LEMMA RefusalsRecord ==
  ASSUME IInv, RefusalsOK, disk_ok' => disk_ok, NEW r \in Requests, Record(r) PROVE RefusalsOK'
<1>1. AR!TypeOK /\ TableOK /\ HandlersOK /\ AppsHaveDirs
  BY DEF IInv
<1>2. /\ at[r] = "record" /\ r \in Asked("register") /\ r.op = "register"
      /\ UNCHANGED <<tableVars, ids, refused, booting>>
  BY <1>1 DEF Record, Call, Goto, HandlersOK, StepsOfOperation, StepOf, Asked
<1>3. /\ r.app \in Apps /\ r.file \in Files /\ r.path \in Words
      /\ ids[r] \in Seq(RouteIds) /\ Len(ids[r]) = 1
  BY <1>1, <1>2, AdminAssumption DEF HandlersOK, OwnIds
<1>4. ids[r][1] \in RouteIds /\ Range(ids[r]) = {ids[r][1]}
  BY <1>3 DEF Range
<1> DEFINE id == ids[r][1]
           rec == [id |-> id, path |-> r.path, file |-> r.file]
<1>5. PICK ok \in BOOLEAN : /\ at' = [at EXCEPT ![r] = IF ok THEN "ok" ELSE "rollback"]
                            /\ AR!AddRouteRecord(r.app, rec, ok)
  BY DEF Record, Call, Goto
<1>6. Live' = Live /\ issued' = issued /\ refused' = refused /\ Booted' = Booted /\ ids' = ids
  BY <1>2 DEF tableVars, Live, Booted
<1> SUFFICES ASSUME disk_ok' PROVE RefusalsOK'
  BY <1>6 DEF RefusalsOK
<1>7. \A q \in Requests : at'[q] = IF q = r THEN IF ok THEN "ok" ELSE "rollback" ELSE at[q]
  BY <1>1, <1>5 DEF HandlersOK
<1>8. CASE apps' = apps
  <2>1. Listed' = Listed
    BY <1>8 DEF Listed, Recorded
  <2>2. \A q \in Asked("register") :
          at'[q] \in {"record", "rollback"} => at[q] \in {"record", "rollback"} /\ ids'[q] = ids[q]
    BY <1>2, <1>6, <1>7 DEF Asked
  <2> QED
    BY <1>6, <2>1, <2>2, RefusalsPlain
<1>9. CASE apps' # apps
  <2> DEFINE records == apps[r.app].routes
             longer == Append(records, rec)
  <2>1. apps[r.app] # NoApp /\ AR!Update(r.app, [apps[r.app] EXCEPT !.routes = longer], ok)
    BY <1>5, <1>9 DEF AR!AddRouteRecord, AR!NotFound, AR!vars
  <2>2. records \in Seq(Records) /\ rec \in Records
    BY <1>1, <1>3, <1>4, <2>1 DEF AR!TypeOK, AR!Manifests, Records
  <2>3. longer \in Seq(Records) /\ Range(longer) = Range(records) \cup {rec}
    <3> HIDE DEF records, rec
    <3>1. /\ longer \in Seq(Records) /\ Len(longer) = Len(records) + 1
          /\ \A i \in 1..(Len(records) + 1) :
               longer[i] = IF i = Len(records) + 1 THEN rec ELSE records[i]
      BY <2>2, AppendProperties
    <3>2. Len(records) \in Nat /\ DOMAIN records = 1..Len(records)
          /\ DOMAIN longer = 1..(Len(records) + 1)
      BY <2>2, <3>1, LenProperties
    <3> HIDE DEF longer
    <3>3. \A x \in Range(longer) : x \in Range(records) \cup {rec}
      BY <3>1, <3>2 DEF Range
    <3>4. \A x \in Range(records) : x \in Range(longer)
      <4> SUFFICES ASSUME NEW i \in 1..Len(records) PROVE records[i] \in Range(longer)
        BY <3>2 DEF Range
      <4>1. i \in 1..(Len(records) + 1) /\ longer[i] = records[i]
        BY <3>1, <3>2
      <4> QED
        BY <3>2, <4>1 DEF Range
    <3>5. rec \in Range(longer)
      <4>1. longer[Len(records) + 1] = rec /\ Len(records) + 1 \in DOMAIN longer
        BY <3>1, <3>2
      <4> QED
        BY <4>1 DEF Range
    <3> QED
      BY <3>1, <3>3, <3>4, <3>5
  <2>4. Range(records) = Recorded(r.app) /\ rec.id = id
    BY <2>1 DEF Recorded
  <2>5. ok
    <3>1. r.app \in dirs
      BY <1>1, <1>3, <2>1 DEF AppsHaveDirs
    <3> QED
      BY <2>1, <3>1 DEF AR!Update, AR!Persist, AR!DiskFault
  <2> HIDE DEF longer, records, rec, id
  <2>6. \A b \in Apps : Recorded(b)' = IF b = r.app THEN Range(longer) ELSE Recorded(b)
    BY <1>1, <1>3, <2>1, <2>3, RecordsOfUpdate
  <2>7. Listed' \subseteq Listed \cup {id}
    BY <2>3, <2>4, <2>6 DEF Listed
  <2>8. /\ refused \cap Kept = {} /\ NoRecordYet
        /\ refused \subseteq RouteIds
        /\ \A x \in refused \cup Listed \cup Booted : x <= Len(issued)
    BY DEF RefusalsOK
  <2>9. id \notin refused /\ id <= Len(issued)
    <3>1. r \in Pending /\ id \in Range(ids[r])
      BY <1>2, <1>4 DEF Pending, id
    <3> QED
      BY <1>1, <1>2, <2>8, <3>1 DEF NoRecordYet, HandlersOK, OwnIds
  <2>10. NoRecordYet'
    <3> SUFFICES ASSUME NEW q \in Pending', NEW x \in Range(ids[q])
                 PROVE  x \notin refused \cup Listed' \cup Booted
      BY <1>6 DEF NoRecordYet
    <3>1. q \in Asked("register") /\ q \in Requests /\ q # r /\ q \in Pending
      BY <1>7, <2>5 DEF Pending, Asked
    <3>2. x # id
      BY <1>1, <1>2, <1>4, <3>1 DEF HandlersOK, OwnIds, id
    <3> QED
      BY <2>7, <2>8, <3>1, <3>2 DEF NoRecordYet
  <2> QED
    BY <1>6, <2>7, <2>8, <2>9, <2>10 DEF RefusalsOK, Kept
<1> QED
  BY <1>8, <1>9

\* A refused registration takes its route back, and nothing else has its id.
LEMMA RefusalsRollback ==
  ASSUME IInv, RefusalsOK, NEW r \in Requests, Rollback(r) PROVE RefusalsOK'
<1>1. AR!TypeOK /\ TableOK /\ HandlersOK
  BY DEF IInv
<1>2. /\ at[r] = "rollback" /\ r \in Asked("register") /\ r.op = "register"
      /\ at' = [at EXCEPT ![r] = "error"]
      /\ refused' = refused \cup Range(ids[r])
      /\ UNCHANGED <<registryVars, ids, booting>>
  BY <1>1 DEF Rollback, Goto, HandlersOK, StepsOfOperation, StepOf, Asked
<1>3. issued' = issued /\ Live' = Live \ Range(ids[r])
  BY <1>1, RemoveRoutesFacts DEF Rollback
<1>4. disk_ok' = disk_ok /\ Listed' = Listed /\ Booted' = Booted /\ ids' = ids
  BY <1>2 DEF registryVars, Listed, Recorded, Booted
<1>5. Range(ids[r]) \subseteq RouteIds
  BY <1>1, IdTypes
<1>6. refused' \subseteq RouteIds
  BY <1>2, <1>5 DEF RefusalsOK
<1> SUFFICES ASSUME disk_ok PROVE RefusalsOK'
  BY <1>4, <1>6 DEF RefusalsOK
<1>7. /\ refused \cap Kept = {} /\ NoRecordYet
      /\ \A x \in refused \cup Listed \cup Booted : x <= Len(issued)
  BY DEF RefusalsOK
<1>8. r \in Pending /\ \A x \in Range(ids[r]) : x \notin Listed \cup Booted /\ x <= Len(issued)
  BY <1>1, <1>2, <1>7 DEF Pending, NoRecordYet, HandlersOK, OwnIds
<1>9. (refused \cap Kept = {})'
  BY <1>2, <1>3, <1>4, <1>7, <1>8 DEF Kept
<1>10. NoRecordYet'
  <2> SUFFICES ASSUME NEW q \in Pending', NEW x \in Range(ids[q])
               PROVE  x \notin refused' \cup Listed \cup Booted
    BY <1>4 DEF NoRecordYet
  <2>1. q \in Asked("register") /\ q # r /\ q \in Pending
    BY <1>1, <1>2 DEF Pending, Asked, HandlersOK
  <2> QED
    BY <1>1, <1>2, <1>7, <2>1 DEF NoRecordYet, HandlersOK, OwnIds
<1> QED
  BY <1>2, <1>3, <1>4, <1>6, <1>7, <1>8, <1>9, <1>10 DEF RefusalsOK

\* The process ends: what start-up has to register are the records there were.
LEMMA RefusalsRestart ==
  ASSUME IInv, RefusalsOK, Restart PROVE RefusalsOK'
<1>1. AR!TypeOK /\ TableOK /\ HandlersOK /\ AppsHaveDirs
  BY DEF IInv
<1>2. /\ issued' = issued \o StaticIds
      /\ routes' = [i \in 1..Len(Static) |->
                      [id |-> StaticIds[i], method |-> "GET", segments |-> Static[i].path,
                       managed |-> FALSE]]
      /\ at' = [r \in Requests |-> IF at[r] \in Over \cup {"new"} THEN at[r] ELSE "gone"]
      /\ booting' \in Reloads
      /\ apps' = manifests /\ disk_ok' = disk_ok /\ refused' = refused
  BY DEF Restart, AR!Restart
<1> SUFFICES ASSUME disk_ok PROVE RefusalsOK'
  BY <1>2 DEF RefusalsOK
<1>3. apps = manifests /\ apps' = apps
  BY <1>1, <1>2 DEF AppsHaveDirs
<1>4. Listed' = Listed
  BY <1>3 DEF Listed, Recorded
<1>5. Booted' \subseteq Listed
  <2> SUFFICES ASSUME NEW k \in 1..Len(booting') PROVE booting'[k].record.id \in Listed
    BY DEF Booted
  <2>1. booting' \in Seq(Bootings)
    BY <1>1, <1>2, ReloadsFacts
  <2>2. booting'[k] \in Range(booting')
    BY <2>1, LenProperties DEF Range
  <2>3. PICK a \in Apps : /\ manifests[a] # NoApp
                          /\ \E rec \in Range(manifests[a].routes) :
                               booting'[k] = [app |-> a, record |-> rec]
    BY <1>1, <1>2, <2>2, ReloadsFacts
  <2>4. PICK rec \in Range(manifests[a].routes) : booting'[k] = [app |-> a, record |-> rec]
    BY <2>3
  <2>5. rec \in Recorded(a) /\ booting'[k].record = rec
    BY <1>3, <2>3, <2>4 DEF Recorded
  <2> QED
    BY <2>5 DEF Listed
<1>6. Live' = {}
  <2>1. Len(Static) \in Nat
    BY StaticType
  <2>2. Len(routes') = Len(Static) /\ \A i \in 1..Len(Static) : ~routes'[i].managed
    BY <1>2, <2>1
  <2> QED
    BY <2>2 DEF Live
<1>7. Pending' = {}
  BY <1>2 DEF Pending, Asked, Over
<1>8. Len(issued) \in Nat /\ Len(issued') \in Nat /\ Len(issued) <= Len(issued')
  <2>1. /\ Len(issued) \in Nat /\ Len(Static) \in Nat /\ Len(issued) + Len(Static) <= MaxId
    BY <1>1, StaticType, LenProperties DEF TableOK, Restart
  <2>2. StaticIds \in [1..Len(Static) -> RouteIds]
    BY <2>1, AdminAssumption DEF StaticIds, RouteIds
  <2>3. StaticIds \in Seq(RouteIds) /\ Len(StaticIds) = Len(Static)
    BY <2>1, <2>2
  <2>4. Len(issued') = Len(issued) + Len(Static)
    BY <1>1, <1>2, <2>3, ConcatProperties DEF TableOK
  <2> QED
    BY <2>1, <2>4
<1>9. /\ refused \cap Kept = {} /\ refused \subseteq RouteIds /\ Listed \subseteq RouteIds
      /\ \A x \in refused \cup Listed : x <= Len(issued)
  BY <1>1, IdTypes DEF RefusalsOK
<1>10. \A x \in refused \cup Listed : x <= Len(issued')
  BY <1>8, <1>9 DEF RouteIds
<1> QED
  BY <1>2, <1>4, <1>5, <1>6, <1>7, <1>9, <1>10 DEF RefusalsOK, Kept, NoRecordYet

\* Start-up registers no route of a refused registration.
LEMMA RefusalsReload ==
  ASSUME IInv, RefusalsOK, Reload PROVE RefusalsOK'
<1>1. AR!TypeOK /\ TableOK /\ HandlersOK
  BY DEF IInv
<1> DEFINE rec == booting[1].record  id == RT!Fresh
<1>2. booting # <<>> /\ booting' = Tail(booting) /\ UNCHANGED <<registryVars, at, ids>>
  BY DEF Reload
<1>3. /\ disk_ok' = disk_ok /\ Listed' = Listed /\ ids' = ids /\ at' = at
      /\ Pending' = Pending
  BY <1>2 DEF registryVars, Listed, Recorded, Pending
<1>4. Booted' \subseteq Booted /\ rec.id \in Booted /\ rec.path \in Words
  <2>1. /\ Len(booting) \in Nat /\ Len(booting) # 0 /\ Len(Tail(booting)) = Len(booting) - 1
        /\ \A k \in 1..Len(Tail(booting)) : Tail(booting)[k] = booting[k + 1]
    BY <1>1, <1>2, EmptySeq, LenProperties, HeadTailProperties DEF HandlersOK
  <2>2. \A k \in 1..Len(Tail(booting)) : k + 1 \in 1..Len(booting)
    BY <2>1
  <2>3. 1 \in 1..Len(booting) /\ booting[1] \in Bootings
    BY <1>1, <2>1, ElementOfSeq DEF HandlersOK
  <2> QED
    BY <1>2, <2>1, <2>2, <2>3 DEF Booted, Bootings, Records
<1>5. CASE UNCHANGED <<tableVars, owner, refused>>
  <2>1. issued' = issued /\ Live' = Live /\ refused' = refused
    BY <1>5 DEF tableVars, Live
  <2> QED
    BY <1>3, <1>4, <2>1, RefusalsPlain
<1>6. CASE /\ AddRoute(id, booting[1].app, rec.path)
           /\ refused' = refused \cup {id : x \in {rec.id} \cap refused}
  <2>1. /\ Len(issued') = Len(issued) + 1 /\ id = Len(issued) + 1
        /\ id \in RouteIds /\ Live' = Live \cup {id}
    BY <1>1, <1>4, <1>6, AddRouteFacts
  <2> HIDE DEF id
  <2>2. refused' \subseteq RouteIds
    BY <1>6, <2>1 DEF RefusalsOK
  <2> SUFFICES ASSUME disk_ok PROVE RefusalsOK'
    BY <1>3, <2>2 DEF RefusalsOK
  <2>3. /\ refused \cap Kept = {} /\ NoRecordYet
        /\ refused \subseteq RouteIds /\ Booted \subseteq RouteIds /\ Listed \subseteq RouteIds
        /\ \A x \in refused \cup Listed \cup Booted : x <= Len(issued)
    BY <1>1, BootedTypes, IdTypes DEF RefusalsOK
  <2>4. refused' = refused
    BY <1>4, <1>6, <2>3 DEF Kept
  <2>5. Len(issued) \in Nat
    BY <1>1, IdTypes
  <2>6. \A x \in refused \cup Listed \cup Booted : x # id /\ x <= Len(issued')
    BY <2>1, <2>3, <2>5 DEF RouteIds
  <2>7. NoRecordYet'
    BY <1>3, <1>4, <2>3, <2>4 DEF NoRecordYet
  <2>8. (refused \cap Kept = {})'
    BY <1>3, <1>4, <2>1, <2>3, <2>4, <2>6 DEF Kept
  <2> QED
    BY <1>3, <1>4, <2>2, <2>4, <2>6, <2>7, <2>8 DEF RefusalsOK
<1> QED
  BY <1>5, <1>6 DEF Reload

LEMMA RefusalsStep == IInv /\ RefusalsOK /\ [Next]_vars => RefusalsOK'
<1> SUFFICES ASSUME IInv, RefusalsOK, [Next]_vars PROVE RefusalsOK'
  OBVIOUS
<1>1. disk_ok' => disk_ok
  BY DiskStays
<1>2. ASSUME NEW r \in Requests, Handle(r) \/ Leave(r) PROVE RefusalsOK'
  <2>1. CASE Insert(r)
    BY <2>1, RefusalsInsert
  <2>2. CASE Record(r)
    BY <1>1, <2>2, RefusalsRecord
  <2>3. CASE Rollback(r)
    BY <2>3, RefusalsRollback
  <2>4. CASE ~(Insert(r) \/ Record(r) \/ Rollback(r))
    BY <1>1, <1>2, <2>4, RefusalsLooking DEF Handle
  <2> QED
    BY <2>1, <2>2, <2>3, <2>4
<1>3. CASE Restart
  BY <1>3, RefusalsRestart
<1>4. CASE Reload
  BY <1>4, RefusalsReload
<1>5. CASE UNCHANGED vars
  <2>1. UNCHANGED <<refused, apps, disk_ok, routes, issued, at, ids, booting>>
    BY <1>5 DEF vars, registryVars, tableVars
  <2>2. Live' = Live /\ Listed' = Listed /\ Booted' = Booted
    BY <2>1 DEF Live, Listed, Recorded, Booted
  <2> QED
    BY <2>1, <2>2, RefusalsPlain
<1> QED
  BY <1>2, <1>3, <1>4, <1>5 DEF Next

LEMMA RefusalsInvariance == Spec => [](IInv /\ RefusalsOK)
<1>1. Init => IInv /\ RefusalsOK
  BY InitIInv, RefusalsInit
<1>2. IInv /\ RefusalsOK /\ [Next]_vars => (IInv /\ RefusalsOK)'
  BY NextStep, RefusalsStep
<1> QED
  BY <1>1, <1>2, PTL DEF Spec

-----------------------------------------------------------------------------
\* Every variable keeps its type, for any requests, whatever fails and whenever
\* the process ends.
THEOREM TypeCorrect == Spec => []TypeOK
<1>1. IInv /\ RefusalsOK => TypeOK
  <2> SUFFICES ASSUME IInv, RefusalsOK PROVE TypeOK
    OBVIOUS
  <2>1. \A i \in 1..Len(issued) : issued[i] = i
    BY DEF IInv, TableOK, IdsIssued
  <2>2. issued \in Seq(RouteIds)
    BY DEF IInv, TableOK
  <2>3. RT!IsInjective(issued)
    BY <2>1, <2>2, LenProperties DEF RT!IsInjective
  <2>4. RT!TypeOK
    BY <2>2, <2>3 DEF IInv, TableOK, RT!TypeOK, RT!Ids, RouteIds, Unserved
  <2> QED
    BY <2>4 DEF IInv, HandlersOK, TypeOK, Bootings, RefusalsOK
<1> QED
  BY <1>1, RefusalsInvariance, PTL

\* A registration that was answered with an error has lost its own route, whichever
\* step failed and whatever other handlers did in between (routes.rs:112-117), and
\* no restart brings it back, unless the disk failed (registry.rs:345-350).
THEOREM NothingLeftBehind == Spec => []FailedRegistrationGone
<1>1. IInv /\ RefusalsOK => FailedRegistrationGone
  BY DEF IInv, HandlersOK, ErrorsGone, RefusalsOK, Kept, FailedRegistrationGone
<1> QED
  BY <1>1, RefusalsInvariance, PTL

\* The route of an acknowledged registration goes only with a request that named
\* it or that deletes its application and had listed it.
THEOREM StaysUntilTaken == Spec => []RegisteredUntilTaken
<1>1. IInv => RegisteredUntilTaken
  <2> SUFFICES ASSUME IInv, NEW r \in Asked("register"), at[r] = "ok",
                      Range(ids[r]) \cap Live = {}, NEW id \in Range(ids[r])
               PROVE  Taken(id)
    BY DEF RegisteredUntilTaken, Taken, Settled
  <2> QED
    BY DEF IInv, HandlersOK, LiveUntilTaken
<1> QED
  BY <1>1, Invariance, PTL

\* Unless the disk failed, a restart at any moment of any run finds on disk what
\* was in memory (registry.rs:198-366).
THEOREM RestartLosesNothing == Spec => []DiskFollowsMemory
<1>1. IInv => DiskFollowsMemory
  BY DEF IInv, AppsHaveDirs, DiskFollowsMemory, AR!DiskFollowsMemory
<1> QED
  BY <1>1, Invariance, PTL

\* Also with a disk that fails, no manifest is written but the one memory has.
THEOREM SavesAreCurrent == Spec => SavedIsCurrent
<1>1. IInv /\ [Next]_vars => [AR!SaveIsCurrent]_vars
  <2> SUFFICES ASSUME IInv, [Next]_vars PROVE AR!SaveIsCurrent
    OBVIOUS
  <2> QED
    BY StepIsRegistryStep, RegistryKeeps DEF IInv
<1> QED
  BY <1>1, Invariance, PTL DEF Spec, SavedIsCurrent

\* The route of an acknowledged registration is served, after any number of
\* restarts, while nobody asked to undo a part of it and the disk works
\* (README.md:102 of the engine).  The files are source (start-up skips
\* bytecode) and none is uploaded a second time, for a restart may tear it.
THEOREM AcknowledgedIsServed ==
  ASSUME SourceUploadedOnce PROVE Spec => []AcknowledgedServes
<1>1. IInv /\ CalmOK => AcknowledgedServes
  <2> SUFFICES ASSUME CalmOK, Serving, disk_ok, NoneAsked({"delete", "remove", "unregister"}),
                      NEW r \in Asked("register"), at[r] = "ok"
               PROVE  Serves(r.app, r.path)
    BY DEF AcknowledgedServes
  <2>1. NoneAsked({"delete", "remove"}) /\ NoneAsked({"unregister"})
    BY DEF NoneAsked
  <2>2. Correspondence /\ r.app \in Apps
    BY <2>1, AdminAssumption DEF CalmOK, Undisturbed, Asked
  <2>3. PICK rec \in Recorded(r.app) : rec.path = r.path
    BY <2>1, <2>2 DEF Correspondence, RegistersOK, RegisterOK
  <2>4. RecordServed(r.app, rec)
    BY <2>2 DEF Correspondence, RecordsServed, RecordOK
  <2>5. Range(booting) = {}
    BY DEF Serving, Range
  <2>6. \A q \in Asked("unregister") : at[q] # "unrecord"
    BY <2>1 DEF NoneAsked, Asked
  <2> QED
    BY <2>3, <2>4, <2>5, <2>6 DEF RecordServed, ServedBy, Serves
<1> QED
  BY <1>1, CalmInvariance, PTL

\* While no client leaves and the disk works, the live managed routes are the
\* recorded ones whenever no handler is under way, whatever conflicts and
\* whenever the process ends.  Of several applications no route is unregistered:
\* a client may name another application than the route's, whose record then
\* stays (routes.rs:125-165).
THEOREM RecordsAreRoutes ==
  ASSUME SourceUploadedOnce, OneApplication \/ Asked("unregister") = {}
  PROVE  Spec => []RecordsMatchRoutes
<1>1. IInv /\ CalmOK => RecordsMatchRoutes
  <2> SUFFICES ASSUME CalmOK, Quiet, disk_ok, NoneAsked({"delete", "remove"}), NobodyLeft,
                      NEW a \in Apps, NEW w \in Words
               PROVE  Serves(a, w) <=> \E rec \in Recorded(a) : rec.path = w
    BY DEF RecordsMatchRoutes, NobodyLeft
  <2>1. Correspondence
    BY DEF CalmOK, Undisturbed, NoneAsked, Asked
  <2>2. \A q \in Requests : at[q] \notin {"unrecord", "record"}
    BY DEF Quiet, Over
  <2>3. ASSUME Serves(a, w) PROVE \E rec \in Recorded(a) : rec.path = w
    <3>1. PICK i \in 1..Len(routes) : /\ routes[i].managed /\ routes[i].segments = Pattern(w)
                                      /\ owner[routes[i].id] = a
      BY <2>3 DEF Serves
    <3>2. RouteRecorded(i)
      BY <2>1, <3>1 DEF Correspondence, RoutesRecorded
    <3>3. \E rec \in Recorded(a) : routes[i].segments = Pattern(rec.path)
      BY <2>2, <3>1, <3>2 DEF RouteRecorded, Asked
    <3> QED
      BY <3>1, <3>3, PatternsDiffer
  <2>4. ASSUME NEW rec \in Recorded(a), rec.path = w PROVE Serves(a, w)
    <3>1. RecordServed(a, rec)
      BY <2>1 DEF Correspondence, RecordsServed, RecordOK
    <3>2. Range(booting) = {}
      BY DEF Quiet, Serving, Range
    <3> QED
      BY <2>2, <2>4, <3>1, <3>2 DEF RecordServed, ServedBy, Serves, Asked
  <2> QED
    BY <2>3, <2>4
<1> QED
  BY <1>1, CalmInvariance, PTL
=============================================================================
