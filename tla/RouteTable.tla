------------------------------ MODULE RouteTable ------------------------------
(***************************************************************************)
(* The engine's route table (fasm-engine/src/router.rs): an ordered list   *)
(* of routes, searched first to last for every request, to which the admin *)
(* API adds and from which it removes while requests are served.  The      *)
(* table sits behind an RwLock, so every operation is one action.          *)
(*                                                                         *)
(* A path is the sequence of its segments; the splitting at '/' is text.   *)
(* A segment of a pattern is a literal or a parameter.  A uuid is its      *)
(* number in the order of issue: uuids are only compared for equality.     *)
(***************************************************************************)
EXTENDS Integers, Sequences, FiniteSets, SequencesExt

CONSTANTS
  Verbs,       \* methods as clients write them, in any case
  Upper,       \* to_uppercase, on Verbs
  Words,       \* segments of request paths
  Names,       \* names of path parameters
  Lengths,     \* how many segments paths and patterns have
  Static,      \* the [[routes]] of the configuration: a sequence of [method, path]
  MaxId        \* bound on uuids

Ids == 1..MaxId

Literal(w) == [kind |-> "literal", text |-> w]
Param(n) == [kind |-> "param", text |-> n]
Segments == {Literal(w) : w \in Words} \cup {Param(n) : n \in Names}

Patterns == UNION {[1..k -> Segments] : k \in Lengths}
Paths == UNION {[1..k -> Words] : k \in Lengths}

ASSUME RouteAssumption ==
  /\ Lengths \subseteq Nat \ {0}
  /\ Upper \in [Verbs -> Verbs]
  /\ \A v \in Verbs : Upper[Upper[v]] = Upper[v]
  /\ Static \in Seq([method : Verbs, path : Patterns])
  /\ MaxId \in Nat /\ MaxId >= Len(Static)

VARIABLES
  routes,    \* RouteTable.routes
  issued,    \* history: the ids in the order in which they were given out
  args       \* the last request served: its route, its path and its path arguments

vars == <<routes, issued, args>>

Routes == [id : Ids, method : Verbs, segments : Patterns, managed : BOOLEAN]
NothingServed == [segments |-> <<>>, path |-> <<>>, fields |-> <<>>]

\* from_configs: every configured route, in order, without a collision check.
Init ==
  /\ issued = [i \in 1..Len(Static) |-> i]
  /\ routes = [i \in 1..Len(Static) |->
                 [id |-> issued[i], method |-> Upper[Static[i].method],
                  segments |-> Static[i].path, managed |-> FALSE]]
  /\ args = NothingServed

-----------------------------------------------------------------------------
\* segments_equal: any two parameters are alike.
SegmentsEqual(a, b) ==
  /\ Len(a) = Len(b)
  /\ \A i \in 1..Len(a) : \/ a[i].kind = "param" /\ b[i].kind = "param"
                          \/ a[i] = b[i]

\* Mutant of Collides: parameters of different names are told apart.
CollidesByName(verb, path) ==
  \E i \in 1..Len(routes) : routes[i].method = Upper[verb] /\ routes[i].segments = path

\* The collision check of add_route_dyn, against static and managed routes.
Collides(verb, path) ==
  \E i \in 1..Len(routes) :
    /\ routes[i].method = Upper[verb]
    /\ SegmentsEqual(routes[i].segments, path)

\* The uuid that Uuid::new_v4 gives next.
Fresh == Len(issued) + 1

\* Mutant of AddRouteDyn: the new route is searched first.
AddRouteInFront(id, verb, path) ==
  /\ ~Collides(verb, path)
  /\ issued' = Append(issued, id)
  /\ routes' = <<[id |-> id, method |-> Upper[verb], segments |-> path, managed |-> TRUE]>>
                 \o routes

\* add_route_dyn of a free pattern: a new id, a managed route at the end of the
\* list.  For an occupied one it returns an error and changes nothing.
AddRouteDyn(id, verb, path) ==
  /\ ~Collides(verb, path)
  /\ issued' = Append(issued, id)
  /\ routes' = Append(routes, [id |-> id, method |-> Upper[verb],
                               segments |-> path, managed |-> TRUE])

\* Mutant of RemoveRoute: Vec::swap_remove, the last route fills the gap.
RemoveRouteSwapping(id) ==
  /\ \E i \in 1..Len(routes) :
       /\ routes[i].id = id /\ routes[i].managed
       /\ routes' = SubSeq([routes EXCEPT ![i] = Last(routes)], 1, Len(routes) - 1)
  /\ UNCHANGED issued

\* remove_route of a managed route; for any other id it returns false.
RemoveRoute(id) ==
  /\ \E i \in 1..Len(routes) :
       /\ routes[i].id = id /\ routes[i].managed
       /\ routes' = RemoveAt(routes, i)
  /\ UNCHANGED issued

Serves(route, verb, path) ==
  /\ route.method = Upper[verb]
  /\ Len(route.segments) = Len(path)
  /\ \A i \in 1..Len(path) :
       route.segments[i].kind = "literal" => route.segments[i].text = path[i]

\* The search of match_route: the position of the first route that serves the
\* request, 0 if there is none.
MatchRoute(verb, path) ==
  LET hits == {i \in 1..Len(routes) : Serves(routes[i], verb, path)}
  IN  IF hits = {} THEN 0 ELSE CHOOSE i \in hits : \A j \in hits : i <= j

\* The HashMap of match_route: a name used twice keeps its last value.
BoundParams(segments, path) ==
  LET at(n) == {i \in 1..Len(path) : segments[i] = Param(n)}
  IN  [n \in {m \in Names : at(m) # {}} |-> path[Max(at(n))]]

\* handle_request: the route's parameters become the first fields of $args, in
\* the order in which the HashMap lists its values.
HandleRequest(verb, path) ==
  LET i == MatchRoute(verb, path)
  IN  /\ i # 0
      /\ LET bound == BoundParams(routes[i].segments, path) IN
         \E names \in SetToSeqs(DOMAIN bound) :
           args' = [segments |-> routes[i].segments, path |-> path,
                    fields |-> [k \in 1..Len(names) |-> bound[names[k]]]]
      /\ UNCHANGED <<routes, issued>>

Next ==
  \/ /\ Fresh \in Ids
     /\ \E verb \in Verbs, path \in Patterns : AddRouteDyn(Fresh, verb, path)
     /\ UNCHANGED args
  \/ /\ \E id \in Ids : RemoveRoute(id)
     /\ UNCHANGED args
  \/ \E verb \in Verbs, path \in Paths : HandleRequest(verb, path)

Spec == Init /\ [][Next]_vars

-----------------------------------------------------------------------------
\* Type invariant of the table (router.rs RouteTable).
TypeOK ==
  /\ routes \in Seq(Routes)
  /\ issued \in Seq(Ids)
  /\ IsInjective(issued)
  /\ args.path \in Paths \cup {<<>>}
  /\ args.fields \in Seq(Words)

\* Two routes never compete for a pattern unless both are static, however
\* routes come and go (README.md:189 of the engine, "A 409 Conflict is returned
\* if either type already occupies a (method, path)").
NoCompetitors ==
  \A i, j \in 1..Len(routes) :
    /\ i # j /\ routes[i].method = routes[j].method
    /\ SegmentsEqual(routes[i].segments, routes[j].segments)
    => ~routes[i].managed /\ ~routes[j].managed

\* A request is served by the route registered first of those that can serve it:
\* hot removals do not reorder the others, and static routes take precedence
\* over managed ones (router.rs:139-146, 149-190).
FirstRegisteredServes ==
  \A verb \in Verbs, path \in Paths :
    LET i == MatchRoute(verb, path) IN
      \A j \in 1..Len(routes) :
        Serves(routes[j], verb, path) =>
          i # 0 /\ routes[i].id <= routes[j].id

Live == {routes[i].id : i \in 1..Len(routes)}

\* The request was served by a route that stays, and is not after the step.
Diverted(verb, path) ==
  LET i == MatchRoute(verb, path)
      j == MatchRoute(verb, path)' IN
    i # 0 /\ routes[i].id \in Live' /\ (j = 0 \/ routes'[j].id # routes[i].id)

\* Adding or removing a route diverts no request from a route that stays: it
\* was served by that one before and is served by it afterwards
\* (router.rs:104-146, 149-190).
MatchesAreStable ==
  [][routes' # routes => \A verb \in Verbs, path \in Paths : ~Diverted(verb, path)]_vars

\* The positions of a pattern's parameters, in order.
ParamPositions(segments) ==
  SelectSeq([i \in 1..Len(segments) |-> i], LAMBDA i : segments[i].kind = "param")

\* http_handler.rs:90, "Path params (ordered by pattern position", and
\* router.rs:5-6, "field 0 = first path param, 1 = second": the first fields of
\* $args are what the parameters matched, in the order of the pattern, at least
\* for patterns that name no parameter twice.
ArgsInPatternOrder ==
  LET at == ParamPositions(args.segments) IN
    (\A i, j \in Range(at) : i # j => args.segments[i] # args.segments[j])
      => args.fields = [k \in 1..Len(at) |-> args.path[at[k]]]
=============================================================================
