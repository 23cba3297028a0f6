------------------------------- MODULE Routing --------------------------------
(***************************************************************************)
(* The route table of class Router (lib/router.h, lib/router.cpp): a       *)
(* std::set of routes in the order of operator<, that is by method and     *)
(* then by pattern.  The other two fields of a route take no part in the   *)
(* order, so the set holds at most one route of a method and a pattern.    *)
(*                                                                         *)
(* What a pattern matches is std::regex's business and a constant here.    *)
(***************************************************************************)
EXTENDS Integers, Sequences, SequencesExt

CONSTANTS
  MethodOrder,  \* the methods in the order of std::string_view
  PatternOrder, \* the patterns in that order
  Matches,      \* the URIs that each pattern matches as a whole
  Invalid       \* the patterns that std::regex refuses

Methods  == ToSet(MethodOrder)
Patterns == ToSet(PatternOrder)

ASSUME RoutingAssumption ==
  /\ MethodOrder \in Seq(Methods) /\ PatternOrder \in Seq(Patterns)
  /\ Invalid \subseteq Patterns
  /\ DOMAIN Matches = Patterns

NoAuth == "none"

MethodRank  == [m \in Methods |-> CHOOSE i \in DOMAIN MethodOrder : MethodOrder[i] = m]
PatternRank == [p \in Patterns |-> CHOOSE i \in DOMAIN PatternOrder : PatternOrder[i] = p]

(* Mutant: the method takes no part in the order. *)
LessByPattern(l, r) == PatternRank[l.uri] < PatternRank[r.uri]

(* friend bool operator<(const Route& l, const Route& r) *)
Less(l, r) ==
  \/ MethodRank[l.method] < MethodRank[r.method]
  \/ l.method = r.method /\ PatternRank[l.uri] < PatternRank[r.uri]

SameKey(l, r) == ~Less(l, r) /\ ~Less(r, l)

First(routes) == CHOOSE r \in routes : \A o \in routes : ~Less(o, r)

(* Mutant: the new route takes the place of the old one. *)
AddReplacing(routes, r) == {o \in routes : ~SameKey(o, r)} \cup {r}

(* Mutant: equivalent routes pile up. *)
AddMulti(routes, r) == routes \cup {r}

(* Router::add: an equivalent route stays, and the new one is ignored.     *)
Add(routes, r) == IF \E o \in routes : SameKey(o, r) THEN routes ELSE routes \cup {r}

(* Router::del *)
Del(routes, r) == {o \in routes : ~SameKey(o, r)}

Match(r, req) == req.method = r.method /\ req.uri \in Matches[r.uri]

(* Mutant: the token of any route will do. *)
DeniedUnlessAny(r, req) ==
  r.auth # NoAuth /\ "authorization" \notin DOMAIN req.headers

Denied(r, req) ==
  /\ r.auth # NoAuth
  /\ ~ /\ "authorization" \in DOMAIN req.headers
       /\ req.headers["authorization"] = r.auth

(* Route::handle *)
RouteHandle(r, req) ==
  IF Denied(r, req) THEN [by |-> "Unauthorized"] ELSE [by |-> "func", func |-> r.func]

(* Mutant: the method is looked at after the search. *)
HandleByUri(routes, req) ==
  LET ends == {r \in routes : r.uri \in Invalid \/ req.uri \in Matches[r.uri]}
  IN  IF ends = {} THEN [by |-> "NotFound"]
      ELSE IF First(ends).uri \in Invalid THEN [by |-> "throw"]
      ELSE IF First(ends).method # req.method THEN [by |-> "NotFound"]
      ELSE RouteHandle(First(ends), req)

(***************************************************************************)
(* Router::handle.  find_if visits the routes in order and compiles the    *)
(* pattern of each before it looks at the method, so it ends at the first  *)
(* route that matches or whose pattern is refused, which throws.           *)
(***************************************************************************)
Handle(routes, req) ==
  LET ends == {r \in routes : r.uri \in Invalid \/ Match(r, req)}
  IN  IF ends = {} THEN [by |-> "NotFound"]
      ELSE IF First(ends).uri \in Invalid THEN [by |-> "throw"]
      ELSE RouteHandle(First(ends), req)
================================================================================
