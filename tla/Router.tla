-------------------------------- MODULE Router --------------------------------
(***************************************************************************)
(* Class Router as the program that sets it up sees it: routes are added   *)
(* and deleted, and every request has an answer in between.  The module    *)
(* gives the state, the operations and what is promised of them; module    *)
(* Exchange makes them the first phase of a server's life.                 *)
(***************************************************************************)
EXTENDS Routing

CONSTANTS
  RouteSet,   \* the routes that are added and deleted
  Probes,     \* requests as handle sees them
  MaxCalls    \* bound on the calls of add and del

ASSUME RouterAssumption ==
  /\ \A r \in RouteSet : r.method \in Methods /\ r.uri \in Patterns
  /\ MaxCalls \in Nat

VARIABLES
  routes,
  calls       \* the calls of add and del so far (history)

router == <<routes, calls>>

Router == routes = {} /\ calls = <<>>

add(r) ==
  /\ Len(calls) < MaxCalls
  /\ routes' = Add(routes, r)
  /\ calls' = Append(calls, [op |-> "add", route |-> r])

del(r) ==
  /\ Len(calls) < MaxCalls
  /\ routes' = Del(routes, r)
  /\ calls' = Append(calls, [op |-> "del", route |-> r])

--------------------------------------------------------------------------------
RouterTypeOK ==
  /\ routes \subseteq RouteSet
  /\ \A r, o \in routes : SameKey(r, o) => r = o
  /\ calls \in Seq([op : {"add", "del"}, route : RouteSet])
  /\ Len(calls) <= MaxCalls

(***************************************************************************)
(* Which of the routes with one method and one pattern is in force: the    *)
(* first one added since the last of them was deleted.  A later add of     *)
(* another handler or another token for the same method and pattern does   *)
(* nothing, whatever came in between.                                      *)
(***************************************************************************)
FirstAddedWins ==
  routes =
    {calls[i].route : i \in
       {i \in DOMAIN calls :
          /\ calls[i].op = "add"
          /\ \A j \in i + 1 .. Len(calls) :
                ~(calls[j].op = "del" /\ SameKey(calls[j].route, calls[i].route))
          /\ \A j \in 1 .. i - 1 :
                calls[j].op = "add" /\ SameKey(calls[j].route, calls[i].route) =>
                  \E k \in j + 1 .. i - 1 :
                     calls[k].op = "del" /\ SameKey(calls[k].route, calls[i].route)}}

AllCompile(rs) == \A r \in rs : r.uri \notin Invalid

(***************************************************************************)
(* A route concerns the requests of its method that its pattern matches:   *)
(* adding or deleting it changes the answer to no other request.  (As long *)
(* as every pattern is a regular expression: handle throws for requests of *)
(* any method and URI when it comes to one that is not.)                   *)
(***************************************************************************)
OnlyMatchingAffected ==
  [][routes # routes' /\ AllCompile(routes \cup routes') =>
       \A q \in Probes :
         Handle(routes, q) # Handle(routes', q) =>
           Match(calls'[Len(calls')].route, q)]_router

(***************************************************************************)
(* "handle the request finding the right route" (lib/router.cpp:12): when  *)
(* one route matches a request and the request may use it, the function of *)
(* that route answers.  (As long as every pattern is a regular expression.)*)
(***************************************************************************)
FindsRightRoute ==
  AllCompile(routes) =>
    \A q \in Probes, r \in routes :
      /\ Match(r, q) /\ ~Denied(r, q)
      /\ \A o \in routes \ {r} : ~Match(o, q)
      => Handle(routes, q) = [by |-> "func", func |-> r.func]
================================================================================
