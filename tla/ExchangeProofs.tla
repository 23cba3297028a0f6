---------------------------- MODULE ExchangeProofs ----------------------------
(***************************************************************************)
(* Proofs about Exchange, and about the router and the messages that it is *)
(* made of: for any header names, methods and patterns, whatever the       *)
(* patterns match, for any routes, requests and answers, and for whatever  *)
(* programs of other make write.                                           *)
(***************************************************************************)
EXTENDS Exchange, FiniteSetTheorems, SequenceTheorems, WellFoundedInduction, TLAPS

LEMMA LeastLemma ==
  ASSUME NEW T, T \subseteq Nat, T # {}
  PROVE  \E x \in T : \A y \in T : x <= y
<1>1. PICK x \in T : \A y \in T : ~(<<y, x>> \in OpToRel(<, Nat))
  BY NatLessThanWellFounded, WFMin
<1>2. \A y \in T : ~(y < x)
  BY <1>1 DEF OpToRel
<1> QED
  BY <1>2

--------------------------------------------------------------------------------
(* The order of routes.                                                    *)

IsKey(r) == r.method \in Methods /\ r.uri \in Patterns

LEMMA RankLemma ==
  /\ \A m \in Methods : MethodRank[m] \in Nat /\ MethodOrder[MethodRank[m]] = m
  /\ \A p \in Patterns : PatternRank[p] \in Nat /\ PatternOrder[PatternRank[p]] = p
<1>1. /\ DOMAIN MethodOrder \subseteq Nat
      /\ DOMAIN PatternOrder \subseteq Nat
  BY RoutingAssumption
<1>2. /\ \A m \in Methods : \E i \in DOMAIN MethodOrder : MethodOrder[i] = m
      /\ \A p \in Patterns : \E i \in DOMAIN PatternOrder : PatternOrder[i] = p
  BY DEF Methods, Patterns, ToSet
<1>3. \A m \in Methods : MethodRank[m] \in DOMAIN MethodOrder /\ MethodOrder[MethodRank[m]] = m
  BY <1>2 DEF MethodRank
<1>4. \A p \in Patterns : PatternRank[p] \in DOMAIN PatternOrder
                          /\ PatternOrder[PatternRank[p]] = p
  BY <1>2 DEF PatternRank
<1> QED
  BY <1>1, <1>3, <1>4

(* Two routes are equivalent when they have the same method and pattern.   *)
LEMMA KeyLemma ==
  ASSUME NEW l, NEW r, IsKey(l), IsKey(r)
  PROVE  SameKey(l, r) <=> l.method = r.method /\ l.uri = r.uri
<1> DEFINE a == MethodRank[l.method]
           b == MethodRank[r.method]
           c == PatternRank[l.uri]
           d == PatternRank[r.uri]
<1>1. /\ a \in Nat /\ b \in Nat /\ c \in Nat /\ d \in Nat
      /\ MethodOrder[a] = l.method /\ MethodOrder[b] = r.method
      /\ PatternOrder[c] = l.uri /\ PatternOrder[d] = r.uri
  BY RankLemma DEF IsKey
<1>2. SameKey(l, r) <=> /\ ~(a < b) /\ ~(l.method = r.method /\ c < d)
                        /\ ~(b < a) /\ ~(r.method = l.method /\ d < c)
  BY DEF SameKey, Less
<1>3. l.method = r.method => a = b
  OBVIOUS
<1>4. l.uri = r.uri => c = d
  OBVIOUS
<1> HIDE DEF a, b, c, d
<1>5. ~(a < b) /\ ~(b < a) => a = b
  BY <1>1
<1>6. ~(c < d) /\ ~(d < c) => c = d
  BY <1>1
<1> QED
  BY <1>1, <1>2, <1>3, <1>4, <1>5, <1>6

(* find_if ends at a least one of the routes at which it may end.          *)
LEMMA FirstLemma ==
  ASSUME NEW S, S # {}, \A r \in S : IsKey(r)
  PROVE  First(S) \in S /\ \A o \in S : ~Less(o, First(S))
<1> DEFINE Ranks == {MethodRank[r.method] : r \in S}
<1>1. \A r \in S : MethodRank[r.method] \in Nat /\ PatternRank[r.uri] \in Nat
  BY RankLemma DEF IsKey
<1>2. PICK m \in Ranks : \A y \in Ranks : m <= y
  BY <1>1, LeastLemma
<1> DEFINE T == {r \in S : MethodRank[r.method] = m}
           Places == {PatternRank[r.uri] : r \in T}
<1>3. PICK p \in Places : \A y \in Places : p <= y
  <2>1. Places \subseteq Nat /\ Places # {}
    BY <1>1
  <2> QED
    BY <2>1, LeastLemma
<1>4. PICK r \in T : PatternRank[r.uri] = p
  OBVIOUS
<1>5. ASSUME NEW o \in S PROVE ~Less(o, r)
  <2>1. ~(MethodRank[o.method] < MethodRank[r.method])
    BY <1>1, <1>2
  <2>2. o.method = r.method => ~(PatternRank[o.uri] < PatternRank[r.uri])
    <3>1. o.method = r.method => p <= PatternRank[o.uri]
      BY <1>3
    <3>2. PatternRank[o.uri] \in Nat /\ PatternRank[r.uri] \in Nat
      BY <1>1
    <3> QED
      BY <1>4, <3>1, <3>2
  <2> QED
    BY <2>1, <2>2 DEF Less
<1>6. \E x \in S : \A o \in S : ~Less(o, x)
  BY <1>5
<1> QED
  BY <1>6, Zenon DEF First
--------------------------------------------------------------------------------
(* The router: what a step of Exchange may do to it.                       *)

RouterStep == (\E r \in RouteSet : add(r) \/ del(r)) \/ UNCHANGED router

LEMMA RouterStepLemma == [Next]_vars => RouterStep
BY DEF Next, vars, router, RouterStep, SetUp, Start, SendRequest, ForeignClient, Reading,
       RecvPart, RecvOverread, parsereq, ParsereqThrows, ForeignServer, ReadResponse, ReadThrows

LEMMA RouteKeys == \A r \in RouteSet : IsKey(r)
BY RouterAssumption DEF IsKey

LEMMA RouterTypeInit == Init => RouterTypeOK
BY RouterAssumption DEF Init, Router, RouterTypeOK

LEMMA RouterTypeStep == RouterTypeOK /\ RouterStep => RouterTypeOK'
<1> SUFFICES ASSUME RouterTypeOK, RouterStep PROVE RouterTypeOK'
  OBVIOUS
<1> DEFINE Calls == [op : {"add", "del"}, route : RouteSet]
<1>1. ASSUME NEW r \in RouteSet, add(r) PROVE RouterTypeOK'
  <2> DEFINE c == [op |-> "add", route |-> r]
  <2>1. c \in Calls
    OBVIOUS
  <2> HIDE DEF c, Calls
  <2>2. Append(calls, c) \in Seq(Calls) /\ Len(Append(calls, c)) = Len(calls) + 1
    BY <2>1 DEF RouterTypeOK, Calls
  <2>3. calls' = Append(calls, c) /\ Len(calls) < MaxCalls /\ routes' = Add(routes, r)
    BY <1>1 DEF add, c
  <2>4. calls' \in Seq(Calls) /\ Len(calls') <= MaxCalls
    BY <2>2, <2>3, RouterAssumption DEF RouterTypeOK
  <2>5. routes' \subseteq RouteSet /\ \A l, o \in routes' : SameKey(l, o) => l = o
    BY <2>3 DEF Add, RouterTypeOK, SameKey
  <2> QED
    BY <2>4, <2>5 DEF RouterTypeOK, Calls
<1>2. ASSUME NEW r \in RouteSet, del(r) PROVE RouterTypeOK'
  <2> DEFINE c == [op |-> "del", route |-> r]
  <2>1. c \in Calls
    OBVIOUS
  <2> HIDE DEF c, Calls
  <2>2. Append(calls, c) \in Seq(Calls) /\ Len(Append(calls, c)) = Len(calls) + 1
    BY <2>1 DEF RouterTypeOK, Calls
  <2>3. calls' = Append(calls, c) /\ Len(calls) < MaxCalls /\ routes' = Del(routes, r)
    BY <1>2 DEF del, c
  <2>4. calls' \in Seq(Calls) /\ Len(calls') <= MaxCalls
    BY <2>2, <2>3, RouterAssumption DEF RouterTypeOK
  <2>5. routes' \subseteq RouteSet /\ \A l, o \in routes' : SameKey(l, o) => l = o
    BY <2>3 DEF Del, RouterTypeOK
  <2> QED
    BY <2>4, <2>5 DEF RouterTypeOK, Calls
<1>3. CASE UNCHANGED router
  BY <1>3 DEF router, RouterTypeOK
<1> QED
  BY <1>1, <1>2, <1>3 DEF RouterStep

LEMMA RouterTypeCorrect == Spec => []RouterTypeOK
<1>1. RouterTypeOK /\ [Next]_vars => RouterTypeOK'
  BY RouterStepLemma, RouterTypeStep
<1> QED
  BY <1>1, RouterTypeInit, PTL DEF Spec

(***************************************************************************)
(* "handle the request finding the right route" (lib/router.cpp:12): the   *)
(* only route that matches a request answers it, whatever other routes     *)
(* there are and in whatever order they were added.                        *)
(***************************************************************************)
THEOREM RightRouteIsFound == Spec => []FindsRightRoute
<1>1. FindsRightRoute
  <2> SUFFICES ASSUME AllCompile(routes), NEW q \in Probes, NEW r \in routes,
                      Match(r, q), ~Denied(r, q), \A o \in routes \ {r} : ~Match(o, q)
               PROVE  Handle(routes, q) = [by |-> "func", func |-> r.func]
    BY DEF FindsRightRoute
  <2> DEFINE ends == {o \in routes : o.uri \in Invalid \/ Match(o, q)}
  <2>1. ends = {r}
    BY DEF AllCompile
  <2>2. First({r}) = r
    BY DEF First, Less
  <2> QED
    BY <2>1, <2>2 DEF Handle, RouteHandle, AllCompile
<1> QED
  BY <1>1, PTL

(***************************************************************************)
(* Adding or deleting a route changes the answer to no request but those   *)
(* of its method that its pattern matches.                                 *)
(***************************************************************************)
THEOREM OthersAreNotAffected == Spec => OnlyMatchingAffected
<1> DEFINE A == routes # routes' /\ AllCompile(routes \cup routes') =>
                  \A q \in Probes :
                    Handle(routes, q) # Handle(routes', q) =>
                      Match(calls'[Len(calls')].route, q)
<1>1. RouterTypeOK /\ [Next]_vars => [A]_router
  <2> SUFFICES ASSUME RouterTypeOK, [Next]_vars,
                      routes # routes', AllCompile(routes \cup routes'),
                      NEW q \in Probes, Handle(routes, q) # Handle(routes', q)
               PROVE  Match(calls'[Len(calls')].route, q)
    BY DEF router
  <2>1. PICK r \in RouteSet : add(r) \/ del(r)
    BY RouterStepLemma DEF RouterStep, router
  <2>2. calls'[Len(calls')].route = r
    <3>1. PICK c : c.route = r /\ calls' = Append(calls, c)
      BY <2>1 DEF add, del
    <3>2. PICK S : calls \in Seq(S)
      BY DEF RouterTypeOK
    <3>3. calls \in Seq(S \cup {c})
      BY <3>2
    <3> QED
      BY <3>1, <3>3
  <2>3. \A o \in routes : SameKey(o, r) => (Match(o, q) <=> Match(r, q))
    BY RouteKeys, KeyLemma DEF RouterTypeOK, Match
  <2> SUFFICES ASSUME ~Match(r, q) PROVE FALSE
    BY <2>2
  <2>4. {o \in routes : o.uri \in Invalid \/ Match(o, q)}
          = {o \in routes' : o.uri \in Invalid \/ Match(o, q)}
    BY <2>1, <2>3 DEF add, del, Add, Del, AllCompile
  <2> QED
    BY <2>4 DEF Handle
<1> QED
  BY <1>1, RouterTypeCorrect, PTL DEF Spec, OnlyMatchingAffected
--------------------------------------------------------------------------------
(* Which route is in force.  Added(cs, i): call i of cs put its route into *)
(* the table, and it is still there.                                       *)

Survives(cs, i) ==
  \A j \in i + 1 .. Len(cs) : ~(cs[j].op = "del" /\ SameKey(cs[j].route, cs[i].route))

TakesHold(cs, i) ==
  \A j \in 1 .. i - 1 :
    cs[j].op = "add" /\ SameKey(cs[j].route, cs[i].route) =>
      \E k \in j + 1 .. i - 1 : cs[k].op = "del" /\ SameKey(cs[k].route, cs[i].route)

Added(cs, i) == cs[i].op = "add" /\ Survives(cs, i) /\ TakesHold(cs, i)

LEMMA FirstAddedDef ==
  FirstAddedWins <=> routes = {calls[i].route : i \in {i \in DOMAIN calls : Added(calls, i)}}
BY DEF FirstAddedWins, Added, Survives, TakesHold

(* What one more call changes for those before.                            *)
LEMMA EarlierCalls ==
  ASSUME NEW S, NEW cs \in Seq(S), NEW c \in S, NEW i \in 1 .. Len(cs)
  PROVE  LET ds == Append(cs, c)
         IN  Added(ds, i) <=> Added(cs, i) /\ ~(c.op = "del" /\ SameKey(c.route, cs[i].route))
<1> DEFINE n == Len(cs)
           ds == Append(cs, c)
<1>1. n \in Nat /\ i \in 1 .. n /\ Len(ds) = n + 1 /\ ds[n + 1] = c
      /\ \A j \in 1 .. n : ds[j] = cs[j]
  OBVIOUS
<1> HIDE DEF n, ds
<1>2. ds[i] = cs[i]
  BY <1>1
<1>3. Survives(ds, i) <=> Survives(cs, i) /\ ~(c.op = "del" /\ SameKey(c.route, cs[i].route))
  <2>1. \A j : j \in i + 1 .. n + 1 <=> j \in i + 1 .. n \/ j = n + 1
    BY <1>1
  <2>2. \A j \in i + 1 .. n : j \in 1 .. n
    BY <1>1
  <2> QED
    BY <1>1, <1>2, <2>1, <2>2, Zenon DEF Survives, n
<1>4. TakesHold(ds, i) <=> TakesHold(cs, i)
  <2>1. \A j \in 1 .. i - 1 : j \in 1 .. n
    BY <1>1
  <2>2. \A j \in 1 .. i - 1 : \A k \in j + 1 .. i - 1 : k \in 1 .. n
    BY <1>1
  <2>3. \A j \in 1 .. i - 1 : ds[j] = cs[j]
    BY <1>1, <2>1
  <2>4. \A j \in 1 .. i - 1 : \A k \in j + 1 .. i - 1 : ds[k] = cs[k]
    BY <1>1, <2>2
  <2> QED
    BY <1>2, <2>3, <2>4, Zenon DEF TakesHold
<1> QED
  BY <1>2, <1>3, <1>4 DEF Added, ds

(* A call of add puts its route there unless a route of its key is there.  *)
LEMMA LastCall ==
  ASSUME NEW S, NEW cs \in Seq(S), NEW c \in S,
         c.op = "add", IsKey(c.route), \A i \in 1 .. Len(cs) : IsKey(cs[i].route)
  PROVE  Added(Append(cs, c), Len(cs) + 1) <=>
           ~ \E i \in 1 .. Len(cs) : Added(cs, i) /\ SameKey(cs[i].route, c.route)
<1> DEFINE n == Len(cs)
           ds == Append(cs, c)
           Same(i) == SameKey(cs[i].route, c.route)
           Gone(j) == \E k \in j + 1 .. n : cs[k].op = "del" /\ Same(k)
<1>1. n \in Nat /\ Len(ds) = n + 1 /\ ds[n + 1] = c /\ \A j \in 1 .. n : ds[j] = cs[j]
  OBVIOUS
<1>2. \A i, j \in 1 .. n : Same(i) => (SameKey(cs[j].route, cs[i].route) <=> Same(j))
  BY KeyLemma
<1> HIDE DEF n, ds, Same
<1>3. Added(ds, n + 1) <=> \A j \in 1 .. n : cs[j].op = "add" /\ Same(j) => Gone(j)
  <2>1. (n + 1) + 1 .. Len(ds) = {} /\ (n + 1) - 1 = n
    BY <1>1
  <2>2. \A j \in 1 .. n : \A k \in j + 1 .. n : k \in 1 .. n
    BY <1>1
  <2>3. Survives(ds, n + 1)
    BY <2>1 DEF Survives
  <2>4. TakesHold(ds, n + 1) <=>
          \A j \in 1 .. n :
            ds[j].op = "add" /\ SameKey(ds[j].route, c.route) =>
              \E k \in j + 1 .. n : ds[k].op = "del" /\ SameKey(ds[k].route, c.route)
    BY <1>1, <2>1, Zenon DEF TakesHold
  <2>5. TakesHold(ds, n + 1) <=> \A j \in 1 .. n : cs[j].op = "add" /\ Same(j) => Gone(j)
    BY <1>1, <2>2, <2>4, Zenon DEF Same
  <2> QED
    BY <1>1, <2>3, <2>5 DEF Added
<1>4. ASSUME NEW i \in 1 .. n, Added(cs, i), Same(i)
      PROVE  cs[i].op = "add" /\ ~Gone(i)
  <2>1. cs[i].op = "add" /\ Survives(cs, i)
    BY <1>4 DEF Added
  <2>2. \A k \in i + 1 .. n : k \in 1 .. n /\ (Same(k) <=> SameKey(cs[k].route, cs[i].route))
    BY <1>1, <1>2, <1>4
  <2> QED
    BY <2>1, <2>2, Zenon DEF Survives, n
<1>5. ASSUME NEW j \in 1 .. n, cs[j].op = "add", Same(j), ~Gone(j)
      PROVE  \E i \in 1 .. n : Added(cs, i) /\ Same(i)
  <2> DEFINE T == {i \in 1 .. n : cs[i].op = "add" /\ Same(i) /\ ~Gone(i)}
  <2>1. T # {} /\ T \subseteq Nat
    BY <1>1, <1>5
  <2>2. PICK i \in T : \A y \in T : i <= y
    BY <2>1, LeastLemma
  <2>3. i \in 1 .. n /\ cs[i].op = "add" /\ Same(i) /\ ~Gone(i)
    OBVIOUS
  <2>4. Survives(cs, i)
    <3>1. \A k \in i + 1 .. n : k \in 1 .. n /\ (Same(k) <=> SameKey(cs[k].route, cs[i].route))
      BY <1>1, <1>2, <2>3
    <3> QED
      BY <2>3, <3>1, Zenon DEF Survives, n
  <2>5. TakesHold(cs, i)
    <3> SUFFICES ASSUME NEW l \in 1 .. i - 1, cs[l].op = "add",
                        SameKey(cs[l].route, cs[i].route)
                 PROVE  \E k \in l + 1 .. i - 1 :
                          cs[k].op = "del" /\ SameKey(cs[k].route, cs[i].route)
      BY DEF TakesHold
    <3>1. l \in 1 .. n /\ l < i
      BY <1>1, <2>3
    <3>2. Same(l)
      BY <1>2, <2>3, <3>1
    <3>3. l \notin T
      BY <1>1, <2>2, <2>3, <3>1
    <3>4. PICK k \in l + 1 .. n : cs[k].op = "del" /\ Same(k)
      BY <3>1, <3>2, <3>3
    <3>5. k \in 1 .. n /\ ~(k \in i + 1 .. n) /\ k # i
      BY <1>1, <2>3, <3>1, <3>4
    <3>6. k \in l + 1 .. i - 1
      BY <1>1, <2>3, <3>4, <3>5
    <3>7. SameKey(cs[k].route, cs[i].route)
      BY <1>2, <2>3, <3>4, <3>5
    <3> QED
      BY <3>4, <3>6, <3>7
  <2> QED
    BY <2>3, <2>4, <2>5 DEF Added
<1> QED
  BY <1>3, <1>4, <1>5, Zenon DEF n, ds, Same

LEMMA FirstAddedStep ==
  ASSUME RouterTypeOK, FirstAddedWins, RouterStep
  PROVE  FirstAddedWins'
<1> DEFINE Calls == [op : {"add", "del"}, route : RouteSet]
           n == Len(calls)
           On == {i \in 1 .. n : Added(calls, i)}
<1>1. calls \in Seq(Calls) /\ n \in Nat /\ DOMAIN calls = 1 .. n
      /\ \A i \in 1 .. n : calls[i] \in Calls
  <2>1. calls \in Seq(Calls)
    BY DEF RouterTypeOK
  <2> HIDE DEF Calls
  <2> QED
    BY <2>1
<1>2. routes = {calls[i].route : i \in On}
  BY <1>1, FirstAddedDef
<1>3. \A i \in 1 .. n : calls[i].route \in RouteSet /\ IsKey(calls[i].route)
  BY <1>1, RouteKeys
<1>4. ASSUME NEW c \in Calls, calls' = Append(calls, c),
             routes' = {o \in routes : ~(c.op = "del" /\ SameKey(c.route, o))}
                       \cup (IF c.op = "add" /\ ~ \E o \in routes : SameKey(o, c.route)
                             THEN {c.route} ELSE {})
      PROVE  FirstAddedWins'
  <2>1. /\ DOMAIN calls' = 1 .. n + 1 /\ calls'[n + 1] = c
        /\ \A i \in 1 .. n : calls'[i] = calls[i]
    <3> HIDE DEF Calls
    <3> QED
      BY <1>1, <1>4
  <2>2. \A i \in 1 .. n : Added(calls', i) <=>
          Added(calls, i) /\ ~(c.op = "del" /\ SameKey(c.route, calls[i].route))
    <3> HIDE DEF Calls
    <3> QED
      BY <1>1, <1>4, EarlierCalls
  <2>3. Added(calls', n + 1) <=>
          c.op = "add" /\ ~ \E o \in routes : SameKey(o, c.route)
    <3>1. CASE c.op = "add"
      <4>1. IsKey(c.route)
        BY RouteKeys
      <4> HIDE DEF Calls
      <4>2. Added(calls', n + 1) <=>
              ~ \E i \in 1 .. n : Added(calls, i) /\ SameKey(calls[i].route, c.route)
        BY <1>1, <1>3, <1>4, <3>1, <4>1, LastCall
      <4> QED
        BY <1>2, <3>1, <4>2
    <3>2. CASE c.op # "add"
      BY <2>1, <3>2 DEF Added
    <3> QED
      BY <3>1, <3>2
  <2>4. ASSUME NEW o
        PROVE  o \in routes' <=> \E i \in DOMAIN calls' : Added(calls', i) /\ o = calls'[i].route
    <3>1. \A i : i \in 1 .. n + 1 <=> i \in 1 .. n \/ i = n + 1
      BY <1>1
    <3>2. (\E i \in DOMAIN calls' : Added(calls', i) /\ o = calls'[i].route) <=>
            \/ \E i \in 1 .. n : Added(calls', i) /\ o = calls[i].route
            \/ Added(calls', n + 1) /\ o = c.route
      BY <2>1, <3>1, Zenon
    <3>3. (\E i \in 1 .. n : Added(calls', i) /\ o = calls[i].route) <=>
            o \in routes /\ ~(c.op = "del" /\ SameKey(c.route, o))
      BY <1>2, <2>2
    <3> QED
      BY <1>4, <2>3, <3>2, <3>3
  <2>5. routes' = {calls'[i].route : i \in {i \in DOMAIN calls' : Added(calls', i)}}
    BY <2>4, Zenon
  <2> QED
    BY <2>5 DEF FirstAddedWins, Added, Survives, TakesHold
<1>5. ASSUME NEW r \in RouteSet, add(r) PROVE FirstAddedWins'
  <2> DEFINE c == [op |-> "add", route |-> r]
  <2>1. c \in Calls /\ c.op = "add" /\ c.route = r
    OBVIOUS
  <2>2. calls' = Append(calls, c) /\ routes' = Add(routes, r)
    BY <1>5 DEF add
  <2> HIDE DEF c, Calls
  <2>3. routes' = {o \in routes : ~(c.op = "del" /\ SameKey(c.route, o))}
                  \cup (IF c.op = "add" /\ ~ \E o \in routes : SameKey(o, c.route)
                        THEN {c.route} ELSE {})
    BY <2>1, <2>2 DEF Add
  <2> QED
    BY <1>4, <2>1, <2>2, <2>3
<1>6. ASSUME NEW r \in RouteSet, del(r) PROVE FirstAddedWins'
  <2> DEFINE c == [op |-> "del", route |-> r]
  <2>1. c \in Calls /\ c.op = "del" /\ c.route = r
    OBVIOUS
  <2>2. calls' = Append(calls, c) /\ routes' = Del(routes, r)
    BY <1>6 DEF del
  <2> HIDE DEF c, Calls
  <2>3. routes' = {o \in routes : ~(c.op = "del" /\ SameKey(c.route, o))}
                  \cup (IF c.op = "add" /\ ~ \E o \in routes : SameKey(o, c.route)
                        THEN {c.route} ELSE {})
    BY <2>1, <2>2 DEF Del, SameKey
  <2> QED
    BY <1>4, <2>1, <2>2, <2>3
<1>7. CASE UNCHANGED router
  BY <1>7 DEF router, FirstAddedWins
<1> QED
  BY <1>5, <1>6, <1>7 DEF RouterStep

(***************************************************************************)
(* Of the routes with one method and one pattern the one in force is the   *)
(* first one added since the last of them was deleted, after any number of *)
(* calls of add and del.                                                   *)
(***************************************************************************)
THEOREM FirstAddedStaysInForce == Spec => []FirstAddedWins
<1>1. Init => FirstAddedWins
  BY DEF Init, Router, FirstAddedWins
<1>2. RouterTypeOK /\ FirstAddedWins /\ [Next]_vars => FirstAddedWins'
  BY RouterStepLemma, FirstAddedStep
<1> QED
  BY <1>1, <1>2, RouterTypeCorrect, PTL DEF Spec
--------------------------------------------------------------------------------
(* Messages on the wire.                                                   *)

LEMMA SeqLemma ==
  ASSUME NEW s, IsSeq(s)
  PROVE  /\ Len(s) \in Nat /\ DOMAIN s = 1 .. Len(s)
         /\ \E S : s \in Seq(S)
<1> DEFINE n == Len(s)
           S == {s[i] : i \in 1 .. n}
<1>1. n \in Nat /\ s = [i \in 1 .. n |-> s[i]]
  BY DEF IsSeq
<1> HIDE DEF n
<1>2. s \in [1 .. n -> S]
  BY <1>1, Zenon
<1>3. s \in Seq(S)
  BY <1>1, <1>2, SeqDef
<1>4. DOMAIN s = 1 .. n
  BY <1>2
<1> QED
  BY <1>1, <1>3, <1>4 DEF n

LEMMA IsSeqLemma ==
  ASSUME NEW S, NEW s \in Seq(S)
  PROVE  IsSeq(s)
BY DEF IsSeq

LEMMA NameRankLemma ==
  /\ IsFiniteSet(DOMAIN Lower)
  /\ \A n \in DOMAIN Lower : NameRank[n] \in Nat
  /\ \A m, n \in DOMAIN Lower : NameRank[m] = NameRank[n] => m = n
<1>1. Len(NameOrder) \in Nat /\ DOMAIN NameOrder = 1 .. Len(NameOrder)
  BY HttpAssumption, SeqLemma
<1>2. \A n \in DOMAIN Lower : \E i \in DOMAIN NameOrder : NameOrder[i] = n
  BY HttpAssumption DEF ToSet
<1>3. \A n \in DOMAIN Lower : NameRank[n] \in DOMAIN NameOrder /\ NameOrder[NameRank[n]] = n
  BY <1>2 DEF NameRank
<1>4. IsFiniteSet(DOMAIN Lower)
  <2> DEFINE T == DOMAIN NameOrder
             f == [i \in T |-> NameOrder[i]]
  <2>1. IsFiniteSet(T)
    BY <1>1, FS_Interval
  <2>2. f \in Surjection(T, DOMAIN Lower)
    BY <1>2, HttpAssumption DEF Surjection, ToSet
  <2> QED
    BY <2>1, <2>2, FS_Surjection
<1> QED
  BY <1>1, <1>3, <1>4

(* The places of some names are the numbers from 1 up.                     *)
LEMMA PlaceLemma ==
  ASSUME NEW names, names \subseteq DOMAIN Lower
  PROVE  /\ Cardinality(names) \in Nat
         /\ \A n \in names : Place(names, n) \in 1 .. Cardinality(names)
         /\ \A i \in 1 .. Cardinality(names) : NameAt(names, i) \in names
         /\ \A n \in names : NameAt(names, Place(names, n)) = n
<1> DEFINE upTo(n) == {m \in names : NameRank[m] <= NameRank[n]}
           c == Cardinality(names)
           f == [n \in names |-> Place(names, n)]
<1>1. /\ \A n \in names : NameRank[n] \in Nat
      /\ \A m, n \in names : NameRank[m] = NameRank[n] => m = n
  BY NameRankLemma
<1>2. IsFiniteSet(names) /\ c \in Nat
  BY NameRankLemma, FS_Subset, FS_CardinalityType
<1>3. \A n \in names : IsFiniteSet(upTo(n)) /\ Place(names, n) \in Nat /\ Place(names, n) <= c
  BY <1>2, FS_Subset, FS_CardinalityType DEF Place
<1>4. ASSUME NEW n \in names PROVE Place(names, n) # 0
  <2>1. n \in upTo(n) /\ IsFiniteSet(upTo(n))
    BY <1>1, <1>3
  <2> HIDE DEF upTo
  <2>2. Cardinality(upTo(n)) # 0
    BY <2>1, FS_EmptySet
  <2> QED
    BY <2>2 DEF Place, upTo
<1>5. ASSUME NEW m \in names, NEW n \in names, NameRank[m] < NameRank[n]
      PROVE  Place(names, m) # Place(names, n)
  <2>1. upTo(m) \subseteq upTo(n) /\ n \in upTo(n) /\ n \notin upTo(m)
    BY <1>1, <1>5
  <2>2. IsFiniteSet(upTo(m)) /\ IsFiniteSet(upTo(n))
    BY <1>3
  <2> HIDE DEF upTo
  <2>3. Cardinality(upTo(m)) = Cardinality(upTo(n)) => upTo(m) = upTo(n)
    BY <2>1, <2>2, FS_Subset
  <2> QED
    BY <2>1, <2>3 DEF Place, upTo
<1>6. \A m, n \in names : Place(names, m) = Place(names, n) => m = n
  BY <1>1, <1>5
<1>7. ASSUME NEW n \in names PROVE Place(names, n) \in 1 .. c
  <2> DEFINE p == Place(names, n)
  <2>1. p \in Nat /\ p <= c /\ p # 0 /\ c \in Nat
    BY <1>2, <1>3, <1>4
  <2> HIDE DEF c, p
  <2>2. p \in 1 .. c
    BY <2>1
  <2> QED
    BY <2>2 DEF p
<1>8. f \in Injection(names, 1 .. c)
  <2>1. f \in [names -> 1 .. c]
    BY <1>7
  <2>2. \A m, n \in names : f[m] = f[n] => m = n
    BY <1>6
  <2> HIDE DEF f
  <2> QED
    BY <2>1, <2>2 DEF Injection, IsInjective
<1>9. f \in Surjection(names, 1 .. c)
  <2>1. IsFiniteSet(1 .. c) /\ Cardinality(1 .. c) = c
    BY <1>2, FS_Interval
  <2> QED
    BY <1>8, <2>1, FS_Injection
<1>10. \A i \in 1 .. c : \E n \in names : Place(names, n) = i
  BY <1>9 DEF Surjection
<1>11. \A i \in 1 .. c : NameAt(names, i) \in names
  BY <1>10 DEF NameAt
<1>12. ASSUME NEW n \in names PROVE NameAt(names, Place(names, n)) = n
  <2>1. \E m \in names : Place(names, m) = Place(names, n)
    OBVIOUS
  <2>2. /\ NameAt(names, Place(names, n)) \in names
        /\ Place(names, NameAt(names, Place(names, n))) = Place(names, n)
    BY <2>1, Zenon DEF NameAt
  <2> QED
    BY <1>6, <2>2
<1> QED
  BY <1>2, <1>7, <1>11, <1>12

(* A loop over a header map visits every header, and nothing else.         *)
LEMMA FieldsLemma ==
  ASSUME NEW h, DOMAIN h \subseteq DOMAIN Lower
  PROVE  LET fs == Fields(h)
         IN  /\ \E S : fs \in Seq(S)
             /\ \A i \in 1 .. Len(fs) : \E n \in DOMAIN h : fs[i] = Field(n, h[n])
             /\ \A n \in DOMAIN h : \E i \in 1 .. Len(fs) : fs[i] = Field(n, h[n])
<1> DEFINE names == DOMAIN h
           c == Cardinality(names)
           fs == Fields(h)
           S == {Field(n, h[n]) : n \in names}
<1>1. /\ c \in Nat
      /\ \A n \in names : Place(names, n) \in 1 .. c
      /\ \A i \in 1 .. c : NameAt(names, i) \in names
      /\ \A n \in names : NameAt(names, Place(names, n)) = n
  BY PlaceLemma
<1>2. fs = [i \in 1 .. c |-> Field(NameAt(names, i), h[NameAt(names, i)])]
  BY DEF Fields
<1> HIDE DEF c, fs
<1>3. fs \in [1 .. c -> S]
  BY <1>1, <1>2
<1>4. fs \in Seq(S) /\ Len(fs) = c
  BY <1>1, <1>3, SeqDef
<1>5. \A n \in names : fs[Place(names, n)] = Field(n, h[n])
  BY <1>1, <1>2
<1> QED
  BY <1>1, <1>2, <1>4, <1>5 DEF fs

(***************************************************************************)
(* What toString writes: a text with this first line, all the headers of   *)
(* the message, its length and type when it has them, and nothing else.    *)
(***************************************************************************)
Typed(m) == m.content_length # 0 /\ m.is_json

IsWritten(w, line, m) ==
  /\ w.ended /\ w.line = line
  /\ \A i \in 1 .. Len(w.fields) :
        \/ \E n \in DOMAIN m.headers : w.fields[i] = Field(n, m.headers[n])
        \/ w.fields[i] = LengthField(m.content_length) /\ m.content_length # 0
        \/ w.fields[i] = TypeField /\ Typed(m)
  /\ \A n \in DOMAIN m.headers :
        \E i \in 1 .. Len(w.fields) : w.fields[i] = Field(n, m.headers[n])
  /\ m.content_length # 0 =>
        \E i \in 1 .. Len(w.fields) : w.fields[i] = LengthField(m.content_length)
  /\ Typed(m) => \E i \in 1 .. Len(w.fields) : w.fields[i] = TypeField
  /\ w.body = IF m.content_length # 0 THEN m.body ELSE <<>>

LEMMA ContentFieldsLemma ==
  ASSUME NEW m
  PROVE  LET l == LengthField(m.content_length)
             ts == ContentFields(m)
         IN  /\ ts \in Seq({l, TypeField})
             /\ \A i \in 1 .. Len(ts) : (ts[i] = l /\ m.content_length # 0)
                                        \/ (ts[i] = TypeField /\ Typed(m))
             /\ m.content_length # 0 => \E i \in 1 .. Len(ts) : ts[i] = l
             /\ Typed(m) => \E i \in 1 .. Len(ts) : ts[i] = TypeField
<1> DEFINE l == LengthField(m.content_length)
           t == TypeField
           ts == ContentFields(m)
<1>1. ts = IF m.content_length = 0 THEN <<>> ELSE IF m.is_json THEN <<l, t>> ELSE <<l>>
  BY DEF ContentFields
<1> HIDE DEF l, t, ts
<1>2. CASE m.content_length = 0
  BY <1>1, <1>2 DEF Typed, l, ts
<1>3. CASE m.content_length # 0 /\ m.is_json
  <2>1. ts = <<l, t>>
    BY <1>1, <1>3
  <2>2. ts \in Seq({l, t}) /\ Len(ts) = 2 /\ ts[1] = l /\ ts[2] = t
    BY <2>1
  <2>3. 1 .. 2 = {1, 2}
    OBVIOUS
  <2> QED
    BY <1>3, <2>2, <2>3 DEF Typed, l, t, ts
<1>4. CASE m.content_length # 0 /\ ~m.is_json
  <2>1. ts = <<l>>
    BY <1>1, <1>4
  <2>2. ts \in Seq({l, t}) /\ Len(ts) = 1 /\ ts[1] = l
    BY <2>1
  <2>3. 1 .. 1 = {1}
    OBVIOUS
  <2> QED
    BY <1>4, <2>2, <2>3 DEF Typed, l, t, ts
<1> QED
  BY <1>2, <1>3, <1>4

(* Whatever stands in either of two sequences stands in the whole, and     *)
(* nothing else does.                                                      *)
Joins(c, a, b) ==
  /\ IsSeq(c)
  /\ \A i \in 1 .. Len(c) : \/ i \in 1 .. Len(a) /\ c[i] = a[i]
                            \/ \E j \in 1 .. Len(b) : c[i] = b[j]
  /\ \A i \in 1 .. Len(a) : i \in 1 .. Len(c) /\ c[i] = a[i]
  /\ \A j \in 1 .. Len(b) : \E i \in 1 .. Len(c) : c[i] = b[j]

LEMMA JoinLemma ==
  ASSUME NEW a, IsSeq(a), NEW b, IsSeq(b)
  PROVE  Joins(a \o b, a, b)
<1>1. PICK S : a \in Seq(S)
  BY SeqLemma
<1>2. PICK T : b \in Seq(T)
  BY SeqLemma
<1> DEFINE U == S \cup T
           c == a \o b
<1>3. a \in Seq(U) /\ b \in Seq(U)
  BY <1>1, <1>2
<1> HIDE DEF U
<1>4. /\ c \in Seq(U) /\ Len(c) = Len(a) + Len(b) /\ Len(a) \in Nat /\ Len(b) \in Nat
      /\ \A i \in 1 .. Len(a) + Len(b) : c[i] = IF i <= Len(a) THEN a[i] ELSE b[i - Len(a)]
  BY <1>3, ConcatProperties, LenProperties
<1> HIDE DEF c
<1>5. IsSeq(c)
  BY <1>4, IsSeqLemma
<1>6. ASSUME NEW i \in 1 .. Len(c)
      PROVE  \/ i \in 1 .. Len(a) /\ c[i] = a[i]
             \/ \E j \in 1 .. Len(b) : c[i] = b[j]
  <2>1. CASE i <= Len(a)
    BY <1>4, <2>1
  <2>2. CASE ~(i <= Len(a))
    <3>1. i - Len(a) \in 1 .. Len(b) /\ c[i] = b[i - Len(a)]
      BY <1>4, <2>2
    <3> QED
      BY <3>1
  <2> QED
    BY <2>1, <2>2
<1>7. \A i \in 1 .. Len(a) : i \in 1 .. Len(c) /\ c[i] = a[i]
  BY <1>4
<1>8. ASSUME NEW j \in 1 .. Len(b)
      PROVE  \E i \in 1 .. Len(c) : c[i] = b[j]
  <2> DEFINE i == Len(a) + j
  <2>1. i \in 1 .. Len(c) /\ ~(i <= Len(a)) /\ i - Len(a) = j
    BY <1>4
  <2> HIDE DEF i
  <2>2. c[i] = b[j]
    BY <1>4, <2>1
  <2> QED
    BY <2>1, <2>2
<1> QED
  BY <1>5, <1>6, <1>7, <1>8 DEF Joins, c

LEMMA WireLemma ==
  ASSUME NEW line, IsSeq(line), NEW m, IsMessage(m)
  PROVE  IsText(Wire(line, m)) /\ IsWritten(Wire(line, m), line, m)
<1> DEFINE h == m.headers
           fs == Fields(h)
           ts == ContentFields(m)
           l == LengthField(m.content_length)
           all == fs \o ts
           w == Wire(line, m)
<1>1. w = [ended |-> TRUE, line |-> line, fields |-> all,
           body |-> IF m.content_length # 0 THEN m.body ELSE <<>>]
  BY DEF Wire
<1>2. /\ IsSeq(fs)
      /\ \A i \in 1 .. Len(fs) : \E n \in DOMAIN h : fs[i] = Field(n, h[n])
      /\ \A n \in DOMAIN h : \E i \in 1 .. Len(fs) : fs[i] = Field(n, h[n])
  BY FieldsLemma, IsSeqLemma DEF IsMessage
<1>3. /\ IsSeq(ts)
      /\ \A i \in 1 .. Len(ts) : (ts[i] = l /\ m.content_length # 0)
                                 \/ (ts[i] = TypeField /\ Typed(m))
      /\ m.content_length # 0 => \E i \in 1 .. Len(ts) : ts[i] = l
      /\ Typed(m) => \E i \in 1 .. Len(ts) : ts[i] = TypeField
  BY ContentFieldsLemma, IsSeqLemma
<1> HIDE DEF fs, ts, h, l
<1>4. Joins(all, fs, ts)
  BY <1>2, <1>3, JoinLemma
<1> HIDE DEF all
<1>5. \A i \in 1 .. Len(all) : \/ \E n \in DOMAIN h : all[i] = Field(n, h[n])
                               \/ all[i] = l /\ m.content_length # 0
                               \/ all[i] = TypeField /\ Typed(m)
  BY <1>2, <1>3, <1>4 DEF Joins
<1>6. \A n \in DOMAIN h : \E i \in 1 .. Len(all) : all[i] = Field(n, h[n])
  BY <1>2, <1>4 DEF Joins
<1>7. /\ m.content_length # 0 => \E i \in 1 .. Len(all) : all[i] = l
      /\ Typed(m) => \E i \in 1 .. Len(all) : all[i] = TypeField
  BY <1>3, <1>4 DEF Joins
<1>8. IsWritten(w, line, m)
  <2>1. /\ w.ended /\ w.line = line /\ w.fields = all
        /\ w.body = IF m.content_length # 0 THEN m.body ELSE <<>>
    BY <1>1
  <2> HIDE DEF w
  <2> QED
    BY <1>5, <1>6, <1>7, <2>1 DEF IsWritten, h, l
<1>9. IsText(w)
  <2>1. \A f \in ToSet(all) : IsField(f)
    <3>1. ASSUME NEW n \in DOMAIN Lower, NEW v PROVE IsField(Field(n, v))
      BY DEF IsField, Field
    <3>2. \A f \in ToSet(all) : \E i \in 1 .. Len(all) : f = all[i]
      BY <1>4, SeqLemma DEF Joins, ToSet
    <3>3. /\ DOMAIN h \subseteq DOMAIN Lower
          /\ "Content-Type" \in DOMAIN Lower /\ "Content-Length" \in DOMAIN Lower
      BY HttpAssumption DEF IsMessage, h
    <3> QED
      BY <1>5, <3>1, <3>2, <3>3 DEF TypeField, LengthField, l
  <2>2. IsSeq(<<>>) /\ IsSeq(m.body)
    BY DEF IsSeq, IsMessage
  <2> QED
    BY <1>1, <1>4, <2>1, <2>2 DEF Joins, IsText
<1> QED
  BY <1>8, <1>9

(***************************************************************************)
(* What recv_http returns of a text is nothing or has its first line, and  *)
(* either the first of its fields, the last of them perhaps with a value   *)
(* that is cut, and no body; or all its fields and some from its body, and *)
(* what is received of the body after them.                                *)
(***************************************************************************)
IsCut(g, f) == \E v \in Cuts[f.value] : g = CutField(f, v)

LeftOf(g, fs) ==
  /\ IsSeq(g) /\ Len(g) <= Len(fs)
  /\ \A i \in 1 .. Len(g) : g[i] = fs[i] \/ IsCut(g[i], fs[i])

PartOf(v, w) ==
  /\ v.ended = w.ended /\ v.line = w.line
  /\ \/ LeftOf(v.fields, w.fields) /\ v.body = <<>>
     \/ \E k, n \in 0 .. Len(w.body) :
           /\ k <= n
           /\ v.fields = w.fields \o FieldsIn(SubSeq(w.body, 1, k))
           /\ v.body = SubSeq(w.body, k + 1, n)

LEMMA SubSeqLemma ==
  ASSUME NEW s, IsSeq(s), NEW k \in 0 .. Len(s), NEW n \in 0 .. Len(s), k <= n
  PROVE  LET g == SubSeq(s, k + 1, n)
         IN  IsSeq(g) /\ Len(g) = n - k /\ \A i \in 1 .. n - k : g[i] = s[k + i]
<1>1. PICK S : s \in Seq(S)
  BY SeqLemma
<1>2. Len(s) \in Nat /\ k + 1 \in Int /\ n \in Int /\ \A i \in k + 1 .. n : s[i] \in S
  BY <1>1
<1> DEFINE g == SubSeq(s, k + 1, n)
<1>3. /\ g \in Seq(S)
      /\ Len(g) = IF k + 1 <= n THEN n - (k + 1) + 1 ELSE 0
      /\ \A i \in 1 .. n - (k + 1) + 1 : g[i] = s[k + 1 + i - 1]
  BY <1>2, SubSeqProperties
<1> HIDE DEF g
<1>4. IsSeq(g)
  BY <1>3, IsSeqLemma
<1>5. Len(g) = n - k
  BY <1>2, <1>3
<1>6. ASSUME NEW i \in 1 .. n - k PROVE g[i] = s[k + i]
  <2>1. i \in 1 .. n - (k + 1) + 1 /\ k + 1 + i - 1 = k + i
    BY <1>2
  <2> QED
    BY <1>3, <2>1
<1> QED
  BY <1>4, <1>5, <1>6 DEF g

(* The beginning of a sequence, and the whole of it.                       *)
LEMMA BeginsLemma ==
  ASSUME NEW s, IsSeq(s), NEW k \in 0 .. Len(s)
  PROVE  LET g == SubSeq(s, 1, k)
         IN  /\ IsSeq(g) /\ Len(g) = k /\ \A i \in 1 .. k : g[i] = s[i]
             /\ k = Len(s) => g = s
             /\ k = 0 => g = <<>>
<1> DEFINE g == SubSeq(s, 1, k)
<1>1. Len(s) \in Nat /\ s = [i \in 1 .. Len(s) |-> s[i]] /\ 0 \in 0 .. Len(s) /\ 0 <= k
  BY SeqLemma DEF IsSeq
<1>2. 0 + 1 = 1 /\ k - 0 = k /\ \A i \in 1 .. k : 0 + i = i
  BY <1>1
<1>3. IsSeq(g) /\ Len(g) = k /\ \A i \in 1 .. k : g[i] = s[i]
  <2>1. LET o == SubSeq(s, 0 + 1, k)
        IN  IsSeq(o) /\ Len(o) = k - 0 /\ \A i \in 1 .. k - 0 : o[i] = s[0 + i]
    BY <1>1, SubSeqLemma
  <2> QED
    BY <1>2, <2>1
<1> HIDE DEF g
<1>4. g = [i \in 1 .. k |-> g[i]]
  BY <1>3 DEF IsSeq
<1>5. k = Len(s) => g = s
  BY <1>1, <1>3, <1>4, Zenon
<1>6. k = 0 => g = <<>>
  BY <1>3, <1>4
<1> QED
  BY <1>3, <1>5, <1>6 DEF g

LEMMA FieldsInLemma ==
  ASSUME NEW b
  PROVE  IsSeq(FieldsIn(b)) /\ \A i \in 1 .. Len(FieldsIn(b)) : IsField(FieldsIn(b)[i])
<1> DEFINE fs == FieldsIn(b)
<1>1. IsSeq(<<>>) /\ ToSet(<<>>) = {}
  BY DEF IsSeq, ToSet
<1>2. IsSeq(fs) /\ \A f \in ToSet(fs) : IsField(f)
  BY <1>1, HttpAssumption DEF FieldsIn, IsField
<1> HIDE DEF fs
<1>3. \A i \in 1 .. Len(fs) : IsField(fs[i])
  BY <1>2, SeqLemma DEF ToSet
<1> QED
  BY <1>2, <1>3 DEF fs

(* The fields of a text that ends in the k-th value.                       *)
LEMMA CutLemma ==
  ASSUME NEW fs, IsSeq(fs), NEW k \in 1 .. Len(fs), NEW v \in Cuts[fs[k].value]
  PROVE  LeftOf([SubSeq(fs, 1, k) EXCEPT ![k] = CutField(@, v)], fs)
<1> DEFINE g == SubSeq(fs, 1, k)
           t == [g EXCEPT ![k] = CutField(g[k], v)]
<1>1. Len(fs) \in Nat /\ k \in 0 .. Len(fs) /\ k <= Len(fs) /\ k \in 1 .. k
  BY SeqLemma
<1>2. IsSeq(g) /\ Len(g) = k /\ \A i \in 1 .. k : g[i] = fs[i]
  BY <1>1, BeginsLemma
<1> HIDE DEF g
<1>3. g = [i \in 1 .. k |-> g[i]]
  BY <1>2 DEF IsSeq
<1>4. t = [i \in 1 .. k |-> IF i = k THEN CutField(g[k], v) ELSE g[i]]
  BY <1>3, Zenon
<1> HIDE DEF t
<1> DEFINE S == {t[i] : i \in 1 .. k}
<1>5. t \in [1 .. k -> S]
  BY <1>4, Zenon
<1>6. t \in Seq(S) /\ Len(t) = k
  <2> HIDE DEF S
  <2> QED
    BY <1>1, <1>5, SeqDef
<1>7. IsSeq(t)
  BY <1>6, IsSeqLemma
<1>8. \A i \in 1 .. k : t[i] = fs[i] \/ IsCut(t[i], fs[i])
  <2>1. g[k] = fs[k]
    BY <1>1, <1>2
  <2>2. t[k] = CutField(fs[k], v)
    BY <1>1, <1>4, <2>1, Zenon
  <2>3. IsCut(t[k], fs[k])
    BY <2>2 DEF IsCut
  <2>4. \A i \in 1 .. k : i # k => t[i] = g[i]
    BY <1>4, Zenon
  <2> QED
    BY <1>2, <2>3, <2>4
<1> QED
  BY <1>1, <1>6, <1>7, <1>8 DEF LeftOf, t, g

LEMMA ReceivedParts ==
  ASSUME NEW w, IsText(w), NEW v \in Received(w), v # Nothing
  PROVE  /\ PartOf(v, w)
         /\ v = [ended |-> v.ended, line |-> v.line, fields |-> v.fields, body |-> v.body]
<1> DEFINE fs == w.fields
           b == w.body
<1>1. /\ IsSeq(fs) /\ IsSeq(b) /\ Len(b) \in Nat
      /\ w = [ended |-> w.ended, line |-> w.line, fields |-> fs, body |-> b]
  BY SeqLemma DEF IsText
<1>2. \/ \E f \in Begun(fs) : v = [w EXCEPT !.fields = f, !.body = <<>>]
      \/ \E k, n \in 0 .. Len(b) : k <= n /\ v = SplitAt(w, k, n)
  BY DEF Received
<1> HIDE DEF fs, b
<1>3. ASSUME NEW f \in Begun(fs), v = [w EXCEPT !.fields = f, !.body = <<>>]
      PROVE  PartOf(v, w)
             /\ v = [ended |-> v.ended, line |-> v.line, fields |-> v.fields, body |-> v.body]
  <2>1. LeftOf(f, fs)
    <3>1. CASE \E k \in 0 .. Len(fs) : f = SubSeq(fs, 1, k)
      BY <1>1, <3>1, BeginsLemma, SeqLemma DEF LeftOf
    <3>2. CASE \E k \in 1 .. Len(fs) : \E x \in Cuts[fs[k].value] :
                 f = [SubSeq(fs, 1, k) EXCEPT ![k] = CutField(@, x)]
      BY <1>1, <3>2, CutLemma
    <3> QED
      BY <3>1, <3>2 DEF Begun
  <2>2. v = [ended |-> w.ended, line |-> w.line, fields |-> f, body |-> <<>>]
    BY <1>1, <1>3
  <2> QED
    BY <2>1, <2>2 DEF PartOf, fs
<1>4. ASSUME NEW k \in 0 .. Len(b), NEW n \in 0 .. Len(b), k <= n, v = SplitAt(w, k, n)
      PROVE  PartOf(v, w)
             /\ v = [ended |-> v.ended, line |-> v.line, fields |-> v.fields, body |-> v.body]
  <2>1. v = [ended |-> w.ended, line |-> w.line, fields |-> fs \o FieldsIn(SubSeq(b, 1, k)),
             body |-> SubSeq(b, k + 1, n)]
    BY <1>1, <1>4 DEF SplitAt, b, fs
  <2>2. /\ v.ended = w.ended /\ v.line = w.line /\ v.body = SubSeq(b, k + 1, n)
        /\ v.fields = fs \o FieldsIn(SubSeq(b, 1, k))
    BY <2>1
  <2>3. PartOf(v, w)
    BY <1>4, <2>2, Zenon DEF PartOf, fs, b
  <2> QED
    BY <2>1, <2>2, <2>3
<1>5. CASE \E f \in Begun(fs) : v = [w EXCEPT !.fields = f, !.body = <<>>]
  BY <1>3, <1>5
<1>6. CASE \E k, n \in 0 .. Len(b) : k <= n /\ v = SplitAt(w, k, n)
  BY <1>4, <1>6
<1> QED
  BY <1>2, <1>5, <1>6

LEMMA ReceivedLemma ==
  ASSUME NEW w, IsText(w), NEW v \in Received(w)
  PROVE  IsText(v) /\ (v = Nothing \/ PartOf(v, w))
<1>1. IsText(Nothing)
  BY DEF IsText, Nothing, IsSeq, ToSet
<1>2. ASSUME v # Nothing PROVE IsText(v) /\ PartOf(v, w)
  <2>1. /\ PartOf(v, w)
        /\ v = [ended |-> v.ended, line |-> v.line, fields |-> v.fields, body |-> v.body]
    BY <1>2, ReceivedParts
  <2> DEFINE fs == w.fields
             b == w.body
             g == v.fields
  <2>2. IsSeq(fs) /\ IsSeq(b) /\ \A i \in 1 .. Len(fs) : IsField(fs[i])
    BY SeqLemma DEF IsText, ToSet
  <2>3. \/ LeftOf(g, fs) /\ v.body = <<>>
        \/ \E k, n \in 0 .. Len(b) : /\ k <= n /\ g = fs \o FieldsIn(SubSeq(b, 1, k))
                                     /\ v.body = SubSeq(b, k + 1, n)
    BY <2>1 DEF PartOf
  <2> HIDE DEF fs, b, g
  <2>4. IsSeq(g) /\ IsSeq(v.body) /\ \A i \in 1 .. Len(g) : IsField(g[i])
    <3>1. CASE LeftOf(g, fs) /\ v.body = <<>>
      <4>1. IsSeq(g) /\ IsSeq(<<>>) /\ Len(g) \in Nat /\ Len(fs) \in Nat /\ Len(g) <= Len(fs)
        BY <2>2, <3>1, SeqLemma DEF LeftOf, IsSeq
      <4>2. ASSUME NEW i \in 1 .. Len(g) PROVE IsField(g[i])
        <5> DEFINE e == fs[i]
                   d == g[i]
        <5>1. IsField(e) /\ (d = e \/ IsCut(d, e))
          BY <2>2, <3>1, <4>1 DEF LeftOf
        <5> HIDE DEF d, e
        <5>2. IsField(d)
          BY <5>1 DEF IsField, IsCut, CutField
        <5> QED
          BY <5>2 DEF d
      <4> QED
        BY <3>1, <4>1, <4>2
    <3>2. ASSUME NEW k \in 0 .. Len(b), NEW n \in 0 .. Len(b), k <= n,
                 g = fs \o FieldsIn(SubSeq(b, 1, k)), v.body = SubSeq(b, k + 1, n)
          PROVE  IsSeq(g) /\ IsSeq(v.body) /\ \A i \in 1 .. Len(g) : IsField(g[i])
      <4> DEFINE ls == FieldsIn(SubSeq(b, 1, k))
      <4>1. IsSeq(ls) /\ \A i \in 1 .. Len(ls) : IsField(ls[i])
        BY FieldsInLemma
      <4>2. IsSeq(v.body)
        BY <2>2, <3>2, SubSeqLemma
      <4>3. g = fs \o ls
        BY <3>2
      <4> HIDE DEF ls
      <4>4. Joins(fs \o ls, fs, ls)
        BY <2>2, <4>1, JoinLemma
      <4> QED
        BY <2>2, <4>1, <4>2, <4>3, <4>4 DEF Joins
    <3> QED
      BY <2>3, <3>1, <3>2
  <2>5. \A f \in ToSet(g) : IsField(f)
    BY <2>4, SeqLemma DEF ToSet
  <2> QED
    BY <2>1, <2>4, <2>5 DEF IsText, PartOf, g
<1> QED
  BY <1>1, <1>2
--------------------------------------------------------------------------------
(* What the constructors make of a text.                                   *)

LEMMA FieldParts ==
  ASSUME NEW f, NEW n, NEW v, f = Field(n, v)
  PROVE  f.name = n /\ f.colon = ": " /\ f.value = v
BY DEF Field

LEMMA HeadersLemma ==
  ASSUME NEW fs, IsSeq(fs), \A f \in ToSet(fs) : IsField(f),
         NEW n \in DOMAIN Headers(fs)
  PROVE  /\ Lower[n] = n
         /\ \E i \in 1 .. Len(fs) :
              /\ Lower[fs[i].name] = n /\ fs[i].colon = ": "
              /\ ~IsLength(fs[i]) /\ ~IsJson(fs[i])
              /\ Headers(fs)[n] = fs[i].value
<1> DEFINE T == {i \in Kept(fs) : Lower[fs[i].name] = n}
<1>1. Len(fs) \in Nat /\ DOMAIN fs = 1 .. Len(fs)
  BY SeqLemma
<1>2. n \in {Lower[fs[i].name] : i \in Kept(fs)} /\ Headers(fs)[n] = fs[Min(T)].value
  BY DEF Headers
<1>3. T # {} /\ T \subseteq Nat
  <2>1. PICK i \in Kept(fs) : n = Lower[fs[i].name]
    BY <1>2
  <2>2. Kept(fs) \subseteq DOMAIN fs
    BY DEF Kept
  <2>3. DOMAIN fs \subseteq Nat
    BY <1>1
  <2> QED
    BY <2>1, <2>2, <2>3
<1>4. Min(T) \in T
  BY <1>3, LeastLemma DEF Min
<1>5. \A i \in 1 .. Len(fs) : fs[i].name \in DOMAIN Lower
  BY <1>1 DEF ToSet, IsField
<1>6. /\ Min(T) \in 1 .. Len(fs) /\ Lower[fs[Min(T)].name] = n
      /\ fs[Min(T)].colon = ": " /\ ~IsLength(fs[Min(T)]) /\ ~IsJson(fs[Min(T)])
  BY <1>1, <1>4 DEF Kept
<1>7. Lower[n] = n
  BY <1>5, <1>6, HttpAssumption
<1> QED
  BY <1>2, <1>6, <1>7

LEMMA TextHeaders ==
  ASSUME NEW w, IsText(w), NEW n \in DOMAIN Headers(w.fields)
  PROVE  /\ Lower[n] = n
         /\ \E i \in 1 .. Len(w.fields) :
              /\ Lower[w.fields[i].name] = n /\ w.fields[i].colon = ": "
              /\ Headers(w.fields)[n] = w.fields[i].value
<1> DEFINE fs == w.fields
<1>1. IsSeq(fs) /\ (\A f \in ToSet(fs) : IsField(f)) /\ n \in DOMAIN Headers(fs)
  BY DEF IsText
<1> HIDE DEF fs
<1>2. /\ Lower[n] = n
      /\ \E i \in 1 .. Len(fs) :
           Lower[fs[i].name] = n /\ fs[i].colon = ": " /\ Headers(fs)[n] = fs[i].value
  BY <1>1, HeadersLemma
<1> QED
  BY <1>2 DEF fs

(* The headers of a well-formed message arrive, with names in lower case.  *)
LEMMA HeadersArrive ==
  ASSUME NEW m, IsMessage(m), WellFormed(m), NEW w, NEW line, IsText(w), IsWritten(w, line, m)
  PROVE  Headers(w.fields) = Lowered(m.headers)
<1> DEFINE h == m.headers
           fs == w.fields
           names == {Lower[x] : x \in DOMAIN h}
<1>1. IsSeq(fs) /\ (\A f \in ToSet(fs) : IsField(f)) /\ DOMAIN fs = 1 .. Len(fs)
  BY SeqLemma DEF IsText
<1> DEFINE Plainly(f) == ~IsLength(f) /\ ~IsJson(f)
<1>2. \A i : i \in Kept(fs) <=> i \in 1 .. Len(fs) /\ fs[i].colon = ": " /\ Plainly(fs[i])
  BY <1>1 DEF Kept
<1>3. \A x \in DOMAIN h : Plainly(Field(x, h[x]))
  BY DEF WellFormed, IsLength, IsJson, Field
<1>4. ~Plainly(TypeField) /\ ~Plainly(LengthField(m.content_length))
  BY HttpAssumption DEF IsLength, IsJson, TypeField, LengthField, Field
<1> HIDE DEF Plainly
<1>5. \A i \in 1 .. Len(fs) : Plainly(fs[i]) =>
        \E x \in DOMAIN h : fs[i].name = x /\ fs[i].value = h[x]
  <2> SUFFICES ASSUME NEW i \in 1 .. Len(fs), Plainly(fs[i])
               PROVE  \E x \in DOMAIN h : fs[i].name = x /\ fs[i].value = h[x]
    OBVIOUS
  <2>1. PICK x \in DOMAIN h : fs[i] = Field(x, h[x])
    BY <1>4 DEF IsWritten
  <2> DEFINE v == h[x]
  <2>2. fs[i] = Field(x, v)
    BY <2>1
  <2> HIDE DEF v
  <2>3. fs[i].name = x
    BY <2>2, FieldParts
  <2>4. fs[i].value = v
    BY <2>2, FieldParts
  <2>5. fs[i].name = x /\ fs[i].value = h[x]
    BY <2>3, <2>4 DEF v
  <2> QED
    BY <2>5
<1>6. \A x \in DOMAIN h : \E i \in 1 .. Len(fs) :
         fs[i].name = x /\ fs[i].colon = ": " /\ Plainly(fs[i])
  <2> SUFFICES ASSUME NEW x \in DOMAIN h
               PROVE  \E i \in 1 .. Len(fs) :
                        fs[i].name = x /\ fs[i].colon = ": " /\ Plainly(fs[i])
    OBVIOUS
  <2>1. PICK i \in 1 .. Len(fs) : fs[i] = Field(x, h[x])
    BY DEF IsWritten
  <2>2. Plainly(fs[i])
    BY <1>3, <2>1
  <2>3. fs[i].name = x /\ fs[i].colon = ": "
    BY <2>1, FieldParts
  <2> QED
    BY <2>2, <2>3
<1>7. \A x, y \in DOMAIN h : Lower[x] = Lower[y] => x = y
  BY DEF WellFormed
<1>8. \A n : n \in names <=> \E x \in DOMAIN h : n = Lower[x]
  OBVIOUS
<1>9. Headers(fs) = [n \in DOMAIN Headers(fs) |-> Headers(fs)[n]]
  BY DEF Headers
<1>10. Lowered(h) = [n \in names |-> h[CHOOSE x \in DOMAIN h : Lower[x] = n]]
  BY DEF Lowered
<1> HIDE DEF h, fs, names
<1>11. DOMAIN Headers(fs) = names
  <2>1. DOMAIN Headers(fs) = {Lower[fs[i].name] : i \in Kept(fs)}
    BY DEF Headers
  <2>2. ASSUME NEW i \in Kept(fs) PROVE Lower[fs[i].name] \in names
    <3>1. PICK x \in DOMAIN h : fs[i].name = x
      BY <1>2, <1>5
    <3> QED
      BY <1>8, <3>1
  <2>3. ASSUME NEW x \in DOMAIN h PROVE \E i \in Kept(fs) : Lower[fs[i].name] = Lower[x]
    BY <1>2, <1>6
  <2>4. \A n : n \in DOMAIN Headers(fs) <=> n \in names
    BY <1>8, <2>1, <2>2, <2>3
  <2> QED
    BY <2>4
<1>12. ASSUME NEW n \in names
      PROVE  Headers(fs)[n] = h[CHOOSE x \in DOMAIN h : Lower[x] = n]
  <2>1. PICK i \in 1 .. Len(fs) : /\ Lower[fs[i].name] = n /\ Plainly(fs[i])
                                  /\ Headers(fs)[n] = fs[i].value
    BY <1>1, <1>11, HeadersLemma DEF Plainly
  <2>2. PICK x \in DOMAIN h : fs[i].name = x /\ fs[i].value = h[x]
    BY <1>5, <2>1
  <2>3. Lower[x] = n /\ Headers(fs)[n] = h[x]
    BY <2>1, <2>2
  <2>4. \A y \in DOMAIN h : Lower[y] = n => y = x
    BY <1>7, <2>3
  <2>5. (CHOOSE y \in DOMAIN h : Lower[y] = n) = x
    BY <2>3, <2>4, Zenon
  <2> QED
    BY <2>3, <2>5
<1>13. Headers(fs) = Lowered(h)
  <2>1. Headers(fs) = [n \in names |-> Headers(fs)[n]]
    BY <1>11, <1>9
  <2>2. [n \in names |-> Headers(fs)[n]]
           = [n \in names |-> h[CHOOSE x \in DOMAIN h : Lower[x] = n]]
    BY <1>12, Zenon
  <2> QED
    BY <1>10, <2>1, <2>2, Zenon
<1> QED
  BY <1>13 DEF h, fs

LEMMA GreatestLemma ==
  ASSUME NEW c \in Nat, NEW T, T \subseteq 1 .. c, T # {}
  PROVE  Max(T) \in T
<1> DEFINE U == {c - i : i \in T}
<1>1. \A i \in T : i \in 1 .. c /\ c - i \in Nat
  <2>1. \A i \in 1 .. c : c - i \in Nat
    OBVIOUS
  <2> QED
    BY <2>1
<1>2. U \subseteq Nat /\ U # {}
  BY <1>1
<1>3. PICK x \in U : \A y \in U : x <= y
  <2> HIDE DEF U
  <2> QED
    BY <1>2, LeastLemma
<1>4. PICK i \in T : x = c - i
  BY <1>3
<1>5. \A j \in T : i >= j
  <2> SUFFICES ASSUME NEW j \in T PROVE i >= j
    OBVIOUS
  <2>1. c - j \in U
    OBVIOUS
  <2>2. x <= c - j
    BY <1>3, <2>1
  <2> QED
    BY <1>1, <1>4, <2>2
<1> QED
  BY <1>4, <1>5, Zenon DEF Max

(* The length of fields of which all that announce one announce the same.  *)
LEMMA LengthLemma ==
  ASSUME NEW fs, IsSeq(fs), NEW n \in DOMAIN Decimal,
         \A i \in 1 .. Len(fs) : IsLength(fs[i]) => fs[i].value = Decimal[n],
         n # 0 => \E i \in 1 .. Len(fs) : fs[i].colon = ": " /\ IsLength(fs[i])
  PROVE  Length(fs) = n
<1> DEFINE T == {i \in DOMAIN fs : fs[i].colon = ": " /\ IsLength(fs[i])}
           c == Len(fs)
<1>1. c \in Nat /\ DOMAIN fs = 1 .. c
  BY SeqLemma
<1>2. Length(fs) = IF T = {} THEN 0 ELSE Number[fs[Max(T)].value]
  BY DEF Length
<1>3. T \subseteq 1 .. c /\ (n # 0 => T # {}) /\ \A i \in T : fs[i].value = Decimal[n]
  BY <1>1
<1> HIDE DEF T, c
<1>4. T # {} => Max(T) \in T
  BY <1>1, <1>3, GreatestLemma
<1>5. Number[Decimal[n]] = n
  BY HttpAssumption
<1> QED
  BY <1>2, <1>3, <1>4, <1>5

(* The content_length of a message that no header contradicts is read from *)
(* all that is written of it before the body, and from what is appended to *)
(* that of the body, if nothing in there announces a length.               *)
LEMMA LengthArrives ==
  ASSUME NEW m, IsMessage(m), \A a \in DOMAIN m.headers : Lower[a] # "content-length",
         NEW w, NEW line, IsText(w), IsWritten(w, line, m),
         NEW ls, IsSeq(ls), \A i \in 1 .. Len(ls) : ~IsLength(ls[i])
  PROVE  Length(w.fields) = m.content_length /\ Length(w.fields \o ls) = m.content_length
<1> DEFINE n == m.content_length
           l == LengthField(n)
           fs == w.fields
           c == fs \o ls
<1>1. n \in DOMAIN Decimal
  BY DEF IsMessage
<1>2. l.value = Decimal[n] /\ l.colon = ": " /\ IsLength(l) /\ ~IsLength(TypeField)
  BY HttpAssumption DEF LengthField, TypeField, Field, IsLength
<1>3. \A a \in DOMAIN m.headers : ~IsLength(Field(a, m.headers[a]))
  BY DEF Field, IsLength
<1>4. IsSeq(fs)
  BY DEF IsText
<1>5. /\ \A i \in 1 .. Len(fs) : IsLength(fs[i]) => fs[i] = l
      /\ n # 0 => \E i \in 1 .. Len(fs) : fs[i] = l
  <2>1. /\ \A i \in 1 .. Len(fs) : \/ \E a \in DOMAIN m.headers : fs[i] = Field(a, m.headers[a])
                                   \/ fs[i] = l \/ fs[i] = TypeField
        /\ n # 0 => \E i \in 1 .. Len(fs) : fs[i] = l
    BY DEF IsWritten
  <2> HIDE DEF n, l, fs
  <2> QED
    BY <1>2, <1>3, <2>1
<1> HIDE DEF n, l, fs
<1>6. Length(fs) = n
  BY <1>1, <1>2, <1>4, <1>5, LengthLemma
<1>7. Joins(c, fs, ls)
  BY <1>4, JoinLemma
<1> HIDE DEF c
<1>8. /\ \A i \in 1 .. Len(c) : IsLength(c[i]) => c[i].value = Decimal[n]
      /\ n # 0 => \E i \in 1 .. Len(c) : c[i].colon = ": " /\ IsLength(c[i])
  <2>1. IsSeq(c) /\ \A i \in 1 .. Len(c) : IsLength(c[i]) => c[i] = l
    BY <1>5, <1>7 DEF Joins
  <2>2. n # 0 => \E i \in 1 .. Len(c) : c[i] = l
    BY <1>5, <1>7 DEF Joins
  <2> QED
    BY <1>2, <2>1, <2>2
<1>9. Length(c) = n
  BY <1>1, <1>7, <1>8, LengthLemma DEF Joins
<1> QED
  BY <1>6, <1>9 DEF n, fs, c

(* ... and so do the type of its content, its length and its body.         *)
LEMMA ContentArrives ==
  ASSUME NEW m, IsMessage(m), WellFormed(m), NEW w, NEW line, IsText(w), IsWritten(w, line, m)
  PROVE  ParsedHeaders(w) = [headers |-> Lowered(m.headers), is_json |-> m.is_json,
                             content_length |-> m.content_length, body |-> m.body]
<1>1. Headers(w.fields) = Lowered(m.headers)
  BY HeadersArrive
<1>2. PICK S : m.body \in Seq(S)
  BY SeqLemma DEF IsMessage
<1>3. m.content_length = Len(m.body) /\ (m.body = <<>> <=> m.content_length = 0)
  BY <1>2, EmptySeq DEF WellFormed
<1>4. Length(w.fields) = m.content_length
  <2>1. IsSeq(<<>>) /\ Len(<<>>) = 0
    BY DEF IsSeq
  <2>2. \A a \in DOMAIN m.headers : Lower[a] # "content-length"
    BY DEF WellFormed
  <2> QED
    BY <2>1, <2>2, LengthArrives
<1>5. w.body = m.body
  BY <1>3 DEF IsWritten
<1>6. Accepted(w) = m.body
  BY <1>3, <1>4, <1>5 DEF Accepted
<1>7. (\E f \in ToSet(w.fields) : f.colon = ": " /\ IsJson(f)) <=> Typed(m)
  <2>1. DOMAIN w.fields = 1 .. Len(w.fields)
    BY SeqLemma DEF IsText
  <2>2. TypeField.colon = ": " /\ IsJson(TypeField) /\ ~IsJson(LengthField(m.content_length))
    BY HttpAssumption DEF IsJson, TypeField, LengthField, Field
  <2>3. \A x \in DOMAIN m.headers : ~IsJson(Field(x, m.headers[x]))
    BY DEF WellFormed, IsJson, Field
  <2> QED
    BY <2>1, <2>2, <2>3 DEF IsWritten, ToSet
<1>8. Typed(m) <=> m.is_json
  BY <1>3 DEF Typed, WellFormed
<1>9. (\E f \in ToSet(w.fields) : f.colon = ": " /\ IsJson(f)) = m.is_json
  BY <1>7, <1>8 DEF IsMessage
<1> QED
  BY <1>1, <1>4, <1>6, <1>9 DEF ParsedHeaders

(***************************************************************************)
(* A body that is accepted of a message with one length is whole, whatever *)
(* part of the message has been received.                                  *)
(***************************************************************************)
LEMMA BodyLemma ==
  ASSUME NEW m, IsMessage(m), OneLength(m), NEW w, NEW line, IsText(w), IsWritten(w, line, m),
         NEW v, PartOf(v, w)
  PROVE  Accepted(v) \in {<<>>, m.body}
<1> DEFINE b == m.body
<1>1. CASE v.body = <<>>
  BY <1>1 DEF Accepted
<1>2. ASSUME NEW k \in 0 .. Len(w.body), NEW n \in 0 .. Len(w.body), k <= n,
             v.fields = w.fields \o FieldsIn(SubSeq(w.body, 1, k)),
             v.body = SubSeq(w.body, k + 1, n)
      PROVE  Accepted(v) \in {<<>>, m.body}
  <2>1. IsSeq(b) /\ Len(b) \in Nat /\ m.content_length = Len(b) /\ (Len(b) = 0 => b = <<>>)
    BY SeqLemma, EmptySeq DEF IsMessage, OneLength
  <2>2. w.body = b
    BY <2>1 DEF IsWritten
  <2>3. k \in 0 .. Len(b) /\ n \in 0 .. Len(b)
    BY <1>2, <2>2
  <2> HIDE DEF b
  <2> DEFINE ls == FieldsIn(SubSeq(b, 1, k))
  <2>4. IsSeq(ls) /\ \A i \in 1 .. Len(ls) : ~IsLength(ls[i])
    <3>1. IsSeq(ls)
      BY FieldsInLemma
    <3>2. \A f \in ToSet(ls) : ~IsLength(f)
      BY <2>3 DEF OneLength, b
    <3> QED
      BY <3>1, <3>2, SeqLemma DEF ToSet
  <2>5. Length(v.fields) = Len(b)
    <3>1. v.fields = w.fields \o ls
      BY <1>2, <2>2
    <3>2. \A a \in DOMAIN m.headers : Lower[a] # "content-length"
      BY DEF OneLength
    <3> HIDE DEF ls
    <3> QED
      BY <2>1, <2>4, <3>1, <3>2, LengthArrives
  <2>6. Len(v.body) = n - k
    BY <1>2, <2>1, <2>2, <2>3, SubSeqLemma
  <2>7. CASE n - k = Len(b)
    <3>1. k + 1 = 1 /\ n = Len(b)
      BY <2>1, <2>3, <2>7
    <3>2. v.body = b
      BY <1>2, <2>1, <2>2, <2>3, <3>1, BeginsLemma
    <3> QED
      BY <3>2 DEF Accepted, b
  <2>8. CASE n - k # Len(b)
    <3>1. Len(b) > 0
      BY <1>2, <2>1, <2>3, <2>8
    <3> QED
      BY <2>5, <2>6, <2>8, <3>1 DEF Accepted
  <2> QED
    BY <2>7, <2>8
<1> QED
  BY <1>1, <1>2 DEF PartOf

LEMMA OverRequest ==
  ASSUME NEW a, NEW b, NEW c, NEW h, NEW j, NEW l, NEW d
  PROVE  Over([method |-> a, uri |-> b, proto |-> c],
              [headers |-> h, is_json |-> j, content_length |-> l, body |-> d])
           = NewRequest(a, b, c, h, j, l, d)
BY DEF Over, NewRequest

LEMMA OverResponse ==
  ASSUME NEW a, NEW b, NEW c, NEW h, NEW j, NEW l, NEW d
  PROVE  Over([proto |-> c, code |-> a, message |-> b],
              [headers |-> h, is_json |-> j, content_length |-> l, body |-> d])
           = NewResponse(a, b, c, h, j, l, d)
BY DEF Over, NewResponse

LEMMA OverRequestParts ==
  ASSUME NEW a, NEW b, NEW c, NEW p, DOMAIN p = {"headers", "is_json", "content_length", "body"}
  PROVE  LET m == Over([method |-> a, uri |-> b, proto |-> c], p)
         IN  /\ m.method = a /\ m.uri = b /\ m.proto = c
             /\ m.headers = p.headers /\ m.body = p.body /\ m.content_length = p.content_length
BY DEF Over

LEMMA OverResponseParts ==
  ASSUME NEW a, NEW b, NEW c, NEW p, DOMAIN p = {"headers", "is_json", "content_length", "body"}
  PROVE  LET m == Over([proto |-> c, code |-> a, message |-> b], p)
         IN  /\ m.proto = c /\ m.code = a /\ m.message = b /\ m.headers = p.headers
             /\ m.body = p.body /\ m.content_length = p.content_length
BY DEF Over

LEMMA ParsedParts ==
  /\ \A w : DOMAIN ParsedHeaders(w) = {"headers", "is_json", "content_length", "body"}
  /\ DOMAIN NoHeaders = {"headers", "is_json", "content_length", "body"}
BY DEF ParsedHeaders, NoHeaders

Word(w, i) == IF w.ended /\ i \in DOMAIN w.line THEN w.line[i] ELSE ""

LEMMA RequestParts ==
  ASSUME NEW w
  PROVE  LET m == Request(w)
             p == ParsedHeaders(w)
         IN  /\ w.ended => /\ m.headers = p.headers /\ m.body = p.body
                           /\ m.content_length = p.content_length
             /\ ~w.ended => m.headers = <<>> /\ m.body = <<>>
             /\ m.method = Word(w, 1) /\ m.uri = <<Word(w, 2)>> /\ m.proto = Word(w, 3)
<1> DEFINE p == IF w.ended THEN ParsedHeaders(w) ELSE NoHeaders
           u == <<Word(w, 2)>>
<1>1. DOMAIN p = {"headers", "is_json", "content_length", "body"}
  BY ParsedParts
<1>2. Request(w) = Over([method |-> Word(w, 1), uri |-> u, proto |-> Word(w, 3)], p)
  BY DEF Request, Word
<1>3. /\ w.ended => p = ParsedHeaders(w)
      /\ ~w.ended => p.headers = <<>> /\ p.body = <<>>
  BY DEF NoHeaders
<1> HIDE DEF p, u
<1>4. /\ Request(w).headers = p.headers /\ Request(w).body = p.body
      /\ Request(w).content_length = p.content_length /\ Request(w).method = Word(w, 1)
      /\ Request(w).uri = u /\ Request(w).proto = Word(w, 3)
  BY <1>1, <1>2, OverRequestParts
<1> QED
  BY <1>3, <1>4 DEF u

LEMMA ResponseParts ==
  ASSUME NEW w
  PROVE  LET m == Response(w)
             p == ParsedHeaders(w)
         IN  /\ m.proto = w.line[1] /\ m.code = Short(w.line[2])
             /\ m.message = SubSeq(w.line, 3, Len(w.line))
             /\ m.headers = p.headers /\ m.body = p.body /\ m.content_length = p.content_length
BY ParsedParts, OverResponseParts DEF Response

LEMMA MalformedParts ==
  ASSUME NEW code
  PROVE  LET m == MalformedResponse(code)
         IN  m.proto = "" /\ m.code = code /\ m.headers = <<>> /\ m.body = <<>>
<1> DEFINE c == ""
           t == <<c>>
           m == MalformedResponse(code)
<1>1. NoHeaders.headers = <<>> /\ NoHeaders.body = <<>>
  BY DEF NoHeaders
<1>2. m = Over([proto |-> c, code |-> code, message |-> t], NoHeaders)
  BY DEF MalformedResponse
<1> HIDE DEF c, t, m
<1>3. m.proto = c /\ m.code = code /\ m.headers = NoHeaders.headers /\ m.body = NoHeaders.body
  BY <1>2, ParsedParts, OverResponseParts
<1> QED
  BY <1>1, <1>3 DEF m, c

(* The first line of a request has the method before and the proto after   *)
(* the words of the URI.                                                   *)
LEMMA RequestLine ==
  ASSUME NEW a, NEW u, IsSeq(u), NEW c
  PROVE  LET line == <<a>> \o u \o <<c>>
         IN  /\ IsSeq(line) /\ 1 \in DOMAIN line /\ line[1] = a
             /\ Len(u) = 1 => DOMAIN line = 1 .. 3 /\ line[2] = u[1] /\ line[3] = c
<1>1. PICK S : u \in Seq(S)
  BY SeqLemma
<1> DEFINE T == S \cup {a, c}
           v == <<a>> \o u
           line == v \o <<c>>
<1>2. u \in Seq(T) /\ <<a>> \in Seq(T) /\ <<c>> \in Seq(T)
  BY <1>1
<1> HIDE DEF T
<1>3. /\ v \in Seq(T) /\ Len(v) = 1 + Len(u) /\ Len(u) \in Nat
      /\ \A i \in 1 .. 1 + Len(u) : v[i] = IF i <= 1 THEN <<a>>[i] ELSE u[i - 1]
  BY <1>2, ConcatProperties, LenProperties
<1>4. v[1] = a /\ (Len(u) = 1 => v[2] = u[1])
  BY <1>3
<1> HIDE DEF v
<1>5. /\ line \in Seq(T) /\ Len(line) = Len(v) + 1
      /\ \A i \in 1 .. Len(v) + 1 : line[i] = IF i <= Len(v) THEN v[i] ELSE <<c>>[i - Len(v)]
  BY <1>2, <1>3, ConcatProperties, LenProperties
<1>6. line[1] = a /\ (Len(u) = 1 => line[2] = u[1] /\ line[3] = c)
  BY <1>3, <1>4, <1>5
<1> HIDE DEF line
<1>7. IsSeq(line) /\ DOMAIN line = 1 .. Len(v) + 1
  BY <1>5, IsSeqLemma, LenProperties
<1>8. 1 \in DOMAIN line /\ (Len(u) = 1 => DOMAIN line = 1 .. 3)
  BY <1>3, <1>7
<1> QED
  BY <1>6, <1>7, <1>8 DEF line, v

(* The first line of a response has proto and code before the words of the *)
(* message.                                                                *)
LEMMA ResponseLine ==
  ASSUME NEW c, NEW a, NEW t, IsSeq(t)
  PROVE  LET line == <<c, a>> \o t
         IN  /\ IsSeq(line) /\ line[1] = c /\ line[2] = a
             /\ SubSeq(line, 3, Len(line)) = t
<1>1. PICK S : t \in Seq(S)
  BY SeqLemma
<1> DEFINE T == S \cup {a, c}
           line == <<c, a>> \o t
           n == Len(t)
           u == SubSeq(line, 3, Len(line))
<1>2. t \in Seq(T) /\ <<c, a>> \in Seq(T) /\ Len(<<c, a>>) = 2
  BY <1>1
<1> HIDE DEF T
<1>3. /\ line \in Seq(T) /\ Len(line) = 2 + n /\ n \in Nat
      /\ \A i \in 1 .. 2 + n : line[i] = IF i <= 2 THEN <<c, a>>[i] ELSE t[i - 2]
  BY <1>2, ConcatProperties, LenProperties
<1>4. line[1] = c /\ line[2] = a
  BY <1>3
<1> HIDE DEF line, n
<1>5. \A i \in 3 .. 2 + n : line[i] \in T
  BY <1>3
<1>6. /\ u \in Seq(T)
      /\ Len(u) = IF 3 <= 2 + n THEN 2 + n - 3 + 1 ELSE 0
      /\ \A i \in 1 .. 2 + n - 3 + 1 : u[i] = line[3 + i - 1]
  BY <1>3, <1>5, SubSeqProperties
<1> HIDE DEF u
<1>7. Len(u) = n /\ \A i \in 1 .. n : u[i] = t[i]
  <2>1. \A i \in 1 .. n : /\ i + 2 \in 1 .. 2 + n /\ ~(i + 2 <= 2) /\ i + 2 - 2 = i
                           /\ 3 + i - 1 = i + 2
    BY <1>3
  <2>2. \A i \in 1 .. n : line[i + 2] = t[i]
    BY <1>3, <2>1
  <2> QED
    BY <1>3, <1>6, <2>1, <2>2
<1>8. u = t
  BY <1>2, <1>3, <1>6, <1>7, SeqEqual DEF n
<1>9. IsSeq(line)
  BY <1>3, IsSeqLemma
<1> QED
  BY <1>4, <1>8, <1>9 DEF line, u

(***************************************************************************)
(* A well-formed request whose URI is one word, and a well-formed response *)
(* come back from the wire as they were, with names in lower case.         *)
(***************************************************************************)
LEMMA RequestRoundTrip ==
  ASSUME NEW r, IsRequest(r), WellFormed(r), Len(r.uri) = 1
  PROVE  Request(RequestToString(r)) = [r EXCEPT !.headers = Lowered(@)]
<1> DEFINE line == <<r.method>> \o r.uri \o <<r.proto>>
           w == RequestToString(r)
<1>1. IsSeq(line) /\ IsMessage(r)
  BY RequestLine DEF IsRequest
<1>2. IsText(w) /\ IsWritten(w, line, r)
  BY <1>1, WireLemma DEF RequestToString
<1>3. line[1] = r.method /\ DOMAIN line = 1 .. 3 /\ line[2] = r.uri[1] /\ line[3] = r.proto
  BY RequestLine DEF IsRequest
<1>4. w.ended /\ w.line = line
  BY <1>2 DEF IsWritten
<1>5. ParsedHeaders(w) = [headers |-> Lowered(r.headers), is_json |-> r.is_json,
                          content_length |-> r.content_length, body |-> r.body]
  BY <1>1, <1>2, ContentArrives
<1>6. <<r.uri[1]>> = r.uri
  BY DEF IsRequest, IsSeq
<1> HIDE DEF line, w
<1>7. 1 \in 1 .. 3 /\ 2 \in 1 .. 3 /\ 3 \in 1 .. 3
  OBVIOUS
<1>8. Request(w) = Over([method |-> r.method, uri |-> r.uri, proto |-> r.proto], ParsedHeaders(w))
  BY <1>3, <1>4, <1>6, <1>7, Zenon DEF Request
<1>9. Request(w) = NewRequest(r.method, r.uri, r.proto, Lowered(r.headers), r.is_json,
                              r.content_length, r.body)
  BY <1>5, <1>8, OverRequest
<1>10. [r EXCEPT !.headers = Lowered(@)]
          = NewRequest(r.method, r.uri, r.proto, Lowered(r.headers), r.is_json,
                       r.content_length, r.body)
  BY DEF IsRequest, NewRequest
<1> QED
  BY <1>9, <1>10 DEF w

LEMMA ShortLemma ==
  /\ \A n \in Int : Short(n) \in -(2^15) .. 2^15 - 1
  /\ \A n \in -(2^15) .. 2^15 - 1 : Short(n) = n
<1>1. ASSUME NEW n \in Int PROVE Short(n) \in -(2^15) .. 2^15 - 1
  BY DEF Short
<1>2. ASSUME NEW n \in -(2^15) .. 2^15 - 1 PROVE Short(n) = n
  BY DEF Short
<1> QED
  BY <1>1, <1>2

LEMMA ResponseRoundTrip ==
  ASSUME NEW r, IsResponse(r), WellFormed(r)
  PROVE  Response(ResponseToString(r)) = [r EXCEPT !.headers = Lowered(@)]
<1> DEFINE line == <<r.proto, r.code>> \o r.message
           w == ResponseToString(r)
<1>1. IsSeq(line) /\ IsMessage(r) /\ Short(r.code) = r.code
  BY ResponseLine, ShortLemma DEF IsResponse
<1>2. IsText(w) /\ IsWritten(w, line, r)
  BY <1>1, WireLemma DEF ResponseToString
<1>3. line[1] = r.proto /\ line[2] = r.code /\ SubSeq(line, 3, Len(line)) = r.message
  BY ResponseLine DEF IsResponse
<1>4. w.line = line
  BY <1>2 DEF IsWritten
<1>5. ParsedHeaders(w) = [headers |-> Lowered(r.headers), is_json |-> r.is_json,
                          content_length |-> r.content_length, body |-> r.body]
  BY <1>1, <1>2, ContentArrives
<1> HIDE DEF line, w
<1>6. Response(w)
        = Over([proto |-> r.proto, code |-> r.code, message |-> r.message], ParsedHeaders(w))
  BY <1>1, <1>3, <1>4 DEF Response
<1>7. Response(w) = NewResponse(r.code, r.message, r.proto, Lowered(r.headers), r.is_json,
                                r.content_length, r.body)
  BY <1>5, <1>6, OverResponse
<1>8. [r EXCEPT !.headers = Lowered(@)]
         = NewResponse(r.code, r.message, r.proto, Lowered(r.headers), r.is_json,
                       r.content_length, r.body)
  BY DEF IsResponse, NewResponse
<1> QED
  BY <1>7, <1>8 DEF w
--------------------------------------------------------------------------------
(***************************************************************************)
(* The inductive invariant of an exchange: what is on the wire is the text *)
(* last written, or the part of it that has been received, unless it is    *)
(* overread; and what is set when.                                         *)
(***************************************************************************)
Carries(text, read) ==
  read # "overread" =>
    /\ wire = Nothing \/ PartOf(wire, text)
    /\ read = "exact" => wire = text

Answering == phase \in {"answered", "done", "failed"}

Wired ==
  /\ IsText(wire)
  /\ phase \in {"setup", "start"} => asked = Unset
  /\ asked # Unset => IsRequest(asked) /\ sent = RequestToString(asked)
  /\ answer # Unset => IsResponse(answer)
  /\ phase = "requested" => IsText(sent) /\ Carries(sent, requestRead)
  /\ Answering /\ answer # Unset => Carries(ResponseToString(answer), responseRead)
  /\ Answering /\ 2 \in DOMAIN wire.line => wire.line[2] \in Int
  /\ ~Answering => answer = Unset
  /\ phase \in {"setup", "start", "requested"} => received = Unset /\ outcome = Unset
  /\ result # Unset => phase = "done"

LEMMA NothingIsText ==
  IsText(Nothing) /\ Nothing.ended = FALSE /\ ~(2 \in DOMAIN Nothing.line)
BY DEF IsText, Nothing, IsSeq, ToSet

(* A text is a part of itself.                                             *)
LEMMA WholeLemma ==
  ASSUME NEW w, IsText(w)
  PROVE  PartOf(w, w)
<1> DEFINE b == w.body
           fs == w.fields
           n == Len(b)
<1>1. IsSeq(b) /\ n \in Nat /\ IsSeq(fs)
  BY SeqLemma DEF IsText
<1>2. SubSeq(b, 1, 0) = <<>> /\ SubSeq(b, 1, n) = b
  BY <1>1, BeginsLemma
<1>3. FieldsIn(<<>>) = <<>>
  BY HttpAssumption DEF FieldsIn
<1>4. fs \o <<>> = fs
  <2>1. PICK S : fs \in Seq(S)
    BY <1>1, SeqLemma
  <2> QED
    BY <2>1
<1>5. 0 \in 0 .. n /\ n \in 0 .. n /\ 0 <= n /\ 0 + 1 = 1
  BY <1>1
<1> HIDE DEF b, fs, n
<1>6. fs = fs \o FieldsIn(SubSeq(b, 1, 0)) /\ b = SubSeq(b, 0 + 1, n)
  BY <1>2, <1>3, <1>4, <1>5
<1> QED
  BY <1>5, <1>6 DEF PartOf, b, fs, n

LEMMA RequestIsText ==
  ASSUME NEW r, IsRequest(r)
  PROVE  LET w == RequestToString(r)
         IN  /\ IsText(w) /\ IsWritten(w, <<r.method>> \o r.uri \o <<r.proto>>, r)
             /\ 1 \in DOMAIN w.line /\ w.line[1] = r.method
<1> DEFINE line == <<r.method>> \o r.uri \o <<r.proto>>
           w == RequestToString(r)
<1>1. IsText(w) /\ IsWritten(w, line, r)
  BY RequestLine, WireLemma DEF RequestToString, IsRequest
<1>2. 1 \in DOMAIN line /\ line[1] = r.method
  BY RequestLine DEF IsRequest
<1>3. w.line = line
  BY <1>1 DEF IsWritten
<1> HIDE DEF line, w
<1> QED
  BY <1>1, <1>2, <1>3 DEF line, w

LEMMA ResponseIsText ==
  ASSUME NEW r, IsResponse(r)
  PROVE  LET w == ResponseToString(r)
         IN  /\ IsText(w) /\ IsWritten(w, <<r.proto, r.code>> \o r.message, r)
             /\ w.line[2] \in Int
<1>1. IsText(ResponseToString(r))
      /\ IsWritten(ResponseToString(r), <<r.proto, r.code>> \o r.message, r)
  BY ResponseLine, WireLemma DEF ResponseToString, IsResponse
<1>2. (<<r.proto, r.code>> \o r.message)[2] \in Int
  BY ResponseLine DEF IsResponse
<1> QED
  BY <1>1, <1>2 DEF IsWritten

(* The response that parsereq sends is one, whatever the route answers.    *)
LEMMA AnswerLemma ==
  ASSUME NEW q, NEW rs, Handle(rs, q).by # "throw", NEW r \in Responses(Handle(rs, q))
  PROVE  IsResponse(WithServerHeaders(r))
<1>1. Handle(rs, q).by \in {"func", "Unauthorized", "NotFound"}
  BY DEF Handle, RouteHandle
<1>2. \A code \in {401, 404} : \A t : IsSeq(t) => IsResponse(Plain(code, t))
  BY HttpAssumption DEF Plain, IsResponse, NewResponse, IsMessage, IsSeq
<1>3. IsSeq(<<"Unauthorized">>) /\ IsSeq(<<"Not", "Found">>)
  BY DEF IsSeq
<1>4. IsResponse(r)
  BY <1>1, <1>2, <1>3, ExchangeAssumption DEF Responses
<1>5. \A h, o : DOMAIN Over(h, o) = DOMAIN h \cup DOMAIN o
  BY DEF Over
<1> DEFINE o == [n \in {"Server", "Connection"} |-> IF n = "Server" THEN "NiceHTTP" ELSE "close"]
           h == Over(r.headers, o)
<1>6. DOMAIN h \subseteq DOMAIN Lower
  <2>1. DOMAIN o = {"Server", "Connection"}
    OBVIOUS
  <2>2. DOMAIN h = DOMAIN r.headers \cup DOMAIN o
    BY <1>5
  <2> HIDE DEF o, h
  <2>3. DOMAIN r.headers \subseteq DOMAIN Lower
    BY <1>4 DEF IsResponse, IsMessage
  <2> QED
    BY <2>1, <2>2, <2>3, ExchangeAssumption
<1>7. WithServerHeaders(r) = [r EXCEPT !.headers = h]
  BY DEF WithServerHeaders
<1> HIDE DEF h
<1> QED
  BY <1>4, <1>6, <1>7 DEF IsResponse, IsMessage, NewResponse

LEMMA WiredInit == Init => Wired
BY NothingIsText DEF Init, Wired, Answering

LEMMA WiredStep == Wired /\ [Next]_vars => Wired'
<1> SUFFICES ASSUME Wired, [Next]_vars PROVE Wired'
  OBVIOUS
<1> USE DEF clientVars, readVars, programVars
<1>1. CASE SetUp
  BY <1>1 DEF SetUp, Wired, Answering, Carries
<1>2. CASE Start
  BY <1>2 DEF Start, Wired, Answering, Carries
<1>3. CASE SendRequest
  <2>1. IsRequest(asked') /\ sent' = RequestToString(asked') /\ wire' = sent'
    BY <1>3, ExchangeAssumption DEF SendRequest
  <2>2. IsText(wire') /\ PartOf(wire', sent')
    BY <2>1, RequestIsText, WholeLemma
  <2> QED
    BY <1>3, <2>1, <2>2 DEF SendRequest, Wired, Answering, Carries
<1>4. CASE ForeignClient
  <2>1. IsText(wire') /\ wire' = sent' /\ PartOf(wire', sent')
    BY <1>4, ExchangeAssumption, WholeLemma DEF ForeignClient
  <2> QED
    BY <1>4, <2>1 DEF ForeignClient, Wired, Answering, Carries
<1>5. CASE RecvPart
  <2>1. /\ phase \in {"requested", "answered"} /\ wire' \in Received(wire)
        /\ phase = "requested" => requestRead = "exact" /\ responseRead' = responseRead
        /\ phase = "answered" => responseRead = "exact"
        /\ UNCHANGED <<phase, asked, sent, received, outcome, answer, result>>
    BY <1>5 DEF RecvPart, Reading
  <2>2. IsText(wire') /\ (wire' = Nothing \/ PartOf(wire', wire))
    BY <2>1, ReceivedLemma DEF Wired
  <2>3. 2 \in DOMAIN wire'.line => 2 \in DOMAIN wire.line /\ wire'.line[2] = wire.line[2]
    BY <2>2, NothingIsText DEF PartOf
  <2>4. CASE phase = "requested"
    <3>1. requestRead' = "misread"
      BY <1>5, <2>4 DEF RecvPart, Reading
    <3>2. wire = sent
      BY <2>1, <2>4 DEF Wired, Carries
    <3> QED
      BY <2>1, <2>2, <2>4, <3>1, <3>2 DEF Wired, Carries, Answering
  <2>5. CASE phase = "answered"
    <3>1. responseRead' = "misread"
      BY <1>5, <2>5 DEF RecvPart, Reading
    <3>2. answer # Unset => wire = ResponseToString(answer)
      BY <2>1, <2>5 DEF Wired, Carries, Answering
    <3> QED
      BY <2>1, <2>2, <2>3, <2>5, <3>1, <3>2 DEF Wired, Carries, Answering
  <2> QED
    BY <2>1, <2>4, <2>5
<1>6. CASE RecvOverread
  <2>1. /\ phase \in {"requested", "answered"} /\ wire' \in Overreads[phase]
        /\ phase = "requested" => requestRead' = "overread"
        /\ phase = "answered" => responseRead' = "overread"
        /\ UNCHANGED <<phase, asked, sent, received, outcome, answer, result>>
    BY <1>6 DEF RecvOverread, Reading
  <2>2. IsText(wire') /\ (phase = "answered" /\ 2 \in DOMAIN wire'.line => wire'.line[2] \in Int)
    BY <2>1, ExchangeAssumption
  <2> QED
    BY <2>1, <2>2 DEF Wired, Carries, Answering
<1>7. CASE parsereq
  <2>1. IsResponse(answer') /\ wire' = ResponseToString(answer')
    BY <1>7, AnswerLemma DEF parsereq
  <2>2. IsText(wire') /\ PartOf(wire', ResponseToString(answer')) /\ wire'.line[2] \in Int
    BY <2>1, ResponseIsText, WholeLemma
  <2> QED
    BY <1>7, <2>1, <2>2 DEF parsereq, Wired, Answering, Carries
<1>8. CASE ParsereqThrows
  BY <1>8 DEF ParsereqThrows, Wired, Answering, Carries
<1>9. CASE ForeignServer
  BY <1>9, NothingIsText, ExchangeAssumption DEF ForeignServer, Wired, Answering, Carries
<1>10. CASE ReadResponse
  BY <1>10 DEF ReadResponse, Wired, Answering, Carries
<1>11. CASE ReadThrows
  BY <1>11 DEF ReadThrows, Wired, Answering, Carries
<1>12. CASE UNCHANGED vars
  BY <1>12 DEF vars, Wired, Answering, Carries
<1> QED
  BY <1>1, <1>2, <1>3, <1>4, <1>5, <1>6, <1>7, <1>8, <1>9, <1>10, <1>11, <1>12 DEF Next

LEMMA WiredCorrect == Spec => []Wired
BY WiredInit, WiredStep, PTL DEF Spec

(* What a step does to the objects that the programs see.                  *)
Receives ==
  /\ phase = "requested"
  /\ received' = Request(wire)
  /\ outcome' = Handle(routes, received')
  /\ UNCHANGED <<routes, asked, sent, requestRead, result>>

Reads ==
  /\ phase = "answered"
  /\ ~ResponseThrows(wire)
  /\ wire.ended => result' = Response(wire)
  /\ ~wire.ended => \E code \in Garbage : result' = MalformedResponse(code)
  /\ UNCHANGED <<routes, asked, sent, wire, requestRead, responseRead, received, outcome, answer>>

Quiet ==
  /\ UNCHANGED <<received, outcome, result>>
  /\ received # Unset \/ outcome # Unset => UNCHANGED <<routes, asked, sent, requestRead>>
  /\ result # Unset => UNCHANGED <<wire, answer, responseRead>>

LEMMA StepLemma == Wired /\ [Next]_vars => Receives \/ Reads \/ Quiet
<1> SUFFICES ASSUME Wired, [Next]_vars PROVE Receives \/ Reads \/ Quiet
  OBVIOUS
<1> USE DEF clientVars, readVars, programVars, router
<1>1. CASE SetUp
  BY <1>1 DEF SetUp, Quiet, Wired
<1>2. CASE Start
  BY <1>2 DEF Start, Quiet
<1>3. CASE SendRequest
  BY <1>3 DEF SendRequest, Quiet, Wired
<1>4. CASE ForeignClient
  BY <1>4 DEF ForeignClient, Quiet, Wired
<1>5. CASE \E how \in {"misread", "overread"} : Reading(how)
  BY <1>5 DEF Reading, Quiet, Wired
<1>6. CASE parsereq
  BY <1>6 DEF parsereq, Receives
<1>7. CASE ParsereqThrows
  BY <1>7 DEF ParsereqThrows, Receives
<1>8. CASE ForeignServer
  BY <1>8 DEF ForeignServer, Quiet, Wired
<1>9. CASE ReadResponse
  BY <1>9 DEF ReadResponse, Reads
<1>10. CASE ReadThrows
  BY <1>10 DEF ReadThrows, Quiet
<1>11. CASE UNCHANGED vars
  BY <1>11 DEF vars, Quiet
<1> QED
  BY <1>1, <1>2, <1>3, <1>4, <1>5, <1>6, <1>7, <1>8, <1>9, <1>10, <1>11
     DEF Next, RecvPart, RecvOverread

(***************************************************************************)
(* The server builds the Request that the client's program wrote, for any  *)
(* well-formed headers and body and any URI of one word, when recv_http    *)
(* reads it exactly; and its method, URI and proto, or none of them, when  *)
(* it is misread, whatever its headers and its body are.                   *)
(***************************************************************************)
THEOREM RequestIsBuilt == Spec => []RequestArrives
<1>1. Init => RequestArrives
  BY DEF Init, RequestArrives
<1>2. Wired /\ RequestArrives /\ [Next]_vars => RequestArrives'
  <2> SUFFICES ASSUME Wired, RequestArrives, [Next]_vars PROVE RequestArrives'
    OBVIOUS
  <2>1. CASE Receives
    <3> SUFFICES ASSUME asked # Unset, Len(asked.uri) = 1
                 PROVE  /\ WellFormed(asked) /\ requestRead = "exact" =>
                             received' = [asked EXCEPT !.headers = Lowered(@)]
                        /\ requestRead = "misread" =>
                             \/ /\ received'.method = asked.method /\ received'.uri = asked.uri
                                /\ received'.proto = asked.proto
                             \/ /\ received'.method = "" /\ received'.uri = <<"">>
                                /\ received'.proto = ""
      BY <2>1 DEF Receives, RequestArrives
    <3>1. /\ IsRequest(asked) /\ sent = RequestToString(asked) /\ received' = Request(wire)
          /\ requestRead = "exact" => wire = sent
          /\ requestRead = "misread" => wire = Nothing \/ PartOf(wire, sent)
      BY <2>1 DEF Receives, Wired, Carries
    <3>2. /\ received'.method = Word(wire, 1) /\ received'.uri = <<Word(wire, 2)>>
          /\ received'.proto = Word(wire, 3)
      BY <3>1, RequestParts
    <3>3. ASSUME wire = Nothing
          PROVE  received'.method = "" /\ received'.uri = <<"">> /\ received'.proto = ""
      BY <3>2, <3>3 DEF Word, Nothing
    <3>4. ASSUME PartOf(wire, sent)
          PROVE  /\ received'.method = asked.method /\ received'.uri = asked.uri
                 /\ received'.proto = asked.proto
      <4> DEFINE line == <<asked.method>> \o asked.uri \o <<asked.proto>>
      <4>1. wire.ended /\ wire.line = line
        BY <3>1, <3>4, RequestIsText DEF PartOf, IsWritten
      <4>2. /\ DOMAIN line = 1 .. 3 /\ line[1] = asked.method /\ line[2] = asked.uri[1]
            /\ line[3] = asked.proto
        BY <3>1, RequestLine DEF IsRequest
      <4> HIDE DEF line
      <4>3. /\ Word(wire, 1) = asked.method /\ Word(wire, 2) = asked.uri[1]
            /\ Word(wire, 3) = asked.proto
        BY <4>1, <4>2 DEF Word
      <4>4. <<asked.uri[1]>> = asked.uri
        BY <3>1 DEF IsRequest, IsSeq
      <4> QED
        BY <3>2, <4>3, <4>4
    <3>5. WellFormed(asked) /\ requestRead = "exact" =>
            received' = [asked EXCEPT !.headers = Lowered(@)]
      BY <3>1, RequestRoundTrip
    <3> QED
      BY <3>1, <3>3, <3>4, <3>5
  <2>2. CASE Reads
    BY <2>2 DEF Reads, RequestArrives
  <2>3. CASE Quiet
    BY <2>3 DEF Quiet, RequestArrives
  <2> QED
    BY <2>1, <2>2, <2>3, StepLemma
<1> QED
  BY <1>1, <1>2, WiredCorrect, PTL DEF Spec

(***************************************************************************)
(* The client's program gets the Response that the route's function made,  *)
(* with the server's two headers, for any phrase and any well-formed       *)
(* headers and body, when recv_http reads it exactly.                      *)
(***************************************************************************)
THEOREM ResponseIsBuilt == Spec => []ResponseArrives
<1>1. Init => ResponseArrives
  BY DEF Init, ResponseArrives
<1>2. Wired /\ ResponseArrives /\ [Next]_vars => ResponseArrives'
  <2> SUFFICES ASSUME Wired, ResponseArrives, [Next]_vars,
                      (result # Unset /\ answer # Unset /\ WellFormed(answer)
                         /\ responseRead = "exact")'
               PROVE  result' = [answer' EXCEPT !.headers = Lowered(@)]
    BY DEF ResponseArrives
  <2>1. CASE Receives
    BY <2>1 DEF Receives, Wired
  <2>2. CASE Reads
    <3>1. IsResponse(answer) /\ wire = ResponseToString(answer) /\ answer' = answer
      BY <2>2 DEF Reads, Wired, Carries, Answering
    <3>2. wire.ended
      BY <3>1, ResponseIsText DEF IsWritten
    <3> QED
      BY <2>2, <3>1, <3>2, ResponseRoundTrip DEF Reads
  <2>3. CASE Quiet
    BY <2>3 DEF Quiet, ResponseArrives
  <2> QED
    BY <2>1, <2>2, <2>3, StepLemma
<1> QED
  BY <1>1, <1>2, WiredCorrect, PTL DEF Spec

(***************************************************************************)
(* However little of an answer is received, wherever it is split and       *)
(* whatever is wrong with it, the client's program learns how its request  *)
(* was answered, or can tell by the empty proto that it has not learnt it. *)
(***************************************************************************)
THEOREM StatusIsBuilt == Spec => []StatusArrives
<1>1. Init => StatusArrives
  BY DEF Init, StatusArrives
<1>2. Wired /\ StatusArrives /\ [Next]_vars => StatusArrives'
  <2> SUFFICES ASSUME Wired, StatusArrives, [Next]_vars PROVE StatusArrives'
    OBVIOUS
  <2>1. CASE Receives
    BY <2>1 DEF Receives, Wired, StatusArrives
  <2>2. CASE Reads
    <3>1. CASE wire.ended
      <4>1. wire # Nothing
        BY <3>1 DEF Nothing
      <4>2. ASSUME answer # Unset, responseRead # "overread"
            PROVE  /\ result'.proto = answer.proto /\ result'.code = answer.code
                   /\ result'.message = answer.message
        <5>1. IsResponse(answer) /\ PartOf(wire, ResponseToString(answer))
          BY <2>2, <4>1, <4>2 DEF Reads, Wired, Carries, Answering
        <5> DEFINE line == <<answer.proto, answer.code>> \o answer.message
        <5>2. wire.line = line
          BY <5>1, ResponseIsText DEF PartOf, IsWritten
        <5>3. /\ line[1] = answer.proto /\ line[2] = answer.code
              /\ SubSeq(line, 3, Len(line)) = answer.message
          BY <5>1, ResponseLine DEF IsResponse
        <5>4. Short(answer.code) = answer.code
          BY <5>1, ShortLemma DEF IsResponse
        <5> HIDE DEF line
        <5> QED
          BY <2>2, <3>1, <5>2, <5>3, <5>4, ResponseParts DEF Reads
      <4> QED
        BY <2>2, <4>1, <4>2 DEF Reads, StatusArrives
    <3>2. CASE ~wire.ended
      <4>1. answer # Unset /\ responseRead # "overread" => wire = Nothing
        BY <2>2, <3>2, ResponseIsText DEF Reads, Wired, Carries, Answering, PartOf, IsWritten
      <4>2. PICK code : result' = MalformedResponse(code)
        BY <2>2, <3>2 DEF Reads
      <4>3. result'.proto = ""
        BY <4>2, MalformedParts
      <4> QED
        BY <2>2, <4>1, <4>3 DEF Reads, StatusArrives
    <3> QED
      BY <3>1, <3>2, <2>2 DEF Reads, Wired, IsText
  <2>3. CASE Quiet
    BY <2>3 DEF Quiet, StatusArrives
  <2> QED
    BY <2>1, <2>2, <2>3, StepLemma
<1> QED
  BY <1>1, <1>2, WiredCorrect, PTL DEF Spec

(* What a constructor makes of any text has the names of its headers in    *)
(* lower case.                                                             *)
Sound(m) == \A n \in DOMAIN m.headers : Lower[n] = n

LEMMA SoundLemma ==
  ASSUME NEW w, IsText(w)
  PROVE  Sound(Request(w)) /\ Sound(Response(w)) /\ \A code : Sound(MalformedResponse(code))
<1> DEFINE p == ParsedHeaders(w)
<1>1. p.headers = Headers(w.fields)
  BY DEF ParsedHeaders
<1>2. \A n \in DOMAIN p.headers : Lower[n] = n
  BY <1>1, TextHeaders
<1>3. DOMAIN <<>> = {}
  OBVIOUS
<1> HIDE DEF p
<1>4. Sound(Request(w))
  BY <1>2, <1>3, RequestParts DEF Sound, p, IsText
<1>5. Sound(Response(w))
  BY <1>2, ResponseParts DEF Sound, p
<1>6. ASSUME NEW code PROVE Sound(MalformedResponse(code))
  BY <1>3, MalformedParts DEF Sound
<1> QED
  BY <1>4, <1>5, <1>6

Sounded ==
  /\ received # Unset => Sound(received)
  /\ result # Unset => Sound(result) /\ result.code \in -(2^15) .. 2^15 - 1

LEMMA SoundedStep == Wired /\ Sounded /\ [Next]_vars => Sounded'
<1> SUFFICES ASSUME Wired, Sounded, [Next]_vars PROVE Sounded'
  OBVIOUS
<1>1. IsText(wire)
  BY DEF Wired
<1>2. CASE Receives
  BY <1>1, <1>2, SoundLemma DEF Receives, Sounded
<1>3. CASE Reads
  <2>1. CASE wire.ended
    <3>1. 2 \in DOMAIN wire.line
      BY <1>1, <1>3, <2>1, SeqLemma DEF Reads, ResponseThrows, IsText
    <3>2. wire.line[2] \in Int
      BY <1>3, <3>1 DEF Reads, Wired, Answering
    <3> QED
      BY <1>1, <1>3, <2>1, <3>2, SoundLemma, ResponseParts, ShortLemma DEF Reads, Sounded
  <2>2. CASE ~wire.ended
    <3>1. PICK code \in Garbage : result' = MalformedResponse(code)
      BY <1>3, <2>2 DEF Reads
    <3>2. result'.code \in -(2^15) .. 2^15 - 1
      BY <3>1, MalformedParts, ExchangeAssumption
    <3> QED
      BY <1>1, <1>3, <3>1, <3>2, SoundLemma DEF Reads, Sounded
  <2> QED
    BY <2>1, <2>2
<1>4. CASE Quiet
  BY <1>4 DEF Quiet, Sounded
<1> QED
  BY <1>2, <1>3, <1>4, StepLemma

LEMMA SoundedCorrect == Spec => []Sounded
<1>1. Init => Sounded
  BY DEF Init, Sounded
<1> QED
  BY <1>1, SoundedStep, WiredCorrect, PTL DEF Spec

(***************************************************************************)
(* Every object a program is given is of its type, whatever was written by *)
(* a program of other make: the names of its headers are in lower case and *)
(* its code is a short.                                                    *)
(***************************************************************************)
THEOREM ExchangeTypeCorrect == Spec => []TypeOK
<1> DEFINE P == phase \in {"setup", "start", "requested", "answered", "unanswered",
                           "done", "failed"}
<1>1. Init => P
  BY DEF Init
<1>2. P /\ [Next]_vars => P'
  BY DEF Next, vars, SetUp, Start, SendRequest, ForeignClient, Reading, RecvPart, RecvOverread,
         parsereq, ParsereqThrows, ForeignServer, ReadResponse, ReadThrows
<1>3. P /\ RouterTypeOK /\ Sounded => TypeOK
  BY DEF TypeOK, Sounded, Sound
<1> HIDE DEF P
<1> QED
  BY <1>1, <1>2, <1>3, RouterTypeCorrect, SoundedCorrect, PTL DEF Spec

(***************************************************************************)
(* Either side gets the whole body that the other has sent or none, for    *)
(* any headers and any body in which nothing else looks like its length,   *)
(* whatever part of it is received and wherever the text is split.         *)
(***************************************************************************)
THEOREM BodyIsWholeOrNone == Spec => []BodyWholeOrNone
<1>1. Init => BodyWholeOrNone
  BY DEF Init, BodyWholeOrNone
<1>2. ASSUME NEW m, IsMessage(m), OneLength(m), NEW w, NEW line, IsText(w), IsWritten(w, line, m),
             wire = Nothing \/ PartOf(wire, w)
      PROVE  Accepted(wire) \in {<<>>, m.body}
  <2>1. Accepted(Nothing) = <<>>
    BY DEF Accepted, Nothing
  <2> QED
    BY <1>2, <2>1, BodyLemma
<1>3. Wired /\ BodyWholeOrNone /\ [Next]_vars => BodyWholeOrNone'
  <2> SUFFICES ASSUME Wired, BodyWholeOrNone, [Next]_vars PROVE BodyWholeOrNone'
    OBVIOUS
  <2>1. ParsedHeaders(wire).body = Accepted(wire)
    BY DEF ParsedHeaders
  <2>2. CASE Receives
    <3>1. ASSUME asked # Unset, OneLength(asked), requestRead # "overread"
          PROVE  received'.body \in {<<>>, asked.body}
      <4>1. IsRequest(asked) /\ (wire = Nothing \/ PartOf(wire, RequestToString(asked)))
        BY <2>2, <3>1 DEF Receives, Wired, Carries
      <4>2. Accepted(wire) \in {<<>>, asked.body}
        BY <1>2, <3>1, <4>1, RequestIsText DEF IsRequest
      <4> QED
        BY <2>1, <2>2, <4>2, RequestParts DEF Receives, Wired, IsText
    <3> QED
      BY <2>2, <3>1 DEF Receives, Wired, BodyWholeOrNone
  <2>3. CASE Reads
    <3>1. ASSUME answer # Unset, OneLength(answer), responseRead # "overread"
          PROVE  result'.body \in {<<>>, answer.body}
      <4>1. IsResponse(answer) /\ (wire = Nothing \/ PartOf(wire, ResponseToString(answer)))
        BY <2>3, <3>1 DEF Reads, Wired, Carries, Answering
      <4>2. Accepted(wire) \in {<<>>, answer.body}
        BY <1>2, <3>1, <4>1, ResponseIsText DEF IsResponse
      <4> QED
        BY <2>1, <2>3, <4>2, ResponseParts, MalformedParts DEF Reads, Wired, IsText
    <3> QED
      BY <2>3, <3>1 DEF Reads, BodyWholeOrNone
  <2>4. CASE Quiet
    BY <2>4 DEF Quiet, BodyWholeOrNone
  <2> QED
    BY <2>2, <2>3, <2>4, StepLemma
<1> QED
  BY <1>1, <1>3, WiredCorrect, PTL DEF Spec

(* A token that the server finds in what it has received is one that it    *)
(* may take for a token in what was written.                               *)
LEMMA TokenLemma ==
  ASSUME NEW t, IsText(t), NEW w, IsText(w), PartOf(w, t),
         "authorization" \in DOMAIN Headers(w.fields)
  PROVE  Headers(w.fields)["authorization"] \in TokensIn(t)
<1> DEFINE fs == t.fields
           gs == w.fields
           b == t.body
           token == Headers(gs)["authorization"]
           Ls(k) == FieldsIn(SubSeq(b, 1, k))
<1>1. PICK i \in 1 .. Len(gs) : IsToken(gs[i]) /\ gs[i].value = token
  <2> DEFINE n == "authorization"
  <2>1. n \in DOMAIN Headers(gs)
    OBVIOUS
  <2> HIDE DEF n
  <2>2. \E i \in 1 .. Len(gs) : /\ Lower[gs[i].name] = n /\ gs[i].colon = ": "
                               /\ Headers(gs)[n] = gs[i].value
    BY <2>1, TextHeaders
  <2> QED
    BY <2>2 DEF IsToken, n
<1>2. IsSeq(fs) /\ Len(fs) \in Nat /\ DOMAIN fs = 1 .. Len(fs) /\ IsSeq(gs) /\ Len(gs) \in Nat
  BY SeqLemma DEF IsText
<1>3. \A f \in ToSet(fs) : IsField(f)
  BY DEF IsText
<1>4. \/ LeftOf(gs, fs)
      \/ \E k \in 0 .. Len(b) : gs = fs \o Ls(k)
  BY DEF PartOf
<1>5. /\ \A f \in ToSet(fs) : IsToken(f) =>
            f.value \in TokensIn(t) /\ \A v \in Cuts[f.value] : v \in TokensIn(t)
      /\ \A k \in 0 .. Len(b) : \A f \in ToSet(Ls(k)) : IsToken(f) => f.value \in TokensIn(t)
  <2> DEFINE Spoken(f) == {f.value} \cup Cuts[f.value]
             written   == {f \in ToSet(fs) : IsToken(f)}
  <2>1. ASSUME NEW f \in ToSet(fs), IsToken(f), NEW v \in Spoken(f) PROVE v \in TokensIn(t)
    <3>1. v \in UNION {Spoken(g) : g \in written}
      <4>1. f \in written
        BY <2>1
      <4> HIDE DEF Spoken, written
      <4> QED
        BY <2>1, <4>1
    <3> QED
      BY <3>1, Zenon DEF TokensIn, TokensInFields
  <2>2. ASSUME NEW k \in 0 .. Len(b), NEW f \in ToSet(Ls(k)), IsToken(f)
        PROVE  f.value \in TokensIn(t)
    <3>1. f.value \in TokensInBody(t)
      BY <2>2 DEF TokensInBody
    <3> QED
      BY <3>1 DEF TokensIn
  <2> QED
    BY <2>1, <2>2
<1> HIDE DEF fs, gs, b, token, Ls
<1>6. CASE LeftOf(gs, fs)
  <2> DEFINE f == fs[i]
             g == gs[i]
  <2>1. i \in 1 .. Len(fs) /\ (g = f \/ IsCut(g, f))
    BY <1>2, <1>6 DEF LeftOf
  <2>2. f \in ToSet(fs) /\ IsField(f)
    BY <1>2, <1>3, <2>1 DEF ToSet
  <2> HIDE DEF f, g
  <2>3. IsToken(f) /\ (token = f.value \/ token \in Cuts[f.value])
    <3>1. IsToken(g) /\ g.value = token
      BY <1>1 DEF g
    <3>2. ASSUME NEW v \in Cuts[f.value], g = CutField(f, v)
          PROVE  g.name = f.name /\ g.colon = f.colon /\ g.value = v
      BY <2>2, <3>2 DEF IsField, CutField
    <3> QED
      BY <2>1, <3>1, <3>2 DEF IsCut, IsToken
  <2>4. token \in TokensIn(t)
    BY <1>5, <2>2, <2>3
  <2> QED
    BY <2>4 DEF token, gs
<1>7. ASSUME NEW k \in 0 .. Len(b), gs = fs \o Ls(k)
      PROVE  token \in TokensIn(t)
  <2>1. IsSeq(Ls(k))
    BY FieldsInLemma DEF Ls
  <2> DEFINE ls == Ls(k)
  <2>2. gs = fs \o ls /\ IsSeq(ls) /\ DOMAIN ls = 1 .. Len(ls)
    BY <1>7, <2>1, SeqLemma
  <2>3. \A f \in ToSet(ls) : IsToken(f) => f.value \in TokensIn(t)
    BY <1>5
  <2> HIDE DEF ls
  <2>4. \/ i \in 1 .. Len(fs) /\ gs[i] = fs[i]
        \/ \E j \in 1 .. Len(ls) : gs[i] = ls[j]
    <3>1. Joins(fs \o ls, fs, ls)
      BY <1>2, <2>2, JoinLemma
    <3>2. Joins(gs, fs, ls)
      BY <2>2, <3>1
    <3> QED
      BY <3>2 DEF Joins
  <2>5. gs[i] \in ToSet(fs) \cup ToSet(ls)
    BY <1>2, <2>2, <2>4 DEF ToSet
  <2> QED
    BY <1>1, <1>5, <2>3, <2>5
<1> QED
  BY <1>4, <1>6, <1>7 DEF token, gs

(***************************************************************************)
(* The function of a route with a token runs only for a client, of any     *)
(* make, that has written that token, or one that has been cut down to it, *)
(* under a spelling of authorization; and that of a route with a method    *)
(* only for one that asked by it: whatever part of the request is received *)
(* and wherever it is split.                                               *)
(***************************************************************************)
THEOREM TokenIsNeeded == Spec => []TokenNeeded
<1>1. Init => TokenNeeded
  BY DEF Init, TokenNeeded
<1>2. RouterTypeOK /\ Wired /\ TokenNeeded /\ [Next]_vars => TokenNeeded'
  <2> SUFFICES ASSUME RouterTypeOK, Wired, TokenNeeded, [Next]_vars PROVE TokenNeeded'
    OBVIOUS
  <2>1. CASE Receives
    <3> SUFFICES ASSUME outcome'.by = "func", requestRead # "overread"
                 PROVE  \E r \in routes :
                          /\ r.func = outcome'.func
                          /\ r.method = "" \/ (1 \in DOMAIN sent.line /\ r.method = sent.line[1])
                          /\ r.auth = NoAuth \/ r.auth \in TokensIn(sent)
      BY <2>1 DEF Receives, TokenNeeded
    <3> DEFINE q == Request(wire)
               ends == {r \in routes : r.uri \in Invalid \/ Match(r, q)}
               r == First(ends)
    <3>1. outcome' = Handle(routes, q)
      BY <2>1 DEF Receives
    <3>2. ends # {} /\ r.uri \notin Invalid /\ outcome' = RouteHandle(r, q)
      BY <3>1 DEF Handle
    <3>3. r \in routes /\ Match(r, q)
      <4>1. \A o \in ends : o \in RouteSet /\ IsKey(o)
        BY RouteKeys DEF RouterTypeOK
      <4>2. r \in ends
        BY <3>2, <4>1, FirstLemma
      <4> QED
        BY <3>2, <4>2
    <3>4. ~Denied(r, q) /\ outcome'.func = r.func
      BY <3>2 DEF RouteHandle
    <3>5. q.method = r.method
      BY <3>3 DEF Match
    <3>6. IsText(wire) /\ IsText(sent) /\ (wire.ended => PartOf(wire, sent))
      BY <2>1, NothingIsText DEF Receives, Wired, Carries
    <3>7. q.method = "" \/ (1 \in DOMAIN sent.line /\ q.method = sent.line[1])
      <4>1. q.method = Word(wire, 1)
        BY RequestParts
      <4> QED
        BY <3>6, <4>1 DEF Word, PartOf
    <3>8. ASSUME r.auth # NoAuth PROVE r.auth \in TokensIn(sent)
      <4>1. "authorization" \in DOMAIN q.headers /\ q.headers["authorization"] = r.auth
        BY <3>4, <3>8 DEF Denied
      <4>2. wire.ended /\ q.headers = Headers(wire.fields)
        <5>1. ParsedHeaders(wire).headers = Headers(wire.fields)
          BY DEF ParsedHeaders
        <5>2. DOMAIN <<>> = {}
          OBVIOUS
        <5> HIDE DEF q, r
        <5>3. ~wire.ended => q.headers = <<>>
          BY RequestParts DEF q
        <5>4. wire.ended => q.headers = Headers(wire.fields)
          BY <5>1, RequestParts DEF q
        <5> QED
          BY <3>6, <4>1, <5>2, <5>3, <5>4 DEF IsText
      <4> HIDE DEF q, r
      <4> QED
        BY <3>6, <4>1, <4>2, TokenLemma
    <3> HIDE DEF r, q
    <3> QED
      BY <3>3, <3>4, <3>5, <3>7, <3>8
  <2>2. CASE Reads
    BY <2>2 DEF Reads, TokenNeeded
  <2>3. CASE Quiet
    BY <2>3 DEF Quiet, TokenNeeded
  <2> QED
    BY <2>1, <2>2, <2>3, StepLemma
<1> QED
  BY <1>1, <1>2, RouterTypeCorrect, WiredCorrect, PTL DEF Spec
================================================================================
