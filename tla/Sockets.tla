------------------------------- MODULE Sockets --------------------------------
(***************************************************************************)
(* The two descriptors that a NiceHTTP object keeps in server_socket and   *)
(* client_socket (lib/nicehttp.h, lib/nicehttp.cpp): start, request and    *)
(* the destructor open and close them, in a process whose other parts open *)
(* and close descriptors too.  The system gives a new socket the lowest    *)
(* free number, so a number that was closed soon belongs to somebody else. *)
(*                                                                         *)
(* At most one request of an object runs at a time, and the object is not  *)
(* destroyed during a call.  The connections that start accepts are the    *)
(* business of module Server.                                              *)
(***************************************************************************)
EXTENDS Integers, FiniteSets, FiniteSetsExt

CONSTANTS
  Objects,
  Clients,    \* the objects that make requests
  MaxFd       \* bound on the descriptors

ASSUME SocketsAssumption ==
  /\ Clients \subseteq Objects
  /\ MaxFd \in Nat

Fds   == 3 .. MaxFd
Uses  == {"server", "client"}
Free  == <<"free", "free">>
Other == <<"other", "other">>  \* the rest of the process

VARIABLES
  owner,          \* which object, and which of its sockets, a descriptor is
  server_socket, client_socket,
  starting,       \* where a call of start is
  asking,         \* where a call of request is
  cleaning,       \* where a call of cleanup is
  life,
  strays,         \* the objects that closed what is not theirs (history)
  unclosed,       \* the objects of which a call left its socket open (history)
  cutoff          \* the objects cleaned up during their loop (history)

vars ==
  <<owner, server_socket, client_socket, starting, asking, cleaning, life,
    strays, unclosed, cutoff>>

Init ==
  /\ owner = [f \in Fds |-> Free]
  /\ server_socket = [o \in Objects |-> -1]
  /\ client_socket = [o \in Objects |-> -1]
  /\ starting = [o \in Objects |-> "new"]
  /\ asking = [o \in Objects |-> "idle"]
  /\ cleaning = [o \in Objects |-> "idle"]
  /\ life = [o \in Objects |-> "alive"]
  /\ strays = {} /\ unclosed = {} /\ cutoff = {}

(* socket(2): the lowest free descriptor, or -1.                           *)
NewFd ==
  LET free == {f \in Fds : owner[f] = Free} IN IF free = {} THEN -1 ELSE Min(free)

Opened(f, whose) == [owner EXCEPT ![f] = whose]

(* close(2) by o of what it takes for its socket: EBADF when it is free.   *)
CloseAs(o, f, use) ==
  /\ owner' = [owner EXCEPT ![f] = Free]
  /\ strays' = IF owner[f] = Free \/ owner[f] = <<o, use>> THEN strays ELSE strays \cup {o}

--------------------------------------------------------------------------------
(* start.  What an earlier start has left in server_socket is overwritten. *)
ServerSocket(o) ==
  /\ life[o] = "alive" /\ asking[o] = "idle"
  /\ starting[o] \in {"new", "returned"}
  /\ cleaning[o] = "idle"
  /\ unclosed' = IF server_socket[o] = -1 THEN unclosed ELSE unclosed \cup {o}
  /\ server_socket' = [server_socket EXCEPT ![o] = NewFd]
  /\ IF NewFd = -1
     THEN starting' = [starting EXCEPT ![o] = "returned"] /\ UNCHANGED owner
     ELSE /\ starting' = [starting EXCEPT ![o] = "setup"]
          /\ owner' = Opened(NewFd, <<o, "server">>)
  /\ UNCHANGED <<client_socket, asking, cleaning, life, strays, cutoff>>

(* bind or listen fails: cleanup, and start returns.                       *)
SetUpFails(o) ==
  /\ starting[o] = "setup"
  /\ starting' = [starting EXCEPT ![o] = "returned"]
  /\ cleaning' = [cleaning EXCEPT ![o] = "server"]
  /\ UNCHANGED <<owner, server_socket, client_socket, asking, life, strays, unclosed, cutoff>>

Listen(o) ==
  /\ starting[o] = "setup"
  /\ starting' = [starting EXCEPT ![o] = "loop"]
  /\ UNCHANGED <<owner, server_socket, client_socket, asking, cleaning, life, strays, unclosed, cutoff>>

(* poll times out or fails: start returns and leaves its socket open.      *)
Return(o) ==
  /\ starting[o] = "loop"
  /\ starting' = [starting EXCEPT ![o] = "returned"]
  /\ UNCHANGED <<owner, server_socket, client_socket, asking, cleaning, life, strays, unclosed, cutoff>>

--------------------------------------------------------------------------------
(* request, client_setup: a socket, or "Cannot connect to server".         *)
ClientSocket(o) ==
  /\ o \in Clients
  /\ life[o] = "alive" /\ asking[o] = "idle" /\ cleaning[o] = "idle"
  /\ starting[o] # "setup"
  /\ client_socket' = [client_socket EXCEPT ![o] = NewFd]
  /\ IF NewFd = -1
     THEN UNCHANGED <<owner, asking>>
     ELSE /\ asking' = [asking EXCEPT ![o] = "connecting"]
          /\ owner' = Opened(NewFd, <<o, "client">>)
  /\ UNCHANGED <<server_socket, starting, cleaning, life, strays, unclosed, cutoff>>

(* The name does not resolve: request throws.                              *)
Unresolved(o) ==
  /\ asking[o] = "connecting"
  /\ asking' = [asking EXCEPT ![o] = "idle"]
  /\ unclosed' = unclosed \cup {o}
  /\ UNCHANGED <<owner, server_socket, client_socket, starting, cleaning, life, strays, cutoff>>

(* Mutant: connect fails, and nothing is cleaned up. *)
ConnectFailsOnly(o) ==
  /\ asking[o] = "connecting"
  /\ asking' = [asking EXCEPT ![o] = "idle"]
  /\ UNCHANGED <<owner, server_socket, client_socket, starting, cleaning, life, strays, unclosed, cutoff>>

(* connect fails: cleanup, of both sockets, and request throws.            *)
ConnectFails(o) ==
  /\ asking[o] = "connecting"
  /\ asking' = [asking EXCEPT ![o] = "idle"]
  /\ cleaning' = [cleaning EXCEPT ![o] = "server"]
  /\ cutoff' = IF starting[o] = "loop" THEN cutoff \cup {o} ELSE cutoff
  /\ UNCHANGED <<owner, server_socket, client_socket, starting, life, strays, unclosed>>

(* connect, send, and recv_http returns with a response on the connection. *)
Answered(o) ==
  /\ asking[o] = "connecting"
  /\ asking' = [asking EXCEPT ![o] = "answered"]
  /\ UNCHANGED <<owner, server_socket, client_socket, starting, cleaning, life, strays, unclosed, cutoff>>

(* The constructor of Response throws, and so does request.                *)
Unparsable(o) ==
  /\ asking[o] = "answered"
  /\ asking' = [asking EXCEPT ![o] = "idle"]
  /\ unclosed' = unclosed \cup {o}
  /\ UNCHANGED <<owner, server_socket, client_socket, starting, cleaning, life, strays, cutoff>>

(* Mutant: request returns without the close. *)
CloseClientForgotten(o) ==
  /\ asking[o] = "answered"
  /\ asking' = [asking EXCEPT ![o] = "idle"]
  /\ UNCHANGED <<owner, server_socket, client_socket, starting, cleaning, life, strays, unclosed, cutoff>>

(* close(this->client_socket), which keeps the number.                     *)
CloseClient(o) ==
  /\ asking[o] = "answered"
  /\ asking' = [asking EXCEPT ![o] = "idle"]
  /\ CloseAs(o, client_socket[o], "client")
  /\ UNCHANGED <<server_socket, client_socket, starting, cleaning, life, unclosed, cutoff>>

--------------------------------------------------------------------------------
Destroy(o) ==
  /\ life[o] = "alive"
  /\ starting[o] \in {"new", "returned"} /\ asking[o] = "idle" /\ cleaning[o] = "idle"
  /\ life' = [life EXCEPT ![o] = "dying"]
  /\ cleaning' = [cleaning EXCEPT ![o] = "server"]
  /\ UNCHANGED <<owner, server_socket, client_socket, starting, asking, strays, unclosed, cutoff>>

(* Mutant: the number stays. *)
CleanServerKept(o) ==
  /\ cleaning[o] = "server"
  /\ cleaning' = [cleaning EXCEPT ![o] = "client"]
  /\ IF server_socket[o] # -1 THEN CloseAs(o, server_socket[o], "server")
     ELSE UNCHANGED <<owner, strays>>
  /\ UNCHANGED <<server_socket, client_socket, starting, asking, life, unclosed, cutoff>>

CleanServer(o) ==
  /\ cleaning[o] = "server"
  /\ cleaning' = [cleaning EXCEPT ![o] = "client"]
  /\ server_socket' = [server_socket EXCEPT ![o] = -1]
  /\ IF server_socket[o] # -1 THEN CloseAs(o, server_socket[o], "server")
     ELSE UNCHANGED <<owner, strays>>
  /\ UNCHANGED <<client_socket, starting, asking, life, unclosed, cutoff>>

(* Mutant: a socket that is open is not forgotten. *)
CleanClientKept(o) ==
  /\ cleaning[o] = "client"
  /\ cleaning' = [cleaning EXCEPT ![o] = "idle"]
  /\ IF client_socket[o] # -1 THEN CloseAs(o, client_socket[o], "client")
     ELSE UNCHANGED <<owner, strays>>
  /\ life' = [life EXCEPT ![o] = IF @ = "dying" THEN "dead" ELSE @]
  /\ UNCHANGED <<server_socket, client_socket, starting, asking, unclosed, cutoff>>

CleanClient(o) ==
  /\ cleaning[o] = "client"
  /\ cleaning' = [cleaning EXCEPT ![o] = "idle"]
  /\ client_socket' = [client_socket EXCEPT ![o] = -1]
  /\ IF client_socket[o] # -1 THEN CloseAs(o, client_socket[o], "client")
     ELSE UNCHANGED <<owner, strays>>
  /\ life' = [life EXCEPT ![o] = IF @ = "dying" THEN "dead" ELSE @]
  /\ UNCHANGED <<server_socket, starting, asking, unclosed, cutoff>>

--------------------------------------------------------------------------------
(* The rest of the process opens descriptors and closes its own.           *)
Elsewhere ==
  /\ \/ NewFd # -1 /\ owner' = Opened(NewFd, Other)
     \/ \E f \in Fds : owner[f] = Other /\ owner' = Opened(f, Free)
  /\ UNCHANGED <<server_socket, client_socket, starting, asking, cleaning, life, strays, unclosed, cutoff>>

start(o)   == ServerSocket(o) \/ SetUpFails(o) \/ Listen(o) \/ Return(o)
request(o) == \/ ClientSocket(o) \/ Unresolved(o) \/ ConnectFails(o)
              \/ Answered(o) \/ Unparsable(o) \/ CloseClient(o)
cleanup(o) == CleanServer(o) \/ CleanClient(o)

Next == Elsewhere \/ \E o \in Objects : start(o) \/ request(o) \/ Destroy(o) \/ cleanup(o)

Spec == Init /\ [][Next]_vars

--------------------------------------------------------------------------------
TypeOK ==
  /\ owner \in [Fds -> {Free, Other} \cup Objects \X Uses]
  /\ server_socket \in [Objects -> Fds \cup {-1}]
  /\ client_socket \in [Objects -> Fds \cup {-1}]
  /\ starting \in [Objects -> {"new", "setup", "loop", "returned"}]
  /\ asking \in [Objects -> {"idle", "connecting", "answered"}]
  /\ cleaning \in [Objects -> {"idle", "server", "client"}]
  /\ life \in [Objects -> {"alive", "dying", "dead"}]
  /\ strays \subseteq Objects /\ unclosed \subseteq Objects /\ cutoff \subseteq Clients
  /\ \A o \in Objects : life[o] = "dead" => server_socket[o] = -1 /\ client_socket[o] = -1

Of(o) == {f \in Fds : owner[f] \in {o} \X Uses}

(***************************************************************************)
(* cleanup sets what it closes to -1, so whatever fails and whoever gets   *)
(* the numbers in between, closing descriptors of others begins with an    *)
(* object that made a request.  (From there it spreads: an object whose    *)
(* listening socket was closed by another closes, in its turn, a number    *)
(* that is no longer its own.)                                             *)
(***************************************************************************)
BeginsWithRequest == strays # {} => strays \cap Clients # {}

Listening(o) == server_socket[o] # -1 /\ owner[server_socket[o]] = <<o, "server">>

(***************************************************************************)
(* During the loop of start the listening socket of the object stays open, *)
(* and its number stays its own: unless an object that makes requests has  *)
(* closed a number of somebody else, or a request of the object itself     *)
(* failed to connect meanwhile and cleaned up both sockets.                *)
(***************************************************************************)
KeepsListening ==
  strays \cap Clients = {} =>
    \A o \in Objects \ cutoff : starting[o] = "loop" => Listening(o)

(***************************************************************************)
(* "//Loop forever waiting for new clients" (lib/nicehttp.cpp:145): an     *)
(* object in that loop listens, unless a request of its own cleaned up.    *)
(***************************************************************************)
WaitsForClients == \A o \in Objects \ cutoff : starting[o] = "loop" => Listening(o)

(***************************************************************************)
(* As long as names resolve, responses parse and start finds no socket     *)
(* that an earlier start has left, an object has two descriptors at most,  *)
(* however many calls it has served, failed connections and set-ups among  *)
(* them, and those it has are the ones in its two members.                 *)
(***************************************************************************)
HoldsWhatItNames ==
  \A o \in Objects \ unclosed : Of(o) \subseteq {server_socket[o], client_socket[o]}

(* ... and the destructor leaves none of them open.                        *)
NothingLeft == \A o \in Objects \ unclosed : life[o] = "dead" => Of(o) = {}

================================================================================
