# nicehttp in TLA+

This directory models [nicehttp](../src), a small HTTP client and server library in C++23, in TLA+. TLC checks
the models on small instances; TLAPS proves the safety properties of the thread pool and its constructor, the
server, the sockets, `recv_http`, the router and the messages for every value of their constants, and that the pool
implements its abstract specification. `single_include/nicehttp.h` is the concatenation of the files of `lib/`; line
numbers below are those of `lib/`.

Run everything from this directory:

    tlc -workers 2 -config pool_safety.cfg MCThreadPool     # any run: the table below names module and cfg
    tlapm ThreadSafeQueueProofs.tla
    tlapm ThreadPoolProofs.tla
    tlapm ThreadPoolPromiseProofs.tla
    tlapm ThreadPoolLifeProofs.tla
    tlapm ServerProofs.tla
    tlapm SocketsProofs.tla
    tlapm RecvHttpProofs.tla
    tlapm ExchangeProofs.tla

## 1. The system

| Component | State | Operations | Hard behaviour |
|---|---|---|---|
| `dp::thread_safe_queue` (`thread_safe_queue.h`) | a `std::deque` under a mutex | `push_back`, `pop_front`, `steal`, `rotate_to_front`, `copy_front_and_rotate_to_back` | owner and thieves take from opposite ends |
| `dp::thread_pool` (`thread_pool.h`) | a deque and a `binary_semaphore` per thread, the rotation `priority_queue_`, the atomic `pending_tasks_`, a stop token per thread | `enqueue`, `enqueue_detach`, the loop of the workers, constructor and destructor | stealing, sleeping, the window between reading the counter and sleeping, stopping; threads that cannot be created, pushes that throw |
| server loop (`NiceHTTP::start`) | `server_socket`, the local `client_socket` | poll, accept, enqueue a task; leaves at a timeout or a signal | every task captures a *reference* to `client_socket` |
| request task (`NiceHTTP::parsereq`) | none of its own: the captured reference | receive, parse, route, send, close | runs on any of 10 threads while the loop goes on; silent clients, resets, signals |
| `NiceHTTP::recv_http` | a block buffer, `head`, `body` | read blocks, split at the first empty line | TCP cuts the bytes anywhere; the end is guessed from the last byte |
| sockets of an object (`server_setup`, `client_setup`, `request`, `cleanup`, `~NiceHTTP`) | `server_socket`, `client_socket` | open, close | failures half-way; numbers that have been given to others |
| router (`router.h`, `router.cpp`) | a `std::set<Route>` | `add`, `del`, `handle` | order of the set, duplicates, patterns that are refused, authentication |
| messages (`http.h`, `http.cpp`) | fields of `Request` and `Response` | `toString`, the parsing constructors, `parseHeaders` | what changes or is lost between two programs |
| `main.cpp` | - | one call of each entry point | - |

How they interact: a program fills the router of a `NiceHTTP` object and calls `start`, which makes a pool of ten
threads on its stack and enqueues one detached task per accepted connection. A task calls `recv_http`, builds a
`Request`, asks the router for a `Response`, writes it with `toString` and closes the connection. `request` is
the client: it opens a socket, writes a `Request`, and uses the same `recv_http` to read the `Response`. Tasks
and loop share `client_socket`, the router and the descriptor table of the process; the pool's threads share the
pool's members. When `start` leaves its loop, the destructor of the pool joins the threads.

What makes each component correct, and where it is stated:

* pool: no task is lost, in two places, or run twice; the counter is exact; no wake-up is lost; the rotation keeps
  every worker; futures tell the truth; every task runs; the destructor returns (`ThreadPool`); a constructor that
  gets fewer threads than it asks for leaves a pool of those it got (`ThreadPoolLife`);
* server: no task outlives `start`; each client gets its own response, and once; connections are closed; `start` can
  be left (`Server`);
* `recv_http`: nothing is invented, dropped or reordered; head and body are split where they should be; a message
  without NULs is read to its end (`RecvHttp`);
* sockets: an object closes what is its own, keeps what it needs, and loses track of nothing (`Sockets`);
* router: the right route, unaffected by other routes (`Router`); messages: what arrives is what was sent, a body
  whole or not at all, and a token is needed whatever part of a request arrives (`Exchange`).

## 2. The modules

    ThreadSafeQueue  operators on a sequence, one per member function (constant-level)
       |
       |            ThreadPoolLife   the constructor, then ThreadPool with the threads it got
       |               |
    ThreadPool --------+--implements----> TaskPool  (abstract: accept, begin, end, close)
                                             |
                                          Server    start + parsereq, over TaskPool
                                             :
    RecvHttp   one call of recv_http, which Server takes block by block
    Sockets    the descriptors of NiceHTTP objects
    Routing      operators on the route table (constant-level)
       |
    Router       add and del over time      HttpMessage  constructors, toString (constant-level)
       |                                       |
    Exchange     a router is set up; request -> toString -> constructor -> handle -> toString -> constructor

The proofs stand beside the modules: `ThreadSafeQueueProofs`, `ThreadPoolProofs` and on top of it
`ThreadPoolPromiseProofs`, `ThreadPoolLifeProofs` for the constructor and the pool it leaves, `ServerProofs`,
`SocketsProofs`, `RecvHttpProofs`, and `ExchangeProofs` for the router and the messages.

An `MC...` module gives an instance its constants. Definitions marked *Mutant* are variants with a plausible
bug. They are used by no behaviour; each serves to see that a property notices the bug when the variant takes
the place of the definition that follows it.

### ThreadPool (lib/thread_pool.h)

| TLA+ | code |
|---|---|
| `tasks`, `signal` | `tasks_[i].tasks`, `tasks_[i].signal` |
| `rotation`, `pending` | `priority_queue_`, `pending_tasks_` |
| `wpc`, `inHand`, `offset` | a worker's place in its loop (45-77), the task it has popped, `j` of the stealing loop |
| `cpc`, `carried`, `target` | a caller's place in `enqueue_task` (199-210), the task, `i` |
| `dpc`, `joining`, `stopRequested` | the destructor (93-100), its loop variable, the stop tokens |
| `submitted`, `begun`, `ended`, `future`, `failed` | history: the calls, the executions, what the future of `enqueue` holds, the tasks whose call threw |

One action is one access to shared memory: `ChooseWorker` (`copy_front_and_rotate_to_back`), `AddPending`
(`fetch_add`), `PushTask` or `PushFails` (`push_back` throws, and the count stays one too high), `ReleaseSignal`;
for a worker `Acquire`, `PopOwn`, `Steal` (one victim a step),
`BeginTask` (`fetch_sub` and the call, 52-54 and 64-66), `EndTask` (the function returns or throws, both caught),
`LoadPending`, `Rotate`, `CheckStop`; for the destructor `RequestStop`, `SignalStop`, `Join`, `FreeMembers`.
The queue operations take a mutex and are atomic. Atomics are taken as sequentially consistent; the code uses the
default or stronger orders than the model needs, except for the explicit acquire and release orders on
`pending_tasks_`, whose effects across threads are also ordered by the mutexes and semaphores. Releasing a
`binary_semaphore` at its maximum is undefined in the standard; `Released` may do either of the things that
libraries do (count on, or store 1), at each release anew. Calls begin only while the pool is alive: calling a member of an object in destruction is
outside its contract. Calls that have begun finish.

`TaskPool` is the promise to a user: a task begins at most once, at most `size` are in execution, nothing begins
after the pool is closed. It does *not* promise an order, nor that tasks begin before the pool closes. `Server`
uses this abstract pool instead of the detailed one; the run `pool_liveness` checks that the detailed one
implements it (`RefinesTaskPool`), and `PoolKeepsPromise` proves it.

### ThreadPoolLife (lib/thread_pool.h 36-91)

The constructor asks for `number_of_threads` threads. Each turn of its loop enters the number of the next thread in
the rotation (`PushId`) and creates it (`ThreadCreated`), or takes one deque and one entry back (`CreationFails`).
A thread runs from its creation on, while `tasks_` still loses elements. Afterwards the actions are those of
`ThreadPool` with as many workers as there are threads, down to none: `P(k)` is the pool of `k` threads, and
`Here` says something of the pool of as many as there are. (`ThreadSafeQueue` defines its few operators itself
and does not take them from `SequencesExt`, because tlapm 1.4.5 cannot have `Bags`, which that module extends, in an
instance with a parameter.)

### Server (lib/nicehttp.cpp 139-177, 67-87)

`client_socket` is the local variable that all tasks share by reference, `fd` the descriptor table (lowest free
number first), `backlog` the kernel's queue, `peer` and `unread` the clients' ends. A request is one block of
`recv_http`, or two for a client in `Long`; `got` is what a task has read. A task goes through `Begin`, then for
each block `EnterRecv` (reads the reference) and `LeaveRecv`, and then `Send` and `Close` (each reads the reference
again) or `Throw`. A `recv` in the kernel keeps the connection it began with. `recv` on -1 or a closed descriptor
returns -1, which counts as data: the request ends there. So it does when a signal interrupts `recv` (`Signals`).
`Send` to a connection that was reset may kill the process (SIGPIPE is not masked). The clients and the kernel are
external. A client leaves after the server has closed; one in `Impatient` leaves or resets at any time; one in
`Silent` sends nothing, so that the task that waits for it, one of `Held`, keeps its thread.

`client_socket` (146) is declared after `pool` (139). When `start` leaves its loop, the lifetime of the variable ends
first, and `~thread_pool` then waits for tasks that go on reading it: undefined, whatever the build does with the
variable's place. `Reuse` puts any descriptor, or none, there, at any time until `start` returns, when `Reuses` says
that the build does that. The tasks also capture the object (`this`), which its owner may destroy when `start` has
returned: `NoTaskOutlivesStart` shows that no task uses it by then.

### RecvHttp (lib/nicehttp.cpp 35-65)

Messages are sequences of bytes of six kinds. `Arrive` delivers a prefix (the whole message when `segmented` is
false), `RecvData` is one turn of the loop, `RecvEnd` the end of the stream or an error, `Interrupt` a signal
during `recv`, which ends the loop too. `Views` is what `std::string_view b(buff)` can be: up to the first NUL, and,
when a full block has none and `overread` is true, on behind the buffer to the next NUL in memory. What lies there is
any sequence of bytes of `Junk`, of any length.

### Sockets (lib/nicehttp.cpp 6-29, 89-146, 179-260)

`owner` says for each descriptor whose socket it is; `server_socket` and `client_socket` are the members.
A system call or a failure is an action each: `ServerSocket`, `SetUpFails`, `Listen`, `Return`; `ClientSocket`, `Unresolved`,
`ConnectFails`, `Answered`, `Unparsable`, `CloseClient`; `Destroy`; the two halves of `cleanup`. `Elsewhere` is
the rest of the process, which closes only its own. Three history variables record what the properties must name:
`strays`, who closed what was not theirs; `unclosed`, of which object a call left a socket open (a name that does
not resolve, a response that does not parse, a second `start`); `cutoff`, which object's own failed request ran
`cleanup` on the socket it was listening on.

### Routing, Router, HttpMessage, Exchange

`Routing` treats the `std::set` as a set with the order of `operator<` (method, then pattern); what a pattern
matches, and which patterns `std::regex` refuses, are constants. `Router` is the state of the class, with `add`
and `del`, and what is promised of them; the phase `"setup"` of `Exchange` makes the calls.

`HttpMessage` abstracts texts to words. A text on the wire is a record: whether there is an end of line at all
(`ended`), the words of the first line, the fields (the lines after it that have a colon, each with what stands
between name and value), and the body. It keeps what the conversions do: header maps written in the order of
`std::map` (`Fields`), then Content-Length and Content-Type as fields like any others (`ContentFields`); what the
constructors for programs fill in (`NewRequest`, `NewResponse`); lower-cased names, the first of colliding names kept,
fields without `": "` skipped, a field named content-length not kept but read as the length (the last one counts),
`application/json` turned into a flag (`Headers`, `Length`, `ParsedHeaders`); body and flag not written when
`content_length` is 0, the body dropped when it does not fit; words after the third dropped, `short` codes, an
uninitialized code. `IsRequest`, `IsResponse` and `IsText` say what the objects and the texts of an instance consist of.

`Received` is what `recv_http` can make of a text, as `RecvHttp` describes it, when a NUL follows the buffer:

* nothing, when the text ends in the first line;
* a part of the header (`Begun`): whole fields, or a last field whose value is cut. `parseHeaders` drops the last
  character of every line, so that a longer value can be cut down to a shorter one that means something: `Cuts` says
  what is left of each value, and it may be a token;
* all of the header and a part of the body, or all of it (`SplitAt` with `k = 0`);
* when the empty line lies across two blocks, or ends one: bytes of the body appended to the header, all that came or
  those up to an empty line of the body's own (`EmptyLines`). What of them looks like a header (`LinesIn`) becomes one.

`Exchange` is one exchange end to end, with foreign clients and servers; `sent` is the request as its client wrote it.
Each of the two texts is read exactly, or misread (`RecvPart`: one of `Received`), or overread (`RecvOverread`: any
text of `Overreads`). A text may be misread without a fault on the wire; `SplitExact` of `RecvHttp` says which messages are split right.

## 3. The runs

Passing runs:

| Run | Instance | What it shows |
|---|---|---|
| `pool_safety` | 2 workers, 4 tasks, 2 callers, any push may throw, destructor at any time | `TypeOK`, `OnePlace`, `Accounted`, `PendingExact`, `NoLostWakeup`, `RotationComplete`, `FutureHonest` |
| `pool_liveness` | 2 workers, 3 tasks, 1 caller, any push may throw, fair threads | `RefinesTaskPool`, `EveryTaskRuns`, `DestructorReturns`, `FuturesResolve`, `PoolComesToRest` |
| `pool_ctor` | 3 threads asked for, any creation fails; then 2 tasks, 1 caller, the destructor | `EarlyWorkersSleep`, `BuiltAsPool`, `RunsOrRefuses` |
| `server_alone` | 5 clients one at a time, 2 of them silent, 1 with a request of two blocks, 2 threads, fair | `OwnResponse`, `Served`, `StartReturns` |
| `server_crowd` | 3 clients at once, two of which may leave or reset, a request of two blocks, signals, handlers that throw; anything in the place of `client_socket` once the loop is left | `TypeOK`, `NoTaskOutlivesStart`, `AnsweredOnce` |
| `recv` | messages with and without a NUL, blocks of 6 bytes, at once or in any segments, signals, three sequences of bytes after the buffer | `TypeOK`, `NothingInvented`, `SplitExact`, `ReadToEnd` |
| `exchange` | 9 routes, 4 calls, 16 probes; then 3 tables, 188 requests, 24 answers, foreign texts, each text read exactly, misread or overread; 1.6 million states | `TypeOK`, `FirstAddedWins`, `FindsRightRoute`, `OnlyMatchingAffected`, `RequestArrives`, `ResponseArrives`, `StatusArrives`, `TokenNeeded`, `BodyWholeOrNone` |
| `sockets` | one object that serves and asks, one that serves, every failure, 3 descriptors | `TypeOK`, `BeginsWithRequest`, `KeepsListening`, `HoldsWhatItNames`, `NothingLeft` |

Runs that show where the code departs from what its comments say:

| Run | Comment | What happens |
|---|---|---|
| `pool_begins` | "task execution begins once the task is enqueued" (thread_pool.h:108) | only the owner of the deque is woken; while it is inside another task, a free worker sleeps on |
| `server_crossed` | "Send response to client" (nicehttp.cpp:79) | with two clients, the captured reference sends the response to the later one, and closes the later one's connection |
| `recv_pieces` | "head , body of request are the return values" (nicehttp.cpp:36-38) | a short receive ends the loop |
| `sockets_stale` | "Loop forever waiting for new clients" (nicehttp.cpp:145) | `request` keeps a closed number, the destructor closes it again: by then another object's listening socket |

Several properties hold with exceptions, which they name instead of leaving the case out of the instance:

* `Served` allows `start` to leave its loop, as it does after a minute without a client and when a signal
  interrupts `poll` (nicehttp.cpp:162, 171).
* `OwnResponse` and `Served` are about clients that come one at a time (`MaxOpen = 1`), `Served` about handlers that
  do not throw besides. `server_crossed` shows what happens to the responses of others. Their connections need not be
  closed, although "Connections are closed after each response." (nicehttp.h:57): when `start` accepts a client
  between the `send` (80) and the `close` (85) of a task, the new connection is closed, and the answered one stays
  open for ever; so does one whose handler throws (`Throw`).
* `OwnResponse`, `Served` and `StartReturns` are about builds that leave the place of `client_socket` alone until
  `start` has returned (`Reuses` is false): what tasks read there after the loop is undefined (139, 146).
  `NoTaskOutlivesStart` and `AnsweredOnce` hold of any build.
* `Served` and `StartReturns` name the tasks that wait for a silent client (`Held`): `recv` has no timeout, so such
  a client holds a thread as long as it likes, and `~thread_pool` waits for that thread (nicehttp.cpp:44).
* `DestructorReturns` and `PoolComesToRest` leave out a pool in which a push has thrown: `pending_tasks_` was raised
  before (thread_pool.h:202, 208), so that the workers never see 0 again, and never look at the stop token. The
  other tasks still run, and no wake-up is lost: `EveryTaskRuns` and `NoLostWakeup` have no such exception.
* `FutureHonest` allows a broken promise: a task enqueued between a worker's load of `pending_tasks_` and its stop
  check is destroyed unexecuted (thread_pool.h:72-76).
* `FindsRightRoute` and `OnlyMatchingAffected` ask for routes that all compile: `handle` compiles the pattern of
  each route before it looks at the method, and throws at one that `std::regex` refuses, for any request that
  comes that far (router.cpp:15).
* `RequestArrives` and `ResponseArrives` are about messages that are read exactly and that are `WellFormed`: a true
  `content_length`, no JSON flag without a body, no two names that differ only in case, no header of a program's own
  named content-length (which the other side takes for the length, http.cpp:14) or that says `application/json`
  (which becomes the flag, 17). Of a misread request method, URI and proto still arrive, or nothing does.
* `StatusArrives`, `TokenNeeded` and `BodyWholeOrNone` hold of misread texts too. They leave out overread ones: what
  lies behind the buffer may be a token, a status or a body (nicehttp.cpp:46).
* `TokenNeeded` is about the header `authorization`, in any spelling, where the comment at router.h:33 speaks of
  "Authentication". It lets pass what the code lets pass: a longer value that was cut down to the token, and a line
  of the body that says `authorization: <token>` and was taken for header.
* `BodyWholeOrNone` asks for `OneLength`: a sender whose `content_length` is true, and no header and no line of the
  body that could be taken for another length. With another one, or with 0, a part of a body passes for a whole one.
* `KeepsListening` leaves out objects in `cutoff`: when `connect` fails, `client_setup` calls `cleanup`, which
  closes the listening socket of the same object (nicehttp.cpp:227).
* `HoldsWhatItNames` and `NothingLeft` leave out objects in `unclosed`: `client_setup` returns without a close when
  the name does not resolve (208), a response with fewer than three words in its first line throws past the close
  (257), and a second `start` overwrites a number that is still open (97).
* `SplitExact` leaves out what `Splits` names, and `NothingInvented` what comes after a NUL or from memory beyond
  the buffer (46).
* `ReadToEnd` leaves out messages that fill their last block, after which `recv_http` waits for another one, and
  those with a NUL at the end of a block (`NulEndsBlock`), where it stops: "not true for binary data" (59).

The bounds, and why they are enough:

* Pool: with two workers each is owner and thief, with two callers calls overlap. With four tasks one can be left in a
  deque when the workers stop, which does not happen with three workers and three tasks. What does not depend on the
  numbers is proved (section 4). `Callers` is 1 in the temporal runs to keep them small: interleavings of callers are
  in `pool_safety`.
* Constructor: with three threads asked for, a creation can fail before, between and after ones that succeed, and
  the pool ends with 0 to 3 workers.
* Server: two descriptors and three clients make the reuse of a number, exhaustion (`FreeFds = {}`) and a stale
  reference happen; two threads overlap two tasks, and two silent clients hold both. Two blocks are what a
  reference needs to move in the middle of a request. `MaxOpen = 1` in `server_alone` is the condition under which
  the server serves properly, and not a bound for the size; a silent client that holds a thread does not count.
  In `server_crowd` the router throws for one client and for an empty request, as one with a refused pattern behind
  its routes does; with empty requests answered too, the run is larger than its worth.
* RecvHttp: heads of up to 8, bodies of up to 9 bytes and blocks of 6 put the terminator and the end at every
  offset, in up to four blocks. `Junk` is one byte, two, and an empty line and a byte; the theorems are for any
  `Junk`. `Splits` names the exceptions: segments, a terminator across two blocks, a body that begins on a block
  boundary, a NUL, or bytes after the buffer.
* Exchange: four calls (`MaxCalls`) are what add, add again, delete, add needs. An exchange starts from three of
  the tables (`RouteTables`), reached by two calls (`SetUpCalls`): which table it is matters to `Handle` only, and
  the three have a protected route beside an open one, above one, and behind a refused pattern. Two spellings of
  each name; four true lengths and three false ones, 12 among them, of which `Cuts` leaves 1; "tokens", of which it
  leaves the token; bodies with a line that is a token or a length, and one with an empty line of its own. `Overreads`
  is one text for each side that looks like a protected request and like another answer.
* Sockets: three descriptors are the two of one object and one of the other, so that numbers run out, and any
  that is freed may be taken by any other; `MaxFd` is the limit of the process. With one more descriptor the
  invariants hold as well (8 million states, a minute and a half).

Deadlock is not checked (`CHECK_DEADLOCK FALSE`): a pool at rest, a server that has returned or was killed, a
finished receive and a finished exchange are ends that the programs have.

Fairness. `ThreadPool`: weak fairness for each worker, each caller inside a call, and the destructor once begun:
the operating system runs every runnable thread; mutexes are held for a bounded time. None for calling the pool
or destroying it. `ThreadPoolLife`: the same, and for the constructor, which runs in a thread of the program; none
for a creation to succeed. `Server`: weak fairness for the loop and for each task that has begun. That a task
begins is `ThreadPool!EveryTaskRuns`, which assumes that the other tasks return; so `Begin` is fair only while no
silent client holds a thread. With one that does, a task may wait for ever on the deque of its thread although
others sleep: that is what `pool_begins` shows. A connected client sends unless it is silent, and leaves once the
server has closed. Timeouts and signals are never fair. `RecvHttp`: the thread runs, and the peer delivers unless it hangs up. No strong fairness
anywhere.

## 4. The proofs

`ThreadSafeQueueProofs` proves what each queue operation returns, keeps and removes (for instance `StealLemma`,
`PopFrontLemma`, `RotateToFrontType`). The theorems of the other modules:

| Module | Theorem | Statement |
|---|---|---|
| `ThreadPoolProofs` | `TypeCorrect` | `Spec => []TypeOK` |
| | `RotationStaysComplete` | `Spec => []RotationComplete` |
| | `NeverInTwoPlaces` | `Spec => []OnePlace` |
| | `EveryTaskAccounted` | `Spec => []Accounted` |
| | `PendingStaysExact` | `Spec => []PendingExact` |
| | `WakeupsAreNotLost` | `Spec => []NoLostWakeup` |
| `ThreadPoolPromiseProofs` | `FuturesAreHonest` | `Spec => []FutureHonest` |
| | `PoolKeepsPromise` | `Spec => RefinesTaskPool` |
| `ThreadPoolLifeProofs` | `WorkersSleepUntilBuilt` | `Spec => []EarlyWorkersSleep` |
| | `ConstructorLeavesPool` | `Spec => BuiltAsPool` |
| | `BuiltPoolStaysSafe` | `Spec` implies that a built pool with `N` threads always has `OnePlace`, `Accounted`, `PendingExact`, `NoLostWakeup`, `RotationComplete`, `FutureHonest`, for every natural number `N` |
| | `LifeKeepsPromise` | `Spec` and that the built pool has `N` threads imply `RefinesTaskPool`, for every natural number `N` |
| `ServerProofs` | `ServerTypeCorrect` | `Spec => []TypeOK` |
| | `StartOutlastsTasks` | `Spec => []NoTaskOutlivesStart` |
| | `NothingHandledTwice` | `Spec => []AnsweredOnce` |
| | `OneAtATimeGetTheirOwn` | `OneAtATime` implies `Spec => []OwnResponse` |
| `SocketsProofs` | `SocketsTypeCorrect` | `Spec => []TypeOK` |
| | `StraysBeginWithRequest` | `Spec => []BeginsWithRequest` |
| | `LoopKeepsListening` | `Spec => []KeepsListening` |
| | `MembersNameAll` | `Spec => []HoldsWhatItNames` |
| | `DestructorLeavesNothing` | `Spec => []NothingLeft` |
| `RecvHttpProofs` | `RecvTypeCorrect` | `Spec => []TypeOK` |
| | `NothingIsInvented` | `Spec => []NothingInvented` |
| | `HeadAndBodyAreParted` | `Spec => []SplitExact` |
| `ExchangeProofs` | `RightRouteIsFound` | `Spec => []FindsRightRoute` |
| | `OthersAreNotAffected` | `Spec => OnlyMatchingAffected` |
| | `FirstAddedStaysInForce` | `Spec => []FirstAddedWins` |
| | `ExchangeTypeCorrect` | `Spec => []TypeOK` |
| | `RequestIsBuilt` | `Spec => []RequestArrives` |
| | `ResponseIsBuilt` | `Spec => []ResponseArrives` |
| | `StatusIsBuilt` | `Spec => []StatusArrives` |
| | `BodyIsWholeOrNone` | `Spec => []BodyWholeOrNone` |
| | `TokenIsNeeded` | `Spec => []TokenNeeded` |

### The pool

For every `N`, `Tasks`, `Callers` and `Endless`, whatever a release at the maximum does and whichever pushes throw.
Assumptions: `PoolAssumption` (`N` is a natural number, `NoTask` is no task, `Endless` are tasks) and nothing else;
`Tasks` and `Callers` need not be finite.

The argument. None of the properties is inductive alone. `OnePlace` needs to know that a fresh task is nowhere
yet, which is `Accounted`'s business (`Waits(t) => t \in submitted`), and `Accounted` needs `OnePlace` to know
that a task which is begun is gone from everywhere else (or its push has failed, and it is nowhere), and `RotationComplete` to know that a call on a pool with
threads always finds a worker. So their conjunction with `TypeOK`, called `Places`, is the first inductive
invariant. The second, `Counted`, adds `PendingExact` and that `Outstanding` is finite: a step changes
`Outstanding` by one element exactly when it changes the counter by one, and `Places` says that this element was
(or was not) there before. `NoLostWakeup` is then inductive on top: the one dangerous step, a worker that reads
`pending_tasks_ = 0`, sees by `PendingExact` that no task is outstanding, so that its own deque is empty; every
later push on its deque comes with a release still to come. This is why the *exactness* of the counter matters and
not only that it is positive at times: with a counter that can be low, a worker falls asleep on its own task.

The promise. `FutureHonest` says of a destroyed pool that no future waits. For that the destructor must find
everybody gone: `Shutdown` says that no call is under way once it has begun, and that the workers it has joined
have exited. `Truthful` ties each future to the life of its task: a value or an exception means that it was begun and
has ended, an ended task's future is settled, and a promise is broken only by a pool without threads or by its
destruction, after which none waits (`NobodyWaits`). `PoolKeepsPromise` maps
the tasks in execution to `TaskPool`: a busy worker holds exactly one of them, different workers different ones
(`OnePlace`), so that they are at most `N` (`ExecutionLemma`, `SameCardinality`), and a worker that is about to begin
one is not among the busy (`FreeWorkerLemma`). The abstract pool closes when the destructor returns, which
`Shutdown` shows to be after the last task has ended.

### The constructor

For any number of threads asked for, any of which cannot be created; from `LifeAssumption` (that number is a natural
number, `NoTask` is no task, `Endless` are tasks).

`Building` says how things stand between two steps of the loop: as many deques and semaphores as turns that have not
failed, the numbers of the threads in the rotation in their order, every thread at its semaphore and no token in any
of them, and nobody has called. Nothing but the constructor can then move (`OnlyConstruct`), because the semaphores
are made with 0 and only the members of the finished object release them. That is why it is safe to take the last
deque back under threads that hold references into `tasks_`; with one token in one semaphore it would not be. A
turn that fails takes back just what it has entered (`NumbersLemma`), so that each step keeps `Building`
(`ConstructStep`), and the last one leaves a pool in its initial state (`BuiltLemma`).

From there on the proofs about `ThreadPool` apply. How many threads there are is a matter of the behaviour, while those
proofs are about a constant `N`. So the module declares a constant `N` of its own, of which it assumes nothing but, in
the two theorems, that it is a natural number, and takes `ThreadPoolPromiseProofs` with it. `AsPool` shows that each
step of a built pool with `N` threads is a step of that pool: `P(N)` and `Pool` are two instances of one module, and
`SameCalls`, `SameWork` and `SameDestroy` compare them action by action. `Kept` carries the inductive invariants, all
of which are in `Sound`, from the moment of construction on. What is said under `threads = N` holds whatever the number
of threads, since `N` is arbitrary. `LifeKeepsPromise` is the same for the refinement: the constructor is invisible to
`TaskPool`, and a shortage of threads only lowers its size.

### The server

For any clients, descriptors, threads, requests and handlers that throw; from `ServerAssumption`. `Sound` ties the
tasks to the pool: a task in `parsereq` has begun and not ended, so the pool is open; `Return` closes it, and
`NoTaskOutlivesStart` follows. `AnsweredOnce` needs three invariants besides: what was read of a request is not in the
socket's buffer any more (`Taken`), so no two tasks have read the same (`Apart`), and every answer is what a task had
read that is done with reading (`Told`). They hold although `client_socket` moves between any two steps, and may be anything once the loop is
left: the connection that an answer reaches is arbitrary, and `OwnResponse` fails, but the kernel gives out each block once.

`OwnResponse` is proved under `OneAtATime` (`MaxOpen = 1`, nobody impatient, no signals, the place of `client_socket`
left alone), for any clients, also silent ones, long requests and handlers that throw. `Alone`: at most one client counts, and a task that has yet to look at
`client_socket` is the only one and belongs to the client behind it (the tasks that wait for a silent client have
looked already, and will not look again). It is inductive because a client leaves only when its connection is closed,
which is after the last look of its task, and the next one connects only then. `Faithful` follows what the task has
read: the first blocks of the request of its own client, as many as are gone from the buffer.

### The sockets

For any set of objects, any of which make requests, and any limit on descriptors; from `SocketsAssumption`.
`Calls` says how the calls of an object exclude each other; `Owns`, that until an object with requests has closed
what was not its own, nobody has, and every number in a `server_socket` is the object's own; `Rests`, that between
two requests there is no connection, unless a call has left one (`unclosed`). All four properties of the run follow.

### recv_http

For every message, block size, segmentation, signal and hang-up; from `RecvAssumption`. `InPlace` says that of what
was taken up to the first NUL each byte is in its place in `head \o body`; `ViewLemma` says what a block is taken
for, `AppendLemma` that the split at the empty line only moves the border between the two.

For `SplitExact`, `Halved` says what there is between two blocks of a message that `Splits` admits: the blocks so far
were full ones, so that the next begins at a multiple of `Block`; and either no empty line has ended yet and all is in
`head`, or head and body are parted at the first one and the body has begun (a body that is still empty would let the
code look for an empty line again). A block shows an empty line exactly where the message has one that lies in it
(`EndsLemma`), and `BlockStartLemma` turns the condition of `Splits`, that the empty line and the byte after it share a
block, into "the block that ends it also begins before it and goes beyond it".

### The router and the messages

For any routes, probes, calls, requests, answers and foreign texts. Assumptions: `RoutingAssumption` and
`RouterAssumption` (the orders are sequences over the methods and the patterns), `HttpAssumption` (`NameOrder` lists the
names, `Lower` is idempotent, "Content-Type" and "Content-Length" are names, `Number` reads what `Decimal` writes, an empty
body has no lines), `ExchangeAssumption` (what is asked, answered and written has the shape of a `Request`, a `Response`,
a text on the wire; garbage is a `short`). The sets of routes, objects and texts need not be finite. What is left of a
cut value (`Cuts`) and which bodies have lines and empty lines (`LinesIn`, `EmptyLines`) is arbitrary.

`FindsRightRoute` and `OnlyMatchingAffected` are facts about `Handle`: its answer depends on the set of the routes that
match, and on nothing else; and a route that `add` or `del` finds in the table has the method and the pattern of the one
that the call was given, so that it matches the same requests (`KeyLemma`). `FirstAddedWins` is by induction over the
calls: one more call takes from those before it exactly the ones of its key when it is a `del` (`EarlierCalls`), and an
`add` counts unless one of its key counts already (`LastCall`; the witness is the first `add` since the last `del`,
`LeastLemma`).

Of an exchange none of the properties is inductive: they relate an object at one end to one at the other, built
two steps later from the wire. `Wired` is the invariant between: while a request is under way the wire carries what
`RequestToString` made of the object that was asked with, when it is read exactly; nothing or a part of it (`PartOf`)
when it is misread; the same of the response; and it says what is set in which phase. A step builds and routes a
request (`Receives`), builds a response (`Reads`), or leaves alone what the properties speak of (`Quiet`; `StepLemma`).
`ReceivedLemma` turns `Received` into `PartOf`: the same first line, and either fields of the text, some cut, and no
body, or all its fields, some more from its body, and a piece of the body after them.

The properties then follow from lemmas about the conversions. `RequestRoundTrip` and `ResponseRoundTrip` say what is
read of what was written (from `HeadersArrive`, `ContentArrives` and `ShortLemma`); well-formedness is needed where a
header of the program stands beside the fields that `toString` writes after it. `BodyLemma`: when nothing but
`toString` announces a length, whatever is appended to the header from the body leaves the length as it is
(`LengthArrives`, over the last field that announces one), so that a piece of the body is refused unless it has all its
bytes. `TokenLemma`: a token that is found in a part of a text is one of its values, or what is left of one, or stands
in a line of the body; with `FirstLemma`, that the route that `Handle` picks is one of those that match. `Sounded` says
of every object that was built, from whatever text, that its header names are in lower case and its code is a `short`.

### Only model-checked

Liveness, and the fairness it rests on, is beyond the prover: `EveryTaskRuns`, `DestructorReturns`, `FuturesResolve` and
`PoolComesToRest` of the pool, `RunsOrRefuses` of a pool with failed creations, `Served` and
`StartReturns` of the server, `ReadToEnd` of `recv_http`. Every invariant and every action property of a passing run is
a theorem, under the hypotheses of the table where it names some, and so is the refinement.

## 5. Not modelled, and why

* `push_front` and `empty` of the queue and `size` of the pool: not called by anything in the library.
* `priority_queue_.push_back` that throws in the constructor (`thread_pool.h:43`), outside of its `try`: `threads_`
  is destroyed while the first workers sleep on semaphores that go with it. An allocation of a few bytes would have
  to fail; nothing says what should follow.
* The Windows branches: the same steps with other names.
* `toString(false)`: for reading by people; the constructors take it for malformed. Copying of messages.
* What a regular expression matches; the text of messages, and NULs in them outside of `RecvHttp`; logging; `htons`, `inet_addr`, `is_ipaddr`.
* `add` or `del` while `start` runs, two calls of `request` at a time on one object: data races without any lock,
  outside of what the class can be used for.
* The body of `main.cpp`: one call of each entry point. `single_include/nicehttp.h`: the same code again.

## 6. Plan

Done, in this order, the most important first: queue, pool and its promise; proofs about them; server;
`recv_http`; router; messages and the exchange; sockets; the constructor of the pool and pushes that throw; silent
clients, requests of several blocks and signals; the refinement and the honesty of futures proved; proofs about the
server, the sockets and `recv_http`; proofs about the router and the messages; `SplitExact` for every message and
`OwnResponse` for any number of clients that come one at a time; the constructor for any number of threads and
failures, and the pool it leaves.

Left: liveness for every value of the constants, when a prover can do it.
