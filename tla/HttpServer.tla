----------------------------- MODULE HttpServer -----------------------------
(***************************************************************************)
(* The server that main() runs: the accept loop of Server::listen_internal,*)
(* which owns a ThreadPool, the keep-alive loop that a pool thread runs for*)
(* each connection, and the two handlers with what they share: build_mutex *)
(* and the table of file descriptors of the process.  What is said on a    *)
(* connection is in HttpConnection, what a handler does in IndexSwap.      *)
(*                                                                         *)
(* The clients, the database and the operating system are external: clients*)
(* send and hang up as they like, the database answers or fails, and       *)
(* accept() and thread creation may fail.                                  *)
(***************************************************************************)
EXTENDS ThreadPool

CONSTANTS
  Builds,        \* the connections whose requests are to /build; the others' are to /search
  NoConn,        \* owns build_mutex when nobody does
  KeepAliveMax,  \* keep_alive_max_count_: requests served on one connection
  MaxRequests,   \* bound: requests the clients send in all
  MaxFiles,      \* RLIMIT_NOFILE, less what is open before listen()
  BuildFiles,    \* descriptors that a build takes
  SearchFiles    \* descriptors that a search takes

(* The connections, numbered in the order in which they are accepted.      *)
Conn == Job

ASSUME HttpServerAssumption ==
  /\ Conn \subseteq Nat /\ Builds \subseteq Conn
  /\ NoConn \notin Conn
  /\ KeepAliveMax \in Nat \ {0} /\ MaxRequests \in Nat
  /\ BuildFiles \in Nat /\ SearchFiles \in Nat
  /\ MaxFiles \in Nat /\ MaxFiles >= 2   \* the listening socket and a connection

VARIABLES
  listening,  \* svr_sock_ is not INVALID_SOCKET
  stage,      \* where each connection is
  inbox,      \* the client has sent a request that nobody has read
  sends,      \* counts against MaxRequests
  count,      \* process_server_socket_core's count, of each connection
  files,      \* descriptors the handler of each connection has open
  holder,     \* the connection whose handler owns build_mutex
  used,       \* descriptors in use
  leaked,     \* descriptors that nobody will close, without bound but MaxFiles
  served      \* the connections on which a request was answered (for the properties)

clientVars == <<inbox, sends>>
connVars   == <<stage, inbox, sends, count, files, holder, used, leaked, served>>
vars       == <<poolVars, listening, connVars>>

Needs(c) == IF c \in Builds THEN BuildFiles ELSE SearchFiles
Accepted == {"open", "watched", "locking", "handling", "closing"}

(* main() has not returned, by an exception or after listen().             *)
Running == owner \notin {"failed", "terminated", "down"}

(* A thread of the pool runs process_and_close_socket for the connection.  *)
Serving(c) == Running /\ \E t \in Thread : job[t] = c

Enter(c, s) == stage' = [stage EXCEPT ![c] = s]

Init ==
  /\ PoolInit
  /\ listening = TRUE
  /\ stage = [c \in Conn |-> "backlog"]
  /\ inbox = [c \in Conn |-> FALSE]
  /\ sends = 0
  /\ count = [c \in Conn |-> KeepAliveMax]
  /\ files = [c \in Conn |-> 0]
  /\ holder = NoConn
  /\ used = 1 /\ leaked = 0
  /\ served = {}

-----------------------------------------------------------------------------
(* Faulty variants of steps below, to show that the properties can fail.   *)
(* They are no part of Next.                                               *)

(* keep_alive looks at svr_sock_ before it first looks at the connection.  *)
WatchFirst(c) ==
  /\ Serving(c) /\ stage[c] = "open" /\ (~inbox[c] \/ ~listening)
  /\ Enter(c, "watched")
  /\ UNCHANGED <<poolVars, listening, clientVars, count, files, holder, used, leaked, served>>

(* A connection's socket is not closed.                                    *)
CloseLeaking(t) ==
  /\ job[t] # NoJob /\ stage[job[t]] = "closing"
  /\ Return(t)
  /\ Enter(job[t], "closed")
  /\ leaked' = leaked + 1
  /\ UNCHANGED <<listening, clientVars, count, files, holder, used, served>>

-----------------------------------------------------------------------------
(* The clients.                                                            *)

(* A connection is in the backlog for as long as it takes the client to    *)
(* open it and the server to accept it.  A client waits for its answer     *)
(* before it sends another request.                                        *)
Send(c) ==
  /\ Running /\ stage[c] \in {"backlog", "open", "watched"}
  /\ ~inbox[c] /\ sends < MaxRequests
  /\ inbox' = [inbox EXCEPT ![c] = TRUE]
  /\ sends' = sends + 1
  /\ UNCHANGED <<poolVars, listening, stage, count, files, holder, used, leaked, served>>

-----------------------------------------------------------------------------
(* The accept loop.  With no descriptor left, accept() fails and is tried  *)
(* again a microsecond later, and so it is after a transient error.        *)

Accept(c) ==
  /\ listening /\ stage[c] = "backlog" /\ used < MaxFiles
  /\ \A d \in Conn : stage[d] = "backlog" => c <= d
  /\ Enqueue(c)
  /\ Enter(c, "open")
  /\ used' = used + 1
  /\ UNCHANGED <<listening, clientVars, count, files, holder, leaked, served>>

(* Any other error: the listening socket is closed, and with it the        *)
(* connections nobody has accepted.                                        *)
AcceptFatal ==
  /\ owner = "serving" /\ listening
  /\ listening' = FALSE
  /\ used' = used - 1
  /\ stage' = [c \in Conn |-> IF stage[c] = "backlog" THEN "refused" ELSE stage[c]]
  /\ UNCHANGED <<poolVars, clientVars, count, files, holder, leaked, served>>

(* The loop ends, and task_queue->shutdown() begins.                       *)
StopAccepting == ~listening /\ Shutdown /\ UNCHANGED <<listening, connVars>>

Pool ==
  /\ OwnerStep \/ SpawnFailure \/ \E t \in Thread : WorkerStep(t)
  /\ UNCHANGED <<listening, connVars>>

(* drain_and_close_socket, the end of process_and_close_socket and of fn().*)
Close(t) ==
  /\ job[t] # NoJob /\ stage[job[t]] = "closing"
  /\ Return(t)
  /\ Enter(job[t], "closed")
  /\ used' = used - 1
  /\ UNCHANGED <<listening, clientVars, count, files, holder, leaked, served>>

-----------------------------------------------------------------------------
(* process_server_socket_core on the thread of a connection.               *)

(* keep_alive: when the first select_read sees nothing, the loop begins, ...*)
Watch(c) ==
  /\ Serving(c) /\ stage[c] = "open" /\ ~inbox[c]
  /\ Enter(c, "watched")
  /\ UNCHANGED <<poolVars, listening, clientVars, count, files, holder, used, leaked, served>>

(* ... which looks at svr_sock_ before each further select_read and gives  *)
(* up after keep_alive_timeout_sec_ without a byte.  A client that hangs up*)
(* makes the socket readable and ends the loop in the same way:            *)
(* process_request fails to read a request line.                           *)
KeepAliveEnds(c) ==
  /\ Serving(c) /\ stage[c] = "watched" /\ (~inbox[c] \/ ~listening)
  /\ Enter(c, "closing")
  /\ UNCHANGED <<poolVars, listening, clientVars, count, files, holder, used, leaked, served>>

ReadRequest(c) ==
  /\ Serving(c) /\ stage[c] \in {"open", "watched"} /\ inbox[c]
  /\ inbox' = [inbox EXCEPT ![c] = FALSE]
  /\ Enter(c, IF c \in Builds THEN "locking" ELSE "handling")
  /\ UNCHANGED <<poolVars, listening, sends, count, files, holder, used, leaked, served>>

LockBuild(c) ==
  /\ Serving(c) /\ stage[c] = "locking" /\ holder = NoConn
  /\ holder' = c
  /\ Enter(c, "handling")
  /\ UNCHANGED <<poolVars, listening, clientVars, count, files, used, leaked, served>>

(* The handler's connections and files, as far as descriptors go.          *)
OpenFile(c) ==
  /\ Serving(c) /\ stage[c] = "handling" /\ files[c] < Needs(c)
  /\ used < MaxFiles
  /\ files' = [files EXCEPT ![c] = @ + 1]
  /\ used' = used + 1
  /\ UNCHANGED <<poolVars, listening, stage, clientVars, count, holder, leaked, served>>

(* The handler is left, its files and the mutex are released, the response *)
(* is written, and the loop goes on if count allows.                       *)
Answer(c) ==
  /\ Serving(c) /\ stage[c] = "handling"
  /\ files' = [files EXCEPT ![c] = 0]
  /\ holder' = IF holder = c THEN NoConn ELSE holder
  /\ count' = [count EXCEPT ![c] = @ - 1]
  /\ Enter(c, IF count[c] = 1 THEN "closing" ELSE "open")
  /\ served' = served \cup {c}
  /\ UNCHANGED <<poolVars, listening, clientVars>>

Respond(c) ==
  /\ files[c] = Needs(c)
  /\ Answer(c)
  /\ used' = used - files[c]
  /\ UNCHANGED leaked

(* An exception of the handler, as when no descriptor is left: 500.        *)
Throw(c) ==
  /\ files[c] < Needs(c)
  /\ Answer(c)
  /\ used' = used - files[c]
  /\ UNCHANGED leaked

(* A file can be opened and not mapped: MemoryMappedFile's constructor     *)
(* throws, and its destructor, which would close it, does not run.         *)
ThrowUnmapped(c) ==
  /\ files[c] < Needs(c) /\ used < MaxFiles
  /\ Answer(c)
  /\ used' = used + 1 - files[c]
  /\ leaked' = leaked + 1

(* Nothing is left to do; keeps TLC's deadlock check on everywhere else.   *)
Idle ==
  /\ \/ ~Running
     \/ owner = "serving" /\ \A c \in Conn : stage[c] \in {"closed", "refused"}
  /\ UNCHANGED vars

ConnStep(c) ==
  \/ Watch(c) \/ KeepAliveEnds(c) \/ ReadRequest(c)
  \/ OpenFile(c) \/ Respond(c) \/ Throw(c)

Next ==
  \/ \E c \in Conn : Send(c) \/ Accept(c)
  \/ AcceptFatal \/ StopAccepting \/ Pool
  \/ \E t \in Thread : Close(t)
  \/ \E c \in Conn : ConnStep(c) \/ LockBuild(c) \/ ThrowUnmapped(c)
  \/ Idle

(* The accepting thread and the threads of the pool take the steps they    *)
(* can take: accept() is tried until there is a descriptor, a handler ends *)
(* (the database answers or fails), and build_mutex goes to one of those   *)
(* that wait for it.  Clients, spurious wakeups, timeouts of idle threads  *)
(* and failures owe nothing.                                               *)
OwnerThread ==
  \/ OwnerStep /\ UNCHANGED <<listening, connVars>>
  \/ StopAccepting
  \/ \E c \in Conn : Accept(c)

PoolThread(t) ==
  \/ OwnStep(t) /\ UNCHANGED <<listening, connVars>>
  \/ Close(t)
  \/ \E c \in Conn : job[t] = c /\ ConnStep(c)

Fairness ==
  /\ WF_vars(OwnerThread)
  /\ \A t \in Thread : WF_vars(PoolThread(t))
  /\ WF_vars(\E c \in Conn : LockBuild(c))

Spec == Init /\ [][Next]_vars /\ Fairness

-----------------------------------------------------------------------------
(***************************************************************************)
(* Properties.                                                             *)
(***************************************************************************)

(* The type of every variable.                                             *)
TypeOK ==
  /\ PoolTypeOK
  /\ listening \in BOOLEAN
  /\ stage \in [Conn -> Accepted \cup {"backlog", "refused", "closed"}]
  /\ inbox \in [Conn -> BOOLEAN]
  /\ sends \in 0 .. MaxRequests
  /\ count \in [Conn -> 0 .. KeepAliveMax]
  /\ files \in [Conn -> Nat]
  /\ holder \in Conn \cup {NoConn}
  /\ used \in 0 .. MaxFiles
  /\ leaked \in 0 .. MaxFiles
  /\ served \subseteq Conn

(* The files that requests in work have open, told apart.                  *)
OpenFiles == UNION { {c} \X (1 .. files[c]) : c \in Conn }

(* Every descriptor in use is the listening socket, an accepted connection *)
(* that is not yet closed, a file of a request in work, or one that a      *)
(* failed mapping has leaked.                                              *)
OpenCounted ==
  used = (IF listening THEN 1 ELSE 0)
         + Cardinality({ c \in Conn : stage[c] \in Accepted })
         + Cardinality(OpenFiles)
         + leaked

(* A leak needs a request on an open connection, so that one descriptor is *)
(* left for a connection when none is left for a file.                     *)
LeaksSpareAConnection == listening => leaked <= MaxFiles - 2

(***************************************************************************)
(* Exceptions and refused connections lose no descriptor but those that a  *)
(* failed mapping leaks, and none is closed twice.  However many searches  *)
(* leak one, as each on an empty index.bin does, one is left for a         *)
(* connection: accept() never fails for ever, though every handler may.    *)
(***************************************************************************)
DescriptorsAccounted == OpenCounted /\ LeaksSpareAConnection

(***************************************************************************)
(* When listen() returns, every connection it has accepted was served to   *)
(* its end: no request in work is cut off, none is left in the queue, and  *)
(* no thread is left running or unjoined.                                  *)
(***************************************************************************)
ReturnsServed ==
  /\ Drained
  /\ owner = "down" => \A c \in Conn : stage[c] \in {"closed", "refused"}

(***************************************************************************)
(* The first request on a connection is answered, even when all threads are*)
(* taken by builds that wait for the mutex or by idle keep-alive           *)
(* connections, even when leaks have left no descriptor for files (by 500, *)
(* then), and even when the server stops.  (One that comes after keep_alive*)
(* has first looked for it, while the server stops, may be dropped: the    *)
(* loop looks at svr_sock_ before it looks again.)                         *)
(***************************************************************************)
FirstRequestAnswered ==
  \A c \in Conn :
    inbox[c] /\ stage[c] \in {"backlog", "open"}
      ~> c \in served \/ stage[c] = "refused" \/ owner \in {"failed", "terminated"}

(***************************************************************************)
(* After a fatal error of accept(), listen() returns: no client can keep   *)
(* its thread, and shutdown joins them all.                                *)
(***************************************************************************)
ListenReturns == ~listening ~> ~Running
=============================================================================
