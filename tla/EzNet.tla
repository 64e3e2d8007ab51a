-------------------------------- MODULE EzNet --------------------------------
(***************************************************************************)
(* The sockets of include/easynet.c: three registries (servers, clients,   *)
(* accepted connections), the objects in them, and the descriptors of the  *)
(* process.  One thread calls the library; a call is one step, except      *)
(* ez_clean_network, whose loops release one object per step.              *)
(*                                                                         *)
(* The operating system answers as it likes: any socket, bind, listen,     *)
(* accept, connect or getsockname may fail, a peer may come or stay away.  *)
(* A new descriptor is the lowest free one, as POSIX promises, so that a   *)
(* stale number soon names somebody else's socket.  What travels through a *)
(* socket is the subject of EzBuffer.                                      *)
(***************************************************************************)
EXTENDS Integers, Sequences, SequencesExt

CONSTANTS
  Servers, Clients, Connections,  \* addresses malloc may give such an object
  Ports,                          \* the port numbers callers use
  LastFd                          \* bound: the descriptor limit of the process

Objects == Servers \cup Clients \cup Connections

\* A tracked object costs two blocks: itself and its node in the registry.
Node(x) == <<"node", x>>
Blocks(x) == {x, Node(x)}

ASSUME NetAssumption ==
  /\ LastFd \in Nat /\ Ports \subseteq Nat
  /\ Servers \cap Clients = {} /\ Servers \cap Connections = {}
  /\ Clients \cap Connections = {}
  /\ \A x \in Objects : Node(x) \notin Objects

Kinds == {"server", "client", "connection"}
Fds == 0 .. LastFd
Invalid == -1                     \* EZ_INVALID_SOCK

VARIABLES
  registry,     \* the lists s_ez_server_list, _client_list, _connection_list
  socket,       \* the socket field of every object
  open,         \* the open field; connections have none
  file,         \* what each descriptor of the process refers to
  heap,         \* the blocks EZ_ALLOCATED() counts
  initialized,  \* s_ez_network_initialized
  pc,           \* "idle", "cleaning", or what the process died of
  due           \* history: what the running ez_clean_network has to leave

vars == <<registry, socket, open, file, heap, initialized, pc, due>>
fields == <<socket, open>>

Tracked(kind) == Range(registry[kind])
AllTracked == UNION {Tracked(kind) : kind \in Kinds}

\* The objects that hold a descriptor, and the descriptors of sockets.
Holders == {x \in AllTracked : x \in Connections \/ open[x]}
Sockets == {f \in Fds : file[f] \notin {"free", "stdin"}}
Held == {socket[x] : x \in Holders}

\* What nobody can free or close any more.
Garbage == heap \ UNION {Blocks(x) : x \in AllTracked}
Orphans == Sockets \ Held

\* The memory and the descriptors without the objects and what they hold.
Cleared ==
  [heap |-> Garbage,
   file |-> [f \in Fds |-> IF f \in Held THEN "free" ELSE file[f]]]
NothingDue == [heap |-> {}, file |-> [f \in Fds |-> "free"]]

\* Descriptor 0 is the standard input the process was started with.
Init ==
  /\ registry = [kind \in Kinds |-> <<>>]
  /\ socket = [x \in Objects |-> 0]
  /\ open = [x \in Servers \cup Clients |-> FALSE]
  /\ file = [f \in Fds |-> IF f = 0 THEN "stdin" ELSE "free"]
  /\ heap = {} /\ initialized = FALSE
  /\ pc = "idle" /\ due = NothingDue

-----------------------------------------------------------------------------
\* The call of a function that needs the network: ez_check_network comes first.
Call == pc = "idle" /\ initialized' = TRUE /\ UNCHANGED due

\* The descriptor a successful socket() or accept() returns, if there is one.
NewFd(f) ==
  /\ f \in Fds /\ file[f] = "free"
  /\ \A g \in Fds : file[g] = "free" => f <= g

\* A new object goes to the head of its registry.
Track(kind, x) ==
  /\ registry' = [registry EXCEPT ![kind] = Cons(x, @)]
  /\ heap' = heap \cup Blocks(x)

\* ez_init_network, also ez_check_network called by the program.
InitNetwork == Call /\ UNCHANGED <<registry, fields, file, heap, pc>>

\* ez_get_my_ip: its socket is closed again, unless getsockname fails.
GetMyIp ==
  /\ Call
  /\ \/ UNCHANGED file
     \/ \E f \in Fds : NewFd(f) /\ file' = [file EXCEPT ![f] = "datagram"]
  /\ UNCHANGED <<registry, fields, heap, pc>>

\* ez_generate_server: a new server has no socket.
GenerateServer(s) ==
  /\ Call /\ s \notin heap
  /\ Track("server", s)
  /\ socket' = [socket EXCEPT ![s] = Invalid]
  /\ open' = [open EXCEPT ![s] = FALSE]
  /\ UNCHANGED <<file, pc>>

\* ez_generate_client: the socket field is left as calloc zeroed it.
GenerateClient(c) ==
  /\ Call /\ c \notin heap
  /\ Track("client", c)
  /\ socket' = [socket EXCEPT ![c] = 0]
  /\ open' = [open EXCEPT ![c] = FALSE]
  /\ UNCHANGED <<file, pc>>

\* Mutant: a later call that fails leaves the descriptor open.
AcquireLeaks(x, use) ==
  \E f \in Fds :
    /\ NewFd(f)
    /\ socket' = [socket EXCEPT ![x] = f]
    /\ file' = [file EXCEPT ![f] = use]
    /\ \/ UNCHANGED open
       \/ open' = [open EXCEPT ![x] = TRUE]

\* Opening a socket for an object: socket() fails, or a later call does and
\* the descriptor is closed again but stays in the field, or all goes well.
Acquire(x, use) ==
  \/ /\ socket' = [socket EXCEPT ![x] = Invalid]
     /\ UNCHANGED <<open, file>>
  \/ \E f \in Fds :
       /\ NewFd(f)
       /\ socket' = [socket EXCEPT ![x] = f]
       /\ \/ UNCHANGED <<open, file>>
          \/ /\ open' = [open EXCEPT ![x] = TRUE]
             /\ file' = [file EXCEPT ![f] = use]

Refused(x, port) == open[x] \/ port < 1024

\* ez_open_server.  The caller sets the udp field, which only this call reads;
\* for UDP getaddrinfo may fail before there is a socket.
OpenServer(s, port, udp) ==
  /\ Call /\ s \in Tracked("server")
  /\ \/ Refused(s, port) /\ UNCHANGED <<fields, file>>
     \/ udp /\ ~Refused(s, port) /\ UNCHANGED <<fields, file>>
     \/ ~Refused(s, port) /\ Acquire(s, IF udp THEN "datagram" ELSE "listen")
  /\ UNCHANGED <<registry, heap, pc>>

\* ez_connect_client
ConnectClient(c, port) ==
  /\ Call /\ c \in Tracked("client")
  /\ \/ Refused(c, port) /\ UNCHANGED <<fields, file>>
     \/ ~Refused(c, port) /\ Acquire(c, "stream")
  /\ UNCHANGED <<registry, heap, pc>>

-----------------------------------------------------------------------------
\* ez_server_accept allocates the connection first, and loses it when the
\* server is not open or accept fails.
AcceptFails(k) ==
  /\ heap' = heap \cup {k}
  /\ UNCHANGED <<registry, fields, file>>

Accepted(s, k) ==
  /\ open[s] /\ file[socket[s]] = "listen"
  /\ \E f \in Fds :
       /\ NewFd(f)
       /\ file' = [file EXCEPT ![f] = "stream"]
       /\ socket' = [socket EXCEPT ![k] = f]
  /\ Track("connection", k)
  /\ UNCHANGED open

ServerAccept(s, k) ==
  /\ Call /\ s \in Tracked("server") /\ k \notin heap
  /\ AcceptFails(k) \/ Accepted(s, k)
  /\ UNCHANGED pc

\* ez_server_accept_timed selects on the field as it is.  FD_SET of -1 is
\* undefined: a fortified build aborts, others wait on no descriptor at all.
\* A free descriptor makes select fail; one in use may turn out readable,
\* and then the call goes on as ez_server_accept.
SelectFails(s) ==
  /\ pc = "idle" /\ s \in Tracked("server")
  /\ pc' \in IF socket[s] = Invalid THEN {"idle", "abort"} ELSE {"idle"}
  /\ UNCHANGED <<registry, fields, file, heap, initialized, due>>

AcceptTimed(s, k) ==
  \/ SelectFails(s)
  \/ /\ socket[s] # Invalid /\ file[socket[s]] # "free"
     /\ ServerAccept(s, k)

-----------------------------------------------------------------------------
\* Mutant: the open flag stays up.
ShutKeepsFlag(x) ==
  /\ file' = [file EXCEPT ![socket[x]] = "free"]
  /\ UNCHANGED open

\* EZ_CLOSE_SOCKET and open = FALSE: close() frees whatever the number names.
Shut(x) ==
  /\ file' = [file EXCEPT ![socket[x]] = "free"]
  /\ open' = [open EXCEPT ![x] = FALSE]

\* ez_close_server and ez_disconnect_client
Close(x, kind) ==
  /\ Call /\ x \in Tracked(kind)
  /\ IF open[x] THEN Shut(x) ELSE UNCHANGED <<open, file>>
  /\ UNCHANGED <<registry, socket, heap, pc>>

CloseServer(s) == Close(s, "server")
DisconnectClient(c) == Close(c, "client")

\* Mutant: the object is freed, its node stays in the registry.
UntrackNot(kind, x) ==
  /\ heap' = heap \ Blocks(x)
  /\ UNCHANGED <<registry, socket>>

\* Mutant: the node is not freed.
UntrackKeepsNode(kind, x) ==
  /\ registry' = [registry EXCEPT ![kind] = RemoveFirst(@, x)]
  /\ heap' = heap \ {x}
  /\ socket' = [socket EXCEPT ![x] = 0]

\* What is behind the address of an object that is tracked no more does not
\* matter: its fields are set to what calloc makes of them.
Untrack(kind, x) ==
  /\ registry' = [registry EXCEPT ![kind] = RemoveFirst(@, x)]
  /\ heap' = heap \ Blocks(x)
  /\ socket' = [socket EXCEPT ![x] = 0]

\* Mutant: an open socket is forgotten with its object.
ReleaseSocketKept(kind, x) ==
  /\ Untrack(kind, x)
  /\ open' = [y \in DOMAIN open |-> y # x /\ open[y]]
  /\ UNCHANGED <<file, initialized>>

\* Closing its socket, if it has one open, and freeing a tracked object.  The
\* close of a server or client goes through ez_check_network.
Release(kind, x) ==
  LET shut == kind = "connection" \/ open[x]
  IN  /\ Untrack(kind, x)
      /\ file' = IF shut THEN [file EXCEPT ![socket[x]] = "free"] ELSE file
      /\ open' = [y \in DOMAIN open |-> y # x /\ open[y]]
      /\ initialized' = (initialized \/ (kind # "connection" /\ shut))

\* ez_close_connection, ez_clean_server and ez_clean_client share one search.
\* It starts with the first node, and there may be none; an object that is
\* in no node gets a warning.
Clean(kind, x) ==
  /\ pc = "idle"
  /\ \/ /\ registry[kind] = <<>>
        /\ pc' = "null pointer"
        /\ UNCHANGED <<registry, fields, file, heap, initialized, due>>
     \/ /\ registry[kind] # <<>> /\ x \notin Tracked(kind)
        /\ UNCHANGED vars
     \/ x \in Tracked(kind) /\ Release(kind, x) /\ UNCHANGED <<pc, due>>

CloseConnection(k) == Clean("connection", k)
CleanServer(s) == Clean("server", s)
CleanClient(c) == Clean("client", c)

\* ez_clean_network: the heads of the three registries, one after the other.
CleanNetwork ==
  /\ pc = "idle" /\ pc' = "cleaning"
  /\ due' = Cleared
  /\ UNCHANGED <<registry, fields, file, heap, initialized>>

CleaningOrder == <<"server", "client", "connection">>

\* Mutant: the servers are closed, but stay in their registry.
CleanStepCloses ==
  /\ pc = "cleaning"
  /\ registry["server"] # <<>>
  /\ Shut(Head(registry["server"]))
  /\ UNCHANGED <<registry, socket, heap, initialized, pc, due>>

CleanStep ==
  /\ pc = "cleaning"
  /\ \E i \in 1 .. Len(CleaningOrder) :
       /\ registry[CleaningOrder[i]] # <<>>
       /\ \A j \in 1 .. i - 1 : registry[CleaningOrder[j]] = <<>>
       /\ Release(CleaningOrder[i], Head(registry[CleaningOrder[i]]))
  /\ UNCHANGED <<pc, due>>

CleanDone ==
  /\ pc = "cleaning" /\ pc' = "idle"
  /\ \A i \in 1 .. Len(CleaningOrder) : registry[CleaningOrder[i]] = <<>>
  /\ initialized' = FALSE /\ due' = NothingDue
  /\ UNCHANGED <<registry, fields, file, heap>>

\* The calls that only move bytes of a stream: _send, _recieve and _ask.
Transfer ==
  /\ Call
  /\ Tracked("connection") \cup Tracked("client") # {}
  /\ UNCHANGED <<registry, fields, file, heap, pc>>

\* ez_server_throw and ez_server_recieve_from do not check the network;
\* ez_server_recieve_from_timed selects first, on the field as it is.
TransferDatagram(s) ==
  \/ pc = "idle" /\ s \in Tracked("server") /\ UNCHANGED vars
  \/ SelectFails(s)

Cleaning == CleanStep \/ CleanDone

Next ==
  \/ InitNetwork \/ GetMyIp \/ Transfer
  \/ \E s \in Servers :
       \/ GenerateServer(s) \/ CloseServer(s) \/ CleanServer(s) \/ TransferDatagram(s)
       \/ \E p \in Ports, udp \in BOOLEAN : OpenServer(s, p, udp)
       \/ \E k \in Connections : ServerAccept(s, k) \/ AcceptTimed(s, k)
  \/ \E c \in Clients :
       \/ GenerateClient(c) \/ DisconnectClient(c) \/ CleanClient(c)
       \/ \E p \in Ports : ConnectClient(c, p)
  \/ \E k \in Connections : CloseConnection(k)
  \/ CleanNetwork \/ Cleaning

\* ez_clean_network is a plain loop of the one thread: it keeps running.
Spec == Init /\ [][Next]_vars /\ WF_vars(Cleaning)

-----------------------------------------------------------------------------
\* While an object exists the network is initialized, so that on Linux and
\* macOS SIGPIPE is ignored before anything can be sent.
UsedWhileInitialized == AllTracked # {} => initialized

\* Type invariant: no object is in a registry twice, and what is in one is
\* allocated, with its node.
TypeOK ==
  /\ registry \in [Kinds -> Seq(Objects)]
  /\ Tracked("server") \subseteq Servers
  /\ Tracked("client") \subseteq Clients
  /\ Tracked("connection") \subseteq Connections
  /\ \A kind \in Kinds : IsInjective(registry[kind])
  /\ socket \in [Objects -> Fds \cup {Invalid}]
  /\ open \in [Servers \cup Clients -> BOOLEAN]
  /\ {file, due.file} \subseteq [Fds -> {"free", "stdin", "listen", "datagram", "stream"}]
  /\ heap \subseteq Objects \cup {Node(x) : x \in Objects}
  /\ UNION {Blocks(x) : x \in AllTracked} \subseteq heap
  /\ initialized \in BOOLEAN
  /\ due.heap \subseteq Connections
  /\ pc \in {"idle", "cleaning", "null pointer", "abort"}
  /\ UsedWhileInitialized

\* A descriptor belongs to one object: whatever was opened, failed, closed and
\* reused before, two holders never share a number, it names a socket of the
\* holder's kind, and closing one object never closes another's socket.
SocketsOwned ==
  /\ \A x, y \in Holders : socket[x] = socket[y] => x = y
  /\ \A x \in Holders :
       /\ socket[x] \in Fds
       /\ file[socket[x]] \in IF x \in Servers THEN {"listen", "datagram"} ELSE {"stream"}

\* Memory leaks only where ez_server_accept gives up after it allocated the
\* connection; no other call, and no order of calls, loses a block.
OnlyAcceptLeaks ==
  [][Garbage' # Garbage => \E k \in Connections : AcceptFails(k)]_vars

\* A socket stays open without an owner only where getsockname fails in
\* ez_get_my_ip; every other path closes what it opened.
OnlyMyIpLeaks == [][Orphans' # Orphans => GetMyIp]_vars

\* Whatever it was called with, ez_clean_network frees both blocks of every
\* object and nothing else, and closes every descriptor an object holds and no
\* other: no socket nobody owns, and not the standard input, which the field of
\* a client that was never connected names.
CleanedAll ==
  [][pc = "cleaning" /\ pc' = "idle" =>
       AllTracked' = {} /\ heap' = due.heap /\ file' = due.file]_vars

\* ez_clean_network returns.
CleaningEnds == pc = "cleaning" ~> pc = "idle"

\* "EasyNet memory leak": after ez_clean_network EZ_ALLOCATED() is back at
\* what it was before the first object.
CleanReturnsMemory == [][pc = "cleaning" /\ pc' = "idle" => heap' = {}]_vars

=============================================================================
