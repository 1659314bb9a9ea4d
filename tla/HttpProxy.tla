------------------------------ MODULE HttpProxy ------------------------------
(***************************************************************************)
(* The HTTP proxy of Final/proxy_server.  main.c starts the pool, listens, *)
(* installs the SIGINT handler, accepts connections until the stop flag is *)
(* seen and shuts down; every accepted socket becomes a request that a     *)
(* worker handles with http_proxy.c.  File descriptors are numbers the     *)
(* kernel reuses, lowest first; a connection is what a number stands for.  *)
(* The request queue and the pool come from librequest, whose queue is the *)
(* one of RequestQueue: here it is the FIFO that module implements.        *)
(***************************************************************************)
EXTENDS Naturals, Sequences, FiniteSets

CONSTANTS
    Client,        \* clients; each opens one connection and sends one request
    Worker,        \* threads the pool may create
    FdLimit,       \* descriptors the process may have open, besides sockfd
    Parts,         \* pieces in which a client's request arrives
    Segments,      \* pieces in which a target sends its response
    MaxAddr,       \* addresses getaddrinfo may return for a host
    AllocFails,    \* may malloc, socket setup or thread creation fail?
    AllRefuse,     \* may every address of a host refuse the connection?
    PeersFail      \* may clients leave early and targets close or reset?

ASSUME ProxyConstants ==
    /\ FdLimit \in Nat /\ Parts \in Nat \ {0}
    /\ Segments \in Nat \ {0} /\ MaxAddr \in Nat \ {0}
    /\ {AllocFails, AllRefuse, PeersFail} \subseteq BOOLEAN

Fd == 1..FdLimit
NoFd == 0

ClientConn(c) == <<"client", c>>
TargetConn(w) == <<"target", w>>
ClientConns == {ClientConn(c) : c \in Client}
Conn == ClientConns \cup {TargetConn(w) : w \in Worker}
NoConn == <<"none">>

Request(c, i) == <<"request", c, i>>
Reply(c, i) == <<"reply", c, i>>
Message == {Request(c, i) : c \in Client, i \in 1..Parts}
               \cup {Reply(c, i) : c \in Client, i \in 1..Segments}

VARIABLES
    mpc,        \* where main is
    stop,       \* the flag set by handle_sigint
    newsockfd,  \* main's last accepted descriptor
    pool,       \* the workers thread_pool_init created
    queue,      \* descriptors of the requests in the queue
    qclosed,    \* has the queue been closed?
    fd,         \* the connection behind every descriptor
    link,       \* life of every client's connection
    sent,       \* pieces of its request every client has sent
    inbox,      \* data that arrived on a connection and was not read
    ended,      \* has the peer of a connection closed or reset it?
    wpc,        \* where each worker is
    csock,      \* each worker's client_socket
    tsock,      \* each worker's target_socket, sockfd while connecting
    left,       \* addresses a worker may still try, the current one included
    buffer,     \* the data each worker received last
    asked,      \* what a target got over its connection, piece by piece
    answered,   \* pieces of the response it has sent
    got,        \* what every client received, in order
    wild        \* history: has a worker been given a socket that is closed?

vars == <<mpc, stop, newsockfd, pool, queue, qclosed, fd, link, sent, inbox,
          ended, wpc, csock, tsock, left, buffer, asked, answered, got, wild>>

mainVars == <<mpc, stop, newsockfd, pool, qclosed>>
handlerVars == <<csock, tsock, left, buffer, wild>>
peerVars == <<link, sent, inbox, ended, asked, answered, got>>

Init ==
    /\ mpc = "start"
    /\ stop = FALSE
    /\ newsockfd = NoFd
    /\ pool = {}
    /\ queue = <<>>
    /\ qclosed = FALSE
    /\ fd = [f \in Fd |-> NoConn]
    /\ link = [c \in Client |-> "none"]
    /\ sent = [c \in Client |-> 0]
    /\ inbox = [x \in Conn |-> <<>>]
    /\ ended = [x \in Conn |-> "no"]
    /\ wpc = [w \in Worker |-> "unborn"]
    /\ csock = [w \in Worker |-> NoFd]
    /\ tsock = [w \in Worker |-> NoFd]
    /\ left = [w \in Worker |-> 0]
    /\ buffer = [w \in Worker |-> <<>>]
    /\ asked = [w \in Worker |-> <<>>]
    /\ answered = [w \in Worker |-> 0]
    /\ got = [c \in Client |-> <<>>]
    /\ wild = FALSE

------------------------------------------------------------------------------
(* Descriptors                                                             *)

Open == {f \in Fd : fd[f] # NoConn}

\* The kernel hands out the lowest descriptor that is not open.
LowestFree(f) == f \in Fd \ Open /\ \A g \in Fd \ Open : f <= g

\* The connection behind a descriptor; NoConn stands for EBADF.
ConnOf(f) == IF f \in Fd THEN fd[f] ELSE NoConn

\* close(f): whatever connection f stands for now is gone, with its data.
Close(f) ==
    LET x == ConnOf(f)
    IN  /\ fd' = [g \in Fd |-> IF g = f THEN NoConn ELSE fd[g]]
        /\ link' = [c \in Client |-> IF x = ClientConn(c) THEN "closed" ELSE link[c]]
        /\ inbox' = [y \in Conn |-> IF y = x THEN <<>> ELSE inbox[y]]
        /\ ended' = [y \in Conn |-> IF y = x THEN "no" ELSE ended[y]]
        /\ asked' = [w \in Worker |-> IF x = TargetConn(w) THEN <<>> ELSE asked[w]]
        /\ answered' = [w \in Worker |-> IF x = TargetConn(w) THEN 0 ELSE answered[w]]

\* The first k pieces that arrived on x are read.
Read(x, k) == inbox' = [inbox EXCEPT ![x] = SubSeq(@, k + 1, Len(@))]

Die == mpc' = "dead"

Running == mpc \notin {"dead", "done"}

------------------------------------------------------------------------------
(* main                                                                    *)

\* queue_init and thread_pool_init(que, num_threads).
StartPool ==
    /\ mpc = "start"
    /\ mpc' = "listen"
    /\ pool' \in SUBSET Worker
    /\ wpc' = [w \in Worker |-> IF w \in pool' THEN "take" ELSE "unborn"]
    /\ UNCHANGED <<stop, newsockfd, queue, qclosed, fd, handlerVars, peerVars>>

\* socket, setsockopt, bind, listen.
Listen ==
    /\ mpc = "listen"
    /\ mpc' = "arm"
    /\ UNCHANGED <<stop, newsockfd, pool, queue, qclosed, fd, wpc, handlerVars,
                   peerVars>>

\* sigaction(SIGINT, ...).
InstallHandler ==
    /\ mpc = "arm"
    /\ mpc' = "test"
    /\ UNCHANGED <<stop, newsockfd, pool, queue, qclosed, fd, wpc, handlerVars,
                   peerVars>>

\* Each of these calls may fail, and then the program exits.
SetupFails ==
    /\ AllocFails
    /\ mpc \in {"start", "listen", "arm"}
    /\ Die
    /\ UNCHANGED <<stop, newsockfd, pool, queue, qclosed, fd, wpc, handlerVars,
                   peerVars>>

TestStop ==
    /\ mpc = "test"
    /\ mpc' = IF stop THEN "closing" ELSE "accept"
    /\ UNCHANGED <<stop, newsockfd, pool, queue, qclosed, fd, wpc, handlerVars,
                   peerVars>>

\* accept blocks until a client has connected; SIGINT does not end it, the
\* handler is installed with SA_RESTART.
Accept(c) ==
    /\ mpc = "accept"
    /\ link[c] = "backlog"
    /\ \E f \in Fd :
          /\ LowestFree(f)
          /\ fd' = [fd EXCEPT ![f] = ClientConn(c)]
          /\ newsockfd' = f
    /\ link' = [link EXCEPT ![c] = "open"]
    /\ mpc' = "submit"
    /\ UNCHANGED <<sent, stop, pool, queue, qclosed, inbox, ended, wpc, handlerVars,
                   asked, answered, got>>

\* Without a free descriptor accept fails and the program exits.
AcceptFails ==
    /\ mpc = "accept"
    /\ \E c \in Client : link[c] = "backlog"
    /\ Open = Fd
    /\ Die
    /\ UNCHANGED <<stop, newsockfd, pool, queue, qclosed, fd, wpc, handlerVars,
                   peerVars>>

\* The request is allocated and enqueued; if a malloc fails, the loop goes on
\* and the socket is neither served nor closed.
Submit ==
    /\ mpc = "submit"
    /\ mpc' = "test"
    /\ \/ queue' = Append(queue, newsockfd)
       \/ AllocFails /\ UNCHANGED queue
    /\ UNCHANGED <<stop, newsockfd, pool, qclosed, fd, wpc, handlerVars,
                   peerVars>>

\* close(sockfd): connections that were not accepted are reset.
CloseListener ==
    /\ mpc = "closing"
    /\ mpc' = "qclose"
    /\ link' = [c \in Client |-> IF link[c] = "backlog" THEN "refused" ELSE link[c]]
    /\ UNCHANGED <<sent, stop, newsockfd, pool, queue, qclosed, fd, inbox, ended, wpc,
                   handlerVars, asked, answered, got>>

\* Mutant: main forgets queue_close.
CloseQueueForgotten ==
    /\ mpc = "qclose"
    /\ mpc' = "join"
    /\ UNCHANGED <<stop, newsockfd, pool, queue, qclosed, fd, wpc, handlerVars,
                   peerVars>>

CloseQueue ==
    /\ mpc = "qclose"
    /\ mpc' = "join"
    /\ qclosed' = TRUE
    /\ UNCHANGED <<stop, newsockfd, pool, queue, fd, wpc, handlerVars, peerVars>>

\* Mutant: thread_pool_destroy does not wait for the workers.
ShutdownAtOnce ==
    /\ mpc = "join"
    /\ mpc' = "done"
    /\ UNCHANGED <<stop, newsockfd, pool, queue, qclosed, fd, wpc, handlerVars,
                   peerVars>>

\* thread_pool_destroy joins every worker; queue_destroy; pthread_exit.
Shutdown ==
    /\ mpc = "join"
    /\ \A w \in pool : wpc[w] = "exited"
    /\ mpc' = "done"
    /\ UNCHANGED <<stop, newsockfd, pool, queue, qclosed, fd, wpc, handlerVars,
                   peerVars>>

\* SIGINT kills the process until the handler is installed.
handle_sigint ==
    /\ Running
    /\ ~stop
    /\ IF mpc \in {"start", "listen", "arm"}
       THEN Die /\ UNCHANGED stop
       ELSE stop' = TRUE /\ UNCHANGED mpc
    /\ UNCHANGED <<newsockfd, pool, queue, qclosed, fd, wpc, handlerVars,
                   peerVars>>

------------------------------------------------------------------------------
(* A worker: do_work of librequest and handle_client_request               *)

WorkerAt(w, p) == Running /\ wpc[w] = p

WorkerGoto(w, p) == wpc' = [wpc EXCEPT ![w] = p]

Dequeue(w) ==
    /\ WorkerAt(w, "take")
    /\ queue # <<>>
    /\ queue' = Tail(queue)
    /\ csock' = [csock EXCEPT ![w] = Head(queue)]
    /\ WorkerGoto(w, "receive")
    /\ UNCHANGED <<mainVars, wild, fd, tsock, left, buffer, peerVars>>

DequeueNull(w) ==
    /\ WorkerAt(w, "take")
    /\ queue = <<>>
    /\ qclosed
    /\ WorkerGoto(w, "exited")
    /\ UNCHANGED <<mainVars, queue, fd, handlerVars, peerVars>>

\* An early return of handle_client_request: client_socket stays open.
ReturnEarly(w) ==
    /\ WorkerGoto(w, "take")
    /\ csock' = [csock EXCEPT ![w] = NoFd]
    /\ tsock' = [tsock EXCEPT ![w] = NoFd]
    /\ left' = [left EXCEPT ![w] = 0]
    /\ buffer' = [buffer EXCEPT ![w] = <<>>]
    /\ UNCHANGED <<mainVars, wild, queue, fd>>

\* receive_client_request: one recv takes the first pieces that have arrived,
\* as many as the buffer holds, be they the whole request or not.
ReceiveRequest(w) ==
    /\ WorkerAt(w, "receive")
    /\ LET x == ConnOf(csock[w])
       IN  /\ x # NoConn
           /\ \E k \in 1..Len(inbox[x]) :
                 /\ buffer' = [buffer EXCEPT ![w] = SubSeq(inbox[x], 1, k)]
                 /\ Read(x, k)
    /\ WorkerGoto(w, "parse")
    /\ UNCHANGED <<sent, mainVars, wild, queue, fd, csock, tsock, left, link, ended, asked,
                   answered, got>>

\* Mutant: recv is tried again when it fails.
ReceiveRetries(w) ==
    /\ WorkerAt(w, "receive")
    /\ LET x == ConnOf(csock[w])
       IN  x # NoConn => inbox[x] = <<>> /\ ended[x] # "no"
    /\ UNCHANGED vars

ReceiveFails(w) ==
    /\ WorkerAt(w, "receive")
    /\ LET x == ConnOf(csock[w])
       IN  x # NoConn => inbox[x] = <<>> /\ ended[x] # "no"
    /\ ReturnEarly(w)
    /\ UNCHANGED peerVars

\* parse_http_request and getaddrinfo accept the request line and its host,
\* whether or not the rest of the request is in the buffer ...
Resolve(w) ==
    /\ WorkerAt(w, "parse")
    /\ \E c \in Client : buffer[w][1] = Request(c, 1)
    /\ \E n \in 1..MaxAddr : left' = [left EXCEPT ![w] = n]
    /\ WorkerGoto(w, "socket")
    /\ UNCHANGED <<mainVars, wild, queue, fd, csock, tsock, buffer, peerVars>>

\* ... or reject them: no absolute http URL, a part of one, an unknown host.
Reject(w) ==
    /\ WorkerAt(w, "parse")
    /\ ReturnEarly(w)
    /\ UNCHANGED peerVars

\* connect_to_target_server: socket for the next address.
OpenSocket(w) ==
    /\ WorkerAt(w, "socket")
    /\ \E f \in Fd :
          /\ LowestFree(f)
          /\ fd' = [fd EXCEPT ![f] = TargetConn(w)]
          /\ tsock' = [tsock EXCEPT ![w] = f]
    /\ WorkerGoto(w, "connect")
    /\ UNCHANGED <<mainVars, wild, queue, csock, left, buffer, peerVars>>

\* No descriptor: the next address is tried, and after the last one the
\* function returns -1.
OpenSocketFails(w) ==
    /\ WorkerAt(w, "socket")
    /\ Open = Fd
    /\ \/ left[w] = 1 /\ ReturnEarly(w)
       \/ /\ left[w] > 1
          /\ left' = [left EXCEPT ![w] = @ - 1]
          /\ UNCHANGED <<mainVars, wild, queue, fd, wpc, csock, tsock, buffer>>
    /\ UNCHANGED peerVars

Connect(w) ==
    /\ WorkerAt(w, "connect")
    /\ left' = [left EXCEPT ![w] = 0]
    /\ WorkerGoto(w, "forward")
    /\ UNCHANGED <<mainVars, wild, queue, fd, csock, tsock, buffer, peerVars>>

\* Mutant: the loop goes on after the last address.
ConnectRefusedPastEnd(w) ==
    /\ WorkerAt(w, "connect")
    /\ Close(tsock[w])
    /\ left' = [left EXCEPT ![w] = @ - 1]
    /\ WorkerGoto(w, "socket")
    /\ UNCHANGED <<sent, mainVars, wild, queue, csock, tsock, buffer, got>>

\* The socket is closed; there is a next address, or the function returns
\* sockfd, the number of the socket it has just closed.
ConnectRefused(w) ==
    /\ WorkerAt(w, "connect")
    /\ Close(tsock[w])
    /\ left' = [left EXCEPT ![w] = @ - 1]
    /\ \/ left[w] > 1 /\ WorkerGoto(w, "socket") /\ UNCHANGED wild
       \/ left[w] = 1 /\ AllRefuse /\ WorkerGoto(w, "forward") /\ wild' = TRUE
    /\ UNCHANGED <<sent, mainVars, queue, csock, tsock, buffer, got>>

\* forward_request: what was received goes to whoever is at the other end of
\* target_socket; an error is only reported.
forward_request(w) ==
    /\ WorkerAt(w, "forward")
    /\ LET x == ConnOf(tsock[w])
       IN  /\ asked' = [v \in Worker |-> IF x = TargetConn(v) THEN asked[v] \o buffer[w]
                                         ELSE asked[v]]
           /\ got' = [c \in Client |-> IF x = ClientConn(c) THEN got[c] \o buffer[w]
                                       ELSE got[c]]
    /\ WorkerGoto(w, "response")
    /\ UNCHANGED <<sent, mainVars, queue, fd, handlerVars, link, inbox, ended, answered>>

\* Mutant: after an empty read the request is still in the buffer and is sent.
ReceiveResponseStale(w) ==
    /\ WorkerAt(w, "response")
    /\ LET x == ConnOf(tsock[w])
       IN  /\ x # NoConn
           /\ \/ \E k \in 1..Len(inbox[x]) :
                    /\ buffer' = [buffer EXCEPT ![w] = SubSeq(inbox[x], 1, k)]
                    /\ Read(x, k)
              \/ inbox[x] = <<>> /\ ended[x] = "closed" /\ UNCHANGED <<buffer, inbox>>
    /\ WorkerGoto(w, "relay")
    /\ UNCHANGED <<sent, mainVars, wild, queue, fd, csock, tsock, left, link, ended, asked,
                   answered, got>>

\* forward_response: one recv takes what has arrived, which may be a part of
\* the response, or nothing if the peer has closed.
ReceiveResponse(w) ==
    /\ WorkerAt(w, "response")
    /\ LET x == ConnOf(tsock[w])
       IN  /\ x # NoConn
           /\ \/ \E k \in 1..Len(inbox[x]) :
                    /\ buffer' = [buffer EXCEPT ![w] = SubSeq(inbox[x], 1, k)]
                    /\ Read(x, k)
              \/ /\ inbox[x] = <<>>
                 /\ ended[x] = "closed"
                 /\ buffer' = [buffer EXCEPT ![w] = <<>>]
                 /\ UNCHANGED inbox
    /\ WorkerGoto(w, "relay")
    /\ UNCHANGED <<sent, mainVars, wild, queue, fd, csock, tsock, left, link, ended, asked,
                   answered, got>>

\* A recv or a send that fails, on a closed descriptor or a reset connection,
\* exits the process; so does the SIGPIPE of that send.
ResponseFails(w) ==
    /\ \/ /\ WorkerAt(w, "response")
          /\ LET x == ConnOf(tsock[w])
             IN  x # NoConn => inbox[x] = <<>> /\ ended[x] = "reset"
       \/ /\ WorkerAt(w, "relay")
          /\ LET x == ConnOf(csock[w])
             IN  x # NoConn => ended[x] = "reset"
    /\ Die
    /\ UNCHANGED <<stop, newsockfd, pool, queue, qclosed, fd, wpc, handlerVars,
                   peerVars>>

\* The rest of forward_response.
RelayResponse(w) ==
    /\ WorkerAt(w, "relay")
    /\ LET x == ConnOf(csock[w])
       IN  /\ x # NoConn
           /\ ended[x] # "reset"
           /\ got' = [c \in Client |-> IF x = ClientConn(c) THEN got[c] \o buffer[w]
                                       ELSE got[c]]
    /\ WorkerGoto(w, "close_target")
    /\ UNCHANGED <<sent, mainVars, queue, fd, handlerVars, link, inbox, ended, asked,
                   answered>>

\* Mutant: the client's socket is closed twice and the target's never.
CloseTargetWrong(w) ==
    /\ WorkerAt(w, "close_target")
    /\ Close(csock[w])
    /\ tsock' = [tsock EXCEPT ![w] = NoFd]
    /\ WorkerGoto(w, "close_client")
    /\ UNCHANGED <<sent, mainVars, wild, queue, csock, left, buffer, got>>

CloseTarget(w) ==
    /\ WorkerAt(w, "close_target")
    /\ Close(tsock[w])
    /\ tsock' = [tsock EXCEPT ![w] = NoFd]
    /\ WorkerGoto(w, "close_client")
    /\ UNCHANGED <<sent, mainVars, wild, queue, csock, left, buffer, got>>

CloseClient(w) ==
    /\ WorkerAt(w, "close_client")
    /\ Close(csock[w])
    /\ csock' = [csock EXCEPT ![w] = NoFd]
    /\ buffer' = [buffer EXCEPT ![w] = <<>>]
    /\ WorkerGoto(w, "take")
    /\ UNCHANGED <<sent, mainVars, wild, queue, tsock, left, got>>

------------------------------------------------------------------------------
(* Clients and targets                                                     *)

Listening == mpc \in {"arm", "test", "accept", "submit", "closing"}

ClientConnect(c) ==
    /\ Listening
    /\ link[c] = "none"
    /\ link' = [link EXCEPT ![c] = "backlog"]
    /\ UNCHANGED <<sent, mainVars, queue, fd, wpc, handlerVars, inbox, ended, asked,
                   answered, got>>

Connected(c) == link[c] \in {"backlog", "open"} /\ ended[ClientConn(c)] = "no"

\* The next piece of the client's request arrives: TCP carries a stream, and
\* a request comes in as many pieces as the network likes.
ClientSend(c) ==
    /\ Running
    /\ Connected(c)
    /\ sent[c] < Parts
    /\ sent' = [sent EXCEPT ![c] = @ + 1]
    /\ inbox' = [inbox EXCEPT ![ClientConn(c)] = Append(@, Request(c, sent[c] + 1))]
    /\ UNCHANGED <<mainVars, queue, fd, wpc, handlerVars, link, ended, asked,
                   answered, got>>

\* A peer closes its end, or its connection is reset, also after the closing.
End(x) ==
    \/ ended[x] = "no" /\ ended' = [ended EXCEPT ![x] = "closed"]
    \/ PeersFail /\ ended[x] # "reset" /\ ended' = [ended EXCEPT ![x] = "reset"]

ClientLeave(c) ==
    /\ PeersFail
    /\ Running
    /\ link[c] \in {"backlog", "open"}
    /\ End(ClientConn(c))
    /\ UNCHANGED <<sent, mainVars, queue, fd, wpc, handlerVars, link, inbox, asked,
                   answered, got>>

\* A target that got something may answer; it owes an answer only to a request
\* it got to its end.
TargetSend(w) ==
    /\ Running
    /\ asked[w] # <<>>
    /\ \E f \in Fd : fd[f] = TargetConn(w)
    /\ ended[TargetConn(w)] = "no"
    /\ answered[w] < Segments
    /\ answered' = [answered EXCEPT ![w] = @ + 1]
    /\ inbox' = [inbox EXCEPT ![TargetConn(w)] = Append(@, Reply(asked[w][1][2], answered[w] + 1))]
    /\ UNCHANGED <<sent, mainVars, queue, fd, wpc, handlerVars, link, ended, asked, got>>

Whole(w) == \E c \in Client : asked[w] = [i \in 1..Parts |-> Request(c, i)]

TargetEnd(w) ==
    /\ Running
    /\ \E f \in Fd : fd[f] = TargetConn(w)
    /\ PeersFail \/ answered[w] = Segments
    /\ End(TargetConn(w))
    /\ UNCHANGED <<sent, mainVars, queue, fd, wpc, handlerVars, link, inbox, asked,
                   answered, got>>

------------------------------------------------------------------------------

MainStep ==
    \/ StartPool \/ Listen \/ InstallHandler \/ SetupFails
    \/ TestStop \/ (\E c \in Client : Accept(c)) \/ AcceptFails \/ Submit
    \/ CloseListener \/ CloseQueue \/ Shutdown

WorkerStep(w) ==
    \/ Dequeue(w) \/ DequeueNull(w) \/ ReceiveRequest(w) \/ ReceiveFails(w)
    \/ Resolve(w) \/ Reject(w) \/ OpenSocket(w) \/ OpenSocketFails(w)
    \/ Connect(w) \/ ConnectRefused(w)
    \/ forward_request(w) \/ ReceiveResponse(w) \/ ResponseFails(w)
    \/ RelayResponse(w) \/ CloseTarget(w) \/ CloseClient(w)

ClientStep(c) == ClientConnect(c) \/ ClientSend(c) \/ ClientLeave(c)

TargetStep(w) == TargetSend(w) \/ TargetEnd(w)

Next ==
    \/ MainStep
    \/ handle_sigint
    \/ \E w \in Worker : WorkerStep(w) \/ TargetStep(w)
    \/ \E c \in Client : ClientStep(c)

Spec == Init /\ [][Next]_vars

\* The threads of the proxy are scheduled, a connected client that stays sends
\* its request to the end, and a target that stays answers a whole request.
\* Nothing is assumed of a target that was given a part of a request.
FairSpec ==
    /\ Spec
    /\ WF_vars(MainStep)
    /\ \A w \in Worker : WF_vars(WorkerStep(w)) /\ WF_vars(Whole(w) /\ TargetSend(w))
    /\ \A c \in Client : WF_vars(ClientSend(c))

------------------------------------------------------------------------------
(* Properties                                                              *)

Handling == {"receive", "parse", "socket", "connect", "forward", "response",
             "relay", "close_target", "close_client"}

\* Every variable of the proxy and of its peers has its type.
TypeOK ==
    /\ mpc \in {"start", "listen", "arm", "test", "accept", "submit", "closing",
                "qclose", "join", "done", "dead"}
    /\ stop \in BOOLEAN /\ qclosed \in BOOLEAN
    /\ newsockfd \in Fd \cup {NoFd}
    /\ pool \in SUBSET Worker
    /\ queue \in Seq(Fd)
    /\ fd \in [Fd -> Conn \cup {NoConn}]
    /\ link \in [Client -> {"none", "backlog", "open", "closed", "refused"}]
    /\ sent \in [Client -> 0..Parts]
    /\ inbox \in [Conn -> Seq(Message)]
    /\ ended \in [Conn -> {"no", "closed", "reset"}]
    /\ wpc \in [Worker -> {"unborn", "take", "exited"} \cup Handling]
    /\ csock \in [Worker -> Fd \cup {NoFd}]
    /\ tsock \in [Worker -> Fd \cup {NoFd}]
    /\ left \in [Worker -> 0..MaxAddr]
    /\ buffer \in [Worker -> Seq(Message)]
    /\ asked \in [Worker -> Seq(Message)]
    /\ answered \in [Worker -> 0..Segments]
    /\ got \in [Client -> Seq(Message)]
    /\ wild \in BOOLEAN

\* As long as connect_to_target_server has not returned a closed socket, a
\* client receives nothing but the response to its own request, in order and
\* without gaps or repetitions: no response, and no request, ever crosses over
\* to another client, whatever descriptors the workers reuse meanwhile.
OwnResponseOnly ==
    ~wild => \A c \in Client : \A i \in DOMAIN got[c] : got[c][i] = Reply(c, i)

\* The places that hold an accepted client's descriptor: main between accept
\* and the enqueue, the queue, a worker's client_socket.
Holders(f) ==
    {<<"main">> : x \in {y \in {1} : mpc = "submit" /\ newsockfd = f}}
        \cup {<<"queue", i>> : i \in {j \in DOMAIN queue : queue[j] = f}}
        \cup {<<"worker", w>> : w \in {v \in Worker : csock[v] = f}}

\* Where a worker holds a target_socket.
Connecting == {"connect", "forward", "response", "relay", "close_target"}

\* Up to then a descriptor in use stands for one connection and one part of the
\* proxy uses it: what main, the queue or a worker holds as a client's socket is
\* open, is a client's connection and is held nowhere else; a worker's
\* target_socket is its own open connection from socket to close.
DescriptorsOwned == ~wild =>
    /\ \A f \in Fd : \A a, b \in Holders(f) : a = b
    /\ \A f \in Fd : Holders(f) # {} => fd[f] \in ClientConns
    /\ \A w \in Worker : wpc[w] \in Connecting => ConnOf(tsock[w]) = TargetConn(w)
    /\ \A f, g \in Open : fd[f] = fd[g] => f = g

\* The shutdown loses no request: when main is done, every connection that
\* was put into the queue has been handled to its end.
DrainedAtExit ==
    mpc = "done" /\ pool # {} =>
        queue = <<>> /\ \A w \in Worker : wpc[w] \notin Handling

\* The handler waits for a target that was given only a part of the request,
\* sends nothing and stays: the one recv of the request did not get all of it.
WaitsForRest(w) ==
    /\ wpc[w] = "response"
    /\ ~Whole(w)
    /\ inbox[TargetConn(w)] = <<>>
    /\ ended[TargetConn(w)] = "no"

\* A handler comes to an end, if the peers do what they owe or go away, unless
\* the target waits for the rest of a request that the proxy will never read.
\* A worker that reads from another client's connection, having been given a
\* closed socket, may wait for ever too.
HandlerEnds ==
    \A w \in Worker :
        wpc[w] \in Handling ~> wpc[w] = "take" \/ WaitsForRest(w) \/ ~Running \/ wild

\* Once SIGINT has been handled main ends, whatever the handlers and the queue
\* were doing, with two exceptions: it may sit in the restarted accept as long
\* as no client connects (the next client makes it test the flag and shut
\* down), and a handler whose target waits for the rest of a request holds it
\* up in pthread_join.
ShutdownEnds ==
    stop ~> \/ ~Running \/ wild
            \/ mpc = "accept" /\ \A c \in Client : link[c] # "backlog"
            \/ \E w \in pool : WaitsForRest(w)

\* http_proxy.c on connect_to_target_server: "@return the socket for the
\* target server or -1 on failure to connect".
SocketForTarget ==
    \A w \in Worker : wpc[w] = "forward" => ConnOf(tsock[w]) = TargetConn(w)

\* http_proxy.c on forward_response: "Receives the response from the target
\* socket and sends it to the client socket."
ResponseForwarded ==
    \A c \in Client :
        link[c] = "closed" => got[c] = [i \in 1..Segments |-> Reply(c, i)]
==============================================================================
