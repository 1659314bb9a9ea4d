--------------------------- MODULE HttpProxyProofs ---------------------------
(***************************************************************************)
(* Proofs about the HTTP proxy of Final/proxy_server, for any clients,     *)
(* workers, descriptor table, response length and number of addresses and  *)
(* whichever calls and peers fail: the types, who owns a descriptor, whose *)
(* response a client gets and what the shutdown leaves behind.             *)
(***************************************************************************)
EXTENDS HttpProxy, SequenceTheorems, TLAPS

------------------------------------------------------------------------------
(* The inductive invariant                                                 *)

\* What the types need of the control state: main submits a descriptor, the
\* loop over the addresses has one left, and a parsed request is in the buffer.
InUse ==
    /\ mpc = "submit" => newsockfd \in Fd
    /\ \A w \in Worker :
          /\ wpc[w] \in {"socket", "connect"} => left[w] > 0
          /\ wpc[w] \in {"parse", "socket", "connect", "forward"} => buffer[w] # <<>>

\* What the shutdown relies on: only workers of the pool run, none before
\* thread_pool_init, one leaves its loop only when the closed queue is empty, nothing is submitted to a closed
\* queue, and main is done only when the pool has been joined.
Draining ==
    /\ mpc = "start" => pool = {}
    /\ \A w \in Worker : w \notin pool => wpc[w] = "unborn"
    /\ \A w \in Worker : wpc[w] = "exited" => qclosed /\ queue = <<>>
    /\ qclosed => mpc \in {"join", "done", "dead"}
    /\ mpc = "done" => \A w \in pool : wpc[w] = "exited"

\* Worker w's client_socket is the connection of client c.
Serves(w, c) == csock[w] \in Fd /\ fd[csock[w]] = ClientConn(c)

\* A descriptor that main, the queue or a worker holds is a client's and is
\* held once.
HeldOnce ==
    /\ \A i \in DOMAIN queue : fd[queue[i]] \in ClientConns
    /\ mpc = "submit" => fd[newsockfd] \in ClientConns
    /\ \A w \in Worker : csock[w] \in Fd => fd[csock[w]] \in ClientConns
    /\ \A i, j \in DOMAIN queue : queue[i] = queue[j] => i = j
    /\ \A i \in DOMAIN queue : \A w \in Worker : csock[w] # queue[i]
    /\ mpc = "submit" => /\ \A i \in DOMAIN queue : queue[i] # newsockfd
                         /\ \A w \in Worker : csock[w] # newsockfd
    /\ \A v, w \in Worker : csock[v] \in Fd /\ csock[v] = csock[w] => v = w

\* A connection is behind one descriptor at most: a client's only while the
\* client is connected, a worker's target only between socket and close.
ConnsApart ==
    /\ \A w \in Worker : wpc[w] \in Connecting =>
          tsock[w] \in Fd /\ fd[tsock[w]] = TargetConn(w)
    /\ \A w \in Worker : \A f \in Fd : fd[f] = TargetConn(w) => wpc[w] \in Connecting
    /\ \A c \in Client : \A f \in Fd : fd[f] = ClientConn(c) => link[c] = "open"
    /\ \A f, g \in Fd : fd[f] = fd[g] /\ fd[f] # NoConn => f = g

\* What travels: a client's connection carries only pieces of its request.
ClientFlow(c) ==
    \A i \in DOMAIN inbox[ClientConn(c)] : inbox[ClientConn(c)][i][2] = c

\* The worker that serves a client has pieces of its request in the buffer until
\* it has forwarded them, and then its target knows that client and no other.  The
\* pieces the target has sent wait, in order, for the worker's one recv; what
\* that took is the start of the response to the client.
Asking == {"parse", "socket", "connect", "forward"}
Answering == {"response", "relay", "close_target"}

WorkerFlow(w) ==
    /\ \A c \in Client : Serves(w, c) =>
          /\ wpc[w] \in Asking => \A i \in DOMAIN buffer[w] : buffer[w][i][2] = c
          /\ wpc[w] \in Answering => asked[w] # <<>> /\ asked[w][1][2] = c
          /\ wpc[w] = "response" =>
                /\ Len(inbox[TargetConn(w)]) = answered[w]
                /\ \A i \in DOMAIN inbox[TargetConn(w)] : inbox[TargetConn(w)][i] = Reply(c, i)
          /\ wpc[w] = "relay" => \A i \in DOMAIN buffer[w] : buffer[w][i] = Reply(c, i)
    /\ wpc[w] \notin Answering =>
          asked[w] = <<>> /\ inbox[TargetConn(w)] = <<>> /\ answered[w] = 0

DataFlow == (\A c \in Client : ClientFlow(c)) /\ (\A w \in Worker : WorkerFlow(w))

\* A client that has not been answered has received nothing: one that is not
\* accepted yet, that main or the queue holds, or whose worker has not relayed.
Unanswered == {"receive", "parse", "socket", "connect", "forward", "response", "relay"}

NothingYet ==
    /\ \A c \in Client : link[c] \in {"none", "backlog"} => got[c] = <<>>
    /\ \A c \in Client : mpc = "submit" /\ fd[newsockfd] = ClientConn(c) => got[c] = <<>>
    /\ \A c \in Client : \A i \in DOMAIN queue : fd[queue[i]] = ClientConn(c) => got[c] = <<>>
    /\ \A w \in Worker : \A c \in Client : wpc[w] \in Unanswered /\ Serves(w, c) =>
          got[c] = <<>>

Untangled == HeldOnce /\ ConnsApart /\ DataFlow /\ NothingYet /\ OwnResponseOnly

ProxyInv == TypeOK /\ InUse /\ Draining /\ (~wild => Untangled)

------------------------------------------------------------------------------
(* Connections, messages and the sequences they travel in                  *)

\* Different ends have different connections, and none of them is NoConn.
LEMMA Conns ==
  /\ \A c, d \in Client : ClientConn(c) = ClientConn(d) => c = d
  /\ \A v, w \in Worker : TargetConn(v) = TargetConn(w) => v = w
  /\ \A c \in Client : \A w \in Worker : ClientConn(c) # TargetConn(w)
  /\ \A c \in Client : ClientConn(c) # NoConn /\ ClientConn(c) \in Conn
  /\ \A w \in Worker : TargetConn(w) # NoConn /\ TargetConn(w) \in Conn
                       /\ TargetConn(w) \notin ClientConns
  /\ NoConn \notin Conn /\ NoConn \notin ClientConns
BY DEF ClientConn, TargetConn, NoConn, Conn, ClientConns

\* Which messages there are, and that a message names its client.
LEMMA Messages ==
  /\ \A c \in Client : \A i \in 1..Parts : Request(c, i) \in Message
  /\ \A c \in Client : \A i \in Nat : Request(c, i)[2] = c
  /\ \A c \in Client : \A i \in 1..Segments : Reply(c, i) \in Message
  /\ \A m \in Message : m[2] \in Client
BY DEF Request, Reply, Message

\* Number 0 is no descriptor.
LEMMA Descriptors == NoFd \notin Fd /\ Fd \subseteq Nat /\ 0 \notin Fd
BY ProxyConstants DEF NoFd, Fd

\* A part of a sequence of messages.
LEMMA Pieces ==
  ASSUME NEW S, NEW s \in Seq(S), NEW k \in 1..Len(s)
  PROVE  /\ SubSeq(s, 1, k) \in Seq(S) /\ SubSeq(s, 1, k) # <<>>
         /\ DOMAIN SubSeq(s, 1, k) \subseteq DOMAIN s
         /\ \A i \in DOMAIN SubSeq(s, 1, k) : SubSeq(s, 1, k)[i] = s[i]
         /\ SubSeq(s, k + 1, Len(s)) \in Seq(S)
         /\ \A i \in DOMAIN SubSeq(s, k + 1, Len(s)) :
               i + k \in DOMAIN s /\ SubSeq(s, k + 1, Len(s))[i] = s[i + k]
OBVIOUS

\* close(f) keeps the types of all it changes.
LEMMA CloseType ==
  ASSUME TypeOK, NEW f \in Fd \cup {NoFd}, Close(f)
  PROVE  /\ fd' \in [Fd -> Conn \cup {NoConn}]
         /\ link' \in [Client -> {"none", "backlog", "open", "closed", "refused"}]
         /\ inbox' \in [Conn -> Seq(Message)]
         /\ ended' \in [Conn -> {"no", "closed", "reset"}]
         /\ asked' \in [Worker -> Seq(Message)]
         /\ answered' \in [Worker -> 0..Segments]
<1>1. inbox' \in [Conn -> Seq(Message)]
  BY DEF TypeOK, Close
<1> QED
  BY <1>1, ProxyConstants DEF TypeOK, Close

------------------------------------------------------------------------------
(* Types                                                                   *)

\* A buffer that holds a parsed request starts with a message.
LEMMA FirstMessage ==
  ASSUME TypeOK, InUse, NEW w \in Worker,
         wpc[w] \in {"parse", "socket", "connect", "forward"}
  PROVE  buffer[w][1] \in Message /\ 1 \in DOMAIN buffer[w]
BY EmptySeq, ElementOfSeq, LenProperties DEF TypeOK, InUse

\* An early return keeps the types of the worker's variables.
LEMMA ReturnType ==
  ASSUME TypeOK, NEW w \in Worker, ReturnEarly(w), UNCHANGED peerVars
  PROVE  TypeOK'
<1> USE DEF TypeOK, ReturnEarly, WorkerGoto
<1>1. wild' \in BOOLEAN /\ stop' \in BOOLEAN /\ qclosed' \in BOOLEAN
  BY Zenon DEF mainVars
<1>2. buffer' \in [Worker -> Seq(Message)]
  OBVIOUS
<1>3. left' \in [Worker -> 0..MaxAddr]
  BY ProxyConstants
<1> QED
  BY <1>1, <1>2, <1>3 DEF mainVars, peerVars

\* Every step keeps the types.
LEMMA TypeStep ==
  ASSUME TypeOK, InUse, [Next]_vars
  PROVE  TypeOK'
<1> USE ProxyConstants
<1> USE DEF TypeOK, mainVars, handlerVars, peerVars
<1>1. CASE UNCHANGED vars
  BY <1>1 DEF vars
<1>2. CASE MainStep \/ handle_sigint
  <2>1. CASE StartPool
    BY <2>1 DEF StartPool
  <2>2. CASE Listen \/ InstallHandler \/ SetupFails \/ TestStop \/ Shutdown \/ AcceptFails
    BY <2>2 DEF Listen, InstallHandler, SetupFails, TestStop, Shutdown, AcceptFails, Die
  <2>3. ASSUME NEW c \in Client, Accept(c) PROVE TypeOK'
    BY <2>3, Conns DEF Accept, LowestFree
  <2>4. CASE Submit
    <3>1. Append(queue, newsockfd) \in Seq(Fd)
      BY <2>4, AppendProperties DEF Submit, InUse
    <3>2. queue' = queue \/ queue' = Append(queue, newsockfd)
      BY <2>4, Zenon DEF Submit
    <3>3. queue' \in Seq(Fd)
      BY <3>1, <3>2
    <3> QED
      BY <2>4, <3>3 DEF Submit
  <2>5. CASE CloseListener
    BY <2>5 DEF CloseListener
  <2>6. CASE CloseQueue
    BY <2>6 DEF CloseQueue
  <2>7. CASE handle_sigint
    BY <2>7 DEF handle_sigint, Die
  <2> QED
    BY <1>2, <2>1, <2>2, <2>3, <2>4, <2>5, <2>6, <2>7 DEF MainStep
<1>3. ASSUME NEW w \in Worker, WorkerStep(w)
      PROVE  TypeOK'
  <2> USE DEF WorkerGoto, WorkerAt, Handling
  <2>1. CASE Dequeue(w)
    <3>1. Head(queue) \in Fd /\ Tail(queue) \in Seq(Fd)
      BY <2>1, HeadTailProperties DEF Dequeue
    <3> QED
      BY <2>1, <3>1 DEF Dequeue
  <2>2. CASE DequeueNull(w)
    BY <2>2 DEF DequeueNull
  <2>3. CASE ReceiveRequest(w)
    <3>1. buffer' \in [Worker -> Seq(Message)] /\ inbox' \in [Conn -> Seq(Message)]
      BY <2>3, Pieces DEF ReceiveRequest, Read, ConnOf
    <3> QED
      BY <2>3, <3>1 DEF ReceiveRequest
  <2>4. CASE ReceiveFails(w) \/ Reject(w)
    BY <2>4, ReturnType DEF ReceiveFails, Reject
  <2>5. CASE Resolve(w)
    BY <2>5, SMTT(30) DEF Resolve
  <2>6. CASE OpenSocket(w)
    BY <2>6, Conns, SMTT(30) DEF OpenSocket, LowestFree
  <2>7. CASE OpenSocketFails(w)
    <3>1. CASE ReturnEarly(w)
      BY <2>7, <3>1, ReturnType DEF OpenSocketFails
    <3>2. CASE /\ left[w] > 1
               /\ left' = [left EXCEPT ![w] = @ - 1]
               /\ UNCHANGED <<mainVars, wild, queue, fd, wpc, csock, tsock, buffer>>
      BY <2>7, <3>2, SMTT(30) DEF OpenSocketFails
    <3> QED
      BY <2>7, <3>1, <3>2 DEF OpenSocketFails
  <2>8. CASE Connect(w)
    BY <2>8 DEF Connect
  <2>9. CASE ConnectRefused(w)
    <3>0. wild' \in BOOLEAN
      BY <2>9, Zenon DEF ConnectRefused
    <3>1. left' \in [Worker -> 0..MaxAddr]
      BY <2>9 DEF ConnectRefused, InUse
    <3>2. Close(tsock[w]) /\ tsock[w] \in Fd \cup {NoFd}
      BY <2>9 DEF ConnectRefused
    <3> QED
      BY <2>9, <3>0, <3>1, <3>2, CloseType DEF ConnectRefused
  <2>10. CASE forward_request(w)
    <3>1. buffer[w] \in Seq(Message)
      OBVIOUS
    <3>2. asked' \in [Worker -> Seq(Message)]
      BY <2>10, <3>1, ConcatProperties DEF forward_request
    <3>3. got' \in [Client -> Seq(Message)]
      BY <2>10, <3>1, ConcatProperties DEF forward_request
    <3> QED
      BY <2>10, <3>2, <3>3 DEF forward_request
  <2>11. CASE ReceiveResponse(w)
    <3>1. buffer' \in [Worker -> Seq(Message)] /\ inbox' \in [Conn -> Seq(Message)]
      <4> DEFINE x == ConnOf(tsock[w])
      <4>1. x \in Conn /\ inbox[x] \in Seq(Message)
        BY <2>11 DEF ReceiveResponse, ConnOf
      <4>2. CASE \E k \in 1..Len(inbox[x]) :
                    /\ buffer' = [buffer EXCEPT ![w] = SubSeq(inbox[x], 1, k)]
                    /\ Read(x, k)
        BY <4>1, <4>2, Pieces DEF Read
      <4>3. CASE buffer' = [buffer EXCEPT ![w] = <<>>] /\ UNCHANGED inbox
        BY <4>3
      <4> QED
        BY <2>11, <4>2, <4>3 DEF ReceiveResponse
    <3> QED
      BY <2>11, <3>1 DEF ReceiveResponse
  <2>12. CASE ResponseFails(w)
    BY <2>12 DEF ResponseFails, Die
  <2>13. CASE RelayResponse(w)
    <3>1. got' \in [Client -> Seq(Message)]
      BY <2>13, ConcatProperties DEF RelayResponse
    <3> QED
      BY <2>13, <3>1 DEF RelayResponse
  <2>14. CASE CloseTarget(w)
    BY <2>14, CloseType DEF CloseTarget
  <2>15. CASE CloseClient(w)
    <3>1. /\ fd' \in [Fd -> Conn \cup {NoConn}]
          /\ link' \in [Client -> {"none", "backlog", "open", "closed", "refused"}]
          /\ inbox' \in [Conn -> Seq(Message)]
          /\ ended' \in [Conn -> {"no", "closed", "reset"}]
          /\ asked' \in [Worker -> Seq(Message)]
          /\ answered' \in [Worker -> 0..Segments]
      BY <2>15, CloseType DEF CloseClient
    <3>2. buffer' \in [Worker -> Seq(Message)]
      BY <2>15 DEF CloseClient
    <3>3. csock' \in [Worker -> Fd \cup {NoFd}]
      BY <2>15 DEF CloseClient
    <3> QED
      BY <2>15, <3>1, <3>2, <3>3 DEF CloseClient
  <2> QED
    BY <1>3, <2>1, <2>2, <2>3, <2>4, <2>5, <2>6, <2>7, <2>8, <2>9, <2>10, <2>11, <2>12,
       <2>13, <2>14, <2>15 DEF WorkerStep
<1>4. ASSUME NEW w \in Worker, TargetStep(w)
      PROVE  TypeOK'
  <2>1. CASE TargetSend(w)
    <3>1. asked[w][1][2] \in Client /\ answered[w] + 1 \in 1..Segments
      <4>1. asked[w][1] \in Message
        BY <2>1, EmptySeq, ElementOfSeq, LenProperties DEF TargetSend
      <4> QED
        BY <2>1, <4>1, Messages DEF TargetSend
    <3>2. inbox' \in [Conn -> Seq(Message)]
      BY <2>1, <3>1, Messages, Conns, AppendProperties, SMTT(30) DEF TargetSend
    <3>3. answered' \in [Worker -> 0..Segments]
      BY <2>1, <3>1 DEF TargetSend
    <3> QED
      BY <2>1, <3>2, <3>3 DEF TargetSend
  <2>2. CASE TargetEnd(w)
    BY <2>2 DEF TargetEnd, End
  <2> QED
    BY <1>4, <2>1, <2>2 DEF TargetStep
<1>5. ASSUME NEW c \in Client, ClientStep(c)
      PROVE  TypeOK'
  <2>1. CASE ClientConnect(c)
    BY <2>1 DEF ClientConnect
  <2>2. CASE ClientSend(c)
    <3>1. sent[c] + 1 \in 1..Parts
      BY <2>2 DEF ClientSend
    <3>2. inbox' \in [Conn -> Seq(Message)]
      BY <2>2, <3>1, Messages, Conns, AppendProperties DEF ClientSend
    <3> QED
      BY <2>2, <3>1, <3>2, SMTT(30) DEF ClientSend
  <2>3. CASE ClientLeave(c)
    BY <2>3 DEF ClientLeave, End
  <2> QED
    BY <1>5, <2>1, <2>2, <2>3 DEF ClientStep
<1> QED
  BY <1>1, <1>2, <1>3, <1>4, <1>5 DEF Next

\* Every step keeps what the types need of the control state.
LEMMA InUseStep ==
  ASSUME TypeOK, InUse, [Next]_vars
  PROVE  InUse'
<1> USE DEF InUse, mainVars, handlerVars, peerVars
<1>0. /\ wpc \in [Worker -> {"unborn", "take", "exited"} \cup Handling]
      /\ left \in [Worker -> 0..MaxAddr] /\ buffer \in [Worker -> Seq(Message)]
      /\ inbox \in [Conn -> Seq(Message)]
  BY DEF TypeOK
<1>1. CASE UNCHANGED vars
  BY <1>1 DEF vars
<1>2. CASE MainStep \/ handle_sigint
  <2>1. CASE StartPool
    BY <2>1 DEF StartPool
  <2>2. CASE Listen \/ InstallHandler \/ SetupFails \/ TestStop \/ Shutdown \/ AcceptFails
    BY <2>2 DEF Listen, InstallHandler, SetupFails, TestStop, Shutdown, AcceptFails, Die
  <2>3. ASSUME NEW c \in Client, Accept(c) PROVE InUse'
    BY <2>3 DEF Accept, LowestFree
  <2>4. CASE Submit \/ CloseListener \/ CloseQueue
    BY <2>4 DEF Submit, CloseListener, CloseQueue
  <2>5. CASE handle_sigint
    BY <2>5 DEF handle_sigint, Die
  <2> QED
    BY <1>2, <2>1, <2>2, <2>3, <2>4, <2>5 DEF MainStep
<1>3. ASSUME NEW w \in Worker, WorkerStep(w)
      PROVE  InUse'
  <2> USE <1>0 DEF WorkerGoto, WorkerAt, ReturnEarly
  <2>1. CASE Dequeue(w) \/ DequeueNull(w) \/ ReceiveFails(w) \/ Reject(w)
    BY <2>1 DEF Dequeue, DequeueNull, ReceiveFails, Reject
  <2>2. CASE ReceiveRequest(w)
    <3> DEFINE x == ConnOf(csock[w])
    <3>1. x \in Conn /\ inbox[x] \in Seq(Message)
      BY <2>2 DEF ReceiveRequest, ConnOf, TypeOK
    <3>2. PICK k \in 1..Len(inbox[x]) : buffer' = [buffer EXCEPT ![w] = SubSeq(inbox[x], 1, k)]
      BY <2>2 DEF ReceiveRequest
    <3>3. SubSeq(inbox[x], 1, k) # <<>>
      BY <3>1, Pieces
    <3> QED
      BY <2>2, <3>2, <3>3 DEF ReceiveRequest
  <2>3. CASE Resolve(w)
    BY <2>3 DEF Resolve
  <2>4. CASE OpenSocket(w) \/ Connect(w)
    BY <2>4 DEF OpenSocket, Connect
  <2>5. CASE OpenSocketFails(w)
    <3>1. CASE ReturnEarly(w)
      BY <2>5, <3>1 DEF OpenSocketFails
    <3>2. CASE /\ left[w] > 1
               /\ left' = [left EXCEPT ![w] = @ - 1]
               /\ UNCHANGED <<mainVars, wild, queue, fd, wpc, csock, tsock, buffer>>
      BY <3>2
    <3> QED
      BY <2>5, <3>1, <3>2 DEF OpenSocketFails
  <2>6. CASE ConnectRefused(w)
    BY <2>6 DEF ConnectRefused
  <2>7. CASE forward_request(w) \/ RelayResponse(w) \/ CloseTarget(w) \/ CloseClient(w)
    BY <2>7 DEF forward_request, RelayResponse, CloseTarget, CloseClient
  <2>8. CASE ReceiveResponse(w)
    BY <2>8 DEF ReceiveResponse
  <2>9. CASE ResponseFails(w)
    BY <2>9 DEF ResponseFails, Die
  <2> QED
    BY <1>3, <2>1, <2>2, <2>3, <2>4, <2>5, <2>6, <2>7, <2>8, <2>9 DEF WorkerStep
<1>4. ASSUME NEW w \in Worker, TargetStep(w)
      PROVE  InUse'
  BY <1>4 DEF TargetStep, TargetSend, TargetEnd
<1>5. ASSUME NEW c \in Client, ClientStep(c)
      PROVE  InUse'
  BY <1>5 DEF ClientStep, ClientConnect, ClientSend, ClientLeave
<1> QED
  BY <1>1, <1>2, <1>3, <1>4, <1>5 DEF Next

------------------------------------------------------------------------------
(* The shutdown                                                            *)

\* Every step keeps what the shutdown relies on.
LEMMA DrainingStep ==
  ASSUME TypeOK, Draining, [Next]_vars
  PROVE  Draining'
<1> USE DEF Draining, mainVars, handlerVars, peerVars
<1>0. /\ wpc \in [Worker -> {"unborn", "take", "exited"} \cup Handling]
      /\ pool \subseteq Worker
  BY DEF TypeOK
<1>1. CASE UNCHANGED vars
  BY <1>1 DEF vars
<1>2. CASE MainStep \/ handle_sigint
  <2>1. CASE StartPool
    BY <2>1 DEF StartPool
  <2>2. CASE Listen \/ InstallHandler \/ SetupFails \/ TestStop \/ AcceptFails
    BY <2>2 DEF Listen, InstallHandler, SetupFails, TestStop, AcceptFails, Die
  <2>3. ASSUME NEW c \in Client, Accept(c) PROVE Draining'
    BY <2>3 DEF Accept
  <2>4. CASE Submit
    BY <2>4 DEF Submit
  <2>5. CASE CloseListener \/ CloseQueue
    BY <2>5 DEF CloseListener, CloseQueue
  <2>6. CASE Shutdown
    BY <2>6 DEF Shutdown
  <2>7. CASE handle_sigint
    BY <2>7 DEF handle_sigint, Die, Running
  <2> QED
    BY <1>2, <2>1, <2>2, <2>3, <2>4, <2>5, <2>6, <2>7 DEF MainStep
<1>3. ASSUME NEW w \in Worker, WorkerStep(w)
      PROVE  Draining'
  <2> USE <1>0 DEF WorkerGoto, WorkerAt, Running
  <2>1. CASE Dequeue(w) \/ DequeueNull(w)
    BY <2>1 DEF Dequeue, DequeueNull
  <2>2. CASE ReceiveFails(w) \/ Reject(w) \/ OpenSocketFails(w)
    BY <2>2 DEF ReceiveFails, Reject, OpenSocketFails, ReturnEarly
  <2>3. CASE ReceiveRequest(w) \/ Resolve(w) \/ OpenSocket(w) \/ Connect(w)
    BY <2>3 DEF ReceiveRequest, Resolve, OpenSocket, Connect
  <2>4. CASE ConnectRefused(w)
    BY <2>4 DEF ConnectRefused
  <2>5. CASE forward_request(w) \/ ReceiveResponse(w) \/ RelayResponse(w)
    <3>1. /\ wpc[w] \in {"forward", "response", "relay"}
          /\ wpc' = [wpc EXCEPT ![w] = wpc'[w]] /\ wpc'[w] \in Handling
          /\ UNCHANGED <<mainVars, queue>>
      BY <2>5 DEF forward_request, ReceiveResponse, RelayResponse, Handling
    <3> QED
      BY <3>1 DEF Handling
  <2>6. CASE ResponseFails(w)
    BY <2>6 DEF ResponseFails, Die
  <2>7. CASE CloseTarget(w) \/ CloseClient(w)
    BY <2>7 DEF CloseTarget, CloseClient
  <2> QED
    BY <1>3, <2>1, <2>2, <2>3, <2>4, <2>5, <2>6, <2>7 DEF WorkerStep
<1>4. ASSUME NEW w \in Worker, TargetStep(w)
      PROVE  Draining'
  BY <1>4 DEF TargetStep, TargetSend, TargetEnd
<1>5. ASSUME NEW c \in Client, ClientStep(c)
      PROVE  Draining'
  BY <1>5 DEF ClientStep, ClientConnect, ClientSend, ClientLeave
<1> QED
  BY <1>1, <1>2, <1>3, <1>4, <1>5 DEF Next

------------------------------------------------------------------------------
(* Who owns a descriptor                                                   *)

\* Once a worker has been given a closed socket, that stays known.
LEMMA WildStays ==
  ASSUME [Next]_vars, ~wild'
  PROVE  ~wild
<1> USE DEF mainVars, handlerVars
<1>1. ASSUME wild' = wild PROVE ~wild
  BY <1>1, Zenon
<1>2. CASE UNCHANGED vars
  BY <1>1, <1>2 DEF vars
<1>3. CASE MainStep \/ handle_sigint
  <2>1. wild' = wild
    BY <1>3 DEF MainStep, StartPool, Listen, InstallHandler, SetupFails, TestStop, Accept,
                AcceptFails, Submit, CloseListener, CloseQueue, Shutdown, handle_sigint
  <2> QED
    BY <1>1, <2>1
<1>4. ASSUME NEW w \in Worker, WorkerStep(w)
      PROVE  ~wild
  <2>1. CASE ConnectRefused(w)
    BY <2>1, Zenon DEF ConnectRefused
  <2>2. CASE ReceiveFails(w) \/ Reject(w) \/ OpenSocketFails(w)
    BY <1>1, <2>2 DEF ReceiveFails, Reject, OpenSocketFails, ReturnEarly
  <2>3. CASE Dequeue(w) \/ DequeueNull(w) \/ ReceiveRequest(w) \/ Resolve(w) \/ OpenSocket(w)
             \/ Connect(w)
    BY <1>1, <2>3 DEF Dequeue, DequeueNull, ReceiveRequest, Resolve, OpenSocket, Connect
  <2>4. CASE forward_request(w) \/ ReceiveResponse(w) \/ ResponseFails(w) \/ RelayResponse(w)
             \/ CloseTarget(w) \/ CloseClient(w)
    BY <1>1, <2>4 DEF forward_request, ReceiveResponse, ResponseFails, RelayResponse,
                      CloseTarget, CloseClient
  <2> QED
    BY <1>4, <2>1, <2>2, <2>3, <2>4 DEF WorkerStep
<1>5. ASSUME NEW w \in Worker, TargetStep(w)
      PROVE  ~wild
  BY <1>1, <1>5 DEF TargetStep, TargetSend, TargetEnd
<1>6. ASSUME NEW c \in Client, ClientStep(c)
      PROVE  ~wild
  BY <1>1, <1>6 DEF ClientStep, ClientConnect, ClientSend, ClientLeave
<1> QED
  BY <1>2, <1>3, <1>4, <1>5, <1>6 DEF Next

\* What close(f) does to the descriptor table: f is free, the others stay.
LEMMA CloseFd ==
  ASSUME NEW f, Close(f)
  PROVE  /\ f \in Fd => fd'[f] = NoConn
         /\ \A g \in Fd : g # f => fd'[g] = fd[g]
BY DEF Close

\* A step that touches no descriptor keeps HeldOnce.
LEMMA HeldFrame ==
  ASSUME HeldOnce, UNCHANGED <<queue, fd, csock, newsockfd>>, mpc' = "submit" => mpc = "submit"
  PROVE  HeldOnce'
BY DEF HeldOnce

\* A worker that returns early lets its descriptor go, and leaves it open.
LEMMA HeldReturn ==
  ASSUME TypeOK, InUse, HeldOnce, NEW w \in Worker, ReturnEarly(w)
  PROVE  HeldOnce'
<1>1. csock' = [csock EXCEPT ![w] = NoFd] /\ UNCHANGED <<queue, fd, newsockfd, mpc>>
  BY DEF ReturnEarly, mainVars
<1>2. csock' \in [Worker -> Fd \cup {NoFd}] /\ csock'[w] = NoFd
      /\ \A v \in Worker : csock'[v] \in Fd => v # w /\ csock'[v] = csock[v]
  BY <1>1, Descriptors DEF TypeOK
<1>3. (\A i \in DOMAIN queue : queue[i] \in Fd) /\ (mpc = "submit" => newsockfd \in Fd)
  BY ElementOfSeq, LenProperties DEF TypeOK, InUse
<1> QED
  BY <1>1, <1>2, <1>3, Descriptors DEF HeldOnce

\* Every step keeps a client's descriptor in one hand.
LEMMA HeldOnceStep ==
  ASSUME TypeOK, InUse, HeldOnce, ConnsApart, [Next]_vars, ~wild'
  PROVE  HeldOnce'
<1> USE Descriptors DEF mainVars, handlerVars, peerVars
<1>0. /\ queue \in Seq(Fd) /\ fd \in [Fd -> Conn \cup {NoConn}]
      /\ csock \in [Worker -> Fd \cup {NoFd}] /\ tsock \in [Worker -> Fd \cup {NoFd}]
      /\ wpc \in [Worker -> {"unborn", "take", "exited"} \cup Handling]
      /\ \A i \in DOMAIN queue : queue[i] \in Fd
      /\ mpc = "submit" => newsockfd \in Fd
  BY ElementOfSeq, LenProperties DEF TypeOK, InUse
<1>1. CASE UNCHANGED vars
  BY <1>1, HeldFrame DEF vars
<1>2. CASE MainStep \/ handle_sigint
  <2>1. CASE StartPool \/ Listen \/ InstallHandler \/ SetupFails \/ TestStop \/ AcceptFails
             \/ CloseListener \/ CloseQueue \/ Shutdown
    BY <2>1, HeldFrame DEF StartPool, Listen, InstallHandler, SetupFails, TestStop, AcceptFails,
                           CloseListener, CloseQueue, Shutdown, Die
  <2>2. CASE handle_sigint
    BY <2>2, HeldFrame DEF handle_sigint, Die
  <2>3. ASSUME NEW c \in Client, Accept(c) PROVE HeldOnce'
    <3>1. PICK f \in Fd : /\ fd[f] = NoConn /\ fd' = [fd EXCEPT ![f] = ClientConn(c)]
                          /\ newsockfd' = f
      BY <2>3 DEF Accept, LowestFree, Open
    <3>2. /\ UNCHANGED <<queue, csock>>
          /\ \A i \in DOMAIN queue : queue[i] # f
          /\ \A w \in Worker : csock[w] # f
      BY <1>0, <2>3, <3>1, Conns DEF Accept, HeldOnce
    <3>3. ClientConn(c) \in ClientConns
      BY DEF ClientConns
    <3> QED
      BY <1>0, <3>1, <3>2, <3>3 DEF HeldOnce
  <2>4. CASE Submit
    <3>1. mpc = "submit" /\ mpc' # "submit" /\ UNCHANGED <<fd, csock, newsockfd>>
      BY <2>4 DEF Submit
    <3>2. CASE UNCHANGED queue
      BY <3>1, <3>2, HeldFrame
    <3>3. CASE queue' = Append(queue, newsockfd)
      <4>1. \A i \in DOMAIN queue' : \/ i \in DOMAIN queue /\ queue'[i] = queue[i]
                                     \/ i = Len(queue) + 1 /\ queue'[i] = newsockfd
        BY <1>0, <3>1, <3>3, AppendProperties
      <4>2. \A i \in DOMAIN queue : i # Len(queue) + 1
        BY <1>0, LenProperties
      <4> QED
        BY <3>1, <4>1, <4>2 DEF HeldOnce
    <3> QED
      BY <2>4, <3>2, <3>3, Zenon DEF Submit
  <2> QED
    BY <1>2, <2>1, <2>2, <2>3, <2>4 DEF MainStep
<1>3. ASSUME NEW w \in Worker, WorkerStep(w)
      PROVE  HeldOnce'
  <2>1. CASE Dequeue(w)
    <3>1. /\ csock' = [csock EXCEPT ![w] = queue[1]] /\ UNCHANGED <<mpc, newsockfd, fd>>
          /\ 1 \in DOMAIN queue
          /\ \A i \in DOMAIN queue' : i + 1 \in DOMAIN queue /\ queue'[i] = queue[i + 1] /\ i + 1 # 1
      BY <1>0, <2>1, HeadTailProperties, EmptySeq, LenProperties DEF Dequeue
    <3>2. \A i, j \in DOMAIN queue' : i + 1 = j + 1 => i = j
      BY <1>0, <2>1, HeadTailProperties, LenProperties DEF Dequeue
    <3>3. csock'[w] = queue[1] /\ \A v \in Worker : v # w => csock'[v] = csock[v]
      BY <1>0, <3>1
    <3> QED
      BY <1>0, <3>1, <3>2, <3>3 DEF HeldOnce
  <2>2. CASE ReceiveFails(w) \/ Reject(w)
    BY <2>2, HeldReturn DEF ReceiveFails, Reject
  <2>3. CASE OpenSocketFails(w)
    <3>1. ReturnEarly(w) \/ UNCHANGED <<mainVars, queue, fd, csock>>
      BY <2>3 DEF OpenSocketFails
    <3> QED
      BY <3>1, HeldReturn, HeldFrame
  <2>4. CASE OpenSocket(w)
    <3>1. PICK f \in Fd : fd[f] = NoConn /\ fd' = [fd EXCEPT ![f] = TargetConn(w)]
      BY <2>4 DEF OpenSocket, LowestFree, Open
    <3>2. \A g \in Fd : fd[g] \in ClientConns => fd'[g] = fd[g]
      BY <1>0, <3>1, Conns
    <3>3. UNCHANGED <<mpc, queue, csock, newsockfd>>
      BY <2>4 DEF OpenSocket
    <3> QED
      BY <1>0, <3>2, <3>3 DEF HeldOnce
  <2>5. CASE ConnectRefused(w) \/ CloseTarget(w)
    <3>1. /\ Close(tsock[w]) /\ wpc[w] \in Connecting
          /\ UNCHANGED <<mpc, queue, csock, newsockfd>>
      BY <2>5 DEF ConnectRefused, CloseTarget, WorkerAt, Connecting
    <3>2. fd[tsock[w]] \notin ClientConns
      BY <3>1, Conns DEF ConnsApart
    <3>3. \A g \in Fd : fd[g] \in ClientConns => fd'[g] = fd[g]
      BY <1>0, <3>1, <3>2, CloseFd
    <3> QED
      BY <1>0, <3>1, <3>3 DEF HeldOnce
  <2>6. CASE CloseClient(w)
    <3>1. /\ Close(csock[w]) /\ csock' = [csock EXCEPT ![w] = NoFd]
          /\ UNCHANGED <<mpc, queue, newsockfd>>
      BY <2>6 DEF CloseClient
    <3>2. \A g \in Fd : g # csock[w] => fd'[g] = fd[g]
      BY <3>1, CloseFd
    <3>3. \A v \in Worker : csock'[v] \in Fd =>
              v # w /\ csock'[v] = csock[v] /\ csock'[v] # csock[w]
      BY <1>0, <3>1 DEF HeldOnce
    <3>4. \A v \in Worker : csock'[v] = csock[v] \/ csock'[v] \notin Fd
      BY <1>0, <3>1
    <3>5. /\ \A i \in DOMAIN queue : fd'[queue[i]] = fd[queue[i]]
          /\ mpc = "submit" => fd'[newsockfd] = fd[newsockfd]
          /\ \A v \in Worker : csock'[v] \in Fd => fd'[csock'[v]] = fd[csock[v]]
      <4>1. \A i \in DOMAIN queue : queue[i] \in Fd /\ queue[i] # csock[w]
        BY <1>0 DEF HeldOnce
      <4>2. mpc = "submit" => newsockfd \in Fd /\ newsockfd # csock[w]
        BY <1>0 DEF HeldOnce
      <4> QED
        BY <3>2, <3>3, <4>1, <4>2
    <3>6. /\ \A i \in DOMAIN queue : \A v \in Worker : csock'[v] # queue[i]
          /\ mpc = "submit" => \A v \in Worker : csock'[v] # newsockfd
          /\ \A u, v \in Worker : csock'[u] \in Fd /\ csock'[u] = csock'[v] => u = v
      BY <1>0, <3>3, <3>4 DEF HeldOnce
    <3> QED
      BY <3>1, <3>3, <3>5, <3>6 DEF HeldOnce
  <2>7. CASE DequeueNull(w) \/ ReceiveRequest(w) \/ Resolve(w) \/ Connect(w)
             \/ forward_request(w) \/ ReceiveResponse(w) \/ RelayResponse(w)
    BY <2>7, HeldFrame DEF DequeueNull, ReceiveRequest, Resolve, Connect, forward_request,
                           ReceiveResponse, RelayResponse
  <2>8. CASE ResponseFails(w)
    BY <2>8, HeldFrame DEF ResponseFails, Die
  <2> QED
    BY <1>3, <2>1, <2>2, <2>3, <2>4, <2>5, <2>6, <2>7, <2>8 DEF WorkerStep
<1>4. ASSUME NEW w \in Worker, TargetStep(w)
      PROVE  HeldOnce'
  BY <1>4, HeldFrame DEF TargetStep, TargetSend, TargetEnd
<1>5. ASSUME NEW c \in Client, ClientStep(c)
      PROVE  HeldOnce'
  BY <1>5, HeldFrame DEF ClientStep, ClientConnect, ClientSend, ClientLeave
<1> QED
  BY <1>1, <1>2, <1>3, <1>4, <1>5 DEF Next

\* A step that leaves the sockets, the clients' links and the workers' phases
\* alone keeps ConnsApart.
LEMMA ApartFrame ==
  ASSUME ConnsApart, UNCHANGED fd,
         \A w \in Worker : /\ wpc'[w] \in Connecting <=> wpc[w] \in Connecting
                           /\ wpc[w] \in Connecting => tsock'[w] = tsock[w],
         \A c \in Client : link[c] = "open" => link'[c] = "open"
  PROVE  ConnsApart'
BY DEF ConnsApart

\* An early return leaves a worker that holds no target socket.
LEMMA ApartReturn ==
  ASSUME TypeOK, ConnsApart, NEW w \in Worker, wpc[w] \notin Connecting, ReturnEarly(w),
         UNCHANGED link
  PROVE  ConnsApart'
BY ApartFrame DEF TypeOK, ReturnEarly, WorkerGoto, Connecting

\* A worker closes the one descriptor of its target.
LEMMA ApartClose ==
  ASSUME TypeOK, ConnsApart, NEW w \in Worker, wpc[w] \in Connecting, Close(tsock[w]),
         wpc'[w] \notin Connecting,
         \A v \in Worker : v # w => wpc'[v] = wpc[v] /\ tsock'[v] = tsock[v]
  PROVE  ConnsApart'
<1>1. tsock[w] \in Fd /\ fd[tsock[w]] = TargetConn(w)
  BY DEF ConnsApart
<1>2. fd'[tsock[w]] = NoConn /\ \A g \in Fd : g # tsock[w] => fd'[g] = fd[g]
  BY <1>1, CloseFd
<1>3. \A c \in Client : link'[c] = link[c]
  BY <1>1, Conns DEF Close, ConnOf
<1>4. \A g \in Fd : fd'[g] # TargetConn(w)
  BY <1>1, <1>2, Conns DEF ConnsApart
<1> QED
  BY <1>1, <1>2, <1>3, <1>4, Conns DEF ConnsApart

\* Every step keeps the connections apart.
LEMMA ConnsApartStep ==
  ASSUME TypeOK, Draining, HeldOnce, ConnsApart, [Next]_vars, ~wild'
  PROVE  ConnsApart'
<1> USE DEF mainVars, handlerVars, peerVars
<1>0. /\ fd \in [Fd -> Conn \cup {NoConn}]
      /\ tsock \in [Worker -> Fd \cup {NoFd}] /\ csock \in [Worker -> Fd \cup {NoFd}]
      /\ wpc \in [Worker -> {"unborn", "take", "exited"} \cup Handling]
      /\ link \in [Client -> {"none", "backlog", "open", "closed", "refused"}]
  BY DEF TypeOK
<1>1. CASE UNCHANGED vars
  BY <1>1, ApartFrame DEF vars
<1>2. CASE MainStep \/ handle_sigint
  <2>1. CASE StartPool
    BY <2>1, ApartFrame DEF StartPool, Draining, Connecting
  <2>2. CASE Listen \/ InstallHandler \/ SetupFails \/ TestStop \/ AcceptFails
             \/ Submit \/ CloseQueue \/ Shutdown
    BY <2>2, ApartFrame DEF Listen, InstallHandler, SetupFails, TestStop, AcceptFails,
                            Submit, CloseQueue, Shutdown
  <2>3. ASSUME NEW c \in Client, Accept(c) PROVE ConnsApart'
    <3>1. PICK f \in Fd : fd[f] = NoConn /\ fd' = [fd EXCEPT ![f] = ClientConn(c)]
      BY <2>3 DEF Accept, LowestFree, Open
    <3>2. link[c] = "backlog" /\ link' = [link EXCEPT ![c] = "open"] /\ UNCHANGED <<wpc, tsock>>
      BY <2>3 DEF Accept
    <3>3. \A g \in Fd : fd[g] # ClientConn(c)
      BY <3>2 DEF ConnsApart
    <3> QED
      BY <1>0, <3>1, <3>2, <3>3, Conns DEF ConnsApart
  <2>4. CASE CloseListener \/ handle_sigint
    BY <1>0, <2>4, ApartFrame DEF CloseListener, handle_sigint
  <2> QED
    BY <1>2, <2>1, <2>2, <2>3, <2>4 DEF MainStep
<1>3. ASSUME NEW w \in Worker, WorkerStep(w)
      PROVE  ConnsApart'
  <2> USE <1>0 DEF WorkerAt, WorkerGoto, Connecting
  <2>1. CASE Dequeue(w) \/ DequeueNull(w) \/ ReceiveRequest(w) \/ Resolve(w) \/ Connect(w)
    BY <2>1, ApartFrame DEF Dequeue, DequeueNull, ReceiveRequest, Resolve, Connect
  <2>2. CASE forward_request(w) \/ ReceiveResponse(w) \/ RelayResponse(w)
    BY <2>2, ApartFrame DEF forward_request, ReceiveResponse, RelayResponse
  <2>3. CASE ResponseFails(w)
    BY <2>3, ApartFrame DEF ResponseFails
  <2>4. CASE ReceiveFails(w) \/ Reject(w)
    BY <2>4, ApartReturn DEF ReceiveFails, Reject
  <2>5. CASE OpenSocketFails(w)
    <3>1. CASE ReturnEarly(w)
      BY <2>5, <3>1, ApartReturn DEF OpenSocketFails
    <3>2. CASE UNCHANGED <<fd, wpc, tsock>>
      BY <2>5, <3>2, ApartFrame DEF OpenSocketFails
    <3> QED
      BY <2>5, <3>1, <3>2 DEF OpenSocketFails
  <2>6. CASE OpenSocket(w)
    <3>1. PICK f \in Fd : /\ fd[f] = NoConn /\ fd' = [fd EXCEPT ![f] = TargetConn(w)]
                          /\ tsock' = [tsock EXCEPT ![w] = f]
      BY <2>6 DEF OpenSocket, LowestFree, Open
    <3>2. wpc[w] = "socket" /\ wpc' = [wpc EXCEPT ![w] = "connect"] /\ UNCHANGED link
      BY <2>6 DEF OpenSocket
    <3>3. \A g \in Fd : fd[g] # TargetConn(w)
      BY <3>2 DEF ConnsApart
    <3> QED
      BY <3>1, <3>2, <3>3, Conns DEF ConnsApart
  <2>7. CASE ConnectRefused(w)
    <3>1. left[w] > 1 /\ wpc' = [wpc EXCEPT ![w] = "socket"]
      BY <2>7, Zenon DEF ConnectRefused
    <3> QED
      BY <2>7, <3>1, ApartClose DEF ConnectRefused
  <2>8. CASE CloseTarget(w)
    BY <2>8, ApartClose DEF CloseTarget
  <2>9. CASE CloseClient(w)
    <3>1. wpc[w] = "close_client" /\ wpc' = [wpc EXCEPT ![w] = "take"] /\ UNCHANGED tsock
      BY <2>9 DEF CloseClient
    <3>2. CASE csock[w] \in Fd
      <4>1. PICK c \in Client : fd[csock[w]] = ClientConn(c)
        BY <3>2 DEF HeldOnce, ClientConns
      <4>2. /\ fd'[csock[w]] = NoConn /\ \A g \in Fd : g # csock[w] => fd'[g] = fd[g]
            /\ \A d \in Client : d # c => link'[d] = link[d]
        BY <2>9, <3>2, <4>1, Conns, CloseFd DEF CloseClient, Close, ConnOf
      <4>3. \A g \in Fd : fd'[g] # ClientConn(c)
        BY <3>2, <4>1, <4>2, Conns DEF ConnsApart
      <4> QED
        BY <3>1, <3>2, <4>1, <4>2, <4>3, Conns DEF ConnsApart
    <3>3. CASE csock[w] \notin Fd
      <4>1. (\A g \in Fd : fd'[g] = fd[g]) /\ \A d \in Client : link'[d] = link[d]
        BY <2>9, <3>3, Conns DEF CloseClient, Close, ConnOf
      <4> QED
        BY <3>1, <4>1 DEF ConnsApart
    <3> QED
      BY <3>2, <3>3
  <2> QED
    BY <1>3, <2>1, <2>2, <2>3, <2>4, <2>5, <2>6, <2>7, <2>8, <2>9 DEF WorkerStep
<1>4. ASSUME NEW w \in Worker, TargetStep(w)
      PROVE  ConnsApart'
  BY <1>4, ApartFrame DEF TargetStep, TargetSend, TargetEnd
<1>5. ASSUME NEW c \in Client, ClientStep(c)
      PROVE  ConnsApart'
  BY <1>0, <1>5, ApartFrame DEF ClientStep, ClientConnect, ClientSend, ClientLeave
<1> QED
  BY <1>1, <1>2, <1>3, <1>4, <1>5 DEF Next

------------------------------------------------------------------------------
(* Whose data a worker handles                                             *)

\* A descriptor becomes a client's connection in accept only.
LEMMA ClientFd ==
  ASSUME TypeOK, [Next]_vars, NEW f \in Fd, NEW c \in Client, fd'[f] = ClientConn(c)
  PROVE  \/ fd[f] = ClientConn(c)
         \/ Accept(c) /\ fd[f] = NoConn /\ newsockfd' = f
<1> USE DEF mainVars, handlerVars, peerVars
<1>1. ASSUME fd' = fd PROVE fd[f] = ClientConn(c)
  BY <1>1
<1>2. ASSUME NEW g, Close(g) PROVE fd[f] = ClientConn(c)
  BY <1>2, CloseFd, Conns
<1>3. CASE UNCHANGED vars
  BY <1>1, <1>3 DEF vars
<1>4. CASE MainStep \/ handle_sigint
  <2>1. ASSUME NEW d \in Client, Accept(d)
        PROVE  fd[f] = ClientConn(c) \/ (Accept(c) /\ fd[f] = NoConn /\ newsockfd' = f)
    <3>1. PICK g \in Fd : fd[g] = NoConn /\ fd' = [fd EXCEPT ![g] = ClientConn(d)] /\ newsockfd' = g
      BY <2>1 DEF Accept, LowestFree, Open
    <3>2. g = f => c = d
      BY <3>1, Conns DEF TypeOK
    <3> QED
      BY <2>1, <3>1, <3>2 DEF TypeOK
  <2>2. CASE StartPool \/ Listen \/ InstallHandler \/ SetupFails \/ TestStop \/ AcceptFails
             \/ Submit \/ CloseListener \/ CloseQueue \/ Shutdown \/ handle_sigint
    BY <1>1, <2>2 DEF StartPool, Listen, InstallHandler, SetupFails, TestStop, AcceptFails,
                      Submit, CloseListener, CloseQueue, Shutdown, handle_sigint
  <2> QED
    BY <1>4, <2>1, <2>2 DEF MainStep
<1>5. ASSUME NEW w \in Worker, WorkerStep(w)
      PROVE  fd[f] = ClientConn(c)
  <2>1. CASE OpenSocket(w)
    BY <2>1, Conns DEF OpenSocket, TypeOK
  <2>2. CASE ConnectRefused(w) \/ CloseTarget(w) \/ CloseClient(w)
    BY <1>2, <2>2 DEF ConnectRefused, CloseTarget, CloseClient
  <2>3. CASE ReceiveFails(w) \/ Reject(w) \/ OpenSocketFails(w)
    BY <1>1, <2>3 DEF ReceiveFails, Reject, OpenSocketFails, ReturnEarly
  <2>4. CASE Dequeue(w) \/ DequeueNull(w) \/ ReceiveRequest(w) \/ Resolve(w) \/ Connect(w)
    BY <1>1, <2>4 DEF Dequeue, DequeueNull, ReceiveRequest, Resolve, Connect
  <2>5. CASE forward_request(w) \/ ReceiveResponse(w) \/ ResponseFails(w) \/ RelayResponse(w)
    BY <1>1, <2>5 DEF forward_request, ReceiveResponse, ResponseFails, RelayResponse
  <2> QED
    BY <1>5, <2>1, <2>2, <2>3, <2>4, <2>5 DEF WorkerStep
<1>6. ASSUME NEW w \in Worker, TargetStep(w)
      PROVE  fd[f] = ClientConn(c)
  BY <1>1, <1>6 DEF TargetStep, TargetSend, TargetEnd
<1>7. ASSUME NEW d \in Client, ClientStep(d)
      PROVE  fd[f] = ClientConn(c)
  BY <1>1, <1>7 DEF ClientStep, ClientConnect, ClientSend, ClientLeave
<1> QED
  BY <1>3, <1>4, <1>5, <1>6, <1>7 DEF Next

\* A worker's client_socket changes when it takes a request, and when it lets
\* the descriptor go.
LEMMA ClientSocket ==
  ASSUME TypeOK, [Next]_vars, NEW w \in Worker
  PROVE  \/ csock'[w] = csock[w]
         \/ Dequeue(w)
         \/ csock'[w] = NoFd
<1> USE DEF mainVars, handlerVars, TypeOK
<1>1. CASE UNCHANGED vars
  BY <1>1 DEF vars
<1>2. CASE MainStep \/ handle_sigint
  BY <1>2 DEF MainStep, StartPool, Listen, InstallHandler, SetupFails, TestStop, Accept,
              AcceptFails, Submit, CloseListener, CloseQueue, Shutdown, handle_sigint
<1>3. ASSUME NEW v \in Worker, WorkerStep(v)
      PROVE  csock'[w] = csock[w] \/ Dequeue(w) \/ csock'[w] = NoFd
  <2>1. CASE Dequeue(v)
    BY <2>1 DEF Dequeue
  <2>2. CASE ReceiveFails(v) \/ Reject(v) \/ OpenSocketFails(v)
    BY <2>2 DEF ReceiveFails, Reject, OpenSocketFails, ReturnEarly
  <2>3. CASE DequeueNull(v) \/ ReceiveRequest(v) \/ Resolve(v) \/ OpenSocket(v) \/ Connect(v)
             \/ ConnectRefused(v)
    BY <2>3 DEF DequeueNull, ReceiveRequest, Resolve, OpenSocket, Connect, ConnectRefused
  <2>4. CASE forward_request(v) \/ ReceiveResponse(v) \/ ResponseFails(v) \/ RelayResponse(v)
             \/ CloseTarget(v)
    BY <2>4 DEF forward_request, ReceiveResponse, ResponseFails, RelayResponse, CloseTarget
  <2>5. CASE CloseClient(v)
    BY <2>5 DEF CloseClient
  <2> QED
    BY <1>3, <2>1, <2>2, <2>3, <2>4, <2>5 DEF WorkerStep
<1>4. ASSUME NEW v \in Worker, TargetStep(v)
      PROVE  csock'[w] = csock[w]
  BY <1>4 DEF TargetStep, TargetSend, TargetEnd
<1>5. ASSUME NEW c \in Client, ClientStep(c)
      PROVE  csock'[w] = csock[w]
  BY <1>5 DEF ClientStep, ClientConnect, ClientSend, ClientLeave
<1> QED
  BY <1>1, <1>2, <1>3, <1>4, <1>5 DEF Next

\* Hence a worker comes to serve a client only by taking it from the queue:
\* the number it holds is never given to another connection under it.
LEMMA ServesStep ==
  ASSUME TypeOK, HeldOnce, [Next]_vars, NEW w \in Worker, NEW c \in Client, Serves(w, c)'
  PROVE  Serves(w, c) \/ Dequeue(w)
<1> USE DEF Serves
<1>1. CASE csock'[w] = csock[w]
  <2>1. fd[csock[w]] # NoConn
    BY <1>1, Conns DEF HeldOnce
  <2> QED
    BY <1>1, <2>1, ClientFd
<1>2. CASE csock'[w] = NoFd
  BY <1>2, Descriptors
<1> QED
  BY <1>1, <1>2, ClientSocket

\* The queue hands a worker the connection at its head.
LEMMA DequeueServes ==
  ASSUME TypeOK, NEW w \in Worker, NEW c \in Client, Dequeue(w), Serves(w, c)'
  PROVE  1 \in DOMAIN queue /\ fd[queue[1]] = ClientConn(c)
BY EmptySeq, LenProperties DEF TypeOK, Dequeue, Serves

\* A worker that closes its target forgets it, and touches nothing else.
LEMMA CloseTargetEffect ==
  ASSUME TypeOK, ConnsApart, NEW w \in Worker, wpc[w] \in Connecting, Close(tsock[w])
  PROVE  /\ inbox' = [inbox EXCEPT ![TargetConn(w)] = <<>>]
         /\ asked' = [asked EXCEPT ![w] = <<>>]
         /\ answered' = [answered EXCEPT ![w] = 0]
         /\ \A c \in Client : link'[c] = link[c]
<1>1. ConnOf(tsock[w]) = TargetConn(w)
  BY DEF ConnsApart, ConnOf
<1>2. inbox' = [inbox EXCEPT ![TargetConn(w)] = <<>>]
  BY <1>1 DEF Close, TypeOK
<1>3. \A v \in Worker : ConnOf(tsock[w]) = TargetConn(v) <=> v = w
  BY <1>1, Conns
<1>4. asked' = [asked EXCEPT ![w] = <<>>]
  BY <1>3 DEF Close, TypeOK
<1>5. answered' = [answered EXCEPT ![w] = 0]
  BY <1>3 DEF Close, TypeOK
<1>6. \A c \in Client : link'[c] = link[c]
  BY <1>1, Conns DEF Close
<1> QED
  BY <1>2, <1>4, <1>5, <1>6

\* A worker that closes its client touches no target and no other client.
LEMMA CloseClientEffect ==
  ASSUME TypeOK, HeldOnce, NEW w \in Worker, Close(csock[w])
  PROVE  /\ \A v \in Worker : /\ inbox'[TargetConn(v)] = inbox[TargetConn(v)]
                              /\ asked'[v] = asked[v] /\ answered'[v] = answered[v]
         /\ \A c \in Client : inbox'[ClientConn(c)] = inbox[ClientConn(c)]
                               \/ inbox'[ClientConn(c)] = <<>>
         /\ \A c \in Client : link'[c] = link[c] \/ link'[c] = "closed"
<1>1. ConnOf(csock[w]) \in ClientConns \cup {NoConn}
  BY DEF HeldOnce, ConnOf
<1>2. \A v \in Worker : ConnOf(csock[w]) # TargetConn(v)
  BY <1>1, Conns
<1> QED
  BY <1>2, Conns DEF Close, TypeOK

\* What was received goes to the worker's own target, and to no client.
LEMMA ForwardEffect ==
  ASSUME TypeOK, ConnsApart, NEW w \in Worker, forward_request(w)
  PROVE  /\ asked' = [asked EXCEPT ![w] = asked[w] \o buffer[w]]
         /\ \A c \in Client : got'[c] = got[c]
<1>1. ConnOf(tsock[w]) = TargetConn(w)
  BY DEF ConnsApart, ConnOf, forward_request, WorkerAt, Connecting
<1>2. \A v \in Worker : ConnOf(tsock[w]) = TargetConn(v) <=> v = w
  BY <1>1, Conns
<1>3. asked' = [asked EXCEPT ![w] = asked[w] \o buffer[w]]
  BY <1>2 DEF forward_request, TypeOK
<1>4. \A c \in Client : got'[c] = got[c]
  BY <1>1, Conns DEF forward_request
<1> QED
  BY <1>3, <1>4

\* A step that moves no data of a worker keeps its flow.
LEMMA WorkerFrame ==
  ASSUME NEW w \in Worker, WorkerFlow(w),
         inbox'[TargetConn(w)] = inbox[TargetConn(w)],
         asked'[w] = asked[w], answered'[w] = answered[w],
         wpc'[w] \in Asking => wpc[w] \in Asking,
         wpc'[w] \in Answering <=> wpc[w] \in Answering,
         wpc'[w] = "response" => wpc[w] = "response",
         wpc'[w] = "relay" => wpc[w] = "relay",
         wpc'[w] \in Asking \cup {"relay"} => buffer'[w] = buffer[w],
         wpc'[w] \in Asking \cup Answering => \A c \in Client : Serves(w, c)' => Serves(w, c)
  PROVE  WorkerFlow(w)'
BY DEF WorkerFlow, Answering

\* What a step of the others keeps of a worker's flow.
LEMMA WorkerStill ==
  ASSUME NEW w \in Worker, WorkerFlow(w),
         inbox'[TargetConn(w)] = inbox[TargetConn(w)],
         asked'[w] = asked[w], answered'[w] = answered[w],
         wpc'[w] = wpc[w], buffer'[w] = buffer[w],
         wpc'[w] \in Asking \cup Answering => \A c \in Client : Serves(w, c)' => Serves(w, c)
  PROVE  WorkerFlow(w)'
BY WorkerFrame

\* What every step keeps of the data that travels.
LEMMA DataFlowStep ==
  ASSUME TypeOK, InUse, Draining, HeldOnce, ConnsApart, DataFlow, [Next]_vars, ~wild'
  PROVE  DataFlow'
<1> USE DEF mainVars, handlerVars, peerVars
<1>0. /\ wpc \in [Worker -> {"unborn", "take", "exited"} \cup Handling]
      /\ buffer \in [Worker -> Seq(Message)] /\ inbox \in [Conn -> Seq(Message)]
      /\ asked \in [Worker -> Seq(Message)]
      /\ answered \in [Worker -> 0..Segments]
      /\ \A c \in Client : ClientFlow(c)
      /\ \A w \in Worker : WorkerFlow(w)
  BY DEF TypeOK, DataFlow
<1>S. \A w \in Worker : \A c \in Client :
         wpc'[w] \in Asking \cup Answering /\ Serves(w, c)' => Serves(w, c)
  <2>1. \A w \in Worker : Dequeue(w) => wpc'[w] \notin Asking \cup Answering
    BY <1>0 DEF Dequeue, WorkerGoto, Asking, Answering
  <2> QED
    BY <2>1, ServesStep
<1>F. ASSUME UNCHANGED <<inbox, asked, answered, buffer, wpc>>
      PROVE  DataFlow'
  BY <1>0, <1>S, <1>F, WorkerStill DEF DataFlow, ClientFlow
<1>1. CASE UNCHANGED vars
  BY <1>1, <1>F DEF vars
<1>2. CASE MainStep \/ handle_sigint
  <2>1. CASE StartPool
    <3>1. /\ \A w \in Worker : wpc[w] = "unborn" /\ wpc'[w] \in {"take", "unborn"}
          /\ UNCHANGED <<inbox, asked, answered>>
      BY <2>1 DEF StartPool, Draining
    <3> QED
      BY <1>0, <3>1, WorkerFrame DEF Asking, Answering, DataFlow, ClientFlow
  <2>2. CASE Listen \/ InstallHandler \/ SetupFails \/ TestStop \/ (\E c \in Client : Accept(c))
             \/ AcceptFails \/ Submit \/ CloseListener \/ CloseQueue \/ Shutdown
             \/ handle_sigint
    BY <2>2, <1>F DEF Listen, InstallHandler, SetupFails, TestStop, Accept, AcceptFails,
                      Submit, CloseListener, CloseQueue, Shutdown, handle_sigint
  <2> QED
    BY <1>2, <2>1, <2>2 DEF MainStep
<1>3. ASSUME NEW w \in Worker, WorkerStep(w)
      PROVE  DataFlow'
  <2> USE DEF WorkerAt, WorkerGoto
  <2>O. ASSUME \A v \in Worker : v # w =>
                  /\ inbox'[TargetConn(v)] = inbox[TargetConn(v)]
                  /\ asked'[v] = asked[v] /\ answered'[v] = answered[v]
                  /\ wpc'[v] = wpc[v] /\ buffer'[v] = buffer[v],
               \A c \in Client : ClientFlow(c)',
               WorkerFlow(w)'
        PROVE  DataFlow'
    BY <1>0, <1>S, <2>O, WorkerStill DEF DataFlow
  <2>Q. ASSUME UNCHANGED <<inbox, asked, answered>>,
               \A v \in Worker : v # w => wpc'[v] = wpc[v] /\ buffer'[v] = buffer[v],
               wpc'[w] \in Asking => wpc[w] \in Asking,
               wpc'[w] \in Answering <=> wpc[w] \in Answering,
               wpc'[w] \notin {"response", "relay"},
               wpc'[w] \in Asking => buffer'[w] = buffer[w]
        PROVE  DataFlow'
    <3>1. WorkerFlow(w)'
      BY <1>0, <1>S, <2>Q, WorkerFrame
    <3> QED
      BY <1>0, <2>O, <2>Q, <3>1 DEF ClientFlow
  <2>1. CASE Dequeue(w) \/ DequeueNull(w) \/ Resolve(w) \/ OpenSocket(w) \/ Connect(w)
    BY <1>0, <2>1, <2>Q DEF Dequeue, DequeueNull, Resolve, OpenSocket, Connect, Asking, Answering
  <2>2. CASE ReceiveFails(w) \/ Reject(w) \/ OpenSocketFails(w)
    <3>1. wpc[w] \in {"receive", "parse", "socket"} /\ UNCHANGED <<inbox, asked, answered>>
      BY <2>2 DEF ReceiveFails, Reject, OpenSocketFails
    <3>2. ReturnEarly(w) \/ UNCHANGED <<wpc, buffer>>
      BY <2>2 DEF ReceiveFails, Reject, OpenSocketFails
    <3>3. CASE ReturnEarly(w)
      BY <1>0, <3>1, <3>3, <2>Q DEF ReturnEarly, Asking, Answering
    <3> QED
      BY <1>F, <3>1, <3>2, <3>3
  <2>3. CASE RelayResponse(w)
    BY <1>0, <2>3, <2>Q DEF RelayResponse, Asking, Answering
  <2>4. CASE ResponseFails(w)
    BY <2>4, <1>F DEF ResponseFails
  <2>5. CASE ReceiveRequest(w)
    <3>1. PICK k \in 1..Len(inbox[ConnOf(csock[w])]) :
                 /\ buffer' = [buffer EXCEPT ![w] = SubSeq(inbox[ConnOf(csock[w])], 1, k)]
                 /\ Read(ConnOf(csock[w]), k)
      BY <2>5 DEF ReceiveRequest
    <3>2. PICK c \in Client : ConnOf(csock[w]) = ClientConn(c) /\ Serves(w, c)
      BY <2>5 DEF ReceiveRequest, ConnOf, HeldOnce, ClientConns, Serves
    <3>3. /\ wpc[w] = "receive" /\ wpc' = [wpc EXCEPT ![w] = "parse"]
          /\ UNCHANGED <<asked, answered>>
      BY <2>5 DEF ReceiveRequest
    <3>4. inbox[ClientConn(c)] \in Seq(Message) /\ k \in 1..Len(inbox[ClientConn(c)])
      BY <1>0, <3>1, <3>2, Conns
    <3>5. /\ \A i \in DOMAIN inbox'[ClientConn(c)] : inbox'[ClientConn(c)][i][2] = c
          /\ \A i \in DOMAIN buffer'[w] : buffer'[w][i][2] = c
      BY <1>0, <3>1, <3>2, <3>4, Pieces, Conns, SMTT(30) DEF Read, ClientFlow
    <3>6. /\ \A d \in Client : d # c => inbox'[ClientConn(d)] = inbox[ClientConn(d)]
          /\ \A v \in Worker : inbox'[TargetConn(v)] = inbox[TargetConn(v)]
      BY <1>0, <3>1, <3>2, Conns DEF Read
    <3>7. \A d \in Client : Serves(w, d)' => d = c
      BY <1>0, <1>S, <3>2, <3>3, Conns DEF Serves, Asking
    <3>8. WorkerFlow(w)'
      BY <1>0, <3>3, <3>5, <3>6, <3>7 DEF WorkerFlow, Asking, Answering
    <3>9. \A d \in Client : ClientFlow(d)'
      BY <1>0, <3>5, <3>6 DEF ClientFlow
    <3> QED
      BY <1>0, <2>O, <3>1, <3>3, <3>6, <3>8, <3>9
  <2>6. CASE ConnectRefused(w) \/ CloseTarget(w)
    <3>1. /\ Close(tsock[w]) /\ wpc[w] \in Connecting /\ UNCHANGED buffer
          /\ \A v \in Worker : v # w => wpc'[v] = wpc[v]
          /\ wpc'[w] \in {"socket", "close_client"} /\ (wpc'[w] = "socket" => wpc[w] = "connect")
      <4>1. CASE ConnectRefused(w)
        <5>1. wpc' = [wpc EXCEPT ![w] = "socket"]
          BY <4>1, Zenon DEF ConnectRefused
        <5> QED
          BY <1>0, <4>1, <5>1 DEF ConnectRefused, Connecting
      <4>2. CASE CloseTarget(w)
        BY <1>0, <4>2 DEF CloseTarget, Connecting
      <4> QED
        BY <2>6, <4>1, <4>2
    <3>2. /\ asked'[w] = <<>> /\ answered'[w] = 0 /\ inbox'[TargetConn(w)] = <<>>
          /\ \A v \in Worker : v # w => /\ inbox'[TargetConn(v)] = inbox[TargetConn(v)]
                                         /\ asked'[v] = asked[v] /\ answered'[v] = answered[v]
          /\ \A c \in Client : inbox'[ClientConn(c)] = inbox[ClientConn(c)]
      BY <1>0, <3>1, CloseTargetEffect, Conns
    <3>3. WorkerFlow(w)'
      BY <1>0, <1>S, <3>1, <3>2 DEF WorkerFlow, Asking, Answering
    <3>4. ASSUME NEW c \in Client PROVE ClientFlow(c)'
      <4>1. ClientFlow(c) /\ inbox'[ClientConn(c)] = inbox[ClientConn(c)]
        BY <1>0, <3>2
      <4> QED
        BY <4>1 DEF ClientFlow
    <3> QED
      BY <1>0, <2>O, <3>1, <3>2, <3>3, <3>4
  <2>7. CASE forward_request(w)
    <3>1. /\ wpc[w] = "forward" /\ wpc' = [wpc EXCEPT ![w] = "response"]
          /\ UNCHANGED <<inbox, buffer, answered>>
          /\ asked' = [asked EXCEPT ![w] = asked[w] \o buffer[w]]
      BY <2>7, ForwardEffect DEF forward_request
    <3>2. 1 \in DOMAIN buffer[w] /\ asked'[w] = buffer[w] /\ buffer[w] # <<>>
      <4>1. asked[w] = <<>>
        BY <1>0, <3>1 DEF WorkerFlow, Answering
      <4>2. asked'[w] = <<>> \o buffer[w]
        BY <1>0, <3>1, <4>1
      <4>3. 1 \in DOMAIN buffer[w]
        BY <3>1, FirstMessage
      <4>4. asked'[w] = buffer[w]
        BY <1>0, <4>2, ConcatEmptySeq
      <4> QED
        BY <1>0, <4>3, <4>4, EmptySeq
    <3>3. \A c \in Client : Serves(w, c)' => Serves(w, c) /\ buffer[w][1][2] = c
      BY <1>0, <1>S, <3>1, <3>2 DEF WorkerFlow, Asking, Answering
    <3>4. Len(inbox[TargetConn(w)]) = answered[w] /\ DOMAIN inbox[TargetConn(w)] = {}
      <4>1. inbox[TargetConn(w)] = <<>> /\ answered[w] = 0
        BY <1>0, <3>1 DEF WorkerFlow, Answering
      <4> QED
        BY <4>1
    <3>5. WorkerFlow(w)'
      BY <1>0, <3>1, <3>2, <3>3, <3>4 DEF WorkerFlow, Asking, Answering
    <3> QED
      BY <1>0, <2>O, <3>1, <3>5 DEF ClientFlow
  <2>8. CASE ReceiveResponse(w)
    <3>1. /\ wpc[w] = "response" /\ wpc' = [wpc EXCEPT ![w] = "relay"]
          /\ UNCHANGED <<asked, answered>>
          /\ ConnOf(tsock[w]) = TargetConn(w)
      BY <2>8 DEF ReceiveResponse, ConnsApart, ConnOf, Connecting
    <3>2. /\ \A i \in DOMAIN buffer'[w] : /\ i \in DOMAIN inbox[TargetConn(w)]
                                          /\ buffer'[w][i] = inbox[TargetConn(w)][i]
          /\ \A v \in Worker : v # w => buffer'[v] = buffer[v]
          /\ \A x \in Conn : x # TargetConn(w) => inbox'[x] = inbox[x]
      <4>1. CASE \E k \in 1..Len(inbox[TargetConn(w)]) :
                    /\ buffer' = [buffer EXCEPT ![w] = SubSeq(inbox[TargetConn(w)], 1, k)]
                    /\ Read(TargetConn(w), k)
        BY <1>0, <4>1, Pieces, Conns DEF Read
      <4>2. CASE buffer' = [buffer EXCEPT ![w] = <<>>] /\ UNCHANGED inbox
        BY <1>0, <4>2
      <4> QED
        BY <2>8, <3>1, <4>1, <4>2 DEF ReceiveResponse
    <3>3. /\ \A v \in Worker : v # w => inbox'[TargetConn(v)] = inbox[TargetConn(v)]
          /\ \A c \in Client : inbox'[ClientConn(c)] = inbox[ClientConn(c)]
      BY <3>2, Conns
    <3>4. \A c \in Client : Serves(w, c)' => Serves(w, c)
      BY <1>0, <1>S, <3>1 DEF Answering
    <3>5. WorkerFlow(w)'
      <4>1. wpc'[w] = "relay" /\ asked'[w] = asked[w] /\ WorkerFlow(w)
        BY <1>0, <3>1
      <4>2. ASSUME NEW c \in Client, Serves(w, c)'
            PROVE  /\ asked[w] # <<>> /\ asked[w][1][2] = c
                   /\ \A i \in DOMAIN buffer'[w] : buffer'[w][i] = Reply(c, i)
        BY <3>1, <3>2, <3>4, <4>1, <4>2 DEF WorkerFlow, Answering
      <4> QED
        BY <4>1, <4>2 DEF WorkerFlow, Asking, Answering
    <3> QED
      BY <1>0, <2>O, <3>1, <3>2, <3>3, <3>5 DEF ClientFlow
  <2>9. CASE CloseClient(w)
    <3>1. /\ wpc[w] = "close_client" /\ wpc' = [wpc EXCEPT ![w] = "take"]
          /\ buffer' = [buffer EXCEPT ![w] = <<>>] /\ Close(csock[w])
      BY <2>9 DEF CloseClient
    <3>2. WorkerFlow(w)'
      BY <1>0, <3>1, CloseClientEffect, WorkerFrame DEF Asking, Answering
    <3>3. ASSUME NEW c \in Client PROVE ClientFlow(c)'
      <4>1. inbox'[ClientConn(c)] = inbox[ClientConn(c)] \/ inbox'[ClientConn(c)] = <<>>
        BY <3>1, CloseClientEffect
      <4>2. CASE inbox'[ClientConn(c)] = inbox[ClientConn(c)]
        BY <1>0, <4>2 DEF ClientFlow
      <4>3. CASE inbox'[ClientConn(c)] = <<>>
        BY <4>3 DEF ClientFlow
      <4> QED
        BY <4>1, <4>2, <4>3
    <3> QED
      BY <1>0, <2>O, <3>1, <3>2, <3>3, CloseClientEffect
  <2> QED
    BY <1>3, <2>1, <2>2, <2>3, <2>4, <2>5, <2>6, <2>7, <2>8, <2>9 DEF WorkerStep
<1>4. ASSUME NEW w \in Worker, TargetStep(w)
      PROVE  DataFlow'
  <2>1. CASE TargetEnd(w)
    BY <2>1, <1>F DEF TargetEnd
  <2>2. CASE TargetSend(w)
    <3>1. /\ UNCHANGED <<wpc, fd, csock, buffer, asked>> /\ asked[w] # <<>>
          /\ answered' = [answered EXCEPT ![w] = @ + 1]
          /\ inbox' = [inbox EXCEPT ![TargetConn(w)] =
                          Append(@, Reply(asked[w][1][2], answered[w] + 1))]
      BY <2>2 DEF TargetSend
    <3>2. wpc[w] \in Answering
      BY <1>0, <3>1 DEF WorkerFlow
    <3>3. /\ \A v \in Worker : v # w => inbox'[TargetConn(v)] = inbox[TargetConn(v)]
          /\ \A c \in Client : inbox'[ClientConn(c)] = inbox[ClientConn(c)]
          /\ inbox'[TargetConn(w)] =
                Append(inbox[TargetConn(w)], Reply(asked[w][1][2], answered[w] + 1))
      BY <1>0, <3>1, Conns
    <3>4. ASSUME NEW c \in Client, wpc[w] = "response", Serves(w, c)
          PROVE  /\ Len(inbox'[TargetConn(w)]) = answered'[w]
                 /\ \A i \in DOMAIN inbox'[TargetConn(w)] : inbox'[TargetConn(w)][i] = Reply(c, i)
      <4>1. asked[w][1][2] = c
        BY <1>0, <3>4, Messages DEF WorkerFlow, Answering
      <4>2. /\ Len(inbox[TargetConn(w)]) = answered[w]
            /\ \A i \in DOMAIN inbox[TargetConn(w)] : inbox[TargetConn(w)][i] = Reply(c, i)
        BY <1>0, <3>4 DEF WorkerFlow
      <4>3. inbox[TargetConn(w)] \in Seq(Message) /\ Reply(c, answered[w] + 1) \in Message
        <5>1. answered[w] + 1 \in 1..Segments
          BY <1>0, <2>2, ProxyConstants DEF TargetSend
        <5> QED
          BY <1>0, <5>1, Conns, Messages
      <4> QED
        BY <1>0, <3>1, <3>3, <4>1, <4>2, <4>3, AppendProperties
    <3>5. WorkerFlow(w)'
      BY <1>0, <3>1, <3>2, <3>4 DEF WorkerFlow, Serves
    <3>6. \A v \in Worker : v # w => WorkerFlow(v)'
      BY <1>0, <1>S, <3>1, <3>3, WorkerStill
    <3> QED
      BY <1>0, <3>3, <3>5, <3>6 DEF ClientFlow, DataFlow
  <2> QED
    BY <1>4, <2>1, <2>2 DEF TargetStep
<1>5. ASSUME NEW c \in Client, ClientStep(c)
      PROVE  DataFlow'
  <2>1. CASE ClientConnect(c) \/ ClientLeave(c)
    BY <2>1, <1>F DEF ClientConnect, ClientLeave
  <2>2. CASE ClientSend(c)
    <3>1. /\ UNCHANGED <<wpc, buffer, asked, answered>>
          /\ inbox'[ClientConn(c)] = Append(inbox[ClientConn(c)], Request(c, sent[c] + 1))
          /\ \A d \in Client : d # c => inbox'[ClientConn(d)] = inbox[ClientConn(d)]
          /\ \A v \in Worker : inbox'[TargetConn(v)] = inbox[TargetConn(v)]
      BY <1>0, <2>2, Conns DEF ClientSend
    <3>2. \A d \in Client : ClientFlow(d)'
      <4>1. sent[c] + 1 \in 1..Parts /\ Request(c, sent[c] + 1)[2] = c
        <5>1. sent[c] \in 0..Parts /\ sent[c] < Parts
          BY <2>2 DEF ClientSend, TypeOK
        <5> QED
          BY <5>1, ProxyConstants, Messages
      <4>2. inbox[ClientConn(c)] \in Seq(Message) /\ Request(c, sent[c] + 1) \in Message
        BY <1>0, <4>1, Conns, Messages
      <4>3. ClientFlow(c)'
        BY <1>0, <3>1, <4>1, <4>2, AppendProperties DEF ClientFlow
      <4> QED
        BY <1>0, <3>1, <4>3 DEF ClientFlow
    <3>3. \A w \in Worker : WorkerFlow(w)'
      BY <1>0, <1>S, <3>1, WorkerStill
    <3> QED
      BY <3>2, <3>3 DEF DataFlow
  <2> QED
    BY <1>5, <2>1, <2>2 DEF ClientStep
<1> QED
  BY <1>1, <1>2, <1>3, <1>4, <1>5 DEF Next

------------------------------------------------------------------------------
(* What a client receives                                                  *)

\* Only the relaying of a response gives a client anything.
LEMMA GotStep ==
  ASSUME TypeOK, ConnsApart, [Next]_vars
  PROVE  \/ \A c \in Client : got'[c] = got[c]
         \/ \E w \in Worker : RelayResponse(w)
<1> USE DEF peerVars
<1>1. CASE UNCHANGED vars
  BY <1>1 DEF vars
<1>2. CASE MainStep \/ handle_sigint
  BY <1>2 DEF MainStep, StartPool, Listen, InstallHandler, SetupFails, TestStop, Accept,
              AcceptFails, Submit, CloseListener, CloseQueue, Shutdown, handle_sigint
<1>3. ASSUME NEW w \in Worker, WorkerStep(w), ~RelayResponse(w)
      PROVE  \A c \in Client : got'[c] = got[c]
  <2>1. CASE forward_request(w)
    BY <2>1, ForwardEffect
  <2>2. CASE Dequeue(w) \/ DequeueNull(w) \/ ReceiveRequest(w) \/ ReceiveFails(w) \/ Resolve(w)
             \/ Reject(w) \/ OpenSocket(w) \/ OpenSocketFails(w) \/ Connect(w)
    BY <2>2 DEF Dequeue, DequeueNull, ReceiveRequest, ReceiveFails, Resolve, Reject, OpenSocket,
                OpenSocketFails, Connect
  <2>3. CASE ConnectRefused(w) \/ ReceiveResponse(w) \/ ResponseFails(w) \/ CloseTarget(w)
             \/ CloseClient(w)
    BY <2>3 DEF ConnectRefused, ReceiveResponse, ResponseFails, CloseTarget, CloseClient
  <2> QED
    BY <1>3, <2>1, <2>2, <2>3 DEF WorkerStep
<1>4. ASSUME NEW w \in Worker, TargetStep(w)
      PROVE  \A c \in Client : got'[c] = got[c]
  BY <1>4 DEF TargetStep, TargetSend, TargetEnd
<1>5. ASSUME NEW c \in Client, ClientStep(c)
      PROVE  \A d \in Client : got'[d] = got[d]
  BY <1>5 DEF ClientStep, ClientConnect, ClientSend, ClientLeave
<1> QED
  BY <1>1, <1>2, <1>3, <1>4, <1>5 DEF Next

\* A link that is new, or waits in the backlog, was so before the step.
LEMMA LinkStep ==
  ASSUME TypeOK, HeldOnce, ConnsApart, [Next]_vars, ~wild', NEW c \in Client,
         link'[c] \in {"none", "backlog"}
  PROVE  link[c] \in {"none", "backlog"}
<1> USE DEF peerVars, TypeOK
<1>1. CASE UNCHANGED vars
  BY <1>1 DEF vars
<1>2. CASE MainStep \/ handle_sigint
  BY <1>2 DEF MainStep, StartPool, Listen, InstallHandler, SetupFails, TestStop, Accept,
              AcceptFails, Submit, CloseListener, CloseQueue, Shutdown, handle_sigint
<1>3. ASSUME NEW w \in Worker, WorkerStep(w)
      PROVE  link[c] \in {"none", "backlog"}
  <2>1. ASSUME NEW f, Close(f) PROVE link[c] \in {"none", "backlog"}
    BY <2>1 DEF Close
  <2>2. CASE Dequeue(w) \/ DequeueNull(w) \/ ReceiveRequest(w) \/ ReceiveFails(w) \/ Resolve(w)
             \/ Reject(w) \/ OpenSocket(w) \/ OpenSocketFails(w) \/ Connect(w)
    BY <2>2 DEF Dequeue, DequeueNull, ReceiveRequest, ReceiveFails, Resolve, Reject, OpenSocket,
                OpenSocketFails, Connect
  <2>3. CASE forward_request(w) \/ ReceiveResponse(w) \/ ResponseFails(w) \/ RelayResponse(w)
    BY <2>3 DEF forward_request, ReceiveResponse, ResponseFails, RelayResponse
  <2>4. CASE ConnectRefused(w) \/ CloseTarget(w) \/ CloseClient(w)
    BY <2>1, <2>4 DEF ConnectRefused, CloseTarget, CloseClient
  <2> QED
    BY <1>3, <2>2, <2>3, <2>4 DEF WorkerStep
<1>4. ASSUME NEW w \in Worker, TargetStep(w)
      PROVE  link[c] \in {"none", "backlog"}
  BY <1>4 DEF TargetStep, TargetSend, TargetEnd
<1>5. ASSUME NEW d \in Client, ClientStep(d)
      PROVE  link[c] \in {"none", "backlog"}
  BY <1>5 DEF ClientStep, ClientConnect, ClientSend, ClientLeave
<1> QED
  BY <1>1, <1>2, <1>3, <1>4, <1>5 DEF Next

\* How a descriptor and a worker come to be waiting for the answer: main
\* accepts, main submits, a worker takes.
LEMMA HandsStep ==
  ASSUME TypeOK, InUse, [Next]_vars
  PROVE  /\ mpc' = "submit" => \/ mpc = "submit" /\ newsockfd' = newsockfd
                               \/ \E c \in Client : Accept(c)
         /\ \A i \in DOMAIN queue' : \/ \E j \in DOMAIN queue : queue'[i] = queue[j]
                                     \/ mpc = "submit" /\ queue'[i] = newsockfd
         /\ \A w \in Worker : wpc'[w] \in Unanswered => wpc[w] \in Unanswered \/ Dequeue(w)
<1> DEFINE Main == mpc' = "submit" => \/ mpc = "submit" /\ newsockfd' = newsockfd
                                      \/ \E c \in Client : Accept(c)
           Kept == \A i \in DOMAIN queue' : \/ \E j \in DOMAIN queue : queue'[i] = queue[j]
                                            \/ mpc = "submit" /\ queue'[i] = newsockfd
           Taken == \A w \in Worker : wpc'[w] \in Unanswered => wpc[w] \in Unanswered \/ Dequeue(w)
<1> USE DEF mainVars, handlerVars
<1>0. queue \in Seq(Fd) /\ wpc \in [Worker -> {"unborn", "take", "exited"} \cup Handling]
  BY DEF TypeOK
<1>1. ASSUME UNCHANGED vars PROVE Main /\ Kept /\ Taken
  BY <1>1 DEF vars
<1>2. ASSUME MainStep \/ handle_sigint PROVE Main /\ Kept /\ Taken
  <2>1. CASE Submit
    <3>1. mpc = "submit" /\ mpc' = "test" /\ UNCHANGED wpc
      BY <2>1 DEF Submit
    <3>2. queue' = queue \/ queue' = Append(queue, newsockfd)
      BY <2>1, Zenon DEF Submit
    <3>3. Kept
      BY <1>0, <3>1, <3>2, AppendProperties DEF InUse
    <3> QED
      BY <3>1, <3>3
  <2>2. CASE StartPool
    BY <2>2 DEF StartPool, Unanswered
  <2>3. CASE \E c \in Client : Accept(c)
    BY <2>3 DEF Accept
  <2>4. CASE Listen \/ InstallHandler \/ SetupFails \/ TestStop \/ AcceptFails
             \/ CloseListener \/ CloseQueue \/ Shutdown
    BY <2>4 DEF Listen, InstallHandler, SetupFails, TestStop, AcceptFails,
                CloseListener, CloseQueue, Shutdown, Die
  <2>5. CASE handle_sigint
    BY <2>5 DEF handle_sigint, Die
  <2> QED
    BY <1>2, <2>1, <2>2, <2>3, <2>4, <2>5 DEF MainStep
<1>3. ASSUME NEW w \in Worker, WorkerStep(w)
      PROVE  Main /\ Kept /\ Taken
  <2> USE <1>0 DEF WorkerAt, WorkerGoto, Unanswered
  <2>1. CASE Dequeue(w)
    <3>1. UNCHANGED <<mpc, newsockfd>> /\ wpc' = [wpc EXCEPT ![w] = "receive"]
      BY <2>1 DEF Dequeue
    <3>2. \A i \in DOMAIN queue' : i + 1 \in DOMAIN queue /\ queue'[i] = queue[i + 1]
      BY <2>1, HeadTailProperties, EmptySeq, LenProperties DEF Dequeue
    <3> QED
      BY <2>1, <3>1, <3>2
  <2>2. CASE DequeueNull(w) \/ ReceiveRequest(w) \/ Resolve(w) \/ OpenSocket(w) \/ Connect(w)
    BY <2>2 DEF DequeueNull, ReceiveRequest, Resolve, OpenSocket, Connect
  <2>3. CASE ReceiveFails(w) \/ Reject(w) \/ OpenSocketFails(w)
    BY <2>3 DEF ReceiveFails, Reject, OpenSocketFails, ReturnEarly
  <2>4. CASE ConnectRefused(w)
    BY <2>4 DEF ConnectRefused
  <2>5. CASE forward_request(w) \/ ReceiveResponse(w)
    BY <2>5 DEF forward_request, ReceiveResponse
  <2>6. CASE ResponseFails(w)
    BY <2>6 DEF ResponseFails, Die
  <2>7. CASE RelayResponse(w) \/ CloseTarget(w) \/ CloseClient(w)
    BY <2>7 DEF RelayResponse, CloseTarget, CloseClient
  <2> QED
    BY <1>3, <2>1, <2>2, <2>3, <2>4, <2>5, <2>6, <2>7 DEF WorkerStep
<1>4. ASSUME NEW w \in Worker, TargetStep(w)
      PROVE  Main /\ Kept /\ Taken
  BY <1>4 DEF TargetStep, TargetSend, TargetEnd
<1>5. ASSUME NEW c \in Client, ClientStep(c)
      PROVE  Main /\ Kept /\ Taken
  BY <1>5 DEF ClientStep, ClientConnect, ClientSend, ClientLeave
<1>6. Main /\ Kept /\ Taken
  BY <1>1, <1>2, <1>3, <1>4, <1>5 DEF Next
<1> QED
  BY <1>6

\* A worker relays to the client it serves and to no other: that client had
\* received nothing, and no other hand holds its connection.
LEMMA RelayEffect ==
  ASSUME TypeOK, InUse, HeldOnce, ConnsApart, DataFlow, NothingYet,
         NEW w \in Worker, RelayResponse(w)
  PROVE  \E c \in Client :
            /\ Serves(w, c) /\ link[c] = "open" /\ got[c] = <<>>
            /\ got'[c] = buffer[w]
            /\ \A i \in DOMAIN buffer[w] : buffer[w][i] = Reply(c, i)
            /\ \A d \in Client : d # c => got'[d] = got[d]
            /\ \A v \in Worker : v # w => ~Serves(v, c)
            /\ \A i \in DOMAIN queue : fd[queue[i]] # ClientConn(c)
            /\ mpc = "submit" => fd[newsockfd] # ClientConn(c)
<1>1. /\ wpc[w] = "relay" /\ ConnOf(csock[w]) # NoConn
      /\ got' = [d \in Client |-> IF ConnOf(csock[w]) = ClientConn(d) THEN got[d] \o buffer[w]
                                 ELSE got[d]]
  BY DEF RelayResponse, WorkerAt
<1>2. PICK c \in Client : Serves(w, c) /\ ConnOf(csock[w]) = ClientConn(c)
  BY <1>1 DEF ConnOf, HeldOnce, ClientConns, Serves
<1>3. link[c] = "open"
  BY <1>2 DEF Serves, ConnsApart
<1>4. got[c] = <<>>
  BY <1>1, <1>2 DEF NothingYet, Unanswered
<1>5. got'[c] = buffer[w]
  <2>1. buffer[w] \in Seq(Message)
    BY DEF TypeOK
  <2>2. got'[c] = <<>> \o buffer[w]
    BY <1>1, <1>2, <1>4
  <2> QED
    BY <2>1, <2>2, ConcatEmptySeq
<1>6. \A i \in DOMAIN buffer[w] : buffer[w][i] = Reply(c, i)
  BY <1>1, <1>2 DEF DataFlow, WorkerFlow
<1>7. \A d \in Client : d # c => got'[d] = got[d]
  BY <1>1, <1>2, Conns
<1>8. \A f \in Fd : fd[f] = ClientConn(c) => f = csock[w]
  BY <1>2, Conns DEF Serves, ConnsApart
<1>9. \A v \in Worker : v # w => ~Serves(v, c)
  BY <1>2, <1>8 DEF Serves, HeldOnce
<1>10. \A i \in DOMAIN queue : queue[i] \in Fd
  BY ElementOfSeq, LenProperties DEF TypeOK
<1>11. \A i \in DOMAIN queue : fd[queue[i]] # ClientConn(c)
  BY <1>8, <1>10 DEF HeldOnce
<1>12. mpc = "submit" => fd[newsockfd] # ClientConn(c)
  BY <1>8 DEF HeldOnce, InUse
<1> QED
  BY <1>2, <1>3, <1>4, <1>5, <1>6, <1>7, <1>9, <1>11, <1>12

\* Every step keeps what the unanswered clients have received: nothing.
LEMMA NothingYetStep ==
  ASSUME TypeOK, InUse, HeldOnce, ConnsApart, DataFlow, NothingYet, [Next]_vars, ~wild'
  PROVE  NothingYet'
<1>0. \A i \in DOMAIN queue : queue[i] \in Fd
  BY ElementOfSeq, LenProperties DEF TypeOK
<1>1. ASSUME NEW w \in Worker, RelayResponse(w)
      PROVE  NothingYet'
  <2>1. PICK c \in Client :
            /\ Serves(w, c) /\ link[c] = "open"
            /\ \A d \in Client : d # c => got'[d] = got[d]
            /\ \A v \in Worker : v # w => ~Serves(v, c)
            /\ \A i \in DOMAIN queue : fd[queue[i]] # ClientConn(c)
            /\ mpc = "submit" => fd[newsockfd] # ClientConn(c)
    BY <1>1, RelayEffect
  <2>2. /\ UNCHANGED <<mpc, newsockfd, queue, fd, csock, link>>
        /\ wpc' = [wpc EXCEPT ![w] = "close_target"]
    BY <1>1 DEF RelayResponse, WorkerGoto, mainVars, handlerVars
  <2>3. wpc'[w] \notin Unanswered /\ \A v \in Worker : v # w => wpc'[v] = wpc[v]
    BY <2>2 DEF TypeOK, Unanswered
  <2> QED
    BY <2>1, <2>2, <2>3 DEF NothingYet, Serves
<1>2. ASSUME \A c \in Client : got'[c] = got[c]
      PROVE  NothingYet'
  <2>1. \A c \in Client : link'[c] \in {"none", "backlog"} => got'[c] = <<>>
    BY <1>2, LinkStep DEF NothingYet
  <2>2. \A c \in Client : Accept(c) => got[c] = <<>>
    BY DEF Accept, NothingYet
  <2>3. ASSUME NEW c \in Client, mpc' = "submit", fd'[newsockfd'] = ClientConn(c)
        PROVE  got'[c] = <<>>
    <3>1. CASE mpc = "submit" /\ newsockfd' = newsockfd
      BY <1>2, <2>2, <2>3, <3>1, ClientFd DEF InUse, NothingYet
    <3>2. CASE \E d \in Client : Accept(d)
      <4>1. newsockfd' \in Fd /\ fd[newsockfd'] = NoConn
        BY <3>2 DEF Accept, LowestFree, Open
      <4> QED
        BY <1>2, <2>2, <2>3, <4>1, ClientFd, Conns
    <3> QED
      BY <2>3, <3>1, <3>2, HandsStep
  <2>4. ASSUME NEW c \in Client, NEW i \in DOMAIN queue', fd'[queue'[i]] = ClientConn(c)
        PROVE  got'[c] = <<>>
    <3>1. ASSUME NEW j \in DOMAIN queue, queue'[i] = queue[j] PROVE got'[c] = <<>>
      BY <1>0, <1>2, <2>2, <2>4, <3>1, ClientFd DEF NothingYet
    <3>2. CASE mpc = "submit" /\ queue'[i] = newsockfd
      BY <1>2, <2>2, <2>4, <3>2, ClientFd DEF InUse, NothingYet
    <3> QED
      BY <3>1, <3>2, HandsStep
  <2>5. ASSUME NEW w \in Worker, NEW c \in Client, wpc'[w] \in Unanswered, Serves(w, c)'
        PROVE  got'[c] = <<>>
    <3>1. CASE Dequeue(w)
      BY <1>2, <2>5, <3>1, DequeueServes DEF NothingYet
    <3>2. CASE wpc[w] \in Unanswered /\ Serves(w, c)
      BY <1>2, <3>2 DEF NothingYet
    <3> QED
      BY <2>5, <3>1, <3>2, HandsStep, ServesStep
  <2> QED
    BY <2>1, <2>3, <2>4, <2>5 DEF NothingYet
<1> QED
  BY <1>1, <1>2, GotStep

\* Every step keeps what the clients receive in order and their own.
LEMMA OwnResponseStep ==
  ASSUME TypeOK, InUse, HeldOnce, ConnsApart, DataFlow, NothingYet, OwnResponseOnly,
         [Next]_vars, ~wild, ~wild'
  PROVE  OwnResponseOnly'
<1>0. \A c \in Client : \A i \in DOMAIN got[c] : got[c][i] = Reply(c, i)
  BY DEF OwnResponseOnly
<1>1. ASSUME NEW w \in Worker, RelayResponse(w)
      PROVE  \A c \in Client : \A i \in DOMAIN got'[c] : got'[c][i] = Reply(c, i)
  BY <1>0, <1>1, RelayEffect
<1>2. ASSUME \A c \in Client : got'[c] = got[c]
      PROVE  \A c \in Client : \A i \in DOMAIN got'[c] : got'[c][i] = Reply(c, i)
  BY <1>0, <1>2
<1> QED
  BY <1>1, <1>2, GotStep DEF OwnResponseOnly

------------------------------------------------------------------------------
(* The theorems                                                            *)

\* The invariant holds when main starts.
LEMMA InitInv == Init => ProxyInv
<1> SUFFICES ASSUME Init PROVE ProxyInv
  OBVIOUS
<1> USE ProxyConstants DEF Init
<1>1. TypeOK
  <2>1. stop \in BOOLEAN /\ qclosed \in BOOLEAN /\ wild \in BOOLEAN
    BY Zenon
  <2>2. /\ queue \in Seq(Fd) /\ inbox \in [Conn -> Seq(Message)]
        /\ buffer \in [Worker -> Seq(Message)] /\ got \in [Client -> Seq(Message)]
        /\ asked \in [Worker -> Seq(Message)]
    OBVIOUS
  <2>3. /\ left \in [Worker -> 0..MaxAddr] /\ answered \in [Worker -> 0..Segments]
        /\ sent \in [Client -> 0..Parts]
    OBVIOUS
  <2> QED
    BY <2>1, <2>2, <2>3 DEF TypeOK
<1>2. InUse
  BY DEF InUse
<1>3. Draining
  BY DEF Draining
<1>4. HeldOnce
  BY Descriptors DEF HeldOnce
<1>5. ConnsApart
  BY Conns DEF ConnsApart, Connecting
<1>6. DataFlow
  <2>1. \A c \in Client : ClientFlow(c)
    BY Conns DEF ClientFlow
  <2>2. \A w \in Worker : WorkerFlow(w)
    BY Conns, Descriptors DEF WorkerFlow, Serves, Answering
  <2> QED
    BY <2>1, <2>2 DEF DataFlow
<1>7. NothingYet /\ OwnResponseOnly
  BY DEF NothingYet, OwnResponseOnly
<1> QED
  BY <1>1, <1>2, <1>3, <1>4, <1>5, <1>6, <1>7 DEF ProxyInv, Untangled

\* Every step of main, of a worker and of a peer keeps the invariant.
LEMMA StepInv == ProxyInv /\ [Next]_vars => ProxyInv'
<1> SUFFICES ASSUME ProxyInv, [Next]_vars PROVE ProxyInv'
  OBVIOUS
<1>1. TypeOK /\ InUse /\ Draining
  BY DEF ProxyInv
<1>2. TypeOK' /\ InUse' /\ Draining'
  BY <1>1, TypeStep, InUseStep, DrainingStep
<1>3. ASSUME ~wild' PROVE Untangled'
  <2>1. ~wild
    BY <1>3, WildStays
  <2>2. HeldOnce /\ ConnsApart /\ DataFlow /\ NothingYet /\ OwnResponseOnly
    BY <2>1 DEF ProxyInv, Untangled
  <2>3. HeldOnce' /\ ConnsApart'
    BY <1>1, <1>3, <2>2, HeldOnceStep, ConnsApartStep
  <2>4. DataFlow' /\ NothingYet'
    BY <1>1, <1>3, <2>2, DataFlowStep, NothingYetStep
  <2>5. OwnResponseOnly'
    BY <1>1, <1>3, <2>1, <2>2, OwnResponseStep
  <2> QED
    BY <2>3, <2>4, <2>5 DEF Untangled
<1> QED
  BY <1>2, <1>3 DEF ProxyInv

\* The inductive invariant of the proxy.
THEOREM ProxyInvariant == Spec => []ProxyInv
BY InitInv, StepInv, PTL DEF Spec

\* Every variable of the proxy and of its peers keeps its type, however the
\* workers reuse descriptors and whatever fails.
THEOREM ProxyTypeCorrect == Spec => []TypeOK
<1>1. ProxyInv => TypeOK
  BY DEF ProxyInv
<1> QED
  BY <1>1, ProxyInvariant, PTL

\* No response and no request ever crosses over to another client, unless
\* connect_to_target_server has returned a closed socket.
THEOREM ProxyOwnResponseOnly == Spec => []OwnResponseOnly
<1>1. ProxyInv => OwnResponseOnly
  BY DEF ProxyInv, Untangled, OwnResponseOnly
<1> QED
  BY <1>1, ProxyInvariant, PTL

\* Up to then a descriptor stands for one connection and is in one hand.
THEOREM ProxyDescriptorsOwned == Spec => []DescriptorsOwned
<1>1. ProxyInv => DescriptorsOwned
  <2> SUFFICES ASSUME ProxyInv, ~wild
               PROVE  /\ \A f \in Fd : \A a, b \in Holders(f) : a = b
                      /\ \A f \in Fd : Holders(f) # {} => fd[f] \in ClientConns
                      /\ \A w \in Worker : wpc[w] \in Connecting => ConnOf(tsock[w]) = TargetConn(w)
                      /\ \A f, g \in Open : fd[f] = fd[g] => f = g
    BY DEF DescriptorsOwned
  <2>1. HeldOnce /\ ConnsApart
    BY DEF ProxyInv, Untangled
  <2>2. ASSUME NEW f \in Fd, NEW a \in Holders(f)
        PROVE  \/ a = <<"main">> /\ mpc = "submit" /\ newsockfd = f
               \/ \E i \in DOMAIN queue : a = <<"queue", i>> /\ queue[i] = f
               \/ \E w \in Worker : a = <<"worker", w>> /\ csock[w] = f
    BY <2>2 DEF Holders
  <2>3. \A f \in Fd : \A a, b \in Holders(f) : a = b
    BY <2>1, <2>2 DEF HeldOnce
  <2>4. \A f \in Fd : Holders(f) # {} => fd[f] \in ClientConns
    BY <2>1, <2>2 DEF HeldOnce
  <2>5. \A w \in Worker : wpc[w] \in Connecting => ConnOf(tsock[w]) = TargetConn(w)
    BY <2>1 DEF ConnsApart, ConnOf
  <2>6. \A f, g \in Open : fd[f] = fd[g] => f = g
    BY <2>1 DEF ConnsApart, Open
  <2> QED
    BY <2>3, <2>4, <2>5, <2>6
<1> QED
  BY <1>1, ProxyInvariant, PTL

\* When main is done the queue is empty and no worker is handling a client.
THEOREM ProxyDrainedAtExit == Spec => []DrainedAtExit
<1>1. ProxyInv => DrainedAtExit
  <2> SUFFICES ASSUME ProxyInv, mpc = "done", pool # {}
               PROVE  queue = <<>> /\ \A w \in Worker : wpc[w] \notin Handling
    BY DEF DrainedAtExit
  <2>1. Draining /\ pool \subseteq Worker
    BY DEF ProxyInv, TypeOK
  <2> QED
    BY <2>1 DEF Draining, Handling
<1> QED
  BY <1>1, ProxyInvariant, PTL
==============================================================================
