------------------------------ MODULE WsServer ------------------------------
(***************************************************************************)
(* The WebSocket server of the simulator, src/src/WebSocketsServer.cpp.    *)
(*                                                                         *)
(* Three kinds of threads share one Impl object:                           *)
(*   - the firmware's main thread, which calls begin, onEvent, loop and    *)
(*     close (program counter mpc);                                        *)
(*   - the accept thread that begin starts (program counter apc);          *)
(*   - one thread per accepted connection (program counter pc[c]).         *)
(*                                                                         *)
(* A step is what a thread does between two points where another thread    *)
(* can interfere: one critical section of clientsMutex or eventsMutex, one *)
(* read or write of the atomic flag active, one blocking socket call.      *)
(* Conns names connection slots; a slot is used again once its thread has  *)
(* ended, so Conns bounds the connections that are alive at once.          *)
(*                                                                         *)
(* uint8_t client numbers are 0 .. NumIds - 1 (NumIds is 256 in the code). *)
(***************************************************************************)
EXTENDS Integers, Sequences

CONSTANTS
  Conns,        (* connection slots                                         *)
  Fds,          (* file descriptors the kernel can hand out                 *)
  NumIds,       (* number of values of the uint8_t client number            *)
  MaxPending,   (* bound: no new data or connection once this many events   *)
                (* wait in pendingEvents                                     *)
  NoFd,         (* "no descriptor": a number that is not registered         *)
  NoConn        (* "no connection"                                          *)

ASSUME WsServerAssumption ==
  /\ NumIds \in Nat \ {0}
  /\ MaxPending \in Nat \ {0}
  /\ NoFd \notin Fds
  /\ NoConn \notin Conns

Ids == 0 .. NumIds - 1

VARIABLES
  active,      (* Impl::active                                              *)
  listening,   (* Impl::fd >= 0                                             *)
  callback,    (* callback_ is set                                          *)
  apc,         (* accept thread: off, test, accept, spawn, done             *)
  pc,          (* connection threads                                        *)
  fdOf,        (* the descriptor captured by each connection thread         *)
  num,         (* the local num of each connection thread                   *)
  clients,     (* Impl::clients, NoFd for a number that is not a key        *)
  nextClient,  (* Impl::nextClient                                          *)
  pending,     (* Impl::pendingEvents                                       *)
  batch,       (* the local events of loop() that are not delivered yet     *)
  mpc,         (* main thread                                               *)
  session,     (* history: the connection whose CONNECTED was delivered     *)
               (* last on a number and whose DISCONNECTED was not           *)
  clobbered    (* history: addClient has overwritten a registered client    *)

threadVars == <<apc, pc, fdOf, num>>
registryVars == <<clients, nextClient, clobbered>>
vars == <<active, listening, callback, apc, pc, fdOf, num, clients,
          nextClient, pending, batch, mpc, session, clobbered>>

Labels == {"none", "accepted", "handshake", "add", "hello", "test", "read",
           "bye", "erase", "hangup"}

(* An event carries its sender as history; the code's Event has num, type. *)
Events == [num : Ids, type : {"CONNECTED", "DATA", "DISCONNECTED"},
           from : Conns]

(* Threads between addClient and removeClient.                             *)
Registered == {"hello", "test", "read", "bye", "erase"}
Holders == {c \in Conns : pc[c] \in Registered}

(* Numbers that close() has already dropped from clients while their       *)
(* threads are still running.                                              *)
Cleared == mpc \in {"joinAccept", "joinClients", "drain"}

Room == Len(pending) + Len(batch) < MaxPending

Init ==
  /\ active = FALSE
  /\ listening = FALSE
  /\ callback = FALSE
  /\ apc = "off"
  /\ pc = [c \in Conns |-> "none"]
  /\ fdOf = [c \in Conns |-> NoFd]
  /\ num = [c \in Conns |-> 0]
  /\ clients = [n \in Ids |-> NoFd]
  /\ nextClient = 0
  /\ pending = <<>>
  /\ batch = <<>>
  /\ mpc = "idle"
  /\ session = [n \in Ids |-> NoConn]
  /\ clobbered = FALSE

-----------------------------------------------------------------------------
(* begin(), onEvent() and loop() on the main thread.                       *)

(* socket, bind and listen succeeded; when one of them fails the code      *)
(* closes the socket, resets fd to -1 and returns, which changes nothing.  *)
Begin ==
  /\ mpc = "idle"
  /\ ~active
  /\ listening' = TRUE
  /\ active' = TRUE
  /\ apc' = "test"
  /\ UNCHANGED <<callback, pc, fdOf, num, registryVars, pending, batch, mpc,
                 session>>

OnEvent ==
  /\ mpc = "idle"
  /\ ~callback
  /\ callback' = TRUE
  /\ UNCHANGED <<active, listening, threadVars, registryVars, pending, batch,
                 mpc, session>>

(* loop() without a callback returns before it drains.                     *)
Loop ==
  /\ mpc = "idle"
  /\ callback
  /\ pending # <<>>
  /\ batch' = pending
  /\ pending' = <<>>
  /\ mpc' = "deliver"
  /\ UNCHANGED <<active, listening, callback, threadVars, registryVars,
                 session>>

(* What one event does to the application's view of its client numbers.    *)
After(s, e) ==
  CASE e.type = "CONNECTED"    -> [s EXCEPT ![e.num] = e.from]
    [] e.type = "DISCONNECTED" -> [s EXCEPT ![e.num] = NoConn]
    [] OTHER                   -> s

Deliver ==
  /\ mpc = "deliver"
  /\ batch # <<>>
  /\ session' = After(session, Head(batch))
  /\ batch' = Tail(batch)
  /\ mpc' = IF Tail(batch) = <<>> THEN "idle" ELSE "deliver"
  /\ UNCHANGED <<active, listening, callback, threadVars, registryVars,
                 pending>>

-----------------------------------------------------------------------------
(* close(), one action per step another thread can see. The shutdown of    *)
(* every client socket only makes a blocked recv return early, which a     *)
(* recv may do at any time here (peer gone, 5 s SO_RCVTIMEO).              *)

CloseStart ==
  /\ mpc = "idle"
  /\ active' = FALSE
  /\ mpc' = "closeListen"
  /\ UNCHANGED <<listening, callback, threadVars, registryVars, pending,
                 batch, session>>

CloseListen ==
  /\ mpc = "closeListen"
  /\ listening' = FALSE
  /\ mpc' = "clear"
  /\ UNCHANGED <<active, callback, threadVars, registryVars, pending, batch,
                 session>>

CloseClear ==
  /\ mpc = "clear"
  /\ clients' = [n \in Ids |-> NoFd]
  /\ mpc' = "joinAccept"
  /\ UNCHANGED <<active, listening, callback, threadVars, nextClient,
                 clobbered, pending, batch, session>>

CloseJoinAccept ==
  /\ mpc = "joinAccept"
  /\ apc \in {"off", "done"}
  /\ apc' = "off"
  /\ mpc' = "joinClients"
  /\ UNCHANGED <<active, listening, callback, pc, fdOf, num, registryVars,
                 pending, batch, session>>

(* Seeded fault: close() does not wait for the client threads.             *)
CloseJoinsNobody ==
  /\ mpc = "joinClients"
  /\ mpc' = "drain"
  /\ UNCHANGED <<active, listening, callback, threadVars, registryVars,
                 pending, batch, session>>

CloseJoinClients ==
  /\ mpc = "joinClients"
  /\ \A c \in Conns : pc[c] = "none"
  /\ mpc' = "drain"
  /\ UNCHANGED <<active, listening, callback, threadVars, registryVars,
                 pending, batch, session>>

(* Seeded fault: close() forgets the final drainEvents().                  *)
CloseKeepsEvents ==
  /\ mpc = "drain"
  /\ session' = [n \in Ids |-> NoConn]
  /\ mpc' = "idle"
  /\ UNCHANGED <<active, listening, callback, threadVars, registryVars,
                 pending, batch>>

(* The drained events are dropped. The history starts over: what the       *)
(* application knows of the numbers belongs to one run of the server.      *)
CloseDrain ==
  /\ mpc = "drain"
  /\ pending' = <<>>
  /\ session' = [n \in Ids |-> NoConn]
  /\ mpc' = "idle"
  /\ UNCHANGED <<active, listening, callback, threadVars, registryVars,
                 batch>>

Close == CloseListen \/ CloseClear \/ CloseJoinAccept \/ CloseJoinClients
           \/ CloseDrain

-----------------------------------------------------------------------------
(* The accept thread.                                                      *)

AcceptTest ==
  /\ apc = "test"
  /\ apc' = IF active THEN "accept" ELSE "done"
  /\ UNCHANGED <<active, listening, callback, pc, fdOf, num, registryVars,
                 pending, batch, mpc, session>>

(* A peer connects and accept() returns a descriptor no one else has open. *)
Accept(c) ==
  /\ apc = "accept"
  /\ listening
  /\ pc[c] = "none"
  /\ Room
  /\ \E f \in Fds :
       /\ \A d \in Conns : fdOf[d] # f
       /\ fdOf' = [fdOf EXCEPT ![c] = f]
  /\ pc' = [pc EXCEPT ![c] = "accepted"]
  /\ apc' = "spawn"
  /\ UNCHANGED <<active, listening, callback, num, registryVars, pending,
                 batch, mpc, session>>

(* accept() fails: always once the listening socket is closed, and now and *)
(* then while it is open (the peer is gone, no descriptor is left).        *)
AcceptFail ==
  /\ apc = "accept"
  /\ apc' = "test"
  /\ UNCHANGED <<active, listening, callback, pc, fdOf, num, registryVars,
                 pending, batch, mpc, session>>

(* emplace_back under clientThreadsMutex, which close holds while it joins *)
(* the connection threads.                                                 *)
Spawn(c) ==
  /\ apc = "spawn"
  /\ pc[c] = "accepted"
  /\ mpc # "joinClients"
  /\ pc' = [pc EXCEPT ![c] = "handshake"]
  /\ apc' = "test"
  /\ UNCHANGED <<active, listening, callback, fdOf, num, registryVars,
                 pending, batch, mpc, session>>

-----------------------------------------------------------------------------
(* A connection thread.                                                    *)

Goto(c, from, to) ==
  /\ pc[c] = from
  /\ pc' = [pc EXCEPT ![c] = to]

(* ::close(client) and the end of the thread.                              *)
CloseFd(c) ==
  /\ fdOf' = [fdOf EXCEPT ![c] = NoFd]
  /\ UNCHANGED <<active, listening, callback, apc, num, registryVars, pending,
                 batch, mpc, session>>

(* The request head is complete, has a key, and the 101 answer is sent.    *)
Handshake(c) ==
  /\ Goto(c, "handshake", "add")
  /\ UNCHANGED <<active, listening, callback, apc, fdOf, num, registryVars,
                 pending, batch, mpc, session>>

(* recv fails or times out, the head is longer than 32768 bytes, it has no *)
(* key, or the answer cannot be sent.                                      *)
HandshakeFail(c) ==
  /\ Goto(c, "handshake", "none")
  /\ CloseFd(c)

(* The number addClient looks at after k increments of nextClient.         *)
Candidate(k) == (nextClient + k) % NumIds

(* Seeded fault: the scan is one candidate short.                          *)
IsFirstFreeShort(k) ==
  /\ k <= NumIds - 2
  /\ k < NumIds - 2 => clients[Candidate(k)] = NoFd
  /\ \A j \in 0 .. k - 1 : clients[Candidate(j)] # NoFd

(* The scan looks at NumIds - 1 candidates and takes the first free one;   *)
(* when all of them are taken, the last number is used, free or not.       *)
IsFirstFree(k) ==
  /\ k < NumIds - 1 => clients[Candidate(k)] = NoFd
  /\ \A j \in 0 .. k - 1 : clients[Candidate(j)] # NoFd

(* Seeded fault: the number after the registered one is returned.          *)
RegisterReturnsNext(c, n) ==
  /\ clients' = [clients EXCEPT ![n] = fdOf[c]]
  /\ clobbered' = (clobbered \/ clients[n] # NoFd)
  /\ num' = [num EXCEPT ![c] = (n + 1) % NumIds]
  /\ nextClient' = (n + 1) % NumIds

(* What addClient does once it has settled on number n.                    *)
Register(c, n) ==
  /\ clients' = [clients EXCEPT ![n] = fdOf[c]]
  /\ clobbered' = (clobbered \/ clients[n] # NoFd)
  /\ num' = [num EXCEPT ![c] = n]
  /\ nextClient' = (n + 1) % NumIds

AddClient(c) ==
  /\ Goto(c, "add", "hello")
  /\ \E k \in 0 .. NumIds - 1 : IsFirstFree(k) /\ Register(c, Candidate(k))
  /\ UNCHANGED <<active, listening, callback, apc, fdOf, pending, batch, mpc,
                 session>>

PushEvent(c, type) ==
  pending' = Append(pending, [num |-> num[c], type |-> type, from |-> c])

PushConnected(c) ==
  /\ Goto(c, "hello", "test")
  /\ PushEvent(c, "CONNECTED")
  /\ UNCHANGED <<active, listening, callback, apc, fdOf, num, registryVars,
                 batch, mpc, session>>

(* Seeded fault: the frame loop does not look at active.                   *)
TestNothing(c) ==
  /\ Goto(c, "test", "read")
  /\ UNCHANGED <<active, listening, callback, apc, fdOf, num, registryVars,
                 pending, batch, mpc, session>>

TestActive(c) ==
  /\ Goto(c, "test", IF active THEN "read" ELSE "bye")
  /\ UNCHANGED <<active, listening, callback, apc, fdOf, num, registryVars,
                 pending, batch, mpc, session>>

(* A text or a binary frame becomes an event.                              *)
ReadData(c) ==
  /\ Goto(c, "read", "test")
  /\ Room
  /\ PushEvent(c, "DATA")
  /\ UNCHANGED <<active, listening, callback, apc, fdOf, num, registryVars,
                 batch, mpc, session>>

(* A ping is answered on the thread's own socket; other opcodes are        *)
(* ignored.                                                                *)
ReadOther(c) ==
  /\ Goto(c, "read", "test")
  /\ UNCHANGED <<active, listening, callback, apc, fdOf, num, registryVars,
                 pending, batch, mpc, session>>

(* A close frame, or readWsFrame returns false.                            *)
ReadEnd(c) ==
  /\ Goto(c, "read", "bye")
  /\ UNCHANGED <<active, listening, callback, apc, fdOf, num, registryVars,
                 pending, batch, mpc, session>>

(* Seeded fault: the event is forgotten.                                   *)
PushDisconnectedSilently(c) ==
  /\ Goto(c, "bye", "erase")
  /\ UNCHANGED <<active, listening, callback, apc, fdOf, num, registryVars,
                 pending, batch, mpc, session>>

PushDisconnected(c) ==
  /\ Goto(c, "bye", "erase")
  /\ PushEvent(c, "DISCONNECTED")
  /\ UNCHANGED <<active, listening, callback, apc, fdOf, num, registryVars,
                 batch, mpc, session>>

(* Seeded fault: the entry outlives the thread.                            *)
RemoveNothing(c) ==
  /\ Goto(c, "erase", "hangup")
  /\ UNCHANGED <<active, listening, callback, apc, fdOf, num, registryVars,
                 pending, batch, mpc, session>>

(* Erases the entry of the number, whoever's descriptor it holds.          *)
RemoveClient(c) ==
  /\ Goto(c, "erase", "hangup")
  /\ clients' = [clients EXCEPT ![num[c]] = NoFd]
  /\ UNCHANGED <<active, listening, callback, apc, fdOf, num, nextClient,
                 clobbered, pending, batch, mpc, session>>

Hangup(c) ==
  /\ Goto(c, "hangup", "none")
  /\ CloseFd(c)

-----------------------------------------------------------------------------

ClientStep(c) ==
  \/ Handshake(c) \/ HandshakeFail(c)
  \/ AddClient(c) \/ PushConnected(c)
  \/ TestActive(c) \/ ReadData(c) \/ ReadOther(c) \/ ReadEnd(c)
  \/ PushDisconnected(c) \/ RemoveClient(c) \/ Hangup(c)

Next ==
  \/ Begin \/ OnEvent \/ Loop \/ Deliver \/ CloseStart \/ Close
  \/ AcceptTest \/ AcceptFail
  \/ \E c \in Conns : Accept(c) \/ Spawn(c) \/ ClientStep(c)

Spec == Init /\ [][Next]_vars

(* Threads are scheduled. A thread blocked in recv comes back because of   *)
(* SO_RCVTIMEO; nobody owes the server a new connection (no fairness for   *)
(* Accept), and a blocked accept() only has to return once the listening   *)
(* socket is shut down.                                                    *)
ThreadFairness ==
  /\ WF_vars(Close)
  /\ WF_vars(AcceptTest)
  /\ WF_vars(AcceptFail /\ ~listening)
  /\ \A c \in Conns : WF_vars(Spawn(c)) /\ WF_vars(ClientStep(c))

(* The firmware's main loop calls loop() on every turn; close() is its     *)
(* choice, so it may always do something else before loop() (SF).          *)
LoopFairness == SF_vars(Loop) /\ WF_vars(Deliver)

FairSpec == Spec /\ ThreadFairness /\ LoopFairness

-----------------------------------------------------------------------------
(* Properties.                                                             *)

(* Every variable keeps its type, whatever the threads do.                 *)
TypeOK ==
  /\ active \in BOOLEAN
  /\ listening \in BOOLEAN
  /\ callback \in BOOLEAN
  /\ apc \in {"off", "test", "accept", "spawn", "done"}
  /\ pc \in [Conns -> Labels]
  /\ fdOf \in [Conns -> Fds \cup {NoFd}]
  /\ num \in [Conns -> Ids]
  /\ clients \in [Ids -> Fds \cup {NoFd}]
  /\ nextClient \in Ids
  /\ pending \in Seq(Events)
  /\ batch \in Seq(Events)
  /\ mpc \in {"idle", "deliver", "closeListen", "clear", "joinAccept",
              "joinClients", "drain"}
  /\ session \in [Ids -> Conns \cup {NoConn}]
  /\ clobbered \in BOOLEAN

(* A descriptor in the registry belongs to a thread that has not erased it *)
(* yet, so broadcastTXT and close never take a closed or recycled          *)
(* descriptor from the map, even when numbers have been overwritten or the *)
(* map was cleared under running threads.                                  *)
RegistryOwned ==
  \A n \in Ids : clients[n] # NoFd =>
    \E c \in Holders : num[c] = n /\ fdOf[c] = clients[n]

(* While no number was overwritten and close() has not cleared the map,    *)
(* every connected client can be reached under its own number, and two     *)
(* connected clients never share one.                                      *)
HoldersReachable ==
  ~clobbered /\ ~Cleared =>
    \A c \in Holders : clients[num[c]] = fdOf[c]

(* After close() nothing of the old run is left: no thread, no descriptor, *)
(* no registered client and no event that begin() could deliver later.     *)
ClosedIsClean ==
  mpc = "idle" /\ ~active =>
    /\ apc = "off" /\ ~listening
    /\ pending = <<>>
    /\ \A c \in Conns : pc[c] = "none" /\ fdOf[c] = NoFd
    /\ \A n \in Ids : clients[n] = NoFd

(* addClient overwrites a client only when every number is taken: the      *)
(* 255-candidate scan and the fallback number together look at all 256.    *)
ClobberOnlyWhenFull ==
  [][clobbered' /\ ~clobbered => \A n \in Ids : clients[n] # NoFd]_vars

(* The delivered events form sessions, as the abstract module says: a      *)
(* CONNECTED comes on a number without a session, data and DISCONNECTED    *)
(* come from the connection whose session is open there, and no event of   *)
(* an earlier owner or of an earlier begin() is handed over. The abstract  *)
(* module sees the event at the head of batch together with its sender.    *)
Due == IF batch = <<>> THEN {} ELSE {Head(batch)}
Sessions == INSTANCE WsSessions WITH due <- Due
SessionsSpec == Sessions!Spec

(* close() returns, although it waits for threads that wait for peers.     *)
CloseReturns == (mpc = "closeListen") ~> (mpc = "idle")

(* A client that was greeted is announced to the application, unless the   *)
(* server is closed first.                                                 *)
ConnectAnnounced ==
  \A c \in Conns : callback /\ pc[c] = "test" ~>
    (\E n \in Ids : session[n] = c) \/ ~active

(* The application learns that a client it knows is gone.                  *)
DisconnectAnnounced ==
  \A c \in Conns : (\E n \in Ids : session[n] = c) /\ pc[c] = "hangup" ~>
    (\A n \in Ids : session[n] # c)

(* Both: connects and disconnects reach the application.                   *)
EventsArrive == ConnectAnnounced /\ DisconnectAnnounced
=============================================================================
