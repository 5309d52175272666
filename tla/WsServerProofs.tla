--------------------------- MODULE WsServerProofs ---------------------------
(***************************************************************************)
(* Proofs about WsServer, for every set of connections and descriptors and *)
(* every number of client numbers.                                         *)
(***************************************************************************)
EXTENDS WsServer, SequenceTheorems, FiniteSetTheorems, TLAPS

USE WsServerAssumption

-----------------------------------------------------------------------------
(* Type correctness.                                                       *)

(* Candidate numbers wrap around inside uint8_t.                           *)
LEMMA CandidateType ==
  ASSUME nextClient \in Ids, NEW k \in Nat
  PROVE  Candidate(k) \in Ids
BY DEF Candidate, Ids

(* An event a connection thread pushes is well typed.                      *)
LEMMA PushEventType ==
  ASSUME TypeOK, NEW c \in Conns,
         NEW type \in {"CONNECTED", "DATA", "DISCONNECTED"},
         PushEvent(c, type)
  PROVE  pending' \in Seq(Events)
BY DEF PushEvent, TypeOK, Events

(* The constants of the main thread's program counter.                     *)
LEMMA MainStepType ==
  ASSUME TypeOK, Begin \/ OnEvent \/ Loop \/ CloseStart \/ Close
  PROVE  TypeOK'
<1> USE DEF TypeOK, threadVars, registryVars
<1>1. CASE Begin             BY <1>1 DEF Begin
<1>2. CASE OnEvent           BY <1>2 DEF OnEvent
<1>3. CASE Loop              BY <1>3 DEF Loop
<1>4. CASE CloseStart        BY <1>4 DEF CloseStart
<1>5. CASE CloseListen       BY <1>5 DEF CloseListen
<1>6. CASE CloseClear        BY <1>6 DEF CloseClear
<1>7. CASE CloseJoinAccept   BY <1>7 DEF CloseJoinAccept
<1>8. CASE CloseJoinClients  BY <1>8 DEF CloseJoinClients
<1>9. CASE CloseDrain        BY <1>9 DEF CloseDrain
<1>10. QED
  BY <1>1, <1>2, <1>3, <1>4, <1>5, <1>6, <1>7, <1>8, <1>9 DEF Close

LEMMA DeliverType ==
  ASSUME TypeOK, Deliver
  PROVE  TypeOK'
<1>1. Head(batch) \in Events /\ Tail(batch) \in Seq(Events)
  BY DEF TypeOK, Deliver
<1>2. session' \in [Ids -> Conns \cup {NoConn}]
  BY <1>1 DEF TypeOK, Deliver, After, Events
<1>3. QED
  BY <1>1, <1>2 DEF TypeOK, Deliver, threadVars, registryVars

LEMMA ClientStepType ==
  ASSUME TypeOK, NEW c \in Conns, ClientStep(c)
  PROVE  TypeOK'
<1> USE DEF TypeOK, Goto, Labels, threadVars, registryVars
<1>1. CASE Handshake(c)      BY <1>1 DEF Handshake
<1>2. CASE HandshakeFail(c)  BY <1>2 DEF HandshakeFail, CloseFd
<1>3. CASE AddClient(c)
  <2>1. PICK k \in 0 .. NumIds - 1 : Register(c, Candidate(k))
    BY <1>3 DEF AddClient
  <2>2. Candidate(k) \in Ids
    BY CandidateType
  <2>3. (Candidate(k) + 1) % NumIds \in Ids
    BY <2>2 DEF Ids
  <2>4. QED
    BY <1>3, <2>1, <2>2, <2>3 DEF AddClient, Register
<1>4. CASE PushConnected(c)
  BY <1>4, PushEventType DEF PushConnected
<1>5. CASE TestActive(c)     BY <1>5 DEF TestActive
<1>6. CASE ReadData(c)
  BY <1>6, PushEventType DEF ReadData
<1>7. CASE ReadOther(c)      BY <1>7 DEF ReadOther
<1>8. CASE ReadEnd(c)        BY <1>8 DEF ReadEnd
<1>9. CASE PushDisconnected(c)
  BY <1>9, PushEventType DEF PushDisconnected
<1>10. CASE RemoveClient(c)  BY <1>10 DEF RemoveClient
<1>11. CASE Hangup(c)        BY <1>11 DEF Hangup, CloseFd
<1>12. QED
  BY <1>1, <1>2, <1>3, <1>4, <1>5, <1>6, <1>7, <1>8, <1>9, <1>10, <1>11
     DEF ClientStep

(* Every variable keeps its type.                                          *)
THEOREM TypeCorrect == Spec => []TypeOK
<1>1. Init => TypeOK
  <2> SUFFICES ASSUME Init PROVE TypeOK
    OBVIOUS
  <2>1. 0 \in Ids
    BY DEF Ids
  <2>2. pending \in Seq(Events) /\ batch \in Seq(Events)
    BY DEF Init
  <2>3. QED
    BY <2>1, <2>2 DEF Init, TypeOK, Labels
<1>2. TypeOK /\ [Next]_vars => TypeOK'
  <2> SUFFICES ASSUME TypeOK, [Next]_vars PROVE TypeOK'
    OBVIOUS
  <2>1. CASE Begin \/ OnEvent \/ Loop \/ CloseStart \/ Close
    BY <2>1, MainStepType
  <2>2. CASE Deliver
    BY <2>2, DeliverType
  <2>3. CASE AcceptTest \/ AcceptFail
    BY <2>3 DEF TypeOK, AcceptTest, AcceptFail, registryVars
  <2>4. ASSUME NEW c \in Conns, Accept(c) \/ Spawn(c)
        PROVE  TypeOK'
    BY <2>4 DEF TypeOK, Accept, Spawn, registryVars, Labels
  <2>5. ASSUME NEW c \in Conns, ClientStep(c)
        PROVE  TypeOK'
    BY <2>5, ClientStepType
  <2>6. CASE UNCHANGED vars
    BY <2>6 DEF TypeOK, vars
  <2>7. QED
    BY <2>1, <2>2, <2>3, <2>4, <2>5, <2>6 DEF Next
<1>3. QED
  BY <1>1, <1>2, PTL DEF Spec

-----------------------------------------------------------------------------
(* The registry only holds descriptors of running threads. RegistryOwned   *)
(* is inductive: erase hits one number only, and the owner of another      *)
(* number keeps its place.                                                 *)

LEMMA ClientStepOwned ==
  ASSUME TypeOK, RegistryOwned, NEW c \in Conns, ClientStep(c)
  PROVE  RegistryOwned'
<1> USE DEF TypeOK, RegistryOwned, Holders, Registered, Goto
<1>1. CASE AddClient(c)
  <2>1. PICK k \in 0 .. NumIds - 1 : Register(c, Candidate(k))
    BY <1>1 DEF AddClient
  <2> DEFINE n == Candidate(k)
  <2>2. n \in Ids
    BY CandidateType
  <2>3. pc[c] = "add" /\ pc' = [pc EXCEPT ![c] = "hello"] /\ fdOf' = fdOf
    BY <1>1 DEF AddClient
  <2>4. /\ clients' = [clients EXCEPT ![n] = fdOf[c]]
        /\ num' = [num EXCEPT ![c] = n]
    BY <2>1 DEF Register
  <2>5. SUFFICES ASSUME NEW m \in Ids, clients'[m] # NoFd
                 PROVE  \E d \in Holders' :
                          num'[d] = m /\ fdOf'[d] = clients'[m]
    OBVIOUS
  <2>6. CASE m = n
    BY <2>2, <2>3, <2>4, <2>6
  <2>7. CASE m # n
    <3>1. clients[m] # NoFd /\ clients'[m] = clients[m]
      BY <2>2, <2>4, <2>5, <2>7
    <3>2. PICK d \in Holders : num[d] = m /\ fdOf[d] = clients[m]
      BY <3>1
    <3>3. d # c /\ d \in Conns
      BY <2>3, <3>2
    <3>4. d \in Holders' /\ num'[d] = num[d]
      BY <2>3, <2>4, <3>2, <3>3
    <3>5. QED
      BY <2>3, <3>1, <3>2, <3>4
  <2>8. QED
    BY <2>6, <2>7
<1>2. CASE RemoveClient(c)
  BY <1>2 DEF RemoveClient
<1>3. CASE HandshakeFail(c) \/ Hangup(c)
  BY <1>3 DEF HandshakeFail, Hangup, CloseFd, registryVars
<1>4. CASE \/ Handshake(c) \/ PushConnected(c) \/ TestActive(c)
           \/ ReadData(c) \/ ReadOther(c) \/ ReadEnd(c)
           \/ PushDisconnected(c)
  <2>1. /\ UNCHANGED <<num, fdOf, clients>>
        /\ \A d \in Conns : d # c => pc'[d] = pc[d]
        /\ pc[c] \in Registered => pc'[c] \in Registered
    BY <1>4 DEF Handshake, PushConnected, TestActive, ReadData, ReadOther,
                ReadEnd, PushDisconnected, registryVars
  <2>2. Holders \subseteq Holders'
    BY <2>1
  <2>3. QED
    BY <2>1, <2>2
<1>5. QED
  BY <1>1, <1>2, <1>3, <1>4 DEF ClientStep

(* A registered descriptor is the open descriptor of a running thread.     *)
THEOREM RegistryIsOwned == Spec => []RegistryOwned
<1>1. Init => RegistryOwned
  BY DEF Init, RegistryOwned
<1>2. TypeOK /\ RegistryOwned /\ [Next]_vars => RegistryOwned'
  <2> SUFFICES ASSUME TypeOK, RegistryOwned, [Next]_vars
               PROVE  RegistryOwned'
    OBVIOUS
  <2>1. ASSUME UNCHANGED <<pc, fdOf, num, clients>>
        PROVE  RegistryOwned'
    BY <2>1 DEF RegistryOwned, Holders
  <2>2. CASE \/ Begin \/ OnEvent \/ Loop \/ Deliver \/ CloseStart
             \/ CloseListen \/ CloseJoinAccept \/ CloseJoinClients
             \/ CloseDrain \/ AcceptTest \/ AcceptFail \/ UNCHANGED vars
    BY <2>1, <2>2
       DEF Begin, OnEvent, Loop, Deliver, CloseStart, CloseListen,
           CloseJoinAccept, CloseJoinClients, CloseDrain, AcceptTest,
           AcceptFail, vars, threadVars, registryVars
  <2>3. CASE CloseClear
    BY <2>3 DEF CloseClear, RegistryOwned
  <2>4. ASSUME NEW c \in Conns, Accept(c) \/ Spawn(c)
        PROVE  RegistryOwned'
    BY <2>4 DEF Accept, Spawn, TypeOK, RegistryOwned, Holders, Registered,
                registryVars
  <2>5. ASSUME NEW c \in Conns, ClientStep(c)
        PROVE  RegistryOwned'
    BY <2>5, ClientStepOwned
  <2>6. QED
    BY <2>2, <2>3, <2>4, <2>5 DEF Next, Close
<1>3. QED
  BY <1>1, <1>2, TypeCorrect, PTL DEF Spec

-----------------------------------------------------------------------------
(* Where the threads are in each phase of the server's life.               *)

Closing == mpc \in {"closeListen", "clear", "joinAccept", "joinClients",
                    "drain"}

PhaseInv ==
  /\ Closing => ~active
  /\ Cleared \/ mpc = "clear" => ~listening
  /\ mpc = "deliver" => active
  /\ mpc = "idle" /\ ~active => ~listening /\ pending = <<>>

ThreadInv ==
  /\ mpc \in {"joinClients", "drain"} => apc = "off"
  /\ mpc = "idle" /\ ~active => apc = "off"
  /\ mpc = "drain" \/ (mpc = "idle" /\ ~active) =>
       \A c \in Conns : pc[c] = "none"
  /\ \A c \in Conns : pc[c] = "accepted" => apc = "spawn"
  /\ \A c, d \in Conns : pc[c] = "accepted" /\ pc[d] = "accepted" => c = d

(* An open descriptor per running thread, and no descriptor in two hands.  *)
FdInv ==
  /\ \A c \in Conns : fdOf[c] = NoFd <=> pc[c] = "none"
  /\ \A c, d \in Conns : c # d /\ fdOf[c] # NoFd => fdOf[c] # fdOf[d]

LifeInv == PhaseInv /\ ThreadInv /\ FdInv

LEMMA ClientStepFrame ==
  ASSUME TypeOK, NEW c \in Conns, ClientStep(c)
  PROVE  /\ UNCHANGED <<active, listening, callback, apc, batch, mpc, session>>
         /\ \A d \in Conns : d # c => pc'[d] = pc[d] /\ fdOf'[d] = fdOf[d]
         /\ pc[c] \notin {"none", "accepted"}
         /\ pc'[c] # "accepted"
         /\ \/ pc'[c] # "none" /\ fdOf' = fdOf
            \/ pc'[c] = "none" /\ fdOf'[c] = NoFd
<1> USE DEF TypeOK, Goto, registryVars
<1>1. CASE HandshakeFail(c) \/ Hangup(c)
  BY <1>1 DEF HandshakeFail, Hangup, CloseFd
<1>2. CASE AddClient(c) \/ RemoveClient(c)
  BY <1>2 DEF AddClient, RemoveClient
<1>3. CASE Handshake(c) \/ PushConnected(c) \/ TestActive(c)
  BY <1>3 DEF Handshake, PushConnected, TestActive
<1>4. CASE ReadData(c) \/ ReadOther(c) \/ ReadEnd(c) \/ PushDisconnected(c)
  BY <1>4 DEF ReadData, ReadOther, ReadEnd, PushDisconnected
<1>5. QED
  BY <1>1, <1>2, <1>3, <1>4 DEF ClientStep

LEMMA LifeStep ==
  ASSUME TypeOK, LifeInv, [Next]_vars
  PROVE  LifeInv'
<1> USE DEF LifeInv
<1>1. ASSUME NEW c \in Conns, ClientStep(c)
      PROVE  LifeInv'
  <2>1. UNCHANGED <<active, listening, apc, mpc>> /\ pc[c] # "none"
    BY <1>1, ClientStepFrame
  <2>2. PhaseInv'
    <3>1. ~(mpc = "idle" /\ ~active)
      BY <2>1 DEF ThreadInv
    <3>2. QED
      BY <2>1, <3>1 DEF PhaseInv, Closing, Cleared
  <2>3. ThreadInv'
    BY <1>1, <2>1, ClientStepFrame DEF ThreadInv
  <2>4. FdInv'
    <3>1. \A d \in Conns : fdOf'[d] = fdOf[d] \/ fdOf'[d] = NoFd
      BY <1>1, ClientStepFrame
    <3>2. \A d \in Conns : fdOf'[d] = NoFd <=> pc'[d] = "none"
      BY <1>1, ClientStepFrame DEF FdInv
    <3>3. QED
      BY <3>1, <3>2 DEF FdInv
  <2>5. QED
    BY <2>2, <2>3, <2>4
<1>2. ASSUME NEW c \in Conns, Accept(c)
      PROVE  LifeInv'
  <2>1. PICK f \in Fds : /\ \A d \in Conns : fdOf[d] # f
                         /\ fdOf' = [fdOf EXCEPT ![c] = f]
    BY <1>2 DEF Accept
  <2>2. /\ UNCHANGED <<active, listening, mpc, pending>>
        /\ apc = "accept" /\ apc' = "spawn"
        /\ pc[c] = "none" /\ pc' = [pc EXCEPT ![c] = "accepted"]
    BY <1>2 DEF Accept
  <2>3. PhaseInv'
    BY <2>2 DEF PhaseInv, Closing, Cleared
  <2>4. ThreadInv'
    <3>1. mpc # "drain" /\ ~(mpc = "idle" /\ ~active) /\ mpc # "joinClients"
      BY <2>2 DEF ThreadInv
    <3>2. QED
      BY <2>2, <3>1 DEF ThreadInv
  <2>5. FdInv'
    <3>1. \A d \in Conns : d # c => fdOf'[d] = fdOf[d] /\ pc'[d] = pc[d]
      BY <2>1, <2>2 DEF TypeOK
    <3>2. fdOf'[c] = f /\ pc'[c] = "accepted" /\ f # NoFd
      BY <2>1, <2>2 DEF TypeOK
    <3>3. QED
      BY <2>1, <3>1, <3>2 DEF FdInv
  <2>6. QED
    BY <2>3, <2>4, <2>5
<1>3. ASSUME NEW c \in Conns, Spawn(c)
      PROVE  LifeInv'
  <2>1. /\ UNCHANGED <<active, listening, mpc, pending, fdOf>>
        /\ apc = "spawn" /\ apc' = "test"
        /\ pc[c] = "accepted" /\ pc' = [pc EXCEPT ![c] = "handshake"]
    BY <1>3 DEF Spawn
  <2>2. PhaseInv'
    BY <2>1 DEF PhaseInv, Closing, Cleared
  <2>3. ThreadInv'
    <3>1. \A d \in Conns : d # c => pc[d] # "accepted" /\ pc'[d] = pc[d]
      BY <2>1 DEF TypeOK, ThreadInv
    <3>2. QED
      BY <2>1, <3>1 DEF ThreadInv, TypeOK
  <2>4. FdInv'
    BY <2>1 DEF FdInv, TypeOK
  <2>5. QED
    BY <2>2, <2>3, <2>4
<1>4. CASE AcceptTest \/ AcceptFail
  BY <1>4 DEF AcceptTest, AcceptFail, PhaseInv, ThreadInv, FdInv, Closing,
              Cleared
<1>5. CASE Begin
  BY <1>5 DEF Begin, PhaseInv, ThreadInv, FdInv, Closing, Cleared
<1>6. CASE OnEvent
  BY <1>6 DEF OnEvent, PhaseInv, ThreadInv, FdInv, Closing, Cleared,
              threadVars
<1>7. CASE Loop
  BY <1>7 DEF Loop, PhaseInv, ThreadInv, FdInv, Closing, Cleared, threadVars
<1>8. CASE Deliver
  BY <1>8 DEF Deliver, PhaseInv, ThreadInv, FdInv, Closing, Cleared,
              threadVars
<1>9. CASE CloseStart
  BY <1>9 DEF CloseStart, PhaseInv, ThreadInv, FdInv, Closing, Cleared,
              threadVars
<1>10. CASE CloseListen
  BY <1>10 DEF CloseListen, PhaseInv, ThreadInv, FdInv, Closing, Cleared,
               threadVars
<1>11. CASE CloseClear
  BY <1>11 DEF CloseClear, PhaseInv, ThreadInv, FdInv, Closing, Cleared,
               threadVars
<1>12. CASE CloseJoinAccept
  BY <1>12 DEF CloseJoinAccept, PhaseInv, ThreadInv, FdInv, Closing, Cleared
<1>13. CASE CloseJoinClients
  BY <1>13 DEF CloseJoinClients, PhaseInv, ThreadInv, FdInv, Closing, Cleared,
               threadVars
<1>14. CASE CloseDrain
  BY <1>14 DEF CloseDrain, PhaseInv, ThreadInv, FdInv, Closing, Cleared,
               threadVars
<1>15. CASE UNCHANGED vars
  BY <1>15 DEF vars, PhaseInv, ThreadInv, FdInv, Closing, Cleared
<1>16. QED
  BY <1>1, <1>2, <1>3, <1>4, <1>5, <1>6, <1>7, <1>8, <1>9, <1>10, <1>11,
     <1>12, <1>13, <1>14, <1>15 DEF Next, Close

(* The phases of begin and close.                                          *)
LEMMA LifeCorrect == Spec => []LifeInv
<1>1. Init => LifeInv
  BY DEF Init, LifeInv, PhaseInv, ThreadInv, FdInv, Closing, Cleared
<1>2. TypeOK /\ LifeInv /\ [Next]_vars => LifeInv'
  BY LifeStep
<1>3. QED
  BY <1>1, <1>2, TypeCorrect, PTL DEF Spec

(* close() leaves no thread, descriptor, client or event behind: the       *)
(* phases say so for the threads, and without threads the registry owns    *)
(* nothing.                                                                *)
THEOREM CloseIsClean == Spec => []ClosedIsClean
<1>1. LifeInv /\ RegistryOwned => ClosedIsClean
  BY DEF LifeInv, PhaseInv, ThreadInv, FdInv, RegistryOwned, ClosedIsClean,
         Holders, Registered
<1>2. QED
  BY <1>1, LifeCorrect, RegistryIsOwned, PTL

-----------------------------------------------------------------------------
(* Connected clients keep numbers of their own.                            *)

LEMMA ReachableStep ==
  ASSUME TypeOK, LifeInv, HoldersReachable, [Next]_vars
  PROVE  HoldersReachable'
<1> USE DEF HoldersReachable, Holders, Registered
<1>1. ASSUME UNCHANGED <<pc, fdOf, num, clients, clobbered>>,
             Cleared => Cleared'
      PROVE  HoldersReachable'
  BY <1>1
<1>2. CASE \/ Begin \/ OnEvent \/ Loop \/ Deliver \/ CloseStart
           \/ CloseListen \/ CloseJoinAccept \/ CloseJoinClients
           \/ AcceptTest \/ AcceptFail \/ UNCHANGED vars
  BY <1>1, <1>2
     DEF Begin, OnEvent, Loop, Deliver, CloseStart, CloseListen,
         CloseJoinAccept, CloseJoinClients, AcceptTest, AcceptFail, vars,
         threadVars, registryVars, Cleared
<1>3. CASE CloseClear
  BY <1>3 DEF CloseClear, Cleared
<1>4. CASE CloseDrain
  BY <1>4 DEF CloseDrain, LifeInv, ThreadInv, threadVars
<1>5. ASSUME NEW c \in Conns, Accept(c) \/ Spawn(c)
      PROVE  HoldersReachable'
  BY <1>5 DEF Accept, Spawn, registryVars, TypeOK, Cleared
<1>6. ASSUME NEW c \in Conns, ClientStep(c)
      PROVE  HoldersReachable'
  <2>1. SUFFICES ASSUME ~clobbered', ~Cleared', NEW d \in Holders'
                 PROVE  clients'[num'[d]] = fdOf'[d]
    OBVIOUS
  <2>2. ~Cleared /\ d \in Conns
    BY <1>6, <2>1, ClientStepFrame DEF Cleared
  <2>3. CASE AddClient(c)
    <3>1. PICK k \in 0 .. NumIds - 1 : Register(c, Candidate(k))
      BY <2>3 DEF AddClient
    <3> DEFINE n == Candidate(k)
    <3>2. n \in Ids
      BY CandidateType DEF TypeOK
    <3>3. /\ clients' = [clients EXCEPT ![n] = fdOf[c]]
          /\ num' = [num EXCEPT ![c] = n]
          /\ ~clobbered /\ clients[n] = NoFd
          /\ fdOf' = fdOf /\ pc' = [pc EXCEPT ![c] = "hello"]
      BY <2>1, <2>3, <3>1 DEF AddClient, Register, Goto, TypeOK
    <3>4. CASE d = c
      BY <3>2, <3>3, <3>4 DEF TypeOK
    <3>5. CASE d # c
      <4>1. d \in Holders /\ num'[d] = num[d] /\ num[d] \in Ids
        BY <2>1, <2>2, <3>3, <3>5 DEF TypeOK
      <4>2. clients[num[d]] = fdOf[d] /\ fdOf[d] # NoFd
        BY <2>2, <3>3, <4>1 DEF LifeInv, FdInv
      <4>3. num[d] # n
        BY <3>3, <4>2
      <4>4. QED
        BY <3>2, <3>3, <4>1, <4>2, <4>3 DEF TypeOK
    <3>6. QED
      BY <3>4, <3>5
  <2>4. CASE RemoveClient(c)
    <3>1. /\ pc[c] = "erase" /\ pc' = [pc EXCEPT ![c] = "hangup"]
          /\ clients' = [clients EXCEPT ![num[c]] = NoFd]
          /\ UNCHANGED <<num, fdOf, clobbered>>
      BY <2>4 DEF RemoveClient, Goto
    <3>2. d # c /\ d \in Holders /\ c \in Holders
      BY <1>6, <2>1, <3>1 DEF TypeOK
    <3>3. clients[num[d]] = fdOf[d] /\ clients[num[c]] = fdOf[c]
      BY <2>1, <2>2, <3>1, <3>2
    <3>4. fdOf[c] # fdOf[d]
      BY <3>2 DEF LifeInv, FdInv
    <3>5. num[d] # num[c]
      BY <3>3, <3>4
    <3>6. QED
      BY <2>2, <3>1, <3>3, <3>5 DEF TypeOK
  <2>5. CASE ~AddClient(c) /\ ~RemoveClient(c)
    <3>1. /\ UNCHANGED <<num, clients, clobbered>>
          /\ pc[c] \notin Registered => pc'[c] \notin Registered
      BY <1>6, <2>5
         DEF ClientStep, Handshake, HandshakeFail, PushConnected, TestActive,
             ReadData, ReadOther, ReadEnd, PushDisconnected, Hangup, CloseFd,
             Goto, registryVars, TypeOK
    <3>2. d \in Holders /\ fdOf'[d] = fdOf[d]
      BY <1>6, <2>1, <2>2, <3>1, ClientStepFrame
    <3>3. QED
      BY <2>1, <2>2, <3>1, <3>2
  <2>6. QED
    BY <2>3, <2>4, <2>5
<1>7. QED
  BY <1>2, <1>3, <1>4, <1>5, <1>6 DEF Next, Close

(* Unless a number was overwritten, every connected client is registered   *)
(* under its own number.                                                   *)
THEOREM ClientsAreReachable == Spec => []HoldersReachable
<1>1. Init => HoldersReachable
  BY DEF Init, HoldersReachable, Holders, Registered
<1>2. TypeOK /\ LifeInv /\ HoldersReachable /\ [Next]_vars
        => HoldersReachable'
  BY ReachableStep
<1>3. QED
  BY <1>1, <1>2, TypeCorrect, LifeCorrect, PTL DEF Spec

-----------------------------------------------------------------------------
(* The scan covers all numbers.                                            *)

(* Any NumIds consecutive candidates are all the numbers there are.        *)
LEMMA CandidatesCover ==
  ASSUME nextClient \in Ids, NEW n \in Ids
  PROVE  \E j \in 0 .. NumIds - 1 : Candidate(j) = n
<1>1. CASE n >= nextClient
  <2>1. Candidate(n - nextClient) = n
    BY <1>1 DEF Candidate, Ids
  <2>2. n - nextClient \in 0 .. NumIds - 1
    BY <1>1 DEF Ids
  <2>3. QED
    BY <2>1, <2>2
<1>2. CASE n < nextClient
  <2> DEFINE j == n - nextClient + NumIds
  <2>1. j \in 0 .. NumIds - 1
    BY <1>2 DEF Ids
  <2>2. nextClient + j = n + NumIds
    BY DEF Ids
  <2>3. (n + NumIds) % NumIds = n
    BY DEF Ids
  <2>4. Candidate(j) = n
    BY <2>2, <2>3 DEF Candidate
  <2>5. QED
    BY <2>1, <2>4
<1>3. QED
  BY <1>1, <1>2 DEF Ids

(* addClient gives a number twice only to a thread that found all taken:   *)
(* the last candidate of the scan is taken unseen.                         *)
LEMMA OverwriteNeedsAll ==
  ASSUME TypeOK, [Next]_vars, clobbered', ~clobbered
  PROVE  \E c \in Conns : pc[c] = "add" /\ \A n \in Ids : clients[n] # NoFd
<1>1. PICK c \in Conns : AddClient(c)
  BY DEF Next, vars, Begin, OnEvent, Loop, Deliver, CloseStart, Close,
         CloseListen, CloseClear, CloseJoinAccept, CloseJoinClients,
         CloseDrain, AcceptTest, AcceptFail, Accept, Spawn, ClientStep,
         Handshake, HandshakeFail, PushConnected, TestActive, ReadData,
         ReadOther, ReadEnd, PushDisconnected, RemoveClient, Hangup, CloseFd,
         registryVars
<1>2. pc[c] = "add"
  BY <1>1 DEF AddClient, Goto
<1>3. PICK k \in 0 .. NumIds - 1 :
          IsFirstFree(k) /\ Register(c, Candidate(k))
  BY <1>1 DEF AddClient
<1>4. clients[Candidate(k)] # NoFd
  BY <1>3 DEF Register
<1>5. k = NumIds - 1
  BY <1>3, <1>4 DEF IsFirstFree
<1>6. ASSUME NEW n \in Ids PROVE clients[n] # NoFd
  <2>1. PICK j \in 0 .. NumIds - 1 : Candidate(j) = n
    BY CandidatesCover DEF TypeOK
  <2>2. CASE j = k
    BY <1>4, <2>1, <2>2
  <2>3. CASE j # k
    <3>1. j \in 0 .. k - 1
      BY <1>5, <2>3
    <3> QED
      BY <1>3, <2>1, <3>1 DEF IsFirstFree
  <2> QED
    BY <2>2, <2>3
<1> QED
  BY <1>2, <1>6

(* A registered client is overwritten only when no number is free.         *)
THEOREM OverwriteOnlyWhenFull == Spec => ClobberOnlyWhenFull
<1>1. TypeOK /\ [Next]_vars =>
        [clobbered' /\ ~clobbered => \A n \in Ids : clients[n] # NoFd]_vars
  BY OverwriteNeedsAll
<1>2. QED
  BY <1>1, TypeCorrect, PTL DEF Spec, ClobberOnlyWhenFull

(* A thread for every number and one to add are more than the numbers.     *)
LEMMA NumbersSuffice ==
  ASSUME TypeOK, RegistryOwned, IsFiniteSet(Conns),
         Cardinality(Conns) <= NumIds, NEW c \in Conns, pc[c] = "add",
         \A n \in Ids : clients[n] # NoFd
  PROVE  FALSE
<1> DEFINE owner == [n \in Ids |-> CHOOSE d \in Holders : num[d] = n]
<1>1. ASSUME NEW n \in Ids
      PROVE  owner[n] \in Holders /\ num[owner[n]] = n
  BY DEF RegistryOwned
<1>2. c \notin Holders /\ Holders \subseteq Conns
  BY DEF Holders, Registered
<1>3. owner \in Injection(Ids, Conns \ {c})
  <2>1. owner \in [Ids -> Conns \ {c}]
    BY <1>1, <1>2
  <2>2. \A m, n \in Ids : owner[m] = owner[n] => m = n
    BY <1>1
  <2> HIDE DEF owner
  <2> QED
    BY <2>1, <2>2 DEF Injection, IsInjective
<1>4. IsFiniteSet(Conns \ {c})
      /\ Cardinality(Conns \ {c}) = Cardinality(Conns) - 1
  BY FS_RemoveElement
<1>5. Cardinality(Ids) <= Cardinality(Conns \ {c})
  BY <1>3, <1>4, FS_Injection
<1>6. Cardinality(Ids) = NumIds
  BY FS_Interval DEF Ids
<1>7. Cardinality(Conns) \in Nat
  BY FS_CardinalityType
<1> QED
  BY <1>4, <1>5, <1>6, <1>7

(* With no more connections at once than there are numbers, addClient      *)
(* never overwrites a client (256 numbers in the code).                    *)
THEOREM NoOverwriteWithRoom ==
  ASSUME IsFiniteSet(Conns), Cardinality(Conns) <= NumIds
  PROVE  Spec => []~clobbered
<1>1. Init => ~clobbered
  BY DEF Init
<1>2. TypeOK /\ RegistryOwned /\ ~clobbered /\ [Next]_vars => ~clobbered'
  BY OverwriteNeedsAll, NumbersSuffice
<1> QED
  BY <1>1, <1>2, TypeCorrect, RegistryIsOwned, PTL DEF Spec

-----------------------------------------------------------------------------
(* Sessions. The events that wait lead from the sessions the application   *)
(* knows to those of the threads that have pushed their CONNECTED and not  *)
(* their DISCONNECTED.                                                     *)

(* All events that wait, oldest first, and what the callback may know.     *)
Queue == batch \o pending
Views == [Ids -> Conns \cup {NoConn}]

(* What an event may find when it is delivered.                            *)
Fits(s, e) ==
  /\ e.type = "CONNECTED" =>
       s[e.num] = NoConn /\ \A n \in Ids : s[n] # e.from
  /\ e.type # "CONNECTED" => s[e.num] = e.from

(* The events of q, each one fitting, make t out of s.                     *)
Path(s, q, t) ==
  \E h \in [0 .. Len(q) -> Views] :
    /\ h[0] = s /\ h[Len(q)] = t
    /\ \A i \in 1 .. Len(q) :
         Fits(h[i - 1], q[i]) /\ h[i] = After(h[i - 1], q[i])

(* t holds the threads that have pushed CONNECTED and not DISCONNECTED,    *)
(* each on its number.                                                     *)
Told == {c \in Conns : pc[c] \in {"test", "read", "bye"}}
AllTold(t) ==
  \A n \in Ids, c \in Conns : t[n] = c <=> c \in Told /\ num[c] = n

(* While no number was overwritten the events that wait lead from what the *)
(* callback knows to the threads that are there. close() clears the map    *)
(* under running threads; what they push until they end is dropped.        *)
SessionInv ==
  /\ mpc # "deliver" => batch = <<>>
  /\ ~clobbered /\ ~Cleared =>
       \E t \in Views : Path(session, Queue, t) /\ AllTold(t)

(* The cases of After.                                                     *)
LEMMA AfterIs ==
  ASSUME NEW s \in Views, NEW e \in Events
  PROVE  /\ e.type = "CONNECTED" => After(s, e) = [s EXCEPT ![e.num] = e.from]
         /\ e.type = "DISCONNECTED" =>
              After(s, e) = [s EXCEPT ![e.num] = NoConn]
         /\ e.type = "DATA" => After(s, e) = s
         /\ After(s, e) \in Views
<1>1. CASE e.type = "CONNECTED"
  <2>1. After(s, e) = [s EXCEPT ![e.num] = e.from]
    BY <1>1, Zenon DEF After
  <2> QED BY <1>1, <2>1 DEF Views, Events
<1>2. CASE e.type = "DISCONNECTED"
  <2>1. After(s, e) = [s EXCEPT ![e.num] = NoConn]
    BY <1>2, Zenon DEF After
  <2> QED BY <1>2, <2>1 DEF Views, Events
<1>3. CASE e.type = "DATA"
  <2>1. After(s, e) = s
    BY <1>3, Zenon DEF After
  <2> QED BY <1>3, <2>1
<1> QED
  BY <1>1, <1>2, <1>3 DEF Events

(* Paths begin empty, lose their first event and grow at their end.        *)
LEMMA PathEmpty ==
  ASSUME NEW s \in Views
  PROVE  Path(s, <<>>, s)
<1> DEFINE h == [i \in 0 .. 0 |-> s]
<1>1. Len(<<>>) = 0 /\ 1 .. 0 = {}
  OBVIOUS
<1>2. h \in [0 .. 0 -> Views] /\ h[0] = s
  OBVIOUS
<1> HIDE DEF h
<1> QED
  BY <1>1, <1>2 DEF Path

LEMMA PathHead ==
  ASSUME NEW s, NEW q \in Seq(Events), NEW t, Path(s, q, t), q # <<>>
  PROVE  /\ Fits(s, Head(q))
         /\ Path(After(s, Head(q)), Tail(q), t)
<1>1. PICK h \in [0 .. Len(q) -> Views] :
        /\ h[0] = s /\ h[Len(q)] = t
        /\ \A i \in 1 .. Len(q) :
             Fits(h[i - 1], q[i]) /\ h[i] = After(h[i - 1], q[i])
  BY DEF Path
<1> DEFINE n == Len(q) - 1
           g == [i \in 0 .. n |-> h[i + 1]]
<1>2. n \in Nat /\ Len(Tail(q)) = n /\ 1 \in 1 .. Len(q) /\ Head(q) = q[1]
  OBVIOUS
<1>3. \A i \in 1 .. n : Tail(q)[i] = q[i + 1]
  OBVIOUS
<1>4. Fits(s, Head(q)) /\ h[1] = After(s, Head(q))
  BY <1>1, <1>2
<1>5. g \in [0 .. n -> Views]
  BY <1>1, <1>2
<1>6. g[0] = After(s, Head(q)) /\ g[n] = t
  BY <1>1, <1>2, <1>4
<1>7. ASSUME NEW i \in 1 .. n
      PROVE  Fits(g[i - 1], Tail(q)[i]) /\ g[i] = After(g[i - 1], Tail(q)[i])
  <2>1. i + 1 \in 1 .. Len(q) /\ (i + 1) - 1 = (i - 1) + 1
    BY <1>2
  <2>2. g[i - 1] = h[(i + 1) - 1] /\ g[i] = h[i + 1]
    BY <1>2, <2>1
  <2> QED
    BY <1>1, <1>3, <2>1, <2>2
<1> HIDE DEF g, n
<1> QED
  BY <1>2, <1>4, <1>5, <1>6, <1>7 DEF Path

LEMMA PathAppend ==
  ASSUME NEW s, NEW q \in Seq(Events), NEW t, NEW e \in Events,
         Path(s, q, t), Fits(t, e)
  PROVE  Path(s, Append(q, e), After(t, e))
<1>1. PICK h \in [0 .. Len(q) -> Views] :
        /\ h[0] = s /\ h[Len(q)] = t
        /\ \A i \in 1 .. Len(q) :
             Fits(h[i - 1], q[i]) /\ h[i] = After(h[i - 1], q[i])
  BY DEF Path
<1> DEFINE n == Len(q) + 1
           g == [i \in 0 .. n |-> IF i = n THEN After(t, e) ELSE h[i]]
           r == Append(q, e)
<1>2. n \in Nat /\ Len(r) = n /\ r[n] = e /\ n - 1 = Len(q)
  OBVIOUS
<1>3. \A i \in 1 .. Len(q) : r[i] = q[i]
  OBVIOUS
<1>4. t \in Views
  BY <1>1
<1>5. After(t, e) \in Views
  BY <1>4, AfterIs
<1>6. g \in [0 .. n -> Views]
  BY <1>1, <1>5
<1>7. g[0] = s /\ g[n] = After(t, e)
  BY <1>1, <1>2
<1>8. ASSUME NEW i \in 1 .. n
      PROVE  Fits(g[i - 1], r[i]) /\ g[i] = After(g[i - 1], r[i])
  <2>1. CASE i = n
    <3>1. i - 1 = Len(q) /\ i - 1 \in 0 .. n /\ i - 1 # n
      BY <2>1
    <3>2. g[i - 1] = t
      BY <1>1, <3>1
    <3> HIDE DEF g, r
    <3> QED
      BY <1>2, <1>7, <2>1, <3>2
  <2>2. CASE i # n
    <3>1. i \in 1 .. Len(q)
      BY <2>2
    <3>2. g[i] = h[i] /\ g[i - 1] = h[i - 1]
      BY <2>2, <3>1
    <3> HIDE DEF g, r
    <3> QED
      BY <1>1, <1>3, <3>1, <3>2
  <2> QED
    BY <2>1, <2>2
<1> HIDE DEF g, r, n
<1> QED
  BY <1>2, <1>6, <1>7, <1>8 DEF Path, r

(* A pushed event waits behind the others.                                 *)
LEMMA QueuePush ==
  ASSUME TypeOK, NEW e \in Events, pending' = Append(pending, e),
         batch' = batch
  PROVE  Queue' = Append(Queue, e)
  BY DEF Queue, TypeOK

(* loop() delivers the first of them.                                      *)
LEMMA QueuePop ==
  ASSUME TypeOK, batch # <<>>
  PROVE  /\ Queue \in Seq(Events) /\ Queue # <<>>
         /\ Head(Queue) = Head(batch)
         /\ Tail(Queue) = Tail(batch) \o pending
  BY DEF Queue, TypeOK
(* What a step that leaves the events and the sessions alone keeps.        *)
LEMMA SameSessions ==
  ASSUME TypeOK, SessionInv, UNCHANGED <<session, Queue, Told>>,
         \A c \in Told : num'[c] = num[c], ~clobbered, ~Cleared
  PROVE  \E t \in Views : Path(session', Queue', t) /\ AllTold(t)'
<1>1. PICK t \in Views : Path(session, Queue, t) /\ AllTold(t)
  BY DEF SessionInv
<1>2. AllTold(t)'
  BY <1>1 DEF AllTold
<1> QED
  BY <1>1, <1>2

(* Two threads never share a number that both have told.                   *)
LEMMA NumbersApart ==
  ASSUME TypeOK, LifeInv, HoldersReachable, ~clobbered, ~Cleared,
         NEW c \in Holders, NEW d \in Holders, num[c] = num[d]
  PROVE  c = d
<1>1. c \in Conns /\ d \in Conns /\ pc[c] # "none"
  BY DEF Holders, Registered
<1>2. fdOf[c] = fdOf[d]
  BY DEF HoldersReachable
<1> QED
  BY <1>1, <1>2 DEF LifeInv, FdInv

(* A delivered event fits, and the rest of the path is left.               *)
LEMMA DeliverSessions ==
  ASSUME TypeOK, SessionInv, Deliver, ~clobbered, ~Cleared
  PROVE  /\ Fits(session, Head(batch))
         /\ \E t \in Views : Path(session', Queue', t) /\ AllTold(t)'
<1>1. PICK t \in Views : Path(session, Queue, t) /\ AllTold(t)
  BY DEF SessionInv
<1>2. batch # <<>> /\ session' = After(session, Head(batch))
      /\ batch' = Tail(batch) /\ UNCHANGED <<pending, pc, num>>
  BY DEF Deliver, threadVars
<1>3. Fits(session, Head(Queue)) /\ Path(After(session, Head(Queue)),
                                         Tail(Queue), t)
  BY <1>1, <1>2, QueuePop, PathHead
<1>4. Queue' = Tail(Queue)
  BY <1>2, QueuePop DEF Queue
<1>5. AllTold(t)'
  BY <1>1, <1>2 DEF AllTold, Told
<1> QED
  BY <1>1, <1>2, <1>3, <1>4, <1>5, QueuePop

(* A thread that is told of adds itself to the end of the path, data leave *)
(* it there, and a thread that goes takes itself off.                      *)
LEMMA ConnectedSessions ==
  ASSUME TypeOK, LifeInv, HoldersReachable, SessionInv, ~clobbered, ~Cleared,
         NEW c \in Conns, PushConnected(c)
  PROVE  \E t \in Views : Path(session', Queue', t) /\ AllTold(t)'
<1>1. PICK t \in Views : Path(session, Queue, t) /\ AllTold(t)
  BY DEF SessionInv
<1>2. /\ pc[c] = "hello" /\ pc' = [pc EXCEPT ![c] = "test"]
      /\ UNCHANGED <<batch, num, session>> /\ num[c] \in Ids
  BY DEF TypeOK, PushConnected, Goto
<1>3. PICK e \in Events :
        /\ e.num = num[c] /\ e.from = c /\ e.type = "CONNECTED"
        /\ pending' = Append(pending, e)
  <2>1. [num |-> num[c], type |-> "CONNECTED", from |-> c] \in Events
    BY DEF Events, TypeOK
  <2> QED
    BY <2>1 DEF PushConnected, PushEvent
<1>4. Queue' = Append(Queue, e) /\ Queue \in Seq(Events)
  BY <1>2, <1>3, QueuePush DEF Queue, TypeOK
<1>5. c \in Holders /\ c \notin Told
  BY <1>2 DEF Holders, Registered, Told
<1>6. \A d \in Conns : t[num[c]] # d
  <2>1. SUFFICES ASSUME NEW d \in Conns, t[num[c]] = d PROVE FALSE
    OBVIOUS
  <2>2. d \in Told /\ num[d] = num[c]
    BY <1>1, <1>2, <1>3, <2>1 DEF AllTold
  <2>3. d \in Holders
    BY <2>2 DEF Told, Holders, Registered
  <2> QED
    BY <1>5, <2>2, <2>3, NumbersApart
<1>7. t[num[c]] = NoConn /\ \A n \in Ids : t[n] # c
  BY <1>1, <1>2, <1>3, <1>5, <1>6 DEF AllTold, Views
<1>8. Fits(t, e)
  BY <1>3, <1>7 DEF Fits
<1>9. After(t, e) = [t EXCEPT ![num[c]] = c] /\ After(t, e) \in Views
  BY <1>3, AfterIs
<1>10. AllTold(After(t, e))'
  <2>1. Told' = Told \cup {c}
    BY <1>2 DEF Told, TypeOK
  <2>2. ASSUME NEW n \in Ids, NEW d \in Conns
        PROVE  After(t, e)[n] = d <=> d \in Told' /\ num[d] = n
    <3>1. CASE n = num[c]
      <4>1. After(t, e)[n] = c
        BY <1>3, <1>9, <3>1 DEF Views
      <4>2. d \in Told => num[d] # n
        BY <1>1, <1>3, <1>6, <3>1 DEF AllTold
      <4> QED
        BY <2>1, <3>1, <4>1, <4>2
    <3>2. CASE n # num[c]
      <4>1. After(t, e)[n] = t[n]
        BY <1>3, <1>9, <3>2 DEF Views
      <4> QED
        BY <1>1, <1>7, <2>1, <3>2, <4>1 DEF AllTold
    <3> QED BY <3>1, <3>2
  <2> QED
    BY <1>2, <2>2 DEF AllTold
<1>11. Path(session, Append(Queue, e), After(t, e))
  BY <1>1, <1>3, <1>4, <1>8, PathAppend
<1> QED
  BY <1>2, <1>4, <1>9, <1>10, <1>11

LEMMA DataSessions ==
  ASSUME TypeOK, SessionInv, ~clobbered, ~Cleared,
         NEW c \in Conns, ReadData(c)
  PROVE  \E t \in Views : Path(session', Queue', t) /\ AllTold(t)'
<1>1. PICK t \in Views : Path(session, Queue, t) /\ AllTold(t)
  BY DEF SessionInv
<1>2. /\ pc[c] = "read" /\ pc' = [pc EXCEPT ![c] = "test"]
      /\ UNCHANGED <<batch, num, session>> /\ num[c] \in Ids
  BY DEF TypeOK, ReadData, Goto, registryVars
<1>3. PICK e \in Events :
        /\ e.num = num[c] /\ e.from = c /\ e.type = "DATA"
        /\ pending' = Append(pending, e)
  <2>1. [num |-> num[c], type |-> "DATA", from |-> c] \in Events
    BY DEF Events, TypeOK
  <2> QED
    BY <2>1 DEF ReadData, PushEvent
<1>4. Queue' = Append(Queue, e) /\ Queue \in Seq(Events)
  BY <1>2, <1>3, QueuePush DEF Queue, TypeOK
<1>5. t[num[c]] = c
  BY <1>1, <1>2, <1>3 DEF AllTold, Told
<1>6. Fits(t, e) /\ After(t, e) = t
  BY <1>3, <1>5, AfterIs DEF Fits
<1>7. Told' = Told
  BY <1>2 DEF Told, TypeOK
<1>8. AllTold(t)'
  BY <1>1, <1>2, <1>7 DEF AllTold
<1>9. Path(session, Append(Queue, e), t)
  BY <1>1, <1>3, <1>4, <1>6, PathAppend
<1> QED
  BY <1>1, <1>2, <1>4, <1>8, <1>9

LEMMA DisconnectedSessions ==
  ASSUME TypeOK, LifeInv, HoldersReachable, SessionInv, ~clobbered, ~Cleared,
         NEW c \in Conns, PushDisconnected(c)
  PROVE  \E t \in Views : Path(session', Queue', t) /\ AllTold(t)'
<1>1. PICK t \in Views : Path(session, Queue, t) /\ AllTold(t)
  BY DEF SessionInv
<1>2. /\ pc[c] = "bye" /\ pc' = [pc EXCEPT ![c] = "erase"]
      /\ UNCHANGED <<batch, num, session>> /\ num[c] \in Ids
  BY DEF TypeOK, PushDisconnected, Goto
<1>3. PICK e \in Events :
        /\ e.num = num[c] /\ e.from = c /\ e.type = "DISCONNECTED"
        /\ pending' = Append(pending, e)
  <2>1. [num |-> num[c], type |-> "DISCONNECTED", from |-> c] \in Events
    BY DEF Events, TypeOK
  <2> QED
    BY <2>1 DEF PushDisconnected, PushEvent
<1>4. Queue' = Append(Queue, e) /\ Queue \in Seq(Events)
  BY <1>2, <1>3, QueuePush DEF Queue, TypeOK
<1>5. c \in Told /\ t[num[c]] = c
  BY <1>1, <1>2, <1>3 DEF AllTold, Told
<1>6. Fits(t, e) /\ After(t, e) = [t EXCEPT ![num[c]] = NoConn]
      /\ After(t, e) \in Views
  BY <1>3, <1>5, AfterIs DEF Fits
<1>7. Told' = Told \ {c}
  BY <1>2 DEF Told, TypeOK
<1>8. ASSUME NEW n \in Ids, NEW d \in Conns
      PROVE  After(t, e)[n] = d <=> d \in Told' /\ num[d] = n
  <2>1. CASE n = num[c]
    <3>1. After(t, e)[n] = NoConn /\ NoConn \notin Conns
      BY <1>3, <1>6, <2>1 DEF Views
    <3>2. d \in Told /\ num[d] = n => d = c
      BY <1>1, <1>3, <1>5, <2>1 DEF AllTold
    <3> QED
      BY <1>7, <3>1, <3>2
  <2>2. CASE n # num[c]
    <3>1. After(t, e)[n] = t[n]
      BY <1>3, <1>6, <2>2 DEF Views
    <3> QED
      BY <1>1, <1>7, <2>2, <3>1 DEF AllTold
  <2> QED BY <2>1, <2>2
<1>9. AllTold(After(t, e))'
  BY <1>2, <1>8 DEF AllTold
<1>10. Path(session, Append(Queue, e), After(t, e))
  BY <1>1, <1>3, <1>4, <1>6, PathAppend
<1> QED
  BY <1>2, <1>4, <1>6, <1>9, <1>10


(* Steps of threads that push nothing and are not, or stay, told.          *)
LEMMA OtherSteps ==
  ASSUME TypeOK, SessionInv, NEW c \in Conns,
         \/ Accept(c) \/ Spawn(c) \/ Handshake(c) \/ HandshakeFail(c)
         \/ AddClient(c) \/ TestActive(c) \/ ReadOther(c) \/ ReadEnd(c)
         \/ RemoveClient(c) \/ Hangup(c)
  PROVE  /\ UNCHANGED <<session, Queue, Told, batch, mpc>>
         /\ \A d \in Told : num'[d] = num[d]
<1> USE DEF TypeOK, Told, Goto, Queue, registryVars
<1>1. CASE Accept(c) \/ Spawn(c)
  BY <1>1 DEF Accept, Spawn
<1>2. CASE Handshake(c) \/ TestActive(c) \/ ReadOther(c) \/ ReadEnd(c)
  BY <1>2 DEF Handshake, TestActive, ReadOther, ReadEnd
<1>3. CASE HandshakeFail(c) \/ Hangup(c)
  BY <1>3 DEF HandshakeFail, Hangup, CloseFd
<1>4. CASE RemoveClient(c)
  BY <1>4 DEF RemoveClient
<1>5. CASE AddClient(c)
  <2>1. PICK k \in 0 .. NumIds - 1 : Register(c, Candidate(k))
    BY <1>5 DEF AddClient
  <2>2. num' = [num EXCEPT ![c] = Candidate(k)]
    BY <2>1 DEF Register
  <2> QED
    BY <1>5, <2>2 DEF AddClient
<1> QED
  BY <1>1, <1>2, <1>3, <1>4, <1>5

(* Every step keeps the path. close() may cut it off, because it ends all   *)
(* threads before the sessions start over.                                 *)
LEMMA SessionStep ==
  ASSUME TypeOK, LifeInv, HoldersReachable, SessionInv, [Next]_vars
  PROVE  SessionInv'
<1> DEFINE Good == \E t \in Views : Path(session', Queue', t) /\ AllTold(t)'
<1> SUFFICES /\ mpc' # "deliver" => batch' = <<>>
             /\ ~clobbered' /\ ~Cleared' => Good
  BY DEF SessionInv
<1> HIDE DEF Good
<1>1. ASSUME UNCHANGED <<session, batch, pending, pc, num, clobbered>>,
             Cleared => Cleared', mpc' = "deliver" <=> mpc = "deliver"
      PROVE  /\ mpc' # "deliver" => batch' = <<>>
             /\ ~clobbered' /\ ~Cleared' => Good
  <2>1. Queue' = Queue /\ Told' = Told
    BY <1>1 DEF Queue, Told
  <2> QED
    BY <1>1, <2>1, SameSessions DEF SessionInv, Good
<1>2. CASE \/ Begin \/ OnEvent \/ CloseStart \/ CloseListen \/ CloseClear
           \/ CloseJoinAccept \/ CloseJoinClients \/ AcceptTest
           \/ AcceptFail \/ UNCHANGED vars
  <2>1. UNCHANGED <<session, batch, pending, pc, num, clobbered>>
    BY <1>2 DEF Begin, OnEvent, CloseStart, CloseListen, CloseClear,
       CloseJoinAccept, CloseJoinClients, AcceptTest, AcceptFail, vars,
       threadVars, registryVars
  <2>2. Cleared => Cleared'
    BY <1>2 DEF Begin, OnEvent, CloseStart, CloseListen, CloseClear,
       CloseJoinAccept, CloseJoinClients, AcceptTest, AcceptFail, vars,
       Cleared
  <2>3. mpc' = "deliver" <=> mpc = "deliver"
    BY <1>2 DEF Begin, OnEvent, CloseStart, CloseListen, CloseClear,
       CloseJoinAccept, CloseJoinClients, AcceptTest, AcceptFail, vars
  <2> QED
    BY <1>1, <2>1, <2>2, <2>3
<1>3. CASE Loop
  <2>1. /\ mpc = "idle" /\ mpc' = "deliver" /\ batch = <<>>
        /\ batch' = pending /\ pending' = <<>>
        /\ UNCHANGED <<session, pc, num, clobbered>>
    BY <1>3 DEF Loop, SessionInv, threadVars, registryVars
  <2>2. Queue' = Queue /\ Told' = Told
    BY <2>1 DEF Queue, Told, TypeOK
  <2>3. ~Cleared
    BY <2>1 DEF Cleared
  <2> QED
    BY <2>1, <2>2, <2>3, SameSessions DEF Good
<1>4. CASE Deliver
  <2>1. /\ mpc = "deliver" /\ clobbered' = clobbered
        /\ mpc' # "deliver" => batch' = <<>>
    BY <1>4 DEF Deliver, registryVars
  <2>2. ~Cleared
    BY <2>1 DEF Cleared
  <2> QED
    BY <1>4, <2>1, <2>2, DeliverSessions DEF Good
<1>5. CASE CloseDrain
  <2>1. /\ mpc = "drain" /\ batch = <<>> /\ batch' = <<>>
        /\ pending' = <<>> /\ pc' = pc /\ session' = [n \in Ids |-> NoConn]
    BY <1>5 DEF CloseDrain, SessionInv, threadVars
  <2>2. Queue' = <<>>
    BY <2>1 DEF Queue
  <2>3. Told' = {}
    BY <2>1 DEF Told, LifeInv, ThreadInv
  <2>4. session' \in Views
    BY <2>1 DEF Views
  <2>5. Path(session', Queue', session')
    BY <2>2, <2>4, PathEmpty
  <2>6. \A n \in Ids, c \in Conns : session'[n] # c
    BY <2>1
  <2>7. \A n \in Ids, c \in Conns :
          session'[n] = c <=> c \in Told' /\ num'[c] = n
    BY <2>3, <2>6
  <2>8. Good
    BY <2>4, <2>5, <2>7 DEF AllTold, Good
  <2> QED
    BY <2>1, <2>8
<1>6. ASSUME NEW c \in Conns,
             \/ Accept(c) \/ Spawn(c) \/ Handshake(c) \/ HandshakeFail(c)
             \/ AddClient(c) \/ TestActive(c) \/ ReadOther(c) \/ ReadEnd(c)
             \/ RemoveClient(c) \/ Hangup(c)
      PROVE  /\ mpc' # "deliver" => batch' = <<>>
             /\ ~clobbered' /\ ~Cleared' => Good
  <2>1. /\ UNCHANGED <<session, Queue, Told, batch, mpc>>
        /\ \A d \in Told : num'[d] = num[d]
    BY <1>6, OtherSteps
  <2>2. clobbered => clobbered'
    BY <1>6 DEF Accept, Spawn, Handshake, HandshakeFail, AddClient, Register,
       TestActive, ReadOther, ReadEnd, RemoveClient, Hangup, CloseFd,
       registryVars
  <2> QED
    BY <2>1, <2>2, SameSessions DEF SessionInv, Good, Cleared
<1>7. ASSUME NEW c \in Conns,
             PushConnected(c) \/ ReadData(c) \/ PushDisconnected(c)
      PROVE  /\ mpc' # "deliver" => batch' = <<>>
             /\ ~clobbered' /\ ~Cleared' => Good
  <2>1. UNCHANGED <<mpc, batch, clobbered>>
    BY <1>7 DEF PushConnected, ReadData, PushDisconnected, registryVars
  <2> QED
    BY <1>7, <2>1, ConnectedSessions, DataSessions, DisconnectedSessions
    DEF SessionInv, Good, Cleared
<1> QED
  BY <1>2, <1>3, <1>4, <1>5, <1>6, <1>7 DEF Next, Close, ClientStep

(* The events that wait always lead to the threads that are there.         *)
LEMMA SessionCorrect == Spec => []SessionInv
<1>1. Init => SessionInv
  <2> SUFFICES ASSUME Init PROVE SessionInv
    OBVIOUS
  <2>1. session \in Views
    BY DEF Init, Views
  <2>2. Queue = <<>> /\ batch = <<>>
    BY DEF Init, Queue
  <2>3. Path(session, Queue, session)
    BY <2>1, <2>2, PathEmpty
  <2>4. \A n \in Ids, c \in Conns : session[n] # c /\ c \notin Told
    BY DEF Init, Told
  <2> QED
    BY <2>1, <2>2, <2>3, <2>4 DEF SessionInv, AllTold
<1>2. TypeOK /\ LifeInv /\ HoldersReachable /\ SessionInv /\ [Next]_vars
        => SessionInv'
  BY SessionStep
<1>3. QED
  BY <1>1, <1>2, TypeCorrect, LifeCorrect, ClientsAreReachable, PTL DEF Spec

(* Until then, too, a CONNECTED is delivered on a number without session,  *)
(* and data and DISCONNECTED come from the connection that has the number  *)
(* (pushEvent, drainEvents).                                               *)
THEOREM EventsFit ==
  Spec => [](~clobbered /\ mpc = "deliver" /\ batch # <<>>
               => Fits(session, Head(batch)))
<1>1. ASSUME TypeOK, SessionInv, ~clobbered, mpc = "deliver", batch # <<>>
      PROVE  Fits(session, Head(batch))
  <2>1. PICK t \in Views : Path(session, Queue, t)
    BY <1>1 DEF SessionInv, Cleared
  <2> QED
    BY <1>1, <2>1, QueuePop, PathHead
<1> QED
  BY <1>1, TypeCorrect, SessionCorrect, PTL

(* What WsSessions may see next: the head of what loop() still holds.      *)
LEMMA DueIs ==
  ASSUME TypeOK
  PROVE  Due \in {{}} \cup {{e} : e \in Events}
<1>1. batch \in Seq(Events)
  BY DEF TypeOK
<1>2. batch # <<>> => Head(batch) \in Events
  BY <1>1
<1> QED
  BY <1>2 DEF Due

(* Delivering an event that fits is handing it over.                       *)
LEMMA DeliverHandsOver ==
  ASSUME TypeOK, TypeOK', SessionInv, ~clobbered, Deliver
  PROVE  Sessions!HandOver
<1> DEFINE e == Head(batch)
<1>1. ~Cleared /\ batch # <<>> /\ session' = After(session, e)
  BY DEF Deliver, Cleared
<1>2. Fits(session, e)
  BY <1>1, DeliverSessions
<1>3. e \in Events /\ session \in Views
  BY <1>1 DEF TypeOK, Views
<1>4. e \in Due
  BY <1>1 DEF Due
<1>5. Sessions!AnyNext
  <2>1. Due' \in {{}} \cup {{f} : f \in Events}
    BY DueIs DEF Due, TypeOK
  <2> QED
    BY <2>1 DEF Sessions!AnyNext, Sessions!Events, Events
<1> HIDE DEF e
<1>6. CASE e.type = "CONNECTED"
  <2>1. session' = [session EXCEPT ![e.num] = e.from]
    BY <1>1, <1>3, <1>6, AfterIs
  <2>2. Sessions!Connected(e)
    BY <1>2, <1>6, <2>1 DEF Sessions!Connected, Fits
  <2> QED
    BY <1>4, <1>5, <2>2 DEF Sessions!HandOver
<1>7. CASE e.type = "DISCONNECTED"
  <2>1. session' = [session EXCEPT ![e.num] = NoConn]
    BY <1>1, <1>3, <1>7, AfterIs
  <2>2. Sessions!Disconnected(e)
    BY <1>2, <1>7, <2>1 DEF Sessions!Disconnected, Fits
  <2> QED
    BY <1>4, <1>5, <2>2 DEF Sessions!HandOver
<1>8. CASE e.type = "DATA"
  <2>1. session' = session
    BY <1>1, <1>3, <1>8, AfterIs
  <2>2. Sessions!Data(e)
    BY <1>2, <1>8, <2>1 DEF Sessions!Data, Fits
  <2> QED
    BY <1>4, <1>5, <2>2 DEF Sessions!HandOver
<1> QED
  BY <1>3, <1>6, <1>7, <1>8 DEF Events

(* A step of the server is one of WsSessions or a stutter.                 *)
LEMMA SessionsStep ==
  ASSUME TypeOK, TypeOK', SessionInv, ~clobbered, [Next]_vars
  PROVE  [Sessions!Next]_(Sessions!vars)
<1>1. CASE Deliver
  BY <1>1, DeliverHandsOver DEF Sessions!Next
<1>2. CASE Loop
  <2>1. Due = {} /\ session' = session
    BY <1>2 DEF Loop, SessionInv, Due
  <2>2. Due' \in {{}} \cup {{e} : e \in Events}
    BY DueIs DEF Due, TypeOK
  <2>3. Sessions!Take
    BY <2>1, <2>2 DEF Sessions!Take, Sessions!AnyNext, Sessions!Events,
       Events
  <2> QED
    BY <2>3 DEF Sessions!Next
<1>3. CASE CloseDrain
  <2>1. /\ batch = <<>> /\ batch' = <<>>
        /\ session' = [n \in Ids |-> NoConn]
    BY <1>3 DEF CloseDrain, SessionInv
  <2>2. Due = {} /\ Due' = {}
    BY <2>1 DEF Due
  <2> QED
    BY <2>1, <2>2 DEF Sessions!Next, Sessions!Closed, Sessions!NoSession
<1>4. CASE ~Deliver /\ ~Loop /\ ~CloseDrain
  <2>1. session' = session /\ batch' = batch
    BY <1>4 DEF Next, vars, Begin, OnEvent, CloseStart, Close,
         CloseListen, CloseClear, CloseJoinAccept, CloseJoinClients,
         AcceptTest, AcceptFail, Accept, Spawn, ClientStep,
         Handshake, HandshakeFail, AddClient, PushConnected, TestActive,
         ReadData, ReadOther, ReadEnd, PushDisconnected, RemoveClient,
         Hangup, CloseFd
  <2> QED BY <2>1 DEF Sessions!vars, Due
<1> QED
  BY <1>1, <1>2, <1>3, <1>4

(* Until addClient overwrites a client, the events that loop() delivers    *)
(* are sessions: one CONNECTED, data and one DISCONNECTED of the same      *)
(* connection, and the number is free again; close() ends all of them.     *)
THEOREM SessionsUntilOverwritten == Spec /\ []~clobbered => SessionsSpec
<1>1. Init => Sessions!Init
  BY DEF Init, Sessions!Init, Sessions!NoSession, Due
<1>2. TypeOK /\ TypeOK' /\ SessionInv /\ ~clobbered /\ [Next]_vars
        => [Sessions!Next]_(Sessions!vars)
  BY SessionsStep
<1> QED
  BY <1>1, <1>2, TypeCorrect, SessionCorrect, PTL
  DEF Spec, SessionsSpec, Sessions!Spec

(* So with no more connections at once than numbers the callback of loop() *)
(* always sees sessions, as WsSessions says.                               *)
THEOREM SessionsAreKept ==
  ASSUME IsFiniteSet(Conns), Cardinality(Conns) <= NumIds
  PROVE  Spec => SessionsSpec
  BY NoOverwriteWithRoom, SessionsUntilOverwritten, PTL
=============================================================================
