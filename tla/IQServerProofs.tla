--------------------------- MODULE IQServerProofs ---------------------------
(***************************************************************************)
(* Proofs about IQSocket and about IQServer, which stops it.  Every client *)
(* being served occupies a thread of the pool, and so does the one that    *)
(* asks: if the limit is not below the pool's size, whoever asks finds the *)
(* counter at the limit or under it.  With a larger pool there is a queue, *)
(* and counter and queue are exact as long as queued clients stay.  The    *)
(* last two parts are about what ends with the server, and what does not.  *)
(***************************************************************************)
EXTENDS IQServer, FiniteSetTheorems, TLAPS

(***************************************************************************)
(* With no more threads in the pool than clients the limit lets in, nobody *)
(* is ever queued: the pool, not socket_counter, is what bounds the        *)
(* clients served, and lines 58-77 are never reached.                      *)
(***************************************************************************)
NeverQueued ==
  /\ connection_queue = <<>> /\ queued = {}
  /\ \A c \in Conns : handler[c] = "ask" => ~Full

\* The places of on_open between fetch_add and fetch_sub.
Served == {"sent", "waiting", "woken", "leave"}

SocketInv ==
  /\ TypeOK
  /\ queued = {} /\ connection_queue = <<>>
  /\ admitted = {c \in Conns : handler[c] \in Served}
  /\ Cardinality(Busy) <= PoolSize
  /\ socket_counter = Cardinality(admitted)

\* The connections, and every set of them, can be counted.
LEMMA ConnsFinite ==
  /\ IsFiniteSet(Conns)
  /\ \A S \in SUBSET Conns : IsFiniteSet(S) /\ Cardinality(S) \in Nat
<1>1. IsFiniteSet(Conns)
  BY FS_Interval, SocketAssumption DEF Conns
<1> QED
  BY <1>1, FS_Subset, FS_CardinalityType

LEMMA NoWrap ==
  ASSUME NEW n \in 0 .. Word - 1
  PROVE  n % Word = n
<1>1. n \in Int /\ 0 <= n /\ n < 65536
  BY DEF Word
<1>2. n % 65536 = n
  BY <1>1, SMT
<1> QED
  BY <1>2 DEF Word

\* A word is an integer below Word; the prover needs it with Word unexpanded.
LEMMA InWord ==
  ASSUME NEW n \in Int, 0 <= n, n < Word
  PROVE  n \in 0 .. Word - 1
<1>1. Word \in Int
  BY DEF Word
<1> QED
  BY <1>1, SMT

\* The counter does not wrap, counting up below the limit ...
LEMMA CountUp ==
  ASSUME NEW n \in Nat, n <= Limit
  PROVE  n + 1 \in 0 .. Word - 1 /\ (n + 1) % Word = n + 1
<1>1. Limit \in Int /\ Limit <= 65534
  BY SocketAssumption, SMT DEF Word
<1>2. n + 1 \in Int /\ 0 <= n + 1 /\ n + 1 < Word
  BY <1>1, SMT DEF Word
<1> QED
  BY <1>2, InWord, NoWrap

\* ... or down from at least one.
LEMMA CountDown ==
  ASSUME NEW n \in 0 .. Word - 1, n - 1 \in Nat
  PROVE  n - 1 \in 0 .. Word - 1 /\ (n - 1) % Word = n - 1
<1>1. n - 1 \in Int /\ 0 <= n - 1 /\ n - 1 < Word
  BY SMT DEF Word
<1> QED
  BY <1>1, InWord, NoWrap

-----------------------------------------------------------------------------
(* Types *)

LEMMA MoreType == \A n \in 0 .. MaxInFlight : More(n) \in 0 .. MaxInFlight
  BY SocketAssumption DEF More

LEMMA FewerType ==
  \A n \in 0 .. MaxInFlight : n > 0 => Fewer(n) \subseteq 0 .. MaxInFlight
  BY SocketAssumption DEF Fewer

LEMMA WordType == \A n \in Int : n % Word \in 0 .. Word - 1
  BY SMT DEF Word

LEMMA InitTypeOK == Init => TypeOK
<1> SUFFICES ASSUME Init PROVE TypeOK
  OBVIOUS
<1>1. connection_queue \in Seq(Addresses)
  BY DEF Init
<1>2. in_flight \in [Conns -> 0 .. MaxInFlight] /\ socket_counter \in 0 .. Word - 1
  BY SocketAssumption DEF Init, Word
<1> QED
  BY <1>1, <1>2 DEF Init, TypeOK

LEMMA SendsTypes ==
  ASSUME TypeOK, NEW c \in Conns, Sends(c)
  PROVE  /\ handler' \in [Conns -> {"none", "ask", "sent", "waiting", "woken", "leave", "done"}]
         /\ in_flight' \in [Conns -> 0 .. MaxInFlight]
<1>1. More(in_flight[c]) \in 0 .. MaxInFlight
  BY MoreType DEF TypeOK
<1> QED
  BY <1>1 DEF Sends, TypeOK

\* Wakes those that wait: a published image, or the destructor.
Wakes ==
  /\ handler' = [c \in Conns |-> IF handler[c] = "waiting" THEN "woken" ELSE handler[c]]
  /\ UNCHANGED <<peer, sendVars, queueVars, undefined>>

LEMMA OnOpenTypes ==
  ASSUME TypeOK, NEW c \in Conns, OnOpen(c)
  PROVE  TypeOK'
<1>1. CASE Enqueue(c)
  <2>1. connection_queue' \in Seq(Addresses)
    BY <1>1 DEF Enqueue, TypeOK, Addresses
  <2> QED
    BY <1>1, <2>1, SendsTypes DEF Enqueue, TypeOK
<1>2. CASE StayQueued(c)
  BY <1>2, SendsTypes DEF StayQueued, TypeOK, queueVars
<1>3. CASE Admit(c)
  <2>1. connection_queue' \in Seq(Addresses)
    <3>1. CASE c \in queued
      <4>1. connection_queue # <<>> /\ connection_queue' = Tail(connection_queue)
        BY <1>3, <3>1 DEF Admit, First
      <4> QED
        BY <4>1 DEF TypeOK
    <3>2. CASE c \notin queued
      BY <1>3, <3>2 DEF Admit, TypeOK
    <3> QED
      BY <3>1, <3>2
  <2>2. socket_counter' \in 0 .. Word - 1
    <3>1. socket_counter + 1 \in Int /\ socket_counter' = (socket_counter + 1) % Word
      BY <1>3 DEF Admit, TypeOK
    <3> QED
      BY <3>1, WordType
  <2>3. Sends(c)
    BY <1>3 DEF Admit
  <2>4. /\ status_' \in [Conns -> {-1, 0, 1}] /\ status_'[c] = 0
        /\ \A d \in Conns : d # c => status_'[d] = status_[d]
    BY <1>3 DEF Admit, TypeOK
  <2>5. \A d \in admitted' : status_'[d] # 1
    BY <1>3, <2>4 DEF Admit, TypeOK
  <2> QED
    BY <1>3, <2>1, <2>2, <2>3, <2>4, <2>5, SendsTypes DEF Admit, TypeOK
<1>4. CASE TestStatus(c)
  <2>1. status_[c] \in {-1, 0, 1}
    BY DEF TypeOK
  <2>2. handler' \in [Conns -> {"none", "ask", "sent", "waiting", "woken", "leave", "done"}]
    <3>1. CASE status_[c] = 1
      BY <1>4, <3>1 DEF TestStatus, TypeOK
    <3>2. CASE status_[c] = 0
      BY <1>4, <3>2 DEF TestStatus, TypeOK
    <3>3. CASE status_[c] = -1
      BY <1>4, <3>3 DEF TestStatus, TypeOK
    <3> QED
      BY <2>1, <3>1, <3>2, <3>3
  <2> QED
    BY <1>4, <2>2 DEF TestStatus, TypeOK, sendVars, queueVars
<1>5. CASE SendImage(c)
  <2>1. CASE status_[c] = 0
    BY <1>5, <2>1, SendsTypes DEF SendImage, TypeOK, queueVars
  <2>2. CASE status_[c] # 0
    BY <1>5, <2>2 DEF SendImage, TypeOK, queueVars
  <2> QED
    BY <2>1, <2>2
<1>6. CASE Leave(c)
  <2>1. socket_counter' \in 0 .. Word - 1
    <3>1. socket_counter - 1 \in Int /\ socket_counter' = (socket_counter - 1) % Word
      BY <1>6 DEF Leave, TypeOK
    <3> QED
      BY <3>1, WordType
  <2> QED
    BY <1>6, <2>1 DEF Leave, TypeOK, sendVars
<1> QED
  BY <1>1, <1>2, <1>3, <1>4, <1>5, <1>6 DEF OnOpen

LEMMA NextTypeOK ==
  ASSUME TypeOK, Next \/ Wakes \/ UNCHANGED vars
  PROVE  TypeOK'
<1>1. ASSUME NEW c \in Conns, Connect(c) \/ Disconnect(c) \/ SpuriousWakeup(c)
      PROVE  TypeOK'
  BY <1>1 DEF Connect, Disconnect, SpuriousWakeup, TypeOK, sendVars, queueVars
<1>2. ASSUME NEW c \in Conns, SendCompletes(c) PROVE TypeOK'
  <2>1. in_flight' \in [Conns -> 0 .. MaxInFlight]
    BY <1>2, FewerType DEF SendCompletes, TypeOK
  <2>2. /\ status_' \in [Conns -> {-1, 0, 1}] /\ undefined' \in BOOLEAN
        /\ \A d \in admitted : status_'[d] # 1
    BY <1>2 DEF SendCompletes, SendError, TypeOK
  <2> QED
    BY <1>2, <2>1, <2>2 DEF SendCompletes, TypeOK, queueVars
<1>3. Wakes => TypeOK'
  BY DEF Wakes, TypeOK, sendVars, queueVars
<1>4. Publish => Wakes
  BY DEF Publish, Wakes
<1>5. UNCHANGED vars => TypeOK'
  BY DEF vars, TypeOK, sendVars, queueVars
<1> QED
  BY <1>1, <1>2, <1>3, <1>4, <1>5, OnOpenTypes DEF Next

-----------------------------------------------------------------------------
(* The counter *)

\* fetch_add below the limit, and fetch_sub for a client that was counted.
LEMMA AdmitCounts ==
  ASSUME TypeOK, socket_counter = Cardinality(admitted),
         Cardinality(admitted) <= Limit,
         NEW c \in Conns, c \notin admitted, Admit(c)
  PROVE  /\ socket_counter' = Cardinality(admitted')
         /\ Cardinality(admitted') = Cardinality(admitted) + 1
<1>1. /\ admitted' = admitted \cup {c}
      /\ IsFiniteSet(admitted) /\ Cardinality(admitted) \in Nat
  BY ConnsFinite DEF Admit, TypeOK
<1>2. Cardinality(admitted') = Cardinality(admitted) + 1
  BY <1>1, FS_AddElement
<1>3. socket_counter' = (Cardinality(admitted) + 1) % Word
  BY DEF Admit
<1> QED
  BY <1>1, <1>2, <1>3, CountUp

LEMMA LeaveCounts ==
  ASSUME TypeOK, socket_counter = Cardinality(admitted),
         NEW c \in admitted, Leave(c)
  PROVE  /\ socket_counter' = Cardinality(admitted')
         /\ Cardinality(admitted') = Cardinality(admitted) - 1
<1>1. /\ admitted' = admitted \ {c}
      /\ IsFiniteSet(admitted) /\ Cardinality(admitted) \in Nat
      /\ Cardinality(admitted \ {c}) \in Nat
  BY ConnsFinite DEF Leave, TypeOK
<1>2. Cardinality(admitted') = Cardinality(admitted) - 1
  BY <1>1, FS_RemoveElement
<1>3. socket_counter' = (Cardinality(admitted) - 1) % Word
  BY DEF Leave
<1>4. Cardinality(admitted) \in 0 .. Word - 1 /\ Cardinality(admitted) - 1 \in Nat
  BY <1>1, <1>2 DEF TypeOK
<1> QED
  BY <1>2, <1>3, <1>4, CountDown

-----------------------------------------------------------------------------
(* A pool no larger than the limit *)

\* Whoever asks is let in.
LEMMA RoomForAll ==
  ASSUME PoolSize <= Limit + 1, SocketInv,
         NEW c \in Conns, handler[c] = "ask"
  PROVE  Cardinality(admitted) <= Limit
<1>1. /\ IsFiniteSet(Busy) /\ c \in Busy
      /\ Busy \in SUBSET Conns
  BY ConnsFinite DEF Busy
<1>2. admitted \subseteq Busy \ {c}
  BY DEF SocketInv, Served, Busy
<1>3. IsFiniteSet(Busy \ {c}) /\ Cardinality(Busy \ {c}) = Cardinality(Busy) - 1
  BY <1>1, FS_RemoveElement
<1>4. Cardinality(admitted) <= Cardinality(Busy \ {c})
  BY <1>2, <1>3, FS_Subset
<1>5. Cardinality(admitted) \in Nat /\ Cardinality(Busy) \in Nat
  BY <1>1, ConnsFinite DEF SocketInv, TypeOK
<1> QED
  BY <1>3, <1>4, <1>5, SocketAssumption DEF SocketInv

\* At the start nobody is connected.
LEMMA InvInit == Init => SocketInv
<1> SUFFICES ASSUME Init PROVE SocketInv
  OBVIOUS
<1>1. admitted = {} /\ Busy = {} /\ admitted = {c \in Conns : handler[c] \in Served}
  BY DEF Init, Busy, Served
<1> QED
  BY <1>1, InitTypeOK, FS_EmptySet, SocketAssumption DEF SocketInv, Init

\* A step that moves one connection between places of the same kind, or
\* moves nobody, keeps the sets that are counted.
LEMMA SameSets ==
  ASSUME SocketInv, TypeOK',
         UNCHANGED queueVars,
         \A c \in Conns : \/ handler'[c] = handler[c]
                          \/ handler[c] \in Served /\ handler'[c] \in Served
  PROVE  SocketInv'
<1>1. Busy' = Busy /\ {c \in Conns : handler'[c] \in Served} = {c \in Conns : handler[c] \in Served}
  BY DEF Busy, Served
<1> QED
  BY <1>1 DEF SocketInv, queueVars

\* No step takes the server out of the invariant, its destructor's neither.
LEMMA InvNext ==
  ASSUME PoolSize <= Limit + 1, SocketInv, TypeOK',
         Next \/ Wakes \/ StopServer \/ UNCHANGED vars
  PROVE  SocketInv'
<1> USE DEF SocketInv
<1>1. ASSUME NEW c \in Conns, Connect(c) PROVE SocketInv'
  <2>1. Busy' = Busy \cup {c} /\ {d \in Conns : handler'[d] \in Served} = admitted
    BY <1>1 DEF Connect, TypeOK, Busy, Served
  <2>2. IsFiniteSet(Busy) /\ Cardinality(Busy) \in Nat
    BY ConnsFinite DEF Busy
  <2>3. c \notin Busy
    BY <1>1 DEF Connect, Busy
  <2>4. Cardinality(Busy') = Cardinality(Busy) + 1
    BY <2>1, <2>2, <2>3, FS_AddElement
  <2> QED
    BY <1>1, <2>1, <2>2, <2>4, SocketAssumption DEF Connect, PoolIdle, queueVars
<1>2. ASSUME NEW c \in Conns, Disconnect(c) \/ SendCompletes(c) PROVE SocketInv'
  BY <1>2, SameSets DEF Disconnect, SendCompletes
<1>3. ASSUME NEW c \in Conns, Enqueue(c) \/ StayQueued(c) PROVE SocketInv'
  <2>1. handler[c] = "ask" /\ Full
    BY <1>3 DEF Enqueue, StayQueued
  <2>2. Cardinality(admitted) <= Limit
    BY <2>1, RoomForAll
  <2>3. Cardinality(admitted) \in Nat /\ Limit \in Int
    BY ConnsFinite, SocketAssumption DEF TypeOK
  <2> QED
    BY <2>1, <2>2, <2>3 DEF Full
<1>4. ASSUME NEW c \in Conns, Admit(c) PROVE SocketInv'
  <2>1. /\ admitted' = admitted \cup {c} /\ c \notin admitted
        /\ Cardinality(admitted) <= Limit
    BY <1>4, RoomForAll DEF Admit, Served
  <2>2. socket_counter' = Cardinality(admitted')
    BY <1>4, <2>1, AdmitCounts
  <2>3. queued' = {} /\ connection_queue' = <<>>
    BY <1>4 DEF Admit
  <2>4. Busy' = Busy /\ admitted' = {d \in Conns : handler'[d] \in Served}
    BY <1>4, <2>1 DEF Admit, Sends, Busy, Served, TypeOK
  <2> QED
    BY <2>2, <2>3, <2>4
<1>5. ASSUME NEW c \in Conns, TestStatus(c) PROVE SocketInv'
  <2>1. status_[c] = 0 \/ status_[c] = -1
    BY <1>5 DEF TestStatus, TypeOK, Served
  <2>2. CASE status_[c] = 0
    BY <1>5, <2>2, SameSets DEF TestStatus, Served, TypeOK
  <2>3. CASE status_[c] = -1
    BY <1>5, <2>3, SameSets DEF TestStatus, Served, TypeOK
  <2> QED
    BY <2>1, <2>2, <2>3
<1>6. ASSUME NEW c \in Conns, SendImage(c) PROVE SocketInv'
  <2>1. handler' = [handler EXCEPT ![c] = "sent"] \/ handler' = [handler EXCEPT ![c] = "leave"]
    BY <1>6 DEF SendImage, Sends
  <2> QED
    BY <1>6, <2>1, SameSets DEF SendImage, Served, TypeOK
<1>7. ASSUME NEW c \in Conns, Leave(c) PROVE SocketInv'
  <2>1. /\ c \in admitted /\ c \in Busy
        /\ Busy \in SUBSET Conns /\ IsFiniteSet(Busy) /\ Cardinality(Busy) \in Nat
    BY <1>7, ConnsFinite DEF Leave, Served, Busy
  <2>2. /\ Busy' = Busy \ {c}
        /\ admitted' = {d \in Conns : handler'[d] \in Served}
    BY <1>7 DEF Leave, TypeOK, Served, Busy
  <2>3. Cardinality(Busy') = Cardinality(Busy) - 1
    BY <2>1, <2>2, FS_RemoveElement
  <2>4. socket_counter' = Cardinality(admitted')
    BY <1>7, <2>1, LeaveCounts
  <2> QED
    BY <1>7, <2>1, <2>2, <2>3, <2>4, SocketAssumption DEF Leave
<1>8. ASSUME NEW c \in Conns, SpuriousWakeup(c) PROVE SocketInv'
  BY <1>8, SameSets DEF SpuriousWakeup, Served, TypeOK
<1>9. ASSUME Wakes PROVE SocketInv'
  BY <1>9, SameSets DEF Wakes, Served, TypeOK
<1>10. ASSUME StopServer \/ UNCHANGED vars PROVE SocketInv'
  BY <1>10, SameSets DEF StopServer, vars
<1>11. Publish => Wakes
  BY DEF Publish, Wakes
<1> QED
  BY <1>1, <1>2, <1>3, <1>4, <1>5, <1>6, <1>7, <1>8, <1>9, <1>10, <1>11 DEF Next, OnOpen

-----------------------------------------------------------------------------
(* The life of the server *)

\* What a step of the program is to the clients.
SocketStep(c) ==
  \/ Disconnect(c) \/ OnOpen(c) \/ SpuriousWakeup(c)
  \/ PoolRuns /\ (Connect(c) \/ SendCompletes(c))

LEMMA ServerSteps ==
  ASSUME [ServerNext]_serverVars
  PROVE  /\ PoolRuns' => PoolRuns
         /\ \/ ~undefined /\ \E c \in Conns : SocketStep(c)
            \/ Wakes /\ (MayWake \/ ~PoolRuns')
            \/ StopServer
            \/ UNCHANGED vars
<1>1. ASSUME NEW c \in Conns, ClientStep(c), ~undefined
      PROVE  main' = main /\ SocketStep(c)
  BY <1>1 DEF ClientStep, PoolStep, OnOpenStep, SocketStep, lifeVars
<1>2. CASE ImageStep \/ ImageSpurious \/ NotifyRow
  BY <1>2 DEF ImageStep, ImageTest, ImagePark, ImageRow, ImageSpurious, NotifyRow, PoolRuns
<1>3. CASE ImagePublish
  BY <1>3 DEF ImagePublish, Publish, Wakes, PoolRuns
<1>4. CASE EndOfInput \/ JoinServer \/ ClearRun \/ NotifyImage \/ JoinImage
  BY <1>4 DEF EndOfInput, JoinServer, ClearRun, NotifyImage, JoinImage, MainGoes, PoolRuns
<1>5. CASE StopServer
  BY <1>5 DEF StopServer, MainGoes, PoolRuns
<1>6. CASE NotifyClients
  BY <1>6 DEF NotifyClients, Wakes, MainGoes, PoolRuns
<1>7. CASE UNCHANGED serverVars
  BY <1>7 DEF serverVars, lifeVars, PoolRuns
<1> QED
  BY <1>1, <1>2, <1>3, <1>4, <1>5, <1>6, <1>7 DEF ServerNext, Destructor, PoolRuns

LEMMA ServerTypes == ServerTypeOK /\ [ServerNext]_serverVars => ServerTypeOK'
<1> SUFFICES ASSUME ServerTypeOK, [ServerNext]_serverVars PROVE ServerTypeOK'
  OBVIOUS
<1>1. TypeOK'
  <2>1. (\E c \in Conns : SocketStep(c)) /\ ~undefined => Next
    BY DEF SocketStep, Next
  <2>2. StopServer => TypeOK'
    BY DEF StopServer, ServerTypeOK, TypeOK, sendVars, queueVars
  <2> QED
    BY <2>1, <2>2, ServerSteps, NextTypeOK DEF ServerTypeOK
<1>2. /\ main' \in {"rows", "stop", "join", "clear", "notify", "clients",
                  "joinImage", "returned"}
      /\ image' \in {"test", "park", "waiting", "work", "ended"}
      /\ runImageThread' \in BOOLEAN
  BY DEF ServerTypeOK, ServerNext, ClientStep, PoolStep, OnOpenStep, ImageStep, ImageTest,
     ImagePark, ImageRow, ImageSpurious, ImagePublish, NotifyRow, Woken, EndOfInput,
     Destructor, StopServer, JoinServer, ClearRun, NotifyImage, NotifyClients, JoinImage,
     MainGoes, serverVars, lifeVars
<1> QED
  BY <1>1, <1>2 DEF ServerTypeOK

(***************************************************************************)
(* With a limit not below the size of the pool, socket_counter is exact    *)
(* and nobody is ever queued: the code's limit of 21 is never met by its   *)
(* three threads (lines 54-75).                                            *)
(***************************************************************************)
THEOREM PoolIsTheLimit ==
  ASSUME PoolSize <= Limit + 1
  PROVE  Spec => [](TypeOK /\ CounterExact /\ NeverQueued)
<1>1. SocketInv => TypeOK /\ CounterExact /\ NeverQueued
  <2> SUFFICES ASSUME SocketInv PROVE CounterExact /\ NeverQueued
    BY DEF SocketInv
  <2>1. CounterExact
    BY FS_EmptySet DEF SocketInv, CounterExact
  <2>2. ASSUME NEW c \in Conns, handler[c] = "ask" PROVE ~Full
    BY <2>2, RoomForAll, ConnsFinite, SocketAssumption DEF SocketInv, TypeOK, Full
  <2> QED
    BY <2>1, <2>2 DEF SocketInv, NeverQueued
<1>2. SocketInv /\ [Next]_vars => SocketInv'
  BY InvNext, NextTypeOK DEF SocketInv
<1> QED
  BY <1>1, <1>2, InvInit, PTL DEF Spec

(***************************************************************************)
(* Clients and destructor keep the types of all that they share, and no    *)
(* client that is counted ever has the status of one that asks, so none    *)
(* asks twice (lines 48-127 and 250-262).                                  *)
(***************************************************************************)
THEOREM ServerIsTyped == ServerSpec => []ServerTypeOK
<1>1. ServerInit => ServerTypeOK
  BY InitTypeOK DEF ServerInit, ServerTypeOK
<1> QED
  BY <1>1, ServerTypes, PTL DEF ServerSpec

-----------------------------------------------------------------------------
(* Queued clients stay *)

\* Where on_open is says what its client is counted as.
Role(c) ==
  /\ c \in admitted => handler[c] \in Served
  /\ handler[c] \in Served \ {"sent"} => c \in admitted
  /\ c \in queued => handler[c] \in {"ask", "sent"} /\ c \notin admitted

\* A client that is not served yet is there, as far as the pool can see.
StillThere(c) ==
  /\ handler[c] = "none" => status_[c] = 1 /\ in_flight[c] = 0
  /\ c \notin admitted /\ handler[c] \in {"ask", "sent"} =>
       status_[c] = 1 /\ (PoolRuns => peer[c] = "open")

QueueInv ==
  /\ TypeOK
  /\ \A c \in Conns : Role(c) /\ StillThere(c)
  /\ Cardinality(admitted) <= Limit + 1
  /\ CounterExact

LEMMA QueueInit == Init => QueueInv
<1> SUFFICES ASSUME Init PROVE QueueInv
  OBVIOUS
<1>1. \A c \in Conns : Role(c) /\ StillThere(c)
  BY DEF Init, Role, StillThere, Served
<1>2. Cardinality(admitted) = 0 /\ Cardinality(queued) = 0
  BY FS_EmptySet DEF Init
<1>3. 0 <= Limit + 1
  BY SocketAssumption
<1> QED
  BY <1>1, <1>2, <1>3, InitTypeOK DEF QueueInv, CounterExact, Init

\* A step of one connection leaves the others as they are.
OthersStay(c) ==
  \A d \in Conns \ {c} :
    /\ peer'[d] = peer[d] /\ handler'[d] = handler[d]
    /\ status_'[d] = status_[d] /\ in_flight'[d] = in_flight[d]
    /\ (d \in admitted') = (d \in admitted) /\ (d \in queued') = (d \in queued)

LEMMA OneMoves ==
  ASSUME TypeOK, NEW c \in Conns, SocketStep(c)
  PROVE  OthersStay(c)
<1>1. CASE Connect(c) \/ Disconnect(c) \/ SpuriousWakeup(c)
  BY <1>1 DEF Connect, Disconnect, SpuriousWakeup, OthersStay, TypeOK, sendVars, queueVars
<1>2. CASE SendCompletes(c)
  BY <1>2 DEF SendCompletes, OthersStay, TypeOK, queueVars
<1>3. CASE Enqueue(c) \/ StayQueued(c) \/ Admit(c)
  BY <1>3 DEF Enqueue, StayQueued, Admit, Sends, OthersStay, TypeOK, queueVars
<1>4. CASE TestStatus(c) \/ Leave(c)
  BY <1>4 DEF TestStatus, Leave, OthersStay, TypeOK, sendVars, queueVars
<1>5. CASE SendImage(c)
  BY <1>5 DEF SendImage, Sends, OthersStay, TypeOK, queueVars
<1> QED
  BY <1>1, <1>2, <1>3, <1>4, <1>5 DEF SocketStep, OnOpen

\* What QueueInv says of the others, it goes on saying.
LEMMA OthersQueue ==
  ASSUME TypeOK, \A d \in Conns : Role(d) /\ StillThere(d),
         NEW c \in Conns, SocketStep(c), PoolRuns' => PoolRuns,
         (Role(c) /\ StillThere(c))'
  PROVE  \A d \in Conns : (Role(d) /\ StillThere(d))'
<1> SUFFICES ASSUME NEW d \in Conns, d # c PROVE (Role(d) /\ StillThere(d))'
  OBVIOUS
<1>1. /\ peer'[d] = peer[d] /\ handler'[d] = handler[d]
      /\ status_'[d] = status_[d] /\ in_flight'[d] = in_flight[d]
      /\ (d \in admitted') = (d \in admitted) /\ (d \in queued') = (d \in queued)
  BY OneMoves DEF OthersStay
<1>2. Role(d)'
  BY <1>1 DEF Role
<1>3. StillThere(d)'
  BY <1>1 DEF StillThere
<1> QED
  BY <1>2, <1>3

\* The queue grows with the clients in it, and shrinks with them.
LEMMA QueueCounts ==
  ASSUME QueueInv, NEW c \in Conns, Enqueue(c) \/ Admit(c)
  PROVE  Len(connection_queue') = Cardinality(queued')
<1>1. /\ IsFiniteSet(queued) /\ Cardinality(queued) \in Nat
      /\ connection_queue \in Seq(Addresses)
      /\ Len(connection_queue) = Cardinality(queued)
  BY ConnsFinite DEF QueueInv, TypeOK, CounterExact
<1>2. CASE Enqueue(c)
  <2>1. queued' = queued \cup {c} /\ c \notin queued
    BY <1>2 DEF Enqueue
  <2>2. Cardinality(queued') = Cardinality(queued) + 1
    BY <1>1, <2>1, FS_AddElement
  <2>3. Len(connection_queue') = Len(connection_queue) + 1
    BY <1>1, <1>2 DEF Enqueue, Addresses
  <2> QED
    BY <1>1, <2>2, <2>3
<1>3. CASE Admit(c) /\ c \in queued
  <2>1. connection_queue # <<>> /\ connection_queue' = Tail(connection_queue)
    BY <1>3 DEF Admit, First
  <2>2. Len(connection_queue') = Len(connection_queue) - 1
    BY <1>1, <2>1
  <2>3. queued' = queued \ {c}
    BY <1>3 DEF Admit
  <2>4. Cardinality(queued') = Cardinality(queued) - 1
    BY <1>1, <1>3, <2>3, FS_RemoveElement
  <2> QED
    BY <1>1, <2>2, <2>4
<1>4. CASE Admit(c) /\ c \notin queued
  BY <1>1, <1>4 DEF Admit
<1> QED
  BY <1>2, <1>3, <1>4

LEMMA QueueNext ==
  ASSUME Patient, QueueInv, [ServerNext]_serverVars, TypeOK'
  PROVE  QueueInv'
<1> USE DEF QueueInv
<1>1. ASSUME NEW c \in Conns, SocketStep(c), PoolRuns' => PoolRuns,
             (Role(c) /\ StillThere(c))', CounterExact',
             Cardinality(admitted') <= Limit + 1
      PROVE  QueueInv'
  BY <1>1, OthersQueue
<1>2. ASSUME UNCHANGED <<queued, admitted, socket_counter, connection_queue>>
      PROVE  CounterExact' /\ Cardinality(admitted') <= Limit + 1
  BY <1>2 DEF CounterExact
<1>3. PoolRuns' => PoolRuns
  BY ServerSteps
<1>4. ASSUME NEW c \in Conns, SocketStep(c), Connect(c) \/ Disconnect(c) PROVE QueueInv'
  <2>1. (Role(c) /\ StillThere(c))'
    BY <1>3, <1>4 DEF Connect, Disconnect, Role, StillThere, Served, TypeOK,
       sendVars, queueVars
  <2> QED
    BY <1>1, <1>2, <1>3, <1>4, <2>1 DEF Connect, Disconnect, queueVars
<1>5. ASSUME NEW c \in Conns, SocketStep(c), SpuriousWakeup(c) PROVE QueueInv'
  <2>1. (Role(c) /\ StillThere(c))'
    BY <1>5 DEF SpuriousWakeup, Role, StillThere, Served, TypeOK, sendVars, queueVars
  <2> QED
    BY <1>1, <1>2, <1>3, <1>5, <2>1 DEF SpuriousWakeup, queueVars
<1>6. ASSUME NEW c \in Conns, SocketStep(c), PoolRuns, SendCompletes(c) PROVE QueueInv'
  <2>1. in_flight[c] > 0 /\ UNCHANGED <<peer, handler, queued, admitted>>
    BY <1>6 DEF SendCompletes, queueVars
  <2>2. handler[c] # "none"
    BY <2>1 DEF StillThere
  <2>3. peer[c] = "open" => status_'[c] = status_[c]
    BY <1>6 DEF SendCompletes, TypeOK
  <2>4. (Role(c) /\ StillThere(c))'
    BY <1>6, <2>1, <2>2, <2>3 DEF Role, StillThere
  <2> QED
    BY <1>1, <1>2, <1>3, <1>6, <2>4 DEF SendCompletes, queueVars
<1>7. ASSUME NEW c \in Conns, SocketStep(c), Enqueue(c) PROVE QueueInv'
  <2>1. (Role(c) /\ StillThere(c))'
    BY <1>3, <1>7 DEF Enqueue, Sends, Role, StillThere, Served, PoolRuns, TypeOK
  <2>2. UNCHANGED <<admitted, socket_counter>>
    BY <1>7 DEF Enqueue
  <2> QED
    BY <1>1, <1>3, <1>7, <2>1, <2>2, QueueCounts DEF CounterExact
<1>8. ASSUME NEW c \in Conns, SocketStep(c), StayQueued(c) PROVE QueueInv'
  <2>1. (Role(c) /\ StillThere(c))'
    BY <1>3, <1>8 DEF StayQueued, Sends, Role, StillThere, Served, TypeOK, queueVars
  <2> QED
    BY <1>1, <1>2, <1>3, <1>8, <2>1 DEF StayQueued, queueVars
<1>9. ASSUME NEW c \in Conns, SocketStep(c), Admit(c) PROVE QueueInv'
  <2>1. (Role(c) /\ StillThere(c))'
    BY <1>9 DEF Admit, Sends, Role, StillThere, Served, TypeOK
  <2>2. c \notin admitted
    BY <1>9 DEF Admit, Role, Served
  <2>3. Cardinality(admitted) <= Limit /\ socket_counter = Cardinality(admitted)
    BY <1>9, ConnsFinite, SocketAssumption DEF Admit, Full, CounterExact, TypeOK
  <2>4. /\ socket_counter' = Cardinality(admitted')
        /\ Cardinality(admitted') = Cardinality(admitted) + 1
    BY <1>9, <2>2, <2>3, AdmitCounts
  <2>5. Cardinality(admitted') <= Limit + 1
    BY <2>3, <2>4, ConnsFinite, SocketAssumption DEF TypeOK
  <2> QED
    BY <1>1, <1>3, <1>9, <2>1, <2>4, <2>5, QueueCounts DEF CounterExact
<1>10. ASSUME NEW c \in Conns, SocketStep(c), TestStatus(c) PROVE QueueInv'
  <2>1. c \notin admitted => status_[c] = 1
    BY <1>10 DEF TestStatus, StillThere
  <2>2. /\ handler'[c] = CASE status_[c] = 1  -> "ask"
                          [] status_[c] = 0  -> "waiting"
                          [] status_[c] = -1 -> "leave"
        /\ UNCHANGED <<peer, status_, in_flight, queued, admitted>>
    BY <1>10 DEF TestStatus, TypeOK, sendVars, queueVars
  <2>3. c \in admitted => (Role(c) /\ StillThere(c))'
    <3> SUFFICES ASSUME c \in admitted PROVE (Role(c) /\ StillThere(c))'
      OBVIOUS
    <3>1. status_[c] \in {-1, 0}
      BY DEF TypeOK
    <3>2. handler'[c] \in {"waiting", "leave"}
      BY <2>2, <3>1
    <3> QED
      BY <2>2, <3>2 DEF Role, StillThere, Served
  <2>4. c \notin admitted => (Role(c) /\ StillThere(c))'
    <3> SUFFICES ASSUME c \notin admitted PROVE (Role(c) /\ StillThere(c))'
      OBVIOUS
    <3>1. handler'[c] = "ask"
      BY <2>1, <2>2
    <3> QED
      BY <1>3, <1>10, <2>1, <2>2, <3>1 DEF TestStatus, Role, StillThere, Served
  <2> QED
    BY <1>1, <1>2, <1>3, <1>10, <2>3, <2>4 DEF TestStatus, queueVars
<1>11. ASSUME NEW c \in Conns, SocketStep(c), SendImage(c) PROVE QueueInv'
  <2>1. c \in admitted /\ c \in admitted' /\ c \notin queued'
    BY <1>11 DEF SendImage, Role, Served, queueVars
  <2>2. handler'[c] \in {"sent", "leave"}
    BY <1>11 DEF SendImage, Sends, TypeOK
  <2>3. (Role(c) /\ StillThere(c))'
    BY <2>1, <2>2 DEF Role, StillThere, Served
  <2> QED
    BY <1>1, <1>2, <1>3, <1>11, <2>3 DEF SendImage, queueVars
<1>12. ASSUME NEW c \in Conns, SocketStep(c), Leave(c) PROVE QueueInv'
  <2>1. c \in admitted /\ socket_counter = Cardinality(admitted)
    BY <1>12 DEF Leave, Role, Served, CounterExact
  <2>2. /\ socket_counter' = Cardinality(admitted')
        /\ Cardinality(admitted') = Cardinality(admitted) - 1
    BY <1>12, <2>1, LeaveCounts
  <2>3. (Role(c) /\ StillThere(c))'
    BY <1>12, <2>1 DEF Leave, Role, StillThere, Served, TypeOK, sendVars
  <2>4. Cardinality(admitted') <= Limit + 1
    <3>1. Cardinality(admitted) \in Nat /\ Cardinality(admitted) <= Limit + 1
      BY ConnsFinite DEF TypeOK
    <3> QED
      BY <2>2, <3>1, SocketAssumption
  <2> QED
    BY <1>1, <1>3, <1>12, <2>2, <2>3, <2>4 DEF Leave, CounterExact
<1>13. ASSUME Wakes PROVE QueueInv'
  <2>1. \A c \in Conns : (Role(c) /\ StillThere(c))'
    BY <1>3, <1>13 DEF Wakes, Role, StillThere, Served, TypeOK, sendVars, queueVars
  <2> QED
    BY <1>2, <1>13, <2>1 DEF Wakes, queueVars
<1>14. ASSUME StopServer PROVE QueueInv'
  <2>1. ~PoolRuns'
    BY <1>14 DEF StopServer, MainGoes, PoolRuns
  <2>2. \A c \in Conns : (Role(c) /\ StillThere(c))'
    BY <1>14, <2>1 DEF StopServer, Role, StillThere, sendVars, queueVars
  <2> QED
    BY <1>2, <1>14, <2>2 DEF StopServer, queueVars
<1>15. ASSUME UNCHANGED vars PROVE QueueInv'
  <2>1. \A c \in Conns : (Role(c) /\ StillThere(c))'
    BY <1>3, <1>15 DEF vars, Role, StillThere, sendVars, queueVars
  <2> QED
    BY <1>2, <1>15, <2>1 DEF vars, queueVars
<1>16. ASSUME NEW c \in Conns, SocketStep(c) PROVE QueueInv'
  BY <1>4, <1>5, <1>6, <1>7, <1>8, <1>9, <1>10, <1>11, <1>12, <1>16
     DEF SocketStep, OnOpen
<1> QED
  BY <1>13, <1>14, <1>15, <1>16, ServerSteps

(***************************************************************************)
(* socket_counter is the number of clients being served and the queue has  *)
(* one entry for every client in it (lines 56-119), through the server's   *)
(* start and stop, when queued clients stay or when the pool leaves nobody *)
(* to queue.  Otherwise a queued client that has gone is never taken out,  *)
(* and leaving counts it down although it was never counted up.            *)
(***************************************************************************)
THEOREM CountersAreExact ==
  ASSUME Patient \/ PoolSize <= Limit + 1
  PROVE  ServerSpec => []CounterExact
<1>1. CASE Patient
  <2>1. ServerInit => QueueInv /\ ServerTypeOK
    BY QueueInit, InitTypeOK DEF ServerInit, ServerTypeOK
  <2>2. QueueInv /\ ServerTypeOK /\ [ServerNext]_serverVars => (QueueInv /\ ServerTypeOK)'
    BY <1>1, QueueNext, ServerTypes DEF ServerTypeOK
  <2>3. QueueInv => CounterExact
    BY DEF QueueInv
  <2> QED
    BY <2>1, <2>2, <2>3, PTL DEF ServerSpec
<1>2. CASE PoolSize <= Limit + 1
  <2>1. ServerInit => SocketInv /\ ServerTypeOK
    BY InvInit, InitTypeOK DEF ServerInit, ServerTypeOK
  <2>2. SocketInv /\ ServerTypeOK /\ [ServerNext]_serverVars => (SocketInv /\ ServerTypeOK)'
    <3> SUFFICES ASSUME SocketInv, ServerTypeOK, [ServerNext]_serverVars
                 PROVE  (SocketInv /\ ServerTypeOK)'
      OBVIOUS
    <3>1. (\E c \in Conns : SocketStep(c)) /\ ~undefined => Next
      BY DEF SocketStep, Next
    <3> QED
      BY <1>2, <3>1, ServerSteps, ServerTypes, InvNext DEF ServerTypeOK
  <2>3. SocketInv => CounterExact
    BY FS_EmptySet DEF SocketInv, CounterExact
  <2> QED
    BY <2>1, <2>2, <2>3, PTL DEF ServerSpec
<1> QED
  BY <1>1, <1>2

-----------------------------------------------------------------------------
(* Whose the entries of the queue are *)

\* f gives each entry of q to one client of S that has its address.
Owners(f, q, S) ==
  /\ f \in [1 .. Len(q) -> S]
  /\ \A j, k \in 1 .. Len(q) : f[j] = f[k] => j = k
  /\ \A c \in S : \E k \in 1 .. Len(q) : f[k] = c
  /\ \A k \in 1 .. Len(q) : q[k] = Address[f[k]]

QueueOwned == \E f : Owners(f, connection_queue, queued)

LEMMA OwnerEnters ==
  ASSUME NEW q \in Seq(Addresses), NEW S, NEW f, Owners(f, q, S),
         NEW c \in Conns, c \notin S
  PROVE  \E g : Owners(g, Append(q, Address[c]), S \cup {c})
<1> DEFINE n == Len(q)
           r == Append(q, Address[c])
           g == [k \in 1 .. n + 1 |-> IF k = n + 1 THEN c ELSE f[k]]
<1>1. /\ n \in Nat /\ Len(r) = n + 1 /\ r[n + 1] = Address[c]
      /\ \A k \in 1 .. n : r[k] = q[k]
  <2>1. Address[c] \in Addresses
    BY DEF Addresses
  <2> QED
    BY <2>1
<1>2. /\ \A k \in 1 .. n : f[k] \in S /\ f[k] # c /\ g[k] = f[k]
      /\ g[n + 1] = c
  BY <1>1 DEF Owners
<1>3. \A k \in 1 .. n + 1 : k \in 1 .. n \/ k = n + 1
  BY <1>1
<1>4. g \in [1 .. n + 1 -> S \cup {c}]
  BY <1>2, <1>3
<1>5. \A j, k \in 1 .. n + 1 : g[j] = g[k] => j = k
  BY <1>2, <1>3 DEF Owners
<1>6. \A d \in S \cup {c} : \E k \in 1 .. n + 1 : g[k] = d
  BY <1>1, <1>2 DEF Owners
<1>7. \A k \in 1 .. n + 1 : r[k] = Address[g[k]]
  BY <1>1, <1>2, <1>3 DEF Owners
<1>8. Owners(g, r, S \cup {c})
  <2> HIDE DEF g, r
  <2> QED
    BY <1>1, <1>4, <1>5, <1>6, <1>7 DEF Owners
<1> QED
  BY <1>8

\* Who is admitted need not own the first entry; another with the same
\* address then takes over the entry that is left.
LEMMA OwnerLeaves ==
  ASSUME NEW q \in Seq(Addresses), NEW S, NEW f, Owners(f, q, S),
         NEW c \in S, q # <<>>, Head(q) = Address[c]
  PROVE  \E g : Owners(g, Tail(q), S \ {c})
<1> DEFINE n == Len(q) - 1
           r == Tail(q)
           g == [k \in 1 .. n |-> IF f[k + 1] = c THEN f[1] ELSE f[k + 1]]
<1>1. /\ n \in Nat /\ Len(q) = n + 1 /\ Len(r) = n /\ q[1] = Address[c]
      /\ \A k \in 1 .. n : r[k] = q[k + 1]
  BY DEF Addresses
<1>2. /\ 1 \in 1 .. n + 1
      /\ \A k \in 1 .. n : k + 1 \in 1 .. n + 1 /\ k + 1 # 1
      /\ \A m \in 1 .. n + 1 : m = 1 \/ (m - 1 \in 1 .. n /\ m - 1 + 1 = m)
  BY <1>1
<1>3. g \in [1 .. n -> S \ {c}]
  <2> SUFFICES ASSUME NEW k \in 1 .. n PROVE g[k] \in S \ {c}
    OBVIOUS
  <2>1. f[1] \in S /\ f[k + 1] \in S /\ f[k + 1] # f[1]
    BY <1>1, <1>2 DEF Owners
  <2> QED
    BY <2>1
<1>4. \A j, k \in 1 .. n : g[j] = g[k] => j = k
  <2> SUFFICES ASSUME NEW j \in 1 .. n, NEW k \in 1 .. n, g[j] = g[k] PROVE j = k
    OBVIOUS
  <2>1. f[j + 1] # f[1] /\ f[k + 1] # f[1]
    BY <1>1, <1>2 DEF Owners
  <2>2. f[j + 1] = f[k + 1]
    BY <2>1
  <2>3. j + 1 = k + 1
    BY <1>1, <1>2, <2>2 DEF Owners
  <2> QED
    BY <2>3
<1>5. ASSUME NEW d \in S \ {c} PROVE \E k \in 1 .. n : g[k] = d
  <2>1. PICK m \in 1 .. n + 1 : f[m] = d
    BY <1>1 DEF Owners
  <2>2. CASE m # 1
    <3>1. m - 1 \in 1 .. n /\ f[m - 1 + 1] = d
      BY <1>2, <2>1, <2>2
    <3> QED
      BY <3>1
  <2>3. CASE m = 1
    <3>1. PICK l \in 1 .. n + 1 : f[l] = c
      BY <1>1 DEF Owners
    <3>2. l - 1 \in 1 .. n /\ f[l - 1 + 1] = c
      BY <1>2, <2>1, <2>3, <3>1
    <3> QED
      BY <2>1, <2>3, <3>2
  <2> QED
    BY <2>2, <2>3
<1>6. \A k \in 1 .. n : r[k] = Address[g[k]]
  BY <1>1, <1>2 DEF Owners
<1>7. Owners(g, r, S \ {c})
  <2> HIDE DEF g, r, n
  <2> QED
    BY <1>1, <1>3, <1>4, <1>5, <1>6 DEF Owners
<1> QED
  BY <1>7

LEMMA OwnedInit == Init => QueueOwned
<1> SUFFICES ASSUME Init PROVE QueueOwned
  OBVIOUS
<1>1. Owners(<<>>, connection_queue, queued)
  BY DEF Init, Owners
<1> QED
  BY <1>1 DEF QueueOwned

LEMMA OwnedNext ==
  ASSUME TypeOK, QueueOwned, [ServerNext]_serverVars
  PROVE  QueueOwned'
<1>1. PICK f : Owners(f, connection_queue, queued)
  BY DEF QueueOwned
<1>2. ASSUME UNCHANGED <<queued, connection_queue>> PROVE QueueOwned'
  BY <1>2 DEF QueueOwned
<1>3. ASSUME NEW c \in Conns, Enqueue(c) PROVE QueueOwned'
  BY <1>1, <1>3, OwnerEnters DEF Enqueue, TypeOK, QueueOwned
<1>4. ASSUME NEW c \in Conns, Admit(c), c \in queued PROVE QueueOwned'
  BY <1>1, <1>4, OwnerLeaves DEF Admit, First, TypeOK, QueueOwned
<1>5. ASSUME NEW c \in Conns, Admit(c), c \notin queued PROVE QueueOwned'
  <2>1. UNCHANGED <<queued, connection_queue>>
    BY <1>5 DEF Admit
  <2> QED
    BY <1>2, <2>1
<1>6. ASSUME NEW c \in Conns,
             \/ Connect(c) \/ Disconnect(c) \/ SpuriousWakeup(c) \/ SendCompletes(c)
             \/ StayQueued(c) \/ TestStatus(c) \/ SendImage(c) \/ Leave(c)
      PROVE  QueueOwned'
  <2>1. UNCHANGED <<queued, connection_queue>>
    BY <1>6 DEF Connect, Disconnect, SpuriousWakeup, SendCompletes, StayQueued, TestStatus,
       SendImage, Leave, queueVars
  <2> QED
    BY <1>2, <2>1
<1>7. ASSUME Wakes \/ StopServer \/ UNCHANGED vars PROVE QueueOwned'
  <2>1. UNCHANGED <<queued, connection_queue>>
    BY <1>7 DEF Wakes, StopServer, vars, queueVars
  <2> QED
    BY <1>2, <2>1
<1> QED
  BY <1>3, <1>4, <1>5, <1>6, <1>7, ServerSteps DEF SocketStep, OnOpen

(***************************************************************************)
(* The queue never waits for a client that is not there: as long as queued *)
(* clients stay, its first entry is the address of one that is still in    *)
(* the loop and asks again (lines 61-77), also when several clients have   *)
(* one address and enter or leave out of turn.                             *)
(***************************************************************************)
THEOREM FirstIsStillAsking ==
  ASSUME Patient
  PROVE  ServerSpec =>
           [](connection_queue # <<>>
                => \E c \in queued : First(c) /\ handler[c] \in {"ask", "sent"})
<1> DEFINE I == QueueInv /\ QueueOwned /\ ServerTypeOK
<1>1. ServerInit => I
  BY QueueInit, OwnedInit, InitTypeOK DEF ServerInit, ServerTypeOK
<1>2. I /\ [ServerNext]_serverVars => I'
  BY QueueNext, OwnedNext, ServerTypes DEF ServerTypeOK
<1>3. I => (connection_queue # <<>>
              => \E c \in queued : First(c) /\ handler[c] \in {"ask", "sent"})
  <2> SUFFICES ASSUME I, connection_queue # <<>>
               PROVE  \E c \in queued : First(c) /\ handler[c] \in {"ask", "sent"}
    OBVIOUS
  <2>1. PICK f : Owners(f, connection_queue, queued)
    BY DEF QueueOwned
  <2>2. 1 \in 1 .. Len(connection_queue) /\ Head(connection_queue) = connection_queue[1]
    BY DEF QueueInv, TypeOK
  <2>3. f[1] \in queued /\ First(f[1])
    BY <2>1, <2>2 DEF Owners, First
  <2>4. handler[f[1]] \in {"ask", "sent"}
    BY <2>3 DEF QueueInv, TypeOK, Role
  <2> QED
    BY <2>3, <2>4
<1> QED
  BY <1>1, <1>2, <1>3, PTL DEF ServerSpec

-----------------------------------------------------------------------------
(* Sends keep up *)

\* Whose status is 0 is served; one that asks or leaves has another.
Status(c) ==
  /\ status_[c] = 0 => c \in admitted
  /\ handler[c] \in {"none", "ask"} => status_[c] = 1
  /\ handler[c] \in {"waiting", "woken"} => c \in admitted
  /\ handler[c] = "leave" => status_[c] # 0

\* Where no send of a connection is pending.
Quiet(c) ==
  handler[c] \in {"none", "ask", "woken", "leave", "done"} \/ status_[c] = SendError

KeepsUp(c) ==
  /\ in_flight[c] <= 1
  /\ Quiet(c) => in_flight[c] = 0

CalmInv ==
  /\ TypeOK
  /\ ~undefined
  /\ \A c \in Conns : Status(c)
  /\ PoolRuns => \A c \in Conns : KeepsUp(c)

LEMMA CalmInit == Init => CalmInv
<1> SUFFICES ASSUME Init PROVE CalmInv
  OBVIOUS
<1>1. \A c \in Conns : Status(c) /\ KeepsUp(c)
  BY DEF Init, Status, KeepsUp
<1> QED
  BY <1>1, InitTypeOK DEF CalmInv, Init

\* A connection that is quiet and sends has one send pending.
LEMMA OneSend == More(0) = 1
  BY SocketAssumption DEF More

\* When sends keep up, the only pending one is completed for good.
LEMMA CalmCompletes ==
  ASSUME Calm, TypeOK, NEW c \in Conns, KeepsUp(c), SendCompletes(c)
  PROVE  in_flight[c] = 1 /\ in_flight'[c] = 0
<1>1. in_flight[c] = 1
  BY DEF KeepsUp, SendCompletes, TypeOK
<1>2. Fewer(1) = {0}
  BY DEF Fewer
<1> QED
  BY <1>1, <1>2 DEF SendCompletes, TypeOK

LEMMA CalmNext ==
  ASSUME Calm, CalmInv, [ServerNext]_serverVars, TypeOK'
  PROVE  CalmInv'
<1> USE DEF CalmInv
<1>1. PoolRuns' => PoolRuns
  BY ServerSteps
<1>2. ASSUME NEW c \in Conns, SocketStep(c), ~undefined',
             Status(c)', PoolRuns' => KeepsUp(c)'
      PROVE  CalmInv'
  <2> SUFFICES ASSUME NEW d \in Conns, d # c
               PROVE  Status(d)' /\ (PoolRuns' => KeepsUp(d)')
    BY <1>2
  <2>1. /\ handler'[d] = handler[d] /\ status_'[d] = status_[d]
        /\ in_flight'[d] = in_flight[d] /\ (d \in admitted') = (d \in admitted)
    BY <1>2, OneMoves DEF OthersStay
  <2>2. Status(d)'
    BY <2>1 DEF Status
  <2>3. PoolRuns' => KeepsUp(d)'
    BY <1>1, <2>1 DEF KeepsUp, Quiet
  <2> QED
    BY <2>2, <2>3
<1>3. ASSUME NEW c \in Conns, SocketStep(c), Connect(c) \/ Disconnect(c) PROVE CalmInv'
  <2>1. UNCHANGED <<status_, in_flight, admitted, undefined>>
    BY <1>3 DEF Connect, Disconnect, sendVars, queueVars
  <2>2. CASE Connect(c)
    <3>1. handler[c] = "none" /\ handler'[c] = "ask"
      BY <2>2 DEF Connect, TypeOK
    <3>2. Status(c)' /\ (PoolRuns' => KeepsUp(c)')
      BY <1>1, <2>1, <3>1 DEF Status, KeepsUp, Quiet
    <3> QED
      BY <1>2, <1>3, <2>1, <3>2
  <2>3. CASE Disconnect(c)
    <3>1. Status(c)' /\ (PoolRuns' => KeepsUp(c)')
      BY <1>1, <2>1, <2>3 DEF Disconnect, Status, KeepsUp, Quiet
    <3> QED
      BY <1>2, <1>3, <2>1, <3>1
  <2> QED
    BY <1>3, <2>2, <2>3
<1>4. ASSUME NEW c \in Conns, SocketStep(c), SpuriousWakeup(c) PROVE CalmInv'
  <2>1. /\ UNCHANGED <<status_, in_flight, admitted, undefined>>
        /\ handler[c] = "waiting" /\ handler'[c] = "woken"
    BY <1>4 DEF SpuriousWakeup, TypeOK, sendVars, queueVars
  <2>2. in_flight[c] = 0
    BY <1>4, <2>1 DEF SpuriousWakeup, MayWake, Status
  <2>3. Status(c)' /\ KeepsUp(c)'
    BY <2>1, <2>2 DEF Status, KeepsUp
  <2> QED
    BY <1>2, <1>4, <2>1, <2>3
<1>5. ASSUME NEW c \in Conns, SocketStep(c), PoolRuns, SendCompletes(c) PROVE CalmInv'
  <2>1. KeepsUp(c)
    BY <1>5
  <2>2. in_flight[c] = 1 /\ in_flight'[c] = 0 /\ UNCHANGED <<handler, admitted>>
    BY <1>5, <2>1, CalmCompletes DEF SendCompletes, queueVars
  <2>3. handler[c] \in {"sent", "waiting"}
    BY <2>1, <2>2 DEF KeepsUp, Quiet, TypeOK
  <2>4. ~undefined'
    BY <1>5, <2>3 DEF SendCompletes
  <2>5. status_'[c] = status_[c] \/ status_'[c] = -1
    BY <1>5 DEF SendCompletes, SendError, TypeOK
  <2>6. Status(c)' /\ KeepsUp(c)'
    BY <2>2, <2>3, <2>5 DEF Status, KeepsUp
  <2> QED
    BY <1>2, <1>5, <2>4, <2>6
<1>6. ASSUME NEW c \in Conns, SocketStep(c), Enqueue(c) \/ StayQueued(c) \/ Admit(c)
      PROVE  CalmInv'
  <2>1. /\ handler[c] = "ask" /\ handler'[c] = "sent" /\ ~undefined'
        /\ in_flight'[c] = More(in_flight[c])
        /\ \/ status_'[c] = 1 /\ admitted' = admitted
           \/ status_'[c] = 0 /\ c \in admitted'
    BY <1>6 DEF Enqueue, StayQueued, Admit, Sends, Status, TypeOK, queueVars
  <2>2. PoolRuns' => in_flight'[c] = 1
    BY <1>1, <2>1, OneSend DEF KeepsUp, Quiet
  <2>3. Status(c)' /\ (PoolRuns' => KeepsUp(c)')
    BY <2>1, <2>2 DEF Status, KeepsUp, Quiet, SendError
  <2> QED
    BY <1>2, <1>6, <2>1, <2>3
<1>7. ASSUME NEW c \in Conns, SocketStep(c), TestStatus(c) PROVE CalmInv'
  <2>1. /\ UNCHANGED <<status_, in_flight, admitted, undefined>>
        /\ handler'[c] = CASE status_[c] = 1  -> "ask"
                          [] status_[c] = 0  -> "waiting"
                          [] status_[c] = -1 -> "leave"
        /\ status_[c] = 1 => in_flight[c] = 0
    BY <1>7 DEF TestStatus, TypeOK, sendVars, queueVars
  <2>2. \/ status_[c] = 1 /\ handler'[c] = "ask"
        \/ status_[c] = 0 /\ handler'[c] = "waiting"
        \/ status_[c] = -1 /\ handler'[c] = "leave"
    BY <2>1 DEF TypeOK
  <2>3. Status(c)' /\ (PoolRuns' => KeepsUp(c)')
    BY <1>1, <2>1, <2>2 DEF Status, KeepsUp, Quiet, SendError
  <2> QED
    BY <1>2, <1>7, <2>1, <2>3
<1>8. ASSUME NEW c \in Conns, SocketStep(c), SendImage(c) PROVE CalmInv'
  <2>1. handler[c] = "woken" /\ UNCHANGED <<status_, admitted, undefined>>
    BY <1>8 DEF SendImage, queueVars
  <2>2. \/ status_[c] = 0 /\ handler'[c] = "sent" /\ in_flight'[c] = More(in_flight[c])
        \/ status_[c] # 0 /\ handler'[c] = "leave" /\ in_flight'[c] = in_flight[c]
    BY <1>8 DEF SendImage, Sends, TypeOK
  <2>3. PoolRuns' => in_flight[c] = 0
    BY <1>1, <2>1 DEF KeepsUp, Quiet
  <2>4. Status(c)' /\ (PoolRuns' => KeepsUp(c)')
    BY <2>1, <2>2, <2>3, OneSend DEF Status, KeepsUp, Quiet, SendError
  <2> QED
    BY <1>2, <1>8, <2>1, <2>4
<1>9. ASSUME NEW c \in Conns, SocketStep(c), Leave(c) PROVE CalmInv'
  <2>1. /\ handler[c] = "leave" /\ handler'[c] = "done" /\ ~undefined'
        /\ UNCHANGED <<status_, in_flight>>
    BY <1>9 DEF Leave, TypeOK, sendVars
  <2>2. Status(c)' /\ (PoolRuns' => KeepsUp(c)')
    BY <1>1, <2>1 DEF Status, KeepsUp, Quiet
  <2> QED
    BY <1>2, <1>9, <2>1, <2>2
<1>10. ASSUME Wakes, MayWake \/ ~PoolRuns' PROVE CalmInv'
  <2> SUFFICES ASSUME NEW c \in Conns PROVE Status(c)' /\ (PoolRuns' => KeepsUp(c)')
    BY <1>10 DEF Wakes
  <2>1. /\ UNCHANGED <<status_, in_flight, admitted>>
        /\ handler'[c] = IF handler[c] = "waiting" THEN "woken" ELSE handler[c]
    BY <1>10 DEF Wakes, sendVars, queueVars
  <2>2. PoolRuns' /\ handler[c] = "waiting" => in_flight[c] = 0
    BY <1>10 DEF MayWake, Status
  <2>3. Status(c)' /\ (PoolRuns' => KeepsUp(c)')
    BY <1>1, <2>1, <2>2 DEF Status, KeepsUp, Quiet
  <2> QED
    BY <2>3
<1>11. ASSUME StopServer \/ UNCHANGED vars PROVE CalmInv'
  <2> SUFFICES ASSUME NEW c \in Conns PROVE Status(c)' /\ (PoolRuns' => KeepsUp(c)')
    BY <1>11 DEF StopServer, vars
  <2>1. UNCHANGED <<handler, status_, in_flight, admitted>>
    BY <1>11 DEF StopServer, vars, sendVars, queueVars
  <2> QED
    BY <1>1, <2>1 DEF Status, KeepsUp, Quiet
<1>12. ASSUME NEW c \in Conns, SocketStep(c) PROVE CalmInv'
  BY <1>3, <1>4, <1>5, <1>6, <1>7, <1>8, <1>9, <1>12 DEF SocketStep, OnOpen
<1> QED
  BY <1>10, <1>11, <1>12, ServerSteps

(***************************************************************************)
(* As long as a send completes before the next one is handed over, none    *)
(* writes to the stack frame of an on_open that has returned (lines 84-89  *)
(* and 108-117), nor while the destructor stops the server: on_open leaves *)
(* only when it has seen a send fail, and then no other is pending.        *)
(***************************************************************************)
THEOREM SendsFindTheirFrame ==
  ASSUME Calm
  PROVE  ServerSpec => []WellDefined
<1>1. ServerInit => CalmInv /\ ServerTypeOK
  BY CalmInit, InitTypeOK DEF ServerInit, ServerTypeOK
<1>2. CalmInv /\ ServerTypeOK /\ [ServerNext]_serverVars => (CalmInv /\ ServerTypeOK)'
  BY CalmNext, ServerTypes DEF ServerTypeOK
<1>3. CalmInv => WellDefined
  BY DEF CalmInv, WellDefined
<1> QED
  BY <1>1, <1>2, <1>3, PTL DEF ServerSpec

-----------------------------------------------------------------------------
(* What the destructor waits for *)

\* It passes each join only when that thread has ended.
Stopped ==
  /\ ServerTypeOK
  /\ main \in {"clear", "notify", "clients", "joinImage", "returned"} => Busy = {}
  /\ main = "returned" => image = "ended"

LEMMA IdleHandlers ==
  ASSUME TypeOK, Busy = {}
  PROVE  \A c \in Conns : handler[c] \in {"none", "done"}
  BY DEF Busy

LEMMA StoppedNext ==
  ASSUME Stopped, [ServerNext]_serverVars
  PROVE  Stopped'
<1> USE DEF Stopped
<1>1. ServerTypeOK'
  BY ServerTypes
<1>2. CASE Busy = {} /\ ~PoolRuns
  <2>1. \A c \in Conns : handler[c] \in {"none", "done"}
    BY <1>2, IdleHandlers DEF ServerTypeOK
  <2>2. \A c \in Conns : handler'[c] = handler[c]
    <3> SUFFICES ASSUME NEW c \in Conns PROVE handler'[c] = handler[c]
      OBVIOUS
    <3>1. ASSUME NEW d \in Conns, SocketStep(d) PROVE handler' = handler
      BY <1>2, <2>1, <3>1 DEF SocketStep, Connect, PoolRuns, Disconnect, OnOpen, Enqueue,
         StayQueued, Admit, TestStatus, SendImage, Leave, SpuriousWakeup
    <3>2. Wakes => handler'[c] = handler[c]
      BY <2>1 DEF Wakes
    <3> QED
      BY <3>1, <3>2, ServerSteps DEF StopServer, vars
  <2>3. Busy' = {}
    BY <1>2, <2>2 DEF Busy
  <2>4. main' = "returned" => image' = "ended"
    BY DEF ServerTypeOK, ServerNext, ClientStep, PoolStep, OnOpenStep, ImageStep, ImageTest,
       ImagePark, ImageRow, ImageSpurious, ImagePublish, NotifyRow, EndOfInput, Destructor,
       StopServer, JoinServer, ClearRun, NotifyImage, NotifyClients, JoinImage, MainGoes,
       serverVars, lifeVars
  <2> QED
    BY <1>1, <2>3, <2>4
<1>3. CASE Busy # {} \/ PoolRuns
  <2>1. main \in {"rows", "stop", "join"}
    BY <1>3 DEF ServerTypeOK, PoolRuns
  <2>2. \/ main' \in {"rows", "stop", "join"}
        \/ main' = "clear" /\ Busy = {} /\ UNCHANGED vars
    BY <2>1 DEF ServerNext, ClientStep, PoolStep, OnOpenStep, ImageStep, ImageTest,
       ImagePark, ImageRow, ImageSpurious, ImagePublish, NotifyRow, EndOfInput, Destructor,
       StopServer, JoinServer, ClearRun, NotifyImage, NotifyClients, JoinImage, MainGoes,
       serverVars, lifeVars
  <2> QED
    BY <1>1, <2>2 DEF Busy, vars
<1> QED
  BY <1>2, <1>3

(***************************************************************************)
(* When the destructor has returned (lines 250-262), no on_open and not    *)
(* the image thread run on with the members it destroys: nothing happens   *)
(* any more but what clients do.                                           *)
(***************************************************************************)
THEOREM NothingRunsOn ==
  ServerSpec => [][main = "returned" => \E c \in Conns : Disconnect(c)]_serverVars
<1>1. ServerInit => Stopped
  BY InitTypeOK DEF ServerInit, ServerTypeOK, Stopped
<1>2. Stopped /\ [ServerNext]_serverVars
        => [main = "returned" => \E c \in Conns : Disconnect(c)]_serverVars
  <2> SUFFICES ASSUME Stopped, ServerNext, main = "returned"
               PROVE  \E c \in Conns : Disconnect(c)
    OBVIOUS
  <2>1. /\ \A c \in Conns : handler[c] \in {"none", "done"}
        /\ image = "ended" /\ ~PoolRuns
    BY IdleHandlers DEF Stopped, ServerTypeOK, PoolRuns
  <2>2. ASSUME NEW c \in Conns, ClientStep(c) PROVE Disconnect(c)
    BY <2>1, <2>2 DEF ClientStep, PoolStep, OnOpenStep, OnOpen, Enqueue, StayQueued, Admit,
       TestStatus, SendImage, Leave, SpuriousWakeup
  <2> QED
    BY <2>1, <2>2 DEF ServerNext, ImageStep, ImageTest, ImagePark, ImageRow, ImageSpurious,
       ImagePublish, NotifyRow, EndOfInput, Destructor, StopServer, JoinServer, ClearRun,
       NotifyImage, NotifyClients, JoinImage, MainGoes
<1> QED
  BY <1>1, <1>2, StoppedNext, PTL DEF ServerSpec

-----------------------------------------------------------------------------
(* What holds threads of the pool *)

\* Is c's on_open in a loop that only the completion of a send can end?
Held(c) ==
  \/ handler[c] \in {"ask", "sent"} /\ status_[c] # SendError
  \/ handler[c] \in {"waiting", "woken"} /\ status_[c] = 0

HeldBy   == {c \in Conns : Held(c)}
PoolHeld == Cardinality(HeldBy) >= PoolSize

LEMMA HeldBusy ==
  /\ HeldBy \subseteq Busy
  /\ IsFiniteSet(HeldBy) /\ Cardinality(HeldBy) \in Nat
  /\ IsFiniteSet(Busy) /\ Cardinality(Busy) \in Nat
<1>1. HeldBy \in SUBSET Conns /\ Busy \in SUBSET Conns
  BY DEF HeldBy, Busy
<1>2. HeldBy \subseteq Busy
  BY DEF HeldBy, Held, Busy
<1> QED
  BY <1>1, <1>2, ConnsFinite

\* on_open has no way out of its loops but a status a send has set.
LEMMA HeldStays ==
  ASSUME TypeOK, [ServerNext]_serverVars, ~(PoolRuns /\ PoolIdle),
         NEW c \in Conns, Held(c)
  PROVE  Held(c)'
<1>1. ASSUME NEW d \in Conns, SocketStep(d), d # c PROVE Held(c)'
  <2>1. handler'[c] = handler[c] /\ status_'[c] = status_[c]
    BY <1>1, OneMoves DEF OthersStay
  <2> QED
    BY <2>1 DEF Held
<1>2. CASE Connect(c) \/ Disconnect(c) \/ SpuriousWakeup(c)
  BY <1>2 DEF Connect, Disconnect, SpuriousWakeup, Held, TypeOK, sendVars
<1>3. CASE Enqueue(c) \/ StayQueued(c) \/ Admit(c)
  <2>1. handler[c] = "ask" /\ handler'[c] = "sent"
    BY <1>3 DEF Enqueue, StayQueued, Admit, Sends, TypeOK
  <2>2. status_'[c] = status_[c] \/ status_'[c] = 0
    BY <1>3 DEF Enqueue, StayQueued, Admit, TypeOK
  <2> QED
    BY <2>1, <2>2 DEF Held, SendError
<1>4. CASE TestStatus(c)
  <2>1. status_[c] = 0 \/ status_[c] = 1
    BY <1>4 DEF TestStatus, Held, SendError, TypeOK
  <2>2. /\ handler'[c] = CASE status_[c] = 1  -> "ask"
                          [] status_[c] = 0  -> "waiting"
                          [] status_[c] = -1 -> "leave"
        /\ status_' = status_
    BY <1>4 DEF TestStatus, TypeOK, sendVars
  <2>3. CASE status_[c] = 0
    BY <2>2, <2>3 DEF Held
  <2>4. CASE status_[c] = 1
    BY <2>2, <2>4 DEF Held, SendError
  <2> QED
    BY <2>1, <2>3, <2>4
<1>5. CASE SendImage(c)
  <2>1. handler[c] = "woken" /\ status_[c] = 0
    BY <1>5 DEF SendImage, Held
  <2>2. handler'[c] = "sent" /\ status_' = status_
    BY <1>5, <2>1 DEF SendImage, Sends, TypeOK
  <2> QED
    BY <2>1, <2>2 DEF Held, SendError
<1>6. ~Leave(c)
  BY DEF Leave, Held
<1>7. ASSUME PoolRuns, SendCompletes(c) PROVE FALSE
  BY <1>7 DEF SendCompletes
<1>8. CASE Wakes
  BY <1>8 DEF Wakes, Held, sendVars
<1>9. CASE StopServer \/ UNCHANGED vars
  BY <1>9 DEF StopServer, vars, Held, sendVars
<1> QED
  BY <1>1, <1>2, <1>3, <1>4, <1>5, <1>6, <1>7, <1>8, <1>9, ServerSteps
     DEF SocketStep, OnOpen

(***************************************************************************)
(* A client that is being served, or waits in the queue, when the server   *)
(* has been stopped keeps the destructor in its first join (line 256) for  *)
(* ever: its sends do not complete any more, and the notification that     *)
(* would wake it comes after the join (line 259).                          *)
(***************************************************************************)
THEOREM ClientsHoldTheDestructor ==
  ASSUME NEW c \in Conns
  PROVE  ServerSpec => [](main = "join" /\ Held(c) => [](main = "join" /\ Held(c)))
<1>1. ServerInit => ServerTypeOK
  BY InitTypeOK DEF ServerInit, ServerTypeOK
<1>2. ServerTypeOK /\ (main = "join" /\ Held(c)) /\ [ServerNext]_serverVars
        => (main = "join" /\ Held(c))'
  <2> SUFFICES ASSUME ServerTypeOK, main = "join", Held(c), [ServerNext]_serverVars
               PROVE  main' = "join" /\ Held(c)'
    OBVIOUS
  <2>1. c \in Busy
    BY HeldBusy DEF HeldBy
  <2>2. main' = "join"
    BY <2>1 DEF ServerNext, ClientStep, PoolStep, OnOpenStep, ImageStep, ImageTest,
       ImagePark, ImageRow, ImageSpurious, ImagePublish, NotifyRow, EndOfInput, Destructor,
       StopServer, JoinServer, ClearRun, NotifyImage, NotifyClients, JoinImage, MainGoes,
       serverVars, lifeVars
  <2> QED
    BY <2>2, HeldStays DEF ServerTypeOK, PoolRuns
<1> QED
  BY <1>1, <1>2, ServerTypes, PTL DEF ServerSpec

(***************************************************************************)
(* When as many on_open as the pool has threads are in their loops and no  *)
(* send of theirs has failed yet, this is for ever: no send completes and  *)
(* no client is taken in any more, for any size of the pool and any limit  *)
(* (thread_pool_size, line 26, against the loops of lines 55-117).         *)
(***************************************************************************)
THEOREM FullPoolIsStuck ==
  ServerSpec => [](PoolHeld
                     => [][\A c \in Conns : ~(PoolStep(c) \/ Connect(c))]_serverVars)
<1>1. ServerInit => ServerTypeOK
  BY InitTypeOK DEF ServerInit, ServerTypeOK
<1>2. PoolHeld => ~PoolIdle
  <2>1. Cardinality(HeldBy) <= Cardinality(Busy)
    BY HeldBusy, FS_Subset
  <2> QED
    BY <2>1, HeldBusy, SocketAssumption DEF PoolHeld, PoolIdle
<1>3. ServerTypeOK /\ PoolHeld /\ [ServerNext]_serverVars => PoolHeld'
  <2> SUFFICES ASSUME ServerTypeOK, PoolHeld, [ServerNext]_serverVars PROVE PoolHeld'
    OBVIOUS
  <2>1. HeldBy \subseteq HeldBy'
    BY <1>2, HeldStays DEF HeldBy, ServerTypeOK
  <2>2. HeldBy' \in SUBSET Conns
    BY DEF HeldBy
  <2>3. /\ IsFiniteSet(HeldBy') /\ Cardinality(HeldBy') \in Nat
        /\ Cardinality(HeldBy) <= Cardinality(HeldBy')
    BY <2>1, <2>2, ConnsFinite, FS_Subset
  <2> QED
    BY <2>3, HeldBusy, SocketAssumption DEF PoolHeld
<1>4. PoolHeld => \A c \in Conns : ~(PoolStep(c) \/ Connect(c))
  BY <1>2 DEF PoolStep, SendCompletes, Connect
<1> QED
  BY <1>1, <1>3, <1>4, ServerTypes, PTL DEF ServerSpec
=============================================================================
