------------------------------ MODULE IQSocket ------------------------------
(***************************************************************************)
(* How IQWebSocketServer (myServer) serves its web clients.  on_open       *)
(* does not return while its client is connected: it admits or queues the  *)
(* client, then waits for images and sends them, all on one thread of the  *)
(* server's pool.  The completions of sends need a thread of that pool.    *)
(*                                                                         *)
(* A send that fails after on_open has returned writes to its dead stack   *)
(* frame; `undefined' records that, and nothing is said of what follows.   *)
(***************************************************************************)
EXTENDS Integers, FiniteSets, Sequences

CONSTANTS
  NumConns,    \* connections, numbered as they are accepted
  Address,     \* their remote addresses (behind nginx all the same)
  PoolSize,    \* config.thread_pool_size (3)
  Limit,       \* clients are queued when the counter is above this (21)
  Load,        \* at most so many clients are connected at a time
  MaxInFlight, \* sends of one connection are counted up to here
  Calm,        \* do sends complete within a second, and before the next image?
  Patient      \* do queued clients stay?

Word == 65536  \* socket_counter is a uint16_t

Conns == 1 .. NumConns

ASSUME SocketAssumption ==
  /\ NumConns \in Nat
  /\ PoolSize \in Nat \ {0}
  /\ Limit \in 0 .. Word - 2
  /\ Load \in 0 .. PoolSize
  /\ MaxInFlight \in Nat \ {0}
  /\ Calm \in BOOLEAN /\ Patient \in BOOLEAN

VARIABLES
  peer,             \* per connection: the client's end
  handler,          \* per connection: where its on_open is
  status_,          \* per connection: on_open's local variable
  in_flight,        \* per connection: pending sends (MaxInFlight: or more)
  queued,           \* the connections whose local variable queued is true
  admitted,         \* history: those between fetch_add and fetch_sub
  socket_counter,
  connection_queue,
  undefined

sendVars  == <<status_, in_flight>>
queueVars == <<queued, admitted, socket_counter, connection_queue>>
vars      == <<peer, handler, sendVars, queueVars, undefined>>

Addresses == {Address[c] : c \in Conns}

TypeOK ==
  /\ peer \in [Conns -> {"away", "open", "closed"}]
  /\ handler \in [Conns -> {"none", "ask", "sent", "waiting", "woken", "leave", "done"}]
  /\ status_ \in [Conns -> {-1, 0, 1}]
  /\ in_flight \in [Conns -> 0 .. MaxInFlight]
  /\ queued \in SUBSET Conns /\ admitted \in SUBSET Conns
  /\ socket_counter \in 0 .. Word - 1
  /\ connection_queue \in Seq(Addresses)
  /\ undefined \in BOOLEAN
  /\ \A c \in admitted : status_[c] # 1

Init ==
  /\ peer = [c \in Conns |-> "away"]
  /\ handler = [c \in Conns |-> "none"]
  /\ status_ = [c \in Conns |-> 1]
  /\ in_flight = [c \in Conns |-> 0]
  /\ queued = {} /\ admitted = {}
  /\ socket_counter = 0
  /\ connection_queue = <<>>
  /\ undefined = FALSE

Busy     == {c \in Conns : handler[c] \notin {"none", "done"}}
PoolIdle == Cardinality(Busy) < PoolSize

-----------------------------------------------------------------------------
(* The clients *)

\* A pool thread calls on_open for the next connection.
Connect(c) ==
  /\ PoolIdle /\ Cardinality(Busy) < Load
  /\ peer[c] = "away" /\ handler[c] = "none"
  /\ \A d \in Conns : d < c => peer[d] # "away"
  /\ peer' = [peer EXCEPT ![c] = "open"]
  /\ handler' = [handler EXCEPT ![c] = "ask"]
  /\ UNCHANGED <<sendVars, queueVars, undefined>>

\* The server does not read from a client whose on_open has not returned.
Disconnect(c) ==
  /\ peer[c] = "open"
  /\ Patient => c \in admitted
  /\ peer' = [peer EXCEPT ![c] = "closed"]
  /\ UNCHANGED <<handler, sendVars, queueVars, undefined>>

-----------------------------------------------------------------------------
(* Admission, under queue_mutex; each pass ends with a send *)

More(n)  == IF n = MaxInFlight THEN n ELSE n + 1
Fewer(n) == {n - 1} \cup (IF n = MaxInFlight /\ ~Calm THEN {n} ELSE {})

Sends(c) ==
  /\ handler' = [handler EXCEPT ![c] = "sent"]
  /\ in_flight' = [in_flight EXCEPT ![c] = More(@)]

Full == socket_counter > Limit

\* Is c's address the first of the queue?
First(c) == connection_queue # <<>> /\ Head(connection_queue) = Address[c]

Enqueue(c) ==
  /\ handler[c] = "ask" /\ Full /\ c \notin queued
  /\ connection_queue' = Append(connection_queue, Address[c])
  /\ queued' = queued \cup {c}
  /\ Sends(c)
  /\ UNCHANGED <<peer, status_, admitted, socket_counter, undefined>>

StayQueued(c) ==
  /\ handler[c] = "ask" /\ c \in queued /\ (Full \/ ~First(c))
  /\ Sends(c)
  /\ UNCHANGED <<peer, status_, queueVars, undefined>>

\* Slipped form: leaves its place in the queue behind.
AdmitOnly(c) ==
  /\ handler[c] = "ask" /\ ~Full /\ (c \in queued => First(c))
  /\ queued' = queued \ {c}
  /\ status_' = [status_ EXCEPT ![c] = 0]
  /\ socket_counter' = (socket_counter + 1) % Word
  /\ admitted' = admitted \cup {c}
  /\ Sends(c)
  /\ UNCHANGED <<peer, connection_queue, undefined>>

Admit(c) ==
  /\ handler[c] = "ask" /\ ~Full /\ (c \in queued => First(c))
  /\ connection_queue' =
       IF c \in queued THEN Tail(connection_queue) ELSE connection_queue
  /\ queued' = queued \ {c}
  /\ status_' = [status_ EXCEPT ![c] = 0]
  /\ socket_counter' = (socket_counter + 1) % Word
  /\ admitted' = admitted \cup {c}
  /\ Sends(c)
  /\ UNCHANGED <<peer, undefined>>

-----------------------------------------------------------------------------
(* The feed *)

\* The conditions of both loops; a client still queued sleeps for a second.
TestStatus(c) ==
  /\ handler[c] = "sent"
  /\ Calm /\ status_[c] = 1 => in_flight[c] = 0
  /\ handler' = [handler EXCEPT ![c] =
                   CASE status_[c] = 1  -> "ask"
                     [] status_[c] = 0  -> "waiting"
                     [] status_[c] = -1 -> "leave"]
  /\ UNCHANGED <<peer, sendVars, queueVars, undefined>>

\* Slipped form: the status is not looked at after the wait.
SendAnyway(c) ==
  /\ handler[c] = "woken"
  /\ handler' = [handler EXCEPT ![c] = "waiting"]
  /\ in_flight' = [in_flight EXCEPT ![c] = More(@)]
  /\ UNCHANGED <<peer, status_, queueVars, undefined>>

\* Slipped form: leaves after one image.
SendAndLeave(c) ==
  /\ handler[c] = "woken"
  /\ handler' = [handler EXCEPT ![c] = "leave"]
  /\ in_flight' = [in_flight EXCEPT ![c] = IF status_[c] = 0 THEN More(@) ELSE @]
  /\ UNCHANGED <<peer, status_, queueVars, undefined>>

SendImage(c) ==
  /\ handler[c] = "woken"
  /\ IF status_[c] = 0
     THEN Sends(c)
     ELSE handler' = [handler EXCEPT ![c] = "leave"] /\ UNCHANGED in_flight
  /\ UNCHANGED <<peer, status_, queueVars, undefined>>

\* Slipped form: the counter is left as it is.
LeaveUncounted(c) ==
  /\ handler[c] = "leave"
  /\ handler' = [handler EXCEPT ![c] = "done"]
  /\ admitted' = admitted \ {c}
  /\ UNCHANGED <<peer, sendVars, queued, socket_counter, connection_queue, undefined>>

\* fetch_sub, whether the client was ever admitted or not; on_open returns.
Leave(c) ==
  /\ handler[c] = "leave"
  /\ handler' = [handler EXCEPT ![c] = "done"]
  /\ socket_counter' = (socket_counter - 1) % Word
  /\ admitted' = admitted \ {c}
  /\ UNCHANGED <<peer, sendVars, queued, connection_queue, undefined>>

\* Slipped form: the status of a client not admitted yet.
SendErrorAsking == 1

SendError == -1

\* A pool thread completes a send, which fails if the client is gone.
SendCompletes(c) ==
  /\ PoolIdle
  /\ in_flight[c] > 0
  /\ \E n \in Fewer(in_flight[c]) : in_flight' = [in_flight EXCEPT ![c] = n]
  /\ status_' = [status_ EXCEPT ![c] = IF peer[c] = "open" THEN @ ELSE SendError]
  /\ undefined' = (peer[c] # "open" /\ handler[c] = "done")
  /\ UNCHANGED <<peer, handler, queueVars>>

MayWake == Calm => \A c \in admitted : in_flight[c] = 0

SpuriousWakeup(c) ==
  /\ handler[c] = "waiting" /\ MayWake
  /\ handler' = [handler EXCEPT ![c] = "woken"]
  /\ UNCHANGED <<peer, sendVars, queueVars, undefined>>

\* closeFile has set sample_json and calls socket_cv.notify_all().
Publish ==
  /\ MayWake
  /\ handler' = [c \in Conns |-> IF handler[c] = "waiting" THEN "woken" ELSE handler[c]]
  /\ UNCHANGED <<peer, sendVars, queueVars, undefined>>

-----------------------------------------------------------------------------
OnOpen(c) ==
  \/ Enqueue(c) \/ StayQueued(c) \/ Admit(c)
  \/ TestStatus(c) \/ SendImage(c) \/ Leave(c)

Next ==
  /\ ~undefined
  /\ \/ \E c \in Conns :
          \/ Connect(c) \/ Disconnect(c)
          \/ OnOpen(c) \/ SpuriousWakeup(c) \/ SendCompletes(c)
     \/ Publish

\* As in CloudNotify: threads run, completions are taken, images keep coming.
Fairness ==
  /\ SF_vars(~undefined /\ Publish)
  /\ \A c \in Conns : /\ WF_vars(~undefined /\ OnOpen(c))
                      /\ WF_vars(~undefined /\ SendCompletes(c))

Spec == Init /\ [][Next]_vars /\ Fairness

-----------------------------------------------------------------------------
(***************************************************************************)
(* socket_counter is the number of clients being served, and the queue     *)
(* holds one entry for every client waiting in it (lines 56-119), although *)
(* the way out of on_open does not know which of the two its client was.   *)
(***************************************************************************)
CounterExact ==
  /\ socket_counter = Cardinality(admitted)
  /\ Len(connection_queue) = Cardinality(queued)

(***************************************************************************)
(* When there is room the queue moves: its first entry is that of a client *)
(* still asking (lines 71-77).                                             *)
(***************************************************************************)
QueueMoves ==
  connection_queue # <<>> /\ ~Full ~> connection_queue = <<>> \/ Full

(***************************************************************************)
(* While sends keep up, no send completes into the stack frame of an       *)
(* on_open that has returned.                                              *)
(***************************************************************************)
WellDefined == ~undefined

(***************************************************************************)
(* A client that goes away gives its pool thread back, although nothing is *)
(* read from it: two images later on_open has returned.                    *)
(***************************************************************************)
LeaversLeave == \A c \in Conns : peer[c] = "closed" ~> handler[c] = "done"

(***************************************************************************)
(* A client that is admitted and stays connected is sent images for ever,  *)
(* and its sends complete for ever: "process them, and send them off to    *)
(* the website" (README.md:5).  SendImage is line 109 only; what a queued  *)
(* client is sent (line 87) does not count.                                *)
(***************************************************************************)
FeedReachesClients ==
  \A c \in Conns :
    <>(c \in admitted) /\ <>[](peer[c] = "open" /\ ~undefined)
      => []<><<SendImage(c)>>_vars /\ []<><<SendCompletes(c)>>_vars
=============================================================================
