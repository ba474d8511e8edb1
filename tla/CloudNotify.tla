---------------------------- MODULE CloudNotify ----------------------------
(***************************************************************************)
(* How cloudServer tells its web clients of a new image.  Every client has *)
(* a notification thread, created by on_open and listed in notifyThreads,  *)
(* that waits on socket_cv and sends sample_json.  on_close joins it and   *)
(* erases its entry.  The handlers, and the completion of every send, run  *)
(* on the server's pool of PoolSize threads; nothing locks notifyThreads.  *)
(*                                                                         *)
(* A step with undefined behaviour (two handlers inside the vector at      *)
(* once, an iterator that no longer points to its entry, a send completion *)
(* writing to the stack of a thread that has ended) sets `undefined', and  *)
(* nothing is said of the program after it.                                *)
(***************************************************************************)
EXTENDS Integers, FiniteSets, SequencesExt

CONSTANTS
  NumConns,    \* connections, numbered as they are accepted
  PoolSize,    \* config.thread_pool_size (3)
  MaxInFlight, \* sends of one connection are counted up to here
  Loads        \* the values calm may have

ASSUME CloudAssumption ==
  /\ NumConns \in Nat
  /\ PoolSize \in Nat \ {0}
  /\ MaxInFlight \in Nat \ {0}
  /\ Loads \subseteq BOOLEAN

Conns == 1 .. NumConns

VARIABLES
  calm,          \* do handlers not overlap, and sends keep up with the images?
  phase,         \* per connection: how far the peer and the library have got
  handler,       \* per connection: where its on_open or on_close is
  thread,        \* per connection: where its notification thread is
  status_,       \* per connection: that thread's local variable
  in_flight,     \* per connection: pending sends (MaxInFlight: or more)
  notifyThreads, \* the connections of the vector's entries
  capacity,      \* of the vector
  valid,         \* connections whose on_close holds a valid iterator
  undefined      \* has a step had undefined behaviour?

peerVars == <<phase, handler>>
sendVars == <<status_, in_flight>>
listVars == <<notifyThreads, capacity, valid>>
vars     == <<calm, peerVars, thread, sendVars, listVars, undefined>>

TypeOK ==
  /\ calm \in Loads
  /\ phase \in [Conns -> {"away", "open", "closing", "broken", "gone"}]
  /\ handler \in [Conns -> {"none", "push", "find", "join", "erase"}]
  /\ thread \in [Conns -> {"none", "check", "waiting", "woken", "done", "joined"}]
  /\ status_ \in [Conns -> {0, -1}]
  /\ in_flight \in [Conns -> 0 .. MaxInFlight]
  /\ notifyThreads \in Seq(Conns)
  /\ capacity \in Nat
  /\ valid \in SUBSET Conns
  /\ undefined \in BOOLEAN

Init ==
  /\ calm \in Loads
  /\ phase = [c \in Conns |-> "away"]
  /\ handler = [c \in Conns |-> "none"]
  /\ thread = [c \in Conns |-> "none"]
  /\ status_ = [c \in Conns |-> 0]
  /\ in_flight = [c \in Conns |-> 0]
  /\ notifyThreads = <<>>
  /\ capacity = 0
  /\ valid = {}
  /\ undefined = FALSE

Running   == {c \in Conns : handler[c] # "none"}
PoolIdle  == Cardinality(Running) < PoolSize
InVector  == {c \in Conns : handler[c] \in {"push", "find", "erase"}}
MayBegin  == PoolIdle /\ (calm => Running = {})

-----------------------------------------------------------------------------
(* The peers *)

\* The peer sends a close frame; on_close will be called.
PeerCloses(c) ==
  /\ phase[c] = "open"
  /\ phase' = [phase EXCEPT ![c] = "closing"]
  /\ UNCHANGED <<handler, thread, sendVars, listVars, undefined>>

\* Reading from the peer fails; on_error only prints.
PeerVanishes(c) ==
  /\ phase[c] = "open"
  /\ phase' = [phase EXCEPT ![c] = "broken"]
  /\ UNCHANGED <<handler, thread, sendVars, listVars, undefined>>
-----------------------------------------------------------------------------
(* The handlers, each on a thread of the pool *)

\* A peer connects, and a pool thread is there to call on_open.
BeginOpen(c) ==
  /\ MayBegin
  /\ phase[c] = "away" /\ handler[c] = "none"
  /\ \A d \in Conns : d < c => phase[d] # "away" \/ handler[d] = "push"
  /\ handler' = [handler EXCEPT ![c] = "push"]
  /\ UNCHANGED <<phase, thread, sendVars, listVars, undefined>>

\* push_back; growing the vector leaves every iterator dangling.
EndOpen(c) ==
  /\ handler[c] = "push"
  /\ InVector = {c}
  /\ notifyThreads' = Append(notifyThreads, c)
  /\ IF Len(notifyThreads) = capacity
     THEN capacity' = (IF capacity = 0 THEN 1 ELSE 2 * capacity) /\ valid' = {}
     ELSE UNCHANGED <<capacity, valid>>
  /\ phase' = [phase EXCEPT ![c] = "open"]
  /\ handler' = [handler EXCEPT ![c] = "none"]
  /\ thread' = [thread EXCEPT ![c] = "check"]
  /\ UNCHANGED <<sendVars, undefined>>

BeginClose(c) ==
  /\ MayBegin
  /\ phase[c] = "closing" /\ handler[c] = "none"
  /\ handler' = [handler EXCEPT ![c] = "find"]
  /\ UNCHANGED <<phase, thread, sendVars, listVars, undefined>>

\* The loop over notifyThreads stops at the connection's entry.
FindEntry(c) ==
  /\ handler[c] = "find"
  /\ InVector = {c}
  /\ handler' = [handler EXCEPT ![c] = "join"]
  /\ valid' = valid \cup {c}
  /\ UNCHANGED <<phase, thread, sendVars, notifyThreads, capacity, undefined>>

\* Slipped form: detached instead of joined.
ForgetThread(c) ==
  /\ handler[c] = "join"
  /\ c \in valid
  /\ handler' = [handler EXCEPT ![c] = "erase"]
  /\ UNCHANGED <<phase, thread, sendVars, listVars, undefined>>

\* join returns once the notification thread has ended.
JoinThread(c) ==
  /\ handler[c] = "join" /\ thread[c] = "done"
  /\ c \in valid
  /\ handler' = [handler EXCEPT ![c] = "erase"]
  /\ thread' = [thread EXCEPT ![c] = "joined"]
  /\ UNCHANGED <<phase, sendVars, listVars, undefined>>

\* erase(it) moves every later entry down one place.
EraseEntry(c) ==
  /\ handler[c] = "erase"
  /\ InVector = {c} /\ c \in valid
  /\ LET at(d) == CHOOSE k \in DOMAIN notifyThreads : notifyThreads[k] = d
     IN  /\ valid' = {d \in valid : at(d) < at(c)}
         /\ notifyThreads' = RemoveAt(notifyThreads, at(c))
  /\ phase' = [phase EXCEPT ![c] = "gone"]
  /\ handler' = [handler EXCEPT ![c] = "none"]
  /\ UNCHANGED <<thread, sendVars, capacity, undefined>>

\* Two handlers inside the vector, or a stale iterator used.
VectorMisused(c) ==
  /\ \/ handler[c] \in {"push", "find"} /\ InVector # {c}
     \/ handler[c] = "erase" /\ (InVector # {c} \/ c \notin valid)
     \/ handler[c] = "join" /\ thread[c] = "done" /\ c \notin valid
  /\ undefined' = TRUE
  /\ UNCHANGED <<peerVars, thread, sendVars, listVars>>

\* What is left of n pending sends: a full count may have hidden some.
Fewer(n) == {n - 1} \cup (IF n = MaxInFlight /\ ~calm THEN {n} ELSE {})
More(n)  == IF n = MaxInFlight THEN n ELSE n + 1

\* Slipped form: the wrong sign.
SendErrorPositive == 1

SendError == -1

\* A pool thread completes a send; an error reaches the thread through status_.
SendCompletes(c) ==
  /\ PoolIdle
  /\ in_flight[c] > 0
  /\ \E n \in Fewer(in_flight[c]) : in_flight' = [in_flight EXCEPT ![c] = n]
  /\ status_' = [status_ EXCEPT ![c] = IF phase[c] = "open" THEN @ ELSE SendError]
  /\ undefined' = (phase[c] # "open" /\ thread[c] \in {"done", "joined"})
  /\ UNCHANGED <<peerVars, thread, listVars>>

-----------------------------------------------------------------------------
(* The notification threads and the publisher *)

\* while (status_ == 0), then wait, which has no predicate.
CheckStatus(c) ==
  /\ thread[c] = "check"
  /\ thread' = [thread EXCEPT ![c] = IF status_[c] = 0 THEN "waiting" ELSE "done"]
  /\ UNCHANGED <<peerVars, sendVars, listVars, undefined>>

\* Slipped form: status_ is not looked at after the wait.
SendAnyway(c) ==
  /\ thread[c] = "woken"
  /\ thread' = [thread EXCEPT ![c] = "waiting"]
  /\ in_flight' = [in_flight EXCEPT ![c] = More(@)]
  /\ UNCHANGED <<peerVars, status_, listVars, undefined>>

\* Slipped form: the break is taken whether or not the status asks for it.
SendAndLeave(c) ==
  /\ thread[c] = "woken"
  /\ thread' = [thread EXCEPT ![c] = "done"]
  /\ in_flight' = [in_flight EXCEPT ![c] = IF status_[c] # 0 THEN @ ELSE More(@)]
  /\ UNCHANGED <<peerVars, status_, listVars, undefined>>

SendImage(c) ==
  /\ thread[c] = "woken"
  /\ IF status_[c] # 0
     THEN /\ thread' = [thread EXCEPT ![c] = "done"]
          /\ UNCHANGED in_flight
     ELSE /\ thread' = [thread EXCEPT ![c] = "check"]
          /\ in_flight' = [in_flight EXCEPT ![c] = More(@)]
  /\ UNCHANGED <<peerVars, status_, listVars, undefined>>

\* calm: the sends of one image complete before anything wakes a thread.
MayWake == calm => \A c \in Conns : in_flight[c] = 0

SpuriousWakeup(c) ==
  /\ thread[c] = "waiting" /\ MayWake
  /\ thread' = [thread EXCEPT ![c] = "woken"]
  /\ UNCHANGED <<peerVars, sendVars, listVars, undefined>>

\* An fft thread has set sample_json and calls socket_cv.notify_all().
Publish ==
  /\ MayWake
  /\ thread' = [c \in Conns |-> IF thread[c] = "waiting" THEN "woken" ELSE thread[c]]
  /\ UNCHANGED <<peerVars, sendVars, listVars, undefined>>

-----------------------------------------------------------------------------
HandlerStep(c) ==
  \/ EndOpen(c)
  \/ BeginClose(c) \/ FindEntry(c) \/ JoinThread(c) \/ EraseEntry(c)
  \/ VectorMisused(c)

ThreadStep(c) == CheckStatus(c) \/ SendImage(c)

Next ==
  /\ ~undefined
  /\ UNCHANGED calm
  /\ \/ \E c \in Conns :
          \/ BeginOpen(c) \/ PeerCloses(c) \/ PeerVanishes(c)
          \/ HandlerStep(c) \/ SendCompletes(c)
          \/ ThreadStep(c) \/ SpuriousWakeup(c)
     \/ Publish

\* Runnable threads run, queued completions are taken, images keep coming;
\* nothing makes a peer connect or close.  Publish is never disabled in the
\* code: its fairness is strong because calm disables it now and then.
Fairness ==
  /\ SF_vars(~undefined /\ UNCHANGED calm /\ Publish)
  /\ \A c \in Conns : /\ WF_vars(~undefined /\ UNCHANGED calm /\ HandlerStep(c))
                      /\ WF_vars(~undefined /\ UNCHANGED calm /\ ThreadStep(c))
                      /\ WF_vars(~undefined /\ UNCHANGED calm /\ SendCompletes(c))

Spec == Init /\ [][Next]_vars /\ Fairness

-----------------------------------------------------------------------------
(***************************************************************************)
(* While handlers do not overlap and sends keep up with the images, no     *)
(* handler or completion touches memory that is not its own any more.      *)
(***************************************************************************)
WellDefined == calm => ~undefined

(***************************************************************************)
(* A client's notification thread and its entry in notifyThreads come and  *)
(* go together: erasing an entry never destroys a thread still running     *)
(* (which would terminate the program), and no other entry is lost.        *)
(***************************************************************************)
EntryPerThread ==
  \A c \in Conns :
    thread[c] \in {"check", "waiting", "woken", "done"}
      <=> handler[c] # "erase" /\ \E k \in DOMAIN notifyThreads : notifyThreads[k] = c

(***************************************************************************)
(* on_close gets its pool thread back: the thread it joins learns of the   *)
(* closed connection from the failing send of one image and ends on the    *)
(* next one (lines 101-118), which needs another thread of the pool.       *)
(***************************************************************************)
ClosesComplete ==
  calm => \A c \in Conns : handler[c] = "join" ~> handler[c] = "none"

(***************************************************************************)
(* A client that stays connected is sent images for ever, whatever the     *)
(* other clients do: the real-time feed main.dart:561 promises.            *)
(***************************************************************************)
FeedReachesClients ==
  \A c \in Conns :
    <>[](phase[c] = "open" /\ ~undefined) => []<><<SendCompletes(c)>>_vars

(***************************************************************************)
(* While handlers do not overlap and sends keep up, this is so.            *)
(***************************************************************************)
CalmFeedReachesClients == calm => FeedReachesClients
=============================================================================
