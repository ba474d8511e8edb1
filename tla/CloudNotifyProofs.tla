------------------------- MODULE CloudNotifyProofs -------------------------
(***************************************************************************)
(* Proofs about CloudNotify: a connection's entry comes and goes with its  *)
(* thread whatever overlaps, nothing is undefined as long as nothing does, *)
(* and closes that have taken every pool thread never end.                 *)
(***************************************************************************)
EXTENDS CloudNotify, FiniteSetTheorems, TLAPS

Live == {"check", "waiting", "woken", "done"}

Listed == {notifyThreads[k] : k \in DOMAIN notifyThreads}

\* One entry per connection.
NoRepeat ==
  \A j, k \in DOMAIN notifyThreads : notifyThreads[j] = notifyThreads[k] => j = k

\* What goes together in the life of a connection.
Stage(c) ==
  \/ /\ phase[c] = "away" /\ handler[c] \in {"none", "push"}
     /\ thread[c] = "none" /\ c \notin Listed
  \/ /\ phase[c] \in {"open", "broken"} /\ handler[c] = "none"
     /\ thread[c] \in Live /\ c \in Listed
  \/ /\ phase[c] = "closing" /\ handler[c] \in {"none", "find", "join"}
     /\ thread[c] \in Live /\ c \in Listed
  \/ /\ phase[c] = "closing" /\ handler[c] = "erase"
     /\ thread[c] = "joined" /\ c \in Listed
  \/ /\ phase[c] = "gone" /\ handler[c] = "none"
     /\ thread[c] = "joined" /\ c \notin Listed

ListInv == TypeOK /\ NoRepeat /\ \A c \in Conns : Stage(c)

\* One handler at a time, and nothing between its iterator and its entry.
Alone ==
  /\ \A c, d \in Running : c = d
  /\ \A c \in Conns : handler[c] \in {"join", "erase"} => c \in valid

\* One send at a time, and none once its thread stops looking.
KeepsUp ==
  \A c \in Conns :
    /\ in_flight[c] <= 1
    /\ status_[c] # 0 \/ thread[c] \in {"none", "woken", "done", "joined"}
         => in_flight[c] = 0

CalmInv == calm => ~undefined /\ Alone /\ KeepsUp

\* Closes whose thread waits for a completion before it can end.
Blocked ==
  {c \in Conns : /\ handler[c] = "join" /\ status_[c] = 0
                 /\ thread[c] \in {"check", "waiting", "woken"}}

PoolBlocked == Cardinality(Blocked) >= PoolSize

-----------------------------------------------------------------------------
(* The vector *)

LEMMA ConcatFacts ==
  ASSUME NEW S, NEW a \in Seq(S), NEW b \in Seq(S)
  PROVE  /\ a \o b \in Seq(S) /\ Len(a \o b) = Len(a) + Len(b)
         /\ \A k \in 1 .. Len(a) : (a \o b)[k] = a[k]
         /\ \A k \in 1 .. Len(b) : (a \o b)[Len(a) + k] = b[k]
  OBVIOUS

\* What erase(it) leaves.
LEMMA RemoveAtFacts ==
  ASSUME NEW S, NEW s \in Seq(S), NEW i \in DOMAIN s
  PROVE  /\ RemoveAt(s, i) \in Seq(S)
         /\ DOMAIN RemoveAt(s, i) = 1 .. Len(s) - 1
         /\ \A k \in 1 .. Len(s) - 1 :
              RemoveAt(s, i)[k] = IF k < i THEN s[k] ELSE s[k + 1]
<1> DEFINE a == SubSeq(s, 1, i - 1)
           b == SubSeq(s, i + 1, Len(s))
<1>1. /\ a \in Seq(S) /\ Len(a) = i - 1
      /\ \A k \in 1 .. i - 1 : a[k] = s[k]
  OBVIOUS
<1>2. /\ b \in Seq(S) /\ Len(b) = Len(s) - i
      /\ \A k \in 1 .. Len(s) - i : b[k] = s[k + i]
  OBVIOUS
<1>3. RemoveAt(s, i) = a \o b
  BY DEF RemoveAt
<1>4. i \in 1 .. Len(s) /\ Len(s) \in Nat
  OBVIOUS
<1> HIDE DEF a, b
<1>5. /\ a \o b \in Seq(S) /\ Len(a \o b) = Len(s) - 1
      /\ \A k \in 1 .. i - 1 : (a \o b)[k] = a[k]
      /\ \A k \in 1 .. Len(s) - i : (a \o b)[(i - 1) + k] = b[k]
  BY <1>1, <1>2, <1>4, ConcatFacts
<1>6. ASSUME NEW k \in 1 .. Len(s) - 1
      PROVE  (a \o b)[k] = IF k < i THEN s[k] ELSE s[k + 1]
  <2>1. CASE k < i
    <3>1. k \in 1 .. i - 1
      BY <1>4, <2>1
    <3> QED
      BY <1>1, <1>5, <2>1, <3>1
  <2>2. CASE ~(k < i)
    <3> DEFINE j == k - (i - 1)
    <3>1. j \in 1 .. Len(s) - i /\ (i - 1) + j = k /\ j + i = k + 1
      BY <1>4, <2>2
    <3>2. (a \o b)[k] = b[j] /\ b[j] = s[k + 1]
      BY <1>2, <1>5, <3>1
    <3> QED
      BY <2>2, <3>2
  <2> QED
    BY <2>1, <2>2
<1> QED
  BY <1>3, <1>5, <1>6

\* Appending a connection that has no entry.
LEMMA AppendEntry ==
  ASSUME notifyThreads \in Seq(Conns), NoRepeat,
         NEW c \in Conns, c \notin Listed,
         notifyThreads' = Append(notifyThreads, c)
  PROVE  NoRepeat' /\ Listed' = Listed \cup {c}
<1>1. /\ DOMAIN notifyThreads = 1 .. Len(notifyThreads)
      /\ DOMAIN notifyThreads' = 1 .. Len(notifyThreads) + 1
      /\ Len(notifyThreads) \in Nat
      /\ notifyThreads'[Len(notifyThreads) + 1] = c
      /\ \A k \in DOMAIN notifyThreads : notifyThreads'[k] = notifyThreads[k]
  OBVIOUS
<1>2. \A k \in DOMAIN notifyThreads : notifyThreads[k] # c
  BY DEF Listed
<1>3. NoRepeat'
  BY <1>1, <1>2 DEF NoRepeat
<1>4. Listed' \subseteq Listed \cup {c}
  BY <1>1 DEF Listed
<1>5. Listed \cup {c} \subseteq Listed'
  BY <1>1, SMT DEF Listed
<1> QED
  BY <1>3, <1>4, <1>5

\* Erasing the one entry a connection has.
LEMMA EraseOne ==
  ASSUME notifyThreads \in Seq(Conns), NoRepeat,
         NEW i \in DOMAIN notifyThreads,
         notifyThreads' = RemoveAt(notifyThreads, i)
  PROVE  /\ notifyThreads' \in Seq(Conns)
         /\ NoRepeat' /\ Listed' = Listed \ {notifyThreads[i]}
<1>1. /\ DOMAIN notifyThreads = 1 .. Len(notifyThreads)
      /\ Len(notifyThreads) \in Nat /\ i \in 1 .. Len(notifyThreads)
  OBVIOUS
<1>2. /\ notifyThreads' \in Seq(Conns)
      /\ DOMAIN notifyThreads' = 1 .. Len(notifyThreads) - 1
      /\ \A k \in 1 .. Len(notifyThreads) - 1 :
           notifyThreads'[k] = IF k < i THEN notifyThreads[k] ELSE notifyThreads[k + 1]
  BY RemoveAtFacts
<1>3. NoRepeat'
  BY <1>1, <1>2, SMT DEF NoRepeat
<1>4. Listed' \subseteq Listed \ {notifyThreads[i]}
  BY <1>1, <1>2, SMT DEF NoRepeat, Listed
<1>5. ASSUME NEW k \in DOMAIN notifyThreads, k # i
      PROVE  notifyThreads[k] \in Listed'
  <2>1. CASE k < i
    BY <1>1, <1>2, <2>1, SMT DEF Listed
  <2>2. CASE k > i
    <3>1. k - 1 \in DOMAIN notifyThreads' /\ notifyThreads'[k - 1] = notifyThreads[k]
      BY <1>1, <1>2, <2>2, SMT
    <3> QED
      BY <3>1, Zenon DEF Listed
  <2> QED
    BY <1>1, <1>5, <2>1, <2>2
<1>6. Listed \ {notifyThreads[i]} \subseteq Listed'
  BY <1>5 DEF Listed
<1> QED
  BY <1>2, <1>3, <1>4, <1>6

-----------------------------------------------------------------------------
(* Entries and threads *)

LEMMA ListInit == Init => ListInv
<1> SUFFICES ASSUME Init PROVE ListInv
  OBVIOUS
<1>1. TypeOK
  <2>1. notifyThreads \in Seq(Conns)
    BY DEF Init
  <2>2. in_flight \in [Conns -> 0 .. MaxInFlight]
    BY CloudAssumption DEF Init
  <2> QED
    BY <2>1, <2>2 DEF Init, TypeOK
<1>2. NoRepeat /\ Listed = {}
  BY DEF Init, NoRepeat, Listed
<1>3. ASSUME NEW c \in Conns PROVE Stage(c)
  BY <1>2 DEF Init, Stage
<1> QED
  BY <1>1, <1>2, <1>3 DEF ListInv

\* A step that leaves the vector alone moves connections between the stages
\* at which they have an entry, or between those at which they have none.
LEMMA SameEntries ==
  ASSUME ListInv, TypeOK', notifyThreads' = notifyThreads,
         \A c \in Conns : Stage(c) => Stage(c)'
  PROVE  ListInv'
  BY DEF ListInv, NoRepeat

LEMMA MoreType == \A n \in 0 .. MaxInFlight : More(n) \in 0 .. MaxInFlight
  BY CloudAssumption DEF More

LEMMA FewerType ==
  \A n \in 0 .. MaxInFlight : n > 0 => Fewer(n) \subseteq 0 .. MaxInFlight
  BY CloudAssumption DEF Fewer

LEMMA ListNext ==
  ASSUME ListInv, [Next]_vars
  PROVE  ListInv'
<1> USE DEF ListInv
<1>1. ASSUME NEW c \in Conns, BeginOpen(c), UNCHANGED calm PROVE ListInv'
  <2>1. TypeOK'
    BY <1>1 DEF BeginOpen, TypeOK, sendVars, listVars
  <2> QED
    BY <1>1, <2>1, SameEntries DEF BeginOpen, TypeOK, sendVars, listVars, Stage, Listed
<1>2. ASSUME NEW c \in Conns, PeerCloses(c) \/ PeerVanishes(c), UNCHANGED calm
      PROVE  ListInv'
  <2>1. TypeOK'
    BY <1>2 DEF PeerCloses, PeerVanishes, TypeOK, sendVars, listVars
  <2> QED
    BY <1>2, <2>1, SameEntries
    DEF PeerCloses, PeerVanishes, TypeOK, sendVars, listVars, Stage, Listed
<1>3. ASSUME NEW c \in Conns, EndOpen(c), UNCHANGED calm PROVE ListInv'
  <2>1. c \notin Listed
    BY <1>3 DEF EndOpen, Stage
  <2>2. NoRepeat' /\ Listed' = Listed \cup {c}
    BY <1>3, <2>1, AppendEntry DEF EndOpen, TypeOK
  <2>3. capacity' \in Nat /\ valid' \in SUBSET Conns
    BY <1>3 DEF EndOpen, TypeOK
  <2>4. notifyThreads' \in Seq(Conns)
    BY <1>3 DEF EndOpen, TypeOK
  <2>5. TypeOK'
    BY <1>3, <2>3, <2>4 DEF EndOpen, TypeOK, sendVars
  <2>6. ASSUME NEW d \in Conns PROVE Stage(d)'
    <3>1. CASE d = c
      BY <1>3, <2>2, <3>1 DEF EndOpen, TypeOK, Stage, Live
    <3>2. CASE d # c
      BY <1>3, <2>2, <3>2 DEF EndOpen, TypeOK, Stage
    <3> QED
      BY <3>1, <3>2
  <2> QED
    BY <2>2, <2>5, <2>6
<1>4. ASSUME NEW c \in Conns, BeginClose(c) \/ FindEntry(c), UNCHANGED calm
      PROVE  ListInv'
  <2>1. TypeOK'
    BY <1>4 DEF BeginClose, FindEntry, TypeOK, sendVars, listVars
  <2> QED
    BY <1>4, <2>1, SameEntries
    DEF BeginClose, FindEntry, TypeOK, sendVars, listVars, Stage, Listed
<1>5. ASSUME NEW c \in Conns, JoinThread(c), UNCHANGED calm PROVE ListInv'
  <2>1. TypeOK'
    BY <1>5 DEF JoinThread, TypeOK, sendVars, listVars
  <2> QED
    BY <1>5, <2>1, SameEntries
    DEF JoinThread, TypeOK, sendVars, listVars, Stage, Listed
<1>6. ASSUME NEW c \in Conns, EraseEntry(c), UNCHANGED calm PROVE ListInv'
  <2>1. c \in Listed
    BY <1>6 DEF EraseEntry, Stage
  <2>2. PICK i \in DOMAIN notifyThreads :
          notifyThreads[i] = c /\ notifyThreads' = RemoveAt(notifyThreads, i)
    <3>1. \E k \in DOMAIN notifyThreads : notifyThreads[k] = c
      BY <2>1 DEF Listed
    <3> QED
      BY <1>6, <3>1, Zenon DEF EraseEntry
  <2>3. /\ notifyThreads' \in Seq(Conns)
        /\ NoRepeat' /\ Listed' = Listed \ {c}
    BY <2>2, EraseOne DEF TypeOK
  <2>4. TypeOK'
    <3>1. valid' \in SUBSET Conns
      BY <1>6, Zenon DEF EraseEntry, TypeOK
    <3> QED
      BY <1>6, <2>3, <3>1 DEF EraseEntry, TypeOK, sendVars
  <2>5. ASSUME NEW d \in Conns PROVE Stage(d)'
    <3>1. CASE d = c
      BY <1>6, <2>3, <3>1 DEF EraseEntry, TypeOK, Stage
    <3>2. CASE d # c
      BY <1>6, <2>3, <3>2 DEF EraseEntry, TypeOK, Stage
    <3> QED
      BY <3>1, <3>2
  <2> QED
    BY <2>3, <2>4, <2>5
<1>7. ASSUME NEW c \in Conns, VectorMisused(c), UNCHANGED calm PROVE ListInv'
  <2>1. TypeOK'
    BY <1>7 DEF VectorMisused, TypeOK, peerVars, sendVars, listVars
  <2> QED
    BY <1>7, <2>1, SameEntries DEF VectorMisused, peerVars, listVars, Stage, Listed
<1>8. ASSUME NEW c \in Conns, SendCompletes(c), UNCHANGED calm PROVE ListInv'
  <2>1. /\ in_flight' \in [Conns -> 0 .. MaxInFlight]
        /\ status_' \in [Conns -> {0, -1}] /\ undefined' \in BOOLEAN
    BY <1>8, FewerType DEF SendCompletes, TypeOK, SendError
  <2>2. TypeOK'
    BY <1>8, <2>1 DEF SendCompletes, TypeOK, peerVars, listVars
  <2> QED
    BY <1>8, <2>2, SameEntries DEF SendCompletes, peerVars, listVars, Stage, Listed
<1>9. ASSUME NEW c \in Conns, CheckStatus(c) \/ SpuriousWakeup(c), UNCHANGED calm
      PROVE  ListInv'
  <2>1. TypeOK'
    BY <1>9 DEF CheckStatus, SpuriousWakeup, TypeOK, peerVars, sendVars, listVars
  <2> QED
    BY <1>9, <2>1, SameEntries
    DEF CheckStatus, SpuriousWakeup, TypeOK, peerVars, listVars, Stage, Listed, Live
<1>10. ASSUME NEW c \in Conns, SendImage(c), UNCHANGED calm PROVE ListInv'
  <2>1. /\ in_flight' \in [Conns -> 0 .. MaxInFlight]
        /\ thread' = [thread EXCEPT ![c] = "done"] \/ thread' = [thread EXCEPT ![c] = "check"]
    <3>1. CASE status_[c] # 0
      BY <1>10, <3>1 DEF SendImage, TypeOK
    <3>2. CASE status_[c] = 0
      <4>1. /\ in_flight' = [in_flight EXCEPT ![c] = More(in_flight[c])]
            /\ thread' = [thread EXCEPT ![c] = "check"]
        BY <1>10, <3>2 DEF SendImage
      <4>2. More(in_flight[c]) \in 0 .. MaxInFlight
        BY MoreType DEF TypeOK
      <4> QED
        BY <4>1, <4>2 DEF TypeOK
    <3> QED
      BY <3>1, <3>2
  <2>2. TypeOK'
    BY <1>10, <2>1 DEF SendImage, TypeOK, peerVars, listVars
  <2> QED
    BY <1>10, <2>1, <2>2, SameEntries
    DEF SendImage, TypeOK, peerVars, listVars, Stage, Listed, Live
<1>11. ASSUME Publish, UNCHANGED calm PROVE ListInv'
  <2>1. TypeOK'
    BY <1>11 DEF Publish, TypeOK, peerVars, sendVars, listVars
  <2> QED
    BY <1>11, <2>1, SameEntries DEF Publish, TypeOK, peerVars, listVars, Stage, Listed, Live
<1>12. ASSUME UNCHANGED vars PROVE ListInv'
  <2>1. TypeOK'
    BY <1>12 DEF vars, TypeOK, peerVars, sendVars, listVars
  <2> QED
    BY <1>12, <2>1, SameEntries DEF vars, peerVars, listVars, Stage, Listed
<1> QED
  BY <1>1, <1>2, <1>3, <1>4, <1>5, <1>6, <1>7, <1>8, <1>9, <1>10, <1>11, <1>12
  DEF Next, HandlerStep, ThreadStep

(***************************************************************************)
(* Every variable keeps its type, also where handlers overlap.             *)
(***************************************************************************)
THEOREM TypeCorrect == Spec => []TypeOK
<1>1. ListInv => TypeOK
  BY DEF ListInv
<1> QED
  BY <1>1, ListInit, ListNext, PTL DEF Spec

(***************************************************************************)
(* A connection has a notification thread while it has an entry in         *)
(* notifyThreads, and no longer, for any number of connections and pool    *)
(* threads and whatever overlaps (cloudServer/src/main.cpp 95-135).        *)
(***************************************************************************)
THEOREM EntriesMatchThreads == Spec => []EntryPerThread
<1>1. ListInv => EntryPerThread
  BY Zenon DEF ListInv, EntryPerThread, Stage, Listed, Live
<1> QED
  BY <1>1, ListInit, ListNext, PTL DEF Spec

-----------------------------------------------------------------------------
(* While handlers do not overlap and sends keep up *)

LEMMA CalmInit == Init => CalmInv
  BY DEF Init, CalmInv, Alone, KeepsUp, Running

\* What the counts of pending sends may become when they are at most one.
LEMMA CalmCounts ==
  /\ More(0) = 1
  /\ calm => Fewer(1) = {0}
  BY CloudAssumption DEF More, Fewer

LEMMA CalmNext ==
  ASSUME ListInv, CalmInv, [Next]_vars
  PROVE  CalmInv'
<1> SUFFICES ASSUME calm' PROVE ~undefined' /\ Alone' /\ KeepsUp'
  BY DEF CalmInv
<1>0. calm /\ ~undefined /\ Alone /\ KeepsUp
  BY DEF CalmInv, Next, vars
<1> USE <1>0 DEF ListInv
<1>1. ASSUME NEW c \in Conns, BeginOpen(c) \/ BeginClose(c)
      PROVE  ~undefined' /\ Alone' /\ KeepsUp'
  <2>1. Running = {} /\ Running' = {c}
    BY <1>1 DEF BeginOpen, BeginClose, MayBegin, Running, TypeOK
  <2>2. \A d \in Conns : handler'[d] \in {"none", "push", "find"}
    BY <1>1, <2>1 DEF BeginOpen, BeginClose, Running, TypeOK
  <2>3. Alone'
    BY <2>1, <2>2 DEF Alone
  <2> QED
    BY <1>1, <2>3 DEF BeginOpen, BeginClose, KeepsUp, sendVars
<1>2. ASSUME NEW c \in Conns, PeerCloses(c) \/ PeerVanishes(c)
      PROVE  ~undefined' /\ Alone' /\ KeepsUp'
  BY <1>2 DEF PeerCloses, PeerVanishes, Alone, Running, KeepsUp, sendVars, listVars
<1>3. ASSUME NEW c \in Conns, EndOpen(c)
      PROVE  ~undefined' /\ Alone' /\ KeepsUp'
  <2>1. \A d \in Conns : d # c => handler[d] = "none"
    BY <1>3 DEF EndOpen, Alone, Running
  <2>2. Alone'
    BY <1>3, <2>1 DEF EndOpen, Alone, Running, TypeOK
  <2>3. KeepsUp'
    BY <1>3 DEF EndOpen, KeepsUp, Stage, sendVars, TypeOK
  <2> QED
    BY <1>3, <2>2, <2>3 DEF EndOpen
<1>4. ASSUME NEW c \in Conns, FindEntry(c)
      PROVE  ~undefined' /\ Alone' /\ KeepsUp'
  BY <1>4 DEF FindEntry, Alone, Running, KeepsUp, sendVars, TypeOK
<1>5. ASSUME NEW c \in Conns, JoinThread(c)
      PROVE  ~undefined' /\ Alone' /\ KeepsUp'
  <2>1. Alone'
    BY <1>5 DEF JoinThread, Alone, Running, listVars, TypeOK
  <2>2. KeepsUp'
    BY <1>5 DEF JoinThread, KeepsUp, sendVars, TypeOK
  <2> QED
    BY <1>5, <2>1, <2>2 DEF JoinThread
<1>6. ASSUME NEW c \in Conns, EraseEntry(c)
      PROVE  ~undefined' /\ Alone' /\ KeepsUp'
  <2>1. \A d \in Conns : d # c => handler[d] = "none"
    BY <1>6 DEF EraseEntry, Alone, Running
  <2>2. handler' = [handler EXCEPT ![c] = "none"]
    BY <1>6 DEF EraseEntry
  <2>3. Alone'
    BY <2>1, <2>2 DEF Alone, Running, TypeOK
  <2> QED
    BY <1>6, <2>3 DEF EraseEntry, KeepsUp, sendVars
<1>7. ASSUME NEW c \in Conns PROVE ~VectorMisused(c)
  <2>1. handler[c] \in {"push", "find", "erase"} => InVector = {c}
    BY DEF Alone, Running, InVector
  <2> QED
    BY <2>1 DEF VectorMisused, Alone
<1>8. ASSUME NEW c \in Conns, SendCompletes(c)
      PROVE  ~undefined' /\ Alone' /\ KeepsUp'
  <2>1. in_flight[c] = 1
    BY <1>8 DEF SendCompletes, KeepsUp, TypeOK
  <2>2. in_flight' = [in_flight EXCEPT ![c] = 0]
    BY <1>8, <2>1, CalmCounts DEF SendCompletes
  <2>3. status_[c] = 0 /\ thread[c] \notin {"none", "woken", "done", "joined"}
    BY <2>1 DEF KeepsUp
  <2>4. KeepsUp'
    BY <1>8, <2>2 DEF SendCompletes, KeepsUp, TypeOK
  <2> QED
    BY <1>8, <2>3, <2>4 DEF SendCompletes, Alone, Running, peerVars, listVars
<1>9. ASSUME NEW c \in Conns, CheckStatus(c)
      PROVE  ~undefined' /\ Alone' /\ KeepsUp'
  BY <1>9 DEF CheckStatus, Alone, Running, KeepsUp, peerVars, sendVars, listVars, TypeOK
<1>10. ASSUME NEW c \in Conns, SendImage(c)
       PROVE  ~undefined' /\ Alone' /\ KeepsUp'
  <2>1. in_flight[c] = 0
    BY <1>10 DEF SendImage, KeepsUp
  <2>2. KeepsUp'
    <3>1. CASE status_[c] # 0
      BY <1>10, <2>1, <3>1 DEF SendImage, KeepsUp, TypeOK
    <3>2. CASE status_[c] = 0
      BY <1>10, <2>1, <3>2, CalmCounts DEF SendImage, KeepsUp, TypeOK
    <3> QED
      BY <3>1, <3>2
  <2> QED
    BY <1>10, <2>2 DEF SendImage, Alone, Running, peerVars, listVars
<1>11. ASSUME \/ \E c \in Conns : SpuriousWakeup(c)
              \/ Publish
       PROVE  ~undefined' /\ Alone' /\ KeepsUp'
  <2>1. \A c \in Conns : in_flight[c] = 0
    BY <1>11 DEF SpuriousWakeup, Publish, MayWake
  <2> QED
    BY <1>11, <2>1 DEF SpuriousWakeup, Publish, Alone, Running, KeepsUp, peerVars, sendVars, listVars
<1>12. ASSUME UNCHANGED vars PROVE ~undefined' /\ Alone' /\ KeepsUp'
  BY <1>12 DEF vars, Alone, Running, KeepsUp, peerVars, sendVars, listVars
<1> QED
  BY <1>1, <1>2, <1>3, <1>4, <1>5, <1>6, <1>7, <1>8, <1>9, <1>10, <1>11, <1>12
  DEF Next, HandlerStep, ThreadStep

(***************************************************************************)
(* While handlers do not overlap and sends keep up with the images, no     *)
(* handler meets another in notifyThreads or uses a stale iterator, and no *)
(* send completes after its thread has ended (main.cpp 75-135).            *)
(***************************************************************************)
THEOREM CalmIsDefined == Spec => []WellDefined
<1>1. ListInv /\ CalmInv => WellDefined
  BY DEF CalmInv, WellDefined
<1>2. ListInv /\ CalmInv /\ [Next]_vars => ListInv' /\ CalmInv'
  BY ListNext, CalmNext
<1> QED
  BY <1>1, <1>2, ListInit, CalmInit, PTL DEF Spec

-----------------------------------------------------------------------------
(* Closes that have taken the whole pool *)

LEMMA BlockedFinite ==
  \A S \in SUBSET Conns : IsFiniteSet(S) /\ Cardinality(S) \in Nat
<1>1. IsFiniteSet(Conns)
  BY FS_Interval, CloudAssumption DEF Conns
<1> QED
  BY <1>1, FS_Subset, FS_CardinalityType

\* Every blocked close is on a thread of the pool.
LEMMA NoThreadLeft == PoolBlocked => ~PoolIdle
<1>1. Blocked \subseteq Running /\ Running \subseteq Conns
  BY DEF Blocked, Running
<1>2. IsFiniteSet(Running) /\ Cardinality(Running) \in Nat /\ Cardinality(Blocked) \in Nat
  BY <1>1, BlockedFinite
<1>3. Cardinality(Blocked) <= Cardinality(Running)
  BY <1>1, <1>2, FS_Subset
<1> QED
  BY <1>2, <1>3, CloudAssumption DEF PoolBlocked, PoolIdle

\* Only the completion of its send could end a blocked close.
LEMMA BlockedStay ==
  ASSUME ListInv, PoolBlocked, [Next]_vars
  PROVE  PoolBlocked'
<1>1. ~PoolIdle
  BY NoThreadLeft
<1>2. Blocked \subseteq Blocked'
  <2> SUFFICES ASSUME NEW d \in Blocked PROVE d \in Blocked'
    OBVIOUS
  <2>1. /\ d \in Conns /\ handler[d] = "join" /\ status_[d] = 0
        /\ thread[d] \in {"check", "waiting", "woken"}
    BY DEF Blocked
  <2>2. handler'[d] = "join"
    BY <1>1, <2>1 DEF Next, HandlerStep, ThreadStep, BeginOpen, EndOpen, BeginClose,
       FindEntry, JoinThread, EraseEntry, VectorMisused, PeerCloses, PeerVanishes,
       SendCompletes, CheckStatus, SendImage, SpuriousWakeup, Publish,
       vars, peerVars, ListInv, TypeOK
  <2>3. status_'[d] = 0
    BY <1>1, <2>1 DEF Next, HandlerStep, ThreadStep, BeginOpen, EndOpen, BeginClose,
       FindEntry, JoinThread, EraseEntry, VectorMisused, PeerCloses, PeerVanishes,
       SendCompletes, CheckStatus, SendImage, SpuriousWakeup, Publish,
       vars, sendVars, ListInv, TypeOK
  <2>4. thread'[d] \in {"check", "waiting", "woken"}
    BY <1>1, <2>1 DEF Next, HandlerStep, ThreadStep, BeginOpen, EndOpen, BeginClose,
       FindEntry, JoinThread, EraseEntry, VectorMisused, PeerCloses, PeerVanishes,
       SendCompletes, CheckStatus, SendImage, SpuriousWakeup, Publish,
       vars, ListInv, TypeOK
  <2> QED
    BY <2>1, <2>2, <2>3, <2>4 DEF Blocked
<1>3. Cardinality(Blocked) <= Cardinality(Blocked')
  <2>1. Blocked' \subseteq Conns /\ Blocked \subseteq Conns
    BY DEF Blocked
  <2> QED
    BY <1>2, <2>1, BlockedFinite, FS_Subset
<1>4. Cardinality(Blocked) \in Nat /\ Cardinality(Blocked') \in Nat
  BY BlockedFinite DEF Blocked
<1> QED
  BY <1>3, <1>4, CloudAssumption DEF PoolBlocked

(***************************************************************************)
(* When as many closes wait for their thread as the pool has threads, and  *)
(* none of these threads knows yet, this is for ever: no handler begins    *)
(* and no send completes any more, for any size of the pool and any number *)
(* of connections (on_close, main.cpp:130; the completions of line 112).   *)
(***************************************************************************)
THEOREM ClosesBlockThePool ==
  Spec => [](PoolBlocked
               => [][\A c \in Conns :
                       ~(SendCompletes(c) \/ BeginOpen(c) \/ BeginClose(c))]_vars)
<1>1. ListInv /\ PoolBlocked /\ [Next]_vars => PoolBlocked'
  BY BlockedStay
<1>2. PoolBlocked => \A c \in Conns : ~(SendCompletes(c) \/ BeginOpen(c) \/ BeginClose(c))
  BY NoThreadLeft DEF SendCompletes, BeginOpen, BeginClose, MayBegin
<1>3. ListInv /\ [Next]_vars => ListInv'
  BY ListNext
<1> QED
  BY <1>1, <1>2, <1>3, ListInit, PTL DEF Spec
=============================================================================
