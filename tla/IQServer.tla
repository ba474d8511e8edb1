------------------------------ MODULE IQServer ------------------------------
(***************************************************************************)
(* The life of myServer's IQWebSocketServer: run() starts the server       *)
(* thread and the image thread, main feeds rows until its input ends, and  *)
(* the destructor takes both threads down while clients may be connected.  *)
(* The clients are those of IQSocket; the image thread is reduced to when  *)
(* it waits, works and looks at runImageThread (see ImageThread for what   *)
(* it does with a row).                                                    *)
(***************************************************************************)
EXTENDS IQSocket

VARIABLES
  main,           \* where the main thread is
  image,          \* where the image thread is
  runImageThread

lifeVars   == <<main, image, runImageThread>>
serverVars == <<vars, lifeVars>>

ServerTypeOK ==
  /\ TypeOK
  /\ main \in {"rows", "stop", "join", "clear", "notify", "clients",
               "joinImage", "returned"}
  /\ image \in {"test", "park", "waiting", "work", "ended"}
  /\ runImageThread \in BOOLEAN

\* run() has returned.
ServerInit ==
  /\ Init
  /\ main = "rows"
  /\ image = "test"
  /\ runImageThread = TRUE

\* Until server->stop() the pool starts handlers and completes sends.
PoolRuns == main \in {"rows", "stop"}

Woken(thread) == IF thread = "waiting" THEN "work" ELSE thread

-----------------------------------------------------------------------------
(* The image thread *)

\* while(runImageThread)
ImageTest ==
  /\ image = "test"
  /\ image' = IF runImageThread THEN "park" ELSE "ended"
  /\ UNCHANGED <<vars, main, runImageThread>>

ImagePark ==
  /\ image = "park"
  /\ image' = "waiting"
  /\ UNCHANGED <<vars, main, runImageThread>>

ImageSpurious ==
  /\ image = "waiting"
  /\ image' = "work"
  /\ UNCHANGED <<vars, main, runImageThread>>

\* A row that completes no image.
ImageRow ==
  /\ image = "work"
  /\ image' = "test"
  /\ UNCHANGED <<vars, main, runImageThread>>

\* A row that completes one: closeFile announces it.
ImagePublish ==
  /\ image = "work"
  /\ Publish
  /\ image' = "test"
  /\ UNCHANGED <<main, runImageThread>>

ImageStep == ImageTest \/ ImagePark \/ ImageRow

-----------------------------------------------------------------------------
(* The main thread *)

\* writeToBuffer has a row: image_cv.notify_all().
NotifyRow ==
  /\ main = "rows"
  /\ image' = Woken(image)
  /\ UNCHANGED <<vars, main, runImageThread>>

MainGoes(from, to) == main = from /\ main' = to

\* The input has ended; main sleeps, and returning destroys my_server.
EndOfInput ==
  /\ MainGoes("rows", "stop")
  /\ UNCHANGED <<vars, image, runImageThread>>

\* server->stop() closes the connections and stops the event loop.
StopServer ==
  /\ MainGoes("stop", "join")
  /\ peer' = [c \in Conns |-> IF peer[c] = "open" THEN "closed" ELSE peer[c]]
  /\ UNCHANGED <<handler, sendVars, queueVars, undefined, image, runImageThread>>

\* serverThread.join() waits for every on_open that is still running.
JoinServer ==
  /\ MainGoes("join", "clear")
  /\ Busy = {}
  /\ UNCHANGED <<vars, image, runImageThread>>

\* Slipped form: the flag is left as it is.
LeaveRunning ==
  /\ MainGoes("clear", "notify")
  /\ UNCHANGED <<vars, image, runImageThread>>

\* runImageThread = false, without image_mutex.
ClearRun ==
  /\ MainGoes("clear", "notify")
  /\ runImageThread' = FALSE
  /\ UNCHANGED <<vars, image>>

\* image_cv.notify_all()
NotifyImage ==
  /\ MainGoes("notify", "clients")
  /\ image' = Woken(image)
  /\ UNCHANGED <<vars, runImageThread>>

\* socket_cv.notify_all()
NotifyClients ==
  /\ MainGoes("clients", "joinImage")
  /\ handler' = [c \in Conns |-> IF handler[c] = "waiting" THEN "woken" ELSE handler[c]]
  /\ UNCHANGED <<peer, sendVars, queueVars, undefined, image, runImageThread>>

\* imageThread.join()
JoinImage ==
  /\ MainGoes("joinImage", "returned")
  /\ image = "ended"
  /\ UNCHANGED <<vars, image, runImageThread>>

Destructor ==
  \/ StopServer \/ JoinServer \/ ClearRun
  \/ NotifyImage \/ NotifyClients \/ JoinImage

-----------------------------------------------------------------------------
PoolStep(c)   == PoolRuns /\ SendCompletes(c) /\ UNCHANGED lifeVars
OnOpenStep(c) == OnOpen(c) /\ UNCHANGED lifeVars

ClientStep(c) ==
  \/ PoolRuns /\ Connect(c) /\ UNCHANGED lifeVars
  \/ Disconnect(c) /\ UNCHANGED lifeVars
  \/ SpuriousWakeup(c) /\ UNCHANGED lifeVars
  \/ PoolStep(c) \/ OnOpenStep(c)

ServerNext ==
  /\ ~undefined
  /\ \/ \E c \in Conns : ClientStep(c)
     \/ ImageStep \/ ImageSpurious \/ ImagePublish
     \/ NotifyRow \/ EndOfInput \/ Destructor

\* As in IQSocket; rows keep coming while main reads its input, and every
\* thread that can run does.
ServerFairness ==
  /\ SF_serverVars(~undefined /\ ImagePublish)
  /\ WF_serverVars(~undefined /\ ImageStep)
  /\ WF_serverVars(~undefined /\ NotifyRow)
  /\ WF_serverVars(~undefined /\ Destructor)
  /\ \A c \in Conns : /\ WF_serverVars(~undefined /\ OnOpenStep(c))
                      /\ WF_serverVars(~undefined /\ PoolStep(c))

ServerSpec == ServerInit /\ [][ServerNext]_serverVars /\ ServerFairness

-----------------------------------------------------------------------------
(***************************************************************************)
(* The properties of IQSocket, as long as main has input.                  *)
(***************************************************************************)
StaysUp == [](main = "rows")

(***************************************************************************)
(* While the program runs and there is room the queue moves: its first     *)
(* entry is that of a client still asking (lines 71-77).                   *)
(***************************************************************************)
QueueMovesWhileUp == StaysUp => QueueMoves

(***************************************************************************)
(* While the program runs, a client that goes away gives its pool thread   *)
(* back although nothing is read from it (lines 104-119).                  *)
(***************************************************************************)
LeaversLeaveWhileUp == StaysUp => LeaversLeave

(***************************************************************************)
(* While the program runs, a client that is admitted and stays connected   *)
(* is sent images for ever (lines 104-117), although the image thread only *)
(* looks at a row when it is waiting at the right moment.                  *)
(***************************************************************************)
FeedReachesClientsWhileUp == StaysUp => FeedReachesClients

OnItsWayOut(c) ==
  \/ handler[c] = "leave"
  \/ handler[c] \in {"sent", "woken"} /\ status_[c] = SendError

(***************************************************************************)
(* The destructor (lines 250-262) returns, with two exceptions.  Either a  *)
(* client is being served, or waits in the queue, when the server is       *)
(* stopped: its on_open waits for images that do not come, and the join of *)
(* the server thread for it.  Or the image thread has seen runImageThread  *)
(* true, and waits only after the one notification that follows.  (What is *)
(* excluded is a little more: that it stands before its wait at any moment *)
(* between lines 257 and 258, also if it gets there in time.)              *)
(***************************************************************************)
NobodyServed == main = "join" => \A c \in Busy : OnItsWayOut(c)
NotMissed    == main = "notify" => image # "park"

StopCompletes ==
  []NobodyServed /\ []NotMissed => (main = "stop" ~> main = "returned")
=============================================================================
