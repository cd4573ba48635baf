---------------------------- MODULE WsConnection ----------------------------
(***************************************************************************)
(* The WebSocket connections of crates/server/src/ws.rs, the broadcast     *)
(* channel that feeds them, and the end of main in                         *)
(* crates/server/src/main.rs.                                              *)
(*                                                                         *)
(* The controller's state is a version that counts its changes: it changes *)
(* (on one thread) and then publishes the change as an event.  A           *)
(* connection is a task on another thread that waits in a select for a     *)
(* frame of its client, an event or the shutdown, and handles what came to *)
(* the end before it waits again.  Sending a frame takes as long as the    *)
(* client takes to read; a command takes as long as the device takes.      *)
(***************************************************************************)
EXTENDS Integers

CONSTANTS
  Conn,
  Capacity,     \* of the broadcast channel (1024 in the code)
  MaxChanges,   \* bound: changes of the controller's state
  MaxCommands   \* bound: frames received, by all the connections

ASSUME CapacityAssumption == Capacity \in Nat \ {0}

ASSUME BoundsAssumption == MaxChanges \in Nat /\ MaxCommands \in Nat

NoView == -1

VARIABLES
  changed, published,  \* versions of the controller's state and of its events
  phase,               \* where each connection is
  cursor,              \* events its receiver has taken from the channel
  listening,
  request, frame,      \* the frame it handles; the version it is sending
  view,                \* the version its client knows of
  told, main,          \* the shutdown watch; where main is
  \* for the bounds and the properties: events published and events drained
  \* at start_listening; whether events were overwritten unread
  startMark, drained, lagged, received

connVars  == <<phase, cursor, listening, request, frame, view, startMark, drained, lagged>>
stateVars == <<changed, published>>
mainVars  == <<told, main>>

vars == <<connVars, stateVars, mainVars, received>>

Phases == {"out", "info", "select", "command", "drain", "reply", "event", "bye", "closed"}

TypeOK ==
  /\ changed \in 0..MaxChanges /\ published \in {changed - 1, changed} \cap Nat
  /\ phase \in [Conn -> Phases]
  /\ cursor \in [Conn -> 0..published]
  /\ listening \in [Conn -> BOOLEAN] /\ lagged \in [Conn -> BOOLEAN]
  /\ request \in [Conn -> {"none", "start_listening", "other"}]
  /\ frame \in [Conn -> NoView..changed]
  /\ view \in [Conn -> NoView..changed]
  /\ told \in BOOLEAN /\ main \in {"running", "draining", "stopping", "exited"}
  /\ startMark \in [Conn -> 0..published] /\ drained \in [Conn -> 0..published]
  /\ received \in 0..MaxCommands

Init ==
  /\ changed = 0 /\ published = 0
  /\ phase = [c \in Conn |-> "out"]
  /\ cursor = [c \in Conn |-> 0]
  /\ listening = [c \in Conn |-> FALSE] /\ lagged = [c \in Conn |-> FALSE]
  /\ request = [c \in Conn |-> "none"]
  /\ frame = [c \in Conn |-> NoView]
  /\ view = [c \in Conn |-> NoView]
  /\ told = FALSE /\ main = "running"
  /\ startMark = [c \in Conn |-> 0] /\ drained = [c \in Conn |-> 0]
  /\ received = 0

-----------------------------------------------------------------------------
(* The controller changes its state, then publishes the event.             *)
Change ==
  /\ main # "exited"
  /\ changed = published /\ changed < MaxChanges
  /\ changed' = changed + 1
  /\ UNCHANGED <<connVars, published, mainVars, received>>

Publish ==
  /\ main # "exited"
  /\ published < changed
  /\ published' = published + 1
  /\ UNCHANGED <<connVars, changed, mainVars, received>>

(* The broadcast channel keeps the last Capacity events; a receiver that   *)
(* is further behind is told so and moved to the oldest one kept.          *)
Behind(c) == cursor[c] < published - Capacity

Skip(c) ==
  /\ cursor' = [cursor EXCEPT ![c] = published - Capacity]
  /\ lagged' = [lagged EXCEPT ![c] = TRUE]

Take(c) ==
  /\ cursor[c] < published /\ ~Behind(c)
  /\ cursor' = [cursor EXCEPT ![c] = @ + 1]

Goto(c, p) == phase' = [phase EXCEPT ![c] = p]

-----------------------------------------------------------------------------
Connect(c) ==
  /\ phase[c] = "out" /\ ~told
  /\ Goto(c, "info")
  /\ UNCHANGED <<cursor, listening, request, frame, view, startMark, drained,
                 lagged, stateVars, mainVars, received>>

(* server_info is sent; only then does the connection subscribe.           *)
InfoSent(c) ==
  /\ phase[c] = "info"
  /\ cursor' = [cursor EXCEPT ![c] = published]
  /\ Goto(c, "select")
  /\ UNCHANGED <<listening, request, frame, view, startMark, drained, lagged,
                 stateVars, mainVars, received>>

(* A frame of the client is received.                                      *)
Receive(c, r) ==
  /\ phase[c] = "select"
  /\ received < MaxCommands
  /\ received' = received + 1
  /\ request' = [request EXCEPT ![c] = r]
  /\ Goto(c, "command")
  /\ UNCHANGED <<cursor, listening, frame, view, startMark, drained, lagged,
                 stateVars, mainVars>>

(* Mutants: start_listening without draining, and with draining each time. *)
StartWithoutDrain(c) ==
  /\ phase[c] = "command" /\ request[c] = "start_listening"
  /\ frame' = [frame EXCEPT ![c] = changed]
  /\ listening' = [listening EXCEPT ![c] = TRUE]
  /\ startMark' = IF listening[c] THEN startMark
                  ELSE [startMark EXCEPT ![c] = published]
  /\ Goto(c, "reply")
  /\ UNCHANGED <<cursor, request, view, drained, lagged, stateVars, mainVars,
                 received>>

StartDrainsAgain(c) ==
  /\ phase[c] = "command" /\ request[c] = "start_listening"
  /\ frame' = [frame EXCEPT ![c] = changed]
  /\ listening' = [listening EXCEPT ![c] = TRUE]
  /\ startMark' = IF listening[c] THEN startMark
                  ELSE [startMark EXCEPT ![c] = published]
  /\ Goto(c, "drain")
  /\ UNCHANGED <<cursor, request, view, drained, lagged, stateVars, mainVars,
                 received>>

(* start_listening: the nodes as they are now; the first one also drains   *)
(* what is in the channel.                                                 *)
StartListening(c) ==
  /\ phase[c] = "command" /\ request[c] = "start_listening"
  /\ frame' = [frame EXCEPT ![c] = changed]
  /\ listening' = [listening EXCEPT ![c] = TRUE]
  /\ startMark' = IF listening[c] THEN startMark
                  ELSE [startMark EXCEPT ![c] = published]
  /\ Goto(c, IF listening[c] THEN "reply" ELSE "drain")
  /\ UNCHANGED <<cursor, request, view, drained, lagged, stateVars, mainVars,
                 received>>

(* Any other command, or a frame that does not parse.                      *)
OtherCommand(c) ==
  /\ phase[c] = "command" /\ request[c] = "other"
  /\ Goto(c, "reply")
  /\ UNCHANGED <<cursor, listening, request, frame, view, startMark, drained,
                 lagged, stateVars, mainVars, received>>

(* For the properties: where the drain of the first start_listening ended. *)
DrainedTo(c, n) ==
  drained' = IF view[c] = NoView THEN [drained EXCEPT ![c] = n] ELSE drained

(* The drain takes events until try_recv fails: the channel is empty, or   *)
(* it has overtaken the receiver.                                          *)
Drain(c) ==
  /\ phase[c] = "drain"
  /\ \/ Take(c) /\ UNCHANGED <<phase, drained, lagged>>
     \/ /\ cursor[c] = published
        /\ DrainedTo(c, cursor[c])
        /\ Goto(c, "reply")
        /\ UNCHANGED <<cursor, lagged>>
     \/ /\ Behind(c)
        /\ Skip(c)
        /\ DrainedTo(c, published - Capacity)
        /\ Goto(c, "reply")
  /\ UNCHANGED <<listening, request, frame, view, startMark, stateVars,
                 mainVars, received>>

Reply(c) ==
  /\ phase[c] = "reply"
  /\ view' = IF request[c] = "start_listening"
             THEN [view EXCEPT ![c] = frame[c]] ELSE view
  /\ request' = [request EXCEPT ![c] = "none"]
  /\ frame' = [frame EXCEPT ![c] = NoView]
  /\ Goto(c, "select")
  /\ UNCHANGED <<cursor, listening, startMark, drained, lagged, stateVars,
                 mainVars, received>>

-----------------------------------------------------------------------------
(* An event: forwarded to a listening client, dropped otherwise.           *)
RecvEvent(c) ==
  /\ phase[c] = "select"
  /\ Take(c)
  /\ IF listening[c]
     THEN Goto(c, "event") /\ frame' = [frame EXCEPT ![c] = cursor[c] + 1]
     ELSE UNCHANGED <<phase, frame>>
  /\ UNCHANGED <<listening, request, view, startMark, drained, lagged,
                 stateVars, mainVars, received>>

(* Mutant: the connection does not go on after it lagged.                  *)
RecvLaggedStops(c) ==
  /\ phase[c] = "select" /\ Behind(c)
  /\ lagged' = [lagged EXCEPT ![c] = TRUE]
  /\ UNCHANGED <<phase, cursor, listening, request, frame, view, startMark,
                 drained, stateVars, mainVars, received>>

(* The receiver fell behind: a warning is logged.                          *)
RecvLagged(c) ==
  /\ phase[c] = "select"
  /\ Behind(c)
  /\ Skip(c)
  /\ UNCHANGED <<phase, listening, request, frame, view, startMark, drained,
                 stateVars, mainVars, received>>

EventSent(c) ==
  /\ phase[c] = "event"
  /\ view' = [view EXCEPT ![c] = frame[c]]
  /\ frame' = [frame EXCEPT ![c] = NoView]
  /\ Goto(c, "select")
  /\ UNCHANGED <<cursor, listening, request, startMark, drained, lagged,
                 stateVars, mainVars, received>>

(* Mutant: only listening clients hear of the shutdown.                    *)
RecvShutdownListening(c) ==
  /\ phase[c] = "select" /\ told /\ listening[c]
  /\ Goto(c, "bye")
  /\ UNCHANGED <<cursor, listening, request, frame, view, startMark, drained,
                 lagged, stateVars, mainVars, received>>

RecvShutdown(c) ==
  /\ phase[c] = "select" /\ told
  /\ Goto(c, "bye")
  /\ UNCHANGED <<cursor, listening, request, frame, view, startMark, drained,
                 lagged, stateVars, mainVars, received>>

(* server_shutdown is sent and the socket closed.                          *)
ByeSent(c) ==
  /\ phase[c] = "bye"
  /\ Goto(c, "closed")
  /\ UNCHANGED <<cursor, listening, request, frame, view, startMark, drained,
                 lagged, stateVars, mainVars, received>>

(* The client is gone: recv returns nothing, or a send fails.              *)
ClientGone(c) ==
  /\ phase[c] \in {"info", "select", "reply", "event"}
  /\ Goto(c, "closed")
  /\ UNCHANGED <<cursor, listening, request, frame, view, startMark, drained,
                 lagged, stateVars, mainVars, received>>

-----------------------------------------------------------------------------
(* A signal, or the end of the stack thread: the watch is set.             *)
Stop ==
  /\ main = "running"
  /\ told' = TRUE
  /\ main' = "draining"
  /\ UNCHANGED <<connVars, stateVars, received>>

(* The listeners have ended or DRAIN_TIMEOUT has passed.                   *)
ListenersDrained ==
  /\ main = "draining"
  /\ main' = "stopping"
  /\ UNCHANGED <<connVars, stateVars, told, received>>

(* stack.shutdown has returned; main returns and ends every task.          *)
Exit ==
  /\ main = "stopping"
  /\ main' = "exited"
  /\ phase' = [c \in Conn |-> "closed"]
  /\ UNCHANGED <<cursor, listening, request, frame, view, startMark, drained,
                 lagged, stateVars, told, received>>

(* What a connection does without its select.                              *)
Handles(c) ==
  \/ InfoSent(c)
  \/ StartListening(c)
  \/ OtherCommand(c)
  \/ Drain(c)
  \/ Reply(c)
  \/ EventSent(c)
  \/ ByeSent(c)

Next ==
  \/ Change
  \/ Publish
  \/ \E c \in Conn :
       \/ Connect(c)
       \/ \E r \in {"start_listening", "other"} : Receive(c, r)
       \/ Handles(c)
       \/ RecvEvent(c)
       \/ RecvLagged(c)
       \/ RecvShutdown(c)
       \/ ClientGone(c)
  \/ Stop
  \/ ListenersDrained
  \/ Exit

Spec == Init /\ [][Next]_vars

(* Tasks are scheduled, commands and sends end, and tokio's select picks   *)
(* at random among the arms that are ready, so none is passed over forever. *)
(* Nothing is assumed of the process's end.                                *)
Fairness ==
  \A c \in Conn :
    /\ WF_vars(Handles(c))
    /\ SF_vars(RecvEvent(c)) /\ SF_vars(RecvLagged(c)) /\ SF_vars(RecvShutdown(c))

FairSpec == Spec /\ Fairness

-----------------------------------------------------------------------------
(* No client gets an event before the answer to its start_listening        *)
(* ("events flow only after start_listening") nor, unless its receiver was *)
(* overtaken, one that was published before that took the nodes.           *)
EventsComeAfterNodes ==
  \A c \in Conn : phase[c] = "event" =>
    view[c] # NoView /\ (lagged[c] \/ frame[c] > startMark[c])

(* Unless its receiver was overtaken, a listening client knows of every    *)
(* event its connection took from the channel after the drain, also when   *)
(* it sends start_listening again.                                         *)
NoEventSwallowed ==
  \A c \in Conn :
    phase[c] = "select" /\ listening[c] /\ ~lagged[c] /\ cursor[c] > drained[c]
      => view[c] >= cursor[c]

(* A listening connection that stays open always catches up with what was  *)
(* published, also after its receiver was overtaken.                       *)
CatchesUp ==
  \A c \in Conn :
    listening[c] ~> (cursor[c] = published \/ phase[c] \in {"bye", "closed"})

(* After the shutdown signal every connection closes, listening or not and *)
(* however many events and commands are waiting for it.                    *)
ShutdownReachesAll ==
  \A c \in Conn : told ~> phase[c] \in {"out", "closed"}

(* ws.rs says that "the subscription effectively begins at                 *)
(* start_listening": with what it has been sent, a client whose receiver   *)
(* was never overtaken knows of everything its connection took from the    *)
(* channel.                                                                *)
SubscriptionHasNoGap ==
  \A c \in Conn :
    phase[c] = "select" /\ listening[c] /\ ~lagged[c] => view[c] >= cursor[c]

=============================================================================
