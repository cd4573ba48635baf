------------------------- MODULE WsConnectionProofs -------------------------
(* Theorems about WsConnection, for every number of connections, capacity  *)
(* of the channel and bound.                                               *)
EXTENDS WsConnection, TLAPS

-----------------------------------------------------------------------------
(* Type correctness.  The step from published to the set of its two values *)
(* is made once, here.                                                     *)

(* The parts of TypeOK a connection's own steps assign.                    *)
ConnTypeOK ==
  /\ phase \in [Conn -> Phases]
  /\ cursor \in [Conn -> 0..published]
  /\ listening \in [Conn -> BOOLEAN] /\ lagged \in [Conn -> BOOLEAN]
  /\ request \in [Conn -> {"none", "start_listening", "other"}]
  /\ frame \in [Conn -> NoView..changed]
  /\ view \in [Conn -> NoView..changed]
  /\ startMark \in [Conn -> 0..published] /\ drained \in [Conn -> 0..published]

(* The rest of it.                                                         *)
StateTypeOK ==
  /\ changed \in 0..MaxChanges /\ published \in {changed - 1, changed} \cap Nat
  /\ told \in BOOLEAN /\ main \in {"running", "draining", "stopping", "exited"}
  /\ received \in 0..MaxCommands

LEMMA TypeParts == TypeOK <=> ConnTypeOK /\ StateTypeOK
  BY DEF TypeOK, ConnTypeOK, StateTypeOK

(* What the versions are, in the form the steps below use.                 *)
LEMMA Versions ==
  ASSUME StateTypeOK
  PROVE  /\ changed \in Nat /\ published \in Nat
         /\ published <= changed /\ changed <= MaxChanges
  BY BoundsAssumption DEF StateTypeOK

(* A step of a connection leaves the versions alone.                       *)
ConnStep(c) ==
  \/ Connect(c)
  \/ \E r \in {"start_listening", "other"} : Receive(c, r)
  \/ Handles(c)
  \/ RecvEvent(c)
  \/ RecvLagged(c)
  \/ RecvShutdown(c)
  \/ ClientGone(c)

LEMMA ConnStepType ==
  ASSUME ConnTypeOK, StateTypeOK, NEW c \in Conn, ConnStep(c)
  PROVE  ConnTypeOK' /\ StateTypeOK'
<1> USE Versions, CapacityAssumption, BoundsAssumption
<1>1. CASE Connect(c)
  BY <1>1 DEF Connect, Goto, ConnTypeOK, StateTypeOK, stateVars, mainVars, Phases
<1>2. ASSUME NEW r \in {"start_listening", "other"}, Receive(c, r)
      PROVE  ConnTypeOK' /\ StateTypeOK'
  BY <1>2 DEF Receive, Goto, ConnTypeOK, StateTypeOK, stateVars, mainVars, Phases
<1>3. CASE InfoSent(c)
  BY <1>3 DEF InfoSent, Goto, ConnTypeOK, StateTypeOK, stateVars, mainVars, Phases
<1>4. CASE StartListening(c)
  BY <1>4 DEF StartListening, Goto, ConnTypeOK, StateTypeOK, stateVars, mainVars,
              Phases, NoView
<1>5. CASE OtherCommand(c)
  BY <1>5 DEF OtherCommand, Goto, ConnTypeOK, StateTypeOK, stateVars, mainVars, Phases
<1>6. CASE Drain(c)
  <2>1. cursor' \in [Conn -> 0..published]
    BY <1>6 DEF Drain, Take, Skip, Behind, ConnTypeOK
  <2>2. drained' \in [Conn -> 0..published]
    BY <1>6 DEF Drain, DrainedTo, Behind, ConnTypeOK
  <2>3. phase' \in [Conn -> Phases] /\ lagged' \in [Conn -> BOOLEAN]
    BY <1>6 DEF Drain, Skip, Goto, ConnTypeOK, Phases
  <2>4. QED
    BY <1>6, <2>1, <2>2, <2>3 DEF Drain, ConnTypeOK, StateTypeOK, stateVars, mainVars
<1>7. CASE Reply(c)
  BY <1>7 DEF Reply, Goto, ConnTypeOK, StateTypeOK, stateVars, mainVars, Phases, NoView
<1>8. CASE EventSent(c)
  BY <1>8 DEF EventSent, Goto, ConnTypeOK, StateTypeOK, stateVars, mainVars, Phases,
              NoView
<1>9. CASE ByeSent(c)
  BY <1>9 DEF ByeSent, Goto, ConnTypeOK, StateTypeOK, stateVars, mainVars, Phases
<1>10. CASE RecvEvent(c)
  BY <1>10 DEF RecvEvent, Take, Behind, Goto, ConnTypeOK, StateTypeOK, stateVars,
               mainVars, Phases, NoView
<1>11. CASE RecvLagged(c)
  BY <1>11 DEF RecvLagged, Skip, Behind, ConnTypeOK, StateTypeOK, stateVars, mainVars
<1>12. CASE RecvShutdown(c)
  BY <1>12 DEF RecvShutdown, Goto, ConnTypeOK, StateTypeOK, stateVars, mainVars, Phases
<1>13. CASE ClientGone(c)
  BY <1>13 DEF ClientGone, Goto, ConnTypeOK, StateTypeOK, stateVars, mainVars, Phases
<1>14. QED
  BY <1>1, <1>2, <1>3, <1>4, <1>5, <1>6, <1>7, <1>8, <1>9, <1>10, <1>11, <1>12, <1>13
     DEF ConnStep, Handles

LEMMA InitType == Init => TypeOK
<1> SUFFICES ASSUME Init PROVE ConnTypeOK /\ StateTypeOK
  BY TypeParts
<1>1. ConnTypeOK
  BY DEF Init, ConnTypeOK, Phases, NoView
<1>2. StateTypeOK
  <2>1. changed \in 0..MaxChanges /\ published \in {changed - 1, changed} \cap Nat
    BY BoundsAssumption DEF Init
  <2>2. told \in BOOLEAN
    BY Zenon DEF Init
  <2>3. received \in 0..MaxCommands
    BY BoundsAssumption DEF Init
  <2>4. QED
    BY <2>1, <2>2, <2>3, Zenon DEF Init, StateTypeOK
<1>3. QED
  BY <1>1, <1>2

LEMMA TypeStep == TypeOK /\ [Next]_vars => TypeOK'
<1> SUFFICES ASSUME ConnTypeOK, StateTypeOK, [Next]_vars
             PROVE  ConnTypeOK' /\ StateTypeOK'
  BY DEF TypeOK, ConnTypeOK, StateTypeOK
<1> USE Versions, BoundsAssumption
<1>1. CASE Change
  BY <1>1 DEF Change, ConnTypeOK, StateTypeOK, connVars, mainVars
<1>2. CASE Publish
  BY <1>2 DEF Publish, ConnTypeOK, StateTypeOK, connVars, mainVars
<1>3. ASSUME NEW c \in Conn, ConnStep(c)
      PROVE  ConnTypeOK' /\ StateTypeOK'
  BY <1>3, ConnStepType
<1>4. CASE Stop
  BY <1>4 DEF Stop, ConnTypeOK, StateTypeOK, connVars, stateVars
<1>5. CASE ListenersDrained
  BY <1>5 DEF ListenersDrained, ConnTypeOK, StateTypeOK, connVars, stateVars
<1>6. CASE Exit
  BY <1>6 DEF Exit, ConnTypeOK, StateTypeOK, stateVars, Phases
<1>7. CASE UNCHANGED vars
  BY <1>7 DEF vars, ConnTypeOK, StateTypeOK, connVars, stateVars, mainVars
<1>8. QED
  BY <1>1, <1>2, <1>3, <1>4, <1>5, <1>6, <1>7 DEF Next, ConnStep

(* Every variable keeps its type, for every number of connections and      *)
(* every capacity of the channel: no receiver's cursor runs ahead of what  *)
(* was published, and no client is told of a state that was never reached. *)
THEOREM TypeCorrect == Spec => []TypeOK
<1>1. QED
  BY InitType, TypeStep, PTL DEF Spec

-----------------------------------------------------------------------------
(* The inductive invariant, for one connection.                            *)

(* A client that is listening has the nodes, except while they are being   *)
(* fetched, drained and sent; a client that is not has nothing.            *)
HasNodes(c) ==
  /\ phase[c] \in {"out", "info"} => ~listening[c]
  /\ ~listening[c] => view[c] = NoView
  /\ phase[c] = "drain" => request[c] = "start_listening" /\ view[c] = NoView
  /\ phase[c] = "drain" \/ (phase[c] = "reply" /\ request[c] = "start_listening")
       => listening[c] /\ frame[c] # NoView
  /\ listening[c] /\ phase[c] \in {"select", "command", "reply", "event"}
       => view[c] # NoView \/ (phase[c] = "reply" /\ request[c] = "start_listening")

(* Once the first start_listening has drained the channel, the receiver is *)
(* past what was published before it, unless the channel overtook it.      *)
PastTheMark(c) ==
  /\ listening[c] /\ ~lagged[c] /\ phase[c] \in {"select", "command", "reply", "event"}
       => cursor[c] >= startMark[c]
  /\ phase[c] = "event" =>
       listening[c] /\ frame[c] = cursor[c] /\ (lagged[c] \/ frame[c] > startMark[c])

(* What the receiver took after that drain, the client knows or is being   *)
(* sent.                                                                   *)
TakenIsKnown(c) ==
  listening[c] /\ ~lagged[c] /\ cursor[c] > drained[c] =>
    /\ phase[c] \in {"select", "command"} => view[c] >= cursor[c]
    /\ phase[c] = "reply" =>
         IF request[c] = "start_listening" THEN frame[c] >= cursor[c]
                                           ELSE view[c] >= cursor[c]

ConnInv == \A c \in Conn : HasNodes(c) /\ PastTheMark(c) /\ TakenIsKnown(c)

LEMMA InitConn == Init => ConnInv
  BY DEF Init, ConnInv, HasNodes, PastTheMark, TakenIsKnown, NoView

(* A connection that no step of the system touches keeps the invariant.    *)
LEMMA SameConn ==
  ASSUME NEW c \in Conn, HasNodes(c), PastTheMark(c), TakenIsKnown(c),
         phase'[c] = phase[c], cursor'[c] = cursor[c], listening'[c] = listening[c],
         request'[c] = request[c], frame'[c] = frame[c], view'[c] = view[c],
         startMark'[c] = startMark[c], drained'[c] = drained[c], lagged'[c] = lagged[c]
  PROVE  HasNodes(c)' /\ PastTheMark(c)' /\ TakenIsKnown(c)'
  BY DEF HasNodes, PastTheMark, TakenIsKnown

(* A connection whose task has ended has nothing left to keep but this.    *)
LEMMA EndedConn ==
  ASSUME NEW c \in Conn, HasNodes(c), phase'[c] \in {"bye", "closed"},
         listening'[c] = listening[c], view'[c] = view[c]
  PROVE  HasNodes(c)' /\ PastTheMark(c)' /\ TakenIsKnown(c)'
  BY DEF HasNodes, PastTheMark, TakenIsKnown

(* A step of the connection c leaves the others alone.                     *)
LEMMA OthersKeep ==
  ASSUME ConnTypeOK, NEW c \in Conn, ConnStep(c), NEW d \in Conn, d # c
  PROVE  /\ phase'[d] = phase[d] /\ cursor'[d] = cursor[d]
         /\ listening'[d] = listening[d] /\ request'[d] = request[d]
         /\ frame'[d] = frame[d] /\ view'[d] = view[d]
         /\ startMark'[d] = startMark[d] /\ drained'[d] = drained[d]
         /\ lagged'[d] = lagged[d]
  BY DEF ConnTypeOK, ConnStep, Handles, Connect, Receive, InfoSent, StartListening,
         OtherCommand, Drain, DrainedTo, Take, Skip, Reply, EventSent, ByeSent,
         RecvEvent, RecvLagged, RecvShutdown, ClientGone, Goto

(* What c's own step makes of it.                                          *)
LEMMA OwnStep ==
  ASSUME ConnTypeOK, StateTypeOK, NEW c \in Conn, ConnStep(c),
         HasNodes(c), PastTheMark(c), TakenIsKnown(c)
  PROVE  HasNodes(c)' /\ PastTheMark(c)' /\ TakenIsKnown(c)'
<1> USE Versions, CapacityAssumption DEF ConnTypeOK, HasNodes, PastTheMark, TakenIsKnown,
                                         NoView
<1>1. CASE Connect(c)
  BY <1>1 DEF Connect, Goto
<1>2. ASSUME NEW r \in {"start_listening", "other"}, Receive(c, r)
      PROVE  HasNodes(c)' /\ PastTheMark(c)' /\ TakenIsKnown(c)'
  BY <1>2 DEF Receive, Goto
<1>3. CASE InfoSent(c)
  BY <1>3 DEF InfoSent, Goto
<1>4. CASE StartListening(c)
  BY <1>4 DEF StartListening, Goto, stateVars
<1>5. CASE OtherCommand(c)
  BY <1>5 DEF OtherCommand, Goto
<1>6. CASE Drain(c)
  BY <1>6 DEF Drain, DrainedTo, Take, Skip, Goto
<1>7. CASE Reply(c)
  BY <1>7 DEF Reply, Goto
<1>8. CASE EventSent(c)
  BY <1>8 DEF EventSent, Goto
<1>9. CASE ByeSent(c)
  BY <1>9, EndedConn DEF ByeSent, Goto
<1>10. CASE RecvEvent(c)
  BY <1>10 DEF RecvEvent, Take, Goto
<1>11. CASE RecvLagged(c)
  BY <1>11 DEF RecvLagged, Skip
<1>12. CASE RecvShutdown(c)
  BY <1>12, EndedConn DEF RecvShutdown, Goto
<1>13. CASE ClientGone(c)
  BY <1>13, EndedConn DEF ClientGone, Goto
<1>14. QED
  BY <1>1, <1>2, <1>3, <1>4, <1>5, <1>6, <1>7, <1>8, <1>9, <1>10, <1>11, <1>12, <1>13
     DEF ConnStep, Handles

LEMMA ConnInvStep == TypeOK /\ ConnInv /\ [Next]_vars => ConnInv'
<1> SUFFICES ASSUME ConnTypeOK, StateTypeOK, ConnInv, [Next]_vars,
                    NEW d \in Conn
             PROVE  HasNodes(d)' /\ PastTheMark(d)' /\ TakenIsKnown(d)'
  BY TypeParts DEF ConnInv
<1>d. HasNodes(d) /\ PastTheMark(d) /\ TakenIsKnown(d)
  BY DEF ConnInv
<1>1. CASE UNCHANGED connVars
  BY <1>1, <1>d, SameConn DEF connVars
<1>2. ASSUME NEW c \in Conn, ConnStep(c)
      PROVE  HasNodes(d)' /\ PastTheMark(d)' /\ TakenIsKnown(d)'
  <2>1. CASE d = c
    BY <1>2, <1>d, <2>1, OwnStep
  <2>2. CASE d # c
    BY <1>2, <1>d, <2>2, OthersKeep, SameConn
  <2>3. QED
    BY <2>1, <2>2
<1>3. CASE Exit
  BY <1>3, <1>d, EndedConn DEF Exit
<1>4. QED
  BY <1>1, <1>2, <1>3 DEF Next, ConnStep, Change, Publish, Stop, ListenersDrained, vars

(* The invariant holds of every connection, whatever the others do.        *)
THEOREM ConnInvariant == Spec => []ConnInv
<1>1. QED
  BY InitConn, ConnInvStep, TypeCorrect, PTL DEF Spec

(* Whatever the order of the client's frames, the controller's events and  *)
(* the sends, no client is sent an event before the answer to its          *)
(* start_listening, nor, unless its receiver was overtaken, one that was   *)
(* published before the nodes of that answer were read.                    *)
THEOREM EventsAfterNodes == Spec => []EventsComeAfterNodes
<1>1. ConnInv => EventsComeAfterNodes
  BY DEF ConnInv, HasNodes, PastTheMark, EventsComeAfterNodes
<1>2. QED
  BY <1>1, ConnInvariant, PTL

(* A listening client whose receiver was not overtaken has been sent, or   *)
(* has the nodes of, every event its connection took after the drain of    *)
(* the first start_listening: a second start_listening swallows none.      *)
THEOREM NothingSwallowed == Spec => []NoEventSwallowed
<1>1. ConnInv => NoEventSwallowed
  BY DEF ConnInv, TakenIsKnown, NoEventSwallowed
<1>2. QED
  BY <1>1, ConnInvariant, PTL

=============================================================================
