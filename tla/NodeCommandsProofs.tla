------------------------- MODULE NodeCommandsProofs -------------------------
(* Theorems about NodeCommands, for every value of its constants.          *)
EXTENDS NodeCommands, NodeManagerProofs, FiniteSetTheorems, WellFoundedInduction

-----------------------------------------------------------------------------
(* What a command may rely on at each of its steps.                        *)
HoldsSnapshot == {"interviewSave", "interviewSend", "commissionSave",
                  "commissionData", "commissionSend"}

LocalsInv ==
  \A c \in Client :
    /\ step[c] = "idle" => target[c] = 0
    /\ step[c] # "idle" => target[c] \in Node
    /\ step[c] \in HoldsSnapshot => held[c] \in NodeSnapshot

(* The registry and the disk hold finitely many nodes.                     *)
FiniteInv == IsFiniteSet(known) /\ IsFiniteSet(files)

(* Every id the program works with was handed out before.                  *)
IssuedInv ==
  /\ known \cup files \cup dropped \subseteq issued
  /\ \A c \in Client : step[c] # "idle" => target[c] \in issued
  /\ cur # Idle => cur.node \in issued

(* next_node_id is beyond every id handed out, and config.json knows.      *)
CounterInv ==
  \/ configUnsaved
  \/ /\ savedNextNodeId = nextNodeId
     /\ \A n \in issued : n < nextNodeId
     /\ reissued = {}

(* The node that is joining is in nobody else's hands.                     *)
Joining(c) == step[c] \in {"commission", "commissionInterview"}

FreshInv ==
  \A c \in Client :
    Joining(c) /\ target[c] \notin reissued =>
      /\ target[c] \notin known \cup dropped
      /\ \A d \in Client \ {c} : target[d] # target[c]

(* A node whose file is about to be deleted is out of the registry, and    *)
(* one about to be announced as added is on disk.                          *)
FileInv ==
  /\ \A c \in Client : step[c] = "removeFile" => target[c] \in dropped
  /\ \A c \in Client :
       step[c] \in {"commissionData", "commissionSend"} /\ target[c] \in known =>
         target[c] \in files \cup unsaved \cup reissued
  /\ added \subseteq known
  /\ added \subseteq files \cup unsaved \cup reissued

-----------------------------------------------------------------------------
(* The parts of the inductive invariant that say what kind of thing each   *)
(* variable holds.                                                         *)
Types == TypeOK /\ CommandsTypeOK /\ LocalsInv

(* The commands that leave the node manager's variables alone.             *)
ManagerIdle(c) ==
  \/ \E n \in Node : InterviewNode(c, n) \/ RemoveNode(c, n)
  \/ InterviewRecord(c) \/ InterviewData(c)
  \/ Commission(c) \/ CommissionFails(c) \/ CommissionJoins(c)
  \/ CommissionInterviewFails(c) \/ CommissionData(c) \/ CommissionStart(c)

LEMMA ManagerIdleStep ==
  ASSUME NEW c \in Client, ManagerIdle(c)
  PROVE  UNCHANGED vars
  BY DEF ManagerIdle, InterviewNode, RemoveNode, InterviewRecord, InterviewData,
     Commission, CommissionFails, CommissionJoins, CommissionInterviewFails,
     CommissionData, CommissionStart

LEMMA SameManagerType ==
  ASSUME TypeOK, UNCHANGED vars
  PROVE  TypeOK'
  BY NextType

LEMMA ManagerNext ==
  ASSUME CommandsTypeOK, Manager
  PROVE  Next
  BY DEF Manager, Next, CommandsTypeOK

(* Writing a node file, announcing a node: what every command that does so *)
(* leaves of the manager's types.                                          *)
LEMMA WriteFileType ==
  ASSUME TypeOK, NEW n \in Node, NEW a \in Attrs, WriteFile(n, a),
         UNCHANGED <<registryVars, busVars, managerVars>>
  PROVE  TypeOK'
<1>1. /\ files' \subseteq Node /\ file' \in [Node -> Attrs] /\ unsaved' \subseteq Node
  BY DEF WriteFile, TypeOK
<1>2. QED
  BY <1>1 DEF TypeOK, ControlOK, registryVars, busVars, managerVars, timerVars, localVars,
     stackVars

LEMMA PublishType ==
  ASSUME TypeOK, NEW n \in Node, NEW s \in NodeSnapshot, Publish(n, s),
         UNCHANGED <<registryVars, storageVars, managerVars>>
  PROVE  TypeOK'
<1>1. s.attributes \in Attrs
  BY DEF NodeSnapshot
<1>2. /\ seen' \subseteq Node /\ seenAvailable' \subseteq seen'
      /\ seenAttrs' \in [Node -> Attrs] /\ eventLog' = eventLog
  BY <1>1 DEF Publish, TypeOK
<1>3. QED
  BY <1>2 DEF TypeOK, ControlOK, registryVars, storageVars, managerVars, timerVars,
     localVars, stackVars

LEMMA RegistryType ==
  ASSUME TypeOK, known' \subseteq Node, available' \subseteq known',
         attrs' \in [Node -> Attrs], UNCHANGED <<storageVars, busVars, managerVars>>
  PROVE  TypeOK'
  BY DEF TypeOK, ControlOK, storageVars, busVars, managerVars, timerVars, localVars,
     stackVars

LEMMA CommandManagerType ==
  ASSUME Types, NEW c \in Client, Commands(c)
  PROVE  TypeOK'
<1> USE DEF Types
<1>0. step[c] # "idle" => target[c] \in Node
  BY DEF LocalsInv
<1>1. CASE ManagerIdle(c)
  BY <1>1, ManagerIdleStep, SameManagerType
<1>2. CASE InterviewDone(c)
  <2>1. attrs' \in [Node -> Attrs]
    BY <1>0, <1>2 DEF InterviewDone, At, TypeOK
  <2>2. QED
    BY <1>2, <2>1, RegistryType DEF InterviewDone, TypeOK
<1>3. CASE InterviewSave(c) \/ CommissionSave(c)
  <2>1. held[c] \in NodeSnapshot /\ target[c] \in Node
    BY <1>3 DEF InterviewSave, CommissionSave, At, LocalsInv, HoldsSnapshot
  <2>2. held[c].attributes \in Attrs
    BY <2>1 DEF NodeSnapshot
  <2>3. QED
    BY <1>3, <2>1, <2>2, WriteFileType DEF InterviewSave, CommissionSave
<1>4. CASE InterviewSend(c) \/ CommissionSend(c)
  <2>1. held[c] \in NodeSnapshot /\ target[c] \in Node
    BY <1>4 DEF InterviewSend, CommissionSend, At, LocalsInv, HoldsSnapshot
  <2>2. QED
    BY <1>4, <2>1, PublishType DEF InterviewSend, CommissionSend
<1>5. CASE RemoveEntry(c)
  <2>1. known' \subseteq Node /\ available' \subseteq known' /\ attrs' = attrs
    BY <1>5 DEF RemoveEntry, TypeOK
  <2>2. QED
    BY <1>5, <2>1, RegistryType DEF RemoveEntry, TypeOK
<1>6. CASE RemoveFile(c)
  <2>1. /\ files' \subseteq Node /\ unsaved' \subseteq Node
        /\ UNCHANGED <<registryVars, file, busVars, managerVars>>
    BY <1>0, <1>6 DEF RemoveFile, At, TypeOK
  <2>2. QED
    BY <2>1 DEF TypeOK, ControlOK, registryVars, busVars, managerVars, timerVars, localVars,
       stackVars
<1>7. CASE RemoveSend(c)
  <2>1. /\ seen' \subseteq Node /\ seenAvailable' \subseteq seen'
        /\ UNCHANGED <<registryVars, storageVars, managerVars, seenAttrs, eventLog>>
    BY <1>7 DEF RemoveSend, TypeOK
  <2>2. QED
    BY <2>1 DEF TypeOK, ControlOK, registryVars, storageVars, managerVars, timerVars,
       localVars, stackVars
<1>8. CASE CommissionInsert(c)
  <2>1. target[c] \in Node
    BY <1>0, <1>8 DEF CommissionInsert, At
  <2>2. known' \subseteq Node /\ available' \subseteq known' /\ attrs' \in [Node -> Attrs]
    BY <1>8, <2>1 DEF CommissionInsert, TypeOK
  <2>3. QED
    BY <1>8, <2>2, RegistryType DEF CommissionInsert
<1>9. QED
  BY <1>1, <1>2, <1>3, <1>4, <1>5, <1>6, <1>7, <1>8 DEF Commands, ManagerIdle

LEMMA RestartManagerType ==
  ASSUME TypeOK, Restart
  PROVE  TypeOK'
<1>1. ControlOK'
  BY DEF Restart, ControlOK, Idle
<1>2. /\ known' \subseteq Node /\ available' \subseteq known' /\ attrs' \in [Node -> Attrs]
      /\ files' \subseteq Node /\ file' \in [Node -> Attrs] /\ unsaved' \subseteq Node
      /\ seen' \subseteq Node /\ seenAvailable' \subseteq seen'
      /\ seenAttrs' \in [Node -> Attrs]
  BY DEF Restart, TypeOK
<1>3. /\ rx' \in Seq(StackEvent) /\ closed' \in BOOLEAN /\ graceRx' \in Seq(TimerTask)
      /\ history' \in Seq(Payload) /\ eventLog' \in Seq(Payload)
      /\ sleeping' \subseteq TimerTask
  <2>1. /\ rx' = <<>> /\ closed' = FALSE /\ graceRx' = <<>> /\ history' = <<>>
        /\ eventLog' = <<>> /\ sleeping' = {}
    BY DEF Restart
  <2>2. <<>> \in Seq(StackEvent) /\ <<>> \in Seq(TimerTask) /\ <<>> \in Seq(Payload)
    BY EmptySeq
  <2>3. QED
    BY <2>1, <2>2, Zenon
<1>4. /\ graceTimers' \in [Node -> Nat] /\ nextTimer' \in Nat \ {0}
      /\ budget' \in [Kinds -> Nat]
      /\ link' \in [Node -> {"none", "Connected", "Reconnecting"}]
  BY DEF Restart, TypeOK
<1>5. /\ pc' \in Pcs /\ cur' \in StackEvent \cup GraceExpired \cup {Idle}
      /\ idx' \in Nat \ {0} /\ snap' \in NodeSnapshot \cup {NoSnapshot}
  BY DEF Restart, Pcs
<1>6. QED
  BY <1>1, <1>2, <1>3, <1>4, <1>5 DEF TypeOK

-----------------------------------------------------------------------------
(* The commands' own variables.                                            *)

(* A client moves from one step to another, neither or both of them under  *)
(* alloc_lock, with a node and a snapshot as the new step needs them.      *)
LEMMA ClientMoves ==
  ASSUME CommandsTypeOK, LocalsInv, NEW c \in Client, NEW l \in Steps,
         Become(c, l), l # "idle", allocLock' = allocLock,
         l \in Commissioning <=> step[c] \in Commissioning,
         target' = target, target[c] \in Node,
         \/ held' = held /\ (l \in HoldsSnapshot => held[c] \in NodeSnapshot)
         \/ \E s \in NodeSnapshot : held' = [held EXCEPT ![c] = s]
  PROVE  /\ step' \in [Client -> Steps]
         /\ target' \in [Client -> Node \cup {0}]
         /\ held' \in [Client -> NodeSnapshot \cup {NoSnapshot}]
         /\ \A d \in Client : step'[d] \in Commissioning <=> allocLock' = d
         /\ LocalsInv'
  BY DEF CommandsTypeOK, LocalsInv, Become

(* A command answers; a commissioning gives alloc_lock back.               *)
LEMMA ClientAnswers ==
  ASSUME CommandsTypeOK, LocalsInv, NEW c \in Client, Answer(c),
         IF step[c] \in Commissioning THEN allocLock' = Free ELSE allocLock' = allocLock
  PROVE  /\ step' \in [Client -> Steps]
         /\ target' \in [Client -> Node \cup {0}]
         /\ held' \in [Client -> NodeSnapshot \cup {NoSnapshot}]
         /\ allocLock' \in Client \cup {Free}
         /\ \A d \in Client : step'[d] \in Commissioning <=> allocLock' = d
         /\ LocalsInv'
<1>1. "idle" \in Steps /\ "idle" \notin Commissioning /\ "idle" \notin HoldsSnapshot
  BY DEF Steps, Commissioning, HoldsSnapshot
<1>2. /\ step' \in [Client -> Steps]
      /\ \A d \in Client : step'[d] = IF d = c THEN "idle" ELSE step[d]
  BY <1>1 DEF CommandsTypeOK, Answer
<1>3. \A d \in Client : step'[d] \in Commissioning <=> allocLock' = d
  BY <1>1, <1>2, ClientAssumption DEF CommandsTypeOK
<1>4. LocalsInv'
  BY <1>1, <1>2 DEF CommandsTypeOK, LocalsInv, Answer
<1>5. QED
  BY <1>2, <1>3, <1>4 DEF CommandsTypeOK, Answer

(* What a step leaves alone of the types that are not the clients'.        *)
OtherTypes ==
  /\ started \in 0..MaxCommands
  /\ nextNodeId \in Nat /\ savedNextNodeId \in Nat
  /\ bootRead \in BOOLEAN /\ boot \subseteq Node
  /\ requests \in Seq(SupervisorRequest) /\ supervised \subseteq Node
  /\ restarts \in 0..MaxRestarts
  /\ issued \cup reissued \cup added \cup dropped \cup removed \subseteq Node
  /\ configUnsaved \in BOOLEAN

ClientTypes ==
  /\ step \in [Client -> Steps]
  /\ target \in [Client -> Node \cup {0}]
  /\ held \in [Client -> NodeSnapshot \cup {NoSnapshot}]
  /\ allocLock \in Client \cup {Free}
  /\ \A c \in Client : step[c] \in Commissioning <=> allocLock = c

LEMMA TypesApart ==
  /\ CommandsTypeOK <=> OtherTypes /\ ClientTypes
  /\ CommandsTypeOK' <=> OtherTypes' /\ ClientTypes'
  BY DEF CommandsTypeOK, OtherTypes, ClientTypes

(* Between two steps of one command.                                       *)
LEMMA MovesType ==
  ASSUME Types, NEW c \in Client,
         \/ InterviewRecord(c) \/ InterviewSave(c) \/ RemoveEntry(c) \/ RemoveFile(c)
         \/ CommissionJoins(c) \/ CommissionInsert(c) \/ CommissionSave(c)
         \/ CommissionSend(c)
         \/ InterviewDone(c) /\ Become(c, "interviewRecord")
         \/ InterviewData(c) /\ target[c] \in known
         \/ CommissionData(c) /\ target[c] \in known
  PROVE  ClientTypes' /\ LocalsInv'
<1> USE DEF Types
<1>1. step[c] # "idle" /\ target[c] \in Node
  BY DEF InterviewRecord, InterviewSave, RemoveEntry, RemoveFile, CommissionJoins,
     CommissionInsert, CommissionSave, CommissionSend, InterviewDone, InterviewData,
     CommissionData, At, LocalsInv
<1>2. Snapshot(target[c]) \in NodeSnapshot
  BY <1>1, SnapshotType
<1>3. \A a \in Attrs : [available |-> FALSE, attributes |-> a] \in NodeSnapshot
  BY DEF NodeSnapshot
<1> USE DEF Commissioning, HoldsSnapshot, Steps
<1>4. CASE InterviewRecord(c)
  <2>1. CASE target[c] \in known
    BY <1>1, <1>2, <1>4, <2>1, ClientMoves DEF InterviewRecord, At, HoldSnapshot, idVars,
       ClientTypes, CommandsTypeOK
  <2>2. CASE target[c] \notin known
    BY <1>1, <1>4, <2>2, ClientMoves DEF InterviewRecord, At, idVars, ClientTypes,
       CommandsTypeOK
  <2>3. QED
    BY <2>1, <2>2
<1>5. CASE InterviewSave(c)
  BY <1>1, <1>5, ClientMoves DEF InterviewSave, At, idVars, ClientTypes, CommandsTypeOK
<1>6. CASE RemoveEntry(c)
  BY <1>1, <1>6, ClientMoves DEF RemoveEntry, At, idVars, ClientTypes, CommandsTypeOK
<1>7. CASE RemoveFile(c)
  BY <1>1, <1>7, ClientMoves DEF RemoveFile, At, idVars, ClientTypes, CommandsTypeOK
<1>8. CASE CommissionJoins(c)
  BY <1>1, <1>8, ClientMoves DEF CommissionJoins, At, idVars, ClientTypes, CommandsTypeOK
<1>9. CASE CommissionInsert(c)
  BY <1>1, <1>3, <1>9, ClientMoves DEF CommissionInsert, At, idVars, ClientTypes,
     CommandsTypeOK
<1>10. CASE CommissionSave(c)
  BY <1>1, <1>10, ClientMoves DEF CommissionSave, At, idVars, ClientTypes,
     CommandsTypeOK, LocalsInv
<1>11. CASE CommissionSend(c)
  BY <1>1, <1>11, ClientMoves DEF CommissionSend, At, idVars, ClientTypes, CommandsTypeOK
<1>12. CASE InterviewDone(c) /\ Become(c, "interviewRecord")
  <2>1. step[c] = "interview" /\ step'[c] # "idle"
    BY <1>12 DEF InterviewDone, At, Become, CommandsTypeOK
  <2>2. UNCHANGED <<target, held, allocLock>>
    BY <1>12, <2>1 DEF InterviewDone, Answer, CommandsTypeOK, idVars
  <2>3. QED
    BY <1>1, <1>12, <2>1, <2>2, ClientMoves DEF ClientTypes, CommandsTypeOK
<1>13. CASE InterviewData(c) /\ target[c] \in known
  BY <1>1, <1>2, <1>13, ClientMoves DEF InterviewData, At, HoldSnapshot, idVars,
     ClientTypes, CommandsTypeOK
<1>14. CASE CommissionData(c) /\ target[c] \in known
  BY <1>1, <1>2, <1>14, ClientMoves DEF CommissionData, At, HoldSnapshot, idVars,
     ClientTypes, CommandsTypeOK
<1>15. QED
  BY <1>4, <1>5, <1>6, <1>7, <1>8, <1>9, <1>10, <1>11, <1>12, <1>13, <1>14

LEMMA AnswersType ==
  ASSUME Types, NEW c \in Client,
         \/ InterviewDone(c) /\ Answer(c)
         \/ InterviewData(c) /\ target[c] \notin known
         \/ InterviewSend(c) \/ RemoveSend(c)
         \/ CommissionFails(c) \/ CommissionInterviewFails(c) \/ CommissionStart(c)
         \/ CommissionData(c) /\ target[c] \notin known
  PROVE  ClientTypes' /\ LocalsInv'
<1> USE DEF Types
<1>1. Answer(c)
  BY DEF InterviewData, InterviewSend, RemoveSend, CommissionFails,
     CommissionInterviewFails, CommissionStart, CommissionData
<1>2. IF step[c] \in Commissioning THEN allocLock' = Free ELSE allocLock' = allocLock
  BY DEF InterviewDone, InterviewData, InterviewSend, RemoveSend, CommissionFails,
     CommissionInterviewFails, CommissionStart, CommissionData, At, idVars, Commissioning
<1>3. QED
  BY <1>1, <1>2, ClientAnswers DEF ClientTypes

(* A command begins; a commissioning takes alloc_lock.                     *)
LEMMA BeginsType ==
  ASSUME Types, NEW c \in Client, NEW n \in Node, NEW l \in Steps \ {"idle"},
         Begin(c, l, n), l \notin HoldsSnapshot,
         IF l \in Commissioning THEN allocLock = Free /\ allocLock' = c
         ELSE allocLock' = allocLock
  PROVE  ClientTypes' /\ LocalsInv' /\ started' \in 0..MaxCommands
<1> USE DEF Types
<1>1. step[c] = "idle" /\ "idle" \notin Commissioning
  BY DEF Begin, Commissioning
<1>2. /\ step' \in [Client -> Steps] /\ target' \in [Client -> Node \cup {0}]
      /\ \A d \in Client : step'[d] = IF d = c THEN l ELSE step[d]
      /\ \A d \in Client : target'[d] = IF d = c THEN n ELSE target[d]
      /\ held' = held
  BY DEF Begin, Become, CommandsTypeOK
<1>3. \A d \in Client : step'[d] \in Commissioning <=> allocLock' = d
  BY <1>1, <1>2, ClientAssumption DEF CommandsTypeOK
<1>4. LocalsInv'
  BY <1>2 DEF LocalsInv
<1>5. started' \in 0..MaxCommands
  BY CommandsAssumption DEF Begin, CommandsTypeOK
<1>6. QED
  BY <1>2, <1>3, <1>4, <1>5 DEF ClientTypes, CommandsTypeOK

LEMMA AppendRequestType ==
  ASSUME requests \in Seq(SupervisorRequest), NEW n \in Node, NEW o \in {"start", "stop"},
         requests' = Append(requests, [op |-> o, node |-> n])
  PROVE  requests' \in Seq(SupervisorRequest)
<1>1. [op |-> o, node |-> n] \in SupervisorRequest
  BY DEF SupervisorRequest
<1>2. QED
  BY <1>1, AppendType

LEMMA CommandTypes ==
  ASSUME Types, NEW c \in Client, Commands(c)
  PROVE  CommandsTypeOK' /\ LocalsInv'
<1> USE DEF Types
<1>0. OtherTypes /\ ClientTypes /\ (step[c] # "idle" => target[c] \in Node)
  BY TypesApart DEF LocalsInv
<1> SUFFICES OtherTypes' /\ ClientTypes' /\ LocalsInv'
  BY TypesApart
<1>1. CASE \E n \in Node : InterviewNode(c, n)
  <2>1. PICK n \in Node : InterviewNode(c, n)
    BY <1>1
  <2>2. ClientTypes' /\ LocalsInv' /\ started' \in 0..MaxCommands
    BY <2>1, BeginsType DEF InterviewNode, idVars, Commissioning, HoldsSnapshot, Steps
  <2>3. QED
    BY <1>0, <2>1, <2>2 DEF InterviewNode, OtherTypes, idVars, bootVars, thread, ghostVars
<1>2. CASE \E n \in Node : RemoveNode(c, n)
  <2>1. PICK n \in Node : RemoveNode(c, n)
    BY <1>2
  <2>2. ClientTypes' /\ LocalsInv' /\ started' \in 0..MaxCommands
    BY <2>1, BeginsType DEF RemoveNode, idVars, Commissioning, HoldsSnapshot, Steps
  <2>3. requests' \in Seq(SupervisorRequest)
    BY <1>0, <2>1, AppendRequestType DEF RemoveNode, OtherTypes
  <2>4. QED
    BY <1>0, <2>1, <2>2, <2>3 DEF RemoveNode, OtherTypes, idVars, bootVars, ghostVars
<1>3. CASE Commission(c)
  <2>1. Candidate \in Node /\ Candidate + 1 \in Nat
    BY <1>3, NodeAssumption DEF Commission
  <2>2. ClientTypes' /\ LocalsInv' /\ started' \in 0..MaxCommands
    BY <1>3, <2>1, BeginsType DEF Commission, Commissioning, HoldsSnapshot, Steps
  <2> HIDE DEF Types
  <2>3. nextNodeId' \in Nat /\ savedNextNodeId' \in Nat /\ configUnsaved' \in BOOLEAN
    BY <1>0, <1>3, <2>1 DEF Commission, OtherTypes
  <2>4. QED
    BY <1>0, <1>3, <2>1, <2>2, <2>3 DEF Commission, OtherTypes, bootVars, thread, ghostVars
<1>4. CASE InterviewDone(c)
  <2>1. ClientTypes' /\ LocalsInv'
    BY <1>4, MovesType, AnswersType DEF InterviewDone
  <2>2. QED
    BY <1>0, <1>4, <2>1 DEF InterviewDone, At, OtherTypes, idVars, bootVars, thread, ghostVars
<1>5. CASE InterviewRecord(c) \/ InterviewSave(c) \/ InterviewData(c) \/ InterviewSend(c)
  <2>1. ClientTypes' /\ LocalsInv'
    BY <1>5, MovesType, AnswersType
  <2>2. QED
    BY <1>0, <1>5, <2>1 DEF InterviewRecord, InterviewSave, InterviewData, InterviewSend, At,
       OtherTypes, idVars, bootVars, thread, ghostVars
<1>6. CASE RemoveEntry(c) \/ RemoveFile(c) \/ RemoveSend(c)
  <2>1. ClientTypes' /\ LocalsInv' /\ target[c] \in Node
    BY <1>0, <1>6, MovesType, AnswersType DEF RemoveEntry, RemoveFile, RemoveSend, At
  <2>2. QED
    BY <1>0, <1>6, <2>1 DEF RemoveEntry, RemoveFile, RemoveSend, At, OtherTypes, idVars,
       bootVars, thread, ghostVars
<1>7. CASE CommissionFails(c) \/ CommissionJoins(c) \/ CommissionInterviewFails(c)
           \/ CommissionInsert(c) \/ CommissionSave(c) \/ CommissionData(c)
  <2>1. ClientTypes' /\ LocalsInv'
    BY <1>7, MovesType, AnswersType
  <2>2. QED
    BY <1>0, <1>7, <2>1 DEF CommissionFails, CommissionJoins, CommissionInterviewFails,
       CommissionInsert, CommissionSave, CommissionData, At, OtherTypes, idVars,
       bootVars, thread, ghostVars
<1>8. CASE CommissionSend(c)
  <2>1. ClientTypes' /\ LocalsInv' /\ target[c] \in Node
    BY <1>0, <1>8, MovesType DEF CommissionSend, At
  <2>2. QED
    BY <1>0, <1>8, <2>1 DEF CommissionSend, At, OtherTypes, idVars, bootVars, thread
<1>9. CASE CommissionStart(c)
  <2>1. ClientTypes' /\ LocalsInv' /\ target[c] \in Node
    BY <1>0, <1>9, AnswersType DEF CommissionStart, At
  <2>2. requests' \in Seq(SupervisorRequest)
    BY <1>0, <1>9, <2>1, AppendRequestType DEF CommissionStart, OtherTypes
  <2>3. QED
    BY <1>0, <1>9, <2>1, <2>2 DEF CommissionStart, At, OtherTypes, bootVars, ghostVars
<1>10. QED
  BY <1>1, <1>2, <1>3, <1>4, <1>5, <1>6, <1>7, <1>8, <1>9 DEF Commands

(* The start-up task and the stack thread.                                 *)
LEMMA ThreadTypes ==
  ASSUME Types, BootReads \/ (\E n \in boot : BootStarts(n)) \/ ServeRequest
  PROVE  Types'
<1> USE DEF Types
<1>1. TypeOK' /\ LocalsInv' /\ ClientTypes'
  <2>1. UNCHANGED <<vars, clientVars, idVars>>
    BY DEF BootReads, BootStarts, ServeRequest
  <2>2. QED
    BY <2>1, SameManagerType, TypesApart DEF LocalsInv, ClientTypes, clientVars, idVars
<1>2. OtherTypes'
  <2>1. OtherTypes
    BY TypesApart
  <2>2. CASE BootReads
    BY <2>1, <2>2 DEF BootReads, OtherTypes, TypeOK, clientVars, idVars, thread, ghostVars
  <2>3. CASE \E n \in boot : BootStarts(n)
    <3>1. PICK n \in boot : BootStarts(n)
      BY <2>3
    <3>2. requests' \in Seq(SupervisorRequest)
      BY <2>1, <3>1, AppendRequestType DEF BootStarts, OtherTypes
    <3>3. QED
      BY <2>1, <3>1, <3>2 DEF BootStarts, OtherTypes, clientVars, idVars, ghostVars
  <2>4. CASE ServeRequest
    <3>1. Head(requests) \in SupervisorRequest /\ Tail(requests) \in Seq(SupervisorRequest)
      BY <2>1, <2>4, QueueTypes DEF ServeRequest, OtherTypes
    <3>2. Head(requests).node \in Node
      BY <3>1 DEF SupervisorRequest
    <3>3. QED
      BY <2>1, <2>4, <3>1, <3>2 DEF ServeRequest, OtherTypes, clientVars, idVars, bootVars,
         ghostVars
  <2>5. QED
    BY <2>2, <2>3, <2>4
<1>3. QED
  BY <1>1, <1>2, TypesApart

LEMMA RestartTypes ==
  ASSUME Types, Restart
  PROVE  Types'
<1> USE DEF Types
<1>1. TypeOK'
  BY RestartManagerType
<1>2. ClientTypes' /\ LocalsInv'
  <2>1. "idle" \in Steps \ Commissioning /\ "idle" \notin HoldsSnapshot
    BY DEF Steps, Commissioning, HoldsSnapshot
  <2>2. \A c \in Client : step'[c] = "idle"
    BY DEF Restart
  <2>3. QED
    BY <2>1, <2>2, ClientAssumption DEF Restart, ClientTypes, LocalsInv
<1>3. OtherTypes'
  <2>1. OtherTypes
    BY TypesApart
  <2>2. requests' \in Seq(SupervisorRequest)
    BY DEF Restart
  <2>3. restarts' \in 0..MaxRestarts
    BY <2>1, CommandsAssumption DEF Restart, OtherTypes
  <2>4. QED
    BY <2>1, <2>2, <2>3 DEF Restart, OtherTypes
<1>4. QED
  BY <1>1, <1>2, <1>3, TypesApart

LEMMA NextTypes ==
  ASSUME Types, [CommandsNext]_allVars
  PROVE  Types'
<1>1. CASE UNCHANGED allVars
  <2>1. UNCHANGED <<vars, cmdVars>>
    BY <1>1 DEF allVars
  <2>2. QED
    BY <2>1, SameManagerType DEF Types, CommandsTypeOK, LocalsInv, cmdVars, clientVars,
       idVars, bootVars, thread, ghostVars
<1>2. CASE Manager
  <2>1. TypeOK'
    BY <1>2, ManagerNext, NextType DEF Types
  <2>2. QED
    BY <1>2, <2>1 DEF Manager, Types, CommandsTypeOK, LocalsInv, cmdVars, clientVars,
       idVars, bootVars, thread, ghostVars
<1>3. CASE \E c \in Client : Commands(c)
  BY <1>3, CommandManagerType, CommandTypes DEF Types
<1>4. QED
  BY <1>1, <1>2, <1>3, ThreadTypes, RestartTypes DEF CommandsNext

LEMMA InitTypes ==
  ASSUME CommandsInit
  PROVE  Types
<1>1. TypeOK
  BY InitType DEF CommandsInit
<1>2. known \subseteq Nat /\ nextNodeId \in Nat
  BY <1>1, NodeAssumption DEF CommandsInit, TypeOK
<1>3. ClientTypes /\ LocalsInv
  <2>1. "idle" \in Steps \ Commissioning /\ "idle" \notin HoldsSnapshot
    BY DEF Steps, Commissioning, HoldsSnapshot
  <2>2. QED
    BY <2>1, ClientAssumption DEF CommandsInit, ClientTypes, LocalsInv
<1>4. OtherTypes
  <2>1. 0 \in 0..MaxCommands /\ 0 \in 0..MaxRestarts
    BY CommandsAssumption
  <2>2. requests \in Seq(SupervisorRequest)
    BY EmptySeq DEF CommandsInit
  <2>3. known \subseteq Node
    BY <1>1 DEF TypeOK
  <2>4. QED
    BY <1>2, <2>1, <2>2, <2>3 DEF CommandsInit, OtherTypes
<1>5. QED
  BY <1>1, <1>3, <1>4, TypesApart DEF Types

-----------------------------------------------------------------------------
(* allocate_node_id.  With k nodes and the controller's own id in use, one *)
(* of k + 2 consecutive ids is free; the first free one is the candidate.  *)

LEMMA LeastNatural ==
  ASSUME NEW S, S \subseteq Nat, S # {}
  PROVE  \E x \in S : \A y \in S : x <= y
<1> DEFINE Less == {p \in Nat \X Nat : p[1] < p[2]}
<1>1. IsWellFoundedOn(Less, Nat)
  BY NatLessThanWellFounded DEF OpToRel
<1>2. \A x, y \in Nat : y < x => <<y, x>> \in Less
  OBVIOUS
<1> HIDE DEF Less
<1>3. PICK x \in S : \A y \in S : ~(<<y, x>> \in Less)
  BY <1>1, WFMin
<1>4. ASSUME NEW y \in S
      PROVE  x <= y
  <2>1. x \in Nat /\ y \in Nat /\ ~(<<y, x>> \in Less)
    BY <1>3, <1>4
  <2>2. ~(y < x)
    BY <1>2, <2>1
  <2>3. QED
    BY <2>1, <2>2
<1>5. QED
  BY <1>3, <1>4

LEMMA FreeIdExists ==
  ASSUME NEW k \in Nat, NEW S, IsFiniteSet(S)
  PROVE  \E n \in k..(k + Cardinality(S) + 1) : n \notin S /\ n # ControllerNodeId
<1> DEFINE U == S \cup {ControllerNodeId}
           R == k..(k + Cardinality(S) + 1)
<1>1. Cardinality(S) \in Nat
  BY FS_CardinalityType
<1>2. IsFiniteSet(U) /\ Cardinality(U) <= Cardinality(S) + 1
  BY <1>1, FS_AddElement
<1>3. Cardinality(R) = Cardinality(S) + 2
  BY <1>1, FS_Interval
<1> HIDE DEF U, R
<1>4. ~(R \subseteq U)
  <2>1. R \subseteq U => Cardinality(R) <= Cardinality(U)
    BY <1>2, FS_Subset
  <2>2. Cardinality(U) \in Nat
    BY <1>2, FS_CardinalityType
  <2>3. QED
    BY <1>1, <1>2, <1>3, <2>1, <2>2
<1>5. QED
  BY <1>4 DEF U, R

LEMMA CandidateIsFree ==
  ASSUME nextNodeId \in Nat, IsFiniteSet(known)
  PROVE  /\ Candidate \in Nat /\ Candidate >= nextNodeId
         /\ Candidate \notin known /\ Candidate # ControllerNodeId
<1> DEFINE R == Start..(Start + Cardinality(known) + 1)
           F == {n \in R : ~InUse(n)}
           P(n) == ~InUse(n) /\ \A m \in Start..(n - 1) : InUse(m)
<1>1. Start \in Nat /\ Start >= nextNodeId /\ Cardinality(known) \in Nat
  BY FS_CardinalityType DEF Start
<1>2. F # {} /\ F \subseteq Nat
  <2>1. \E n \in R : n \notin known /\ n # ControllerNodeId
    BY <1>1, FreeIdExists
  <2>2. R \subseteq Nat
    BY <1>1
  <2>3. QED
    BY <2>1, <2>2 DEF InUse
<1>3. PICK x \in F : \A y \in F : x <= y
  BY <1>2, LeastNatural
<1>4. x \in R /\ P(x)
  <2>1. ASSUME NEW m \in Start..(x - 1)
        PROVE  InUse(m)
    <3>1. x \in R /\ m \in R /\ m < x
      BY <1>1, <1>3, <2>1
    <3>2. m \notin F
      BY <1>1, <1>3, <3>1
    <3>3. QED
      BY <3>1, <3>2
  <2>2. QED
    BY <1>3, <2>1
<1>5. Candidate = CHOOSE n \in R : P(n)
  BY DEF Candidate
<1> HIDE DEF P, R
<1>6. Candidate \in R /\ P(Candidate)
  BY <1>4, <1>5
<1>7. QED
  BY <1>1, <1>6 DEF P, R, InUse

-----------------------------------------------------------------------------
(* The ids in use.                                                         *)
Ids == FiniteInv /\ IssuedInv /\ CounterInv /\ FreshInv /\ DroppedStaysGone

(* A step by which no id is handed out and no node joins or leaves.        *)
QuietStep ==
  /\ UNCHANGED <<known, dropped, issued, reissued, nextNodeId, savedNextNodeId,
                 configUnsaved>>
  /\ \/ files' \subseteq files
     \/ \E n \in issued : files' = files \cup {n}
  /\ cur' = cur \/ cur' = Idle \/ cur'.node \in issued
  /\ \A c \in Client : step'[c] # "idle" => target'[c] \in issued
  /\ \A c \in Client : target'[c] \in {target[c], 0} \cup known
  /\ \A c \in Client : Joining(c)' => Joining(c) /\ target'[c] = target[c]

LEMMA QuietStepIds ==
  ASSUME Types, Ids, QuietStep
  PROVE  Ids'
<1> USE DEF Types, Ids
<1>1. FiniteInv'
  <2>1. CASE files' \subseteq files
    BY <2>1, FS_Subset DEF FiniteInv, QuietStep
  <2>2. CASE \E n \in issued : files' = files \cup {n}
    BY <2>2, FS_AddElement DEF FiniteInv, QuietStep
  <2>3. QED
    BY <2>1, <2>2 DEF QuietStep
<1>2. IssuedInv'
  BY DEF IssuedInv, QuietStep
<1>3. CounterInv'
  BY DEF CounterInv, QuietStep
<1>4. FreshInv'
  <2> SUFFICES ASSUME NEW c \in Client, Joining(c)', target'[c] \notin reissued'
               PROVE  /\ target'[c] \notin known' \cup dropped'
                      /\ \A d \in Client \ {c} : target'[d] # target'[c]
    BY DEF FreshInv, Joining
  <2>1. /\ Joining(c) /\ target'[c] = target[c]
        /\ UNCHANGED <<known, dropped, reissued>>
    BY DEF QuietStep
  <2>2. /\ target[c] \notin known \cup dropped
        /\ \A d \in Client \ {c} : target[d] # target[c]
    BY <2>1 DEF FreshInv
  <2>3. target[c] # 0
    BY <2>1, NodeAssumption DEF LocalsInv, Joining
  <2>4. ASSUME NEW d \in Client \ {c}
        PROVE  target'[d] # target'[c]
    <3>1. target'[d] \in {target[d], 0} \cup known
      BY <2>4 DEF QuietStep
    <3>2. QED
      BY <2>1, <2>2, <2>3, <2>4, <3>1
  <2>5. QED
    BY <2>1, <2>2, <2>4
<1>5. DroppedStaysGone'
  BY DEF DroppedStaysGone, QuietStep
<1>6. QED
  BY <1>1, <1>2, <1>3, <1>4, <1>5

(* What the node manager does to the files and to the node in hand.        *)
LEMMA ManagerWrites ==
  ASSUME TypeOK, [Next]_vars
  PROVE  /\ known' = known
         /\ UNCHANGED <<files, unsaved>> \/ (pc = "save" /\ \E a : WriteFile(cur.node, a))
         /\ cur' = cur \/ cur' = Idle \/ cur'.node \in known
<1>1. CASE UNCHANGED vars \/ StackGone \/ (\E t \in sleeping : TimerFires(t))
           \/ (\E n \in Node : StackReports(n))
  BY <1>1, OutsideSteps DEF registryVars, storageVars, localVars
<1>2. CASE RecvEvent \/ RecvClosed
  BY <1>2 DEF RecvEvent, RecvClosed, registryVars, storageVars, localVars
<1>3. CASE HandleGraceExpiry
  BY <1>3 DEF HandleGraceExpiry, storageVars, localVars, TypeOK
<1>4. CASE HandleConnected \/ HandleReconnecting \/ HandlePrimingSnapshot \/ HandleChange
  BY <1>4 DEF HandleConnected, HandleReconnecting, HandlePrimingSnapshot, HandleChange,
     Goto, Return, registryVars, storageVars
<1>5. CASE AnnounceChange \/ HandleNodeEvent \/ BroadcastNodeEvent
  BY <1>5 DEF AnnounceChange, HandleNodeEvent, BroadcastNodeEvent, Goto, Return,
     registryVars, storageVars
<1>6. CASE Persist \/ EmitNodeUpdated \/ SendNodeUpdated
  BY <1>6 DEF Persist, EmitNodeUpdated, SendNodeUpdated, AfterPersist, Return,
     registryVars, storageVars
<1>7. CASE SaveNode
  <2>1. pc = "save" /\ WriteFile(cur.node, snap.attributes) /\ known' = known
    BY <1>7 DEF SaveNode, registryVars
  <2>2. cur' = cur \/ cur' = Idle
    BY <1>7 DEF SaveNode, AfterPersist, Return
  <2>3. QED
    BY <2>1, <2>2
<1>8. QED
  BY <1>1, <1>2, <1>3, <1>4, <1>5, <1>6, <1>7 DEF Next, Consumer

LEMMA ManagerQuiet ==
  ASSUME Types, Ids, Manager \/ UNCHANGED allVars
  PROVE  QuietStep
<1> USE DEF Types, Ids
<1>1. /\ known' = known
      /\ UNCHANGED <<files, unsaved>> \/ (pc = "save" /\ \E a : WriteFile(cur.node, a))
      /\ cur' = cur \/ cur' = Idle \/ cur'.node \in known
  BY ManagerNext, ManagerWrites DEF allVars
<1>2. UNCHANGED <<step, target, dropped, issued, reissued, nextNodeId, savedNextNodeId,
                  configUnsaved>>
  BY DEF Manager, allVars, cmdVars, clientVars, idVars, ghostVars
<1>3. pc = "save" => cur.node \in issued
  BY DEF TypeOK, ControlOK, IssuedInv
<1>4. files' \subseteq files \/ \E n \in issued : files' = files \cup {n}
  BY <1>1, <1>3 DEF WriteFile
<1>5. QED
  BY <1>1, <1>2, <1>4 DEF QuietStep, IssuedInv, Joining

(* What the steps of a command do to where the clients are.                *)
LEMMA BecomeStep ==
  ASSUME Types, NEW c \in Client, NEW l, Become(c, l)
  PROVE  \A d \in Client : step'[d] = IF d = c THEN l ELSE step[d]
  BY DEF Types, CommandsTypeOK, Become

LEMMA AnswerStep ==
  ASSUME Types, NEW c \in Client, Answer(c)
  PROVE  \A d \in Client : /\ step'[d] = IF d = c THEN "idle" ELSE step[d]
                           /\ target'[d] = IF d = c THEN 0 ELSE target[d]
  BY DEF Types, CommandsTypeOK, Answer

LEMMA BeginStep ==
  ASSUME Types, NEW c \in Client, NEW l, NEW n, Begin(c, l, n)
  PROVE  \A d \in Client : /\ step'[d] = IF d = c THEN l ELSE step[d]
                           /\ target'[d] = IF d = c THEN n ELSE target[d]
  BY DEF Types, CommandsTypeOK, Begin, Become

(* The ids and the registry's key set, which most commands leave alone.    *)
keyVars == <<known, dropped, issued, reissued, nextNodeId, savedNextNodeId, configUnsaved>>

LEMMA QuietBegin ==
  ASSUME Types, Ids, NEW c \in Client, NEW l, NEW n \in known, Begin(c, l, n),
         l \notin {"commission", "commissionInterview"}, UNCHANGED <<keyVars, files, cur>>
  PROVE  QuietStep
<1>1. \A d \in Client : /\ step'[d] = IF d = c THEN l ELSE step[d]
                        /\ target'[d] = IF d = c THEN n ELSE target[d]
  BY BeginStep
<1>2. n \in issued
  BY DEF Ids, IssuedInv
<1>3. QED
  BY <1>1, <1>2 DEF QuietStep, keyVars, Ids, IssuedInv, Joining

LEMMA QuietMove ==
  ASSUME Types, Ids, NEW c \in Client, NEW l, Become(c, l), target' = target,
         l \in {"commission", "commissionInterview"} => Joining(c), step[c] # "idle",
         UNCHANGED <<keyVars, cur>>,
         files' \subseteq files \/ files' = files \cup {target[c]}
  PROVE  QuietStep
<1>1. \A d \in Client : step'[d] = IF d = c THEN l ELSE step[d]
  BY BecomeStep
<1>2. target[c] \in issued
  BY DEF Ids, IssuedInv
<1>3. \A d \in Client : target'[d] \in {target[d], 0} \cup known
  OBVIOUS
<1>4. QED
  BY <1>1, <1>2, <1>3 DEF QuietStep, keyVars, Ids, IssuedInv, Joining

LEMMA QuietAnswer ==
  ASSUME Types, Ids, NEW c \in Client, Answer(c), UNCHANGED <<keyVars, files, cur>>
  PROVE  QuietStep
<1>1. \A d \in Client : /\ step'[d] = IF d = c THEN "idle" ELSE step[d]
                        /\ target'[d] = IF d = c THEN 0 ELSE target[d]
  BY AnswerStep
<1>2. QED
  BY <1>1 DEF QuietStep, keyVars, Ids, IssuedInv, Joining

LEMMA QuietCommands ==
  ASSUME Types, Ids, NEW c \in Client, Commands(c),
         ~Commission(c), ~RemoveEntry(c), ~CommissionInsert(c)
  PROVE  QuietStep
<1> USE DEF keyVars
<1>1. CASE \E n \in Node : InterviewNode(c, n) \/ RemoveNode(c, n)
  <2>1. PICK n \in Node : InterviewNode(c, n) \/ RemoveNode(c, n)
    BY <1>1
  <2>2. n \in known /\ (Begin(c, "interview", n) \/ Begin(c, "removeFabric", n))
    BY <2>1 DEF InterviewNode, RemoveNode
  <2>3. UNCHANGED <<keyVars, files, cur>>
    BY <2>1 DEF InterviewNode, RemoveNode, vars, registryVars, storageVars, localVars,
       idVars, ghostVars
  <2>4. QED
    BY <2>2, <2>3, QuietBegin
<1>2. CASE InterviewDone(c)
  <2>1. UNCHANGED <<keyVars, files, cur>> /\ step[c] # "idle"
    BY <1>2 DEF InterviewDone, At, storageVars, managerVars, localVars, idVars, ghostVars
  <2>2. Answer(c) \/ (Become(c, "interviewRecord") /\ target' = target)
    BY <1>2 DEF InterviewDone
  <2>3. QED
    BY <2>1, <2>2, QuietAnswer, QuietMove
<1>3. CASE InterviewRecord(c)
  <2>1. UNCHANGED <<keyVars, files, cur, target>> /\ step[c] # "idle"
    BY <1>3 DEF InterviewRecord, At, HoldSnapshot, vars, registryVars, storageVars,
       localVars, idVars, ghostVars
  <2>2. Become(c, "interviewSave") \/ Become(c, "interviewData")
    BY <1>3 DEF InterviewRecord, HoldSnapshot
  <2>3. QED
    BY <2>1, <2>2, QuietMove
<1>4. CASE InterviewSave(c) \/ CommissionSave(c)
  <2>1. UNCHANGED <<keyVars, cur, target>> /\ step[c] # "idle"
    BY <1>4 DEF InterviewSave, CommissionSave, At, registryVars, managerVars, localVars,
       idVars, ghostVars
  <2>2. Become(c, "interviewData") \/ Become(c, "commissionData")
    BY <1>4 DEF InterviewSave, CommissionSave
  <2>3. files' \subseteq files \/ files' = files \cup {target[c]}
    BY <1>4 DEF InterviewSave, CommissionSave, WriteFile
  <2>4. QED
    BY <2>1, <2>2, <2>3, QuietMove
<1>5. CASE InterviewData(c) \/ CommissionData(c)
  <2>1. UNCHANGED <<keyVars, files, cur>> /\ step[c] # "idle"
    BY <1>5 DEF InterviewData, CommissionData, At, vars, registryVars, storageVars,
       localVars, idVars, ghostVars
  <2>2. \/ Answer(c)
        \/ Become(c, "interviewSend") /\ target' = target
        \/ Become(c, "commissionSend") /\ target' = target
    BY <1>5 DEF InterviewData, CommissionData, HoldSnapshot
  <2>3. QED
    BY <2>1, <2>2, QuietAnswer, QuietMove
<1>6. CASE InterviewSend(c) \/ RemoveSend(c)
  <2>1. UNCHANGED <<keyVars, files, cur>> /\ Answer(c)
    BY <1>6 DEF InterviewSend, RemoveSend, registryVars, storageVars, managerVars,
       localVars, idVars, ghostVars
  <2>2. QED
    BY <2>1, QuietAnswer
<1>7. CASE RemoveFile(c)
  <2>1. /\ UNCHANGED <<keyVars, cur, target>> /\ step[c] # "idle"
        /\ Become(c, "removeSend") /\ files' \subseteq files
    BY <1>7 DEF RemoveFile, At, registryVars, managerVars, localVars, idVars, ghostVars
  <2>2. QED
    BY <2>1, QuietMove
<1>8. CASE CommissionFails(c) \/ CommissionInterviewFails(c) \/ CommissionStart(c)
  <2>1. UNCHANGED <<keyVars, files, cur>> /\ Answer(c)
    BY <1>8 DEF CommissionFails, CommissionInterviewFails, CommissionStart, vars,
       registryVars, storageVars, localVars, ghostVars
  <2>2. QED
    BY <2>1, QuietAnswer
<1>9. CASE CommissionJoins(c)
  <2>1. /\ UNCHANGED <<keyVars, files, cur, target>> /\ step[c] = "commission"
        /\ Become(c, "commissionInterview")
    BY <1>9 DEF CommissionJoins, At, vars, registryVars, storageVars, localVars, idVars,
       ghostVars
  <2>2. QED
    BY <2>1, QuietMove DEF Joining
<1>10. CASE CommissionSend(c)
  <2>1. /\ UNCHANGED <<keyVars, files, cur, target>> /\ step[c] # "idle"
        /\ Become(c, "commissionStart")
    BY <1>10 DEF CommissionSend, At, registryVars, storageVars, managerVars, localVars,
       idVars
  <2>2. QED
    BY <2>1, QuietMove
<1>11. QED
  BY <1>1, <1>2, <1>3, <1>4, <1>5, <1>6, <1>7, <1>8, <1>9, <1>10 DEF Commands

(* A node leaves the registry: whoever is joining has another node.        *)
LEMMA RemoveEntryIds ==
  ASSUME Types, Ids, NEW c \in Client, RemoveEntry(c)
  PROVE  Ids'
<1> USE DEF Types, Ids
<1>1. /\ step[c] = "removeFabric" /\ known' = known \ {target[c]}
      /\ dropped' = dropped \cup {target[c]}
      /\ UNCHANGED <<files, cur, target, issued, reissued, nextNodeId, savedNextNodeId,
                     configUnsaved>>
  BY DEF RemoveEntry, At, storageVars, managerVars, localVars, idVars
<1>2. \A d \in Client : step'[d] = IF d = c THEN "removeFile" ELSE step[d]
  BY BecomeStep DEF RemoveEntry
<1>3. target[c] \in issued
  BY <1>1 DEF IssuedInv
<1>4. FiniteInv'
  BY <1>1, FS_RemoveElement DEF FiniteInv
<1>5. IssuedInv'
  BY <1>1, <1>2, <1>3 DEF IssuedInv
<1>6. CounterInv'
  BY <1>1 DEF CounterInv
<1>7. FreshInv'
  <2> SUFFICES ASSUME NEW d \in Client, Joining(d)', target[d] \notin reissued
               PROVE  /\ target[d] \notin known' \cup dropped'
                      /\ \A e \in Client \ {d} : target[e] # target[d]
    BY <1>1 DEF FreshInv, Joining
  <2>1. Joining(d) /\ d # c
    BY <1>2 DEF Joining
  <2>2. /\ target[d] \notin known \cup dropped
        /\ \A e \in Client \ {d} : target[e] # target[d]
    BY <2>1 DEF FreshInv
  <2>3. QED
    BY <1>1, <2>1, <2>2
<1>8. DroppedStaysGone'
  BY <1>1 DEF DroppedStaysGone
<1>9. QED
  BY <1>4, <1>5, <1>6, <1>7, <1>8

(* An id is handed out that nobody had, unless a write of config.json      *)
(* failed before.                                                          *)
LEMMA CommissionIds ==
  ASSUME Types, Ids, NEW c \in Client, Commission(c)
  PROVE  Ids'
<1> USE DEF Types, Ids
<1> DEFINE n == Candidate
<1>1. /\ n \in Nat /\ n >= nextNodeId /\ n \notin known /\ nextNodeId \in Nat
  BY CandidateIsFree DEF CommandsTypeOK, FiniteInv
<1>2. /\ n \in Node /\ nextNodeId' = n + 1 /\ allocLock = Free
      /\ reissued' = reissued \cup ({n} \cap issued) /\ issued' = issued \cup {n}
      /\ \/ savedNextNodeId' = nextNodeId' /\ configUnsaved' = configUnsaved
         \/ configUnsaved' = TRUE
      /\ UNCHANGED <<known, files, cur, dropped>>
  BY DEF Commission, vars, registryVars, storageVars, localVars, ghostVars
<1>3. \A d \in Client : /\ step'[d] = IF d = c THEN "commission" ELSE step[d]
                        /\ target'[d] = IF d = c THEN n ELSE target[d]
  BY BeginStep DEF Commission
<1> HIDE DEF n
<1>4. FiniteInv'
  BY <1>2 DEF FiniteInv
<1>5. IssuedInv'
  BY <1>2, <1>3 DEF IssuedInv
<1>6. CounterInv'
  <2>1. CASE configUnsaved'
    BY <2>1 DEF CounterInv
  <2>2. CASE ~configUnsaved'
    <3>1. ~configUnsaved /\ savedNextNodeId' = nextNodeId'
      BY <1>2, <2>2
    <3>2. (\A m \in issued : m < nextNodeId) /\ reissued = {}
      BY <3>1 DEF CounterInv
    <3>3. n \notin issued
      BY <1>1, <3>2
    <3>4. \A m \in issued' : m < nextNodeId'
      <4>1. \A m \in issued : m \in Nat /\ m < nextNodeId
        BY <3>2, NodeAssumption DEF CommandsTypeOK
      <4>2. QED
        BY <1>1, <1>2, <4>1
    <3>5. QED
      BY <1>2, <3>1, <3>2, <3>3, <3>4 DEF CounterInv
  <2>3. QED
    BY <2>1, <2>2
<1>7. FreshInv'
  <2> SUFFICES ASSUME NEW d \in Client, Joining(d)', target'[d] \notin reissued'
               PROVE  /\ target'[d] \notin known \cup dropped
                      /\ \A e \in Client \ {d} : target'[e] # target'[d]
    BY <1>2 DEF FreshInv, Joining
  <2>1. d = c
    BY <1>2, <1>3, ClientAssumption DEF CommandsTypeOK, Joining, Commissioning
  <2>2. n \notin issued
    BY <1>2, <1>3, <2>1
  <2>3. n \notin known \cup dropped
    BY <2>2 DEF IssuedInv
  <2>4. \A e \in Client \ {c} : target[e] # n
    <3>1. ASSUME NEW e \in Client, target[e] = n
          PROVE  FALSE
      <4>1. step[e] = "idle"
        BY <2>2, <3>1 DEF IssuedInv
      <4>2. QED
        BY <1>2, <3>1, <4>1, NodeAssumption DEF LocalsInv
    <3>2. QED
      BY <3>1
  <2>5. QED
    BY <1>3, <2>1, <2>3, <2>4
<1>8. DroppedStaysGone'
  BY <1>2 DEF DroppedStaysGone
<1>9. QED
  BY <1>4, <1>5, <1>6, <1>7, <1>8

(* The device joined: its node enters the registry.                        *)
LEMMA CommissionInsertIds ==
  ASSUME Types, Ids, NEW c \in Client, CommissionInsert(c)
  PROVE  Ids'
<1> USE DEF Types, Ids
<1>1. /\ step[c] = "commissionInterview" /\ known' = known \cup {target[c]}
      /\ UNCHANGED <<files, cur, target, dropped, issued, reissued, nextNodeId,
                     savedNextNodeId, configUnsaved>>
  BY DEF CommissionInsert, At, storageVars, managerVars, localVars, idVars, ghostVars
<1>2. \A d \in Client : step'[d] = IF d = c THEN "commissionSave" ELSE step[d]
  BY BecomeStep DEF CommissionInsert
<1>3. target[c] \in issued
  BY <1>1 DEF IssuedInv
<1>4. target[c] \notin reissued => target[c] \notin dropped
  BY <1>1 DEF FreshInv, Joining
<1>5. FiniteInv'
  BY <1>1, FS_AddElement DEF FiniteInv
<1>6. IssuedInv'
  BY <1>1, <1>2, <1>3 DEF IssuedInv
<1>7. CounterInv'
  BY <1>1 DEF CounterInv
<1>8. FreshInv'
  <2>1. \A d \in Client : ~Joining(d)'
    BY <1>1, <1>2 DEF CommandsTypeOK, Joining, Commissioning
  <2>2. QED
    BY <2>1 DEF FreshInv, Joining
<1>9. DroppedStaysGone'
  BY <1>1, <1>4 DEF DroppedStaysGone
<1>10. QED
  BY <1>5, <1>6, <1>7, <1>8, <1>9

(* After a restart the counter is the one config.json holds.               *)
LEMMA RestartIds ==
  ASSUME Types, Ids, Restart
  PROVE  Ids'
<1> USE DEF Types, Ids
<1>1. /\ known' = files /\ dropped' = {} /\ cur' = Idle /\ nextNodeId' = savedNextNodeId
      /\ UNCHANGED <<files, issued, reissued, savedNextNodeId, configUnsaved>>
      /\ \A c \in Client : step'[c] = "idle"
  BY DEF Restart
<1>2. FiniteInv'
  BY <1>1 DEF FiniteInv
<1>3. IssuedInv'
  BY <1>1 DEF IssuedInv
<1>4. CounterInv'
  BY <1>1 DEF CounterInv
<1>5. FreshInv'
  BY <1>1 DEF FreshInv, Joining
<1>6. DroppedStaysGone'
  BY <1>1 DEF DroppedStaysGone
<1>7. QED
  BY <1>2, <1>3, <1>4, <1>5, <1>6

LEMMA ThreadQuiet ==
  ASSUME Types, Ids, BootReads \/ (\E n \in boot : BootStarts(n)) \/ ServeRequest
  PROVE  QuietStep
<1>1. UNCHANGED <<vars, clientVars, idVars, ghostVars>>
  BY DEF BootReads, BootStarts, ServeRequest
<1>2. QED
  BY <1>1 DEF QuietStep, vars, registryVars, storageVars, localVars, clientVars, idVars,
     ghostVars, Ids, IssuedInv, Joining

LEMMA NextIds ==
  ASSUME Types, Ids, [CommandsNext]_allVars
  PROVE  Ids'
<1>1. CASE \E c \in Client : Commands(c)
  BY <1>1, QuietCommands, QuietStepIds, CommissionIds, RemoveEntryIds, CommissionInsertIds
<1>2. QED
  BY <1>1, ManagerQuiet, ThreadQuiet, QuietStepIds, RestartIds DEF CommandsNext

LEMMA InitIds ==
  ASSUME CommandsInit
  PROVE  Ids
<1>1. files \in Provisioned /\ known = files /\ cur = Idle
  BY DEF CommandsInit, Init
<1>2. FiniteInv
  BY <1>1, FilesAssumption DEF FiniteInv
<1>3. IssuedInv
  BY <1>1 DEF CommandsInit, IssuedInv
<1>4. CounterInv
  BY DEF CommandsInit, CounterInv
<1>5. FreshInv /\ DroppedStaysGone
  BY DEF CommandsInit, FreshInv, Joining, DroppedStaysGone
<1>6. QED
  BY <1>2, <1>3, <1>4, <1>5 DEF Ids

(* Every variable of the commands keeps its type, the ids stay finite and  *)
(* handed out, whatever the clients, the node manager, the start-up task   *)
(* and the stack thread interleave and wherever the process restarts.      *)
THEOREM CommandsTypeCorrect == CommandsSpec => [](TypeOK /\ CommandsTypeOK)
<1>1. CommandsInit => Types
  BY InitTypes
<1>2. Types /\ [CommandsNext]_allVars => Types'
  BY NextTypes
<1>3. Types => TypeOK /\ CommandsTypeOK
  BY DEF Types
<1>4. QED
  BY <1>1, <1>2, <1>3, PTL DEF CommandsSpec

(* allocate_node_id never hands out an id twice, across removals, failed   *)
(* commissionings and restarts, as long as config.json could be written.   *)
THEOREM IdsAreFresh == CommandsSpec => []NodeIdsAreFresh
<1>1. CommandsInit => Types /\ Ids
  BY InitTypes, InitIds
<1>2. Types /\ Ids /\ [CommandsNext]_allVars => (Types /\ Ids)'
  BY NextTypes, NextIds
<1>3. Ids => NodeIdsAreFresh
  BY DEF Ids, CounterInv, NodeIdsAreFresh
<1>4. QED
  BY <1>1, <1>2, <1>3, PTL DEF CommandsSpec

(* A node taken out of the registry does not come back before a restart,   *)
(* whatever interview, report or commissioning was under way, unless its   *)
(* id was handed out a second time.                                        *)
THEOREM RemovalsLast == CommandsSpec => []DroppedStaysGone
<1>1. CommandsInit => Types /\ Ids
  BY InitTypes, InitIds
<1>2. Types /\ Ids /\ [CommandsNext]_allVars => (Types /\ Ids)'
  BY NextTypes, NextIds
<1>3. Ids => DroppedStaysGone
  BY DEF Ids
<1>4. QED
  BY <1>1, <1>2, <1>3, PTL DEF CommandsSpec

-----------------------------------------------------------------------------
(* The files of the nodes that were announced as added.                    *)

Announcing == {"commissionData", "commissionSend"}

OnDisk(n) == n \in files \cup unsaved \cup reissued

(* A step that announces and removes nothing and loses no file.            *)
LEMMA FilesStay ==
  ASSUME FileInv, UNCHANGED <<known, dropped, added>>,
         files \cup unsaved \subseteq files' \cup unsaved', reissued \subseteq reissued',
         \A c \in Client : step'[c] = "removeFile" =>
           step[c] = "removeFile" /\ target'[c] = target[c],
         \A c \in Client : step'[c] \in Announcing =>
           \/ step[c] \in Announcing /\ target'[c] = target[c]
           \/ target'[c] \in files' \cup unsaved' \cup reissued'
  PROVE  FileInv'
<1>1. \A n : OnDisk(n) => OnDisk(n)'
  BY DEF OnDisk
<1>2. \A c \in Client : step'[c] = "removeFile" => target'[c] \in dropped'
  BY DEF FileInv
<1>3. ASSUME NEW c \in Client, step'[c] \in Announcing, target'[c] \in known'
      PROVE  target'[c] \in files' \cup unsaved' \cup reissued'
  BY <1>1, <1>3 DEF FileInv, Announcing, OnDisk
<1>4. added' \subseteq known' /\ added' \subseteq files' \cup unsaved' \cup reissued'
  BY DEF FileInv
<1>5. QED
  BY <1>2, <1>3, <1>4 DEF FileInv, Announcing, OnDisk

LEMMA WriteFileKeeps ==
  ASSUME NEW n, NEW a, WriteFile(n, a)
  PROVE  /\ files \cup unsaved \subseteq files' \cup unsaved'
         /\ n \in files' \cup unsaved'
  BY DEF WriteFile

LEMMA ManagerFiles ==
  ASSUME Types, FileInv, Manager \/ UNCHANGED allVars
  PROVE  FileInv'
<1>1. known' = known /\ files \cup unsaved \subseteq files' \cup unsaved'
  <2>1. /\ known' = known
        /\ UNCHANGED <<files, unsaved>> \/ (pc = "save" /\ \E a : WriteFile(cur.node, a))
    BY ManagerNext, ManagerWrites DEF allVars, Types
  <2>2. QED
    BY <2>1, WriteFileKeeps
<1>2. UNCHANGED <<step, target, dropped, added, reissued>>
  BY DEF Manager, allVars, cmdVars, clientVars, idVars, ghostVars
<1>3. QED
  BY <1>1, <1>2, FilesStay

LEMMA ThreadFiles ==
  ASSUME FileInv, BootReads \/ (\E n \in boot : BootStarts(n)) \/ ServeRequest
  PROVE  FileInv'
<1>1. UNCHANGED <<vars, clientVars, idVars, ghostVars>>
  BY DEF BootReads, BootStarts, ServeRequest
<1>2. QED
  BY <1>1 DEF FileInv, vars, registryVars, storageVars, clientVars, idVars, ghostVars

(* The commands that neither write nor announce nor remove.                *)
LEMMA CommandFilesStay ==
  ASSUME Types, FileInv, NEW c \in Client,
         \/ \E n \in Node : InterviewNode(c, n) \/ RemoveNode(c, n)
         \/ InterviewDone(c) \/ InterviewRecord(c) \/ InterviewData(c) \/ InterviewSend(c)
         \/ RemoveSend(c) \/ Commission(c) \/ CommissionFails(c) \/ CommissionJoins(c)
         \/ CommissionInterviewFails(c) \/ CommissionData(c) \/ CommissionStart(c)
  PROVE  FileInv'
<1>1. UNCHANGED <<known, dropped, added, files, unsaved>> /\ reissued \subseteq reissued'
  BY DEF InterviewNode, RemoveNode, InterviewDone, InterviewRecord, InterviewData,
     InterviewSend, RemoveSend, Commission, CommissionFails, CommissionJoins,
     CommissionInterviewFails, CommissionData, CommissionStart, vars, registryVars,
     storageVars, idVars, ghostVars
<1>2. \/ Answer(c)
      \/ \E l, n : Begin(c, l, n) /\ l \in {"interview", "removeFabric", "commission"}
      \/ \E l : /\ Become(c, l) /\ target' = target
                /\ l \in {"interviewRecord", "interviewSave", "interviewData",
                          "interviewSend", "commissionInterview"}
      \/ step[c] \in Announcing /\ Become(c, "commissionSend") /\ target' = target
  <2>1. CASE \E n \in Node : InterviewNode(c, n) \/ RemoveNode(c, n)
    BY <2>1 DEF InterviewNode, RemoveNode
  <2>2. CASE InterviewDone(c) \/ InterviewRecord(c) \/ InterviewData(c) \/ InterviewSend(c)
    BY <2>2 DEF InterviewDone, InterviewRecord, InterviewData, InterviewSend, HoldSnapshot
  <2>3. CASE RemoveSend(c) \/ CommissionFails(c) \/ CommissionInterviewFails(c)
             \/ CommissionStart(c)
    BY <2>3 DEF RemoveSend, CommissionFails, CommissionInterviewFails, CommissionStart
  <2>4. CASE Commission(c)
    BY <2>4 DEF Commission
  <2>5. CASE CommissionJoins(c) \/ CommissionData(c)
    BY <2>5 DEF CommissionJoins, CommissionData, At, HoldSnapshot, Announcing
  <2>6. QED
    BY <2>1, <2>2, <2>3, <2>4, <2>5
<1>3. ASSUME NEW d \in Client
      PROVE  /\ step'[d] = "removeFile" => step[d] = "removeFile" /\ target'[d] = target[d]
             /\ step'[d] \in Announcing => step[d] \in Announcing /\ target'[d] = target[d]
  <2>1. CASE Answer(c)
    BY <1>3, <2>1, AnswerStep DEF Announcing
  <2>2. CASE \E l, n : Begin(c, l, n) /\ l \in {"interview", "removeFabric", "commission"}
    BY <1>3, <2>2, BeginStep DEF Announcing
  <2>3. CASE \E l : /\ Become(c, l) /\ target' = target
                    /\ l \in {"interviewRecord", "interviewSave", "interviewData",
                              "interviewSend", "commissionInterview"}
    BY <1>3, <2>3, BecomeStep DEF Announcing
  <2>4. CASE step[c] \in Announcing /\ Become(c, "commissionSend") /\ target' = target
    BY <1>3, <2>4, BecomeStep DEF Announcing
  <2>5. QED
    BY <1>2, <2>1, <2>2, <2>3, <2>4
<1>4. QED
  BY <1>1, <1>3, FilesStay

LEMMA SavesFiles ==
  ASSUME Types, FileInv, NEW c \in Client, InterviewSave(c) \/ CommissionSave(c)
  PROVE  FileInv'
<1>1. /\ UNCHANGED <<known, dropped, added, reissued, target>>
      /\ WriteFile(target[c], held[c].attributes)
      /\ Become(c, "interviewData") \/ Become(c, "commissionData")
  BY DEF InterviewSave, CommissionSave, registryVars, idVars, ghostVars
<1>2. /\ files \cup unsaved \subseteq files' \cup unsaved'
      /\ target'[c] \in files' \cup unsaved' \cup reissued'
  BY <1>1, WriteFileKeeps DEF OnDisk
<1>3. \A d \in Client \ {c} : step'[d] = step[d]
  BY <1>1, BecomeStep
<1>4. step'[c] \in {"interviewData", "commissionData"}
  BY <1>1, BecomeStep
<1>5. QED
  BY <1>1, <1>2, <1>3, <1>4, FilesStay

LEMMA RemoveEntryFiles ==
  ASSUME Types, Ids, FileInv, NEW c \in Client, RemoveEntry(c)
  PROVE  FileInv'
<1>1. /\ known' = known \ {target[c]} /\ dropped' = dropped \cup {target[c]}
      /\ added' = added \ {target[c]}
      /\ UNCHANGED <<files, unsaved, reissued, target>>
  BY DEF RemoveEntry, storageVars, idVars
<1>2. \A d \in Client : step'[d] = IF d = c THEN "removeFile" ELSE step[d]
  BY BecomeStep DEF RemoveEntry
<1>3. QED
  BY <1>1, <1>2 DEF FileInv

(* The file of a node that is out of the registry is deleted.              *)
LEMMA RemoveFileFiles ==
  ASSUME Types, Ids, FileInv, NEW c \in Client, RemoveFile(c)
  PROVE  FileInv'
<1>1. /\ files \ {target[c]} \subseteq files' /\ unsaved \ {target[c]} \subseteq unsaved'
      /\ UNCHANGED <<known, dropped, added, reissued, target>> /\ step[c] = "removeFile"
  BY DEF RemoveFile, At, registryVars, idVars, ghostVars
<1>2. \A d \in Client : step'[d] = IF d = c THEN "removeSend" ELSE step[d]
  BY BecomeStep DEF RemoveFile
<1>3. target[c] \in known => target[c] \in reissued
  BY <1>1 DEF FileInv, Ids, DroppedStaysGone
<1>4. \A n \in known : n \in files \cup unsaved \cup reissued =>
                         n \in files' \cup unsaved' \cup reissued'
  BY <1>1, <1>3
<1>5. added' \subseteq known' /\ added' \subseteq files' \cup unsaved' \cup reissued'
  BY <1>1, <1>4 DEF FileInv
<1>6. QED
  BY <1>1, <1>2, <1>4, <1>5 DEF FileInv

LEMMA CommissionInsertFiles ==
  ASSUME Types, FileInv, NEW c \in Client, CommissionInsert(c)
  PROVE  FileInv'
<1>1. /\ step[c] = "commissionInterview" /\ known \subseteq known'
      /\ UNCHANGED <<files, unsaved, target, dropped, reissued, added>>
  BY DEF CommissionInsert, At, storageVars, idVars, ghostVars
<1>2. \A d \in Client : step'[d] = IF d = c THEN "commissionSave" ELSE step[d]
  BY BecomeStep DEF CommissionInsert
<1>3. \A d \in Client : step'[d] \notin Announcing
  BY <1>1, <1>2 DEF Types, CommandsTypeOK, Commissioning, Announcing
<1>4. QED
  BY <1>1, <1>2, <1>3 DEF FileInv, Announcing

LEMMA CommissionSendFiles ==
  ASSUME Types, FileInv, NEW c \in Client, CommissionSend(c)
  PROVE  FileInv'
<1>1. /\ step[c] = "commissionSend" /\ added' = added \cup ({target[c]} \cap known)
      /\ UNCHANGED <<known, files, unsaved, target, dropped, reissued>>
  BY DEF CommissionSend, At, registryVars, storageVars, idVars
<1>2. \A d \in Client : step'[d] = IF d = c THEN "commissionStart" ELSE step[d]
  BY BecomeStep DEF CommissionSend
<1>3. QED
  BY <1>1, <1>2 DEF FileInv

LEMMA RestartFiles ==
  ASSUME FileInv, Restart
  PROVE  FileInv'
<1>1. /\ known' = files /\ files' = files /\ added' = added \cap files
      /\ \A c \in Client : step'[c] = "idle"
  BY DEF Restart
<1>2. QED
  BY <1>1 DEF FileInv

LEMMA NextFiles ==
  ASSUME Types, Ids, FileInv, [CommandsNext]_allVars
  PROVE  FileInv'
<1>1. CASE \E c \in Client : Commands(c)
  BY <1>1, CommandFilesStay, SavesFiles, RemoveEntryFiles, RemoveFileFiles,
     CommissionInsertFiles, CommissionSendFiles DEF Commands
<1>2. QED
  BY <1>1, ManagerFiles, ThreadFiles, RestartFiles DEF CommandsNext

LEMMA InitFiles ==
  ASSUME CommandsInit
  PROVE  FileInv
<1>1. known = files
  BY DEF CommandsInit, Init
<1>2. QED
  BY <1>1 DEF CommandsInit, FileInv

-----------------------------------------------------------------------------
(* The last request for a node in the channel of the stack thread decides  *)
(* whether it will have a supervisor.                                      *)
Outcome(rs, running, n) ==
  LET mine == {i \in DOMAIN rs : rs[i].node = n}
      last == CHOOSE i \in mine : \A j \in mine : j <= i
  IN IF mine = {} THEN n \in running ELSE rs[last].op = "start"

LastOf(rs, n, i) ==
  /\ i \in 1..Len(rs) /\ rs[i].node = n
  /\ \A j \in 1..Len(rs) : rs[j].node = n => j <= i

LEMMA OutcomeIsSupervision ==
  /\ \A n : WillBeSupervised(n) <=> Outcome(requests, supervised, n)
  /\ \A n : WillBeSupervised(n)' <=> Outcome(requests', supervised', n)
  BY DEF WillBeSupervised, Outcome

LEMMA OutcomeOfNone ==
  ASSUME NEW rs \in Seq(SupervisorRequest), NEW running, NEW n,
         \A j \in 1..Len(rs) : rs[j].node # n
  PROVE  Outcome(rs, running, n) <=> n \in running
<1>1. {i \in DOMAIN rs : rs[i].node = n} = {}
  OBVIOUS
<1>2. QED
  BY <1>1 DEF Outcome

LEMMA OutcomeOfLast ==
  ASSUME NEW rs \in Seq(SupervisorRequest), NEW running, NEW n, NEW i, LastOf(rs, n, i)
  PROVE  Outcome(rs, running, n) <=> rs[i].op = "start"
<1> DEFINE mine == {j \in DOMAIN rs : rs[j].node = n}
           last == CHOOSE j \in mine : \A k \in mine : k <= j
<1>1. mine = {j \in 1..Len(rs) : rs[j].node = n}
  OBVIOUS
<1>2. i \in mine /\ \A k \in mine : k <= i
  BY <1>1 DEF LastOf
<1>3. last \in mine /\ \A k \in mine : k <= last
  BY <1>2
<1>4. last = i
  BY <1>1, <1>2, <1>3
<1>5. mine # {}
  BY <1>2
<1>6. QED
  BY <1>4, <1>5 DEF Outcome

LEMMA LastExists ==
  ASSUME NEW rs \in Seq(SupervisorRequest), NEW n, NEW k \in 1..Len(rs), rs[k].node = n
  PROVE  \E i : LastOf(rs, n, i)
<1> DEFINE Above == {m \in Nat : \A j \in 1..Len(rs) : rs[j].node = n => j <= m}
<1>1. Len(rs) \in Above
  OBVIOUS
<1>2. PICK m \in Above : \A y \in Above : m <= y
  BY <1>1, LeastNatural
<1>3. m \in Nat /\ m >= k /\ m <= Len(rs)
  BY <1>1, <1>2
<1>4. ASSUME rs[m].node # n PROVE FALSE
  <2>1. ASSUME NEW j \in 1..Len(rs), rs[j].node = n PROVE j <= m - 1
    <3>1. j <= m /\ j # m
      BY <1>2, <1>4, <2>1
    <3>2. QED
      BY <1>3, <3>1
  <2>2. m - 1 \in Above
    BY <1>3, <2>1
  <2>3. QED
    BY <1>2, <1>3, <2>2
<1>5. LastOf(rs, n, m)
  BY <1>2, <1>3, <1>4 DEF LastOf
<1>6. QED
  BY <1>5

(* A request for a node decides for that node and for no other.            *)
LEMMA OutcomeOfLonger ==
  ASSUME NEW rs \in Seq(SupervisorRequest), NEW qs \in Seq(SupervisorRequest), NEW running,
         Len(qs) = Len(rs) + 1, \A j \in 1..Len(rs) : qs[j] = rs[j]
  PROVE  /\ Outcome(qs, running, qs[Len(qs)].node) <=> qs[Len(qs)].op = "start"
         /\ \A n : n # qs[Len(qs)].node =>
                    (Outcome(qs, running, n) <=> Outcome(rs, running, n))
<1>0. Len(rs) \in Nat /\ Len(qs) \in Nat
  OBVIOUS
<1>1. LastOf(qs, qs[Len(qs)].node, Len(qs))
  BY <1>0 DEF LastOf
<1>2. Outcome(qs, running, qs[Len(qs)].node) <=> qs[Len(qs)].op = "start"
  BY <1>1, OutcomeOfLast
<1>3. ASSUME NEW n, n # qs[Len(qs)].node
      PROVE  Outcome(qs, running, n) <=> Outcome(rs, running, n)
  <2>1. CASE \A j \in 1..Len(rs) : rs[j].node # n
    <3>1. \A j \in 1..Len(qs) : qs[j].node # n
      BY <1>0, <1>3, <2>1
    <3>2. Outcome(qs, running, n) <=> n \in running
      BY <3>1, OutcomeOfNone
    <3>3. Outcome(rs, running, n) <=> n \in running
      BY <2>1, OutcomeOfNone
    <3>4. QED
      BY <3>2, <3>3
  <2>2. CASE \E k \in 1..Len(rs) : rs[k].node = n
    <3>1. PICK i : LastOf(rs, n, i)
      BY <2>2, LastExists
    <3>2. i \in 1..Len(rs) /\ qs[i] = rs[i]
      BY <3>1 DEF LastOf
    <3>3. LastOf(qs, n, i)
      BY <1>0, <1>3, <3>1, <3>2 DEF LastOf
    <3>4. Outcome(rs, running, n) <=> rs[i].op = "start"
      BY <3>1, OutcomeOfLast
    <3>5. Outcome(qs, running, n) <=> qs[i].op = "start"
      BY <3>3, OutcomeOfLast
    <3>6. QED
      BY <3>2, <3>4, <3>5
  <2>3. QED
    BY <2>1, <2>2
<1>4. QED
  BY <1>2, <1>3

LEMMA OutcomeOfAppend ==
  ASSUME NEW rs \in Seq(SupervisorRequest), NEW running, NEW r \in SupervisorRequest
  PROVE  /\ Outcome(Append(rs, r), running, r.node) <=> r.op = "start"
         /\ \A n : n # r.node =>
                    (Outcome(Append(rs, r), running, n) <=> Outcome(rs, running, n))
<1>1. PICK qs : qs = Append(rs, r)
  OBVIOUS
<1>2. /\ qs \in Seq(SupervisorRequest) /\ Len(qs) = Len(rs) + 1 /\ qs[Len(qs)] = r
      /\ \A j \in 1..Len(rs) : qs[j] = rs[j]
  BY <1>1
<1>3. /\ Outcome(qs, running, r.node) <=> r.op = "start"
      /\ \A n : n # r.node => (Outcome(qs, running, n) <=> Outcome(rs, running, n))
  BY <1>2, OutcomeOfLonger
<1>4. QED
  BY <1>1, <1>3, Zenon

(* Serving a request changes what is to come for nobody.                   *)
LEMMA OutcomeOfShorter ==
  ASSUME NEW rs \in Seq(SupervisorRequest), NEW ts \in Seq(SupervisorRequest),
         NEW running, NEW running2, NEW n, Len(rs) >= 1,
         Len(ts) = Len(rs) - 1, \A j \in 1..Len(ts) : ts[j] = rs[j + 1],
         n = rs[1].node => (n \in running2 <=> rs[1].op = "start"),
         n # rs[1].node => (n \in running2 <=> n \in running)
  PROVE  Outcome(ts, running2, n) <=> Outcome(rs, running, n)
<1>1. Len(rs) \in Nat /\ Len(ts) \in Nat
  OBVIOUS
<1>2. CASE \A j \in 1..Len(rs) : rs[j].node # n
  <2>1. (\A j \in 1..Len(ts) : ts[j].node # n) /\ n # rs[1].node
    BY <1>1, <1>2
  <2>2. Outcome(ts, running2, n) <=> n \in running2
    BY <2>1, OutcomeOfNone
  <2>3. Outcome(rs, running, n) <=> n \in running
    BY <1>2, OutcomeOfNone
  <2>4. QED
    BY <2>1, <2>2, <2>3
<1>3. CASE \E k \in 1..Len(rs) : rs[k].node = n
  <2>1. PICK i : LastOf(rs, n, i)
    BY <1>3, LastExists
  <2>2. Outcome(rs, running, n) <=> rs[i].op = "start"
    BY <2>1, OutcomeOfLast
  <2>3. CASE i = 1
    <3>1. rs[1].node = n /\ \A j \in 1..Len(ts) : ts[j].node # n
      BY <1>1, <2>1, <2>3 DEF LastOf
    <3>2. Outcome(ts, running2, n) <=> n \in running2
      BY <3>1, OutcomeOfNone
    <3>3. QED
      BY <2>2, <2>3, <3>1, <3>2
  <2>4. CASE i # 1
    <3>1. i \in 1..Len(rs) /\ i - 1 \in 1..Len(ts) /\ ts[i - 1] = rs[i]
      BY <1>1, <2>1, <2>4 DEF LastOf
    <3>2. LastOf(ts, n, i - 1)
      BY <1>1, <2>1, <3>1 DEF LastOf
    <3>3. Outcome(ts, running2, n) <=> ts[i - 1].op = "start"
      BY <3>2, OutcomeOfLast
    <3>4. QED
      BY <2>2, <3>1, <3>3
  <2>5. QED
    BY <2>3, <2>4
<1>4. QED
  BY <1>2, <1>3

LEMMA ServeSupervises ==
  ASSUME Types, ServeRequest
  PROVE  \A n : WillBeSupervised(n)' <=> WillBeSupervised(n)
<1>1. requests \in Seq(SupervisorRequest) /\ requests # <<>>
  BY DEF Types, CommandsTypeOK, ServeRequest
<1>2. Len(requests) \in Nat \ {0}
  BY <1>1, EmptySeq
<1>3. /\ requests' \in Seq(SupervisorRequest) /\ Len(requests') = Len(requests) - 1
      /\ \A j \in 1..Len(requests') : requests'[j] = requests[j + 1]
  BY <1>1, HeadTailProperties DEF ServeRequest
<1>4. Head(requests) = requests[1]
  BY <1>1
<1>5. ASSUME NEW n
      PROVE  /\ n = requests[1].node => (n \in supervised' <=> requests[1].op = "start")
             /\ n # requests[1].node => (n \in supervised' <=> n \in supervised)
  <2>1. CASE requests[1].op = "start"
    BY <1>4, <2>1 DEF ServeRequest
  <2>2. CASE requests[1].op # "start"
    BY <1>4, <2>2 DEF ServeRequest
  <2>3. QED
    BY <2>1, <2>2
<1>6. Len(requests) >= 1
  BY <1>2
<1>7. \A n : Outcome(requests', supervised', n) <=> Outcome(requests, supervised, n)
  BY <1>1, <1>3, <1>5, <1>6, OutcomeOfShorter
<1>8. QED
  BY <1>7, OutcomeIsSupervision

-----------------------------------------------------------------------------
(* Who looks after a node: its supervisor, the start-up task, or the       *)
(* command that adds or removes it.                                        *)
Attending == Commissioning \cup {"removeFabric"}

Attends(c, n) == target[c] = n /\ step[c] \in Attending

LEMMA EveryNode ==
  EveryNodeIsSupervised <=>
    \A n \in known \ reissued :
      WillBeSupervised(n) \/ n \in boot \/ ~bootRead \/ \E c \in Client : Attends(c, n)
  BY DEF EveryNodeIsSupervised, Attends, Attending

(* A step of one client's command.                                         *)
LEMMA ClientSupervises ==
  ASSUME EveryNodeIsSupervised, NEW c \in Client, UNCHANGED bootVars,
         reissued \subseteq reissued',
         \A d \in Client \ {c} : step'[d] = step[d] /\ target'[d] = target[d],
         \A n \in known' \ reissued' :
           \/ target'[c] = n /\ step'[c] \in Attending
           \/ WillBeSupervised(n)'
           \/ /\ n \in known /\ ~Attends(c, n)
              /\ WillBeSupervised(n) => WillBeSupervised(n)'
  PROVE  EveryNodeIsSupervised'
<1>1. SUFFICES ASSUME NEW n \in known' \ reissued', ~WillBeSupervised(n)',
                      ~(target'[c] = n /\ step'[c] \in Attending),
                      ~(n \in boot'), bootRead'
               PROVE  \E d \in Client : target'[d] = n /\ step'[d] \in Attending
  BY DEF EveryNodeIsSupervised, Attending
<1>2. n \in known \ reissued /\ ~Attends(c, n) /\ ~WillBeSupervised(n)
  BY <1>1
<1>3. n \notin boot /\ bootRead
  BY <1>1 DEF bootVars
<1>4. PICK d \in Client : Attends(d, n)
  BY <1>2, <1>3, EveryNode
<1>5. d # c
  BY <1>2, <1>4
<1>6. QED
  BY <1>4, <1>5 DEF Attends

LEMMA SameRequests ==
  ASSUME UNCHANGED thread
  PROVE  \A n : WillBeSupervised(n)' <=> WillBeSupervised(n)
  BY DEF WillBeSupervised, thread

LEMMA AppendSupervises ==
  ASSUME Types, NEW r \in SupervisorRequest, requests' = Append(requests, r),
         UNCHANGED supervised
  PROVE  /\ WillBeSupervised(r.node)' <=> r.op = "start"
         /\ \A n : n # r.node => (WillBeSupervised(n)' <=> WillBeSupervised(n))
<1>1. requests \in Seq(SupervisorRequest)
  BY DEF Types, CommandsTypeOK
<1>2. /\ Outcome(requests', supervised', r.node) <=> r.op = "start"
      /\ \A n : n # r.node => (Outcome(requests', supervised', n)
                                 <=> Outcome(requests, supervised, n))
  BY <1>1, OutcomeOfAppend
<1>3. QED
  BY <1>2, OutcomeIsSupervision

(* What a step changes of one client's command.                            *)
LEMMA OneClientMoves ==
  ASSUME Types, NEW c \in Client,
         \/ Answer(c)
         \/ \E l, n : Begin(c, l, n)
         \/ \E l : Become(c, l) /\ UNCHANGED target
  PROVE  \A d \in Client \ {c} : step'[d] = step[d] /\ target'[d] = target[d]
<1>1. CASE Answer(c)
  BY <1>1, AnswerStep
<1>2. ASSUME NEW l, NEW n, Begin(c, l, n)
      PROVE  \A d \in Client \ {c} : step'[d] = step[d] /\ target'[d] = target[d]
  BY <1>2, BeginStep
<1>3. ASSUME NEW l, Become(c, l), UNCHANGED target
      PROVE  \A d \in Client \ {c} : step'[d] = step[d] /\ target'[d] = target[d]
  BY <1>3, BecomeStep
<1>4. QED
  BY <1>1, <1>2, <1>3

(* A step that asks for no supervisor, and of whose node none was due.     *)
LEMMA QuietSupervises ==
  ASSUME Types, EveryNodeIsSupervised, NEW c \in Client, UNCHANGED bootVars,
         UNCHANGED thread, reissued \subseteq reissued',
         \/ Answer(c)
         \/ \E l, n : Begin(c, l, n)
         \/ \E l : Become(c, l) /\ UNCHANGED target,
         \A n \in known' \ reissued' : n \in known /\ ~Attends(c, n)
  PROVE  EveryNodeIsSupervised'
<1>1. \A n : WillBeSupervised(n)' <=> WillBeSupervised(n)
  BY SameRequests
<1>2. \A d \in Client \ {c} : step'[d] = step[d] /\ target'[d] = target[d]
  BY OneClientMoves
<1>3. QED
  BY <1>1, <1>2, ClientSupervises

(* Commands, or parts of them, that nobody relies on for a supervisor.     *)
LEMMA BystandersSupervise ==
  ASSUME Types, EveryNodeIsSupervised, NEW c \in Client,
         \/ \E n \in Node : InterviewNode(c, n)
         \/ InterviewDone(c) \/ InterviewRecord(c) \/ InterviewSave(c) \/ InterviewData(c)
         \/ InterviewSend(c) \/ RemoveFile(c) \/ RemoveSend(c) \/ Commission(c)
  PROVE  EveryNodeIsSupervised'
<1>1. /\ known' = known /\ UNCHANGED bootVars /\ UNCHANGED thread
      /\ reissued \subseteq reissued'
  BY DEF InterviewNode, InterviewDone, InterviewRecord, InterviewSave, InterviewData,
     InterviewSend, RemoveFile, RemoveSend, Commission, vars, registryVars, idVars
<1>2. step[c] \notin Attending
  BY DEF InterviewNode, InterviewDone, InterviewRecord, InterviewSave, InterviewData,
     InterviewSend, RemoveFile, RemoveSend, Commission, At, Begin, Attending, Commissioning
<1>3. \/ Answer(c)
      \/ \E l, n : Begin(c, l, n)
      \/ \E l : Become(c, l) /\ UNCHANGED target
  <2>1. CASE (\E n \in Node : InterviewNode(c, n)) \/ Commission(c)
    BY <2>1 DEF InterviewNode, Commission
  <2>2. CASE InterviewDone(c) \/ InterviewRecord(c) \/ InterviewSave(c)
    BY <2>2 DEF InterviewDone, InterviewRecord, InterviewSave, HoldSnapshot
  <2>3. CASE InterviewData(c) \/ InterviewSend(c) \/ RemoveFile(c) \/ RemoveSend(c)
    BY <2>3 DEF InterviewData, InterviewSend, RemoveFile, RemoveSend, HoldSnapshot
  <2>4. QED
    BY <2>1, <2>2, <2>3
<1>4. \A n \in known' \ reissued' : n \in known /\ ~Attends(c, n)
  BY <1>1, <1>2 DEF Attends
<1>5. QED
  BY <1>1, <1>3, <1>4, QuietSupervises

(* A command that goes on looking after its node.                          *)
LEMMA CommissionSupervises ==
  ASSUME Types, EveryNodeIsSupervised, NEW c \in Client,
         \/ CommissionJoins(c) \/ CommissionInsert(c) \/ CommissionSave(c)
         \/ CommissionData(c) \/ CommissionSend(c)
  PROVE  EveryNodeIsSupervised'
<1>1. /\ UNCHANGED bootVars /\ UNCHANGED thread /\ reissued' = reissued
      /\ known' \subseteq known \cup {target[c]}
  BY DEF CommissionJoins, CommissionInsert, CommissionSave, CommissionData, CommissionSend,
     vars, registryVars, idVars
<1>2. CASE CommissionData(c) /\ target[c] \notin known
  <2>1. Answer(c) /\ known' = known
    BY <1>2 DEF CommissionData, vars, registryVars
  <2>2. QED
    BY <1>1, <1>2, <2>1, QuietSupervises DEF Attends
<1>3. CASE ~(CommissionData(c) /\ target[c] \notin known)
  <2>1. \E l \in Commissioning : Become(c, l) /\ UNCHANGED target
    BY <1>3 DEF CommissionJoins, CommissionInsert, CommissionSave, CommissionData,
       CommissionSend, HoldSnapshot, Commissioning
  <2>2. step'[c] \in Attending /\ target'[c] = target[c]
    BY <2>1, BecomeStep DEF Attending
  <2>3. \A n \in known' \ reissued' :
          \/ target'[c] = n /\ step'[c] \in Attending
          \/ /\ n \in known /\ ~Attends(c, n)
             /\ WillBeSupervised(n) => WillBeSupervised(n)'
    BY <1>1, <2>2, SameRequests DEF Attends
  <2>4. \A d \in Client \ {c} : step'[d] = step[d] /\ target'[d] = target[d]
    BY <2>1, OneClientMoves
  <2>5. QED
    BY <1>1, <2>3, <2>4, ClientSupervises
<1>4. QED
  BY <1>2, <1>3

(* A commissioning that fails leaves no node behind.                       *)
LEMMA FailureSupervises ==
  ASSUME Types, Ids, EveryNodeIsSupervised, NEW c \in Client,
         CommissionFails(c) \/ CommissionInterviewFails(c)
  PROVE  EveryNodeIsSupervised'
<1>1. /\ known' = known /\ UNCHANGED bootVars /\ UNCHANGED thread
      /\ reissued' = reissued /\ Answer(c)
  BY DEF CommissionFails, CommissionInterviewFails, vars, registryVars
<1>2. target[c] \in known => target[c] \in reissued
  BY DEF CommissionFails, CommissionInterviewFails, At, Ids, FreshInv, Joining
<1>3. QED
  BY <1>1, <1>2, QuietSupervises DEF Attends

LEMMA StartSupervises ==
  ASSUME Types, EveryNodeIsSupervised, NEW c \in Client, CommissionStart(c)
  PROVE  EveryNodeIsSupervised'
<1>0. PICK m \in Node : m = target[c]
  BY DEF CommissionStart, At, Types, LocalsInv
<1> DEFINE r == [op |-> "start", node |-> m]
<1>1. /\ known' = known /\ UNCHANGED bootVars /\ reissued' = reissued
      /\ supervised' = supervised /\ Answer(c) /\ requests' = Append(requests, r)
  BY <1>0 DEF CommissionStart, vars, registryVars
<1>2. r \in SupervisorRequest /\ r.node = m /\ r.op = "start"
  BY DEF SupervisorRequest
<1> HIDE DEF r
<1>3. /\ WillBeSupervised(m)'
      /\ \A n : n # m => (WillBeSupervised(n)' <=> WillBeSupervised(n))
  BY <1>1, <1>2, AppendSupervises
<1>4. \A d \in Client \ {c} : step'[d] = step[d] /\ target'[d] = target[d]
  BY <1>1, OneClientMoves
<1>5. \A n \in known' \ reissued' :
        \/ WillBeSupervised(n)'
        \/ /\ n \in known /\ ~Attends(c, n)
           /\ WillBeSupervised(n) => WillBeSupervised(n)'
  BY <1>0, <1>1, <1>3 DEF Attends
<1>6. QED
  BY <1>1, <1>4, <1>5, ClientSupervises

LEMMA RemoveSupervises ==
  ASSUME Types, EveryNodeIsSupervised, NEW c \in Client,
         (\E n \in Node : RemoveNode(c, n)) \/ RemoveEntry(c)
  PROVE  EveryNodeIsSupervised'
<1>1. CASE RemoveEntry(c)
  <2>1. /\ UNCHANGED bootVars /\ UNCHANGED thread /\ reissued' = reissued
        /\ known' = known \ {target[c]} /\ Become(c, "removeFile") /\ UNCHANGED target
    BY <1>1 DEF RemoveEntry, idVars
  <2>2. QED
    BY <2>1, QuietSupervises DEF Attends
<1>2. ASSUME NEW m \in Node, RemoveNode(c, m)
      PROVE  EveryNodeIsSupervised'
  <2> DEFINE r == [op |-> "stop", node |-> m]
  <2>1. /\ known' = known /\ UNCHANGED bootVars /\ reissued' = reissued
        /\ supervised' = supervised
        /\ Begin(c, "removeFabric", m) /\ requests' = Append(requests, r)
    BY <1>2 DEF RemoveNode, vars, registryVars, idVars
  <2>2. r \in SupervisorRequest /\ r.node = m
    BY DEF SupervisorRequest
  <2> HIDE DEF r
  <2>3. \A n : n # m => (WillBeSupervised(n)' <=> WillBeSupervised(n))
    BY <2>1, <2>2, AppendSupervises
  <2>4. target'[c] = m /\ step'[c] \in Attending /\ step[c] = "idle"
    BY <2>1, BeginStep DEF Begin, Attending
  <2>5. \A n : ~Attends(c, n)
    BY <2>4 DEF Attends, Attending, Commissioning
  <2>6. \A d \in Client \ {c} : step'[d] = step[d] /\ target'[d] = target[d]
    BY <2>1, OneClientMoves
  <2>7. \A n \in known' \ reissued' :
          \/ target'[c] = n /\ step'[c] \in Attending
          \/ /\ n \in known /\ ~Attends(c, n)
             /\ WillBeSupervised(n) => WillBeSupervised(n)'
    BY <2>1, <2>3, <2>4, <2>5
  <2>8. QED
    BY <2>1, <2>6, <2>7, ClientSupervises
<1>3. QED
  BY <1>1, <1>2

LEMMA ThreadSupervises ==
  ASSUME Types, EveryNodeIsSupervised,
         BootReads \/ (\E n \in boot : BootStarts(n)) \/ ServeRequest
  PROVE  EveryNodeIsSupervised'
<1>1. UNCHANGED <<known, reissued, step, target>>
  BY DEF BootReads, BootStarts, ServeRequest, vars, registryVars, clientVars, idVars
<1>2. CASE BootReads
  BY <1>1, <1>2 DEF BootReads, EveryNodeIsSupervised
<1>3. CASE ServeRequest
  <2>1. \A n : WillBeSupervised(n)' <=> WillBeSupervised(n)
    BY <1>3, ServeSupervises
  <2>2. UNCHANGED <<boot, bootRead>>
    BY <1>3 DEF ServeRequest, bootVars
  <2>3. QED
    BY <1>1, <2>1, <2>2 DEF EveryNodeIsSupervised
<1>4. ASSUME NEW m \in boot, BootStarts(m)
      PROVE  EveryNodeIsSupervised'
  <2> DEFINE r == [op |-> "start", node |-> m]
  <2>1. /\ requests' = Append(requests, r) /\ boot' = boot \ {m}
        /\ UNCHANGED <<supervised, bootRead>>
    BY <1>4 DEF BootStarts
  <2>2. r \in SupervisorRequest /\ r.node = m /\ r.op = "start"
    BY <1>4 DEF SupervisorRequest, Types, CommandsTypeOK
  <2> HIDE DEF r
  <2>3. /\ WillBeSupervised(m)'
        /\ \A n : n # m => (WillBeSupervised(n)' <=> WillBeSupervised(n))
    BY <2>1, <2>2, AppendSupervises
  <2>4. QED
    BY <1>1, <2>1, <2>3 DEF EveryNodeIsSupervised
<1>5. QED
  BY <1>2, <1>3, <1>4

LEMMA NextSupervises ==
  ASSUME Types, Ids, EveryNodeIsSupervised, [CommandsNext]_allVars
  PROVE  EveryNodeIsSupervised'
<1>1. CASE \E c \in Client : Commands(c)
  BY <1>1, BystandersSupervise, CommissionSupervises, FailureSupervises, StartSupervises,
     RemoveSupervises DEF Commands
<1>2. CASE Manager \/ UNCHANGED allVars
  <2>1. known' = known
    BY <1>2, ManagerNext, ManagerWrites DEF allVars, Types
  <2>2. UNCHANGED <<thread, bootRead, boot, step, target, reissued>>
    BY <1>2 DEF Manager, allVars, cmdVars, clientVars, idVars, bootVars
  <2>3. \A n : WillBeSupervised(n)' <=> WillBeSupervised(n)
    BY <2>2, SameRequests
  <2>4. QED
    BY <2>1, <2>2, <2>3 DEF EveryNodeIsSupervised
<1>3. CASE Restart
  BY <1>3 DEF Restart, EveryNodeIsSupervised
<1>4. QED
  BY <1>1, <1>2, <1>3, ThreadSupervises DEF CommandsNext

(* A node announced as added is on disk from then on, and every known node *)
(* has a supervisor, or one on its way, whatever the clients, the start-up *)
(* task and the stack thread interleave and wherever the process restarts, *)
(* unless a write of its own failed or its id was handed out twice.        *)
THEOREM AddedNodesAreKept == CommandsSpec => []AddedIsKept
<1> DEFINE Kept == Types /\ Ids /\ FileInv /\ EveryNodeIsSupervised
<1>1. CommandsInit => Kept
  <2>1. CommandsInit => EveryNodeIsSupervised
    BY DEF CommandsInit, EveryNodeIsSupervised
  <2>2. QED
    BY <2>1, InitTypes, InitIds, InitFiles
<1>2. Kept /\ [CommandsNext]_allVars => Kept'
  BY NextTypes, NextIds, NextFiles, NextSupervises
<1>3. Kept => AddedIsKept
  BY DEF FileInv, AddedIsKept
<1>4. QED
  BY <1>1, <1>2, <1>3, PTL DEF CommandsSpec

-----------------------------------------------------------------------------
(* Availability follows the link of every node whose id was handed out     *)
(* once, with the commands at work.                                        *)

(* An id nobody has, or one whose device is still joining.                 *)
Waiting(n) == n \notin issued \/ \E c \in Client : Joining(c) /\ target[c] = n

(* Nothing in the process is about node n: it has no supervisor, none is   *)
(* on its way, and the node manager never heard of it.                     *)
Untouched(n) ==
  /\ n \notin known \cup boot \cup supervised
  /\ \A i \in 1..Len(requests) : requests[i].node # n
  /\ \A i \in 1..Len(rx) : rx[i].node # n
  /\ cur = Idle \/ cur.node # n
  /\ link[n] = "none" /\ graceTimers[n] = 0

WaitingInv == \A n \in Node \ reissued : Waiting(n) => Untouched(n)

JoinedLinkInv == LinkInv(known \ reissued)

(* The node manager hears of supervised nodes only, and acts on known ones.*)
LEMMA SendUntouched ==
  ASSUME Types, NEW n \in Node, Untouched(n), NEW ev \in StackEvent, ev.node # n,
         StackSends(ev)
  PROVE  /\ \A i \in 1..Len(rx') : rx'[i].node # n
         /\ link'[n] = "none"
         /\ UNCHANGED <<known, cur, graceTimers>>
<1>1. /\ rx \in Seq(StackEvent) /\ rx' = Append(rx, ev) /\ Len(rx') = Len(rx) + 1
      /\ \A i \in 1..Len(rx) : rx'[i] = rx[i]
      /\ rx'[Len(rx) + 1] = ev
      /\ Len(rx) \in Nat
  BY DEF StackSends, Types, TypeOK
<1>2. \A i \in 1..Len(rx') : rx'[i].node # n
  BY <1>1 DEF Untouched
<1>3. link'[n] = "none"
  BY DEF StackSends, Types, TypeOK, Untouched
<1>4. QED
  BY <1>2, <1>3 DEF StackSends, registryVars, localVars, timerVars

LEMMA ReportUntouched ==
  ASSUME Types, NEW n \in Node, Untouched(n), NEW m \in supervised, StackReports(m)
  PROVE  /\ \A i \in 1..Len(rx') : rx'[i].node # n
         /\ link'[n] = "none"
         /\ UNCHANGED <<known, cur, graceTimers>>
<1>0. m \in Node /\ m # n
  BY DEF Types, CommandsTypeOK, Untouched
<1>1. CASE \E k \in {"Connected", "Reconnecting"} : StackSends([kind |-> k, node |-> m])
  BY <1>0, <1>1, SendUntouched DEF StackEvent
<1>2. CASE \E a \in Attrs :
        StackSends([kind |-> "PrimingSnapshot", node |-> m, attributes |-> a])
  BY <1>0, <1>2, SendUntouched DEF StackEvent
<1>3. CASE \E s \in Reports :
        StackSends([kind |-> "AttributesChanged", node |-> m, changes |-> s])
  BY <1>0, <1>3, SendUntouched, ReportsShape DEF StackEvent
<1>4. CASE \E p \in Payload :
        StackSends([kind |-> "NodeEvent", node |-> m, event |-> p])
  BY <1>0, <1>4, SendUntouched DEF StackEvent
<1>5. QED
  BY <1>1, <1>2, <1>3, <1>4 DEF StackReports

LEMMA ConsumerUntouched ==
  ASSUME Types, NEW n \in Node, Untouched(n), Consumer
  PROVE  /\ \A i \in 1..Len(rx') : rx'[i].node # n
         /\ cur' = Idle \/ cur'.node # n
         /\ link' = link /\ graceTimers'[n] = 0
<1> USE DEF Types
<1>0. n \notin known /\ n \notin available /\ graceTimers[n] = 0
  BY DEF Untouched, TypeOK
<1>1. CASE RecvEvent
  <2>1. /\ rx \in Seq(StackEvent) /\ rx # <<>> /\ Len(rx) \in Nat /\ Len(rx) >= 1
        /\ rx' = Tail(rx) /\ Len(rx') = Len(rx) - 1 /\ rx[1] = Head(rx)
        /\ \A i \in 1..Len(rx') : rx'[i] = rx[i + 1]
    BY <1>1 DEF RecvEvent, TypeOK
  <2>2. \A i \in 1..Len(rx') : rx'[i].node # n
    BY <2>1 DEF Untouched
  <2>3. cur' = Head(rx) \/ cur' = cur
    BY <1>1 DEF RecvEvent, localVars
  <2>4. cur' = Idle \/ cur'.node # n
    BY <2>1, <2>3 DEF Untouched
  <2>5. QED
    BY <1>0, <1>1, <2>2, <2>4 DEF RecvEvent, timerVars
<1>2. CASE HandleGraceExpiry
  <2>1. Head(graceRx).node \in available \/ cur' = cur
    BY <1>2 DEF HandleGraceExpiry, localVars
  <2>2. cur' = cur \/ (cur'.node = Head(graceRx).node /\ cur'.node \in available)
    BY <1>2, <2>1 DEF HandleGraceExpiry, localVars
  <2>3. graceTimers'[n] = 0
    BY <1>0, <1>2 DEF HandleGraceExpiry, TypeOK
  <2>4. QED
    BY <1>0, <1>2, <2>2, <2>3 DEF HandleGraceExpiry, stackVars, Untouched
<1>3. CASE HandleConnected \/ HandleReconnecting \/ RecvClosed
  <2>1. graceTimers'[n] = 0
    BY <1>0, <1>3 DEF HandleConnected, HandleReconnecting, RecvClosed, TypeOK
  <2>2. cur' = cur \/ cur' = Idle
    BY <1>3 DEF HandleConnected, HandleReconnecting, RecvClosed, Goto, Return
  <2>3. QED
    BY <1>3, <2>1, <2>2 DEF HandleConnected, HandleReconnecting, RecvClosed, stackVars,
       Untouched
<1>4. CASE \/ HandlePrimingSnapshot \/ HandleChange \/ AnnounceChange
           \/ HandleNodeEvent \/ BroadcastNodeEvent \/ Persist \/ SaveNode
           \/ EmitNodeUpdated \/ SendNodeUpdated
  <2>1. cur' = cur \/ cur' = Idle
    BY <1>4 DEF HandlePrimingSnapshot, HandleChange, AnnounceChange, HandleNodeEvent,
       BroadcastNodeEvent, Persist, SaveNode, EmitNodeUpdated, SendNodeUpdated, Goto,
       Return, AfterPersist
  <2>2. UNCHANGED <<rx, link, graceTimers>>
    BY <1>4 DEF HandlePrimingSnapshot, HandleChange, AnnounceChange, HandleNodeEvent,
       BroadcastNodeEvent, Persist, SaveNode, EmitNodeUpdated, SendNodeUpdated,
       stackVars, timerVars
  <2>3. QED
    BY <1>0, <2>1, <2>2 DEF Untouched
<1>5. QED
  BY <1>1, <1>2, <1>3, <1>4 DEF Consumer

LEMMA ManagerUntouched ==
  ASSUME Types, NEW n \in Node, Untouched(n), Manager \/ UNCHANGED allVars
  PROVE  Untouched(n)'
<1>1. UNCHANGED <<known, boot, supervised, requests>>
  BY ManagerNext, KnownStays DEF Manager, allVars, cmdVars, bootVars, thread, Types
<1>2. CASE UNCHANGED allVars \/ StackGone \/ \E t \in sleeping : TimerFires(t)
  <2>1. UNCHANGED <<rx, cur, link, graceTimers>>
    BY <1>2 DEF allVars, vars, StackGone, TimerFires, stackVars, localVars, timerVars
  <2>2. QED
    BY <1>1, <2>1 DEF Untouched
<1>3. CASE \E m \in supervised : StackReports(m)
  BY <1>1, <1>3, ReportUntouched DEF Untouched
<1>4. CASE Consumer
  BY <1>1, <1>4, ConsumerUntouched DEF Untouched
<1>5. QED
  BY <1>2, <1>3, <1>4 DEF Manager

(* Whoever waits after a step waited before it: Commission hands out ids   *)
(* nobody had, or the id counts as handed out twice.                       *)
LEMMA WaitedBefore ==
  ASSUME Types, Ids, [CommandsNext]_allVars, ~Restart,
         NEW n \in Node \ reissued', Waiting(n)'
  PROVE  n \in Node \ reissued /\ Waiting(n)
<1>1. CASE QuietStep
  BY <1>1 DEF QuietStep, Waiting, Joining
<1>2. ASSUME NEW c \in Client, Commission(c)
      PROVE  n \in Node \ reissued /\ Waiting(n)
  <2>1. /\ reissued' = reissued \cup ({Candidate} \cap issued)
        /\ issued' = issued \cup {Candidate}
    BY <1>2 DEF Commission
  <2>2. \A d \in Client : /\ step'[d] = IF d = c THEN "commission" ELSE step[d]
                          /\ target'[d] = IF d = c THEN Candidate ELSE target[d]
    BY <1>2, BeginStep DEF Commission, Types
  <2>3. QED
    BY <2>1, <2>2 DEF Waiting, Joining
<1>3. ASSUME NEW c \in Client, RemoveEntry(c) \/ CommissionInsert(c)
      PROVE  n \in Node \ reissued /\ Waiting(n)
  <2>1. UNCHANGED <<target, issued, reissued>>
    BY <1>3 DEF RemoveEntry, CommissionInsert, idVars
  <2>2. \E l \in {"removeFile", "commissionSave"} :
          \A d \in Client : step'[d] = IF d = c THEN l ELSE step[d]
    BY <1>3, BecomeStep DEF RemoveEntry, CommissionInsert, Types
  <2>3. QED
    BY <2>1, <2>2 DEF Waiting, Joining
<1>4. QED
  BY <1>1, <1>2, <1>3, QuietCommands, ManagerQuiet, ThreadQuiet DEF CommandsNext

(* The node of a command that is past joining waits no more.               *)
LEMMA OthersWait ==
  ASSUME Types, Ids, NEW n \in Node \ reissued, Waiting(n), NEW c \in Client,
         step[c] # "idle", ~Joining(c)
  PROVE  target[c] # n
  BY DEF Types, Ids, Waiting, IssuedInv, FreshInv

(* What a command leaves alone of an untouched node.                       *)
LEMMA CommandUntouched ==
  ASSUME Types, NEW n \in Node, Untouched(n),
         UNCHANGED <<rx, cur, link, graceTimers, boot, supervised>>,
         n \notin known',
         \/ requests' = requests
         \/ \E r \in SupervisorRequest : requests' = Append(requests, r) /\ r.node # n
  PROVE  Untouched(n)'
<1>1. \A i \in 1..Len(requests') : requests'[i].node # n
  <2>1. requests \in Seq(SupervisorRequest)
    BY DEF Types, CommandsTypeOK
  <2>2. ASSUME NEW r \in SupervisorRequest, requests' = Append(requests, r), r.node # n
        PROVE  \A i \in 1..Len(requests') : requests'[i].node # n
    <3>1. /\ Len(requests) \in Nat /\ Len(requests') = Len(requests) + 1
          /\ \A i \in 1..Len(requests) : requests'[i] = requests[i]
          /\ requests'[Len(requests) + 1] = r
      BY <2>1, <2>2
    <3>2. QED
      BY <2>2, <3>1 DEF Untouched
  <2>3. QED
    BY <2>2 DEF Untouched
<1>2. QED
  BY <1>1 DEF Untouched

LEMMA CommandsUntouched ==
  ASSUME Types, Ids, NEW n \in Node \ reissued', Waiting(n), n \notin reissued,
         Waiting(n)', Untouched(n), NEW c \in Client, Commands(c)
  PROVE  Untouched(n)'
<1>1. n \notin known
  BY DEF Untouched
<1>2. ASSUME NEW m \in Node, RemoveNode(c, m)
      PROVE  Untouched(n)'
  <2>1. PICK r \in SupervisorRequest : r = [op |-> "stop", node |-> m]
    BY DEF SupervisorRequest
  <2>2. /\ requests' = Append(requests, r) /\ r.node # n /\ known' = known
        /\ UNCHANGED <<rx, cur, link, graceTimers, boot, supervised>>
    BY <1>1, <1>2, <2>1 DEF RemoveNode, vars, registryVars, stackVars, localVars,
       timerVars, bootVars
  <2>3. QED
    BY <1>1, <2>2, CommandUntouched
<1>3. CASE CommissionStart(c)
  <2>1. target[c] \in Node /\ target[c] # n
    BY <1>3, OthersWait DEF CommissionStart, At, Joining, Types, LocalsInv
  <2>2. PICK r \in SupervisorRequest : r = [op |-> "start", node |-> target[c]]
    BY <2>1 DEF SupervisorRequest
  <2>3. /\ requests' = Append(requests, r) /\ r.node # n /\ known' = known
        /\ UNCHANGED <<rx, cur, link, graceTimers, boot, supervised>>
    BY <1>3, <2>1, <2>2 DEF CommissionStart, vars, registryVars, stackVars, localVars,
       timerVars, bootVars
  <2>4. QED
    BY <1>1, <2>3, CommandUntouched
<1>4. CASE CommissionInsert(c)
  <2>1. /\ known' = known \cup {target[c]} /\ step[c] = "commissionInterview"
        /\ UNCHANGED <<rx, cur, link, graceTimers, boot, supervised, requests, target, issued>>
    BY <1>4 DEF CommissionInsert, At, managerVars, stackVars, localVars, timerVars,
       bootVars, thread, idVars
  <2>2. \A d \in Client : step'[d] = IF d = c THEN "commissionSave" ELSE step[d]
    BY <1>4, BecomeStep DEF CommissionInsert, Types
  <2>3. \A d \in Client : ~Joining(d)'
    BY <2>1, <2>2 DEF Types, CommandsTypeOK, Joining, Commissioning
  <2>4. n \notin issued
    BY <2>1, <2>3 DEF Waiting
  <2>5. target[c] \in issued
    BY <2>1 DEF Ids, IssuedInv
  <2>6. QED
    BY <1>1, <2>1, <2>4, <2>5, CommandUntouched
<1>5. CASE \/ \E m \in Node : InterviewNode(c, m)
           \/ InterviewRecord(c) \/ InterviewData(c) \/ Commission(c)
           \/ CommissionFails(c) \/ CommissionJoins(c) \/ CommissionInterviewFails(c)
           \/ CommissionData(c)
  <2>1. UNCHANGED <<known, rx, cur, link, graceTimers, boot, supervised, requests>>
    BY <1>5 DEF InterviewNode, InterviewRecord, InterviewData, Commission,
       CommissionFails, CommissionJoins, CommissionInterviewFails, CommissionData,
       vars, registryVars, stackVars, localVars, timerVars, bootVars, thread
  <2>2. QED
    BY <1>1, <2>1, CommandUntouched
<1>6. CASE \/ InterviewDone(c) \/ InterviewSave(c) \/ InterviewSend(c)
           \/ RemoveEntry(c) \/ RemoveFile(c) \/ RemoveSend(c)
           \/ CommissionSave(c) \/ CommissionSend(c)
  <2>1. /\ known' \subseteq known
        /\ UNCHANGED <<rx, cur, link, graceTimers, boot, supervised, requests>>
    BY <1>6 DEF InterviewDone, InterviewSave, InterviewSend, RemoveEntry, RemoveFile,
       RemoveSend, CommissionSave, CommissionSend, registryVars, managerVars, stackVars,
       localVars, timerVars, bootVars, thread
  <2>2. QED
    BY <1>1, <2>1, CommandUntouched
<1>7. QED
  BY <1>2, <1>3, <1>4, <1>5, <1>6 DEF Commands

LEMMA ThreadUntouched ==
  ASSUME Types, NEW n \in Node, Untouched(n),
         BootReads \/ (\E m \in boot : BootStarts(m)) \/ ServeRequest
  PROVE  Untouched(n)'
<1>1. UNCHANGED <<known, rx, cur, link, graceTimers>>
  BY DEF BootReads, BootStarts, ServeRequest, vars, registryVars, stackVars, localVars,
     timerVars
<1>2. CASE BootReads
  BY <1>1, <1>2 DEF BootReads, Untouched, thread
<1>3. ASSUME NEW m \in boot, BootStarts(m)
      PROVE  Untouched(n)'
  <2>1. m \in Node /\ m # n
    BY <1>3 DEF Untouched, Types, CommandsTypeOK
  <2>2. /\ requests \in Seq(SupervisorRequest) /\ boot' = boot \ {m}
        /\ requests' = Append(requests, [op |-> "start", node |-> m])
        /\ supervised' = supervised
    BY <1>3 DEF BootStarts, Types, CommandsTypeOK
  <2>3. \A i \in 1..Len(requests') : requests'[i].node # n
    BY <2>1, <2>2 DEF Untouched
  <2>4. QED
    BY <1>1, <2>2, <2>3 DEF Untouched
<1>4. CASE ServeRequest
  <2>1. /\ requests \in Seq(SupervisorRequest) /\ requests # <<>>
        /\ requests' = Tail(requests) /\ boot' = boot
        /\ Len(requests) \in Nat /\ Len(requests) >= 1
        /\ Len(requests') = Len(requests) - 1 /\ Head(requests) = requests[1]
        /\ \A i \in 1..Len(requests') : requests'[i] = requests[i + 1]
    BY <1>4 DEF ServeRequest, Types, CommandsTypeOK, bootVars
  <2>2. \A i \in 1..Len(requests') : requests'[i].node # n
    BY <2>1 DEF Untouched
  <2>3. Head(requests).node # n
    BY <2>1 DEF Untouched
  <2>4. n \notin supervised'
    BY <1>4, <2>3 DEF ServeRequest, Untouched
  <2>5. QED
    BY <1>1, <2>1, <2>2, <2>4 DEF Untouched
<1>5. QED
  BY <1>2, <1>3, <1>4

LEMMA RestartUntouched ==
  ASSUME Types, Ids, Restart
  PROVE  WaitingInv'
<1> SUFFICES ASSUME NEW n \in Node, Waiting(n)'
             PROVE  Untouched(n)'
  BY DEF WaitingInv
<1>1. /\ known' = files /\ boot' = {} /\ supervised' = {} /\ requests' = <<>>
      /\ rx' = <<>> /\ cur' = Idle /\ link'[n] = "none" /\ graceTimers'[n] = 0
      /\ issued' = issued /\ \A c \in Client : step'[c] = "idle"
  BY DEF Restart
<1>2. n \notin files
  BY <1>1 DEF Waiting, Joining, Ids, IssuedInv
<1>3. QED
  BY <1>1, <1>2 DEF Untouched

LEMMA NextWaiting ==
  ASSUME Types, Ids, WaitingInv, [CommandsNext]_allVars
  PROVE  WaitingInv'
<1>1. CASE Restart
  BY <1>1, RestartUntouched
<1>2. CASE ~Restart
  <2> SUFFICES ASSUME NEW n \in Node \ reissued', Waiting(n)'
               PROVE  Untouched(n)'
    BY DEF WaitingInv
  <2>1. n \in Node \ reissued /\ Waiting(n)
    BY <1>2, WaitedBefore
  <2>2. Untouched(n)
    BY <2>1 DEF WaitingInv
  <2>3. CASE \E c \in Client : Commands(c)
    BY <2>1, <2>2, <2>3, CommandsUntouched
  <2>4. QED
    BY <1>2, <2>1, <2>2, <2>3, ManagerUntouched, ThreadUntouched DEF CommandsNext
<1>3. QED
  BY <1>1, <1>2

(* A command moves nodes in and out of the registry: the ones that stay    *)
(* keep their availability, and the one that joins was never heard of.     *)
LEMMA CommandLink ==
  ASSUME Types, JoinedLinkInv, UNCHANGED <<rx, link, pc, cur, timerVars>>,
         \A n \in known' \ reissued' :
           \/ n \in known \ reissued /\ (n \in available' <=> n \in available)
           \/ n \in Node /\ Untouched(n)
  PROVE  JoinedLinkInv'
<1> DEFINE J == known' \ reissued'
<1>1. \A n : (NoStateEvent(n)' <=> NoStateEvent(n)) /\ (InHand(n)' <=> InHand(n))
  BY DEF NoStateEvent, InHand, StateEvent
<1>2. ASSUME NEW n \in J, n \in Node, Untouched(n)
      PROVE  /\ \A i \in 1..Len(rx) : ~StateEvent(rx[i], n)
             /\ ~InHand(n) /\ link[n] = "none" /\ graceTimers[n] = 0
  BY <1>2 DEF Untouched, InHand, StateEvent, Types, TypeOK, ControlOK
<1>3. LastPendingIsLink(known \ reissued)'
  <2> SUFFICES ASSUME NEW n \in J
               PROVE  /\ \A i \in 1..Len(rx) :
                           /\ StateEvent(rx[i], n)
                           /\ \A j \in 1..Len(rx) : j > i => ~StateEvent(rx[j], n)
                           => rx[i].kind = link[n]
                      /\ NoStateEvent(n) /\ InHand(n) => cur.kind = link[n]
    BY <1>1 DEF LastPendingIsLink, StateEvent
  <2>1. CASE n \in Node /\ Untouched(n)
    BY <1>2, <2>1
  <2>2. CASE n \in known \ reissued
    BY <2>2 DEF JoinedLinkInv, LinkInv, LastPendingIsLink
  <2>3. QED
    BY <2>1, <2>2
<1>4. EntryMeansDown(known \ reissued)'
  BY <1>1, <1>2 DEF JoinedLinkInv, LinkInv, EntryMeansDown, timerVars
<1>5. UpIsAvailable(known \ reissued)'
  BY <1>1, <1>2 DEF JoinedLinkInv, LinkInv, UpIsAvailable
<1>6. DownHasEntry(known \ reissued)'
  BY <1>1, <1>2 DEF JoinedLinkInv, LinkInv, DownHasEntry, timerVars
<1>7. EntryHasTimer'
  BY DEF JoinedLinkInv, LinkInv, EntryHasTimer, timerVars
<1>8. QED
  BY <1>3, <1>4, <1>5, <1>6, <1>7 DEF JoinedLinkInv, LinkInv

LEMMA CommandsLink ==
  ASSUME Types, Ids, WaitingInv, JoinedLinkInv, NEW c \in Client, Commands(c)
  PROVE  JoinedLinkInv'
<1>1. CASE RemoveEntry(c)
  <2>1. /\ UNCHANGED <<rx, link, pc, cur, timerVars, reissued>>
        /\ known' = known \ {target[c]} /\ available' = available \ {target[c]}
    BY <1>1 DEF RemoveEntry, managerVars, stackVars, localVars, idVars
  <2>2. QED
    BY <2>1, CommandLink
<1>2. CASE CommissionInsert(c)
  <2>1. /\ UNCHANGED <<rx, link, pc, cur, timerVars, reissued>>
        /\ known' = known \cup {target[c]} /\ available' = available \ {target[c]}
        /\ step[c] = "commissionInterview"
    BY <1>2 DEF CommissionInsert, At, managerVars, stackVars, localVars, idVars
  <2>2. target[c] \in Node /\ Waiting(target[c])
    BY <2>1 DEF Types, LocalsInv, Waiting, Joining
  <2>3. target[c] \notin reissued => Untouched(target[c])
    BY <2>2 DEF WaitingInv
  <2>4. QED
    BY <2>1, <2>2, <2>3, CommandLink
<1>3. CASE \/ \E m \in Node : InterviewNode(c, m) \/ RemoveNode(c, m)
           \/ InterviewRecord(c) \/ InterviewData(c) \/ Commission(c)
           \/ CommissionFails(c) \/ CommissionJoins(c) \/ CommissionInterviewFails(c)
           \/ CommissionData(c) \/ CommissionStart(c)
  <2>1. ManagerIdle(c)
    BY <1>3 DEF ManagerIdle
  <2>2. UNCHANGED <<known, available, rx, link, pc, cur, timerVars>>
    BY <2>1, ManagerIdleStep DEF vars, registryVars, stackVars, localVars
  <2>3. reissued \subseteq reissued'
    BY <1>3 DEF InterviewNode, RemoveNode, InterviewRecord, InterviewData, Commission,
       CommissionFails, CommissionJoins, CommissionInterviewFails, CommissionData,
       CommissionStart, idVars
  <2>4. QED
    BY <2>2, <2>3, CommandLink
<1>4. CASE \/ InterviewDone(c) \/ InterviewSave(c) \/ InterviewSend(c)
           \/ RemoveFile(c) \/ RemoveSend(c) \/ CommissionSave(c) \/ CommissionSend(c)
  <2>1. UNCHANGED <<known, available, rx, link, pc, cur, timerVars, reissued>>
    BY <1>4 DEF InterviewDone, InterviewSave, InterviewSend, RemoveFile, RemoveSend,
       CommissionSave, CommissionSend, registryVars, managerVars, stackVars, localVars,
       idVars
  <2>2. QED
    BY <2>1, CommandLink
<1>5. QED
  BY <1>1, <1>2, <1>3, <1>4 DEF Commands

LEMMA NextJoinedLink ==
  ASSUME Types, Ids, WaitingInv, JoinedLinkInv, [CommandsNext]_allVars
  PROVE  JoinedLinkInv'
<1>1. CASE Manager \/ UNCHANGED allVars
  <2>1. PICK K : K = known \ reissued
    OBVIOUS
  <2>2. [Next]_vars /\ reissued' = reissued
    BY <1>1, ManagerNext DEF Manager, allVars, cmdVars, idVars, Types
  <2>3. K \subseteq known /\ LinkInv(K) /\ TypeOK
    BY <2>1 DEF JoinedLinkInv, Types
  <2>4. LinkInv(K)' /\ known' = known
    BY <2>2, <2>3, StepLink, KnownStays
  <2>5. K = known' \ reissued'
    BY <2>1, <2>2, <2>4
  <2>6. QED
    BY <2>4, <2>5
       DEF JoinedLinkInv, LinkInv, LastPendingIsLink, EntryMeansDown, UpIsAvailable,
           DownHasEntry
<1>2. CASE BootReads \/ (\E n \in boot : BootStarts(n)) \/ ServeRequest
  <2>1. UNCHANGED <<known, available, rx, link, pc, cur, timerVars, reissued>>
    BY <1>2 DEF BootReads, BootStarts, ServeRequest, vars, registryVars, stackVars,
       localVars, idVars
  <2>2. QED
    BY <2>1, CommandLink
<1>3. CASE Restart
  <2>1. /\ rx' = <<>> /\ pc' = "select" /\ available' = {} /\ known' \subseteq Node
        /\ \A n \in Node : graceTimers'[n] = 0 /\ link'[n] = "none"
    BY <1>3 DEF Restart, Types, TypeOK
  <2>2. QED
    BY <2>1 DEF JoinedLinkInv, LinkInv, LastPendingIsLink, EntryMeansDown, UpIsAvailable,
       DownHasEntry, EntryHasTimer, InHand
<1>4. QED
  BY <1>1, <1>2, <1>3, CommandsLink DEF CommandsNext

LEMMA InitJoined ==
  ASSUME CommandsInit
  PROVE  WaitingInv /\ JoinedLinkInv
<1>1. /\ rx = <<>> /\ cur = Idle /\ pc = "select" /\ available = {} /\ known \subseteq Node
      /\ \A n \in Node : graceTimers[n] = 0 /\ link[n] = "none"
  BY InitType DEF CommandsInit, Init, TypeOK
<1>2. /\ boot = {} /\ supervised = {} /\ requests = <<>> /\ issued = known
      /\ \A c \in Client : ~Joining(c)
  BY DEF CommandsInit, Joining
<1>3. WaitingInv
  BY <1>1, <1>2 DEF WaitingInv, Waiting, Untouched
<1>4. JoinedLinkInv
  BY <1>1 DEF JoinedLinkInv, LinkInv, LastPendingIsLink, EntryMeansDown, UpIsAvailable,
     DownHasEntry, EntryHasTimer, InHand
<1>5. QED
  BY <1>3, <1>4

(* OutageIsTimed with the commands at work, for the nodes whose id was     *)
(* handed out once.                                                        *)
JoinedOutageIsTimed ==
  \A n \in available \ reissued :
    Quiet(n) /\ link[n] = "Reconnecting" /\ pc # "stopped" =>
      /\ graceTimers[n] # 0
      /\ LET t == [node |-> n, id |-> graceTimers[n]]
         IN t \in sleeping \/ \E i \in DOMAIN graceRx : graceRx[i] = t

Served == Types /\ Ids /\ WaitingInv /\ JoinedLinkInv

LEMMA InitServed == CommandsInit => Served
  BY InitTypes, InitIds, InitJoined DEF Served

LEMMA NextServed == Served /\ [CommandsNext]_allVars => Served'
  BY NextTypes, NextIds, NextWaiting, NextJoinedLink DEF Served

(* A node whose last reported link state is Connected is available once    *)
(* the report is handled, with interviews, removals and commissionings     *)
(* between any two steps of the node manager, and across restarts: neither *)
(* the entry insert_node puts in the registry (unavailable) nor an expiry  *)
(* signal of an earlier outage hides a link that is up, unless the node's  *)
(* id was handed out a second time.                                        *)
THEOREM JoinedNodesAreServed == CommandsSpec => []JoinedIsAvailable
<1>1. Served => JoinedIsAvailable
  <2> SUFFICES ASSUME Served PROVE JoinedIsAvailable
    OBVIOUS
  <2>1. TypeOK /\ known \subseteq Node
    BY DEF Served, Types, TypeOK
  <2>2. QED
    BY <2>1, QuietLink DEF Served, JoinedLinkInv, LinkInv, UpIsAvailable, JoinedIsAvailable
<1>2. QED
  BY <1>1, InitServed, NextServed, PTL DEF CommandsSpec

(* With the commands at work too no outage is forgotten: an available node *)
(* whose link is down has an entry in grace_timers and the timer task or   *)
(* queued signal of that entry, unless its id was handed out twice.        *)
THEOREM JoinedOutagesAreTimed == CommandsSpec => []JoinedOutageIsTimed
<1>1. Served => JoinedOutageIsTimed
  <2> SUFFICES ASSUME Served PROVE JoinedOutageIsTimed
    OBVIOUS
  <2>1. /\ TypeOK /\ known \subseteq Node /\ available \subseteq known
        /\ DOMAIN graceRx = 1..Len(graceRx)
    BY DEF Served, Types, TypeOK
  <2>2. QED
    BY <2>1, QuietLink DEF Served, JoinedLinkInv, LinkInv, DownHasEntry, EntryHasTimer,
       JoinedOutageIsTimed
<1>2. QED
  BY <1>1, InitServed, NextServed, PTL DEF CommandsSpec

=============================================================================
