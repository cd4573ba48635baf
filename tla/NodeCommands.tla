---------------------------- MODULE NodeCommands ----------------------------
(***************************************************************************)
(* The commands that add, refresh and remove nodes, running beside the     *)
(* node manager: do_commission, interview_node and remove_node of          *)
(* crates/controller/src/commands/, MatterController::new of real.rs, the  *)
(* node id allocation of storage.rs, and the part of the stack thread that *)
(* starts and stops supervisors.                                           *)
(*                                                                         *)
(* A client runs one command at a time; two clients' commands, and the     *)
(* consumer of NodeManager, interleave at every registry call, file        *)
(* write, broadcast and await.  step[c] is where client c's command is,    *)
(* target[c] its node, held[c] the snapshot it carries from one step to    *)
(* the next.  The process may stop at any point and start again from its   *)
(* files (Restart).                                                        *)
(***************************************************************************)
EXTENDS NodeManager

CONSTANTS
  Client,            \* WebSocket connections
  ControllerNodeId,  \* the controller's own node id, never handed out
  MaxRestarts,       \* bound: restarts of the process
  MaxCommands        \* bound: commands started by the clients

ASSUME NodeAssumption == Node \subseteq Nat \ {0}

(* The file system holds finitely many node files.                         *)
ASSUME FilesAssumption == \A fs \in Provisioned : IsFiniteSet(fs)

ASSUME CommandsAssumption ==
  ControllerNodeId \in Nat /\ MaxRestarts \in Nat /\ MaxCommands \in Nat

VARIABLES
  step, target, held, started,
  \* alloc_lock, next_node_id in memory and in config.json
  allocLock, nextNodeId, savedNextNodeId,
  \* the start-up task: whether it read node_ids, what it still has to start
  bootRead, boot,
  \* the stack thread: supervisor requests in its channel, running supervisors
  requests, supervised,
  \* for the bound and the properties: restarts so far; ids handed out, ids
  \* handed out twice, and whether a config write ever failed; nodes announced
  \* as added; nodes taken out of the registry, and nodes announced as removed
  restarts, issued, reissued, configUnsaved, added, dropped, removed

clientVars == <<step, target, held, started>>
idVars     == <<allocLock, nextNodeId, savedNextNodeId, issued, reissued,
                configUnsaved>>
bootVars   == <<bootRead, boot>>
thread     == <<requests, supervised>>
ghostVars  == <<added, dropped, removed, restarts>>

cmdVars == <<clientVars, idVars, bootVars, thread, ghostVars>>

allVars == <<vars, cmdVars>>

Free == "free"

ASSUME ClientAssumption == Free \notin Client

Commissioning == {"commission", "commissionInterview", "commissionSave",
                  "commissionData", "commissionSend", "commissionStart"}

Steps == Commissioning \cup
  {"idle", "interview", "interviewRecord", "interviewSave", "interviewData",
   "interviewSend", "removeFabric", "removeFile", "removeSend"}

SupervisorRequest == [op : {"start", "stop"}, node : Node]

CommandsTypeOK ==
  /\ step \in [Client -> Steps]
  /\ target \in [Client -> Node \cup {0}]
  /\ held \in [Client -> NodeSnapshot \cup {NoSnapshot}]
  /\ started \in 0..MaxCommands
  /\ allocLock \in Client \cup {Free}
  /\ nextNodeId \in Nat
  /\ savedNextNodeId \in Nat
  /\ bootRead \in BOOLEAN
  /\ boot \subseteq Node
  /\ requests \in Seq(SupervisorRequest)
  /\ supervised \subseteq Node
  /\ restarts \in 0..MaxRestarts
  /\ issued \cup reissued \cup added \cup dropped \cup removed \subseteq Node
  /\ configUnsaved \in BOOLEAN
  \* one commissioning at a time, by the holder of alloc_lock
  /\ \A c \in Client : step[c] \in Commissioning <=> allocLock = c

CommandsInit ==
  /\ Init
  /\ step = [c \in Client |-> "idle"]
  /\ target = [c \in Client |-> 0]
  /\ held = [c \in Client |-> NoSnapshot]
  /\ started = 0
  /\ allocLock = Free
  /\ nextNodeId \in {m \in {0, 1} \cup {k + 1 : k \in known} : \A n \in known : n < m}
  /\ savedNextNodeId = nextNodeId
  /\ bootRead = FALSE /\ boot = {}
  /\ requests = <<>> /\ supervised = {}
  /\ restarts = 0
  /\ issued = known /\ reissued = {} /\ configUnsaved = FALSE
  /\ added = known /\ dropped = {} /\ removed = {}

-----------------------------------------------------------------------------
Become(c, label) == step' = [step EXCEPT ![c] = label]

(* The command answers: its locals are gone.                               *)
Answer(c) ==
  /\ step' = [step EXCEPT ![c] = "idle"]
  /\ target' = [target EXCEPT ![c] = 0]
  /\ held' = [held EXCEPT ![c] = NoSnapshot]

Begin(c, label, n) ==
  /\ step[c] = "idle"
  /\ started < MaxCommands
  /\ started' = started + 1
  /\ target' = [target EXCEPT ![c] = n]
  /\ Become(c, label)
  /\ UNCHANGED held

At(c, label) == step[c] = label /\ UNCHANGED started

(* Take a snapshot of node n and go on, or go elsewhere if it is gone.     *)
HoldSnapshot(c, n, label) ==
  /\ held' = [held EXCEPT ![c] = Snapshot(n)]
  /\ Become(c, label)
  /\ UNCHANGED target

(* The variables of the node manager no command writes.                    *)
managerVars == <<timerVars, localVars, stackVars, history>>

(* interview_node.                                                         *)
InterviewNode(c, n) ==
  /\ n \in known
  /\ Begin(c, "interview", n)
  /\ UNCHANGED <<vars, idVars, bootVars, thread, ghostVars>>

(* Mutant: the interview puts the entry back instead of updating it.       *)
InterviewUpserts(c) ==
  /\ At(c, "interview")
  /\ \/ Answer(c) /\ UNCHANGED <<known, attrs>>
     \/ \E a \in Attrs :
          /\ attrs' = [attrs EXCEPT ![target[c]] = a]
          /\ known' = known \cup {target[c]}
          /\ Become(c, "interviewRecord")
          /\ UNCHANGED <<target, held>>
  /\ UNCHANGED <<available, storageVars, busVars, managerVars, idVars, bootVars,
                 thread, ghostVars>>

(* The stack's answer: an error, or attributes that replace the cached     *)
(* ones if the node is still there.                                        *)
InterviewDone(c) ==
  /\ At(c, "interview")
  /\ \/ Answer(c) /\ UNCHANGED attrs
     \/ \E a \in Attrs :
          /\ attrs' = IF target[c] \in known
                      THEN [attrs EXCEPT ![target[c]] = a] ELSE attrs
          /\ Become(c, "interviewRecord")
          /\ UNCHANGED <<target, held>>
  /\ UNCHANGED <<known, available, storageVars, busVars, managerVars, idVars,
                 bootVars, thread, ghostVars>>

InterviewRecord(c) ==
  /\ At(c, "interviewRecord")
  /\ IF target[c] \in known THEN HoldSnapshot(c, target[c], "interviewSave")
     ELSE Become(c, "interviewData") /\ UNCHANGED <<target, held>>
  /\ UNCHANGED <<vars, idVars, bootVars, thread, ghostVars>>

InterviewSave(c) ==
  /\ At(c, "interviewSave")
  /\ WriteFile(target[c], held[c].attributes)
  /\ Become(c, "interviewData")
  /\ UNCHANGED <<registryVars, busVars, managerVars, target, held, idVars,
                 bootVars, thread, ghostVars>>

InterviewData(c) ==
  /\ At(c, "interviewData")
  /\ IF target[c] \in known THEN HoldSnapshot(c, target[c], "interviewSend")
     ELSE Answer(c)
  /\ UNCHANGED <<vars, idVars, bootVars, thread, ghostVars>>

InterviewSend(c) ==
  /\ At(c, "interviewSend")
  /\ Publish(target[c], held[c])
  /\ Answer(c)
  /\ UNCHANGED <<registryVars, storageVars, managerVars, idVars, bootVars,
                 thread, ghostVars>>

-----------------------------------------------------------------------------
(* remove_node.  Whether RemoveFabric reaches the device makes no          *)
(* difference to the controller.                                           *)
RemoveNode(c, n) ==
  /\ n \in known
  /\ Begin(c, "removeFabric", n)
  /\ requests' = Append(requests, [op |-> "stop", node |-> n])
  /\ UNCHANGED <<vars, idVars, bootVars, supervised, ghostVars>>

RemoveEntry(c) ==
  /\ At(c, "removeFabric")
  /\ known' = known \ {target[c]}
  /\ available' = available \ {target[c]}
  /\ dropped' = dropped \cup {target[c]}
  /\ added' = added \ {target[c]}
  /\ Become(c, "removeFile")
  /\ UNCHANGED <<attrs, storageVars, busVars, managerVars, target, held, idVars,
                 bootVars, thread, removed, restarts>>

(* Deleting the file may fail; that is logged.                             *)
RemoveFile(c) ==
  /\ At(c, "removeFile")
  /\ \/ files' = files \ {target[c]} /\ unsaved' = unsaved \ {target[c]}
     \/ unsaved' = unsaved \cup {target[c]} /\ UNCHANGED files
  /\ Become(c, "removeSend")
  /\ UNCHANGED <<registryVars, file, busVars, managerVars, target, held, idVars,
                 bootVars, thread, ghostVars>>

RemoveSend(c) ==
  /\ At(c, "removeSend")
  /\ seen' = seen \ {target[c]}
  /\ seenAvailable' = seenAvailable \ {target[c]}
  /\ removed' = removed \cup {target[c]}
  /\ Answer(c)
  /\ UNCHANGED <<registryVars, storageVars, managerVars, seenAttrs, eventLog,
                 idVars, bootVars, thread, added, dropped, restarts>>

-----------------------------------------------------------------------------
(* do_commission.                                                          *)

(* allocate_node_id: the first id from next_node_id on that is in use      *)
(* neither by a node nor by the controller.                                *)
InUse(n) == n \in known \/ n = ControllerNodeId

Start == IF nextNodeId < 1 THEN 1 ELSE nextNodeId

Candidate ==
  CHOOSE n \in Start..(Start + Cardinality(known) + 1) :
    ~InUse(n) /\ \A m \in Start..(n - 1) : InUse(m)

(* Mutant: the id is taken in memory and config.json is written without it.*)
CommissionUnpersisted(c) ==
  /\ allocLock = Free
  /\ Candidate \in Node
  /\ Begin(c, "commission", Candidate)
  /\ allocLock' = c
  /\ savedNextNodeId' = nextNodeId
  /\ nextNodeId' = Candidate + 1
  /\ reissued' = reissued \cup ({Candidate} \cap issued)
  /\ issued' = issued \cup {Candidate}
  /\ UNCHANGED <<vars, bootVars, thread, ghostVars, configUnsaved>>

(* Take alloc_lock, allocate the id and write config.json (update_config): *)
(* a failed write leaves the id reserved in memory only.                   *)
Commission(c) ==
  /\ allocLock = Free
  /\ Candidate \in Node
  /\ Begin(c, "commission", Candidate)
  /\ allocLock' = c
  /\ nextNodeId' = Candidate + 1
  /\ \/ savedNextNodeId' = nextNodeId' /\ UNCHANGED configUnsaved
     \/ configUnsaved' = TRUE /\ UNCHANGED savedNextNodeId
  /\ reissued' = reissued \cup ({Candidate} \cap issued)
  /\ issued' = issued \cup {Candidate}
  /\ UNCHANGED <<vars, bootVars, thread, ghostVars>>

(* The device does not join the fabric: the id is burned.                  *)
CommissionFails(c) ==
  /\ At(c, "commission")
  /\ Answer(c)
  /\ allocLock' = Free
  /\ UNCHANGED <<vars, nextNodeId, savedNextNodeId, issued, reissued,
                 configUnsaved, bootVars, thread, ghostVars>>

(* Mutant: the supervisor starts before the node is in the registry.       *)
CommissionStartsEarly(c) ==
  /\ At(c, "commission")
  /\ Become(c, "commissionInterview")
  /\ requests' = Append(requests, [op |-> "start", node |-> target[c]])
  /\ UNCHANGED <<vars, target, held, idVars, bootVars, supervised, ghostVars>>

CommissionJoins(c) ==
  /\ At(c, "commission")
  /\ Become(c, "commissionInterview")
  /\ UNCHANGED <<vars, target, held, idVars, bootVars, thread, ghostVars>>

(* The follow-up interview fails: the fabric is taken off the device again.*)
CommissionInterviewFails(c) ==
  /\ At(c, "commissionInterview")
  /\ Answer(c)
  /\ allocLock' = Free
  /\ UNCHANGED <<vars, nextNodeId, savedNextNodeId, issued, reissued,
                 configUnsaved, bootVars, thread, ghostVars>>

CommissionInsert(c) ==
  /\ At(c, "commissionInterview")
  /\ \E a \in Attrs :
       /\ attrs' = [attrs EXCEPT ![target[c]] = a]
       /\ held' = [held EXCEPT ![c] = [available |-> FALSE, attributes |-> a]]
  /\ known' = known \cup {target[c]}
  /\ available' = available \ {target[c]}
  /\ Become(c, "commissionSave")
  /\ UNCHANGED <<storageVars, busVars, managerVars, target, idVars, bootVars,
                 thread, ghostVars>>

CommissionSave(c) ==
  /\ At(c, "commissionSave")
  /\ WriteFile(target[c], held[c].attributes)
  /\ Become(c, "commissionData")
  /\ UNCHANGED <<registryVars, busVars, managerVars, target, held, idVars,
                 bootVars, thread, ghostVars>>

(* node_data for the answer and the event, or "node vanished".             *)
CommissionData(c) ==
  /\ At(c, "commissionData")
  /\ IF target[c] \in known
     THEN HoldSnapshot(c, target[c], "commissionSend") /\ UNCHANGED allocLock
     ELSE Answer(c) /\ allocLock' = Free
  /\ UNCHANGED <<vars, nextNodeId, savedNextNodeId, issued, reissued,
                 configUnsaved, bootVars, thread, ghostVars>>

CommissionSend(c) ==
  /\ At(c, "commissionSend")
  /\ Publish(target[c], held[c])
  /\ added' = added \cup ({target[c]} \cap known)
  /\ Become(c, "commissionStart")
  /\ UNCHANGED <<registryVars, storageVars, managerVars, target, held, idVars,
                 bootVars, thread, dropped, removed, restarts>>

CommissionStart(c) ==
  /\ At(c, "commissionStart")
  /\ requests' = Append(requests, [op |-> "start", node |-> target[c]])
  /\ Answer(c)
  /\ allocLock' = Free
  /\ UNCHANGED <<vars, nextNodeId, savedNextNodeId, issued, reissued,
                 configUnsaved, bootVars, supervised, ghostVars>>

(* Mutant: only nodes that are available get a supervisor at start-up.     *)
BootReadsAvailable ==
  /\ ~bootRead
  /\ bootRead' = TRUE
  /\ boot' = available
  /\ UNCHANGED <<vars, clientVars, idVars, thread, ghostVars>>

-----------------------------------------------------------------------------
(* MatterController::new: a task of its own starts the supervisors.        *)
BootReads ==
  /\ ~bootRead
  /\ bootRead' = TRUE
  /\ boot' = known
  /\ UNCHANGED <<vars, clientVars, idVars, thread, ghostVars>>

BootStarts(n) ==
  /\ n \in boot
  /\ boot' = boot \ {n}
  /\ requests' = Append(requests, [op |-> "start", node |-> n])
  /\ UNCHANGED <<vars, clientVars, idVars, bootRead, supervised, ghostVars>>

(* request_loop: StartSupervisor and StopSupervisor, in channel order.     *)
ServeRequest ==
  /\ requests # <<>>
  /\ requests' = Tail(requests)
  /\ supervised' = IF Head(requests).op = "start"
                   THEN supervised \cup {Head(requests).node}
                   ELSE supervised \ {Head(requests).node}
  /\ UNCHANGED <<vars, clientVars, idVars, bootVars, ghostVars>>

(* The process ends, anywhere, and starts again: only the files survive.   *)
Restart ==
  /\ restarts < MaxRestarts
  /\ restarts' = restarts + 1
  /\ known' = files /\ available' = {} /\ attrs' = file
  /\ rx' = <<>> /\ closed' = FALSE
  /\ graceRx' = <<>> /\ graceTimers' = [n \in Node |-> 0]
  /\ sleeping' = {} /\ history' = <<>> /\ eventLog' = <<>>
  /\ pc' = "select" /\ cur' = Idle /\ idx' = 1 /\ snap' = NoSnapshot
  /\ seen' = known' /\ seenAvailable' = {} /\ seenAttrs' = file
  /\ link' = [n \in Node |-> "none"]
  /\ unsaved' = {}
  /\ step' = [c \in Client |-> "idle"]
  /\ target' = [c \in Client |-> 0]
  /\ held' = [c \in Client |-> NoSnapshot]
  /\ allocLock' = Free
  /\ nextNodeId' = savedNextNodeId
  /\ bootRead' = FALSE /\ boot' = {}
  /\ requests' = <<>> /\ supervised' = {}
  /\ added' = added \cap files
  /\ dropped' = {} /\ removed' = removed \ unsaved
  /\ UNCHANGED <<files, file, nextTimer, budget, started, savedNextNodeId,
                 issued, reissued, configUnsaved>>

Manager ==
  /\ \/ \E n \in supervised : StackReports(n)
     \/ StackGone
     \/ \E t \in sleeping : TimerFires(t)
     \/ Consumer
  /\ UNCHANGED cmdVars

Commands(c) ==
  \/ \E n \in Node : InterviewNode(c, n) \/ RemoveNode(c, n)
  \/ InterviewDone(c)
  \/ InterviewRecord(c)
  \/ InterviewSave(c)
  \/ InterviewData(c)
  \/ InterviewSend(c)
  \/ RemoveEntry(c)
  \/ RemoveFile(c)
  \/ RemoveSend(c)
  \/ Commission(c)
  \/ CommissionFails(c)
  \/ CommissionJoins(c)
  \/ CommissionInterviewFails(c)
  \/ CommissionInsert(c)
  \/ CommissionSave(c)
  \/ CommissionData(c)
  \/ CommissionSend(c)
  \/ CommissionStart(c)

CommandsNext ==
  \/ Manager
  \/ \E c \in Client : Commands(c)
  \/ BootReads
  \/ \E n \in boot : BootStarts(n)
  \/ ServeRequest
  \/ Restart

CommandsSpec == CommandsInit /\ [][CommandsNext]_allVars

-----------------------------------------------------------------------------
(* As long as config.json could be written, no node id is handed out       *)
(* twice, across removals, failed commissionings and restarts: the id is   *)
(* persisted before the device is given it.                                *)
NodeIdsAreFresh == configUnsaved \/ reissued = {}

(* A node taken out of the registry does not come back before a restart,   *)
(* whatever interview, report or commissioning was in progress, unless its *)
(* id was handed out a second time.                                        *)
DroppedStaysGone == dropped \cap known \subseteq reissued

(* Every known node has a supervisor, or one is on its way, or the command *)
(* that adds or removes the node is not finished.                          *)
WillBeSupervised(n) ==
  LET mine == {i \in DOMAIN requests : requests[i].node = n}
      last == CHOOSE i \in mine : \A j \in mine : j <= i
  IN IF mine = {} THEN n \in supervised ELSE requests[last].op = "start"

EveryNodeIsSupervised ==
  \A n \in known \ reissued :
    \/ WillBeSupervised(n)
    \/ n \in boot \/ ~bootRead
    \/ \E c \in Client :
         target[c] = n /\ step[c] \in Commissioning \cup {"removeFabric"}

(* A node that was announced as added is on disk from then on, so that it  *)
(* survives a crash at any moment and is supervised after a restart, and   *)
(* every known node is supervised now, unless a write of its own failed or *)
(* its id was handed out a second time.                                    *)
AddedIsKept ==
  /\ added \subseteq files \cup unsaved \cup reissued
  /\ EveryNodeIsSupervised

(* ConnectedIsAvailable with the commands at work: a node that joined or   *)
(* was interviewed while its link came up is available too, unless its id  *)
(* was handed out a second time.                                           *)
JoinedIsAvailable ==
  \A n \in known \ reissued : Quiet(n) /\ link[n] = "Connected" => n \in available

(* The comment of persist says that a concurrent removal makes it skip the *)
(* write: then a removed node's file would stay deleted.                   *)
RemovedFileStaysGone == \A n \in removed : n \notin files \/ n \in unsaved

=============================================================================
