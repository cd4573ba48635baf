---------------------------- MODULE StackThread -----------------------------
(***************************************************************************)
(* The stack thread as the rest of the server sees it: main starts it and  *)
(* stops it (crates/server/src/main.rs), the commands of clients make      *)
(* requests of it (crates/controller/src/commands), which StackHandle      *)
(* sends and waits for (crates/stack/src/lib.rs), request_loop starts a    *)
(* detached task for each (runtime.rs), and the task talks to a device     *)
(* (ops/interact.rs, ops/window.rs, ops/fabrics.rs).                       *)
(*                                                                         *)
(* The timers of exchanges may end at any time.  Browse and Commission are *)
(* one step here; module Commissioning has what they do, and NodeCommands  *)
(* what interview_node, remove_node and do_commission make of the answers. *)
(* The values read, written or invoked and the supervisors (module         *)
(* Subscription) are not part of this module.                              *)
(***************************************************************************)
EXTENDS Naturals, Sequences

CONSTANTS
  Caller,      \* connections, each of which has one command at a time
  Supervised,  \* the nodes that have a supervisor
  Asks,        \* bound: the requests that each caller makes
  MaxCalls     \* bound: calls made

ASSUME MaxCallsAssumption == MaxCalls \in Nat

ShutdownRequest == "Shutdown"

ASSUME CallerAssumption == ShutdownRequest \notin Caller

Reads == {"Read", "Interview", "DeviceFabrics"}
Sends == {"Write", "Invoke", "RemoveDeviceFabric", "OpenWindow"}
Apart == {"Browse", "Commission"}

(* The requests that are answered.                                         *)
StackRequest == Reads \cup Sends \cup Apart \cup
                  {"UpdateFabricLabel", "NodeAddresses"}

ASSUME AsksAssumption == Asks \in [Caller -> SUBSET StackRequest]

(* rs-matter's error codes, as far as they are told apart, and the kinds   *)
(* of StackError.  "down" is the Sdk error THREAD_DOWN, "refused" the Ok   *)
(* of a write whose status is not 0, "empty" that of a read without        *)
(* values, and "missing" the answer of ensure_node.                        *)
ErrorCode == {"NotFound", "RxTimeout", "Busy", "Invalid"}
StackErrorKind == {"invalid", "unreachable", "timeout", "busy", "sdk"}
Answers == {"none", "ok", "refused", "empty", "missing", "down"} \cup StackErrorKind

VARIABLES
  main,     \* where the server process is
  thread,   \* the stack thread
  ready,    \* its ready handshake
  queue,    \* the request channel
  kind,     \* each caller's last request, "none" if its command made none
  at,       \* where it is
  answer,   \* what it was answered
  stage,    \* the exchange of its request, or one of those that follow it
  session,  \* established: that exchange was opened
  effect,   \* whether the device has carried the request out
  todo,     \* nodes that have yet to be given the fabric label
  fatal,    \* whether main is to end the process by process::exit
  acked,    \* whether Shutdown was acknowledged
  calls     \* for the bound: calls made

progress == <<stage, session, effect, todo>>

callVars == <<kind, at, answer, progress>>

vars == <<main, fatal, thread, ready, queue, callVars, acked, calls>>

TypeOK ==
  /\ main \in {"boot", "binding", "serving", "draining", "ack", "join", "returned",
               "exit"}
  /\ fatal \in BOOLEAN
  /\ thread \in {"starting", "serving", "wedged", "stopped", "ended"}
  /\ ready \in {"none", "ok", "err"}
  /\ queue \in Seq(Caller \cup {ShutdownRequest})
  /\ kind \in [Caller -> StackRequest \cup {"none"}]
  /\ at \in [Caller -> {"idle", "queued", "started", "initiate", "exchange"}]
  /\ answer \in [Caller -> Answers]
  /\ stage \in [Caller -> {"request", "info", "label"}]
  /\ session \in [Caller -> BOOLEAN] /\ effect \in [Caller -> BOOLEAN]
  /\ todo \in [Caller -> SUBSET Supervised]
  /\ acked \in BOOLEAN
  /\ calls \in 0..MaxCalls
  /\ \A c \in Caller : at[c] = "queued" <=> \E i \in DOMAIN queue : queue[i] = c

Init ==
  /\ main = "boot" /\ fatal = FALSE
  /\ thread = "starting" /\ ready = "none"
  /\ queue = <<>>
  /\ kind = [c \in Caller |-> "none"]
  /\ at = [c \in Caller |-> "idle"]
  /\ answer = [c \in Caller |-> "none"]
  /\ stage = [c \in Caller |-> "request"]
  /\ session = [c \in Caller |-> FALSE]
  /\ effect = [c \in Caller |-> FALSE]
  /\ todo = [c \in Caller |-> {}]
  /\ acked = FALSE
  /\ calls = 0

-----------------------------------------------------------------------------
(* The thread.  run_stack answers the ready handshake and then serves; a   *)
(* failed boot drops the channel with everything else.                     *)

RunStack ==
  /\ thread = "starting"
  /\ \/ thread' = "serving" /\ ready' = "ok"
     \/ thread' = "ended" /\ ready' = "err"
  /\ UNCHANGED <<main, fatal, queue, callVars, acked, calls>>

(* The request channel is closed: its receiver is dropped, with every      *)
(* request that still waits in it.                                         *)
DropReceiver ==
  /\ queue' = <<>>
  /\ at' = [c \in Caller |-> IF at[c] = "queued" THEN "idle" ELSE at[c]]
  /\ answer' = [c \in Caller |-> IF at[c] = "queued" THEN "down" ELSE answer[c]]

Closed == thread \in {"stopped", "ended"}

TransportDies ==
  /\ thread = "serving"
  /\ thread' = "stopped"
  /\ DropReceiver
  /\ UNCHANGED <<main, fatal, ready, kind, progress, acked, calls>>

(* Something blocks the executor's only thread.                            *)
Wedge ==
  /\ thread = "serving"
  /\ thread' = "wedged"
  /\ UNCHANGED <<main, fatal, ready, queue, callVars, acked, calls>>

(* run_stack returns: the executor drops the tasks that were left, each    *)
(* with its reply channel, and the context with the sender of the events.  *)
ThreadEnds ==
  /\ thread = "stopped"
  /\ thread' = "ended"
  /\ at' = [c \in Caller |-> "idle"]
  /\ answer' = [c \in Caller |-> IF at[c] = "idle" THEN answer[c] ELSE "down"]
  /\ UNCHANGED <<main, fatal, ready, queue, kind, progress, acked, calls>>

-----------------------------------------------------------------------------
(* The commands, StackHandle::request and request_loop.                    *)

AnsweredAtOnce(c, k, a) ==
  /\ kind' = [kind EXCEPT ![c] = k]
  /\ answer' = [answer EXCEPT ![c] = a]
  /\ UNCHANGED <<queue, at>>

Request(c, k) ==
  IF Closed
    THEN AnsweredAtOnce(c, k, "down")
    ELSE /\ queue' = Append(queue, c)
         /\ kind' = [kind EXCEPT ![c] = k]
         /\ at' = [at EXCEPT ![c] = "queued"]
         /\ answer' = [answer EXCEPT ![c] = "none"]

(* A command is rejected for its arguments or for its node, or makes its   *)
(* request.  The connections go with tokio's runtime, when main returns.   *)
Command(c, k, rejections) ==
  /\ main \notin {"boot", "returned", "exit"}
  /\ at[c] = "idle"
  /\ calls < MaxCalls /\ k \in Asks[c]
  /\ calls' = calls + 1
  /\ stage' = [stage EXCEPT ![c] = "request"]
  /\ session' = [session EXCEPT ![c] = FALSE]
  /\ effect' = [effect EXCEPT ![c] = FALSE]
  /\ todo' = [todo EXCEPT ![c] = {}]
  /\ Request(c, k) \/ \E a \in rejections : AnsweredAtOnce(c, "none", a)
  /\ UNCHANGED <<main, fatal, thread, ready, acked>>

(* require_u64, narrow and their like, and ensure_node.                    *)
InvalidOrMissing == {"invalid", "missing"}

ReadAttribute(c) == Command(c, "Read", InvalidOrMissing)
WriteAttribute(c) == Command(c, "Write", InvalidOrMissing)
DeviceCommand(c) == Command(c, "Invoke", InvalidOrMissing)

(* set_acl_entry and set_node_binding write lists of their own making.     *)
SetNodeList(c) == Command(c, "Write", InvalidOrMissing)

GetMatterFabrics(c) == Command(c, "DeviceFabrics", InvalidOrMissing)
RemoveMatterFabric(c) == Command(c, "RemoveDeviceFabric", InvalidOrMissing)
OpenCommissioningWindow(c) == Command(c, "OpenWindow", InvalidOrMissing)
InterviewNode(c) == Command(c, "Interview", InvalidOrMissing)

(* ping_node and get_node_ip_addresses.                                    *)
NodeAddressesCommand(c) == Command(c, "NodeAddresses", InvalidOrMissing)

Discover(c) == Command(c, "Browse", {})
CommissionCommand(c) == Command(c, "Commission", {"invalid"})
SetDefaultFabricLabel(c) == Command(c, "UpdateFabricLabel", {})

HandleCommand(c) ==
  \/ ReadAttribute(c) \/ WriteAttribute(c) \/ DeviceCommand(c) \/ SetNodeList(c)
  \/ GetMatterFabrics(c) \/ RemoveMatterFabric(c) \/ OpenCommissioningWindow(c)
  \/ InterviewNode(c) \/ NodeAddressesCommand(c) \/ Discover(c)
  \/ CommissionCommand(c) \/ SetDefaultFabricLabel(c)

(* The error code that each command has for the errors stack_err does not  *)
(* tell apart.                                                             *)
DefaultCode(k) ==
  CASE k = "Commission" -> "NodeCommissionFailed"
    [] k = "Interview"  -> "NodeInterviewFailed"
    [] OTHER            -> "SdkStackError"

StackErr(default, a) ==
  CASE a = "invalid"     -> "InvalidArguments"
    [] a = "unreachable" -> "NodeNotResolving"
    [] OTHER             -> default

(* The list of fabrics and the label have one code for all errors, and     *)
(* addresses fall back to the stored ones.                                 *)
ErrorReply(k, a) ==
  CASE k = "NodeAddresses"                        -> "ok"
    [] k \in {"DeviceFabrics", "UpdateFabricLabel"} -> "SdkStackError"
    [] OTHER                                      -> StackErr(DefaultCode(k), a)

(* What the client is told.                                                *)
Reply(c) ==
  CASE answer[c] \in {"none", "ok", "refused"}      -> answer[c]
    [] answer[c] = "missing"                        -> "NodeNotExists"
    [] answer[c] = "empty"                          -> "SdkStackError"
    [] answer[c] \in StackErrorKind \cup {"down"}  -> ErrorReply(kind[c], answer[c])

(* Mutant: the task is spawned and its handle dropped, which cancels it.   *)
ServeAndCancel ==
  /\ thread = "serving"
  /\ queue # <<>> /\ Head(queue) \in Caller
  /\ at' = [at EXCEPT ![Head(queue)] = "idle"]
  /\ answer' = [answer EXCEPT ![Head(queue)] = "down"]
  /\ queue' = Tail(queue)
  /\ UNCHANGED <<main, fatal, thread, ready, kind, progress, acked, calls>>

(* The task is spawned and detached: the loop goes on with the next        *)
(* request at once.                                                        *)
ServeRequest ==
  /\ thread = "serving"
  /\ queue # <<>> /\ Head(queue) \in Caller
  /\ at' = [at EXCEPT ![Head(queue)] = "started"]
  /\ queue' = Tail(queue)
  /\ UNCHANGED <<main, fatal, thread, ready, kind, answer, progress, acked, calls>>

(* Shutdown is acknowledged and ends the loop, and with it the executor:   *)
(* no task runs another step.                                              *)
ServeShutdown ==
  /\ thread = "serving"
  /\ queue # <<>> /\ Head(queue) = ShutdownRequest
  /\ acked' = TRUE
  /\ thread' = "stopped"
  /\ DropReceiver
  /\ UNCHANGED <<main, fatal, ready, kind, progress, calls>>

-----------------------------------------------------------------------------
(* The detached tasks.                                                     *)

Answer(c, a) ==
  /\ at' = [at EXCEPT ![c] = "idle"]
  /\ answer' = [answer EXCEPT ![c] = a]

At(c, p) ==
  /\ thread = "serving"
  /\ at[c] = p

Goto(c, p) ==
  /\ at' = [at EXCEPT ![c] = p]
  /\ UNCHANGED answer

unchangedByTasks == <<main, fatal, thread, ready, queue, kind, acked, calls>>

MapErr(code) ==
  CASE code = "NotFound"  -> "unreachable"
    [] code = "RxTimeout" -> "timeout"
    [] code = "Busy"      -> "busy"
    [] OTHER              -> "sdk"

MapErrEstablished(code) == IF code = "NotFound" THEN "sdk" ELSE MapErr(code)

PhaseMapper(established, code) ==
  IF established THEN MapErrEstablished(code) ELSE MapErr(code)

(* What comes before the exchange.  The payload of a write or an invoke is *)
(* encoded first, so that an error in it is known as the caller's.         *)
StartRead(c) ==
  /\ At(c, "started") /\ kind[c] \in Reads
  /\ Goto(c, "initiate")
  /\ UNCHANGED <<unchangedByTasks, progress>>

EncodeWrite(c) ==
  /\ At(c, "started") /\ kind[c] = "Write"
  /\ Goto(c, "initiate") \/ Answer(c, "invalid")
  /\ UNCHANGED <<unchangedByTasks, progress>>

EncodeInvoke(c) ==
  /\ At(c, "started") /\ kind[c] \in {"Invoke", "RemoveDeviceFabric"}
  /\ Goto(c, "initiate") \/ (kind[c] = "Invoke" /\ Answer(c, "invalid"))
  /\ UNCHANGED <<unchangedByTasks, progress>>

(* The passcode and the verifier of a window; the cryptography may fail.   *)
WindowSecrets(c) ==
  /\ At(c, "started") /\ kind[c] = "OpenWindow"
  /\ Goto(c, "initiate") \/ Answer(c, "sdk")
  /\ UNCHANGED <<unchangedByTasks, progress>>

(* The next exchange of a task, with a session and a timer of its own.     *)
NextExchange(c, s) ==
  /\ stage' = [stage EXCEPT ![c] = s]
  /\ session' = [session EXCEPT ![c] = FALSE]
  /\ Goto(c, "initiate")

(* What an exchange is about.                                              *)
Operation(c) ==
  CASE stage[c] = "request" -> kind[c]
    [] stage[c] = "info"    -> "Read"
    [] stage[c] = "label"   -> "PushFabricLabel"

(* The exchange of the request has ended with r, which is its answer,      *)
(* except that an open window is not reported yet.                         *)
RequestEnds(c, r) ==
  /\ stage[c] = "request"
  /\ IF kind[c] = "OpenWindow" /\ r = "ok"
       THEN NextExchange(c, "info")
       ELSE Answer(c, r) /\ UNCHANGED <<stage, session>>
  /\ UNCHANGED todo

(* Mutant: an error of the read is the answer.                             *)
VidPidPropagated(c, r) ==
  /\ stage[c] = "info"
  /\ Answer(c, r)
  /\ UNCHANGED <<stage, session, todo>>

(* basic_info_vid_pid: a read that failed, or has no such values, is a QR  *)
(* code of zeros, which always fits its buffer.                            *)
BasicInfoVidPid(c, r) ==
  /\ stage[c] = "info"
  /\ \/ r = "ok" /\ Answer(c, "ok")
     \/ r # "ok" /\ Answer(c, "ok")
  /\ session' = [session EXCEPT ![c] = FALSE]
  /\ UNCHANGED <<stage, todo>>

(* push_fabric_label has ended, and a failure of it is only logged: the    *)
(* loop goes on with the next of the nodes.                                *)
PushFabricLabel(c, r) ==
  /\ stage[c] = "label"
  /\ \E n \in todo[c] :
       /\ todo' = [todo EXCEPT ![c] = @ \ {n}]
       /\ IF todo[c] = {n} THEN Answer(c, "ok") ELSE Goto(c, "initiate")
  /\ session' = [session EXCEPT ![c] = FALSE]
  /\ UNCHANGED stage

ExchangeEnds(c, r) ==
  /\ RequestEnds(c, r) \/ BasicInfoVidPid(c, r) \/ PushFabricLabel(c, r)
  /\ UNCHANGED <<unchangedByTasks, effect>>

(* Exchange::initiate: the node is resolved and a session opened, or not.  *)
Initiate(c) ==
  /\ At(c, "initiate")
  /\ session' = [session EXCEPT ![c] = TRUE]
  /\ Goto(c, "exchange")
  /\ UNCHANGED <<unchangedByTasks, stage, effect, todo>>

(* An operation's future ends with an error.                               *)
OpFails(c) ==
  /\ thread = "serving" /\ at[c] \in {"initiate", "exchange"}
  /\ \E code \in ErrorCode : ExchangeEnds(c, PhaseMapper(session[c], code))

(* Mutant: the timer starts when the session is open.                      *)
OpTimesOutLate(c) == At(c, "exchange") /\ ExchangeEnds(c, "timeout")

(* with_timeout_mapped: the timer over the whole operation ends first.     *)
OpTimesOut(c) ==
  /\ thread = "serving" /\ at[c] \in {"initiate", "exchange"}
  /\ ExchangeEnds(c, "timeout")

(* The device gets the request and carries it out, be it after the caller  *)
(* was answered.                                                           *)
DeviceActs(c) ==
  /\ kind[c] \in Sends /\ stage[c] = "request" /\ session[c]
  /\ at[c] = "exchange" \/ answer[c] \in {"timeout", "down"}
  /\ ~effect[c]
  /\ effect' = [effect EXCEPT ![c] = TRUE]
  /\ UNCHANGED <<unchangedByTasks, at, answer, stage, session, todo>>

(* The answers of the device.  A list of fabrics that is none is an error. *)
ReadAnswered(c) ==
  /\ At(c, "exchange") /\ Operation(c) \in {"Read", "Interview"}
  /\ \E r \in {"ok"} \cup (IF Operation(c) = "Read" THEN {"empty"} ELSE {}) :
       ExchangeEnds(c, r)

FabricsAnswered(c) ==
  /\ At(c, "exchange") /\ Operation(c) = "DeviceFabrics"
  /\ \E r \in {"ok", "sdk"} : ExchangeEnds(c, r)

(* A command that fails has a status, which is told apart as far as        *)
(* command_failed does.                                                    *)
CommandFailed == {"busy", "timeout", "sdk"}

(* The response has an entry that tells what became of the command, or     *)
(* none, which is taken for success: the result starts out as Ok(Null).    *)
InvokeAnswered(c) ==
  /\ At(c, "exchange") /\ Operation(c) \in {"Invoke", "OpenWindow"}
  /\ \/ ~effect[c] /\ \E r \in CommandFailed : ExchangeEnds(c, r)
     \/ effect[c] /\ ExchangeEnds(c, "ok")
     \/ ExchangeEnds(c, "ok")

(* Mutant: an answer without a status code passes for success.             *)
NocNullIsOk(c) ==
  /\ At(c, "exchange") /\ Operation(c) = "RemoveDeviceFabric"
  /\ \/ ~effect[c] /\ \E r \in CommandFailed : ExchangeEnds(c, r)
     \/ ExchangeEnds(c, "ok")

(* RemoveFabric may succeed as a command and carry a failure as its        *)
(* NOCResponse, or carry no NOCResponse at all, which is an error.         *)
NocAnswered(c) ==
  /\ At(c, "exchange") /\ Operation(c) = "RemoveDeviceFabric"
  /\ \/ ~effect[c] /\ \E r \in CommandFailed : ExchangeEnds(c, r)
     \/ effect[c] /\ ExchangeEnds(c, "ok")
     \/ ExchangeEnds(c, "sdk")

(* The same for UpdateFabricLabel on a node.                               *)
LabelAnswered(c) ==
  /\ At(c, "exchange") /\ Operation(c) = "PushFabricLabel"
  /\ \E r \in {"ok"} \cup CommandFailed : ExchangeEnds(c, r)

(* A write that is refused is an Ok with its status; one without a status  *)
(* for our path is an error.                                               *)
WriteAnswered(c) ==
  /\ At(c, "exchange") /\ Operation(c) = "Write"
  /\ ExchangeEnds(c, IF effect[c] THEN "ok" ELSE "refused")

NoWriteStatus(c) ==
  /\ At(c, "exchange") /\ Operation(c) = "Write"
  /\ ExchangeEnds(c, "sdk")

(* update_fabric_label: the fabric table, then a snapshot of the           *)
(* supervised nodes, each of which is told in turn.                        *)
UpdateFabricLabel(c) ==
  /\ At(c, "started") /\ kind[c] = "UpdateFabricLabel"
  /\ \/ Answer(c, "sdk") /\ UNCHANGED <<stage, session, todo>>
     \/ /\ todo' = [todo EXCEPT ![c] = Supervised]
        /\ IF Supervised = {}
             THEN Answer(c, "ok") /\ UNCHANGED <<stage, session>>
             ELSE NextExchange(c, "label")
  /\ UNCHANGED <<unchangedByTasks, effect>>

(* node_addresses reads the cache and always has an answer.                *)
NodeAddresses(c) ==
  /\ At(c, "started") /\ kind[c] = "NodeAddresses"
  /\ Answer(c, "ok")
  /\ UNCHANGED <<unchangedByTasks, progress>>

OpApart(c) ==
  /\ At(c, "started") /\ kind[c] \in Apart
  /\ \E a \in {"ok"} \cup (IF kind[c] = "Browse" THEN {} ELSE StackErrorKind) :
       Answer(c, a)
  /\ UNCHANGED <<unchangedByTasks, progress>>

(* The steps that only the task itself is waited for, and those that wait  *)
(* for a device.                                                           *)
TaskStep(c) ==
  \/ StartRead(c) \/ EncodeWrite(c) \/ EncodeInvoke(c) \/ WindowSecrets(c)
  \/ OpTimesOut(c) \/ UpdateFabricLabel(c) \/ NodeAddresses(c) \/ OpApart(c)

DeviceStep(c) ==
  \/ Initiate(c) \/ OpFails(c) \/ DeviceActs(c) \/ ReadAnswered(c)
  \/ FabricsAnswered(c) \/ InvokeAnswered(c) \/ NocAnswered(c) \/ LabelAnswered(c)
  \/ WriteAnswered(c) \/ NoWriteStatus(c)

-----------------------------------------------------------------------------
(* main.                                                                   *)

unchangedByMain == <<thread, ready, callVars, calls>>

(* The ready handshake, or STACK_START_TIMEOUT.  Anything but its Ok is    *)
(* fatal.                                                                  *)
AwaitReady ==
  /\ main = "boot"
  /\ \/ ready = "ok" /\ main' = "binding"
     \/ ready # "ok" /\ main' = "exit"
  /\ UNCHANGED <<unchangedByMain, fatal, queue, acked>>

(* Every listener is bound, or one cannot be, which stops the stack again  *)
(* and ends the process.                                                   *)
Bind ==
  /\ main = "binding"
  /\ \/ main' = "serving" /\ UNCHANGED fatal
     \/ main' = "draining" /\ fatal' = TRUE
  /\ UNCHANGED <<unchangedByMain, queue, acked>>

StopSignal ==
  /\ main = "serving"
  /\ main' = "draining"
  /\ UNCHANGED <<unchangedByMain, fatal, queue, acked>>

(* Mutant: main does not listen for the end of the stream.                 *)
StackDiedUnheard == main = "exit" /\ UNCHANGED vars

(* The relay's stream of events has ended.                                 *)
StackDied ==
  /\ main = "serving"
  /\ thread = "ended"
  /\ main' = "draining" /\ fatal' = TRUE
  /\ UNCHANGED <<unchangedByMain, queue, acked>>

(* The listeners are drained, or DRAIN_TIMEOUT ends it.  shutdown then     *)
(* sends Shutdown, unless the channel is closed already.                   *)
Shutdown ==
  /\ main = "draining"
  /\ IF Closed
       THEN main' = "join" /\ UNCHANGED queue
       ELSE main' = "ack" /\ queue' = Append(queue, ShutdownRequest)
  /\ UNCHANGED <<unchangedByMain, fatal, acked>>

AwaitAck ==
  /\ main = "ack"
  /\ acked \/ Closed
  /\ main' = "join"
  /\ UNCHANGED <<unchangedByMain, fatal, queue, acked>>

AckTimeout ==
  /\ main = "ack"
  /\ main' = "join"
  /\ UNCHANGED <<unchangedByMain, fatal, queue, acked>>

(* shutdown returns, and main ends the process or returns itself.          *)
ShutdownReturns ==
  /\ main' = IF fatal THEN "exit" ELSE "returned"
  /\ UNCHANGED <<unchangedByMain, fatal, queue, acked>>

Join == main = "join" /\ thread = "ended" /\ ShutdownReturns

(* The thread is given up, while the blocking task that joins it goes on.  *)
JoinTimeout == main = "join" /\ ShutdownReturns

(* tokio's runtime is dropped when main has returned, and its drop waits   *)
(* for every blocking task, the join among them.                           *)
RuntimeDropped ==
  /\ main = "returned"
  /\ thread = "ended"
  /\ main' = "exit"
  /\ UNCHANGED <<unchangedByMain, fatal, queue, acked>>

Main == AwaitReady \/ Bind \/ StackDied \/ Shutdown \/ AwaitAck \/ AckTimeout \/ Join
          \/ JoinTimeout \/ RuntimeDropped

-----------------------------------------------------------------------------
(* The end of the process ends all of it.                                  *)
Running == main # "exit"

Exited == main = "exit" /\ UNCHANGED vars

(* With a thread that is stuck, the drop of the runtime has no end.        *)
RuntimeHangs == main = "returned" /\ thread = "wedged" /\ UNCHANGED vars

(* What the thread does of itself: at most one of these is enabled.        *)
ThreadStep == RunStack \/ ServeRequest \/ ServeShutdown \/ ThreadEnds

Next ==
  \/ /\ Running
     /\ \/ TransportDies \/ Wedge \/ ThreadStep
        \/ \E c \in Caller : HandleCommand(c) \/ TaskStep(c) \/ DeviceStep(c)
        \/ StopSignal \/ Main
  \/ Exited \/ RuntimeHangs

(* The thread and its executor get round to the request loop and to every  *)
(* task, timers end, and main goes on.  Devices need not answer, nor       *)
(* signals come.                                                           *)
Fairness ==
  /\ WF_vars(Running /\ ThreadStep)
  /\ \A c \in Caller : WF_vars(Running /\ TaskStep(c))
  /\ WF_vars(Running /\ Main)

Spec == Init /\ [][Next]_vars /\ Fairness

-----------------------------------------------------------------------------
(* THREAD_DOWN is answered only when the thread is gone: while it serves,  *)
(* every request that was accepted gets an answer of its own.              *)
DownMeansGone == \A c \in Caller : answer[c] = "down" => Closed

(* The client may rely on what it is told.  Told that its argument is      *)
(* invalid, or that the node does not exist or resolve, it may repeat the  *)
(* command: nothing has been sent to the device, and the device does not   *)
(* carry it out later (a NotFound of the device itself is told apart from  *)
(* that of mDNS, map_err_established).  Success of a write or of           *)
(* RemoveFabric means that the device has carried it out, since a response *)
(* without a status is an error there.  It is success for an invoke or a   *)
(* window, where the same cannot be said.                                  *)
RepliesAreTrue ==
  \A c \in Caller :
    /\ Reply(c) \in {"InvalidArguments", "NodeNotExists", "NodeNotResolving"} =>
         stage[c] = "request" /\ ~session[c] /\ ~effect[c]
    /\ Reply(c) = "ok" /\ kind[c] \in {"Write", "RemoveDeviceFabric"} => effect[c]

(* What follows a success is best effort: once the device has answered     *)
(* that a window is open, or the label is stored, the caller is told so    *)
(* however the exchanges that follow end, unless the thread ends, and no   *)
(* supervised node is left out because one before it could not be told.    *)
BestEffortIsOk ==
  \A c \in Caller :
    stage[c] # "request" /\ at[c] = "idle" =>
      answer[c] = "down" \/ (answer[c] = "ok" /\ todo[c] = {})

(* Every call of the Stack trait returns, whatever devices and the thread  *)
(* do, unless the thread is stuck.                                         *)
EveryCallIsAnswered ==
  \A c \in Caller :
    at[c] # "idle" ~> (at[c] = "idle" \/ thread = "wedged"
                         \/ main \in {"returned", "exit"})

(* The process ends, to be started anew, once it is told to stop or its    *)
(* stack thread has ended, and it does not wait for a thread that is stuck *)
(* unless it was stopped by a signal: main then only returns, and tokio's  *)
(* runtime waits for the join that shutdown has given up.                  *)
ProcessEnds ==
  main = "draining" \/ thread = "ended" ~> main = "exit" \/ (thread = "wedged" /\ ~fatal)

=============================================================================
