------------------------- MODULE StackThreadProofs --------------------------
(* Theorems about StackThread, for every number of callers, of supervised  *)
(* nodes and of calls.  Fairness plays no part in them.                    *)
EXTENDS StackThread, SequenceTheorems, TLAPS

Spots == {"idle", "queued", "started", "initiate", "exchange"}

Stages == {"request", "info", "label"}

(* TypeOK without the clause on the queue, which needs more to be          *)
(* inductive.                                                              *)
CallTypeOK ==
  /\ kind \in [Caller -> StackRequest \cup {"none"}]
  /\ at \in [Caller -> Spots]
  /\ answer \in [Caller -> Answers]
  /\ stage \in [Caller -> Stages]
  /\ session \in [Caller -> BOOLEAN] /\ effect \in [Caller -> BOOLEAN]
  /\ todo \in [Caller -> SUBSET Supervised]

ProcessTypeOK ==
  /\ main \in {"boot", "binding", "serving", "draining", "ack", "join", "returned",
               "exit"}
  /\ fatal \in BOOLEAN
  /\ thread \in {"starting", "serving", "wedged", "stopped", "ended"}
  /\ ready \in {"none", "ok", "err"}
  /\ queue \in Seq(Caller \cup {ShutdownRequest})
  /\ acked \in BOOLEAN
  /\ calls \in 0..MaxCalls

(* Each caller's request is in the channel while the caller waits for it   *)
(* to be taken, and once only; a channel that is closed, or whose receiver *)
(* does not run yet, is empty.                                             *)
QueueInv ==
  /\ \A c \in Caller : at[c] = "queued" <=> \E i \in DOMAIN queue : queue[i] = c
  /\ \A i, j \in DOMAIN queue : queue[i] \in Caller /\ queue[i] = queue[j] => i = j
  /\ Closed \/ thread = "starting" => queue = <<>>
  /\ thread = "starting" => ready = "none"
  /\ ready # "ok" => main \in {"boot", "exit"}

(* What a call has done, as far as its caller's place tells.               *)
CallInv(c) ==
  /\ at[c] # "idle" => answer[c] = "none"
  /\ at[c] \in {"queued", "started"} => stage[c] = "request"
  /\ at[c] \in {"queued", "started", "initiate"} => ~session[c]
  /\ stage[c] = "info" => kind[c] = "OpenWindow"
  /\ stage[c] = "label" => kind[c] = "UpdateFabricLabel"
  /\ stage[c] # "label" => todo[c] = {}
  /\ effect[c] => kind[c] \in Sends
  /\ effect[c] /\ stage[c] = "request" => session[c]
  /\ answer[c] \in {"invalid", "missing", "unreachable"} =>
       stage[c] = "request" /\ ~session[c]
  /\ answer[c] = "ok" /\ kind[c] \in {"Write", "RemoveDeviceFabric"} => effect[c]
  /\ stage[c] # "request" /\ at[c] = "idle" =>
       answer[c] = "down" \/ (answer[c] = "ok" /\ todo[c] = {})

Inv ==
  /\ CallTypeOK /\ ProcessTypeOK /\ QueueInv
  /\ \A c \in Caller : CallInv(c)
  /\ DownMeansGone

-----------------------------------------------------------------------------
(* The tasks.  A step of c's task, or of the device it talks to, keeps     *)
(* what is said of c, takes nothing from the channel and never answers     *)
(* that the thread is down.                                                *)
TaskKeeps(c) ==
  /\ CallTypeOK' /\ CallInv(c)'
  /\ at'[c] = "queued" <=> at[c] = "queued"
  /\ answer'[c] = "down" => answer[c] = "down"

(* What a result of the exchange under way must satisfy, to be the answer: *)
(* blame for arguments or for the node only before the session is open,    *)
(* and success of a write or of RemoveFabric only after the effect.        *)
TrueResult(c, r) ==
  /\ r \in Answers \ {"none", "down", "invalid", "missing"}
  /\ r = "unreachable" => ~session[c]
  /\ r = "ok" /\ Operation(c) \in {"Write", "RemoveDeviceFabric"} => effect[c]

(* Whatever exchange of the task ends, and however, the call goes on or is *)
(* answered as CallInv says.                                               *)
LEMMA ExchangeEndsKeeps ==
  ASSUME CallTypeOK, NEW c \in Caller, CallInv(c), at[c] \in {"initiate", "exchange"},
         NEW r, TrueResult(c, r), ExchangeEnds(c, r)
  PROVE  TaskKeeps(c)
<1> USE DEF TaskKeeps, CallTypeOK, CallInv, unchangedByTasks, Spots, Stages, Answers,
            Sends, StackErrorKind, Goto, Answer, NextExchange, TrueResult
<1>1. UNCHANGED <<kind, effect>>
  BY DEF ExchangeEnds
<1>2. CASE RequestEnds(c, r)
  BY <1>1, <1>2 DEF RequestEnds, Operation
<1>3. CASE BasicInfoVidPid(c, r)
  BY <1>1, <1>3 DEF BasicInfoVidPid
<1>4. CASE PushFabricLabel(c, r)
  BY <1>1, <1>4 DEF PushFabricLabel
<1>5. QED
  BY <1>2, <1>3, <1>4 DEF ExchangeEnds

LEMMA TaskStepKeeps ==
  ASSUME CallTypeOK, NEW c \in Caller, CallInv(c), TaskStep(c)
  PROVE  TaskKeeps(c)
<1> USE DEF TaskKeeps, CallTypeOK, CallInv, unchangedByTasks, progress, Spots, Stages,
            Answers, Sends, StackErrorKind
<1>1. CASE StartRead(c)
  BY <1>1 DEF StartRead, At, Goto, Reads
<1>2. CASE EncodeWrite(c)
  BY <1>2 DEF EncodeWrite, At, Goto, Answer
<1>3. CASE EncodeInvoke(c)
  BY <1>3 DEF EncodeInvoke, At, Goto, Answer
<1>4. CASE WindowSecrets(c)
  BY <1>4 DEF WindowSecrets, At, Goto, Answer
<1>5. CASE OpTimesOut(c)
  BY <1>5, ExchangeEndsKeeps DEF OpTimesOut, TrueResult
<1>6. CASE UpdateFabricLabel(c)
  <2>1. /\ at[c] = "started" /\ kind[c] = "UpdateFabricLabel"
        /\ UNCHANGED <<kind, effect>>
    BY <1>6 DEF UpdateFabricLabel, At
  <2>2. CASE Answer(c, "sdk") /\ UNCHANGED <<stage, session, todo>>
    BY <2>1, <2>2 DEF Answer
  <2>3. CASE /\ todo' = [todo EXCEPT ![c] = Supervised] /\ Supervised = {}
             /\ Answer(c, "ok") /\ UNCHANGED <<stage, session>>
    BY <2>1, <2>3 DEF Answer
  <2>4. CASE /\ todo' = [todo EXCEPT ![c] = Supervised]
             /\ NextExchange(c, "label")
    BY <2>1, <2>4 DEF Goto, NextExchange
  <2>5. QED
    BY <1>6, <2>2, <2>3, <2>4 DEF UpdateFabricLabel
<1>7. CASE NodeAddresses(c)
  BY <1>7 DEF NodeAddresses, At, Answer
<1>8. CASE OpApart(c)
  BY <1>8 DEF OpApart, At, Answer, Apart
<1>9. QED
  BY <1>1, <1>2, <1>3, <1>4, <1>5, <1>6, <1>7, <1>8 DEF TaskStep

(* The device's answers are true results, and so are the errors of an      *)
(* exchange: a NotFound is blamed on the node before the session only.     *)
LEMMA DeviceAnswersTruly ==
  ASSUME CallTypeOK, NEW c \in Caller, CallInv(c),
         \/ OpFails(c) \/ ReadAnswered(c) \/ FabricsAnswered(c) \/ InvokeAnswered(c)
         \/ NocAnswered(c) \/ LabelAnswered(c) \/ WriteAnswered(c) \/ NoWriteStatus(c)
  PROVE  /\ at[c] \in {"initiate", "exchange"}
         /\ \E r \in Answers : TrueResult(c, r) /\ ExchangeEnds(c, r)
<1> USE DEF TrueResult, Answers, StackErrorKind, At
<1>1. CASE OpFails(c)
  BY <1>1 DEF OpFails, PhaseMapper, MapErr, MapErrEstablished, ErrorCode
<1>2. CASE ReadAnswered(c)
  BY <1>2 DEF ReadAnswered
<1>3. CASE FabricsAnswered(c)
  BY <1>3 DEF FabricsAnswered
<1>4. CASE InvokeAnswered(c)
  BY <1>4 DEF InvokeAnswered, CommandFailed
<1>5. CASE NocAnswered(c)
  BY <1>5 DEF NocAnswered, CommandFailed
<1>6. CASE LabelAnswered(c)
  BY <1>6 DEF LabelAnswered, CommandFailed
<1>7. CASE WriteAnswered(c)
  BY <1>7 DEF WriteAnswered
<1>8. CASE NoWriteStatus(c)
  BY <1>8 DEF NoWriteStatus
<1>9. QED
  BY <1>1, <1>2, <1>3, <1>4, <1>5, <1>6, <1>7, <1>8

LEMMA DeviceStepKeeps ==
  ASSUME CallTypeOK, NEW c \in Caller, CallInv(c), DeviceStep(c)
  PROVE  TaskKeeps(c)
<1>1. CASE Initiate(c)
  BY <1>1 DEF Initiate, At, Goto, TaskKeeps, CallTypeOK, CallInv, unchangedByTasks, Spots
<1>2. CASE DeviceActs(c)
  BY <1>2 DEF DeviceActs, TaskKeeps, CallTypeOK, CallInv, unchangedByTasks
<1>3. CASE \/ OpFails(c) \/ ReadAnswered(c) \/ FabricsAnswered(c) \/ InvokeAnswered(c)
           \/ NocAnswered(c) \/ LabelAnswered(c) \/ WriteAnswered(c) \/ NoWriteStatus(c)
  BY <1>3, DeviceAnswersTruly, ExchangeEndsKeeps
<1>4. QED
  BY <1>1, <1>2, <1>3 DEF DeviceStep

(* The other callers are left alone.                                       *)
SameCall(d) ==
  /\ kind'[d] = kind[d] /\ at'[d] = at[d] /\ answer'[d] = answer[d]
  /\ stage'[d] = stage[d] /\ session'[d] = session[d] /\ effect'[d] = effect[d]
  /\ todo'[d] = todo[d]

LEMMA OthersKeep ==
  ASSUME CallTypeOK, NEW c \in Caller, TaskStep(c) \/ DeviceStep(c),
         NEW d \in Caller, d # c
  PROVE  SameCall(d)
<1> USE DEF CallTypeOK, SameCall, unchangedByTasks, progress, At, Goto, Answer
<1>1. ASSUME NEW r, ExchangeEnds(c, r) PROVE SameCall(d)
  BY <1>1 DEF ExchangeEnds, RequestEnds, BasicInfoVidPid, PushFabricLabel, NextExchange
<1>2. CASE TaskStep(c)
  BY <1>1, <1>2 DEF TaskStep, StartRead, EncodeWrite, EncodeInvoke, WindowSecrets, OpTimesOut,
              UpdateFabricLabel, NextExchange, NodeAddresses, OpApart
<1>3. CASE DeviceStep(c)
  BY <1>1, <1>3 DEF DeviceStep, Initiate, OpFails, DeviceActs, ReadAnswered, FabricsAnswered,
              InvokeAnswered, NocAnswered, LabelAnswered, WriteAnswered, NoWriteStatus
<1>4. QED
  BY <1>2, <1>3

LEMMA SameCallKeeps ==
  ASSUME NEW d \in Caller, CallInv(d), SameCall(d)
  PROVE  CallInv(d)'
  BY DEF CallInv, SameCall

LEMMA TaskFrame ==
  ASSUME NEW c \in Caller, TaskStep(c) \/ DeviceStep(c)
  PROVE  UNCHANGED unchangedByTasks
  BY DEF TaskStep, DeviceStep, StartRead, EncodeWrite, EncodeInvoke, WindowSecrets, OpTimesOut,
         ExchangeEnds, UpdateFabricLabel, NodeAddresses, OpApart, Initiate, OpFails,
         DeviceActs, ReadAnswered, FabricsAnswered, InvokeAnswered, NocAnswered,
         LabelAnswered, WriteAnswered, NoWriteStatus

LEMMA TaskInv ==
  ASSUME Inv, NEW c \in Caller, TaskStep(c) \/ DeviceStep(c)
  PROVE  Inv'
<1> USE DEF Inv
<1>1. TaskKeeps(c)
  BY TaskStepKeeps, DeviceStepKeeps
<1>2. \A d \in Caller : d # c => SameCall(d)
  BY OthersKeep
<1>3. UNCHANGED unchangedByTasks
  BY TaskFrame
<1>4. \A d \in Caller : CallInv(d)'
  BY <1>1, <1>2, SameCallKeeps DEF TaskKeeps
<1>5. ProcessTypeOK'
  BY <1>3 DEF ProcessTypeOK, unchangedByTasks
<1>6. QueueInv'
  <2>1. \A d \in Caller : at'[d] = "queued" <=> at[d] = "queued"
    BY <1>1, <1>2 DEF TaskKeeps, SameCall
  <2>2. QED
    BY <1>3, <2>1 DEF QueueInv, Closed, unchangedByTasks
<1>7. DownMeansGone'
  BY <1>1, <1>2, <1>3 DEF TaskKeeps, SameCall, DownMeansGone, Closed, unchangedByTasks
<1>8. QED
  BY <1>1, <1>2, <1>4, <1>5, <1>6, <1>7 DEF TaskKeeps

-----------------------------------------------------------------------------
(* The request channel.                                                    *)

(* A command makes one request, or is rejected for what it asks.           *)
LEMMA HandleCommands ==
  ASSUME NEW c \in Caller, HandleCommand(c)
  PROVE  \E k \in StackRequest, r \in SUBSET {"invalid", "missing"} : Command(c, k, r)
  BY DEF HandleCommand, ReadAttribute, WriteAttribute, DeviceCommand, SetNodeList,
         GetMatterFabrics, RemoveMatterFabric, OpenCommissioningWindow, InterviewNode,
         NodeAddressesCommand, Discover, CommissionCommand, SetDefaultFabricLabel,
         InvalidOrMissing, StackRequest, Reads, Sends, Apart

(* A request put at the end of the channel, by a caller that has none in   *)
(* it, or by main.                                                         *)
RequestAdded(q, x) ==
  /\ q \in Seq(Caller \cup {ShutdownRequest})
  /\ \A c \in Caller : (\E i \in DOMAIN q : q[i] = c) <=>
                         c = x \/ \E i \in DOMAIN queue : queue[i] = c
  /\ \A i, j \in DOMAIN q : q[i] \in Caller /\ q[i] = q[j] => i = j

LEMMA AppendRequest ==
  ASSUME ProcessTypeOK, QueueInv, NEW x \in Caller \cup {ShutdownRequest},
         x \in Caller => at[x] # "queued"
  PROVE  RequestAdded(Append(queue, x), x)
<1> DEFINE n == Len(queue)
           q == Append(queue, x)
<1>1. /\ q \in Seq(Caller \cup {ShutdownRequest}) /\ Len(q) = n + 1 /\ n \in Nat
      /\ DOMAIN q = 1..(n + 1) /\ DOMAIN queue = 1..n
      /\ q[n + 1] = x /\ \A i \in 1..n : q[i] = queue[i]
  BY DEF ProcessTypeOK
<1>2. \A i \in 1..(n + 1) : i \in 1..n \/ i = n + 1
  BY <1>1
<1>3. 1..n \subseteq 1..(n + 1) /\ n + 1 \in 1..(n + 1)
  BY <1>1
<1>4. x \in Caller => \A i \in 1..n : queue[i] # x
  BY <1>1 DEF QueueInv
<1> HIDE DEF n, q
<1>5. QED
  BY <1>1, <1>2, <1>3, <1>4 DEF QueueInv, RequestAdded, q

(* The request at the head, taken.                                         *)
LEMMA TakeRequest ==
  ASSUME ProcessTypeOK, QueueInv, queue # <<>>, NEW q, q = Tail(queue)
  PROVE  /\ q \in Seq(Caller \cup {ShutdownRequest})
         /\ Head(queue) \in Caller \cup {ShutdownRequest}
         /\ \E i \in DOMAIN queue : queue[i] = Head(queue)
         /\ \A c \in Caller : (\E i \in DOMAIN q : q[i] = c) <=>
                                c # Head(queue) /\ \E i \in DOMAIN queue : queue[i] = c
         /\ \A i, j \in DOMAIN q : q[i] \in Caller /\ q[i] = q[j] => i = j
<1> DEFINE n == Len(queue)
<1>1. /\ q \in Seq(Caller \cup {ShutdownRequest}) /\ Len(q) = n - 1 /\ n \in Nat \ {0}
      /\ DOMAIN q = 1..(n - 1) /\ DOMAIN queue = 1..n
      /\ Head(queue) = queue[1] /\ \A i \in 1..(n - 1) : q[i] = queue[i + 1]
  BY DEF ProcessTypeOK
<1>2. \A i \in 1..n : i = 1 \/ (i - 1 \in 1..(n - 1) /\ (i - 1) + 1 = i)
  BY <1>1
<1>3. \A i \in 1..(n - 1) : i + 1 \in 1..n /\ i + 1 # 1
  BY <1>1
<1>4. \A i, j \in 1..(n - 1) : i + 1 = j + 1 => i = j
  BY <1>1
<1>5. \A i, j \in 1..n : queue[i] \in Caller /\ queue[i] = queue[j] => i = j
  BY <1>1 DEF QueueInv
<1>6. 1 \in 1..n /\ queue[1] \in Caller \cup {ShutdownRequest}
  BY <1>1 DEF ProcessTypeOK
<1>7. ASSUME NEW c \in Caller, NEW i \in DOMAIN q, q[i] = c
      PROVE  c # Head(queue) /\ \E j \in DOMAIN queue : queue[j] = c
  BY <1>1, <1>3, <1>5, <1>6, <1>7
<1>8. ASSUME NEW c \in Caller, c # Head(queue), NEW i \in DOMAIN queue, queue[i] = c
      PROVE  \E j \in DOMAIN q : q[j] = c
  BY <1>1, <1>2, <1>8
<1>9. ASSUME NEW i \in DOMAIN q, NEW j \in DOMAIN q, q[i] \in Caller, q[i] = q[j]
      PROVE  i = j
  BY <1>1, <1>3, <1>4, <1>5, <1>9
<1>10. QED
  BY <1>1, <1>6, <1>7, <1>8, <1>9

LEMMA CommandInv ==
  ASSUME Inv, NEW c \in Caller, NEW k \in StackRequest,
         NEW r \in SUBSET {"invalid", "missing"}, Command(c, k, r)
  PROVE  Inv'
<1> USE DEF Inv
<1>1. /\ calls' \in 0..MaxCalls /\ UNCHANGED <<main, fatal, thread, ready, acked>>
      /\ at[c] = "idle"
  BY MaxCallsAssumption DEF Command, ProcessTypeOK
<1>2. \A d \in Caller : d # c => SameCall(d)
  BY DEF Command, Request, AnsweredAtOnce, CallTypeOK, SameCall
<1>3. CallTypeOK'
  BY DEF Command, Request, AnsweredAtOnce, CallTypeOK, Spots, Stages, Answers, StackErrorKind
<1>4. CallInv(c)'
  BY <1>1 DEF Command, Request, AnsweredAtOnce, CallTypeOK, CallInv, Sends
<1>5. \A d \in Caller : CallInv(d)'
  BY <1>2, <1>4, SameCallKeeps
<1>6. CASE UNCHANGED <<queue, at>>
  <2>1. QueueInv' /\ ProcessTypeOK'
    BY <1>1, <1>6 DEF QueueInv, ProcessTypeOK, Closed
  <2>2. answer'[c] = "down" => Closed
    BY <1>1, <1>6 DEF Command, Request, AnsweredAtOnce, CallTypeOK
  <2>3. DownMeansGone'
    BY <1>1, <1>2, <2>2 DEF DownMeansGone, Closed, SameCall
  <2>4. QED
    BY <1>3, <1>5, <1>6, <2>1, <2>3
<1>7. CASE /\ ~Closed /\ queue' = Append(queue, c)
           /\ at' = [at EXCEPT ![c] = "queued"]
           /\ answer' = [answer EXCEPT ![c] = "none"]
  <2>1. RequestAdded(Append(queue, c), c)
    BY <1>1, AppendRequest
  <2>2. RequestAdded(queue', c)
    BY <1>7, <2>1
  <2>3. ProcessTypeOK'
    BY <1>1, <2>2 DEF ProcessTypeOK, RequestAdded
  <2>4. thread # "starting"
    BY DEF Command, QueueInv
  <2>5. \A d \in Caller : at'[d] = "queued" <=> d = c \/ at[d] = "queued"
    BY <1>7 DEF CallTypeOK
  <2>6. QueueInv'
    BY <1>1, <1>7, <2>2, <2>4, <2>5 DEF QueueInv, Closed, RequestAdded
  <2>7. DownMeansGone'
    BY <1>1, <1>7 DEF DownMeansGone, Closed, CallTypeOK
  <2>8. QED
    BY <1>1, <1>3, <1>5, <1>7, <2>3, <2>6, <2>7 DEF CallTypeOK
<1>8. QED
  BY <1>6, <1>7 DEF Command, Request, AnsweredAtOnce

(* The request at the head is given to a task.                             *)
LEMMA ServeInv ==
  ASSUME Inv, ServeRequest
  PROVE  Inv'
<1> USE DEF Inv
<1> DEFINE c == Head(queue)
<1>1. /\ c \in Caller /\ thread = "serving" /\ at' = [at EXCEPT ![c] = "started"]
      /\ UNCHANGED <<main, fatal, thread, ready, kind, answer, progress, acked, calls>>
  BY DEF ServeRequest
<1>2. /\ queue' \in Seq(Caller \cup {ShutdownRequest})
      /\ \E i \in DOMAIN queue : queue[i] = c
      /\ \A d \in Caller : (\E i \in DOMAIN queue' : queue'[i] = d) <=>
                             d # c /\ \E i \in DOMAIN queue : queue[i] = d
      /\ \A i, j \in DOMAIN queue' :
           queue'[i] \in Caller /\ queue'[i] = queue'[j] => i = j
  BY TakeRequest DEF ServeRequest
<1>3. at[c] = "queued"
  BY <1>1, <1>2 DEF QueueInv
<1>4. CallTypeOK' /\ ProcessTypeOK'
  BY <1>1, <1>2 DEF CallTypeOK, ProcessTypeOK, Spots, progress
<1>5. \A d \in Caller : CallInv(d)'
  BY <1>1, <1>3 DEF CallTypeOK, CallInv, progress
<1>6. QueueInv'
  <2>1. \A d \in Caller : at'[d] = "queued" <=> d # c /\ at[d] = "queued"
    BY <1>1 DEF CallTypeOK
  <2>2. QED
    BY <1>1, <1>2, <2>1 DEF QueueInv, Closed
<1>7. DownMeansGone'
  BY <1>1 DEF DownMeansGone, Closed
<1>8. QED
  BY <1>1, <1>3, <1>4, <1>5, <1>6, <1>7 DEF CallTypeOK

-----------------------------------------------------------------------------
(* The end of the thread.                                                  *)

(* The receiver is dropped as the thread stops: who waited in the channel  *)
(* is told so, and a task that runs is left where it was.                  *)
LEMMA StopInv ==
  ASSUME Inv, thread = "serving", thread' = "stopped", DropReceiver,
         acked' \in BOOLEAN, UNCHANGED <<main, fatal, ready, kind, progress, calls>>
  PROVE  Inv'
<1> USE DEF Inv
<1>1. /\ queue' = <<>> /\ Closed'
      /\ \A c \in Caller : /\ at'[c] = IF at[c] = "queued" THEN "idle" ELSE at[c]
                           /\ answer'[c] = IF at[c] = "queued" THEN "down" ELSE answer[c]
  BY DEF DropReceiver, Closed
<1>2. CallTypeOK'
  BY DEF DropReceiver, CallTypeOK, Spots, Answers, progress
<1>3. ProcessTypeOK'
  BY <1>1 DEF ProcessTypeOK
<1>4. \A c \in Caller : CallInv(c)'
  BY <1>1 DEF CallInv, progress
<1>5. QueueInv'
  BY <1>1 DEF QueueInv
<1>6. DownMeansGone'
  BY <1>1 DEF DownMeansGone
<1>7. QED
  BY <1>1, <1>2, <1>3, <1>4, <1>5, <1>6

(* The tasks that were left go with the executor.                          *)
LEMMA ThreadEndsInv ==
  ASSUME Inv, ThreadEnds
  PROVE  Inv'
<1> USE DEF Inv
<1>1. /\ queue = <<>> /\ Closed'
      /\ \A c \in Caller : /\ at'[c] = "idle"
                           /\ answer'[c] = IF at[c] = "idle" THEN answer[c] ELSE "down"
  BY DEF ThreadEnds, QueueInv, Closed
<1>2. CallTypeOK'
  BY DEF ThreadEnds, CallTypeOK, Spots, Answers, progress
<1>3. ProcessTypeOK'
  BY DEF ThreadEnds, ProcessTypeOK
<1>4. \A c \in Caller : CallInv(c)'
  BY <1>1 DEF ThreadEnds, CallInv, progress
<1>5. QueueInv'
  BY <1>1 DEF ThreadEnds, QueueInv
<1>6. DownMeansGone'
  BY <1>1 DEF DownMeansGone
<1>7. QED
  BY <1>1, <1>2, <1>3, <1>4, <1>5, <1>6

-----------------------------------------------------------------------------
(* main, and the thread as long as it does not end.                        *)
LEMMA MainInv ==
  ASSUME Inv, RunStack \/ Wedge \/ StopSignal \/ Main
  PROVE  Inv'
<1> USE DEF Inv
<1>1. UNCHANGED callVars
  BY DEF RunStack, Wedge, StopSignal, Main, AwaitReady, Bind, StackDied, Shutdown, AwaitAck,
         AckTimeout, Join, JoinTimeout, ShutdownReturns, RuntimeDropped, unchangedByMain
<1>2. CallTypeOK' /\ \A c \in Caller : CallInv(c)'
  BY <1>1 DEF callVars, progress, CallTypeOK, CallInv
<1>3. /\ queue' = queue \/ (~Closed /\ thread' = thread /\ main = "draining"
                              /\ queue' = Append(queue, ShutdownRequest))
      /\ calls' = calls /\ acked' = acked
  BY DEF RunStack, Wedge, StopSignal, Main, AwaitReady, Bind, StackDied, Shutdown, AwaitAck,
         AckTimeout, Join, JoinTimeout, ShutdownReturns, RuntimeDropped, unchangedByMain
<1>4. /\ main' \in {"boot", "binding", "serving", "draining", "ack", "join", "returned",
                   "exit"}
      /\ fatal' \in BOOLEAN
      /\ thread' \in {"starting", "serving", "wedged", "stopped", "ended"}
      /\ ready' \in {"none", "ok", "err"}
      /\ thread' = "starting" => ready' = "none"
      /\ ready' # "ok" => main' \in {"boot", "exit"}
      /\ Closed => Closed'
      /\ Closed' \/ thread' = "starting" => Closed \/ thread = "starting"
  BY DEF ProcessTypeOK, QueueInv, Closed, RunStack, Wedge, StopSignal, Main, AwaitReady, Bind,
         StackDied, Shutdown, AwaitAck, AckTimeout, Join, JoinTimeout, ShutdownReturns,
         RuntimeDropped, unchangedByMain
<1>5. DownMeansGone'
  BY <1>1, <1>4 DEF DownMeansGone, callVars
<1>6. CASE queue' = queue
  BY <1>1, <1>2, <1>3, <1>4, <1>5, <1>6 DEF ProcessTypeOK, QueueInv, callVars
<1>7. CASE /\ ~Closed /\ thread' = thread /\ main = "draining"
           /\ queue' = Append(queue, ShutdownRequest)
  <2>1. RequestAdded(queue', ShutdownRequest)
    BY <1>7, CallerAssumption, AppendRequest
  <2>2. thread # "starting"
    BY <1>7 DEF QueueInv
  <2>3. ~(Closed' \/ thread' = "starting")
    BY <1>7, <2>2 DEF Closed
  <2>4. QueueInv'
    BY <1>1, <1>4, <2>1, <2>3, CallerAssumption DEF QueueInv, RequestAdded, callVars
  <2>5. ProcessTypeOK'
    BY <1>3, <1>4, <2>1 DEF ProcessTypeOK, RequestAdded
  <2>6. QED
    BY <1>1, <1>2, <1>5, <2>4, <2>5
<1>8. QED
  BY <1>3, <1>6, <1>7

LEMMA InitInv == Init => Inv
<1> SUFFICES ASSUME Init PROVE Inv
  OBVIOUS
<1>1. CallTypeOK
  BY DEF Init, CallTypeOK, Spots, Stages, Answers
<1>2. ProcessTypeOK
  <2>1. acked \in BOOLEAN
    BY Zenon DEF Init
  <2>2. queue \in Seq(Caller \cup {ShutdownRequest})
    BY DEF Init
  <2>3. calls \in 0..MaxCalls
    BY MaxCallsAssumption DEF Init
  <2>4. QED
    BY <2>1, <2>2, <2>3, Zenon DEF Init, ProcessTypeOK
<1>3. QueueInv
  BY DEF Init, QueueInv
<1>4. (\A c \in Caller : CallInv(c)) /\ DownMeansGone
  BY DEF Init, CallInv, DownMeansGone
<1>5. QED
  BY <1>1, <1>2, <1>3, <1>4 DEF Inv

LEMMA InvStep == Inv /\ [Next]_vars => Inv'
<1> SUFFICES ASSUME Inv, [Next]_vars PROVE Inv'
  OBVIOUS
<1>1. ASSUME NEW c \in Caller, HandleCommand(c) PROVE Inv'
  <2>1. PICK k \in StackRequest, r \in SUBSET {"invalid", "missing"} : Command(c, k, r)
    BY <1>1, HandleCommands
  <2>2. QED
    BY <2>1, CommandInv
<1>2. ASSUME NEW c \in Caller, TaskStep(c) \/ DeviceStep(c) PROVE Inv'
  BY <1>2, TaskInv
<1>3. CASE ServeRequest
  BY <1>3, ServeInv
<1>4. CASE TransportDies \/ ServeShutdown
  <2>1. /\ thread = "serving" /\ thread' = "stopped" /\ DropReceiver
        /\ UNCHANGED <<main, fatal, ready, kind, progress, calls>>
    BY <1>4 DEF TransportDies, ServeShutdown
  <2>2. acked' \in BOOLEAN
    BY <1>4 DEF TransportDies, ServeShutdown, Inv, ProcessTypeOK
  <2>3. QED
    BY <2>1, <2>2, StopInv
<1>5. CASE ThreadEnds
  BY <1>5, ThreadEndsInv
<1>6. CASE RunStack \/ Wedge \/ StopSignal \/ Main
  BY <1>6, MainInv
<1>7. CASE UNCHANGED vars
  BY <1>7 DEF vars, callVars, progress, Inv, CallTypeOK, ProcessTypeOK, QueueInv, CallInv, Closed,
              DownMeansGone
<1>8. QED
  BY <1>1, <1>2, <1>3, <1>4, <1>5, <1>6, <1>7 DEF Next, ThreadStep, Exited, RuntimeHangs

(* The invariant holds in every state, whatever the callers, the tasks,    *)
(* the devices, main and the thread's end interleave.                      *)
THEOREM InvIsInvariant == Spec => []Inv
<1>1. QED
  BY InitInv, InvStep, PTL DEF Spec

(* Every variable keeps its type, and a caller waits for its request to be *)
(* taken exactly while the request is in the channel.                      *)
THEOREM TypeCorrect == Spec => []TypeOK
<1>1. Inv => TypeOK
  BY DEF Inv, CallTypeOK, ProcessTypeOK, QueueInv, TypeOK, Spots, Stages
<1>2. QED
  BY <1>1, InvIsInvariant, PTL

(* StackHandle answers THREAD_DOWN only when the thread is gone.           *)
THEOREM DownIsTrue == Spec => []DownMeansGone
<1>1. QED
  BY InvIsInvariant, PTL DEF Inv

(* What commands/mod.rs tells the client is true of the device: an error   *)
(* that blames the arguments or the node's absence means that nothing was  *)
(* sent, then or later, and success of a write or of RemoveFabric that the *)
(* device has acted, although a response may come without a status.        *)
THEOREM RepliesTellTheTruth == Spec => []RepliesAreTrue
<1>1. Inv => RepliesAreTrue
  <2> SUFFICES ASSUME Inv, NEW c \in Caller
               PROVE  /\ Reply(c) \in {"InvalidArguments", "NodeNotExists", "NodeNotResolving"}
                           => stage[c] = "request" /\ ~session[c] /\ ~effect[c]
                      /\ Reply(c) = "ok" /\ kind[c] \in {"Write", "RemoveDeviceFabric"}
                           => effect[c]
    BY DEF RepliesAreTrue
  <2>1. CallInv(c) /\ answer[c] \in Answers
    BY DEF Inv, CallTypeOK
  <2>2. ASSUME Reply(c) \in {"InvalidArguments", "NodeNotExists", "NodeNotResolving"}
        PROVE  answer[c] \in {"invalid", "missing", "unreachable"}
    BY <2>1, <2>2 DEF Reply, ErrorReply, StackErr, DefaultCode, Answers, StackErrorKind
  <2>3. ASSUME Reply(c) = "ok", kind[c] \in {"Write", "RemoveDeviceFabric"}
        PROVE  answer[c] = "ok"
    BY <2>1, <2>3 DEF Reply, ErrorReply, StackErr, DefaultCode, Answers, StackErrorKind
  <2>4. QED
    BY <2>1, <2>2, <2>3 DEF CallInv
<1>2. QED
  BY <1>1, InvIsInvariant, PTL

(* Once a window is open or the label is stored, the call ends with        *)
(* success however the exchanges that follow end (an error, a silent       *)
(* device, a node that does not resolve), and not before every supervised  *)
(* node was told or passed over, unless the thread ends first.             *)
THEOREM BestEffortSucceeds == Spec => []BestEffortIsOk
<1>1. Inv => BestEffortIsOk
  BY DEF Inv, CallInv, BestEffortIsOk
<1>2. QED
  BY <1>1, InvIsInvariant, PTL

=============================================================================
