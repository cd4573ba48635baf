------------------------- MODULE ConfigStoreProofs --------------------------
(* Theorems about ConfigStore, for every set of connections, credentials   *)
(* and labels, and every bound.                                            *)
EXTENDS ConfigStore, TLAPS

-----------------------------------------------------------------------------
(* What an update makes of a config.                                       *)

(* The entry u changes is as u leaves it.                                  *)
Holds(u, cfg) ==
  CASE u.op = "wifi"   -> cfg.wifi[u.id] = u.to
    [] u.op = "thread" -> cfg.thread[u.id] = u.to
    [] u.op = "label"  -> cfg.label = u.to

(* The three kinds of updates.                                             *)
LEMMA UpdateKinds ==
  ASSUME NEW u \in Update
  PROVE  \/ u.op = "wifi" /\ u.id \in WifiId /\ u.to \in Cred \cup {NoCred}
         \/ u.op = "thread" /\ u.id \in ThreadId /\ u.to \in Dataset \cup {NoDataset}
         \/ u.op = "label" /\ u.to \in Label
  BY DEF Update

LEMMA ApplyType ==
  ASSUME NEW u \in Update, NEW cfg \in ConfigData
  PROVE  Apply(u, cfg) \in ConfigData
  BY UpdateKinds DEF Apply, ConfigData

LEMMA ApplyHolds ==
  ASSUME NEW u \in Update, NEW cfg \in ConfigData
  PROVE  Holds(u, Apply(u, cfg))
  BY UpdateKinds DEF Apply, ConfigData, Holds

(* An update leaves the other entries as they were.                        *)
LEMMA ApplyKeepsOthers ==
  ASSUME NEW u \in Update, NEW v \in Update, NEW cfg \in ConfigData,
         ~SameEntry(u, v), Holds(u, cfg)
  PROVE  Holds(u, Apply(v, cfg))
  BY UpdateKinds DEF Apply, ConfigData, Holds, SameEntry

LEMMA HoldsIsApplied ==
  ASSUME NEW u \in Update, NEW cfg \in ConfigData, Holds(u, cfg)
  PROVE  Apply(u, cfg) = cfg
  BY UpdateKinds DEF Apply, ConfigData, Holds

LEMMA ApplyLabel ==
  ASSUME NEW u \in Update, NEW cfg \in ConfigData
  PROVE  Apply(u, cfg).label = IF u.op = "label" THEN u.to ELSE cfg.label
  BY UpdateKinds DEF Apply, ConfigData

(* A start leaves the stored config as it was, but for the label.          *)
LEMMA BootKeeps ==
  ASSUME NEW stored \in ConfigData, Boot(stored)
  PROVE  /\ config' \in ConfigData /\ disk' = config'
         /\ stackLabel' \in Label /\ pinned' \in Label \cup {NoPin}
         /\ bootUnsaved' \in BOOLEAN
         /\ config'.wifi = stored.wifi /\ config'.thread = stored.thread
         /\ bootUnsaved' \/ config'.label = stackLabel'
<1>1. CASE pinned' = NoPin
  BY <1>1 DEF Boot, ConfigData
<1>2. CASE pinned' # NoPin
  <2>1. pinned' \in Label
    BY <1>2, PinsAssumption DEF Boot
  <2>2. CASE bootUnsaved' = TRUE
    BY <1>2, <2>1, <2>2 DEF Boot, ConfigData
  <2>3. CASE bootUnsaved' = FALSE
    BY <1>2, <2>1, <2>3 DEF Boot, ConfigData
  <2>4. QED
    BY <1>2, <2>2, <2>3 DEF Boot
<1>3. QED
  BY <1>1, <1>2

-----------------------------------------------------------------------------
(* The inductive invariant.                                                *)

(* A command has an update to make from its start to its answer.  One that *)
(* sets the label owns it, so there is at most one, and the fabric carries *)
(* its label from the moment the stack took it.                            *)
CommandInv ==
  \A c \in Conn :
    /\ step[c] = "idle" => update[c] = NoUpdate
    /\ step[c] # "idle" => update[c] \in Update
    /\ step[c] = "stackLabel" => update[c].op = "label"
    /\ update[c].op = "label" =>
         /\ owner = c
         /\ step[c] \in {"stackLabel", "lock", "save", "commit"}
         /\ step[c] # "stackLabel" => stackLabel = update[c].to

(* Who writes holds the change of the config as it still is; what its save *)
(* left on the disk is what it will store back.                            *)
WriterInv ==
  \A c \in Conn :
    /\ step[c] \in {"save", "commit"} => clone[c] = Apply(update[c], config)
    /\ step[c] = "commit" =>
         /\ saved[c] <=> ~unsaved
         /\ saved[c] => disk = clone[c]

(* The config holds every update; it and the disk hold what was promised,  *)
(* which nobody who is writing changes.                                    *)
StoreInv ==
  /\ config = applied
  /\ writer = Nobody /\ ~unsaved => disk = config
  /\ \A u \in promised :
       /\ u.op # "label" /\ Holds(u, config) /\ Holds(u, disk)
       /\ \A c \in Conn : step[c] \in {"save", "commit"} => ~SameEntry(u, update[c])

Inv == TypeOK /\ CommandInv /\ WriterInv /\ StoreInv /\ LabelsAgree

LEMMA InitInv == Init => Inv
<1> SUFFICES ASSUME Init PROVE Inv
  OBVIOUS
<1>1. PICK l \in Label : config = [label |-> l, wifi |-> [i \in WifiId |-> NoCred],
                                   thread |-> [i \in ThreadId |-> NoDataset]]
                         /\ stackLabel = l /\ pinned \in Pins \cap {NoPin, l}
  BY DEF Init
<1>2. config \in ConfigData /\ disk = config /\ applied = config
  BY <1>1 DEF Init, ConfigData
<1>3. TypeOK
  <2>1. fresh \in [Conn -> BOOLEAN] /\ saved \in [Conn -> BOOLEAN]
    BY Zenon DEF Init
  <2>2. unsaved \in BOOLEAN /\ bootUnsaved \in BOOLEAN
    BY Zenon DEF Init
  <2>3. QED
    BY <1>1, <1>2, <2>1, <2>2, BoundsAssumption, NobodyAssumption
       DEF Init, TypeOK, Steps
<1>4. CommandInv /\ WriterInv
  BY DEF Init, CommandInv, WriterInv, NoUpdate
<1>5. StoreInv
  BY <1>2 DEF Init, StoreInv
<1>6. LabelsAgree
  BY <1>1 DEF LabelsAgree
<1>7. QED
  BY <1>3, <1>4, <1>5, <1>6 DEF Inv

-----------------------------------------------------------------------------
(* The steps.  The credential commands differ only in the update they are  *)
(* going to make.                                                          *)
StartsUpdate(c, u) ==
  /\ Begin(c) /\ u.op # "label"
  /\ WillUpdate(c, u)
  /\ UNCHANGED <<fresh, storeVars, labelVars, clientVars>>

CredentialCommand(c) ==
  \/ \E id \in WifiId : \/ \E cred \in Cred : SetWifi(c, id, cred)
                        \/ \E s \in Ssid : KeepWifi(c, id, s)
                        \/ RemoveWifi(c, id)
  \/ \E id \in ThreadId : \/ \E d \in Dataset : SetThread(c, id, d)
                          \/ RemoveThread(c, id)

LEMMA CredentialCommands ==
  ASSUME TypeOK, NEW c \in Conn, CredentialCommand(c)
  PROVE  \E u \in Update : StartsUpdate(c, u)
<1>1. ASSUME NEW id \in WifiId, NEW to \in Cred \cup {NoCred},
             Begin(c), WillUpdate(c, [op |-> "wifi", id |-> id, to |-> to]),
             UNCHANGED <<fresh, storeVars, labelVars, clientVars>>
      PROVE  \E u \in Update : StartsUpdate(c, u)
  <2>1. [op |-> "wifi", id |-> id, to |-> to] \in Update
    BY DEF Update
  <2>2. QED
    BY <1>1, <2>1 DEF StartsUpdate
<1>2. ASSUME NEW id \in ThreadId, NEW to \in Dataset \cup {NoDataset},
             Begin(c), WillUpdate(c, [op |-> "thread", id |-> id, to |-> to]),
             UNCHANGED <<fresh, storeVars, labelVars, clientVars>>
      PROVE  \E u \in Update : StartsUpdate(c, u)
  <2>1. [op |-> "thread", id |-> id, to |-> to] \in Update
    BY DEF Update
  <2>2. QED
    BY <1>2, <2>1 DEF StartsUpdate
<1>3. \A id \in WifiId : config.wifi[id] \in Cred \cup {NoCred}
  BY DEF TypeOK, ConfigData
<1>4. QED
  BY <1>1, <1>2, <1>3 DEF CredentialCommand, SetWifi, KeepWifi, RemoveWifi, SetThread,
                          RemoveThread

LEMMA StartStep ==
  ASSUME Inv, NEW c \in Conn, NEW u \in Update, StartsUpdate(c, u)
  PROVE  Inv'
<1> USE NobodyAssumption DEF Inv
<1>1. TypeOK'
  BY BoundsAssumption DEF TypeOK, Steps, StartsUpdate, Begin, WillUpdate, storeVars,
          labelVars, clientVars
<1>2. CommandInv'
  BY DEF TypeOK, CommandInv, NoUpdate, StartsUpdate, Begin, WillUpdate, storeVars,
          labelVars, clientVars
<1>3. WriterInv'
  BY DEF TypeOK, CommandInv, WriterInv, NoUpdate, StartsUpdate, Begin, WillUpdate,
          storeVars, labelVars, clientVars
<1>4. StoreInv'
  BY DEF TypeOK, CommandInv, StoreInv, NoUpdate, StartsUpdate, Begin, WillUpdate,
          storeVars, labelVars, clientVars
<1>5. LabelsAgree'
  BY DEF TypeOK, CommandInv, LabelsAgree, NoUpdate, StartsUpdate, Begin, WillUpdate,
          storeVars, labelVars, clientVars
<1>6. QED
  BY <1>1, <1>2, <1>3, <1>4, <1>5

LEMMA SetLabelStep ==
  ASSUME Inv, NEW c \in Conn, NEW l \in Label, SetLabel(c, l)
  PROVE  Inv'
<1> USE NobodyAssumption DEF Inv
<1>a. [op |-> "label", to |-> l] \in Update
  BY DEF Update
<1>1. TypeOK'
  <2>1. fresh' \in [Conn -> BOOLEAN]
    BY DEF TypeOK, SetLabel
  <2>2. QED
    BY <1>a, <2>1, BoundsAssumption DEF TypeOK, Steps, SetLabel, Begin, storeVars,
            clientVars
<1>2. CommandInv'
  BY <1>a DEF TypeOK, CommandInv, NoUpdate, SetLabel, Begin, storeVars, clientVars
<1>3. WriterInv'
  BY <1>a DEF TypeOK, CommandInv, WriterInv, NoUpdate, SetLabel, Begin, storeVars,
          clientVars
<1>4. StoreInv'
  BY <1>a DEF TypeOK, CommandInv, StoreInv, NoUpdate, SetLabel, Begin, storeVars,
          clientVars
<1>5. LabelsAgree'
  BY <1>a DEF TypeOK, CommandInv, LabelsAgree, NoUpdate, SetLabel, Begin, storeVars,
          clientVars
<1>6. QED
  BY <1>1, <1>2, <1>3, <1>4, <1>5

LEMMA StackTakesStep ==
  ASSUME Inv, NEW c \in Conn, StackTakesLabel(c)
  PROVE  Inv'
<1> USE NobodyAssumption DEF Inv
<1>a. update[c] \in Update /\ update[c].op = "label"
  BY DEF CommandInv, StackTakesLabel
<1>b. update[c].to \in Label
  BY <1>a, UpdateKinds
<1>1. TypeOK'
  BY <1>a, <1>b DEF TypeOK, Steps, StackTakesLabel, storeVars, clientVars
<1>2. CommandInv'
  BY <1>a, <1>b DEF TypeOK, CommandInv, NoUpdate, StackTakesLabel, storeVars, clientVars
<1>3. WriterInv'
  BY <1>a, <1>b DEF TypeOK, CommandInv, WriterInv, NoUpdate, StackTakesLabel,
          storeVars, clientVars
<1>4. StoreInv'
  BY <1>a, <1>b DEF TypeOK, CommandInv, StoreInv, NoUpdate, StackTakesLabel,
          storeVars, clientVars
<1>5. LabelsAgree'
  BY <1>a, <1>b DEF TypeOK, CommandInv, LabelsAgree, NoUpdate, StackTakesLabel,
          storeVars, clientVars
<1>6. QED
  BY <1>1, <1>2, <1>3, <1>4, <1>5

LEMMA StackRefusesStep ==
  ASSUME Inv, NEW c \in Conn, StackRefusesLabel(c)
  PROVE  Inv'
<1> USE NobodyAssumption DEF Inv
<1>1. TypeOK'
  BY DEF TypeOK, Steps, StackRefusesLabel, Answered, storeVars, clientVars
<1>2. CommandInv'
  BY DEF TypeOK, CommandInv, NoUpdate, StackRefusesLabel, Answered, storeVars,
          clientVars
<1>3. WriterInv'
  BY DEF TypeOK, CommandInv, WriterInv, NoUpdate, StackRefusesLabel, Answered,
          storeVars, clientVars
<1>4. StoreInv'
  BY DEF TypeOK, CommandInv, StoreInv, NoUpdate, StackRefusesLabel, Answered,
          storeVars, clientVars
<1>5. LabelsAgree'
  BY DEF TypeOK, CommandInv, LabelsAgree, NoUpdate, StackRefusesLabel, Answered,
          storeVars, clientVars
<1>6. QED
  BY <1>1, <1>2, <1>3, <1>4, <1>5

LEMMA LockStep ==
  ASSUME Inv, NEW c \in Conn, LockAndClone(c)
  PROVE  Inv'
<1> USE NobodyAssumption DEF Inv
<1>a. update[c] \in Update /\ Apply(update[c], config) \in ConfigData
  BY ApplyType DEF TypeOK, CommandInv, LockAndClone
<1>1. TypeOK'
  BY <1>a DEF TypeOK, Steps, LockAndClone, labelVars
<1>2. CommandInv'
  BY <1>a DEF TypeOK, CommandInv, NoUpdate, LockAndClone, labelVars
<1>3. WriterInv'
  BY <1>a DEF TypeOK, CommandInv, WriterInv, NoUpdate, LockAndClone, labelVars
<1>4. StoreInv'
  BY <1>a DEF TypeOK, CommandInv, StoreInv, NoUpdate, LockAndClone, labelVars
<1>5. LabelsAgree'
  BY <1>a DEF TypeOK, CommandInv, LabelsAgree, NoUpdate, LockAndClone, labelVars
<1>6. QED
  BY <1>1, <1>2, <1>3, <1>4, <1>5

LEMMA SaveStep ==
  ASSUME Inv, NEW c \in Conn, SaveConfig(c)
  PROVE  Inv'
<1> USE NobodyAssumption DEF Inv
<1>a. PICK ok \in BOOLEAN : /\ disk' = IF ok THEN clone[c] ELSE disk
                            /\ unsaved' = ~ok
                            /\ saved' = [saved EXCEPT ![c] = ok]
  BY DEF SaveConfig
<1>b. /\ update[c] \in Update /\ clone[c] = Apply(update[c], config)
      /\ clone[c] \in ConfigData /\ writer = c
  BY ApplyType DEF TypeOK, CommandInv, WriterInv, SaveConfig
<1>1. TypeOK'
  <2>1. /\ saved' \in [Conn -> BOOLEAN] /\ unsaved' \in BOOLEAN
        /\ disk' \in ConfigData
    BY <1>a, <1>b DEF TypeOK
  <2>2. QED
    BY <1>b, <2>1 DEF TypeOK, Steps, SaveConfig, labelVars, clientVars
<1>2. CommandInv'
  BY DEF TypeOK, CommandInv, NoUpdate, SaveConfig, labelVars, clientVars
<1>3. WriterInv'
  <2>1. saved'[c] <=> ~unsaved'
    BY <1>a DEF TypeOK
  <2>2. saved'[c] => disk' = clone[c]
    BY <1>a DEF TypeOK
  <2>3. \A d \in Conn : d # c => step[d] \notin {"save", "commit"}
    BY <1>b DEF TypeOK
  <2>4. QED
    BY <1>b, <2>1, <2>2, <2>3 DEF TypeOK, WriterInv, SaveConfig
<1>4. StoreInv'
  <2>1. ASSUME NEW u \in promised PROVE Holds(u, disk')
    <3>1. Holds(u, clone[c])
      BY <1>b, ApplyKeepsOthers DEF TypeOK, StoreInv, SaveConfig
    <3>2. QED
      BY <1>a, <3>1 DEF StoreInv
  <2>2. QED
    BY <1>b, <2>1 DEF TypeOK, StoreInv, SaveConfig, clientVars
<1>5. LabelsAgree'
  BY DEF TypeOK, CommandInv, LabelsAgree, NoUpdate, SaveConfig, labelVars, clientVars
<1>6. QED
  BY <1>1, <1>2, <1>3, <1>4, <1>5

LEMMA CommitStep ==
  ASSUME Inv, NEW c \in Conn, Commit(c)
  PROVE  Inv'
<1> USE NobodyAssumption DEF Inv
<1>a. /\ update[c] \in Update /\ clone[c] = Apply(update[c], config)
      /\ clone[c] \in ConfigData /\ writer = c
  BY ApplyType DEF TypeOK, CommandInv, WriterInv, Commit
<1>b. config' = clone[c] /\ applied' = clone[c] /\ writer' = Nobody
  BY <1>a DEF StoreInv, Commit
<1>c. \A d \in Conn : d # c => step[d] \notin {"save", "commit"}
  BY <1>a DEF TypeOK
<1>1. TypeOK'
  <2>1. CASE update[c].op # "label" /\ saved[c]
    BY <1>a, <1>b, <2>1 DEF TypeOK, Steps, Commit, labelVars
  <2>2. CASE ~(update[c].op # "label" /\ saved[c])
    <3>1. fresh' \in [Conn -> BOOLEAN] /\ saved' \in [Conn -> BOOLEAN]
      BY <2>2 DEF TypeOK, Commit, Answered
    <3>2. QED
      BY <1>a, <1>b, <2>2, <3>1 DEF TypeOK, Steps, Commit, Answered, labelVars
  <2>3. QED
    BY <2>1, <2>2
<1>2. CommandInv'
  BY <1>a DEF TypeOK, CommandInv, NoUpdate, Commit, Answered, labelVars
<1>3. WriterInv'
  BY <1>a, <1>c DEF TypeOK, WriterInv, Commit, Answered
<1>4. StoreInv'
  <2>1. ~unsaved' => disk' = config'
    BY <1>b DEF WriterInv, Commit
  <2>2. ASSUME NEW u \in promised
        PROVE  u.op # "label" /\ Holds(u, config') /\ Holds(u, disk')
    BY <1>a, <1>b, ApplyKeepsOthers DEF TypeOK, StoreInv, Commit
  <2>3. CASE update[c].op # "label" /\ saved[c]
    <3>1. Holds(update[c], config') /\ disk' = config'
      BY <1>a, <1>b, <2>3, ApplyHolds DEF TypeOK, WriterInv, Commit
    <3>2. \A d \in Conn : step'[d] \notin {"save", "commit"}
      BY <1>c, <2>3 DEF TypeOK, Commit
    <3>3. QED
      BY <1>b, <2>2, <2>3, <3>1, <3>2 DEF StoreInv, Commit
  <2>4. CASE ~(update[c].op # "label" /\ saved[c])
    <3>1. \A d \in Conn : step'[d] \notin {"save", "commit"}
      BY <1>c, <2>4 DEF TypeOK, Commit, Answered
    <3>2. QED
      BY <1>b, <2>1, <2>2, <2>4, <3>1 DEF StoreInv, Commit
  <2>5. QED
    BY <2>3, <2>4
<1>5. LabelsAgree'
  <2>1. config'.label = IF update[c].op = "label" THEN update[c].to ELSE config.label
    BY <1>a, <1>b, ApplyLabel DEF TypeOK
  <2>2. CASE update[c].op = "label"
    BY <2>1, <2>2 DEF CommandInv, LabelsAgree, Commit, labelVars
  <2>3. CASE update[c].op # "label"
    BY <2>1, <2>3 DEF TypeOK, LabelsAgree, Commit, Answered, labelVars
  <2>4. QED
    BY <2>2, <2>3
<1>6. QED
  BY <1>1, <1>2, <1>3, <1>4, <1>5

LEMMA BuildInfoStep ==
  ASSUME Inv, NEW c \in Conn, BuildInfo(c)
  PROVE  Inv'
<1> USE NobodyAssumption DEF Inv
<1>1. TypeOK'
  BY DEF TypeOK, Steps, BuildInfo, storeVars, labelVars, clientVars
<1>2. CommandInv'
  BY DEF TypeOK, CommandInv, NoUpdate, BuildInfo, storeVars, labelVars, clientVars
<1>3. WriterInv'
  BY DEF TypeOK, CommandInv, WriterInv, NoUpdate, BuildInfo, storeVars, labelVars,
          clientVars
<1>4. StoreInv'
  BY DEF TypeOK, CommandInv, StoreInv, NoUpdate, BuildInfo, storeVars, labelVars,
          clientVars
<1>5. LabelsAgree'
  BY DEF TypeOK, CommandInv, LabelsAgree, NoUpdate, BuildInfo, storeVars, labelVars,
          clientVars
<1>6. QED
  BY <1>1, <1>2, <1>3, <1>4, <1>5

LEMMA BroadcastStep ==
  ASSUME Inv, NEW c \in Conn, Broadcast(c)
  PROVE  Inv'
<1> USE NobodyAssumption DEF Inv
<1>1. TypeOK'
  BY DEF TypeOK, Steps, Broadcast, Answered, storeVars, labelVars
<1>2. CommandInv'
  BY DEF TypeOK, CommandInv, NoUpdate, Broadcast, Answered, storeVars, labelVars
<1>3. WriterInv'
  BY DEF TypeOK, CommandInv, WriterInv, NoUpdate, Broadcast, Answered, storeVars,
          labelVars
<1>4. StoreInv'
  BY DEF TypeOK, CommandInv, StoreInv, NoUpdate, Broadcast, Answered, storeVars,
          labelVars
<1>5. LabelsAgree'
  BY DEF TypeOK, CommandInv, LabelsAgree, NoUpdate, Broadcast, Answered, storeVars,
          labelVars
<1>6. QED
  BY <1>1, <1>2, <1>3, <1>4, <1>5

LEMMA CloseStep ==
  ASSUME Inv, NEW c \in Conn, Close(c)
  PROVE  Inv'
<1> USE NobodyAssumption DEF Inv
<1>1. TypeOK'
  BY DEF TypeOK, Steps, Close, commandVars, storeVars
<1>2. CommandInv'
  BY DEF TypeOK, CommandInv, NoUpdate, Close, commandVars, storeVars
<1>3. WriterInv'
  BY DEF TypeOK, CommandInv, WriterInv, NoUpdate, Close, commandVars, storeVars
<1>4. StoreInv'
  BY DEF TypeOK, CommandInv, StoreInv, NoUpdate, Close, commandVars, storeVars
<1>5. LabelsAgree'
  BY DEF TypeOK, CommandInv, LabelsAgree, NoUpdate, Close, commandVars, storeVars
<1>6. QED
  BY <1>1, <1>2, <1>3, <1>4, <1>5

LEMMA RestartStep ==
  ASSUME Inv, Restart
  PROVE  Inv'
<1> USE NobodyAssumption DEF Inv
<1>a. /\ config' \in ConfigData /\ disk' = config' /\ applied' = config'
      /\ stackLabel' \in Label /\ pinned' \in Label \cup {NoPin}
      /\ bootUnsaved' \in BOOLEAN
      /\ config'.wifi = disk.wifi /\ config'.thread = disk.thread
      /\ bootUnsaved' \/ config'.label = stackLabel'
  BY BootKeeps DEF TypeOK, Restart
<1>1. TypeOK'
  <2>1. /\ fresh' \in [Conn -> BOOLEAN] /\ saved' \in [Conn -> BOOLEAN]
        /\ unsaved' \in BOOLEAN
    BY DEF Restart
  <2>2. restarts' \in 0..MaxRestarts
    BY BoundsAssumption DEF TypeOK, Restart
  <2>3. QED
    BY <1>a, <2>1, <2>2 DEF TypeOK, Steps, Restart
<1>2. CommandInv'
  BY DEF CommandInv, NoUpdate, Restart
<1>3. WriterInv'
  BY DEF WriterInv, Restart
<1>4. StoreInv'
  <2>1. ASSUME NEW u \in promised
        PROVE  u.op # "label" /\ Holds(u, config')
    BY <1>a, UpdateKinds DEF TypeOK, StoreInv, Holds
  <2>2. QED
    BY <1>a, <2>1 DEF StoreInv, Restart
<1>5. LabelsAgree'
  BY <1>a DEF LabelsAgree
<1>6. QED
  BY <1>1, <1>2, <1>3, <1>4, <1>5

LEMMA InvStep == Inv /\ [Next]_vars => Inv'
<1> SUFFICES ASSUME Inv, [Next]_vars PROVE Inv'
  OBVIOUS
<1>1. ASSUME NEW c \in Conn, CredentialCommand(c) PROVE Inv'
  BY <1>1, CredentialCommands, StartStep DEF Inv
<1>2. ASSUME NEW c \in Conn, NEW l \in Label, SetLabel(c, l) PROVE Inv'
  BY <1>2, SetLabelStep
<1>3. ASSUME NEW c \in Conn, UpdateConfig(c) PROVE Inv'
  BY <1>3, LockStep, SaveStep, CommitStep, BuildInfoStep, BroadcastStep DEF UpdateConfig
<1>4. ASSUME NEW c \in Conn, StackTakesLabel(c) \/ StackRefusesLabel(c) \/ Close(c)
      PROVE  Inv'
  BY <1>4, StackTakesStep, StackRefusesStep, CloseStep
<1>5. CASE Restart
  BY <1>5, RestartStep
<1>6. CASE UNCHANGED vars
  BY <1>6 DEF vars, commandVars, storeVars, labelVars, clientVars, Inv, TypeOK,
          CommandInv,
              WriterInv, StoreInv, LabelsAgree
<1>7. QED
  BY <1>1, <1>2, <1>3, <1>4, <1>5, <1>6 DEF Next, CredentialCommand

(* The invariant holds in every state, however the commands interleave and *)
(* wherever the process stops.                                             *)
THEOREM InvIsInvariant == Spec => []Inv
<1>1. QED
  BY InitInv, InvStep, PTL DEF Spec

(* Every variable keeps its type, and config_write is held by exactly the  *)
(* connection that is between its lock and its unlock.                     *)
THEOREM TypeCorrect == Spec => []TypeOK
<1>1. QED
  BY InvIsInvariant, PTL DEF Inv

(* update_config loses no change of another command, whatever the          *)
(* interleaving: the config is the updates applied in turn, the disk       *)
(* agrees unless its last save failed, and a credential change answered    *)
(* with success is on disk until a command changes the same entry, across  *)
(* restarts at any moment.                                                 *)
THEOREM UpdatesAreKept == Spec => []NoUpdateIsLost
<1>1. Inv => NoUpdateIsLost
  <2> SUFFICES ASSUME Inv PROVE NoUpdateIsLost
    OBVIOUS
  <2>1. writer = Nobody => config = applied /\ (~unsaved => disk = config)
    BY DEF Inv, StoreInv
  <2>2. \A u \in promised : Apply(u, disk) = disk
    BY HoldsIsApplied DEF Inv, TypeOK, StoreInv
  <2>3. QED
    BY <2>1, <2>2 DEF NoUpdateIsLost
<1>2. QED
  BY <1>1, InvIsInvariant, PTL

(* set_default_fabric_label, whichever connections send it and however it  *)
(* ends, leaves the fabric and the config with the same label, unless the  *)
(* pinned one could not be written at start-up.                            *)
THEOREM LabelsAlwaysAgree == Spec => []LabelsAgree
<1>1. QED
  BY InvIsInvariant, PTL DEF Inv

=============================================================================
