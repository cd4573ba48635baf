---------------------------- MODULE ConfigStore -----------------------------
(***************************************************************************)
(* config.json and the commands that change it: update_config and          *)
(* connection_closed of crates/controller/src/real.rs, the credential      *)
(* commands of commands/credentials.rs, set_default_fabric_label of        *)
(* commands/fabrics.rs, and the part of crates/server/src/main.rs that     *)
(* picks the fabric label at start-up.                                     *)
(*                                                                         *)
(* Commands of different connections run on different threads.  A command  *)
(* reads the config (a std mutex held for a clone) at one moment and       *)
(* changes it at another: update_config takes the config_write lock,       *)
(* clones, changes the clone, saves it and stores it back.  A connection   *)
(* runs one command at a time and is not closed during one.                *)
(***************************************************************************)
EXTENDS Naturals, FiniteSets

CONSTANTS
  Conn,        \* connections
  WifiId,      \* names of Wi-Fi credentials; "default" is the implicit slot
  Lower,       \* the lower-case form of every credential name
  Ssid,
  Password,
  ThreadId,    \* names of Thread datasets
  Dataset,
  Label,
  Pins,        \* what a start may give as --default-fabric-label
  NoPin,       \* the option is not given
  MaxCommands, \* bound: commands started
  MaxRestarts  \* bound: restarts of the process

ASSUME PinsAssumption == NoPin \notin Label /\ Pins \subseteq Label \cup {NoPin}

ASSUME BoundsAssumption == MaxCommands \in Nat /\ MaxRestarts \in Nat

Nobody == "nobody"

ASSUME NobodyAssumption == Nobody \notin Conn

NoCred == [none |-> TRUE]

NoDataset == "no dataset"

Cred == [ssid : Ssid, password : Password]

(* ConfigData, but for next_node_id (module NodeCommands).                 *)
ConfigData ==
  [label : Label, wifi : [WifiId -> Cred \cup {NoCred}],
   thread : [ThreadId -> Dataset \cup {NoDataset}]]

(* A change of the config: what the closure given to update_config does.   *)
Update ==
  [op : {"wifi"}, id : WifiId, to : Cred \cup {NoCred}]
    \cup [op : {"thread"}, id : ThreadId, to : Dataset \cup {NoDataset}]
    \cup [op : {"label"}, to : Label]

Apply(u, cfg) ==
  CASE u.op = "wifi"   -> [cfg EXCEPT !.wifi[u.id] = u.to]
    [] u.op = "thread" -> [cfg EXCEPT !.thread[u.id] = u.to]
    [] u.op = "label"  -> [cfg EXCEPT !.label = u.to]

NoUpdate == [op |-> "none"]

(* What server_info tells of the config: whether the default slot is set.  *)
Info(cfg) == [wifi |-> cfg.wifi["default"], thread |-> cfg.thread["default"]]

VARIABLES
  config, disk,     \* MatterController::config and config.json
  writer,           \* who holds config_write
  step, update,     \* where each connection's command is, what it will do
  clone, saved,     \* its clone of the config; whether its save worked
  info,             \* the server_info it is about to broadcast
  owner, fresh,     \* label_owner; whether this command claimed it
  stackLabel,       \* the label the fabric carries
  pinned,           \* the label this start pins, or NoPin
  open,             \* connections that are open
  announced,        \* the server_info last broadcast
  \* for the bounds and the properties: the config with every update applied
  \* in turn; what a client was told is stored under each id; whether the
  \* last save, and the save at start-up, failed
  applied, promised, unsaved, bootUnsaved, started, restarts

commandVars == <<step, update, clone, saved, info, fresh, started>>
storeVars   == <<config, disk, writer, applied, unsaved>>
labelVars   == <<owner, stackLabel, pinned, bootUnsaved>>
clientVars  == <<open, announced, promised, restarts>>

vars == <<commandVars, storeVars, labelVars, clientVars>>

Steps == {"idle", "stackLabel", "lock", "save", "commit", "info", "broadcast"}

TypeOK ==
  /\ config \in ConfigData /\ disk \in ConfigData /\ applied \in ConfigData
  /\ writer \in Conn \cup {Nobody}
  /\ step \in [Conn -> Steps]
  /\ update \in [Conn -> Update \cup {NoUpdate}]
  /\ clone \in [Conn -> ConfigData \cup {NoUpdate}]
  /\ saved \in [Conn -> BOOLEAN]
  /\ owner \in Conn \cup {Nobody}
  /\ fresh \in [Conn -> BOOLEAN]
  /\ stackLabel \in Label /\ pinned \in Label \cup {NoPin}
  /\ open \subseteq Conn
  /\ promised \subseteq Update
  /\ unsaved \in BOOLEAN /\ bootUnsaved \in BOOLEAN
  /\ started \in 0..MaxCommands /\ restarts \in 0..MaxRestarts
  /\ \A c \in Conn : step[c] \in {"save", "commit"} <=> writer = c

(* Start-up: a pinned label is given to the fabric, and written to         *)
(* config.json before the controller loads it, if that works.              *)
Boot(stored) ==
  /\ pinned' \in Pins
  /\ \/ /\ pinned' = NoPin
        /\ config' = stored /\ stackLabel' = stored.label
        /\ bootUnsaved' = FALSE
     \/ /\ pinned' # NoPin
        /\ config' = [stored EXCEPT !.label = pinned'] /\ stackLabel' = pinned'
        /\ bootUnsaved' = FALSE
     \/ /\ pinned' # NoPin /\ stored.label # pinned'
        /\ config' = stored /\ stackLabel' = pinned'
        /\ bootUnsaved' = TRUE
  /\ disk' = config'

(* A first start without config.json: the defaults.                        *)
Init ==
  \E l \in Label :
    /\ config = [label |-> l, wifi |-> [i \in WifiId |-> NoCred],
                 thread |-> [i \in ThreadId |-> NoDataset]]
    /\ disk = config /\ applied = config
    /\ stackLabel = l
    /\ pinned \in Pins \cap {NoPin, l}
    /\ writer = Nobody
    /\ step = [c \in Conn |-> "idle"]
    /\ update = [c \in Conn |-> NoUpdate]
    /\ clone = [c \in Conn |-> NoUpdate]
    /\ saved = [c \in Conn |-> FALSE]
    /\ info = [c \in Conn |-> NoUpdate]
    /\ owner = Nobody /\ fresh = [c \in Conn |-> FALSE]
    /\ open = Conn
    /\ announced = Info(config)
    /\ promised = {}
    /\ unsaved = FALSE /\ bootUnsaved = FALSE
    /\ started = 0 /\ restarts = 0

-----------------------------------------------------------------------------
Begin(c) ==
  /\ c \in open /\ step[c] = "idle"
  /\ started < MaxCommands
  /\ started' = started + 1

Answered(c) ==
  /\ step' = [step EXCEPT ![c] = "idle"]
  /\ update' = [update EXCEPT ![c] = NoUpdate]
  /\ clone' = [clone EXCEPT ![c] = NoUpdate]
  /\ saved' = [saved EXCEPT ![c] = FALSE]
  /\ info' = [info EXCEPT ![c] = NoUpdate]
  /\ fresh' = [fresh EXCEPT ![c] = FALSE]

(* On to update_config with the update u.                                  *)
WillUpdate(c, u) ==
  /\ step' = [step EXCEPT ![c] = "lock"]
  /\ update' = [update EXCEPT ![c] = u]
  /\ UNCHANGED <<clone, saved, info>>

(* validate_credential_id against the names in use at this moment.         *)
ValidId(id, existing) ==
  id # "default" => \A other \in existing : Lower[other] = Lower[id] => other = id

WifiIds == {i \in WifiId : config.wifi[i] # NoCred}

ThreadIds == {i \in ThreadId : config.thread[i] # NoDataset}

(* set_wifi_credentials with a password.                                   *)
SetWifi(c, id, cred) ==
  /\ Begin(c)
  /\ ValidId(id, WifiIds)
  /\ WillUpdate(c, [op |-> "wifi", id |-> id, to |-> cred])
  /\ UNCHANGED <<fresh, storeVars, labelVars, clientVars>>

(* set_wifi_credentials without one: the stored password of that ssid.     *)
KeepWifi(c, id, ssid) ==
  /\ Begin(c)
  /\ ValidId(id, WifiIds)
  /\ id \in WifiIds
  /\ config.wifi[id].ssid = ssid
  /\ WillUpdate(c, [op |-> "wifi", id |-> id, to |-> config.wifi[id]])
  /\ UNCHANGED <<fresh, storeVars, labelVars, clientVars>>

RemoveWifi(c, id) ==
  /\ Begin(c)
  /\ WillUpdate(c, [op |-> "wifi", id |-> id, to |-> NoCred])
  /\ UNCHANGED <<fresh, storeVars, labelVars, clientVars>>

SetThread(c, id, dataset) ==
  /\ Begin(c)
  /\ ValidId(id, ThreadIds)
  /\ WillUpdate(c, [op |-> "thread", id |-> id, to |-> dataset])
  /\ UNCHANGED <<fresh, storeVars, labelVars, clientVars>>

RemoveThread(c, id) ==
  /\ Begin(c)
  /\ WillUpdate(c, [op |-> "thread", id |-> id, to |-> NoDataset])
  /\ UNCHANGED <<fresh, storeVars, labelVars, clientVars>>

(* Mutant: who owns the label is not looked at.                            *)
SetLabelUnowned(c, l) ==
  /\ Begin(c)
  /\ pinned = NoPin
  /\ fresh' = [fresh EXCEPT ![c] = owner = Nobody]
  /\ owner' = c
  /\ step' = [step EXCEPT ![c] = "stackLabel"]
  /\ update' = [update EXCEPT ![c] = [op |-> "label", to |-> l]]
  /\ UNCHANGED <<clone, saved, info, storeVars, stackLabel, pinned, bootUnsaved,
                 clientVars>>

(* set_default_fabric_label: ignored if pinned or owned by another         *)
(* connection, otherwise claimed and given to the stack first.             *)
SetLabel(c, l) ==
  /\ Begin(c)
  /\ pinned = NoPin
  /\ owner \in {Nobody, c}
  /\ fresh' = [fresh EXCEPT ![c] = owner = Nobody]
  /\ owner' = c
  /\ step' = [step EXCEPT ![c] = "stackLabel"]
  /\ update' = [update EXCEPT ![c] = [op |-> "label", to |-> l]]
  /\ UNCHANGED <<clone, saved, info, storeVars, stackLabel, pinned, bootUnsaved,
                 clientVars>>

StackTakesLabel(c) ==
  /\ step[c] = "stackLabel"
  /\ stackLabel' = update[c].to
  /\ step' = [step EXCEPT ![c] = "lock"]
  /\ UNCHANGED <<update, clone, saved, info, fresh, started, storeVars, owner,
                 pinned, bootUnsaved, clientVars>>

(* The stack refuses: a claim made by this very command is given back.     *)
StackRefusesLabel(c) ==
  /\ step[c] = "stackLabel"
  /\ owner' = IF fresh[c] /\ owner = c THEN Nobody ELSE owner
  /\ Answered(c)
  /\ UNCHANGED <<started, storeVars, stackLabel, pinned, bootUnsaved,
                 clientVars>>

-----------------------------------------------------------------------------
(* update_config.                                                          *)

(* Do two updates change the same entry?                                   *)
SameEntry(u, v) == u.op = v.op /\ (u.op # "label" => u.id = v.id)

(* Mutant: the config is cloned without waiting for the lock.              *)
CloneUnlocked(c) ==
  /\ step[c] = "lock"
  /\ writer' = c
  /\ clone' = [clone EXCEPT ![c] = Apply(update[c], config)]
  /\ promised' = {u \in promised : ~SameEntry(u, update[c])}
  /\ step' = [step EXCEPT ![c] = "save"]
  /\ UNCHANGED <<update, saved, info, fresh, started, config, disk, applied,
                 unsaved, labelVars, open, announced, restarts>>

(* The lock, the clone and the change.                                     *)
LockAndClone(c) ==
  /\ step[c] = "lock"
  /\ writer = Nobody
  /\ writer' = c
  /\ clone' = [clone EXCEPT ![c] = Apply(update[c], config)]
  /\ promised' = {u \in promised : ~SameEntry(u, update[c])}
  /\ step' = [step EXCEPT ![c] = "save"]
  /\ UNCHANGED <<update, saved, info, fresh, started, config, disk, applied,
                 unsaved, labelVars, open, announced, restarts>>

(* save_config replaces the file or leaves it as it was.                   *)
SaveConfig(c) ==
  /\ step[c] = "save"
  /\ \E ok \in BOOLEAN :
       /\ disk' = IF ok THEN clone[c] ELSE disk
       /\ unsaved' = ~ok
       /\ saved' = [saved EXCEPT ![c] = ok]
  /\ step' = [step EXCEPT ![c] = "commit"]
  /\ UNCHANGED <<update, clone, info, fresh, started, config, writer, applied,
                 labelVars, clientVars>>

(* The config is stored back even if the save failed.  A credential        *)
(* command then answers with an error, or goes on to broadcast; the label  *)
(* command answers.                                                        *)
Commit(c) ==
  /\ step[c] = "commit"
  /\ config' = clone[c]
  /\ applied' = Apply(update[c], applied)
  /\ writer' = Nobody
  /\ IF update[c].op # "label" /\ saved[c]
     THEN /\ step' = [step EXCEPT ![c] = "info"]
          /\ promised' = promised \cup {update[c]}
          /\ UNCHANGED <<update, clone, saved, info, fresh>>
     ELSE Answered(c) /\ UNCHANGED promised
  /\ UNCHANGED <<started, disk, unsaved, labelVars, open, announced, restarts>>

(* broadcast_server_info_updated: build, then send.                        *)
BuildInfo(c) ==
  /\ step[c] = "info"
  /\ info' = [info EXCEPT ![c] = Info(config)]
  /\ step' = [step EXCEPT ![c] = "broadcast"]
  /\ UNCHANGED <<update, clone, saved, fresh, started, storeVars, labelVars,
                 clientVars>>

Broadcast(c) ==
  /\ step[c] = "broadcast"
  /\ announced' = info[c]
  /\ Answered(c)
  /\ UNCHANGED <<started, storeVars, labelVars, open, promised, restarts>>

-----------------------------------------------------------------------------
(* connection_closed.                                                      *)
Close(c) ==
  /\ c \in open /\ step[c] = "idle"
  /\ open' = open \ {c}
  /\ owner' = IF owner = c THEN Nobody ELSE owner
  /\ UNCHANGED <<commandVars, storeVars, stackLabel, pinned, bootUnsaved,
                 announced, promised, restarts>>

(* The process stops anywhere and starts again from config.json.           *)
Restart ==
  /\ restarts < MaxRestarts
  /\ restarts' = restarts + 1
  /\ Boot(disk)
  /\ applied' = config' /\ unsaved' = FALSE
  /\ writer' = Nobody /\ owner' = Nobody
  /\ step' = [c \in Conn |-> "idle"]
  /\ update' = [c \in Conn |-> NoUpdate]
  /\ clone' = [c \in Conn |-> NoUpdate]
  /\ saved' = [c \in Conn |-> FALSE]
  /\ info' = [c \in Conn |-> NoUpdate]
  /\ fresh' = [c \in Conn |-> FALSE]
  /\ open' = Conn
  /\ announced' = Info(config')
  /\ UNCHANGED <<promised, started>>

UpdateConfig(c) ==
  \/ LockAndClone(c)
  \/ SaveConfig(c)
  \/ Commit(c)
  \/ BuildInfo(c)
  \/ Broadcast(c)

Next ==
  \/ \E c \in Conn :
       \/ \E id \in WifiId : \/ \E cred \in Cred : SetWifi(c, id, cred)
                             \/ \E s \in Ssid : KeepWifi(c, id, s)
                             \/ RemoveWifi(c, id)
       \/ \E id \in ThreadId : \/ \E d \in Dataset : SetThread(c, id, d)
                               \/ RemoveThread(c, id)
       \/ \E l \in Label : SetLabel(c, l)
       \/ StackTakesLabel(c)
       \/ StackRefusesLabel(c)
       \/ UpdateConfig(c)
       \/ Close(c)
  \/ Restart

Spec == Init /\ [][Next]_vars

-----------------------------------------------------------------------------
(* Whenever nobody is writing, the config holds every update ever made, in *)
(* the order they were made, and the disk holds them too unless its last   *)
(* save failed: no read-modify-write loses another's change (update_config,*)
(* "With the read-modify-write unserialized ...").  A credential change    *)
(* that was answered with success is on disk until another command changes *)
(* the same entry: it survives a crash at any moment, also one during a    *)
(* later save of something else.                                           *)
NoUpdateIsLost ==
  /\ writer = Nobody => config = applied /\ (~unsaved => disk = config)
  /\ \A u \in promised : Apply(u, disk) = disk

(* The label the fabric carries is the one config.json and                 *)
(* get_fabric_label tell, whichever connections set it, unless the pinned  *)
(* label could not be written at start-up.                                 *)
LabelsAgree ==
  bootUnsaved \/ config.label = stackLabel
    \/ \E c \in Conn : update[c].op = "label" /\ step[c] \in {"lock", "save", "commit"}

=============================================================================
