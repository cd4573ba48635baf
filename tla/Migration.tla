----------------------------- MODULE Migration -----------------------------
(***************************************************************************)
(* matter-rs-migrate: reads a matter.js store, mints a controller identity *)
(* under the fabric's own root CA, checks it offline, and with --write     *)
(* creates the storage directory a server then boots from.  The module     *)
(* composes the store (JsDb), the directory and the booting server         *)
(* (Provisioning) and the tool, whose writes fail or stop at any point.    *)
(*                                                                         *)
(* A JSON value is a tuple that starts with its kind.  A "tagged" one is   *)
(* the matter.js string {"__object__": tag, "__value__": payload}.         *)
(***************************************************************************)
EXTENDS JsDb, Provisioning

CONSTANTS
    U64,          \* one more than the largest u64
    U16,          \* one more than the largest u16
    Leftovers,    \* what config.json and nodes/ may hold before the tool runs
    MaxToolRuns   \* bound: runs of the tool

ASSUME NodesAreU64 == U64 \in Nat /\ NodeIds \subseteq 0 .. U64 - 1

(* Every node has its own file name, and the label in a config is text.    *)
ASSUME LeftoversAssumption ==
    \A leftover \in Leftovers :
        /\ leftover.nodes = [n \in NodeIds |-> leftover.nodes[n]]
        /\ leftover.config # Absent =>
                Contents(leftover.config).fabric_label \in Seq(Nat)

VARIABLES
    tool,     \* the running tool: where it is, and what it is about to write
    toolRuns  \* how much of MaxToolRuns is used

vars == <<storeVars, provisioningVars, tool, toolRuns>>

-----------------------------------------------------------------------------
(* decode: matter.js's tagged values.                                      *)

BIGINT_TAGS == {"BigInt", "EventNumber", "FabricId", "NodeId"}
NUMBER_TAGS == {"FabricIndex", "VendorId"}

Payload(kind, v) == IF v[1] = kind THEN Ok(v[2]) ELSE Err

(* The kind and contents of a tagged document; an unknown tag is an error. *)
parse_tagged(v) ==
    LET tag == v[2]
        of(kind, payload) == IF IsOk(payload) THEN Ok(<<kind, payload[2]>>)
                                              ELSE Err
    IN  CASE tag = "Undefined"     -> Ok(<<"undefined">>)
          [] tag \in BIGINT_TAGS   -> of("u64", Payload("decimal", v[3]))
          [] tag \in NUMBER_TAGS   -> of("u64", Payload("number", v[3]))
          [] tag = "Uint8Array"    -> of("bytes", Payload("hex", v[3]))
          [] tag = "Map"           -> of("entries", Payload("pairs", v[3]))
          [] OTHER                 -> Err

(* The contents of a parsed document of one kind. *)
OfKind(kind, parsed) ==
    IF IsOk(parsed) /\ parsed[2][1] = kind THEN Ok(parsed[2][2]) ELSE Err

(* A value of one kind, tagged or, where matter.js also writes it so, plain. *)
DecodeAs(kind, plain, v) ==
    IF v[1] = "tagged" THEN OfKind(kind, parse_tagged(v)) ELSE Payload(plain, v)

as_u64(v) == DecodeAs("u64", "number", v)
as_bytes(v) == DecodeAs("bytes", "-", v)
as_str(v) == DecodeAs("-", "string", v)
as_map_entries(v) == DecodeAs("entries", "pairs", v)
as_object(v) == Payload("object", v)

-----------------------------------------------------------------------------
(* convert: what the tool takes from the store.                            *)

(* The length of a blob in bytes; IPK and operational IPK have the same. *)
Length(blob) ==
    CASE blob[1] = "key"         -> 32
      [] blob[1] = "ipk"         -> 16
      [] blob[1] = "operational" -> 16
      [] blob[1] = "compressed"  -> 8
      [] OTHER                   -> 1

need(obj, key, decoded(_)) ==
    IF key \in DOMAIN obj THEN decoded(obj[key]) ELSE Err

OfLength(len, bytes) ==
    IF IsOk(bytes) /\ Length(bytes[2]) = len THEN bytes ELSE Err

bytes_field(len, v) == OfLength(len, as_bytes(v))

Context(db, name) == IF <<name>> \in DOMAIN db THEN db[<<name>>] ELSE <<>>

(* A record of results as the result of a record: the first Err is returned. *)
Complete(read) ==
    IF \A f \in DOMAIN read : IsOk(read[f])
    THEN Ok([f \in DOMAIN read |-> read[f][2]]) ELSE Err

read_source_fabric(db) ==
    LET fabric == need(Context(db, "credentials"), "fabric", as_object)
        pair == need(Context(db, "certificates"), "rootKeyPair", as_object)
        of(obj, key, decoded(_)) ==
            IF IsOk(obj) THEN need(obj[2], key, decoded) ELSE Err
        bytes16(v) == bytes_field(16, v)
        bytes8(v) == bytes_field(8, v)
        bytes32(v) == bytes_field(32, v)
        label == IF IsOk(fabric) /\ "label" \notin DOMAIN fabric[2]
                 THEN Ok(<<>>) ELSE of(fabric, "label", as_str)
        vendor == of(fabric, "rootVendorId", as_u64)
    IN  IF ~IsOk(vendor) THEN Err
        ELSE IF vendor[2] >= U16 THEN Err
        ELSE Complete(
            [fabric_id          |-> of(fabric, "fabricId", as_u64),
             controller_node_id |-> of(fabric, "nodeId", as_u64),
             label              |-> label,
             ipk_epoch_key |-> of(fabric, "identityProtectionKey", bytes16),
             operational_ipk |->
                of(fabric, "operationalIdentityProtectionKey", bytes16),
             operational_id |-> of(fabric, "operationalId", bytes8),
             ca_private_key |-> of(pair, "privateKey", bytes32),
             rcac_tlv       |-> need(Context(db, "certificates"),
                                     "rootCertBytes", as_bytes)])

(* The cached fabric tables of the devices, nodes.peer<K>.endpoints.0.62.  *)
PeerTables(db) ==
    {c \in DOMAIN db :
        Len(c) = 3 /\ c[1] = "nodes" /\ c[3] = "endpoints.0.62"
        /\ "1" \in DOMAIN db[c] /\ db[c]["1"][1] = "array"}

(* The claim a fabric entry makes about a node of the fabric with the root *)
(* key k: Ok([node, index]), or Err for an entry that says nothing of it.  *)
Claim(entry, k) ==
    LET obj == entry[2]
    IN  IF /\ entry[1] = "object"
           /\ need(obj, "rootPublicKey", as_bytes) = Ok(<<"public", k>>)
        THEN Complete([node  |-> need(obj, "nodeId", as_u64),
                       index |-> need(obj, "fabricIndex", as_u64)])
        ELSE Err

(* Mutant: of two claims the later one is taken. *)
LastClaimWins(known, index) == IF index \in 1 .. 254 THEN Ok(index) ELSE Err

(* One more claim about a node whose claims so far came to known, {} when  *)
(* there were none: a refusal is final, and so is a disagreement.          *)
NextIndex(known, index) ==
    IF index \in 1 .. 254 /\ known \in {{}, {Ok(index)}} THEN Ok(index) ELSE Err

(* The map of indexes after a claim. *)
Claimed(map, claim) ==
    LET n == claim.node
        known == IF n \in DOMAIN map THEN {map[n]} ELSE {}
    IN  [m \in DOMAIN map \union {n} |->
            IF m = n THEN NextIndex(known, claim.index) ELSE map[m]]

AfterEntry(map, claim) == IF IsOk(claim) THEN Claimed(map, claim[2]) ELSE map

fabric_index_by_node_id(db, k) ==
    LET step(map, entry) == AfterEntry(map, Claim(entry, k))
        table(map, c) == FoldLeft(step, map, db[c]["1"][2])
    IN  FoldLeft(table, <<>>, SetToSeq(PeerTables(db)))

(* A NodeRecord; its dates are the discovery's or else now's. *)
NodeRecord(entry, indexes) ==
    LET n == as_u64(entry[1])[2]
        obj == entry[2][2]
        matched == n \in DOMAIN indexes /\ IsOk(indexes[n])
    IN  [node_id |-> n,
         device_fabric_index |-> IF matched THEN indexes[n][2] ELSE 0,
         matched |-> matched,
         dated |-> "discoveredAt" \in DOMAIN obj,
         addressed |-> "ip" \in DOMAIN obj]

EntryIsValid(entry) ==
    /\ IsOk(as_u64(entry[1]))
    /\ entry[2][1] = "object"
    /\ "discoveredAt" \in DOMAIN entry[2][2] =>
            IsOk(as_u64(entry[2][2]["discoveredAt"]))
    /\ "ip" \in DOMAIN entry[2][2] => IsOk(as_str(entry[2][2]["ip"]))

(* The records of the commissioned nodes, in the order of their ids. *)
NodeRecords(entries, indexes) ==
    LET records == [i \in DOMAIN entries |-> NodeRecord(entries[i], indexes)]
    IN  IF \A i \in DOMAIN entries : EntryIsValid(entries[i])
        THEN Ok(SortSeq(records, LAMBDA a, b : a.node_id < b.node_id))
        ELSE Err

plan_nodes(db, k) ==
    LET nodes == Context(db, "nodes")
        entries == as_map_entries(nodes["commissionedNodes"])
    IN  IF "commissionedNodes" \notin DOMAIN nodes THEN Ok(<<>>)
        ELSE IF ~IsOk(entries) THEN Err
        ELSE NodeRecords(entries[2], fabric_index_by_node_id(db, k))

normalize_fabric_label(label) ==
    IF label = <<>> THEN ConfigDefault.fabric_label
    ELSE SubSeq(label, 1, IF Len(label) < 32 THEN Len(label) ELSE 32)

(* One more than the largest id, in a u64. *)
NextNodeId(nodes) ==
    IF nodes = <<>> THEN 1
    ELSE (Max({nodes[i].node_id : i \in DOMAIN nodes}) + 1) % U64

config_from(source, nodes) ==
    [fabric_label |-> normalize_fabric_label(source.label),
     next_node_id |-> NextNodeId(nodes)]

-----------------------------------------------------------------------------
(* The identity under the preserved CA, and the five checks.               *)

verify_identity(id) ==
    /\ NocNode(id.controller_noc_tlv) = id.controller_node_id
    /\ id.controller_noc_tlv[2] = PublicKey(id.rcac_tlv)

(* The RCAC parses, and names no other fabric than the one asked for. *)
RcacAgrees(source) ==
    /\ source.rcac_tlv # Damaged
    /\ source.rcac_tlv[3] \in {NoFabricId, source.fabric_id}

PreservedIdentity(source) ==
    [fabric_id              |-> source.fabric_id,
     controller_node_id     |-> source.controller_node_id,
     compressed_fabric_id   |-> CompressedFabricId(PublicKey(source.rcac_tlv),
                                                   source.fabric_id),
     ca_private_key         |-> source.ca_private_key,
     rcac_tlv               |-> source.rcac_tlv,
     controller_private_key |-> Key(freshKey),
     controller_noc_tlv     |-> Noc(source.ca_private_key[2],
                                    source.controller_node_id,
                                    source.fabric_id, freshKey),
     ipk                    |-> source.ipk_epoch_key]

identity_from_preserved_ca(source) ==
    IF RcacAgrees(source) /\ verify_identity(PreservedIdentity(source))
    THEN Ok(PreservedIdentity(source)) ELSE Err

check_fabric_identity(id, source) ==
    id.compressed_fabric_id = source.operational_id

check_admin_identity(id, source) ==
    verify_identity(id) /\ id.controller_node_id = source.controller_node_id

check_ipk_choice(id, source) ==
    OperationalIpk(id.ipk, id.compressed_fabric_id) = source.operational_ipk

check_node_accounting(config, nodes) ==
    \A i \in DOMAIN nodes : nodes[i].node_id < config.next_node_id

check_fabric_index_sanity(nodes) ==
    \A i \in DOMAIN nodes :
        nodes[i].matched <=> nodes[i].device_fabric_index # 0

(* Mutant: the IPK the store names is taken without proof. *)
ChecksWithoutIpk(id, source, config, nodes) ==
    /\ check_fabric_identity(id, source)
    /\ check_admin_identity(id, source)
    /\ check_node_accounting(config, nodes)
    /\ check_fabric_index_sanity(nodes)

run_all(id, source, config, nodes) ==
    /\ check_fabric_identity(id, source)
    /\ check_admin_identity(id, source)
    /\ check_ipk_choice(id, source)
    /\ check_node_accounting(config, nodes)
    /\ check_fabric_index_sanity(nodes)

(* All that run() does before its first write, one step handing its result *)
(* to the next: Err, or the plan and whether it passed the checks.         *)
PlanOf(source, id, nodes) ==
    LET config == config_from(source, nodes)
    IN  [identity |-> id, config |-> config, nodes |-> nodes,
         ok |-> run_all(id, source, config, nodes)]

PlanWith(source, id, nodes) ==
    IF IsOk(id) /\ IsOk(nodes) THEN Ok(PlanOf(source, id[2], nodes[2])) ELSE Err

PlanFrom(db, source) ==
    IF IsOk(source)
    THEN PlanWith(source[2], identity_from_preserved_ca(source[2]),
                  plan_nodes(db, PublicKey(source[2].rcac_tlv)))
    ELSE Err

PlanIn(db) == IF IsOk(db) THEN PlanFrom(db[2], read_source_fabric(db[2])) ELSE Err

Plan == PlanIn(open_store)

-----------------------------------------------------------------------------
(* The tool.  "create", "config" and "nodes" are its write steps, "wrote", *)
(* "reported" and "failed" are how it ends.                                *)

NoTool == [pc |-> "idle"]
Writing == tool.pc \in {"create", "config", "nodes"}

MayWrite(plan, write) == plan.ok /\ write

(* The tool once it has its plan. *)
Planned(plan, write) ==
    IF ~IsOk(plan) THEN [pc |-> "failed"]
    ELSE [pc    |-> IF MayWrite(plan[2], write) THEN "create" ELSE "reported",
          plan  |-> plan[2],
          saved |-> 0]

ToolRuns ==
    /\ tool = NoTool /\ served = NotServing
    /\ toolRuns < MaxToolRuns
    /\ toolRuns' = toolRuns + 1
    /\ \E write \in BOOLEAN, samePath \in BOOLEAN :
        tool' = IF samePath THEN [pc |-> "failed"] ELSE Planned(Plan, write)
    /\ UNCHANGED <<storeVars, diskVars, processVars, freshKey, bounds>>

ToolGoesTo(pc) == tool' = [tool EXCEPT !.pc = pc]

ToolUnchanged == UNCHANGED <<storeVars, processVars, bounds, toolRuns>>

ToolCreatesIdentity ==
    /\ tool.pc = "create"
    /\ create_identity(tool.plan.identity)
    /\ ToolGoesTo("config")
    /\ freshKey' = freshKey + 1
    /\ UNCHANGED <<configJson, nodeFiles>>
    /\ ToolUnchanged

ToolSavesConfig ==
    /\ tool.pc = "config"
    /\ save_config(tool.plan.config)
    /\ ToolGoesTo("nodes")
    /\ UNCHANGED <<serverJson, nodeFiles, freshKey>>
    /\ ToolUnchanged

ToolSavesNode ==
    /\ tool.pc = "nodes"
    /\ tool.saved < Len(tool.plan.nodes)
    /\ LET record == tool.plan.nodes[tool.saved + 1]
       IN  save_node(record.node_id, record)
    /\ tool' = [tool EXCEPT !.saved = @ + 1]
    /\ UNCHANGED <<serverJson, configJson, freshKey>>
    /\ ToolUnchanged

(* Mutant: files that were there before are not counted. *)
CountIsSaved == tool.saved = Len(tool.plan.nodes)

(* As many node files load as were planned. *)
CountMatches == Cardinality(load_nodes) = Len(tool.plan.nodes)

ToolCounts ==
    /\ tool.pc = "nodes"
    /\ tool.saved = Len(tool.plan.nodes)
    /\ ToolGoesTo(IF CountMatches THEN "wrote" ELSE "failed")
    /\ UNCHANGED <<diskVars, freshKey>>
    /\ ToolUnchanged

(* A write fails, or the tool is killed: what it wrote before stays. *)
ToolFails ==
    /\ Writing
    /\ tool' = [pc |-> "failed"]
    /\ UNCHANGED <<diskVars, freshKey>>
    /\ ToolUnchanged

ToolExits ==
    /\ tool.pc \in {"wrote", "reported", "failed"}
    /\ tool' = NoTool
    /\ UNCHANGED <<diskVars, freshKey>>
    /\ ToolUnchanged

Tool ==
    \/ ToolRuns \/ ToolCreatesIdentity \/ ToolSavesConfig \/ ToolSavesNode
    \/ ToolCounts \/ ToolFails \/ ToolExits

-----------------------------------------------------------------------------
Init ==
    /\ StoreInit
    /\ serverJson = Absent
    /\ \E leftover \in Leftovers :
        configJson = leftover.config /\ nodeFiles = leftover.nodes
    /\ fabrics = {}
    /\ served = NotServing
    /\ freshKey = FirstFreshKey
    /\ boots = 0 /\ edits = 0
    /\ tool = NoTool
    /\ toolRuns = 0

(* The tool runs offline.  The Node server is stopped for good before our  *)
(* server or the tool first runs: both would be the same node on a fabric. *)
Offline == tool = NoTool
BeforeCutover == boots = 0 /\ toolRuns = 0

(* Bound: a store is migrated while its log is one segment without a       *)
(* snapshot.  The tool sees the store through open_store alone, which      *)
(* ReplayIsExact shows to be the same for every other form of the log.     *)
MayCutOver == Newest = 0 /\ Current = 0

Next ==
    \/ MayCutOver /\ Tool
    \/ BeforeCutover /\ Writer /\ UNCHANGED <<provisioningVars, tool, toolRuns>>
    \/ MayCutOver /\ Offline /\ (Boot \/ ServerStops \/ Operator)
                  /\ UNCHANGED <<storeVars, tool, toolRuns>>

Spec == Init /\ [][Next]_vars

-----------------------------------------------------------------------------
(* What the devices of the migrated fabric hold: the root they trust, the  *)
(* fabric, the administrator in their ACL and the epoch key of the IPK.    *)
DeviceFabric == [root |-> 1, fabric |-> 1, admin |-> CONTROLLER_NODE_ID,
                 ipk |-> Ipk(5)]

DeviceCompressed == CompressedFabricId(DeviceFabric.root, DeviceFabric.fabric)

(* CASE with such a device succeeds: its destination id was made with the  *)
(* device's operational IPK, and the NOC chains to its root and names its  *)
(* fabric and its administrator.                                           *)
Accepts(id) ==
    /\ OperationalIpk(id.ipk, id.compressed_fabric_id)
            = OperationalIpk(DeviceFabric.ipk, DeviceCompressed)
    /\ id.controller_noc_tlv
            = Noc(DeviceFabric.root, DeviceFabric.admin, DeviceFabric.fabric,
                  id.controller_private_key[2])

(* The server draws its own keys, none of them the fabric's. *)
ASSUME FreshKeyAssumption ==
    FirstFreshKey \in Nat /\ DeviceFabric.root < FirstFreshKey

(* What the checks trust: matter.js committed, beside the fabric, what it  *)
(* derived from it and uses towards the devices.                           *)
NamesTheFabric(source) ==
    /\ source.operational_id = DeviceCompressed
    /\ source.operational_ipk = OperationalIpk(DeviceFabric.ipk, DeviceCompressed)
    /\ source.controller_node_id = DeviceFabric.admin

StoreNamesTheFabric ==
    LET source == read_source_fabric(committed)
    IN  IsOk(source) => NamesTheFabric(source[2])

(* An identity that was migrated is one the fabric's devices accept,       *)
(* whatever else the store got wrong: operationalId, the operational IPK   *)
(* and nodeId are what the checks trust, and a disagreement of any other   *)
(* field with them stops the tool before its first write.                  *)
MigratedIsAccepted ==
    \A id \in IF serverJson # Absent /\ edits = 0
              THEN {Contents(serverJson)} ELSE {} :
        id.ca_private_key[2] < FirstFreshKey => Accepts(id)

(* The ids matter.js had committed as commissioned. *)
CommissionedIds ==
    LET nodes == Context(committed, "nodes")
    IN  IF "commissionedNodes" \notin DOMAIN nodes THEN {}
        ELSE LET pairs == as_map_entries(nodes["commissionedNodes"])[2]
             IN  {as_u64(pairs[i][1])[2] : i \in DOMAIN pairs}

(* A tool that reports "wrote" left a directory from which a server serves *)
(* the whole fabric: the identity, exactly the commissioned nodes (none    *)
(* from an earlier use of the directory), and a next_node_id above them.   *)
WroteIsComplete ==
    tool.pc = "wrote" =>
        /\ serverJson = Readable(tool.plan.identity)
        /\ load_nodes = CommissionedIds
        /\ \A n \in load_nodes :
            /\ Contents(nodeFiles[n]).node_id = n
            /\ n < load_config.next_node_id

(* The claims the cached fabric tables make about node n. *)
ClaimsAbout(n) ==
    LET entries == UNION {{committed[c]["1"][2][i] :
                              i \in DOMAIN committed[c]["1"][2]} :
                          c \in PeerTables(committed)}
    IN  {Claim(e, DeviceFabric.root)[2].index :
            e \in {e \in entries : IsOk(Claim(e, DeviceFabric.root))
                        /\ Claim(e, DeviceFabric.root)[2].node = n}}

(* A node gets a fabric index, with which remove_node evicts a fabric from *)
(* the device, only if every cached table that names the node on our       *)
(* fabric says this index; in any doubt it gets 0, which devices reject.   *)
IndexIsCertain ==
    \A i \in DOMAIN tool.plan.nodes :
        LET record == tool.plan.nodes[i]
            claims == ClaimsAbout(record.node_id)
            index == CHOOSE index \in claims : TRUE
        IN  record.device_fabric_index =
                IF Cardinality(claims) = 1 /\ index \in 1 .. 254
                THEN index ELSE 0

PlannedNode ==
    [node_id : NodeIds, device_fabric_index : 0 .. 254, matched : BOOLEAN,
     dated : BOOLEAN, addressed : BOOLEAN]

(* What the tool writes is what matter.js had committed, whichever files   *)
(* of the store it was read from: each commissioned node once and no       *)
(* other, with an index that is certain.                                   *)
PlanIsExact ==
    Writing \/ tool.pc = "wrote" =>
        /\ tool.plan.nodes \in Seq(PlannedNode)
        /\ \A i, j \in DOMAIN tool.plan.nodes :
                tool.plan.nodes[i].node_id = tool.plan.nodes[j].node_id => i = j
        /\ {tool.plan.nodes[i].node_id : i \in DOMAIN tool.plan.nodes}
                = CommissionedIds
        /\ IndexIsCertain

(* The CA key in server.json is never replaced: not by a boot with other   *)
(* flags or from an unreadable file, nor by the tool run over an existing  *)
(* directory.  Only the operator's deletion takes it away.                 *)
FabricIsKept ==
    [][CaOf(serverJson) # {} /\ ~OperatorDeletes
            => CaOf(serverJson') = CaOf(serverJson)]_vars
=============================================================================
