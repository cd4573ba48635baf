---------------------------- MODULE Provisioning ----------------------------
(***************************************************************************)
(* The storage directory and the controller's fabric identity.  A boot     *)
(* reads server.json; without one it mints a root CA, a controller NOC and *)
(* an IPK, installs them as a fabric in the memory of rs-matter, and only  *)
(* then creates the file.  Losing the CA key orphans every commissioned    *)
(* device, so the module is about what may and may not happen to the file. *)
(*                                                                         *)
(* Cryptography is symbolic.  A key is a number; every blob is a tuple     *)
(* whose first element says what it is, and Damaged is one that does not   *)
(* parse.  Equality of blobs is equality of bytes.                         *)
(***************************************************************************)
EXTENDS Integers, Sequences, FiniteSets

CONSTANTS
    NodeIds,        \* the node ids a node file may be named after
    CliFabrics,     \* the values of --fabricid
    Serials,        \* the serial numbers an RCAC may be drawn with
    RcacDraws,      \* RCAC_DRAW_ATTEMPTS
    FirstFreshKey,  \* keys from here on are drawn by this server
    LabelMaxBytes,  \* FABRIC_LABEL_MAX_BYTES
    MaxBoots,       \* bound: boots of the server
    MaxEdits        \* bound: what the operator does to server.json by hand

ASSUME DrawsAssumption == RcacDraws \in Nat \ {0}

ASSUME SerialsAssumption == Serials \subseteq Seq(0 .. 255)

ASSUME LabelAssumption == LabelMaxBytes \in Nat

VARIABLES
    serverJson,  \* server.json
    configJson,  \* config.json
    nodeFiles,   \* nodes/<id>.json, by id
    fabrics,     \* the fabrics in rs-matter's memory
    served,      \* what ensure_identity returned to the running server
    freshKey,    \* the next key the random generator produces
    boots, edits \* how much of MaxBoots and MaxEdits is used

diskVars == <<serverJson, configJson, nodeFiles>>
processVars == <<fabrics, served>>
bounds == <<boots, edits>>
provisioningVars == <<serverJson, configJson, nodeFiles, fabrics, served,
                      freshKey, boots, edits>>

-----------------------------------------------------------------------------
(* A file is absent, unreadable (its contents may still be recovered by    *)
(* hand), or readable.                                                     *)

Absent == <<"absent">>
Unreadable(contents) == <<"unreadable", contents>>
Readable(contents) == <<"readable", contents>>
IsReadable(file) == file[1] = "readable"
Contents(file) == file[2]

Damaged == <<"damaged">>
NoFabricId == 0
Key(k) == <<"key", k>>
Rcac(k, fabric, serial) == <<"rcac", k, fabric, serial>>
Noc(signer, node, fabric, subject) == <<"noc", signer, node, fabric, subject>>
Ipk(k) == <<"ipk", k>>

(* What rs-matter derives: the compressed fabric id from the root's public *)
(* key and the fabric id, the operational IPK from the epoch key and it.   *)
CompressedFabricId(k, fabric) == <<"compressed", k, fabric>>
Underived == CompressedFabricId(0, 0)
OperationalIpk(epoch, compressed) == <<"operational", epoch, compressed>>

PublicKey(cert) == cert[2]
NocNode(noc) == noc[3]
NocFabric(noc) == noc[4]
RcacSerial(cert) == cert[4]

CONTROLLER_NODE_ID == 112233

ConfigDefault == [fabric_label |-> <<1, 1>>, next_node_id |-> 1]

load_config ==
    IF IsReadable(configJson) THEN Contents(configJson) ELSE ConfigDefault

load_nodes == {n \in NodeIds : IsReadable(nodeFiles[n])}

-----------------------------------------------------------------------------
(* Minting an identity.                                                    *)

serial_is_der_canonical(serial) ==
    /\ serial # <<>>
    /\ serial[1] < 128
    /\ ~(serial[1] = 0 /\ Len(serial) > 1 /\ serial[2] < 128)

(* RcacGenerator fails without random bytes, and on a redundant zero. *)
GeneratorRejects(serial) ==
    \/ serial = <<>>
    \/ serial[1] = 0 /\ Len(serial) > 1 /\ serial[2] < 128

(* Mutant: the first draw is taken whatever its serial number. *)
AnyDraw(draws) == {i \in DOMAIN draws : ~GeneratorRejects(draws[i])}

(* The draws an RCAC could be made from, of which the first one is. *)
UsableDraws(draws) ==
    {i \in DOMAIN draws :
        ~GeneratorRejects(draws[i]) /\ serial_is_der_canonical(draws[i])}

generate_usable_rcac(draws, fabric) ==
    LET first == CHOOSE i \in UsableDraws(draws) :
                    \A j \in UsableDraws(draws) : i <= j
    IN  Rcac(freshKey, fabric, draws[first])

finish_identity(fabric, rcac) ==
    [fabric_id              |-> fabric,
     controller_node_id     |-> CONTROLLER_NODE_ID,
     compressed_fabric_id   |-> Underived,
     ca_private_key         |-> Key(PublicKey(rcac)),
     rcac_tlv               |-> rcac,
     controller_private_key |-> Key(freshKey + 1),
     controller_noc_tlv     |-> Noc(PublicKey(rcac), CONTROLLER_NODE_ID,
                                    fabric, freshKey + 1),
     ipk                    |-> Ipk(freshKey + 2)]

(* Fabric::label holds LabelMaxBytes bytes.  A label is the sequence of    *)
(* the widths of its characters.                                           *)
Bytes(label) ==
    LET sum[i \in 0 .. Len(label)] ==
            IF i = 0 THEN 0 ELSE sum[i - 1] + label[i]
    IN  sum[Len(label)]

truncate_to_bytes(label) ==
    LET fits == {i \in 0 .. Len(label) :
                    Bytes(SubSeq(label, 1, i)) <= LabelMaxBytes}
    IN  SubSeq(label, 1, CHOOSE i \in fits : \A j \in fits : j <= i)

-----------------------------------------------------------------------------
(* Installing an identity.                                                 *)

InstallFails(id) ==
    \/ id.controller_noc_tlv = Damaged
    \/ NocNode(id.controller_noc_tlv) # id.controller_node_id
    \/ id.rcac_tlv = Damaged
    \/ id.controller_private_key = Damaged
    \/ id.ipk = Damaged

install(id) ==
    [root       |-> PublicKey(id.rcac_tlv),
     fabric     |-> NocFabric(id.controller_noc_tlv),
     key        |-> id.controller_private_key,
     noc        |-> id.controller_noc_tlv,
     ipk        |-> id.ipk,
     compressed |-> CompressedFabricId(PublicKey(id.rcac_tlv),
                                       NocFabric(id.controller_noc_tlv)),
     label      |-> truncate_to_bytes(load_config.fabric_label)]

NotServing == <<"down">>
Serving(id) == <<"up", id>>

BootBegins ==
    /\ served = NotServing
    /\ boots < MaxBoots
    /\ boots' = boots + 1

(* Mutant: an identity that cannot be installed is replaced by a new one. *)
RemintAsAbsent ==
    serverJson = Absent \/ ~IsReadable(serverJson)

(* load_identity returns None only for a file that does not exist. *)
NoIdentity == serverJson = Absent

(* A readable identity is installed whatever the flags say.  A wrong       *)
(* compressed fabric id is corrected, on disk too if the disk allows it.   *)
BootStored ==
    /\ BootBegins
    /\ IsReadable(serverJson)
    /\ LET stored == Contents(serverJson)
           fabric == install(stored)
           id == [stored EXCEPT !.compressed_fabric_id = fabric.compressed]
       IN  /\ ~InstallFails(stored)
           /\ fabrics' = {fabric}
           /\ served' = Serving(id)
           /\ \E saves \in BOOLEAN :
                serverJson' = IF saves THEN Readable(id) ELSE serverJson
    /\ UNCHANGED <<configJson, nodeFiles, freshKey, edits>>

(* The identity a first boot mints, installs and then writes. *)
Minted(fabric, draws) ==
    LET id == finish_identity(fabric, generate_usable_rcac(draws, fabric))
    IN  [id EXCEPT !.compressed_fabric_id = install(id).compressed]

BootMints ==
    /\ BootBegins
    /\ NoIdentity
    /\ \E fabric \in CliFabrics, draws \in [1 .. RcacDraws -> Serials] :
        /\ UsableDraws(draws) # {}
        /\ LET id == Minted(fabric, draws)
           IN  /\ fabrics' = {install(id)}
               /\ serverJson' = Readable(id)
               /\ served' = Serving(id)
    /\ freshKey' = freshKey + 3
    /\ UNCHANGED <<configJson, nodeFiles, edits>>

(* Mutant: the fabric of a failed create_identity stays installed. *)
KeepUnsaved(id) == {install(id)}

(* create_identity failed: the fabric is taken out of memory again. *)
RollBack(id) == {}

BootCannotSave ==
    /\ BootBegins
    /\ NoIdentity
    /\ \E fabric \in CliFabrics, draws \in [1 .. RcacDraws -> Serials] :
        /\ UsableDraws(draws) # {}
        /\ fabrics' = RollBack(Minted(fabric, draws))
    /\ UNCHANGED <<diskVars, served, freshKey, edits>>

(* The boot is refused: the file cannot be read or installed, or no draw   *)
(* was usable.  Nothing on disk changes.                                   *)
BootRefused ==
    /\ BootBegins
    /\ \/ serverJson # Absent /\ ~IsReadable(serverJson)
       \/ IsReadable(serverJson) /\ InstallFails(Contents(serverJson))
       \/ /\ serverJson = Absent
          /\ \E draws \in [1 .. RcacDraws -> Serials] : UsableDraws(draws) = {}
    /\ UNCHANGED <<diskVars, processVars, freshKey, edits>>

(* The process ends, and its fabrics with it. *)
ServerStops ==
    /\ served # NotServing \/ fabrics # {}
    /\ served' = NotServing
    /\ fabrics' = {}
    /\ UNCHANGED <<diskVars, freshKey, bounds>>

Boot == BootStored \/ BootMints \/ BootCannotSave \/ BootRefused

-----------------------------------------------------------------------------
(* The operator, while no process uses the directory: server.json becomes  *)
(* unreadable, one of its scalars or blobs is edited, or it is deleted,    *)
(* which the log messages name as the only way to a new fabric.            *)

OperatorMayAct ==
    /\ served = NotServing
    /\ edits < MaxEdits
    /\ edits' = edits + 1
    /\ serverJson # Absent
    /\ UNCHANGED <<configJson, nodeFiles, processVars, freshKey, boots>>

HandEdits(id) ==
    {[id EXCEPT !.compressed_fabric_id = Underived],
     [id EXCEPT !.controller_node_id = @ + 1],
     [id EXCEPT !.rcac_tlv = Damaged]}

OperatorEdits ==
    /\ OperatorMayAct
    /\ IsReadable(serverJson)
    /\ \/ serverJson' = Unreadable(Contents(serverJson))
       \/ \E id \in HandEdits(Contents(serverJson)) :
            serverJson' = Readable(id)

OperatorDeletes ==
    /\ OperatorMayAct
    /\ serverJson' = Absent

Operator == OperatorEdits \/ OperatorDeletes

-----------------------------------------------------------------------------
(* Storage as the writers use it: create_identity refuses to replace a     *)
(* file, the others replace theirs by a rename.                            *)

MayCreateIdentity == serverJson = Absent

create_identity(id) ==
    /\ MayCreateIdentity
    /\ serverJson' = Readable(id)

save_config(cfg) == configJson' = Readable(cfg)

save_node(n, record) ==
    nodeFiles' = [nodeFiles EXCEPT ![n] = Readable(record)]

-----------------------------------------------------------------------------
(* The bytes a DER encoder writes for the number a serial stands for. *)
DerInteger(serial) ==
    LET nonzero == {i \in DOMAIN serial : serial[i] # 0}
        first == CHOOSE i \in nonzero : \A j \in nonzero : i <= j
        digits == SubSeq(serial, first, Len(serial))
    IN  IF nonzero = {} THEN <<0>>
        ELSE IF digits[1] >= 128 THEN <<0>> \o digits
        ELSE digits

(* The CA whose key a server.json holds, readable or not. *)
CaOf(file) == IF file = Absent THEN {} ELSE {Contents(file).ca_private_key}

(* A fabric is in memory only if server.json can reproduce it: the same    *)
(* root, NOC, key and IPK.  A boot that could not write the file leaves no *)
(* fabric behind, and the server runs under the fabric the file names,     *)
(* with the compressed fabric id its certificates imply.                   *)
FabricIsStored ==
    /\ \A f \in fabrics :
        /\ IsReadable(serverJson)
        /\ f = [install(Contents(serverJson)) EXCEPT !.label = f.label]
    /\ served # NotServing =>
        \E f \in fabrics : served[2].compressed_fabric_id = f.compressed

(* FabricIsStored, and the label of the fabric, cut between characters,    *)
(* fits the field rs-matter has for it.                                    *)
ServedIsStored ==
    /\ FabricIsStored
    /\ \A f \in fabrics : Bytes(f.label) <= LabelMaxBytes

(* An RCAC this server minted has a serial number that a peer which        *)
(* encodes it again as DER leaves unchanged, so its signature verifies.    *)
MintedIsStrict ==
    serverJson # Absent =>
        LET cert == Contents(serverJson).rcac_tlv
        IN  cert # Damaged /\ PublicKey(cert) >= FirstFreshKey
            => DerInteger(RcacSerial(cert)) = RcacSerial(cert)
=============================================================================
