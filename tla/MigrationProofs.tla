-------------------------- MODULE MigrationProofs --------------------------
(* Theorems about Migration, for every value of its constants.             *)
EXTENDS Migration, FiniteSetTheorems, SequenceTheorems, TLAPS

IdentityFields ==
    {"fabric_id", "controller_node_id", "compressed_fabric_id", "ca_private_key",
     "rcac_tlv", "controller_private_key", "controller_noc_tlv", "ipk"}

IsIdentity(id) == id = [f \in IdentityFields |-> id[f]]

(* server.json is absent or holds an identity, readable or not.            *)
FileInv ==
    serverJson # Absent =>
        /\ serverJson = <<serverJson[1], serverJson[2]>>
        /\ serverJson[1] \in {"readable", "unreadable"}
        /\ IsIdentity(serverJson[2])

(* The tool is somewhere, and is about to write an identity if any.        *)
ToolInv ==
    /\ tool = [f \in DOMAIN tool |-> tool[f]] /\ "pc" \in DOMAIN tool
    /\ tool.pc = "create" => IsIdentity(tool.plan.identity)

IInv == FileInv /\ ToolInv

-----------------------------------------------------------------------------
LEMMA FinishedIsIdentity ==
    ASSUME NEW fabric, NEW rcac
    PROVE  IsIdentity(finish_identity(fabric, rcac))
  BY DEF finish_identity, IsIdentity, IdentityFields

LEMMA PreservedIsIdentity ==
    ASSUME NEW source
    PROVE  IsIdentity(PreservedIdentity(source))
  BY DEF PreservedIdentity, IsIdentity, IdentityFields

(* Correcting one field of an identity leaves the others.                  *)
LEMMA CorrectedIsIdentity ==
    ASSUME NEW id, IsIdentity(id), NEW x
    PROVE  LET new == [id EXCEPT !.compressed_fabric_id = x]
           IN  /\ IsIdentity(new) /\ new.compressed_fabric_id = x
               /\ \A f \in IdentityFields \ {"compressed_fabric_id"} : new[f] = id[f]
  BY DEF IsIdentity, IdentityFields

LEMMA EditedIsIdentity ==
    ASSUME NEW id, IsIdentity(id), NEW new \in HandEdits(id)
    PROVE  IsIdentity(new) /\ new.ca_private_key = id.ca_private_key
  BY DEF HandEdits, IsIdentity, IdentityFields

LEMMA MintedIsIdentity ==
    ASSUME NEW fabric, NEW draws
    PROVE  IsIdentity(Minted(fabric, draws))
  BY FinishedIsIdentity, CorrectedIsIdentity DEF Minted

(* What the tool plans to write is the identity of a source fabric.        *)
LEMMA PlanHoldsIdentity ==
    ASSUME IsOk(Plan)
    PROVE  IsIdentity(Plan[2].identity)
<1>1. ~IsOk(Err)
  BY DEF IsOk, Err
<1>2. ASSUME NEW source, NEW id, NEW nodes, IsOk(PlanWith(source, id, nodes))
      PROVE  IsOk(id) /\ PlanWith(source, id, nodes)[2].identity = id[2]
  BY <1>1, <1>2 DEF PlanWith, PlanOf, Ok
<1>3. ASSUME NEW source, IsOk(identity_from_preserved_ca(source))
      PROVE  IsIdentity(identity_from_preserved_ca(source)[2])
  BY <1>1, <1>3, PreservedIsIdentity DEF identity_from_preserved_ca, Ok
<1>4. ASSUME NEW db, NEW source, IsOk(PlanFrom(db, source))
      PROVE  IsIdentity(PlanFrom(db, source)[2].identity)
  BY <1>1, <1>2, <1>3, <1>4 DEF PlanFrom
<1>5. IsOk(open_store) /\ Plan = PlanFrom(open_store[2], read_source_fabric(open_store[2]))
  BY <1>1 DEF Plan, PlanIn
<1>6. QED
  BY <1>4, <1>5

-----------------------------------------------------------------------------
(* The tool.                                                               *)
LEMMA ToolMoves ==
    ASSUME IInv, NEW l, ToolGoesTo(l)
    PROVE  /\ tool' = [f \in DOMAIN tool' |-> tool'[f]]
           /\ "pc" \in DOMAIN tool' /\ tool'.pc = l
  BY DEF IInv, ToolInv, ToolGoesTo

LEMMA ToolStepKeepsInv ==
    ASSUME IInv, Tool
    PROVE  IInv'
<1> USE DEF IInv
<1>1. CASE ToolRuns
  <2>1. FileInv'
    BY <1>1 DEF ToolRuns, FileInv, diskVars
  <2>2. PICK write \in BOOLEAN, samePath \in BOOLEAN :
          tool' = IF samePath THEN [pc |-> "failed"] ELSE Planned(Plan, write)
    BY <1>1 DEF ToolRuns
  <2>3. CASE tool' = [pc |-> "failed"]
    BY <2>1, <2>3 DEF ToolInv
  <2>4. CASE IsOk(Plan) /\ tool' = Planned(Plan, write)
    <3>1. IsIdentity(Plan[2].identity)
      BY <2>4, PlanHoldsIdentity
    <3>2. "pc" \in DOMAIN tool' /\ tool' = [f \in DOMAIN tool' |-> tool'[f]]
      BY <2>4 DEF Planned
    <3>3. tool'.plan = Plan[2]
      BY <2>4 DEF Planned
    <3>4. QED
      BY <2>1, <3>1, <3>2, <3>3 DEF ToolInv, IsIdentity
  <2>5. QED
    BY <2>2, <2>3, <2>4 DEF Planned
<1>2. CASE ToolCreatesIdentity
  <2>1. serverJson' = <<"readable", tool.plan.identity>> /\ IsIdentity(tool.plan.identity)
    BY <1>2 DEF ToolCreatesIdentity, create_identity, Readable, ToolInv
  <2>2. FileInv'
    BY <2>1 DEF FileInv, IsIdentity
  <2>3. ToolInv'
    BY <1>2, ToolMoves DEF ToolCreatesIdentity, ToolInv
  <2>4. QED
    BY <2>2, <2>3
<1>3. CASE ToolSavesConfig \/ ToolCounts
  <2>1. serverJson' = serverJson
    BY <1>3 DEF ToolSavesConfig, ToolCounts, diskVars
  <2>2. \E l \in {"nodes", "wrote", "failed"} : ToolGoesTo(l)
    BY <1>3 DEF ToolSavesConfig, ToolCounts
  <2>3. QED
    BY <2>1, <2>2, ToolMoves DEF FileInv, ToolInv, IsIdentity
<1>4. CASE ToolSavesNode
  <2>1. serverJson' = serverJson
    BY <1>4 DEF ToolSavesNode
  <2>2. tool'.pc = "nodes" /\ "pc" \in DOMAIN tool' /\ tool' = [f \in DOMAIN tool' |-> tool'[f]]
    BY <1>4 DEF ToolSavesNode, ToolInv
  <2>3. QED
    BY <2>1, <2>2 DEF FileInv, ToolInv, IsIdentity
<1>5. CASE ToolFails \/ ToolExits
  BY <1>5 DEF ToolFails, ToolExits, NoTool, FileInv, ToolInv, IsIdentity, diskVars
<1>6. QED
  BY <1>1, <1>2, <1>3, <1>4, <1>5 DEF Tool

LEMMA ToolKeepsFabric ==
    ASSUME IInv, Tool, serverJson # Absent
    PROVE  serverJson' = serverJson
  BY DEF Tool, ToolRuns, ToolCreatesIdentity, create_identity, MayCreateIdentity,
     ToolSavesConfig, ToolSavesNode, ToolCounts, ToolFails, ToolExits, diskVars

-----------------------------------------------------------------------------
(* The server and the operator.                                            *)
LEMMA ServerStepKeepsInv ==
    ASSUME IInv, Boot \/ ServerStops \/ Operator, UNCHANGED tool
    PROVE  /\ IInv'
           /\ serverJson # Absent /\ ~OperatorDeletes =>
                serverJson' # Absent /\ Contents(serverJson').ca_private_key
                                         = Contents(serverJson).ca_private_key
<1>1. ToolInv'
  BY DEF IInv, ToolInv, IsIdentity
<1>2. CASE serverJson' = serverJson
  BY <1>1, <1>2 DEF IInv, FileInv, IsIdentity
<1>3. CASE BootStored
  <2>1. CASE serverJson' = serverJson
    BY <2>1, <1>2
  <2>2. CASE serverJson' # serverJson
    <3>1. PICK x : serverJson' = <<"readable", [serverJson[2] EXCEPT !.compressed_fabric_id = x]>>
      BY <1>3, <2>2 DEF BootStored, Readable, Contents
    <3>2. IsIdentity(serverJson[2])
      BY <1>3 DEF BootStored, IsReadable, IInv, FileInv, Absent
    <3>3. /\ IsIdentity(serverJson'[2])
          /\ serverJson'[2].ca_private_key = serverJson[2].ca_private_key
      BY <3>1, <3>2, CorrectedIsIdentity DEF IdentityFields
    <3>4. serverJson' # Absent
      BY <3>1 DEF Absent
    <3>5. QED
      BY <1>1, <3>1, <3>3, <3>4 DEF IInv, FileInv, Contents, IsIdentity
  <2>3. QED
    BY <2>1, <2>2
<1>4. CASE BootMints
  <2>1. serverJson = Absent /\ \E fabric, draws : serverJson' = Readable(Minted(fabric, draws))
    BY <1>4 DEF BootMints, NoIdentity
  <2>2. \E id : IsIdentity(id) /\ serverJson' = <<"readable", id>>
    BY <2>1, MintedIsIdentity DEF Readable
  <2>3. QED
    BY <1>1, <2>1, <2>2 DEF IInv, FileInv, IsIdentity
<1>5. CASE BootCannotSave \/ BootRefused \/ ServerStops
  BY <1>2, <1>5 DEF BootCannotSave, BootRefused, ServerStops, diskVars
<1>6. CASE OperatorEdits
  <2>1. IsIdentity(serverJson[2])
    BY <1>6 DEF OperatorEdits, IsReadable, IInv, FileInv, Absent
  <2>2. PICK kind \in {"readable", "unreadable"}, new \in HandEdits(serverJson[2]) \cup {serverJson[2]} :
          serverJson' = <<kind, new>>
    BY <1>6 DEF OperatorEdits, Readable, Unreadable, Contents
  <2>3. IsIdentity(new) /\ new.ca_private_key = serverJson[2].ca_private_key
    BY <2>1, <2>2, EditedIsIdentity
  <2>4. serverJson' # Absent
    BY <2>2 DEF Absent
  <2>5. QED
    BY <1>1, <2>2, <2>3, <2>4 DEF IInv, FileInv, Contents, IsIdentity
<1>7. CASE OperatorDeletes
  BY <1>1, <1>7 DEF OperatorDeletes, IInv, FileInv
<1>8. QED
  BY <1>3, <1>4, <1>5, <1>6, <1>7 DEF Boot, Operator

LEMMA NextKeepsInv ==
    ASSUME IInv, [Next]_vars
    PROVE  /\ IInv'
           /\ serverJson # Absent /\ ~OperatorDeletes =>
                serverJson' # Absent /\ Contents(serverJson').ca_private_key
                                         = Contents(serverJson).ca_private_key
<1>1. CASE Tool
  BY <1>1, ToolStepKeepsInv, ToolKeepsFabric
<1>2. CASE UNCHANGED <<serverJson, tool>>
  BY <1>2 DEF IInv, FileInv, ToolInv, IsIdentity
<1>3. CASE (Boot \/ ServerStops \/ Operator) /\ UNCHANGED tool
  BY <1>3, ServerStepKeepsInv
<1>4. QED
  BY <1>1, <1>2, <1>3 DEF Next, vars, provisioningVars

LEMMA InitInv ==
    ASSUME Init
    PROVE  IInv
  BY DEF Init, IInv, FileInv, ToolInv, NoTool

(* The CA key in server.json is never replaced: not by a boot with other   *)
(* flags or from a corrected or edited file, nor by the migration tool run *)
(* over an existing directory, wherever its writes stop.  Only the         *)
(* operator's deletion takes it away.                                      *)
THEOREM CaKeyIsKept == Spec => FabricIsKept
<1>1. Init => IInv
  BY InitInv
<1>2. IInv /\ [Next]_vars => IInv'
  BY NextKeepsInv
<1>3. IInv /\ [Next]_vars =>
        [CaOf(serverJson) # {} /\ ~OperatorDeletes
            => CaOf(serverJson') = CaOf(serverJson)]_vars
  BY NextKeepsInv DEF CaOf
<1>4. QED
  BY <1>1, <1>2, <1>3, PTL DEF Spec, FabricIsKept

-----------------------------------------------------------------------------
(* The fabric in memory.                                                   *)

(* A server that does not run has no fabric.                               *)
MemoryInv == served = NotServing => fabrics = {}

(* What install makes of an identity, up to the label, follows from the    *)
(* fields that a boot does not correct.                                    *)
LEMMA InstallIgnores ==
    ASSUME NEW id, IsIdentity(id), NEW x
    PROVE  LET new == [id EXCEPT !.compressed_fabric_id = x]
           IN  install(new) = install(id) /\ new.compressed_fabric_id = x
<1> DEFINE new == [id EXCEPT !.compressed_fabric_id = x]
<1>1. /\ new.rcac_tlv = id.rcac_tlv /\ new.controller_noc_tlv = id.controller_noc_tlv
      /\ new.controller_private_key = id.controller_private_key /\ new.ipk = id.ipk
      /\ new.compressed_fabric_id = x
  BY CorrectedIsIdentity DEF IdentityFields
<1> HIDE DEF new
<1>2. install(new) = install(id)
  BY <1>1 DEF install
<1>3. QED
  BY <1>1, <1>2 DEF new

(* The label is the only part of a fabric that comes from config.json.     *)
LEMMA InstallNow ==
    ASSUME NEW id
    PROVE  /\ install(id) = [install(id) EXCEPT !.label = install(id).label]
           /\ \A l : [install(id) EXCEPT !.label = l]' = [install(id) EXCEPT !.label = l]
  BY DEF install

(* A fabric just installed from the identity now in the file.              *)
LEMMA InstalledIsStored ==
    ASSUME NEW id, NEW shown, serverJson' = Readable(id), fabrics' = {install(id)},
           served' = Serving(shown), shown.compressed_fabric_id = install(id).compressed
    PROVE  FabricIsStored' /\ MemoryInv'
<1>1. IsReadable(serverJson)' /\ Contents(serverJson)' = id
  BY DEF Readable, IsReadable, Contents
<1>2. PICK f : f = install(id)
  OBVIOUS
<1>3. f = [install(id) EXCEPT !.label = f.label]'
  BY <1>2, InstallNow
<1>4. served' # NotServing /\ served'[2] = shown
  BY DEF Serving, NotServing
<1>5. QED
  BY <1>1, <1>2, <1>3, <1>4 DEF FabricIsStored, MemoryInv

LEMMA NothingInstalled ==
    ASSUME fabrics' = {}, served' = NotServing
    PROVE  FabricIsStored' /\ MemoryInv'
  BY DEF FabricIsStored, MemoryInv

(* The file and the memory stay as they are; config.json may change.       *)
LEMMA SameFabric ==
    ASSUME FabricIsStored, MemoryInv, UNCHANGED <<serverJson, fabrics, served>>
    PROVE  FabricIsStored' /\ MemoryInv'
<1>1. MemoryInv' /\ IsReadable(serverJson)' = IsReadable(serverJson)
  BY DEF MemoryInv, IsReadable
<1>2. ASSUME NEW f \in fabrics
      PROVE  f = [install(Contents(serverJson)) EXCEPT !.label = f.label]'
  <2>1. PICK id : id = Contents(serverJson)
    OBVIOUS
  <2>2. Contents(serverJson)' = id
    BY <2>1 DEF Contents
  <2>3. f = [install(id) EXCEPT !.label = f.label]
    BY <2>1 DEF FabricIsStored
  <2>4. f = [install(id) EXCEPT !.label = f.label]'
    BY <2>3, InstallNow
  <2>5. QED
    BY <2>2, <2>4
<1>3. QED
  BY <1>1, <1>2 DEF FabricIsStored

LEMMA BootIsStored ==
    ASSUME IInv, FabricIsStored, MemoryInv, Boot
    PROVE  FabricIsStored' /\ MemoryInv'
<1>1. CASE BootStored
  <2> DEFINE stored == serverJson[2]
             fabric == install(stored)
             id == [stored EXCEPT !.compressed_fabric_id = fabric.compressed]
  <2>1. /\ fabrics' = {install(stored)} /\ served' = Serving(id)
        /\ serverJson' = Readable(id) \/ serverJson' = serverJson
    BY <1>1 DEF BootStored, Contents
  <2>2. IsIdentity(stored) /\ serverJson = Readable(stored)
    BY <1>1 DEF BootStored, IsReadable, IInv, FileInv, Absent, Readable
  <2>3. install(id) = install(stored) /\ id.compressed_fabric_id = install(stored).compressed
    BY <2>2, InstallIgnores
  <2>4. PICK old, new : old = stored /\ new = id
    OBVIOUS
  <2>5. CASE serverJson' = Readable(id)
    BY <2>1, <2>3, <2>4, <2>5, InstalledIsStored
  <2>6. CASE serverJson' = serverJson
    BY <2>1, <2>2, <2>3, <2>4, <2>6, InstalledIsStored
  <2>7. QED
    BY <2>1, <2>5, <2>6
<1>2. CASE BootMints
  <2>1. PICK fabric, draws :
          LET id == Minted(fabric, draws)
          IN  fabrics' = {install(id)} /\ serverJson' = Readable(id) /\ served' = Serving(id)
    BY <1>2 DEF BootMints
  <2>2. PICK base : base = finish_identity(fabric, generate_usable_rcac(draws, fabric))
    OBVIOUS
  <2>3. PICK id : id = Minted(fabric, draws)
    OBVIOUS
  <2>4. IsIdentity(base) /\ id = [base EXCEPT !.compressed_fabric_id = install(base).compressed]
    BY <2>2, <2>3, FinishedIsIdentity DEF Minted
  <2>5. id.compressed_fabric_id = install(id).compressed
    BY <2>4, InstallIgnores
  <2>6. QED
    BY <2>1, <2>3, <2>5, InstalledIsStored
<1>3. CASE BootCannotSave
  BY <1>3, NothingInstalled DEF BootCannotSave, BootBegins, RollBack
<1>4. CASE BootRefused
  BY <1>4, SameFabric DEF BootRefused, diskVars, processVars
<1>5. QED
  BY <1>1, <1>2, <1>3, <1>4 DEF Boot

LEMMA NextIsStored ==
    ASSUME IInv, FabricIsStored, MemoryInv, [Next]_vars
    PROVE  FabricIsStored' /\ MemoryInv'
<1>1. CASE Boot
  BY <1>1, BootIsStored
<1>2. CASE ServerStops
  BY <1>2, NothingInstalled DEF ServerStops
<1>3. CASE Operator
  <2>1. served' = served /\ fabrics' = fabrics /\ served = NotServing
    BY <1>3 DEF Operator, OperatorEdits, OperatorDeletes, OperatorMayAct, processVars
  <2>2. QED
    BY <2>1, NothingInstalled DEF MemoryInv
<1>4. CASE ToolCreatesIdentity
  <2>1. serverJson = Absent /\ UNCHANGED <<served, fabrics>>
    BY <1>4 DEF ToolCreatesIdentity, create_identity, MayCreateIdentity, ToolUnchanged,
       processVars
  <2>2. fabrics = {}
    BY <2>1 DEF FabricIsStored, IsReadable, Absent
  <2>3. served = NotServing
    BY <2>2 DEF FabricIsStored
  <2>4. QED
    BY <2>1, <2>2, <2>3, NothingInstalled
<1>5. CASE Tool /\ ~ToolCreatesIdentity
  <2>1. UNCHANGED <<serverJson, served, fabrics>>
    BY <1>5 DEF Tool, ToolRuns, ToolSavesConfig, ToolSavesNode, ToolCounts, ToolFails,
       ToolExits, ToolUnchanged, diskVars, processVars
  <2>2. QED
    BY <2>1, SameFabric
<1>6. CASE UNCHANGED provisioningVars
  BY <1>6, SameFabric DEF provisioningVars
<1>7. QED
  BY <1>1, <1>2, <1>3, <1>4, <1>5, <1>6 DEF Next, vars

(* A fabric is in memory only if server.json reproduces it, whatever the   *)
(* boots, the tool, the operator and failed writes did to the directory.   *)
THEOREM FabricsAreStored == Spec => []FabricIsStored
<1>1. Init => IInv /\ FabricIsStored /\ MemoryInv
  BY InitInv DEF Init, FabricIsStored, MemoryInv
<1>2. IInv /\ FabricIsStored /\ MemoryInv /\ [Next]_vars
        => (IInv /\ FabricIsStored /\ MemoryInv)'
  BY NextKeepsInv, NextIsStored
<1>3. QED
  BY <1>1, <1>2, PTL DEF Spec

-----------------------------------------------------------------------------
(* Where an identity comes from.                                           *)

(* What a boot can install, and will not have to correct.                  *)
Installs(id) ==
    /\ ~InstallFails(id)
    /\ id.compressed_fabric_id = CompressedFabricId(PublicKey(id.rcac_tlv),
                                      NocFabric(id.controller_noc_tlv))

IsMigrated(id) == Accepts(id) /\ PublicKey(id.rcac_tlv) = DeviceFabric.root

IsMinted(id) == id.ca_private_key[2] \in Nat /\ id.ca_private_key[2] >= FirstFreshKey

(* StoreNamesTheFabric of what the tool reads from the files of the store. *)
ReadNamesTheFabric ==
    LET source == read_source_fabric(open_store[2])
    IN  IsOk(open_store) /\ IsOk(source) => NamesTheFabric(source[2])

(* A certificate with a key of ours has a serial number in DER's form.     *)
RcacIsStrict(cert) ==
    cert # Damaged /\ PublicKey(cert) >= FirstFreshKey
        => DerInteger(RcacSerial(cert)) = RcacSerial(cert)

CountersInv == freshKey \in Nat /\ freshKey >= FirstFreshKey /\ edits \in Nat

PlanInv ==
    tool.pc = "create" =>
        Installs(tool.plan.identity) /\ IsMigrated(tool.plan.identity)

StrictInv == serverJson # Absent => RcacIsStrict(Contents(serverJson).rcac_tlv)

(* Until it is edited by hand, server.json holds what was written to it,   *)
(* by the tool or by a first boot.                                         *)
OriginInv ==
    serverJson # Absent /\ edits = 0 =>
        /\ IsReadable(serverJson) /\ Installs(Contents(serverJson))
        /\ IsMigrated(Contents(serverJson)) \/ IsMinted(Contents(serverJson))

(* An identity that no one edited is never refused at a boot.              *)
UneditedInstalls ==
    serverJson # Absent /\ edits = 0 =>
        IsReadable(serverJson) /\ ~InstallFails(Contents(serverJson))

-----------------------------------------------------------------------------
(* Minting.                                                                *)

(* Every non-empty set of naturals has a least element: the part of it     *)
(* below an element is finite, and of finite sets one is minimal.          *)
LEMMA LeastNatural ==
    ASSUME NEW S \in SUBSET Nat, S # {}
    PROVE  \E n \in S : \A m \in S : n <= m
<1> DEFINE Below(n) == {m \in S : m <= n}
           T == {Below(n) : n \in S}
           R == StrictSubsetOrdering(Nat)
<1>1. ASSUME NEW n \in S
      PROVE  IsFiniteSet(Below(n)) /\ Below(n) \in SUBSET Nat
  BY FS_BoundedSetOfNaturals
<1>2. T # {} /\ T \subseteq FiniteSubsetsOf(Nat)
  BY <1>1 DEF FiniteSubsetsOf
<1>3. IsWellFoundedOn(R, FiniteSubsetsOf(Nat))
  BY FS_StrictSubsetOrderingWellFounded
<1> HIDE DEF R
<1>4. PICK low \in T : \A t \in T : ~(<<t, low>> \in R)
  <2> HIDE DEF T
  <2>1. QED
    BY <1>2, <1>3, WFMin
<1>5. PICK n \in S : low = Below(n)
  BY <1>4
<1>6. ASSUME NEW m \in S, m < n
      PROVE  FALSE
  <2>0. S \subseteq Nat /\ m \in Nat /\ n \in Nat /\ n <= n /\ ~(n <= m)
    BY <1>6
  <2>1. Below(m) \subseteq low /\ n \in low /\ n \notin Below(m)
    <3>1. \A k \in S : k <= m => k <= n
      BY <2>0
    <3>2. QED
      BY <1>5, <2>0, <3>1
  <2>2. Below(m) \in SUBSET Nat /\ low \in SUBSET Nat /\ Below(m) \in T
    BY <1>5
  <2>3. <<Below(m), low>> \in R
    BY <2>1, <2>2 DEF R, StrictSubsetOrdering
  <2>4. QED
    BY <1>4, <2>2, <2>3
<1>7. QED
  BY <1>6

(* A serial number that the generator and serial_is_der_canonical let pass *)
(* is what a DER encoder writes for the number it stands for.              *)
LEMMA CanonicalIsDer ==
    ASSUME NEW serial \in Seq(0 .. 255), serial_is_der_canonical(serial)
    PROVE  DerInteger(serial) = serial
<1> DEFINE nonzero == {i \in DOMAIN serial : serial[i] # 0}
           first == CHOOSE i \in nonzero : \A j \in nonzero : i <= j
<1>1. /\ Len(serial) \in Nat \ {0} /\ DOMAIN serial = 1 .. Len(serial)
      /\ \A i \in 1 .. Len(serial) : serial[i] \in Nat
      /\ serial[1] < 128
      /\ serial[1] = 0 /\ Len(serial) > 1 => ~(serial[2] < 128)
  <2>1. Len(serial) \in Nat /\ DOMAIN serial = 1 .. Len(serial)
    OBVIOUS
  <2>2. Len(serial) # 0
    BY <2>1 DEF serial_is_der_canonical
  <2>3. \A i \in 1 .. Len(serial) : serial[i] \in Nat
    <3>1. \A i \in 1 .. Len(serial) : serial[i] \in 0 .. 255
      BY ElementOfSeq
    <3>2. \A b \in 0 .. 255 : b \in Nat
      OBVIOUS
    <3>3. QED
      BY <3>1, <3>2
  <2>4. serial[1] < 128 /\ ~(serial[1] = 0 /\ Len(serial) > 1 /\ serial[2] < 128)
    BY DEF serial_is_der_canonical
  <2>5. QED
    BY <2>1, <2>2, <2>3, <2>4
<1>2. CASE nonzero = {}
  <2>1. Len(serial) = 1 /\ serial[1] = 0
    BY <1>1, <1>2
  <2>2. serial = <<0>>
    BY <2>1
  <2>3. QED
    BY <1>2, <2>2 DEF DerInteger
<1>3. CASE serial[1] # 0
  <2>1. 1 \in nonzero /\ \A j \in nonzero : 1 <= j
    BY <1>1, <1>3
  <2>2. first = 1
    BY <1>1, <2>1
  <2>3. SubSeq(serial, 1, Len(serial)) = serial
    BY <1>1
  <2>4. nonzero # {} /\ ~(serial[1] >= 128)
    <3>1. serial[1] \in Nat
      BY <1>1
    <3>2. ~(serial[1] >= 128)
      BY <1>1, <3>1
    <3>3. QED
      BY <2>1, <3>2
  <2> HIDE DEF nonzero
  <2>5. QED
    BY <2>2, <2>3, <2>4 DEF DerInteger, nonzero
<1>4. CASE serial[1] = 0 /\ nonzero # {}
  <2>1. Len(serial) > 1 /\ serial[2] >= 128
    <3>1. Len(serial) # 1
      BY <1>1, <1>4
    <3>2. Len(serial) > 1
      BY <1>1, <3>1
    <3>3. ~(serial[2] < 128) /\ serial[2] \in Nat
      BY <1>1, <1>4, <3>2
    <3>4. QED
      BY <3>2, <3>3
  <2>2. 2 \in nonzero /\ \A j \in nonzero : 2 <= j
    BY <1>1, <1>4, <2>1
  <2>3. first = 2
    BY <1>1, <2>2
  <2> DEFINE digits == SubSeq(serial, 2, Len(serial))
  <2>4. /\ digits \in Seq(0 .. 255) /\ Len(digits) = Len(serial) - 1
        /\ \A i \in 1 .. Len(digits) : digits[i] = serial[i + 1]
    <3>1. 2 \in 1 .. Len(serial) /\ Len(serial) \in 1 .. Len(serial)
      BY <1>1, <2>1
    <3>2. \A i \in 2 .. Len(serial) : serial[i] \in 0 .. 255
      BY <3>1, ElementOfSeq
    <3>3. /\ digits \in Seq(0 .. 255)
          /\ Len(digits) = IF 2 <= Len(serial) THEN Len(serial) - 2 + 1 ELSE 0
          /\ \A i \in 1 .. Len(serial) - 2 + 1 : digits[i] = serial[2 + i - 1]
      BY <1>1, <3>2, SubSeqProperties
    <3>4. QED
      BY <1>1, <2>1, <3>3
  <2>5. digits[1] >= 128
    BY <1>1, <2>1, <2>4
  <2>6. <<0>> \o digits = serial
    BY <1>1, <1>4, <2>4
  <2> HIDE DEF nonzero, digits
  <2>7. QED
    BY <1>4, <2>3, <2>5, <2>6 DEF DerInteger, nonzero, digits
<1>5. QED
  BY <1>2, <1>3, <1>4

(* An RCAC is drawn again until its serial number is in DER's form.        *)
LEMMA DrawnIsStrict ==
    ASSUME NEW draws \in [1 .. RcacDraws -> Serials], UsableDraws(draws) # {},
           NEW fabric
    PROVE  LET cert == generate_usable_rcac(draws, fabric)
           IN  /\ cert # Damaged /\ PublicKey(cert) = freshKey
               /\ DerInteger(RcacSerial(cert)) = RcacSerial(cert)
<1> DEFINE first == CHOOSE i \in UsableDraws(draws) :
                        \A j \in UsableDraws(draws) : i <= j
<1>1. UsableDraws(draws) \in SUBSET Nat
  BY DrawsAssumption DEF UsableDraws
<1>2. PICK n \in UsableDraws(draws) : \A j \in UsableDraws(draws) : n <= j
  BY <1>1, LeastNatural
<1>3. first \in UsableDraws(draws)
  BY <1>2
<1>4. draws[first] \in Seq(0 .. 255) /\ serial_is_der_canonical(draws[first])
  BY <1>3, SerialsAssumption DEF UsableDraws
<1>5. generate_usable_rcac(draws, fabric) = <<"rcac", freshKey, fabric, draws[first]>>
  BY DEF generate_usable_rcac, Rcac
<1> HIDE DEF first
<1>6. QED
  BY <1>4, <1>5, CanonicalIsDer DEF Damaged, PublicKey, RcacSerial

(* A first boot writes an identity of its own, which boots again.          *)
LEMMA MintedInstalls ==
    ASSUME CountersInv, NEW fabric, NEW draws \in [1 .. RcacDraws -> Serials],
           UsableDraws(draws) # {}
    PROVE  LET id == Minted(fabric, draws)
           IN  Installs(id) /\ IsMinted(id) /\ RcacIsStrict(id.rcac_tlv)
<1>1. PICK cert : cert = generate_usable_rcac(draws, fabric)
  OBVIOUS
<1>2. /\ cert # Damaged /\ PublicKey(cert) = freshKey
      /\ DerInteger(RcacSerial(cert)) = RcacSerial(cert)
  BY <1>1, DrawnIsStrict
<1>3. PICK base : base = finish_identity(fabric, cert)
  OBVIOUS
<1>4. /\ base.rcac_tlv = cert /\ base.ca_private_key = Key(freshKey)
      /\ base.controller_private_key = Key(freshKey + 1) /\ base.ipk = Ipk(freshKey + 2)
      /\ base.controller_node_id = CONTROLLER_NODE_ID
      /\ base.controller_noc_tlv = Noc(freshKey, CONTROLLER_NODE_ID, fabric, freshKey + 1)
  BY <1>2, <1>3 DEF finish_identity
<1>5. PICK id : id = Minted(fabric, draws)
  OBVIOUS
<1>6. /\ IsIdentity(base)
      /\ id = [base EXCEPT !.compressed_fabric_id = install(base).compressed]
  BY <1>1, <1>3, <1>5, FinishedIsIdentity DEF Minted
<1>7. /\ \A f \in IdentityFields \ {"compressed_fabric_id"} : id[f] = base[f]
      /\ id.compressed_fabric_id = install(base).compressed
  <2>1. PICK x : x = install(base).compressed
    OBVIOUS
  <2>2. id = [base EXCEPT !.compressed_fabric_id = x]
    BY <1>6, <2>1
  <2>3. QED
    BY <1>6, <2>1, <2>2, CorrectedIsIdentity
<1>8. /\ id.rcac_tlv = cert /\ id.ca_private_key = Key(freshKey)
      /\ id.controller_private_key = Key(freshKey + 1) /\ id.ipk = Ipk(freshKey + 2)
      /\ id.controller_node_id = CONTROLLER_NODE_ID
      /\ id.controller_noc_tlv = Noc(freshKey, CONTROLLER_NODE_ID, fabric, freshKey + 1)
      /\ id.compressed_fabric_id = CompressedFabricId(freshKey, fabric)
  <2>1. NocFabric(base.controller_noc_tlv) = fabric
    BY <1>4 DEF NocFabric, Noc
  <2>2. install(base).compressed = CompressedFabricId(freshKey, fabric)
    BY <1>2, <1>4, <2>1 DEF install
  <2>3. QED
    BY <1>4, <1>7, <2>2 DEF IdentityFields
<1>9. Installs(id)
  BY <1>2, <1>8 DEF Installs, InstallFails, Key, Ipk, Noc, NocNode, NocFabric, Damaged
<1>10. IsMinted(id)
  BY <1>8 DEF IsMinted, Key, CountersInv
<1>11. QED
  BY <1>2, <1>5, <1>8, <1>9, <1>10 DEF RcacIsStrict

-----------------------------------------------------------------------------
(* Migrating.                                                              *)

(* The five checks leave no identity but the one the devices accept: the   *)
(* operational id fixes root and fabric, the NOC's signature the CA key,   *)
(* and the operational IPK the epoch key.                                  *)
LEMMA CheckedIsMigrated ==
    ASSUME NEW source, NamesTheFabric(source), IsOk(identity_from_preserved_ca(source)),
           NEW config, NEW nodes,
           run_all(identity_from_preserved_ca(source)[2], source, config, nodes)
    PROVE  LET id == identity_from_preserved_ca(source)[2]
           IN  Installs(id) /\ IsMigrated(id)
<1>1. PICK id : id = PreservedIdentity(source)
  OBVIOUS
<1>2. /\ identity_from_preserved_ca(source)[2] = id
      /\ RcacAgrees(source) /\ verify_identity(id)
  BY <1>1 DEF identity_from_preserved_ca, IsOk, Ok, Err
<1>3. /\ id.rcac_tlv = source.rcac_tlv /\ id.ca_private_key = source.ca_private_key
      /\ id.controller_private_key = Key(freshKey) /\ id.ipk = source.ipk_epoch_key
      /\ id.controller_node_id = source.controller_node_id
      /\ id.controller_noc_tlv = Noc(source.ca_private_key[2], source.controller_node_id,
                                     source.fabric_id, freshKey)
      /\ id.compressed_fabric_id
            = CompressedFabricId(PublicKey(source.rcac_tlv), source.fabric_id)
  BY <1>1 DEF PreservedIdentity
<1>4. PublicKey(source.rcac_tlv) = DeviceFabric.root /\ source.fabric_id = DeviceFabric.fabric
  <2>1. id.compressed_fabric_id = DeviceCompressed
    BY <1>2 DEF run_all, check_fabric_identity, NamesTheFabric
  <2>2. QED
    BY <1>3, <2>1 DEF DeviceCompressed, CompressedFabricId
<1>5. source.ca_private_key[2] = DeviceFabric.root
  BY <1>2, <1>3, <1>4 DEF verify_identity, Noc
<1>6. OperationalIpk(id.ipk, id.compressed_fabric_id)
        = OperationalIpk(DeviceFabric.ipk, DeviceCompressed)
  BY <1>2 DEF run_all, check_ipk_choice, NamesTheFabric
<1>7. id.ipk = Ipk(5)
  BY <1>6 DEF OperationalIpk, DeviceFabric
<1>8. Accepts(id)
  BY <1>3, <1>4, <1>5, <1>6 DEF Accepts, NamesTheFabric, Key
<1>9. ~InstallFails(id)
  BY <1>2, <1>3, <1>7 DEF InstallFails, RcacAgrees, Key, Ipk, Noc, NocNode, Damaged
<1>10. Installs(id)
  BY <1>3, <1>9 DEF Installs, Noc, NocFabric
<1>11. QED
  BY <1>2, <1>3, <1>4, <1>8, <1>10 DEF IsMigrated

LEMMA PlanIsMigrated ==
    ASSUME ReadNamesTheFabric, IsOk(Plan), Plan[2].ok
    PROVE  Installs(Plan[2].identity) /\ IsMigrated(Plan[2].identity)
<1>1. ~IsOk(Err)
  BY DEF IsOk, Err
<1>2. PICK db, source : db = open_store[2] /\ source = read_source_fabric(open_store[2])
  OBVIOUS
<1>3. IsOk(open_store) /\ Plan = PlanFrom(db, source)
  BY <1>1, <1>2 DEF Plan, PlanIn
<1>4. PICK id, nodes : /\ id = identity_from_preserved_ca(source[2])
                       /\ nodes = plan_nodes(db, PublicKey(source[2].rcac_tlv))
  OBVIOUS
<1>5. IsOk(source) /\ Plan = PlanWith(source[2], id, nodes)
  BY <1>1, <1>3, <1>4 DEF PlanFrom
<1>6. IsOk(id) /\ Plan[2] = PlanOf(source[2], id[2], nodes[2])
  BY <1>1, <1>5 DEF PlanWith, Ok
<1>7. /\ Plan[2].identity = id[2]
      /\ run_all(id[2], source[2], config_from(source[2], nodes[2]), nodes[2])
  BY <1>6 DEF PlanOf
<1>8. NamesTheFabric(source[2])
  BY <1>2, <1>3, <1>5 DEF ReadNamesTheFabric
<1>9. QED
  BY <1>4, <1>6, <1>7, <1>8, CheckedIsMigrated

-----------------------------------------------------------------------------
(* What a step does to the origin of server.json.                          *)

LEMMA MigratedIsStrict ==
    ASSUME NEW id, IsMigrated(id)
    PROVE  RcacIsStrict(id.rcac_tlv)
  BY FreshKeyAssumption DEF IsMigrated, RcacIsStrict, DeviceFabric

LEMMA FileStays ==
    ASSUME StrictInv, OriginInv, UNCHANGED <<serverJson, edits>>
    PROVE  StrictInv' /\ OriginInv'
<1>1. PICK id : id = Contents(serverJson)
  OBVIOUS
<1>2. Contents(serverJson)' = id /\ IsReadable(serverJson)' = IsReadable(serverJson)
  BY <1>1 DEF Contents, IsReadable
<1>3. QED
  BY <1>1, <1>2 DEF StrictInv, OriginInv

LEMMA FileIsWritten ==
    ASSUME NEW id, serverJson' = Readable(id), RcacIsStrict(id.rcac_tlv),
           edits' = 0 => Installs(id) /\ (IsMigrated(id) \/ IsMinted(id))
    PROVE  StrictInv' /\ OriginInv'
<1>1. Contents(serverJson)' = id /\ IsReadable(serverJson)'
  BY DEF Contents, Readable, IsReadable
<1>2. QED
  BY <1>1 DEF StrictInv, OriginInv

LEMMA PlanStays ==
    ASSUME PlanInv, tool' = tool \/ tool'.pc # "create"
    PROVE  PlanInv'
<1>1. PICK id : id = tool.plan.identity
  OBVIOUS
<1>2. tool' = tool => tool'.plan.identity = id
  BY <1>1
<1>3. QED
  BY <1>1, <1>2 DEF PlanInv

(* What a boot corrects in an identity that installs was right before.     *)
LEMMA NothingToCorrect ==
    ASSUME NEW id, IsIdentity(id), Installs(id), NEW x, x = install(id).compressed
    PROVE  [id EXCEPT !.compressed_fabric_id = x] = id
<1>1. x = id.compressed_fabric_id
  BY DEF Installs, install
<1>2. QED
  BY <1>1 DEF IsIdentity, IdentityFields

LEMMA BootOrigin ==
    ASSUME IInv, CountersInv, StrictInv, OriginInv, Boot
    PROVE  CountersInv' /\ StrictInv' /\ OriginInv'
<1>1. CASE BootStored
  <2> DEFINE x == install(serverJson[2]).compressed
             id == [serverJson[2] EXCEPT !.compressed_fabric_id = x]
  <2>1. /\ serverJson' = Readable(id) \/ serverJson' = serverJson
        /\ UNCHANGED <<freshKey, edits>> /\ IsReadable(serverJson)
    BY <1>1 DEF BootStored, Contents
  <2>2. CountersInv'
    BY <2>1 DEF CountersInv
  <2>3. serverJson # Absent /\ IsIdentity(serverJson[2])
    BY <2>1 DEF IsReadable, IInv, FileInv, Absent
  <2>4. PICK old, new, c : old = serverJson[2] /\ c = x /\ new = id
    OBVIOUS
  <2>5. new = [old EXCEPT !.compressed_fabric_id = c] /\ new.rcac_tlv = old.rcac_tlv
    BY <2>3, <2>4, CorrectedIsIdentity DEF IdentityFields
  <2>6. CASE serverJson' = Readable(new)
    <3>1. RcacIsStrict(new.rcac_tlv)
      BY <2>3, <2>4, <2>5 DEF StrictInv, Contents
    <3>2. edits = 0 => new = old /\ Installs(old) /\ (IsMigrated(old) \/ IsMinted(old))
      BY <2>3, <2>4, <2>5, NothingToCorrect DEF OriginInv, Contents
    <3>3. QED
      BY <2>1, <2>2, <2>6, <3>1, <3>2, FileIsWritten
  <2>7. QED
    BY <2>1, <2>2, <2>4, <2>6, FileStays
<1>2. CASE BootMints
  <2>1. PICK fabric \in CliFabrics, draws \in [1 .. RcacDraws -> Serials] :
            UsableDraws(draws) # {} /\ serverJson' = Readable(Minted(fabric, draws))
    BY <1>2 DEF BootMints
  <2>2. PICK id : id = Minted(fabric, draws)
    OBVIOUS
  <2>3. Installs(id) /\ IsMinted(id) /\ RcacIsStrict(id.rcac_tlv)
    BY <2>1, <2>2, MintedInstalls
  <2>4. CountersInv'
    BY <1>2, FreshKeyAssumption DEF BootMints, CountersInv
  <2>5. QED
    BY <2>1, <2>2, <2>3, <2>4, FileIsWritten
<1>3. CASE BootCannotSave \/ BootRefused
  BY <1>3, FileStays DEF BootCannotSave, BootRefused, diskVars, CountersInv
<1>4. QED
  BY <1>1, <1>2, <1>3 DEF Boot

LEMMA OperatorOrigin ==
    ASSUME IInv, CountersInv, StrictInv, Operator
    PROVE  CountersInv' /\ StrictInv' /\ OriginInv'
<1>1. edits' = edits + 1 /\ freshKey' = freshKey /\ serverJson # Absent
  BY DEF Operator, OperatorEdits, OperatorDeletes, OperatorMayAct
<1>2. CountersInv' /\ OriginInv'
  BY <1>1 DEF CountersInv, OriginInv
<1>3. CASE serverJson' = Absent
  BY <1>2, <1>3 DEF StrictInv
<1>4. CASE OperatorEdits
  <2>1. PICK kind \in {"readable", "unreadable"},
             new \in HandEdits(serverJson[2]) \cup {serverJson[2]} :
            serverJson' = <<kind, new>>
    BY <1>4 DEF OperatorEdits, Readable, Unreadable, Contents
  <2>2. PICK old : old = serverJson[2]
    OBVIOUS
  <2>3. IsIdentity(old)
    BY <1>1, <2>2 DEF IInv, FileInv
  <2>4. new.rcac_tlv = old.rcac_tlv \/ new.rcac_tlv = Damaged
    BY <2>1, <2>2, <2>3 DEF HandEdits, IsIdentity, IdentityFields
  <2>5. RcacIsStrict(new.rcac_tlv)
    BY <1>1, <2>2, <2>4 DEF StrictInv, Contents, RcacIsStrict
  <2>6. Contents(serverJson)' = new
    BY <2>1 DEF Contents
  <2>7. QED
    BY <1>2, <2>5, <2>6 DEF StrictInv
<1>5. QED
  BY <1>3, <1>4 DEF Operator, OperatorDeletes

LEMMA ToolOrigin ==
    ASSUME IInv, CountersInv, PlanInv, StrictInv, OriginInv, ReadNamesTheFabric, Tool
    PROVE  CountersInv' /\ PlanInv' /\ StrictInv' /\ OriginInv'
<1>1. CASE ToolRuns
  <2>1. CountersInv' /\ StrictInv' /\ OriginInv'
    BY <1>1, FileStays DEF ToolRuns, diskVars, bounds, CountersInv
  <2>2. PICK write \in BOOLEAN, samePath \in BOOLEAN :
          tool' = IF samePath THEN [pc |-> "failed"] ELSE Planned(Plan, write)
    BY <1>1 DEF ToolRuns
  <2>3. CASE tool'.pc # "create"
    BY <2>1, <2>3, PlanStays
  <2>4. CASE tool'.pc = "create"
    <3>1. IsOk(Plan) /\ Plan[2].ok /\ tool'.plan = Plan[2]
      BY <2>2, <2>4 DEF Planned, MayWrite
    <3>2. PICK id : id = Plan[2].identity
      OBVIOUS
    <3>3. tool'.plan.identity = id /\ Installs(id) /\ IsMigrated(id)
      BY <3>1, <3>2, PlanIsMigrated
    <3>4. QED
      BY <2>1, <3>3 DEF PlanInv
  <2>5. QED
    BY <2>3, <2>4
<1>2. CASE ToolCreatesIdentity
  <2>1. PICK id : id = tool.plan.identity
    OBVIOUS
  <2>2. serverJson' = Readable(id) /\ Installs(id) /\ IsMigrated(id)
    BY <1>2, <2>1 DEF ToolCreatesIdentity, create_identity, PlanInv
  <2>3. StrictInv' /\ OriginInv'
    BY <2>2, MigratedIsStrict, FileIsWritten
  <2>4. CountersInv'
    BY <1>2, FreshKeyAssumption
       DEF ToolCreatesIdentity, ToolUnchanged, bounds, CountersInv
  <2>5. tool'.pc = "config"
    BY <1>2, ToolMoves DEF ToolCreatesIdentity
  <2>6. QED
    BY <2>3, <2>4, <2>5, PlanStays
<1>3. CASE ToolSavesConfig \/ ToolSavesNode \/ ToolCounts \/ ToolFails \/ ToolExits
  <2>1. UNCHANGED <<serverJson, freshKey, edits>>
    BY <1>3 DEF ToolSavesConfig, ToolSavesNode, ToolCounts, ToolFails, ToolExits,
       ToolUnchanged, diskVars, bounds
  <2>2. CountersInv' /\ StrictInv' /\ OriginInv'
    BY <2>1, FileStays DEF CountersInv
  <2>3. CASE ToolSavesConfig \/ ToolCounts
    <3>1. \E l \in {"nodes", "wrote", "failed"} : ToolGoesTo(l)
      BY <2>3 DEF ToolSavesConfig, ToolCounts
    <3>2. QED
      BY <2>2, <3>1, ToolMoves, PlanStays
  <2>4. CASE ToolSavesNode
    <3>1. tool'.pc = "nodes"
      BY <2>4 DEF ToolSavesNode, IInv, ToolInv
    <3>2. QED
      BY <2>2, <3>1, PlanStays
  <2>5. CASE ToolFails \/ ToolExits
    <3>1. tool'.pc # "create"
      BY <2>5 DEF ToolFails, ToolExits, NoTool
    <3>2. QED
      BY <2>2, <3>1, PlanStays
  <2>6. QED
    BY <1>3, <2>3, <2>4, <2>5
<1>4. QED
  BY <1>1, <1>2, <1>3 DEF Tool

LEMMA NextOrigin ==
    ASSUME IInv, CountersInv, PlanInv, StrictInv, OriginInv, ReadNamesTheFabric,
           [Next]_vars
    PROVE  CountersInv' /\ PlanInv' /\ StrictInv' /\ OriginInv'
<1>1. CASE Tool
  BY <1>1, ToolOrigin
<1>2. CASE UNCHANGED <<serverJson, freshKey, edits, tool>>
  BY <1>2, FileStays, PlanStays DEF CountersInv
<1>3. CASE Boot /\ UNCHANGED tool
  BY <1>3, BootOrigin, PlanStays
<1>4. CASE Operator /\ UNCHANGED tool
  BY <1>4, OperatorOrigin, PlanStays
<1>5. QED
  BY <1>1, <1>2, <1>3, <1>4 DEF Next, vars, provisioningVars, ServerStops, diskVars, bounds

LEMMA InitOrigin ==
    ASSUME Init
    PROVE  CountersInv /\ PlanInv /\ StrictInv /\ OriginInv
  BY FreshKeyAssumption DEF Init, CountersInv, PlanInv, StrictInv, OriginInv, NoTool

(* What follows from the origin of server.json.                            *)
LEMMA OriginTells ==
    ASSUME CountersInv, StrictInv, OriginInv
    PROVE  MigratedIsAccepted /\ MintedIsStrict /\ UneditedInstalls
<1>1. MintedIsStrict
  BY DEF StrictInv, MintedIsStrict, RcacIsStrict
<1>2. UneditedInstalls
  BY DEF OriginInv, UneditedInstalls, Installs
<1>3. MigratedIsAccepted
  BY FreshKeyAssumption DEF OriginInv, MigratedIsAccepted, IsMigrated, IsMinted
<1>4. QED
  BY <1>1, <1>2, <1>3

LEMMA OriginHolds ==
    Spec /\ []ReadNamesTheFabric => [](CountersInv /\ StrictInv /\ OriginInv)
<1>1. Init => IInv /\ CountersInv /\ PlanInv /\ StrictInv /\ OriginInv
  BY InitInv, InitOrigin
<1>2. IInv /\ CountersInv /\ PlanInv /\ StrictInv /\ OriginInv
        /\ ReadNamesTheFabric /\ [Next]_vars
        => (IInv /\ CountersInv /\ PlanInv /\ StrictInv /\ OriginInv)'
  BY NextKeepsInv, NextOrigin
<1>3. QED
  BY <1>1, <1>2, PTL DEF Spec

-----------------------------------------------------------------------------
(* The label of the fabric in memory.                                      *)

(* A label is a String: the widths of its characters, one by one.          *)
StoreLabelIsText ==
    LET source == read_source_fabric(committed)
    IN  IsOk(source) => source[2].label \in Seq(Nat)

(* So is the label the tool reads.                                         *)
ReadLabelIsText ==
    LET source == read_source_fabric(open_store[2])
    IN  IsOk(open_store) /\ IsOk(source) => source[2].label \in Seq(Nat)

(* And so is every label in config.json, and the one the tool puts there.  *)
TextInv ==
    /\ IsReadable(configJson) => Contents(configJson).fabric_label \in Seq(Nat)
    /\ tool.pc \in {"create", "config"} =>
            "plan" \in DOMAIN tool /\ tool.plan.config.fabric_label \in Seq(Nat)

LabelFits == \A f \in fabrics : Bytes(f.label) <= LabelMaxBytes

LEMMA GreatestBelow ==
    ASSUME NEW n \in Nat, NEW S \in SUBSET (0 .. n), S # {}
    PROVE  \E i \in S : \A j \in S : j <= i
<1> DEFINE T == {n - i : i \in S}
<1>1. T \in SUBSET Nat /\ T # {}
  <2>1. \A i \in 0 .. n : n - i \in Nat
    OBVIOUS
  <2>2. \A i \in S : n - i \in Nat
    BY <2>1
  <2>3. QED
    BY <2>2
<1>2. PICK t \in T : \A u \in T : t <= u
  <2> HIDE DEF T
  <2>1. QED
    BY <1>1, LeastNatural
<1>3. PICK i \in S : t = n - i
  BY <1>2
<1>4. ASSUME NEW j \in S
      PROVE  j <= i
  <2>1. n - j \in T
    OBVIOUS
  <2>2. n - i <= n - j /\ i \in 0 .. n /\ j \in 0 .. n
    BY <1>2, <1>3, <2>1
  <2>3. QED
    BY <2>2
<1>5. QED
  BY <1>4

LEMMA NoBytes == Bytes(<<>>) = 0
<1> DEFINE Sums(g) == g = [i \in 0 .. Len(<<>>) |->
                            IF i = 0 THEN 0 ELSE g[i - 1] + <<>>[i]]
           sum == CHOOSE g : Sums(g)
<1>1. Sums([i \in 0 .. 0 |-> 0])
  <2>1. \A i \in 0 .. 0 : i = 0
    OBVIOUS
  <2>2. QED
    BY <2>1
<1>2. Sums(sum)
  <2>1. \E g : Sums(g)
    BY <1>1
  <2> HIDE DEF Sums
  <2>2. QED
    BY <2>1
<1>3. sum[0] = 0
  <2>1. 0 \in 0 .. Len(<<>>)
    OBVIOUS
  <2> HIDE DEF sum
  <2>2. QED
    BY <1>2, <2>1
<1>4. Bytes(<<>>) = sum[Len(<<>>)]
  BY DEF Bytes
<1>5. QED
  BY <1>3, <1>4

(* Whatever the label, some number of its characters fits.                 *)
LEMMA TruncatedFits ==
    ASSUME NEW label \in Seq(Nat)
    PROVE  Bytes(truncate_to_bytes(label)) <= LabelMaxBytes
<1> DEFINE fits == {i \in 0 .. Len(label) : Bytes(SubSeq(label, 1, i)) <= LabelMaxBytes}
           most == CHOOSE i \in fits : \A j \in fits : j <= i
<1>1. Len(label) \in Nat /\ fits \in SUBSET (0 .. Len(label))
  OBVIOUS
<1>2. 0 \in fits
  <2>1. SubSeq(label, 1, 0) = <<>>
    BY SubSeqEmpty
  <2>2. Bytes(SubSeq(label, 1, 0)) <= LabelMaxBytes
    <3>1. Bytes(SubSeq(label, 1, 0)) = Bytes(<<>>)
      BY <2>1, Zenon
    <3>2. Bytes(<<>>) <= LabelMaxBytes
      BY NoBytes, LabelAssumption
    <3>3. QED
      BY <3>1, <3>2, Zenon
  <2>3. 0 \in 0 .. Len(label)
    BY <1>1
  <2>4. QED
    BY <2>2, <2>3
<1>3. \E i \in fits : \A j \in fits : j <= i
  <2> HIDE DEF fits
  <2>1. QED
    BY <1>1, <1>2, GreatestBelow
<1>4. most \in fits
  <2> HIDE DEF fits
  <2>1. QED
    BY <1>3
<1>5. truncate_to_bytes(label) = SubSeq(label, 1, most)
  BY DEF truncate_to_bytes
<1> HIDE DEF most
<1>6. QED
  BY <1>4, <1>5

LEMMA InstalledFits ==
    ASSUME TextInv, NEW id
    PROVE  Bytes(install(id).label) <= LabelMaxBytes
<1>1. load_config.fabric_label \in Seq(Nat)
  BY DEF TextInv, load_config, ConfigDefault
<1>2. install(id).label = truncate_to_bytes(load_config.fabric_label)
  BY DEF install
<1>3. QED
  BY <1>1, <1>2, TruncatedFits

LEMMA NormalizedIsText ==
    ASSUME NEW label \in Seq(Nat)
    PROVE  normalize_fabric_label(label) \in Seq(Nat)
<1>1. ConfigDefault.fabric_label \in Seq(Nat)
  BY DEF ConfigDefault
<1>2. PICK n \in Nat : n <= Len(label) /\ n = IF Len(label) < 32 THEN Len(label) ELSE 32
  OBVIOUS
<1>3. \A i \in 1 .. n : label[i] \in Nat
  BY <1>2, ElementOfSeq
<1>4. SubSeq(label, 1, n) \in Seq(Nat)
  BY <1>3, SubSeqProperties
<1>5. QED
  BY <1>1, <1>2, <1>4 DEF normalize_fabric_label

LEMMA PlanHasText ==
    ASSUME ReadLabelIsText, IsOk(Plan)
    PROVE  Plan[2].config.fabric_label \in Seq(Nat)
<1>1. ~IsOk(Err)
  BY DEF IsOk, Err
<1>2. PICK db, source : db = open_store[2] /\ source = read_source_fabric(open_store[2])
  OBVIOUS
<1>3. IsOk(open_store) /\ Plan = PlanFrom(db, source)
  BY <1>1, <1>2 DEF Plan, PlanIn
<1>4. PICK id, nodes : IsOk(source) /\ Plan = PlanWith(source[2], id, nodes)
  BY <1>1, <1>3 DEF PlanFrom
<1>5. Plan[2] = PlanOf(source[2], id[2], nodes[2])
  BY <1>1, <1>4 DEF PlanWith, Ok
<1>6. Plan[2].config.fabric_label = normalize_fabric_label(source[2].label)
  BY <1>5 DEF PlanOf, config_from
<1>7. QED
  BY <1>2, <1>3, <1>4, <1>6, NormalizedIsText DEF ReadLabelIsText

LEMMA NextText ==
    ASSUME IInv, TextInv, ReadLabelIsText, [Next]_vars
    PROVE  TextInv'
<1>1. CASE ToolRuns
  <2>1. configJson' = configJson
    BY <1>1 DEF ToolRuns, diskVars
  <2>2. PICK write \in BOOLEAN, samePath \in BOOLEAN :
          tool' = IF samePath THEN [pc |-> "failed"] ELSE Planned(Plan, write)
    BY <1>1 DEF ToolRuns
  <2>3. tool'.pc \in {"create", "config"} =>
            IsOk(Plan) /\ "plan" \in DOMAIN tool' /\ tool'.plan = Plan[2]
    BY <2>2 DEF Planned
  <2>4. QED
    BY <2>1, <2>3, PlanHasText DEF TextInv, IsReadable, Contents
<1>2. CASE ToolCreatesIdentity
  <2>1. configJson' = configJson /\ tool.pc = "create" /\ ToolGoesTo("config")
    BY <1>2 DEF ToolCreatesIdentity
  <2>2. "plan" \in DOMAIN tool' /\ tool'.plan = tool.plan
    BY <2>1 DEF ToolGoesTo, IInv, ToolInv, TextInv
  <2>3. QED
    BY <2>1, <2>2 DEF TextInv, IsReadable, Contents
<1>3. CASE ToolSavesConfig
  <2>1. configJson' = Readable(tool.plan.config) /\ tool.pc = "config" /\ tool'.pc = "nodes"
    BY <1>3, ToolMoves DEF ToolSavesConfig, save_config
  <2>2. QED
    BY <2>1 DEF TextInv, Readable, Contents
<1>4. CASE ToolSavesNode \/ ToolCounts \/ ToolFails \/ ToolExits
  <2>1. configJson' = configJson
    BY <1>4 DEF ToolSavesNode, ToolCounts, ToolFails, ToolExits, diskVars
  <2>2. tool'.pc \notin {"create", "config"}
    BY <1>4 DEF ToolSavesNode, ToolCounts, ToolGoesTo, ToolFails, ToolExits, NoTool,
       IInv, ToolInv
  <2>3. QED
    BY <2>1, <2>2 DEF TextInv, IsReadable, Contents
<1>5. CASE UNCHANGED <<configJson, tool>>
  BY <1>5 DEF TextInv, IsReadable, Contents
<1>6. QED
  BY <1>1, <1>2, <1>3, <1>4, <1>5 DEF Next, vars, provisioningVars, Tool, Boot, BootStored,
     BootMints, BootCannotSave, BootRefused, ServerStops, Operator, OperatorEdits,
     OperatorDeletes, OperatorMayAct, diskVars

LEMMA NextFits ==
    ASSUME TextInv, LabelFits, [Next]_vars
    PROVE  LabelFits'
<1>1. CASE \E id : fabrics' = {install(id)}
  BY <1>1, InstalledFits DEF LabelFits
<1>2. CASE fabrics' = {} \/ fabrics' = fabrics
  BY <1>2 DEF LabelFits
<1>3. BootStored \/ BootMints => \E id : fabrics' = {install(id)}
  BY DEF BootStored, BootMints
<1>4. QED
  BY <1>1, <1>2, <1>3 DEF Next, vars, provisioningVars, processVars, Tool, ToolRuns,
     ToolCreatesIdentity, ToolSavesConfig, ToolSavesNode, ToolCounts, ToolFails, ToolExits,
     ToolUnchanged, Boot, BootCannotSave, RollBack, BootRefused, ServerStops, Operator,
     OperatorEdits, OperatorDeletes, OperatorMayAct

LEMMA InitText ==
    ASSUME Init
    PROVE  TextInv /\ LabelFits
<1>1. PICK leftover \in Leftovers : configJson = leftover.config
  BY DEF Init
<1>2. IsReadable(configJson) => configJson # Absent
  BY DEF IsReadable, Absent
<1>3. QED
  BY <1>1, <1>2, LeftoversAssumption DEF Init, TextInv, LabelFits, NoTool

-----------------------------------------------------------------------------
(* What the tool has written when it is where it is.                       *)

HasPlan == tool.pc \in {"create", "config", "nodes", "wrote"}

AccountedInv ==
    HasPlan =>
        /\ {"plan", "saved"} \subseteq DOMAIN tool /\ tool.saved \in Nat
        /\ tool.pc \in {"create", "config"} => tool.saved = 0
        /\ check_node_accounting(tool.plan.config, tool.plan.nodes)

WrittenInv ==
    /\ nodeFiles = [n \in NodeIds |-> nodeFiles[n]]
    /\ tool.pc \in {"config", "nodes", "wrote"} =>
            serverJson = Readable(tool.plan.identity)
    /\ tool.pc \in {"nodes", "wrote"} =>
            /\ configJson = Readable(tool.plan.config)
            /\ tool.saved <= Len(tool.plan.nodes)
            /\ \A i \in 1 .. tool.saved :
                    nodeFiles[tool.plan.nodes[i].node_id] = Readable(tool.plan.nodes[i])
    /\ tool.pc = "wrote" => tool.saved = Len(tool.plan.nodes) /\ CountMatches

LEMMA PlanIsAccounted ==
    ASSUME IsOk(Plan), Plan[2].ok
    PROVE  check_node_accounting(Plan[2].config, Plan[2].nodes)
<1>1. ~IsOk(Err)
  BY DEF IsOk, Err
<1>2. PICK db, source : Plan = PlanFrom(db, source)
  BY <1>1 DEF Plan, PlanIn
<1>3. PICK id, nodes : Plan = PlanWith(source[2], id, nodes)
  BY <1>1, <1>2 DEF PlanFrom
<1>4. Plan[2] = PlanOf(source[2], id[2], nodes[2])
  BY <1>1, <1>3 DEF PlanWith, Ok
<1>5. PICK config : config = config_from(source[2], nodes[2])
  OBVIOUS
<1>6. /\ Plan[2].config = config /\ Plan[2].nodes = nodes[2]
      /\ run_all(id[2], source[2], config, nodes[2])
  BY <1>4, <1>5 DEF PlanOf
<1>7. QED
  BY <1>6 DEF run_all

(* A move of the tool from one write step to another keeps the plan.       *)
LEMMA PlanIsKept ==
    ASSUME IInv, AccountedInv, HasPlan, NEW l, ToolGoesTo(l)
    PROVE  /\ tool'.pc = l /\ tool'.plan = tool.plan /\ tool'.saved = tool.saved
           /\ {"plan", "saved"} \subseteq DOMAIN tool'
  BY DEF IInv, ToolInv, AccountedInv, ToolGoesTo

LEMMA NextAccounted ==
    ASSUME IInv, AccountedInv, [Next]_vars
    PROVE  AccountedInv'
<1>1. CASE ToolRuns
  <2>1. PICK write \in BOOLEAN, samePath \in BOOLEAN :
          tool' = IF samePath THEN [pc |-> "failed"] ELSE Planned(Plan, write)
    BY <1>1 DEF ToolRuns
  <2>2. HasPlan' =>
          /\ IsOk(Plan) /\ Plan[2].ok /\ tool'.plan = Plan[2] /\ tool'.saved = 0
          /\ {"plan", "saved"} \subseteq DOMAIN tool'
    BY <2>1 DEF HasPlan, Planned, MayWrite
  <2>3. PICK config, nodes : config = Plan[2].config /\ nodes = Plan[2].nodes
    OBVIOUS
  <2>4. HasPlan' => check_node_accounting(config, nodes)
    BY <2>2, <2>3, PlanIsAccounted
  <2>5. HasPlan' => tool'.plan.config = config /\ tool'.plan.nodes = nodes
    BY <2>2, <2>3
  <2>6. QED
    BY <2>2, <2>4, <2>5 DEF AccountedInv
<1>2. ASSUME HasPlan, tool'.plan = tool.plan, {"plan", "saved"} \subseteq DOMAIN tool',
             tool'.saved \in Nat, tool'.pc \in {"create", "config"} => tool'.saved = 0
      PROVE  AccountedInv'
  <2>1. PICK config, nodes : config = tool.plan.config /\ nodes = tool.plan.nodes
    OBVIOUS
  <2>2. tool'.plan.config = config /\ tool'.plan.nodes = nodes
    BY <1>2, <2>1
  <2>3. check_node_accounting(config, nodes)
    BY <1>2, <2>1 DEF AccountedInv
  <2>4. QED
    BY <1>2, <2>2, <2>3 DEF AccountedInv
<1>3. CASE ToolCreatesIdentity \/ ToolSavesConfig \/ ToolCounts
  <2>1. /\ HasPlan
        /\ \/ tool.pc = "create" /\ ToolGoesTo("config")
           \/ \E l \in {"nodes", "wrote", "failed"} : ToolGoesTo(l)
    BY <1>3 DEF ToolCreatesIdentity, ToolSavesConfig, ToolCounts, HasPlan
  <2>2. QED
    BY <1>2, <2>1, PlanIsKept DEF AccountedInv
<1>4. CASE ToolSavesNode
  <2>1. /\ HasPlan /\ tool'.pc = "nodes" /\ tool'.plan = tool.plan
        /\ tool'.saved = tool.saved + 1 /\ {"plan", "saved"} \subseteq DOMAIN tool'
    BY <1>4 DEF ToolSavesNode, HasPlan, AccountedInv, IInv, ToolInv
  <2>2. QED
    BY <1>2, <2>1 DEF AccountedInv
<1>5. CASE ToolFails \/ ToolExits
  BY <1>5 DEF ToolFails, ToolExits, NoTool, AccountedInv, HasPlan
<1>6. CASE UNCHANGED tool
  <2>1. HasPlan' = HasPlan
    BY <1>6 DEF HasPlan
  <2>2. CASE ~HasPlan
    BY <2>1, <2>2 DEF AccountedInv
  <2>3. CASE HasPlan
    BY <1>2, <1>6, <2>3 DEF AccountedInv
  <2>4. QED
    BY <2>2, <2>3
<1>7. QED
  BY <1>1, <1>3, <1>4, <1>5, <1>6 DEF Next, vars, Tool

LEMMA PlannedNames ==
    ASSUME NEW nodes \in Seq(PlannedNode)
    PROVE  \A i \in 1 .. Len(nodes) : nodes[i].node_id \in NodeIds
<1>1. \A i \in 1 .. Len(nodes) : nodes[i] \in PlannedNode
  BY ElementOfSeq
<1>2. \A record \in PlannedNode : record.node_id \in NodeIds
  BY DEF PlannedNode
<1>3. QED
  BY <1>1, <1>2

(* One more node file: no other planned node has its name.                 *)
LEMMA NodeIsWritten ==
    ASSUME IInv, AccountedInv, WrittenInv, PlanIsExact, ToolSavesNode
    PROVE  WrittenInv'
<1>1. PICK nodes, k : nodes = tool.plan.nodes /\ k = tool.saved + 1
  OBVIOUS
<1>2. /\ tool.pc = "nodes" /\ {"plan", "saved"} \subseteq DOMAIN tool /\ tool.saved \in Nat
      /\ tool.saved < Len(nodes)
  BY <1>1 DEF ToolSavesNode, AccountedInv, HasPlan
<1>3. /\ tool'.pc = "nodes" /\ tool'.plan = tool.plan /\ tool'.saved = k
  BY <1>1, <1>2 DEF ToolSavesNode, IInv, ToolInv
<1>4. /\ nodes \in Seq(PlannedNode)
      /\ \A i, j \in DOMAIN nodes : nodes[i].node_id = nodes[j].node_id => i = j
  BY <1>1, <1>2 DEF PlanIsExact, Writing
<1>5. k \in 1 .. Len(nodes) /\ DOMAIN nodes = 1 .. Len(nodes)
  BY <1>1, <1>2, <1>4
<1>6. \A i \in 1 .. Len(nodes) : nodes[i].node_id \in NodeIds
  BY <1>4, PlannedNames
<1>7. /\ nodeFiles' = [nodeFiles EXCEPT ![nodes[k].node_id] = Readable(nodes[k])]
      /\ serverJson' = serverJson /\ configJson' = configJson
  BY <1>1 DEF ToolSavesNode, save_node
<1>8. /\ nodeFiles' = [n \in NodeIds |-> nodeFiles'[n]]
      /\ nodeFiles'[nodes[k].node_id] = Readable(nodes[k])
      /\ \A n \in NodeIds \ {nodes[k].node_id} : nodeFiles'[n] = nodeFiles[n]
  BY <1>5, <1>6, <1>7 DEF WrittenInv
<1>9. ASSUME NEW i \in 1 .. k
      PROVE  nodeFiles'[nodes[i].node_id] = Readable(nodes[i])
  <2>1. CASE i = k
    BY <1>8, <2>1
  <2>2. CASE i # k
    <3>1. i \in 1 .. tool.saved /\ i \in 1 .. Len(nodes)
      BY <1>1, <1>2, <1>5, <2>2
    <3>2. nodes[i].node_id \in NodeIds \ {nodes[k].node_id}
      BY <1>4, <1>5, <1>6, <2>2, <3>1
    <3>3. nodeFiles[nodes[i].node_id] = Readable(nodes[i])
      BY <1>1, <1>2, <3>1 DEF WrittenInv
    <3>4. QED
      BY <1>8, <3>2, <3>3
  <2>3. QED
    BY <2>1, <2>2
<1>10. serverJson' = Readable(tool'.plan.identity) /\ configJson' = Readable(tool'.plan.config)
  BY <1>2, <1>3, <1>7 DEF WrittenInv, Readable
<1>11. /\ tool'.plan.nodes = nodes /\ tool'.saved <= Len(nodes)
       /\ \A i \in 1 .. tool'.saved : nodeFiles'[nodes[i].node_id] = Readable(nodes[i])
  BY <1>1, <1>3, <1>5, <1>9
<1>12. QED
  BY <1>3, <1>8, <1>10, <1>11 DEF WrittenInv, Readable

LEMMA NextWritten ==
    ASSUME IInv, AccountedInv, WrittenInv, PlanIsExact, [Next]_vars
    PROVE  WrittenInv'
<1>1. nodeFiles' = nodeFiles \/ ToolSavesNode
  BY DEF Next, vars, provisioningVars, Tool, ToolRuns, ToolCreatesIdentity, ToolSavesConfig,
     ToolCounts, ToolFails, ToolExits, Boot, BootStored, BootMints, BootCannotSave,
     BootRefused, ServerStops, Operator, OperatorEdits, OperatorDeletes, OperatorMayAct,
     diskVars
<1>2. ASSUME nodeFiles' = nodeFiles, tool'.pc \notin {"config", "nodes", "wrote"}
      PROVE  WrittenInv'
  BY <1>2 DEF WrittenInv
<1>3. CASE ToolRuns
  <2>1. PICK write \in BOOLEAN, samePath \in BOOLEAN :
          tool' = IF samePath THEN [pc |-> "failed"] ELSE Planned(Plan, write)
    BY <1>3 DEF ToolRuns
  <2>2. tool'.pc \in {"failed", "create", "reported"}
    BY <2>1 DEF Planned
  <2>3. nodeFiles' = nodeFiles
    BY <1>3 DEF ToolRuns, diskVars
  <2>4. QED
    BY <1>2, <2>2, <2>3
<1>4. CASE ToolCreatesIdentity
  <2>1. HasPlan /\ ToolGoesTo("config")
    BY <1>4 DEF ToolCreatesIdentity, HasPlan
  <2>2. tool'.pc = "config" /\ tool'.plan = tool.plan
    BY <2>1, PlanIsKept
  <2>3. serverJson' = Readable(tool.plan.identity) /\ nodeFiles' = nodeFiles
    BY <1>4 DEF ToolCreatesIdentity, create_identity
  <2>4. QED
    BY <2>2, <2>3 DEF WrittenInv, Readable
<1>5. CASE ToolSavesConfig
  <2>1. HasPlan /\ tool.pc = "config" /\ ToolGoesTo("nodes") /\ tool.saved = 0
    BY <1>5 DEF ToolSavesConfig, HasPlan, AccountedInv
  <2>2. tool'.pc = "nodes" /\ tool'.plan = tool.plan /\ tool'.saved = 0
    BY <2>1, PlanIsKept
  <2>3. configJson' = Readable(tool.plan.config) /\ serverJson' = serverJson
        /\ nodeFiles' = nodeFiles
    BY <1>5 DEF ToolSavesConfig, save_config
  <2>4. Len(tool.plan.nodes) \in Nat
    BY <2>1 DEF PlanIsExact, Writing
  <2>5. QED
    BY <2>1, <2>2, <2>3, <2>4 DEF WrittenInv, Readable
<1>6. CASE ToolCounts
  <2>1. HasPlan /\ tool.pc = "nodes" /\ tool.saved = Len(tool.plan.nodes)
        /\ ToolGoesTo(IF CountMatches THEN "wrote" ELSE "failed")
    BY <1>6 DEF ToolCounts, HasPlan
  <2>2. /\ tool'.pc = IF CountMatches THEN "wrote" ELSE "failed"
        /\ tool'.plan = tool.plan /\ tool'.saved = tool.saved
    BY <2>1, PlanIsKept
  <2>3. UNCHANGED <<serverJson, configJson, nodeFiles>>
    BY <1>6 DEF ToolCounts, diskVars
  <2>4. CountMatches' <=> CountMatches
    BY <2>2, <2>3 DEF CountMatches, load_nodes, IsReadable
  <2>5. CASE CountMatches
    BY <2>1, <2>2, <2>3, <2>4, <2>5 DEF WrittenInv, Readable
  <2>6. CASE ~CountMatches
    BY <1>2, <2>2, <2>3, <2>6
  <2>7. QED
    BY <2>5, <2>6
<1>7. CASE ToolFails \/ ToolExits
  BY <1>2, <1>7 DEF ToolFails, ToolExits, NoTool, diskVars
<1>8. CASE UNCHANGED tool
  <2>1. CASE tool.pc \in {"config", "nodes", "wrote"} /\ UNCHANGED diskVars
    <3>1. CountMatches' <=> CountMatches
      BY <1>8, <2>1 DEF CountMatches, load_nodes, IsReadable, diskVars
    <3>2. QED
      BY <1>8, <2>1, <3>1 DEF WrittenInv, Readable, diskVars
  <2>2. CASE tool.pc \notin {"config", "nodes", "wrote"} /\ ~ToolSavesNode
    BY <1>1, <1>2, <1>8, <2>2
  <2>3. CASE ToolSavesNode
    BY <2>3, NodeIsWritten
  <2>4. QED
    <3>1. tool = NoTool => tool.pc \notin {"config", "nodes", "wrote"}
      BY DEF NoTool
    <3>2. QED
      BY <1>3, <1>4, <1>5, <1>6, <1>7, <2>1, <2>2, <2>3, <3>1
         DEF Next, vars, provisioningVars, diskVars, Tool, Offline
<1>9. QED
  BY <1>3, <1>4, <1>5, <1>6, <1>7, <1>8, NodeIsWritten DEF Next, vars, Tool

(* As many files load as there are planned nodes, and each planned node's  *)
(* file does: no other does.                                               *)
LEMMA LoadedArePlanned ==
    ASSUME AccountedInv, WrittenInv, PlanIsExact, tool.pc = "wrote"
    PROVE  load_nodes = {tool.plan.nodes[i].node_id : i \in DOMAIN tool.plan.nodes}
<1>1. PICK nodes : nodes = tool.plan.nodes
  OBVIOUS
<1> DEFINE ids == {nodes[i].node_id : i \in DOMAIN nodes}
           name == [i \in 1 .. Len(nodes) |-> nodes[i].node_id]
<1>2. /\ nodes \in Seq(PlannedNode)
      /\ \A i, j \in DOMAIN nodes : nodes[i].node_id = nodes[j].node_id => i = j
  BY <1>1 DEF PlanIsExact
<1>3. Len(nodes) \in Nat /\ DOMAIN nodes = 1 .. Len(nodes)
  BY <1>2
<1>4. /\ tool.saved = Len(nodes) /\ Cardinality(load_nodes) = Len(nodes)
      /\ \A i \in 1 .. Len(nodes) : nodeFiles[nodes[i].node_id] = Readable(nodes[i])
  BY <1>1 DEF WrittenInv, CountMatches
<1>5. \A i \in 1 .. Len(nodes) : nodes[i].node_id \in NodeIds
  BY <1>2, PlannedNames
<1>6. ids \in SUBSET load_nodes
  <2>1. ASSUME NEW i \in 1 .. Len(nodes)
        PROVE  nodes[i].node_id \in load_nodes
    <3>1. nodeFiles[nodes[i].node_id][1] = "readable"
      BY <1>4 DEF Readable
    <3>2. QED
      BY <1>5, <3>1 DEF load_nodes, IsReadable
  <2>2. QED
    BY <1>3, <2>1
<1>7. IsFiniteSet(load_nodes)
  <2>1. IsFiniteSet(0 .. U64 - 1)
    BY NodesAreU64, FS_Interval
  <2>2. load_nodes \in SUBSET (0 .. U64 - 1)
    BY NodesAreU64 DEF load_nodes
  <2>3. QED
    BY <2>1, <2>2, FS_Subset
<1>8. Cardinality(ids) = Len(nodes)
  <2>1. name \in Bijection(1 .. Len(nodes), ids)
    <3>1. name \in [1 .. Len(nodes) -> ids]
      BY <1>3
    <3>2. \A i, j \in 1 .. Len(nodes) : name[i] = name[j] => i = j
      BY <1>2, <1>3
    <3>3. \A n \in ids : \E i \in 1 .. Len(nodes) : name[i] = n
      BY <1>3
    <3> HIDE DEF ids, name
    <3>4. QED
      BY <3>1, <3>2, <3>3 DEF Bijection, Injection, Surjection, IsInjective
  <2> HIDE DEF ids, name
  <2>2. ExistsBijection(1 .. Len(nodes), ids)
    BY <2>1 DEF ExistsBijection
  <2>3. QED
    BY <1>3, <2>2, FS_CountingElements
<1> HIDE DEF ids
<1>9. load_nodes = ids
  BY <1>4, <1>6, <1>7, <1>8, FS_Subset
<1>10. QED
  BY <1>1, <1>9 DEF ids

LEMMA WrittenIsComplete ==
    ASSUME AccountedInv, WrittenInv, PlanIsExact
    PROVE  WroteIsComplete
<1> SUFFICES ASSUME tool.pc = "wrote"
             PROVE  /\ serverJson = Readable(tool.plan.identity)
                    /\ load_nodes = CommissionedIds
                    /\ \A n \in load_nodes :
                        /\ Contents(nodeFiles[n]).node_id = n
                        /\ n < load_config.next_node_id
  BY DEF WroteIsComplete
<1>1. PICK nodes : nodes = tool.plan.nodes
  OBVIOUS
<1>2. load_nodes = {nodes[i].node_id : i \in DOMAIN nodes} /\ nodes \in Seq(PlannedNode)
  BY <1>1, LoadedArePlanned DEF PlanIsExact
<1>3. load_nodes = CommissionedIds
  BY <1>1, <1>2 DEF PlanIsExact
<1>4. serverJson = Readable(tool.plan.identity) /\ configJson = Readable(tool.plan.config)
  BY DEF WrittenInv
<1>5. load_config = tool.plan.config
  BY <1>4 DEF load_config, IsReadable, Readable, Contents
<1>6. ASSUME NEW n \in load_nodes
      PROVE  Contents(nodeFiles[n]).node_id = n /\ n < load_config.next_node_id
  <2>1. PICK i \in DOMAIN nodes : n = nodes[i].node_id
    BY <1>2
  <2>2. i \in 1 .. tool.saved
    BY <1>1, <1>2, <2>1 DEF WrittenInv
  <2>3. nodeFiles[n] = Readable(nodes[i])
    BY <1>1, <2>1, <2>2 DEF WrittenInv
  <2>4. nodes[i].node_id < tool.plan.config.next_node_id
    BY <1>1, <2>1 DEF AccountedInv, HasPlan, check_node_accounting
  <2>5. QED
    BY <1>5, <2>1, <2>3, <2>4 DEF Readable, Contents
<1>7. QED
  BY <1>3, <1>4, <1>6

LEMMA InitWritten ==
    ASSUME Init
    PROVE  AccountedInv /\ WrittenInv
  BY LeftoversAssumption DEF Init, AccountedInv, WrittenInv, HasPlan, NoTool

(* If what the tool plans is what matter.js had committed, then a tool     *)
(* that reports "wrote" wrote it: the identity, a next_node_id above every *)
(* node, and one file for each node with none left over from before, in a  *)
(* directory of any history and with any write before it failed.           *)
THEOREM WrittenDirectoryIsComplete == Spec /\ []PlanIsExact => []WroteIsComplete
<1>1. Init => IInv /\ AccountedInv /\ WrittenInv
  BY InitInv, InitWritten
<1>2. IInv /\ AccountedInv /\ WrittenInv /\ PlanIsExact /\ [Next]_vars
        => (IInv /\ AccountedInv /\ WrittenInv)'
  BY NextKeepsInv, NextAccounted, NextWritten
<1>3. AccountedInv /\ WrittenInv /\ PlanIsExact => WroteIsComplete
  BY WrittenIsComplete
<1>4. QED
  BY <1>1, <1>2, <1>3, PTL DEF Spec

-----------------------------------------------------------------------------
(* Reading the log of the store.  Nothing here is about what a commit does *)
(* to the data: apply_ops may be anything.                                 *)

(* Induction up to n, for a set: the numbers in it for which a fact holds. *)
LEMMA UpTo ==
    ASSUME NEW n \in Nat, NEW S, 0 \in S,
           \A i \in 0 .. n - 1 : i \in S => i + 1 \in S
    PROVE  \A i \in 0 .. n : i \in S
<1> DEFINE T == {i \in 0 .. n : i \notin S}
<1>1. T \in SUBSET Nat
  OBVIOUS
<1>2. CASE T = {}
  BY <1>2
<1>3. CASE T # {}
  <2>1. PICK i \in T : \A j \in T : i <= j
    <3> HIDE DEF T
    <3>1. QED
      BY <1>1, <1>3, LeastNatural
  <2>2. i \in 0 .. n /\ i \notin S /\ i # 0
    BY <2>1
  <2>3. i - 1 \in 0 .. n - 1 /\ i - 1 \in 0 .. n /\ ~(i <= i - 1)
    BY <2>2
  <2>4. i - 1 \in S
    BY <2>1, <2>3
  <2>5. (i - 1) + 1 \in S
    BY <2>3, <2>4
  <2>6. QED
    BY <2>2, <2>5
<1>4. QED
  BY <1>2, <1>3

(* f goes through the lines of a segment: from the result before it, one   *)
(* line after the other.                                                   *)
ReplaysLines(f, result, lines, s, after) ==
    f = [i \in 0 .. Len(lines) |->
            IF i = 0 THEN result
            ELSE replay_line(f[i - 1], lines[i], CommitId(s, i - 1), after)]

(* The same for the segments of a log.                                     *)
ReplaysFiles(f, files, data, after) ==
    f = [n \in 0 .. MaxSegments |->
            IF n = 0 THEN Ok(data)
            ELSE replay_file(f[n - 1], files[n - 1], n - 1, after)]

(* The recursion of replay_segment has a solution.                         *)
LEMMA LinesAreReplayed ==
    ASSUME NEW result, NEW lines, Len(lines) \in Nat, NEW s, NEW after
    PROVE  \E f : ReplaysLines(f, result, lines, s, after)
<1> DEFINE Step(r, i) == replay_line(r, lines[i], CommitId(s, i - 1), after)
           Upto(f, n) == f = [i \in 0 .. n |-> IF i = 0 THEN result ELSE Step(f[i - 1], i)]
           S == {n \in Nat : \E f : Upto(f, n)}
<1> HIDE DEF Step
<1>1. 0 \in S
  <2>1. \A i \in 0 .. 0 : i = 0
    OBVIOUS
  <2>2. Upto([i \in 0 .. 0 |-> result], 0)
    BY <2>1
  <2>3. QED
    BY <2>2
<1>2. ASSUME NEW n \in 0 .. Len(lines) - 1, n \in S
      PROVE  n + 1 \in S
  <2>1. n \in Nat
    OBVIOUS
  <2>2. PICK f : Upto(f, n)
    BY <1>2
  <2> DEFINE g == [i \in 0 .. n + 1 |-> IF i = n + 1 THEN Step(f[n], i) ELSE f[i]]
  <2>3. \A i \in 0 .. n : f[i] = IF i = 0 THEN result ELSE Step(f[i - 1], i)
    BY <2>2
  <2>4. ASSUME NEW i \in 0 .. n + 1
        PROVE  g[i] = IF i = 0 THEN result ELSE Step(g[i - 1], i)
    <3>1. CASE i = n + 1
      <4>1. i # 0 /\ n \in 0 .. n + 1 /\ n # n + 1 /\ i - 1 = n
        BY <2>1, <3>1
      <4>2. g[n] = f[n]
        BY <4>1
      <4>3. QED
        BY <3>1, <4>1, <4>2
    <3>2. CASE i = 0
      BY <2>1, <2>3, <3>2
    <3>3. CASE i # n + 1 /\ i # 0
      <4>1. i \in 0 .. n /\ i - 1 \in 0 .. n + 1 /\ i - 1 # n + 1
        BY <2>1, <3>3
      <4>2. g[i] = f[i] /\ g[i - 1] = f[i - 1]
        BY <3>3, <4>1
      <4>3. QED
        BY <2>3, <3>3, <4>1, <4>2
    <3>4. QED
      BY <3>1, <3>2, <3>3
  <2>5. Upto(g, n + 1)
    BY <2>4
  <2> HIDE DEF Upto
  <2>6. QED
    BY <2>1, <2>5
<1>3. Len(lines) \in S
  <2> HIDE DEF S
  <2>1. \A i \in 0 .. Len(lines) : i \in S
    BY <1>1, <1>2, UpTo
  <2>2. QED
    BY <2>1
<1>4. QED
  BY <1>3 DEF ReplaysLines, Step

(* replay_segment is where such an f ends.                                 *)
LEMMA SegmentTrace ==
    ASSUME NEW result, NEW file, Len(Lines(file)) \in Nat, NEW s, NEW after
    PROVE  \E f : /\ ReplaysLines(f, result, Lines(file), s, after)
                  /\ replay_segment(result, file, s, after) = f[Len(Lines(file))]
<1> DEFINE f == CHOOSE f : ReplaysLines(f, result, Lines(file), s, after)
<1>1. ReplaysLines(f, result, Lines(file), s, after)
  BY LinesAreReplayed
<1>2. replay_segment(result, file, s, after) = f[Len(Lines(file))]
  BY DEF replay_segment, ReplaysLines
<1>3. QED
  BY <1>1, <1>2

LEMMA FilesAreReplayed ==
    ASSUME NEW files, NEW data, NEW after
    PROVE  \E f : ReplaysFiles(f, files, data, after)
<1> DEFINE Step(r, i) == replay_file(r, files[i - 1], i - 1, after)
           Upto(f, n) == f = [i \in 0 .. n |-> IF i = 0 THEN Ok(data) ELSE Step(f[i - 1], i)]
           S == {n \in Nat : \E f : Upto(f, n)}
<1> HIDE DEF Step
<1>1. 0 \in S
  <2>1. \A i \in 0 .. 0 : i = 0
    OBVIOUS
  <2>2. Upto([i \in 0 .. 0 |-> Ok(data)], 0)
    BY <2>1
  <2>3. QED
    BY <2>2
<1>2. ASSUME NEW n \in 0 .. MaxSegments - 1, n \in S
      PROVE  n + 1 \in S
  <2>1. n \in Nat
    BY SegmentsAssumption
  <2>2. PICK f : Upto(f, n)
    BY <1>2
  <2> DEFINE g == [i \in 0 .. n + 1 |-> IF i = n + 1 THEN Step(f[n], i) ELSE f[i]]
  <2>3. \A i \in 0 .. n : f[i] = IF i = 0 THEN Ok(data) ELSE Step(f[i - 1], i)
    BY <2>2
  <2>4. ASSUME NEW i \in 0 .. n + 1
        PROVE  g[i] = IF i = 0 THEN Ok(data) ELSE Step(g[i - 1], i)
    <3>1. CASE i = n + 1
      <4>1. i # 0 /\ n \in 0 .. n + 1 /\ n # n + 1 /\ i - 1 = n
        BY <2>1, <3>1
      <4>2. g[n] = f[n]
        BY <4>1
      <4>3. QED
        BY <3>1, <4>1, <4>2
    <3>2. CASE i = 0
      BY <2>1, <2>3, <3>2
    <3>3. CASE i # n + 1 /\ i # 0
      <4>1. i \in 0 .. n /\ i - 1 \in 0 .. n + 1 /\ i - 1 # n + 1
        BY <2>1, <3>3
      <4>2. g[i] = f[i] /\ g[i - 1] = f[i - 1]
        BY <3>3, <4>1
      <4>3. QED
        BY <2>3, <3>3, <4>1, <4>2
    <3>4. QED
      BY <3>1, <3>2, <3>3
  <2>5. Upto(g, n + 1)
    BY <2>4
  <2> HIDE DEF Upto
  <2>6. QED
    BY <2>1, <2>5
<1>3. MaxSegments \in S
  <2> HIDE DEF S
  <2>1. \A i \in 0 .. MaxSegments : i \in S
    BY <1>1, <1>2, UpTo, SegmentsAssumption
  <2>2. QED
    BY <2>1, SegmentsAssumption
<1>4. QED
  BY <1>3 DEF ReplaysFiles, Step

LEMMA FilesTrace ==
    ASSUME NEW files, NEW data, NEW after
    PROVE  \E f : /\ ReplaysFiles(f, files, data, after)
                  /\ replay_files(files, data, after) = f[MaxSegments]
<1> DEFINE f == CHOOSE f : ReplaysFiles(f, files, data, after)
<1>1. ReplaysFiles(f, files, data, after)
  BY FilesAreReplayed
<1>2. replay_files(files, data, after) = f[MaxSegments]
  BY DEF replay_files, ReplaysFiles
<1>3. QED
  BY <1>1, <1>2

(* What the writer puts into a segment.                                    *)
LogLines == {Line(ops) : ops \in CommitOps \union FirstCommits} \union {Torn}

(* The values that f has to have.                                          *)
LEMMA LineSteps ==
    ASSUME NEW f, NEW result, NEW lines, NEW s, NEW after, NEW n \in Nat, n = Len(lines),
           ReplaysLines(f, result, lines, s, after)
    PROVE  /\ f[0] = result
           /\ \A i \in 0 .. n - 1 :
                f[i + 1] = replay_line(f[i], lines[i + 1], CommitId(s, i), after)
<1>1. \A i \in 0 .. n : f[i] = IF i = 0 THEN result
            ELSE replay_line(f[i - 1], lines[i], CommitId(s, i - 1), after)
  BY DEF ReplaysLines
<1>2. ASSUME NEW i \in 0 .. n - 1
      PROVE  f[i + 1] = replay_line(f[i], lines[i + 1], CommitId(s, i), after)
  <2>1. i + 1 \in 0 .. n /\ i + 1 # 0 /\ (i + 1) - 1 = i
    OBVIOUS
  <2>2. QED
    BY <1>1, <2>1
<1>3. f[0] = result
  BY <1>1
<1>4. QED
  BY <1>2, <1>3

LEMMA ReadLines ==
    ASSUME NEW lines \in Seq(LogLines)
    PROVE  LET read == Lines(File(lines))
           IN  /\ Len(read) = Len(lines) + 1 /\ read[Len(lines) + 1] = Blank
               /\ \A i \in 1 .. Len(lines) : read[i] = lines[i]
<1>1. Lines(File(lines)) = Append(lines, Blank)
  BY DEF Lines, File
<1>2. lines \in Seq(LogLines \union {Blank}) /\ Blank \in LogLines \union {Blank}
  <2>1. \A i \in 1 .. Len(lines) : lines[i] \in LogLines
    BY ElementOfSeq
  <2>2. QED
    BY <2>1
<1>3. QED
  BY <1>1, <1>2, AppendProperties

(* One more line at the end of a segment is one more step of the replay.   *)
LEMMA AppendedLine ==
    ASSUME NEW lines \in Seq(LogLines), NEW line \in LogLines, NEW result,
           NEW s, NEW after
    PROVE  replay_segment(result, File(Append(lines, line)), s, after)
             = replay_line(replay_segment(result, File(lines), s, after), line,
                           CommitId(s, Len(lines)), after)
<1> DEFINE longer == Append(lines, line)
           old == Lines(File(lines))
           new == Lines(File(longer))
<1>1. PICK n \in Nat : n = Len(lines)
  OBVIOUS
<1>2. /\ longer \in Seq(LogLines) /\ Len(longer) = n + 1 /\ longer[n + 1] = line
      /\ \A i \in 1 .. n : longer[i] = lines[i]
  BY <1>1, AppendProperties
<1> HIDE DEF longer
<1>3. Len(old) = n + 1 /\ old[n + 1] = Blank /\ \A i \in 1 .. n : old[i] = lines[i]
  BY <1>1, ReadLines
<1>4. /\ Len(new) = n + 2 /\ new[n + 2] = Blank /\ new[n + 1] = line
      /\ \A i \in 1 .. n : new[i] = lines[i]
  <2>1. /\ Len(new) = (n + 1) + 1 /\ new[(n + 1) + 1] = Blank
        /\ \A i \in 1 .. n + 1 : new[i] = longer[i]
    BY <1>2, ReadLines
  <2>2. QED
    BY <1>2, <2>1
<1>5. PICK f : /\ ReplaysLines(f, result, old, s, after)
               /\ replay_segment(result, File(lines), s, after) = f[n + 1]
  BY <1>3, SegmentTrace
<1>6. PICK g : /\ ReplaysLines(g, result, new, s, after)
               /\ replay_segment(result, File(longer), s, after) = g[n + 2]
  BY <1>4, SegmentTrace
<1> HIDE DEF old, new
<1>7. /\ f[0] = result
      /\ \A i \in 0 .. n : f[i + 1] = replay_line(f[i], old[i + 1], CommitId(s, i), after)
  BY <1>3, <1>5, LineSteps
<1>8. /\ g[0] = result
      /\ \A i \in 0 .. n + 1 : g[i + 1] = replay_line(g[i], new[i + 1], CommitId(s, i), after)
  BY <1>4, <1>6, LineSteps
<1>9. f[n] = g[n]
  <2> DEFINE S == {i \in 0 .. n : f[i] = g[i]}
  <2>1. 0 \in S
    BY <1>7, <1>8
  <2>2. ASSUME NEW i \in 0 .. n - 1, i \in S
        PROVE  i + 1 \in S
    <3>1. i \in 0 .. n /\ i \in 0 .. n + 1 /\ i + 1 \in 1 .. n /\ i + 1 \in 0 .. n
      OBVIOUS
    <3>2. old[i + 1] = new[i + 1]
      BY <1>3, <1>4, <3>1
    <3>3. QED
      BY <1>7, <1>8, <2>2, <3>1, <3>2
  <2> HIDE DEF S
  <2>3. \A i \in 0 .. n : i \in S
    BY <2>1, <2>2, UpTo
  <2>4. QED
    BY <2>3 DEF S
<1>10. f[n + 1] = f[n]
  BY <1>3, <1>7 DEF replay_line
<1>11. g[n + 1] = replay_line(g[n], line, CommitId(s, n), after)
  BY <1>4, <1>8
<1>12. g[n + 2] = g[n + 1]
  <2>1. n + 1 \in 0 .. n + 1 /\ (n + 1) + 1 = n + 2
    OBVIOUS
  <2>2. g[n + 2] = replay_line(g[n + 1], new[n + 2], CommitId(s, n + 1), after)
    BY <1>8, <2>1
  <2>3. QED
    BY <1>4, <2>2 DEF replay_line
<1>13. QED
  BY <1>1, <1>5, <1>6, <1>9, <1>10, <1>11, <1>12 DEF longer

(* Lines that the snapshot covers change nothing.                          *)
LEMMA CoveredLines ==
    ASSUME NEW lines \in Seq(LogLines), NEW result, NEW s, NEW after,
           \A i \in 1 .. Len(lines) : AtMost(CommitId(s, i - 1), after)
    PROVE  replay_segment(result, File(lines), s, after) = result
<1> DEFINE read == Lines(File(lines))
<1>1. PICK n \in Nat : n = Len(lines)
  OBVIOUS
<1>2. Len(read) = n + 1 /\ read[n + 1] = Blank
  BY <1>1, ReadLines
<1>3. PICK f : /\ ReplaysLines(f, result, read, s, after)
               /\ replay_segment(result, File(lines), s, after) = f[n + 1]
  BY <1>2, SegmentTrace
<1> HIDE DEF read
<1>4. /\ f[0] = result
      /\ \A i \in 0 .. n : f[i + 1] = replay_line(f[i], read[i + 1], CommitId(s, i), after)
  BY <1>2, <1>3, LineSteps
<1> DEFINE S == {i \in 0 .. n + 1 : f[i] = result}
<1>5. 0 \in S
  BY <1>4
<1>6. ASSUME NEW i \in 0 .. n, i \in S
      PROVE  i + 1 \in S
  <2>1. i + 1 \in 0 .. n + 1 /\ f[i + 1] = replay_line(f[i], read[i + 1], CommitId(s, i), after)
    BY <1>4
  <2>2. CASE i = n
    BY <1>2, <1>6, <2>1, <2>2 DEF replay_line
  <2>3. CASE i # n
    <3>1. i + 1 \in 1 .. Len(lines) /\ (i + 1) - 1 = i
      BY <1>1, <2>3
    <3>2. AtMost(CommitId(s, i), after)
      BY <3>1
    <3>3. QED
      BY <1>6, <2>1, <3>2 DEF replay_line
  <2>4. QED
    BY <2>2, <2>3
<1> HIDE DEF S
<1>7. \A i \in 0 .. n + 1 : i \in S
  <2>1. n + 1 \in Nat /\ 0 .. (n + 1) - 1 = 0 .. n
    OBVIOUS
  <2>2. \A i \in 0 .. (n + 1) - 1 : i \in S => i + 1 \in S
    BY <1>6, <2>1
  <2>3. QED
    BY <1>5, <2>1, <2>2, UpTo
<1>8. QED
  BY <1>3, <1>7 DEF S

LEMMA FileSteps ==
    ASSUME NEW f, NEW files, NEW data, NEW after, ReplaysFiles(f, files, data, after)
    PROVE  /\ f[0] = Ok(data)
           /\ \A s \in 0 .. MaxSegments - 1 :
                f[s + 1] = replay_file(f[s], files[s], s, after)
<1>1. \A n \in 0 .. MaxSegments : f[n] = IF n = 0 THEN Ok(data)
            ELSE replay_file(f[n - 1], files[n - 1], n - 1, after)
  BY DEF ReplaysFiles
<1>2. ASSUME NEW s \in 0 .. MaxSegments - 1
      PROVE  f[s + 1] = replay_file(f[s], files[s], s, after)
  <2>1. s + 1 \in 0 .. MaxSegments /\ s + 1 # 0 /\ (s + 1) - 1 = s
    BY SegmentsAssumption
  <2>2. QED
    BY <1>1, <2>1
<1>3. f[0] = Ok(data)
  BY <1>1, SegmentsAssumption
<1>4. QED
  BY <1>2, <1>3

(* Two logs whose files replay alike replay alike.                         *)
LEMMA SameReplay ==
    ASSUME NEW files, NEW new, NEW data, NEW after,
           \A s \in 0 .. MaxSegments - 1 : \A r :
                replay_file(r, new[s], s, after) = replay_file(r, files[s], s, after)
    PROVE  replay_files(new, data, after) = replay_files(files, data, after)
<1>1. PICK f : /\ ReplaysFiles(f, files, data, after)
               /\ replay_files(files, data, after) = f[MaxSegments]
  BY FilesTrace
<1>2. PICK g : /\ ReplaysFiles(g, new, data, after)
               /\ replay_files(new, data, after) = g[MaxSegments]
  BY FilesTrace
<1> DEFINE S == {n \in 0 .. MaxSegments : g[n] = f[n]}
<1>3. 0 \in S
  BY <1>1, <1>2, FileSteps, SegmentsAssumption
<1>4. ASSUME NEW n \in 0 .. MaxSegments - 1, n \in S
      PROVE  n + 1 \in S
  <2>1. /\ n + 1 \in 0 .. MaxSegments
        /\ f[n + 1] = replay_file(f[n], files[n], n, after)
        /\ g[n + 1] = replay_file(g[n], new[n], n, after)
    BY <1>1, <1>2, FileSteps, SegmentsAssumption
  <2>2. QED
    BY <1>4, <2>1
<1> HIDE DEF S
<1>5. \A n \in 0 .. MaxSegments : n \in S
  BY <1>3, <1>4, UpTo, SegmentsAssumption
<1>6. MaxSegments \in 0 .. MaxSegments
  BY SegmentsAssumption
<1>7. QED
  BY <1>1, <1>2, <1>5, <1>6 DEF S

(* A log that replays to nothing leaves the snapshot as it is.             *)
LEMMA NothingToReplay ==
    ASSUME NEW files, NEW data, NEW after,
           \A s \in 0 .. MaxSegments - 1 : \A r : replay_file(r, files[s], s, after) = r
    PROVE  replay_files(files, data, after) = Ok(data)
<1>1. PICK f : /\ ReplaysFiles(f, files, data, after)
               /\ replay_files(files, data, after) = f[MaxSegments]
  BY FilesTrace
<1> DEFINE S == {n \in 0 .. MaxSegments : f[n] = Ok(data)}
<1>2. 0 \in S
  BY <1>1, FileSteps, SegmentsAssumption
<1>3. ASSUME NEW n \in 0 .. MaxSegments - 1, n \in S
      PROVE  n + 1 \in S
  <2>1. n + 1 \in 0 .. MaxSegments /\ f[n + 1] = replay_file(f[n], files[n], n, after)
    BY <1>1, FileSteps, SegmentsAssumption
  <2>2. QED
    BY <1>3, <2>1
<1> HIDE DEF S
<1>4. \A n \in 0 .. MaxSegments : n \in S
  BY <1>2, <1>3, UpTo, SegmentsAssumption
<1>5. MaxSegments \in 0 .. MaxSegments
  BY SegmentsAssumption
<1>6. QED
  BY <1>1, <1>4, <1>5 DEF S

(* The last file of a log is replayed last, on a result that is the same   *)
(* whatever the file holds.                                                *)
DifferAtEnd(files, new, c) ==
    /\ c \in 0 .. MaxSegments - 1
    /\ \A s \in 0 .. MaxSegments - 1 : s # c => new[s] = files[s]
    /\ \A s \in c + 1 .. MaxSegments - 1 : ~Exists(files[s])

ReplayAtEnd(files, new, data, after, c) ==
    \E r : /\ replay_files(files, data, after) = replay_file(r, files[c], c, after)
           /\ replay_files(new, data, after) = replay_file(r, new[c], c, after)

LEMMA LastFile ==
    ASSUME NEW files, NEW other, NEW data, NEW after, NEW c, DifferAtEnd(files, other, c)
    PROVE  ReplayAtEnd(files, other, data, after, c)
<1>1. PICK f : ReplaysFiles(f, files, data, after)
  BY FilesTrace
<1>2. /\ c \in 0 .. MaxSegments - 1
      /\ \A s \in 0 .. MaxSegments - 1 : s # c => other[s] = files[s]
      /\ \A s \in c + 1 .. MaxSegments - 1 : ~Exists(files[s])
  BY DEF DifferAtEnd
<1>3. ASSUME NEW new, \A s \in 0 .. MaxSegments - 1 : s # c => new[s] = files[s]
      PROVE  replay_files(new, data, after) = replay_file(f[c], new[c], c, after)
  <2>1. PICK g : /\ ReplaysFiles(g, new, data, after)
                 /\ replay_files(new, data, after) = g[MaxSegments]
    BY FilesTrace
  <2>2. f[0] = Ok(data) /\ g[0] = Ok(data)
    BY <1>1, <2>1, FileSteps
  <2>3. \A s \in 0 .. MaxSegments - 1 : /\ f[s + 1] = replay_file(f[s], files[s], s, after)
                                        /\ g[s + 1] = replay_file(g[s], new[s], s, after)
    BY <1>1, <2>1, FileSteps
  <2> DEFINE S == {n \in 0 .. MaxSegments :
                      IF n <= c THEN g[n] = f[n]
                      ELSE g[n] = replay_file(f[c], new[c], c, after)}
  <2>4. 0 \in S
    BY <1>2, <2>2, SegmentsAssumption
  <2>5. ASSUME NEW n \in 0 .. MaxSegments - 1, n \in S
        PROVE  n + 1 \in S
    <3>1. n + 1 \in 0 .. MaxSegments /\ n \in Nat /\ c \in Nat
      BY <1>2, SegmentsAssumption
    <3>2. CASE n < c
      <4>1. n + 1 <= c /\ n <= c /\ n # c
        BY <3>1, <3>2
      <4>2. new[n] = files[n] /\ g[n] = f[n]
        BY <1>3, <2>5, <4>1
      <4>3. g[n + 1] = f[n + 1]
        BY <2>3, <4>2
      <4>4. QED
        BY <3>1, <4>1, <4>3
    <3>3. CASE n = c
      <4>1. ~(n + 1 <= c) /\ n <= c
        BY <3>1, <3>3
      <4>2. g[n + 1] = replay_file(f[c], new[c], c, after)
        BY <2>3, <2>5, <3>3, <4>1
      <4>3. QED
        BY <3>1, <4>1, <4>2
    <3>4. CASE n > c
      <4>1. ~(n + 1 <= c) /\ ~(n <= c) /\ n # c /\ n \in c + 1 .. MaxSegments - 1
        BY <3>1, <3>4, SegmentsAssumption
      <4>2. ~Exists(new[n])
        BY <1>3, <1>2, <4>1
      <4>3. g[n + 1] = g[n]
        BY <2>3, <4>2 DEF replay_file
      <4>4. QED
        BY <2>5, <3>1, <4>1, <4>3
    <3>5. QED
      BY <3>1, <3>2, <3>3, <3>4
  <2>6. MaxSegments \in 0 .. MaxSegments /\ ~(MaxSegments <= c)
    BY <1>2, SegmentsAssumption
  <2>7. MaxSegments \in S
    <3> HIDE DEF S
    <3>1. \A n \in 0 .. MaxSegments : n \in S
      BY <2>4, <2>5, UpTo, SegmentsAssumption
    <3>2. QED
      BY <2>6, <3>1
  <2>8. QED
    BY <2>1, <2>6, <2>7
<1>4. replay_files(files, data, after) = replay_file(f[c], files[c], c, after)
  BY <1>3
<1>5. replay_files(other, data, after) = replay_file(f[c], other[c], c, after)
  BY <1>3, <1>2
<1>6. QED
  BY <1>4, <1>5 DEF ReplayAtEnd

-----------------------------------------------------------------------------
(* The files of the store while matter.js writes them.                     *)

IsLogFile(file) == Exists(file) => file = File(file[2]) /\ file[2] \in Seq(LogLines)

(* The files that are read of the segments segs.                           *)
FilesOf(segs) ==
    [s \in 0 .. MaxSegments - 1 |-> IF Exists(segs[s].gz) THEN segs[s].gz ELSE segs[s].plain]

(* Segments are files of lines, and twins are equal.                       *)
SegmentsAreFiles(segs) ==
    /\ segs = [s \in 0 .. MaxSegments - 1 |-> [plain |-> segs[s].plain, gz |-> segs[s].gz]]
    /\ \A s \in 0 .. MaxSegments - 1 :
        /\ IsLogFile(segs[s].plain) /\ IsLogFile(segs[s].gz)
        /\ Exists(segs[s].plain) /\ Exists(segs[s].gz) => segs[s].gz = segs[s].plain

(* The segment c is written, has no twin, and is the last.                 *)
EndsIn(segs, c) ==
    /\ c \in 0 .. MaxSegments - 1 /\ Exists(segs[c].plain) /\ ~Exists(segs[c].gz)
    /\ \A s \in c + 1 .. MaxSegments - 1 :
            ~Exists(segs[s].plain) /\ ~Exists(segs[s].gz)

(* The next line comes after what the snapshot covers, and the segment in  *)
(* which it ends, or a later one, still has a line.                        *)
Continues(segs, after, c) ==
    /\ after.segment \in Int /\ after.offset \in Int /\ after.segment <= c
    /\ after.segment = c => after.offset < Len(segs[c].plain[2])
    /\ \E s \in 0 .. c : /\ s >= after.segment /\ Exists(FilesOf(segs)[s])
                         /\ FilesOf(segs)[s][2] # <<>>

LogInv(segs, after, c) == SegmentsAreFiles(segs) /\ EndsIn(segs, c) /\ Continues(segs, after, c)

IsSnapshot(file) ==
    Exists(file) =>
        /\ file = File([commit_id |-> file[2].commit_id, data |-> file[2].data,
                         mtime |-> file[2].mtime])
        /\ file[2].mtime \in Nat \ {0}

(* No two snapshots are of the same time.                                  *)
SnapshotsInv(snaps) ==
    /\ snaps = [gz |-> snaps.gz, plain |-> snaps.plain]
    /\ IsSnapshot(snaps.gz) /\ IsSnapshot(snaps.plain)
    /\ Exists(snaps.gz) /\ Exists(snaps.plain) => snaps.gz[2].mtime # snaps.plain[2].mtime

TornIn(files, after) ==
    \E s \in 0 .. MaxSegments - 1 :
        /\ Exists(files[s])
        /\ \E i \in DOMAIN files[s][2] :
            files[s][2][i] = Torn /\ ~AtMost(CommitId(s, i - 1), after)

(* The replay of files over a snapshot of data comes to what is committed. *)
Exact(files, data, after, result) ==
    replay_files(files, data, after) = IF TornIn(files, after) THEN Err ELSE Ok(result)

(* What the reader loads of the snapshots snaps.                           *)
Loaded(snaps) == ParsedSnapshot(ChosenSnapshot(snaps.gz, snaps.plain))

(* Segments and snapshots from which result is read.                       *)
StoreHolds(segs, snaps, result) ==
    /\ SnapshotsInv(snaps)
    /\ \E c \in 0 .. MaxSegments - 1 : LogInv(segs, Loaded(snaps).after, c)
    /\ Exact(FilesOf(segs), Loaded(snaps).data, Loaded(snaps).after, result)

StoreInv == StoreHolds(segments, snapshots, committed)

(* The reader and the writer see the same log.                             *)
LEMMA FilesAre == list_wal_segments = FilesOf(segments)
  BY DEF list_wal_segments, FilesOf

LEMMA CurrentIs ==
    ASSUME NEW c, SegmentsAreFiles(segments), EndsIn(segments, c)
    PROVE  Current = c
<1>1. DOMAIN segments = 0 .. MaxSegments - 1
  BY DEF SegmentsAreFiles
<1>2. c \in DOMAIN segments /\ Exists(segments[c].plain)
  BY <1>1 DEF EndsIn
<1>3. \A t \in DOMAIN segments : Exists(segments[t].plain) => t <= c
  BY <1>1, SegmentsAssumption DEF EndsIn
<1>4. ASSUME NEW s \in DOMAIN segments,
             \A t \in DOMAIN segments : Exists(segments[t].plain) => t <= s,
             Exists(segments[s].plain)
      PROVE  s = c
  <2>1. c <= s /\ s <= c
    BY <1>2, <1>3, <1>4
  <2>2. s \in Int /\ c \in Int
    BY <1>1, <1>2
  <2>3. QED
    BY <2>1, <2>2
<1>5. QED
  BY <1>2, <1>3, <1>4 DEF Current

LEMMA FileIsLog ==
    ASSUME NEW segs, SegmentsAreFiles(segs), NEW s \in 0 .. MaxSegments - 1,
           Exists(FilesOf(segs)[s])
    PROVE  FilesOf(segs)[s] = File(FilesOf(segs)[s][2]) /\ FilesOf(segs)[s][2] \in Seq(LogLines)
  BY DEF SegmentsAreFiles, FilesOf, IsLogFile

(* One more line in the last segment.                                      *)
LineAdded(segs, c, line) == [segs EXCEPT ![c].plain = File(Append(@[2], line))]

LEMMA AppendLog ==
    ASSUME NEW segs, NEW after, NEW c, LogInv(segs, after, c), NEW line \in LogLines,
           NEW new, new = LineAdded(segs, c, line)
    PROVE  /\ LogInv(new, after, c)
           /\ FilesOf(segs)[c] = File(segs[c].plain[2]) /\ segs[c].plain[2] \in Seq(LogLines)
           /\ FilesOf(new)[c] = File(Append(segs[c].plain[2], line))
           /\ \A s \in 0 .. MaxSegments - 1 : s # c => FilesOf(new)[s] = FilesOf(segs)[s]
<1>1. PICK lines : lines = segs[c].plain[2]
  OBVIOUS
<1>2. c \in 0 .. MaxSegments - 1 /\ Exists(segs[c].plain) /\ ~Exists(segs[c].gz)
  BY DEF LogInv, EndsIn
<1>3. lines \in Seq(LogLines) /\ segs[c].plain = File(lines)
  BY <1>1, <1>2 DEF LogInv, SegmentsAreFiles, IsLogFile
<1>4. /\ Append(lines, line) \in Seq(LogLines) /\ Len(Append(lines, line)) = Len(lines) + 1
      /\ Append(lines, line) # <<>>
  BY <1>3, AppendProperties
<1>5. /\ new = [s \in 0 .. MaxSegments - 1 |-> new[s]]
      /\ new[c] = [plain |-> File(Append(lines, line)), gz |-> segs[c].gz]
      /\ \A s \in 0 .. MaxSegments - 1 : s # c => new[s] = segs[s]
  <2>1. PICK file : file = File(Append(lines, line))
    OBVIOUS
  <2>2. new = [segs EXCEPT ![c].plain = file]
    BY <1>1, <2>1 DEF LineAdded
  <2>3. DOMAIN segs = 0 .. MaxSegments - 1
    BY DEF LogInv, SegmentsAreFiles
  <2>4. segs[c] = [plain |-> segs[c].plain, gz |-> segs[c].gz]
    BY <1>2 DEF LogInv, SegmentsAreFiles
  <2>5. /\ new = [s \in 0 .. MaxSegments - 1 |-> new[s]]
        /\ new[c] = [segs[c] EXCEPT !.plain = file]
        /\ \A s \in 0 .. MaxSegments - 1 : s # c => new[s] = segs[s]
    BY <1>2, <2>2, <2>3
  <2>6. new[c] = [plain |-> file, gz |-> segs[c].gz]
    BY <2>4, <2>5
  <2>7. QED
    BY <2>1, <2>5, <2>6
<1>6. new[c].plain = File(Append(lines, line)) /\ new[c].gz = segs[c].gz
  BY <1>5
<1>7. Exists(File(Append(lines, line))) /\ File(Append(lines, line))[2] = Append(lines, line)
  BY DEF Exists, File, NoFile
<1>8. SegmentsAreFiles(new)
  <2>1. \A s \in 0 .. MaxSegments - 1 : new[s] = [plain |-> new[s].plain, gz |-> new[s].gz]
    BY <1>5 DEF LogInv, SegmentsAreFiles
  <2>2. IsLogFile(new[c].plain) /\ IsLogFile(new[c].gz) /\ ~Exists(new[c].gz)
    BY <1>2, <1>4, <1>6, <1>7 DEF IsLogFile
  <2>3. QED
    BY <1>5, <2>1, <2>2 DEF LogInv, SegmentsAreFiles
<1>9. EndsIn(new, c)
  <2>1. \A s \in c + 1 .. MaxSegments - 1 : s \in 0 .. MaxSegments - 1 /\ s # c
    BY <1>2, SegmentsAssumption
  <2>2. \A s \in c + 1 .. MaxSegments - 1 : ~Exists(new[s].plain) /\ ~Exists(new[s].gz)
    BY <1>5, <2>1 DEF LogInv, EndsIn
  <2>3. QED
    BY <1>2, <1>6, <1>7, <2>2 DEF EndsIn
<1>10. /\ FilesOf(new)[c] = File(Append(lines, line)) /\ FilesOf(segs)[c] = File(lines)
      /\ \A s \in 0 .. MaxSegments - 1 : s # c => FilesOf(new)[s] = FilesOf(segs)[s]
  BY <1>2, <1>3, <1>5 DEF FilesOf
<1>11. Continues(new, after, c)
  <2>1. after.segment \in Int /\ after.offset \in Int /\ after.segment <= c
    BY DEF LogInv, Continues
  <2>2. after.segment = c => after.offset < Len(new[c].plain[2])
    <3>1. after.segment = c => after.offset < Len(lines)
      BY <1>1 DEF LogInv, Continues
    <3>2. new[c].plain[2] = Append(lines, line) /\ Len(lines) \in Nat
      BY <1>3, <1>6, <1>7
    <3>3. QED
      BY <1>4, <2>1, <3>1, <3>2
  <2>3. c \in 0 .. c /\ c >= after.segment
    BY <1>2, <2>1
  <2>4. Exists(FilesOf(new)[c]) /\ FilesOf(new)[c][2] # <<>>
    BY <1>4, <1>7, <1>10
  <2>5. QED
    BY <2>1, <2>2, <2>3, <2>4 DEF Continues
<1>12. QED
  BY <1>1, <1>3, <1>8, <1>9, <1>10, <1>11 DEF LogInv

(* A segment of the log gets other files.                                  *)
Refiled(segs, k, plain, gz) == [segs EXCEPT ![k] = [plain |-> plain, gz |-> gz]]

LEMMA OtherFiles ==
    ASSUME NEW segs, SegmentsAreFiles(segs), NEW k \in 0 .. MaxSegments - 1,
           NEW plain, NEW gz, IsLogFile(plain), IsLogFile(gz),
           Exists(plain) /\ Exists(gz) => gz = plain,
           NEW new, new = Refiled(segs, k, plain, gz)
    PROVE  /\ SegmentsAreFiles(new) /\ new[k] = [plain |-> plain, gz |-> gz]
           /\ \A s \in 0 .. MaxSegments - 1 : s # k => new[s] = segs[s]
           /\ FilesOf(new)[k] = IF Exists(gz) THEN gz ELSE plain
           /\ \A s \in 0 .. MaxSegments - 1 : s # k => FilesOf(new)[s] = FilesOf(segs)[s]
<1>1. DOMAIN segs = 0 .. MaxSegments - 1
  BY DEF SegmentsAreFiles
<1>2. /\ new = [s \in 0 .. MaxSegments - 1 |-> new[s]]
      /\ new[k] = [plain |-> plain, gz |-> gz]
      /\ \A s \in 0 .. MaxSegments - 1 : s # k => new[s] = segs[s]
  BY <1>1 DEF Refiled
<1>3. \A s \in 0 .. MaxSegments - 1 : new[s] = [plain |-> new[s].plain, gz |-> new[s].gz]
  BY <1>2 DEF SegmentsAreFiles
<1>4. new[k].plain = plain /\ new[k].gz = gz
  BY <1>2
<1>5. SegmentsAreFiles(new)
  BY <1>2, <1>3, <1>4 DEF SegmentsAreFiles
<1>6. QED
  BY <1>2, <1>4, <1>5 DEF FilesOf

(* The next segment, still empty.                                          *)
LEMMA RotateLog ==
    ASSUME NEW segs, NEW after, NEW c, LogInv(segs, after, c), c + 1 < MaxSegments,
           Len(segs[c].plain[2]) > 0,
           NEW new, new = Refiled(segs, c + 1, File(<<>>), segs[c + 1].gz)
    PROVE  /\ LogInv(new, after, c + 1)
           /\ ~Exists(FilesOf(segs)[c + 1]) /\ FilesOf(new)[c + 1] = File(<<>>)
           /\ \A s \in 0 .. MaxSegments - 1 : s # c + 1 => FilesOf(new)[s] = FilesOf(segs)[s]
<1>1. /\ c \in 0 .. MaxSegments - 1 /\ c + 1 \in 0 .. MaxSegments - 1 /\ c # c + 1
      /\ c + 1 \in c + 1 .. MaxSegments - 1
  BY SegmentsAssumption DEF LogInv, EndsIn
<1>2. Exists(segs[c].plain) /\ ~Exists(segs[c].gz)
  BY DEF LogInv, EndsIn
<1>3. ~Exists(segs[c + 1].plain) /\ ~Exists(segs[c + 1].gz)
  BY <1>1 DEF LogInv, EndsIn
<1>4. Exists(File(<<>>)) /\ File(<<>>)[2] = <<>> /\ IsLogFile(File(<<>>))
  BY DEF Exists, File, NoFile, IsLogFile
<1>5. IsLogFile(segs[c + 1].gz) /\ SegmentsAreFiles(segs)
  BY <1>1 DEF LogInv, SegmentsAreFiles
<1>6. /\ SegmentsAreFiles(new) /\ new[c + 1] = [plain |-> File(<<>>), gz |-> segs[c + 1].gz]
      /\ \A s \in 0 .. MaxSegments - 1 : s # c + 1 => new[s] = segs[s]
      /\ FilesOf(new)[c + 1] = File(<<>>)
      /\ \A s \in 0 .. MaxSegments - 1 : s # c + 1 => FilesOf(new)[s] = FilesOf(segs)[s]
  <2>1. PICK k, plain, gz : k = c + 1 /\ plain = File(<<>>) /\ gz = segs[c + 1].gz
    OBVIOUS
  <2>2. k \in 0 .. MaxSegments - 1 /\ new = Refiled(segs, k, plain, gz)
    BY <1>1, <2>1
  <2>3. /\ IsLogFile(plain) /\ IsLogFile(gz) /\ ~Exists(gz) /\ SegmentsAreFiles(segs)
        /\ Exists(plain) /\ Exists(gz) => gz = plain
    BY <1>3, <1>4, <1>5, <2>1
  <2>4. /\ SegmentsAreFiles(new) /\ new[k] = [plain |-> plain, gz |-> gz]
        /\ \A s \in 0 .. MaxSegments - 1 : s # k => new[s] = segs[s]
        /\ FilesOf(new)[k] = IF Exists(gz) THEN gz ELSE plain
        /\ \A s \in 0 .. MaxSegments - 1 : s # k => FilesOf(new)[s] = FilesOf(segs)[s]
    BY <2>2, <2>3, OtherFiles
  <2>5. QED
    BY <2>1, <2>3, <2>4
<1>7. EndsIn(new, c + 1)
  <2>1. Exists(new[c + 1].plain) /\ ~Exists(new[c + 1].gz)
    BY <1>3, <1>4, <1>6
  <2>2. ASSUME NEW s \in (c + 1) + 1 .. MaxSegments - 1
        PROVE  ~Exists(new[s].plain) /\ ~Exists(new[s].gz)
    <3>1. s \in c + 1 .. MaxSegments - 1 /\ s \in 0 .. MaxSegments - 1 /\ s # c + 1
      BY <1>1, SegmentsAssumption
    <3>2. QED
      BY <1>6, <3>1 DEF LogInv, EndsIn
  <2>3. QED
    BY <1>1, <2>1, <2>2 DEF EndsIn
<1>8. Continues(new, after, c + 1)
  <2>1. after.segment \in Int /\ after.offset \in Int /\ after.segment <= c
    BY DEF LogInv, Continues
  <2>2. after.segment <= c + 1 /\ after.segment # c + 1 /\ c \in 0 .. c + 1 /\ c >= after.segment
    BY <1>1, <2>1
  <2>3. FilesOf(new)[c] = segs[c].plain
    BY <1>1, <1>2, <1>6 DEF FilesOf
  <2>4. segs[c].plain[2] # <<>>
    OBVIOUS
  <2>5. QED
    BY <1>2, <2>1, <2>2, <2>3, <2>4 DEF Continues
<1>9. QED
  BY <1>1, <1>3, <1>6, <1>7, <1>8 DEF LogInv, FilesOf

(* Files of an earlier segment change, and what is read of the log past    *)
(* the snapshot does not.                                                  *)
LEMMA EarlierFiles ==
    ASSUME NEW segs, NEW after, NEW c, LogInv(segs, after, c),
           NEW k \in 0 .. MaxSegments - 1, k < c, NEW plain, NEW gz,
           IsLogFile(plain), IsLogFile(gz), Exists(plain) /\ Exists(gz) => gz = plain,
           k < after.segment \/ (IF Exists(gz) THEN gz ELSE plain) = FilesOf(segs)[k],
           NEW new, new = Refiled(segs, k, plain, gz)
    PROVE  /\ LogInv(new, after, c)
           /\ FilesOf(new)[k] = IF Exists(gz) THEN gz ELSE plain
           /\ \A s \in 0 .. MaxSegments - 1 : s # k => FilesOf(new)[s] = FilesOf(segs)[s]
<1>1. SegmentsAreFiles(segs) /\ c \in 0 .. MaxSegments - 1
  BY DEF LogInv, EndsIn
<1>2. /\ SegmentsAreFiles(new) /\ new[k] = [plain |-> plain, gz |-> gz]
      /\ \A s \in 0 .. MaxSegments - 1 : s # k => new[s] = segs[s]
      /\ FilesOf(new)[k] = IF Exists(gz) THEN gz ELSE plain
      /\ \A s \in 0 .. MaxSegments - 1 : s # k => FilesOf(new)[s] = FilesOf(segs)[s]
  BY <1>1, OtherFiles
<1>3. EndsIn(new, c)
  <2>1. k # c /\ \A s \in c + 1 .. MaxSegments - 1 : s # k /\ s \in 0 .. MaxSegments - 1
    BY <1>1, SegmentsAssumption
  <2>2. QED
    BY <1>1, <1>2, <2>1 DEF LogInv, EndsIn
<1>4. Continues(new, after, c)
  <2>1. after.segment \in Int /\ after.offset \in Int /\ after.segment <= c
    BY DEF LogInv, Continues
  <2>2. new[c] = segs[c]
    BY <1>1, <1>2
  <2>3. PICK s \in 0 .. c : /\ s >= after.segment /\ Exists(FilesOf(segs)[s])
                           /\ FilesOf(segs)[s][2] # <<>>
    BY DEF LogInv, Continues
  <2>4. FilesOf(new)[s] = FilesOf(segs)[s]
    <3>1. s \in 0 .. MaxSegments - 1
      BY <1>1, SegmentsAssumption
    <3>2. CASE s # k
      BY <1>2, <3>1, <3>2
    <3>3. CASE s = k
      BY <1>2, <2>1, <2>3, <3>3
    <3>4. QED
      BY <3>2, <3>3
  <2>5. QED
    BY <2>1, <2>2, <2>3, <2>4 DEF LogInv, Continues
<1>5. QED
  BY <1>2, <1>3, <1>4 DEF LogInv

LEMMA LoadedIs ==
    load_snapshot = IF IsHalf(ChosenSnapshot(snapshots.gz, snapshots.plain)) THEN Err
                    ELSE Ok(Loaded(snapshots))
  BY DEF load_snapshot, Loaded

LEMMA TakenAre ==
    ASSUME SnapshotsInv(snapshots)
    PROVE  \A snap : snap \in SnapshotsTaken <=>
                \/ Exists(snapshots.gz) /\ snap = snapshots.gz[2]
                \/ Exists(snapshots.plain) /\ snap = snapshots.plain[2]
  BY DEF SnapshotsTaken, SnapshotsInv

LEMMA NewestIs ==
    ASSUME SnapshotsInv(snapshots)
    PROVE  /\ Newest \in Nat
           /\ Newest = 0 \/ \E snap \in SnapshotsTaken : snap.mtime = Newest
           /\ \A snap \in SnapshotsTaken : snap.mtime \in Nat \ {0} /\ snap.mtime <= Newest
<1> DEFINE T == {0} \union {snap.mtime : snap \in SnapshotsTaken}
<1>1. \A snap \in SnapshotsTaken : snap.mtime \in Nat \ {0}
  BY TakenAre DEF SnapshotsInv, IsSnapshot
<1>2. \E t \in T : \A snap \in SnapshotsTaken : snap.mtime <= t
  <2>1. CASE SnapshotsTaken = {}
    BY <2>1
  <2>2. CASE \E a \in SnapshotsTaken : \A b \in SnapshotsTaken : b = a
    <3>1. PICK a \in SnapshotsTaken : \A b \in SnapshotsTaken : b = a
      BY <2>2
    <3>2. a.mtime \in T /\ a.mtime <= a.mtime
      BY <1>1, <3>1
    <3>3. QED
      BY <3>1, <3>2
  <2>3. CASE \E a, b \in SnapshotsTaken : \A x \in SnapshotsTaken : x = a \/ x = b
    <3>1. PICK a \in SnapshotsTaken, b \in SnapshotsTaken :
                \A x \in SnapshotsTaken : x = a \/ x = b
      BY <2>3
    <3>2. a.mtime \in T /\ b.mtime \in T /\ a.mtime \in Nat /\ b.mtime \in Nat
      BY <1>1, <3>1
    <3>3. CASE a.mtime <= b.mtime
      <4>1. \A x \in SnapshotsTaken : x.mtime <= b.mtime
        BY <3>1, <3>2, <3>3
      <4>2. QED
        BY <3>2, <4>1
    <3>4. CASE b.mtime <= a.mtime
      <4>1. \A x \in SnapshotsTaken : x.mtime <= a.mtime
        BY <3>1, <3>2, <3>4
      <4>2. QED
        BY <3>2, <4>1
    <3>5. QED
      BY <3>2, <3>3, <3>4
  <2>4. CASE ~Exists(snapshots.gz) /\ ~Exists(snapshots.plain)
    BY <2>1, <2>4, TakenAre
  <2>5. CASE Exists(snapshots.gz) /\ ~Exists(snapshots.plain)
    <3>1. snapshots.gz[2] \in SnapshotsTaken
      BY <2>5, TakenAre
    <3>2. \A b \in SnapshotsTaken : b = snapshots.gz[2]
      BY <2>5, TakenAre
    <3>3. QED
      BY <2>2, <3>1, <3>2
  <2>6. CASE ~Exists(snapshots.gz) /\ Exists(snapshots.plain)
    <3>1. snapshots.plain[2] \in SnapshotsTaken
      BY <2>6, TakenAre
    <3>2. \A b \in SnapshotsTaken : b = snapshots.plain[2]
      BY <2>6, TakenAre
    <3>3. QED
      BY <2>2, <3>1, <3>2
  <2>7. CASE Exists(snapshots.gz) /\ Exists(snapshots.plain)
    <3>1. snapshots.gz[2] \in SnapshotsTaken /\ snapshots.plain[2] \in SnapshotsTaken
      BY <2>7, TakenAre
    <3>2. \A x \in SnapshotsTaken : x = snapshots.gz[2] \/ x = snapshots.plain[2]
      BY <2>7, TakenAre
    <3>3. QED
      BY <2>3, <3>1, <3>2
  <2>8. QED
    BY <2>4, <2>5, <2>6, <2>7
<1>3. Newest \in T /\ \A snap \in SnapshotsTaken : snap.mtime <= Newest
  BY <1>2 DEF Newest
<1>4. QED
  BY <1>1, <1>3

(* The writer prunes by the snapshot that the reader would load.           *)
LEMMA CoveredIs ==
    ASSUME SnapshotsInv(snapshots)
    PROVE  Covered = Loaded(snapshots).after
<1> DEFINE gz == snapshots.gz
           plain == snapshots.plain
<1>1. CASE SnapshotsTaken = {}
  <2>1. ~Exists(gz) /\ ~Exists(plain)
    BY <1>1, TakenAre
  <2>2. QED
    BY <1>1, <2>1 DEF Covered, Loaded, ParsedSnapshot, ChosenSnapshot
<1>2. CASE SnapshotsTaken # {}
  <2>1. \E snap \in SnapshotsTaken : snap.mtime = Newest
    BY <1>2, NewestIs
  <2>2. PICK snap : /\ snap = CHOOSE x \in SnapshotsTaken : x.mtime = Newest
                    /\ snap \in SnapshotsTaken /\ snap.mtime = Newest
    BY <2>1
  <2>3. Covered = snap.commit_id
    BY <1>2, <2>2 DEF Covered
  <2>4. CASE Exists(gz) /\ Exists(plain)
    <3>1. /\ gz[2] \in SnapshotsTaken /\ plain[2] \in SnapshotsTaken
          /\ snap = gz[2] \/ snap = plain[2]
      BY <2>2, <2>4, TakenAre
    <3>2. /\ gz[2].mtime \in Nat /\ plain[2].mtime \in Nat
          /\ gz[2].mtime <= snap.mtime /\ plain[2].mtime <= snap.mtime
          /\ gz[2].mtime # plain[2].mtime
      BY <2>2, <2>4, <3>1, NewestIs DEF SnapshotsInv
    <3>3. CASE snap = plain[2]
      <4>1. plain[2].mtime > gz[2].mtime
        BY <3>2, <3>3
      <4>2. QED
        BY <2>3, <2>4, <3>3, <4>1 DEF Loaded, ParsedSnapshot, ChosenSnapshot
    <3>4. CASE snap = gz[2]
      <4>1. ~(plain[2].mtime > gz[2].mtime)
        BY <3>2, <3>4
      <4>2. QED
        BY <2>3, <2>4, <3>4, <4>1 DEF Loaded, ParsedSnapshot, ChosenSnapshot
    <3>5. QED
      BY <3>1, <3>3, <3>4
  <2>5. CASE Exists(gz) /\ ~Exists(plain)
    BY <2>2, <2>3, <2>5, TakenAre DEF Loaded, ParsedSnapshot, ChosenSnapshot
  <2>6. CASE ~Exists(gz) /\ Exists(plain)
    BY <2>2, <2>3, <2>6, TakenAre DEF Loaded, ParsedSnapshot, ChosenSnapshot
  <2>7. QED
    BY <1>2, <2>4, <2>5, <2>6, TakenAre
<1>3. QED
  BY <1>1, <1>2

(* The snapshot that the reader chooses is the newest.                     *)
LEMMA ChosenIsNewest ==
    ASSUME SnapshotsInv(snapshots), NEW chosen,
           chosen = ChosenSnapshot(snapshots.gz, snapshots.plain)
    PROVE  /\ Exists(chosen) <=> SnapshotsTaken # {}
           /\ Exists(chosen) => chosen[2].mtime = Newest
<1> DEFINE gz == snapshots.gz
           plain == snapshots.plain
<1>1. Exists(chosen) <=> Exists(gz) \/ Exists(plain)
  BY DEF ChosenSnapshot
<1>2. Exists(gz) \/ Exists(plain) <=> SnapshotsTaken # {}
  BY TakenAre
<1>3. ASSUME Exists(chosen)
      PROVE  /\ chosen[2] \in SnapshotsTaken
             /\ \A snap \in SnapshotsTaken : snap.mtime <= chosen[2].mtime
  <2>1. CASE Exists(gz) /\ Exists(plain)
    <3>1. gz[2].mtime \in Nat /\ plain[2].mtime \in Nat
      BY <2>1, TakenAre, NewestIs
    <3>2. CASE plain[2].mtime > gz[2].mtime
      BY <2>1, <3>1, <3>2, TakenAre DEF ChosenSnapshot
    <3>3. CASE ~(plain[2].mtime > gz[2].mtime)
      BY <2>1, <3>1, <3>3, TakenAre DEF ChosenSnapshot
    <3>4. QED
      BY <3>2, <3>3
  <2>2. CASE Exists(gz) /\ ~Exists(plain)
    BY <2>2, TakenAre, NewestIs DEF ChosenSnapshot
  <2>3. CASE ~Exists(gz) /\ Exists(plain)
    BY <2>3, TakenAre, NewestIs DEF ChosenSnapshot
  <2>4. QED
    BY <1>1, <1>3, <2>1, <2>2, <2>3
<1>4. ASSUME Exists(chosen)
      PROVE  chosen[2].mtime = Newest
  <2>1. PICK c : c = chosen[2]
    OBVIOUS
  <2>2. c \in SnapshotsTaken /\ \A snap \in SnapshotsTaken : snap.mtime <= c.mtime
    BY <1>3, <1>4, <2>1
  <2>3. PICK n : n = Newest
    OBVIOUS
  <2>4. /\ n \in Nat /\ c.mtime \in Nat \ {0} /\ c.mtime <= n
        /\ n = 0 \/ \E snap \in SnapshotsTaken : snap.mtime = n
    BY <2>2, <2>3, NewestIs
  <2>5. c.mtime = n
    BY <2>2, <2>4
  <2>6. QED
    BY <2>1, <2>3, <2>5
<1>5. QED
  BY <1>1, <1>2, <1>4

(* A new snapshot is the one that is loaded.                               *)
SnapshotFile(id, data, m) == File([commit_id |-> id, data |-> data, mtime |-> m])

WithSnapshot(snaps, k, file) == [snaps EXCEPT ![k] = file]

LEMMA NewSnapshot ==
    ASSUME NEW snaps, SnapshotsInv(snaps), NEW k \in {"gz", "plain"}, NEW id, NEW data,
           NEW m \in Nat \ {0},
           \A j \in {"gz", "plain"} : Exists(snaps[j]) => snaps[j][2].mtime < m,
           NEW file, file = SnapshotFile(id, data, m),
           NEW new, new = WithSnapshot(snaps, k, file)
    PROVE  SnapshotsInv(new) /\ Loaded(new) = [data |-> data, after |-> id]
<1>1. Exists(file) /\ file[2] = [commit_id |-> id, data |-> data, mtime |-> m]
  BY DEF Exists, File, NoFile, SnapshotFile
<1>2. file[2].commit_id = id /\ file[2].data = data /\ file[2].mtime = m
  BY <1>1
<1>3. IsSnapshot(file)
  BY <1>1, <1>2 DEF IsSnapshot, SnapshotFile, File
<1>4. /\ snaps = [gz |-> snaps.gz, plain |-> snaps.plain]
      /\ IsSnapshot(snaps.gz) /\ IsSnapshot(snaps.plain)
      /\ Exists(snaps.gz) => snaps.gz[2].mtime < m /\ snaps.gz[2].mtime \in Nat
      /\ Exists(snaps.plain) => snaps.plain[2].mtime < m /\ snaps.plain[2].mtime \in Nat
  BY DEF SnapshotsInv, IsSnapshot
<1>5. CASE k = "gz"
  <2>1. new = [gz |-> file, plain |-> snaps.plain]
    BY <1>4, <1>5 DEF WithSnapshot
  <2>2. new.gz = file /\ new.plain = snaps.plain
    BY <2>1
  <2>3. Exists(new.plain) => /\ new.gz[2].mtime # new.plain[2].mtime
                             /\ ~(new.plain[2].mtime > new.gz[2].mtime)
    BY <1>2, <1>4, <2>2
  <2>4. SnapshotsInv(new)
    BY <1>3, <1>4, <2>1, <2>2, <2>3 DEF SnapshotsInv
  <2>5. ChosenSnapshot(new.gz, new.plain) = file
    BY <1>1, <2>2, <2>3 DEF ChosenSnapshot
  <2>6. QED
    BY <1>1, <1>2, <2>4, <2>5 DEF Loaded, ParsedSnapshot
<1>6. CASE k = "plain"
  <2>1. new = [gz |-> snaps.gz, plain |-> file]
    BY <1>4, <1>6 DEF WithSnapshot
  <2>2. new.gz = snaps.gz /\ new.plain = file
    BY <2>1
  <2>3. Exists(new.gz) => /\ new.gz[2].mtime # new.plain[2].mtime
                          /\ new.plain[2].mtime > new.gz[2].mtime
    BY <1>2, <1>4, <2>2
  <2>4. SnapshotsInv(new)
    BY <1>3, <1>4, <2>1, <2>2, <2>3 DEF SnapshotsInv
  <2>5. ChosenSnapshot(new.gz, new.plain) = file
    BY <1>1, <2>2, <2>3 DEF ChosenSnapshot
  <2>6. QED
    BY <1>1, <1>2, <2>4, <2>5 DEF Loaded, ParsedSnapshot
<1>7. QED
  BY <1>5, <1>6

(* A log whose every line the snapshot covers adds nothing to it.          *)
LEMMA AllCovered ==
    ASSUME NEW segs, SegmentsAreFiles(segs), NEW after, NEW data,
           \A s \in 0 .. MaxSegments - 1 : Exists(FilesOf(segs)[s]) =>
                \A i \in 1 .. Len(FilesOf(segs)[s][2]) : AtMost(CommitId(s, i - 1), after)
    PROVE  Exact(FilesOf(segs), data, after, data)
<1>1. PICK files : files = FilesOf(segs)
  OBVIOUS
<1>2. \A s \in 0 .. MaxSegments - 1 : Exists(files[s]) =>
            files[s] = File(files[s][2]) /\ files[s][2] \in Seq(LogLines)
  BY <1>1, FileIsLog
<1>3. ASSUME NEW s \in 0 .. MaxSegments - 1, NEW r
      PROVE  replay_file(r, files[s], s, after) = r
  <2>1. CASE ~Exists(files[s]) \/ Skipped(s, after)
    BY <2>1 DEF replay_file
  <2>2. CASE Exists(files[s]) /\ ~Skipped(s, after)
    <3>1. PICK lines : lines = files[s][2]
      OBVIOUS
    <3>2. lines \in Seq(LogLines) /\ files[s] = File(lines)
      BY <1>2, <2>2, <3>1
    <3>3. \A i \in 1 .. Len(lines) : AtMost(CommitId(s, i - 1), after)
      BY <1>1, <2>2, <3>1
    <3>4. replay_segment(r, File(lines), s, after) = r
      BY <3>2, <3>3, CoveredLines
    <3>5. QED
      BY <2>2, <3>2, <3>4 DEF replay_file
  <2>3. QED
    BY <2>1, <2>2
<1>4. replay_files(files, data, after) = Ok(data)
  BY <1>3, NothingToReplay
<1>5. ~TornIn(files, after)
  <2>1. ASSUME NEW s \in 0 .. MaxSegments - 1, Exists(files[s]), NEW i \in DOMAIN files[s][2]
        PROVE  AtMost(CommitId(s, i - 1), after)
    <3>1. i \in 1 .. Len(files[s][2])
      BY <1>2, <2>1
    <3>2. QED
      BY <1>1, <2>1, <3>1
  <2>2. QED
    BY <2>1 DEF TornIn
<1>6. QED
  BY <1>1, <1>4, <1>5 DEF Exact

(* The snapshot that the writer takes covers the log it is taken of.       *)
LEMMA SnapshotLog ==
    ASSUME NEW after, NEW c, LogInv(segments, after, c), NEW data
    PROVE  LogInv(segments, LastLine, c) /\ Exact(FilesOf(segments), data, LastLine, data)
<1>1. PICK files : files = FilesOf(segments)
  OBVIOUS
<1> DEFINE written == {s \in 0 .. c : Exists(files[s]) /\ files[s][2] # <<>>}
<1>2. /\ SegmentsAreFiles(segments) /\ EndsIn(segments, c) /\ Current = c
      /\ list_wal_segments = files /\ c \in 0 .. MaxSegments - 1 /\ c \in Nat
  BY <1>1, CurrentIs, FilesAre DEF LogInv, EndsIn
<1>3. written # {} /\ written \in SUBSET (0 .. c)
  BY <1>1 DEF LogInv, Continues
<1>4. \E s \in written : \A t \in written : t <= s
  BY <1>2, <1>3, GreatestBelow
<1>5. PICK s \in written : /\ \A t \in written : t <= s
                          /\ s = CHOOSE u \in written : \A t \in written : t <= u
  BY <1>4
<1>6. PICK n : n = Len(files[s][2])
  OBVIOUS
<1>7. LastLine = CommitId(s, n - 1)
  BY <1>2, <1>5, <1>6 DEF LastLine
<1>8. s \in 0 .. c /\ s \in 0 .. MaxSegments - 1 /\ Exists(files[s]) /\ files[s][2] # <<>>
  BY <1>2, <1>5, SegmentsAssumption
<1>9. \A t \in 0 .. MaxSegments - 1 : Exists(files[t]) =>
            files[t] = File(files[t][2]) /\ files[t][2] \in Seq(LogLines)
  BY <1>1, <1>2, FileIsLog
<1>10. n \in Nat
  BY <1>6, <1>8, <1>9
<1>11. LastLine.segment = s /\ LastLine.offset = n - 1
  BY <1>7 DEF CommitId
<1>12. Continues(segments, LastLine, c)
  <2>1. LastLine.segment \in Int /\ LastLine.offset \in Int /\ LastLine.segment <= c
    BY <1>8, <1>10, <1>11
  <2>2. s = c => n = Len(segments[c].plain[2])
    BY <1>1, <1>2, <1>6 DEF EndsIn, FilesOf
  <2>3. LastLine.segment = c => LastLine.offset < Len(segments[c].plain[2])
    BY <1>10, <1>11, <2>2
  <2>4. s >= LastLine.segment
    BY <1>8, <1>11
  <2>5. QED
    BY <1>1, <1>8, <2>1, <2>3, <2>4 DEF Continues
<1>13. ASSUME NEW t \in 0 .. MaxSegments - 1, Exists(files[t]), NEW i \in 1 .. Len(files[t][2])
       PROVE  AtMost(CommitId(t, i - 1), LastLine)
  <2>1. t \in Int /\ s \in Int /\ i \in Nat /\ Len(files[t][2]) \in Nat
    BY <1>8, <1>9, <1>13
  <2>2. t <= c
    <3>1. ASSUME t > c
          PROVE  FALSE
      <4>1. t \in c + 1 .. MaxSegments - 1
        BY <1>2, <3>1
      <4>2. ~Exists(files[t])
        BY <1>1, <1>2, <4>1 DEF EndsIn, FilesOf
      <4>3. QED
        BY <1>13, <4>2
    <3>2. QED
      BY <1>2, <2>1, <3>1
  <2>3. files[t][2] # <<>>
    BY <2>1
  <2>4. t \in written
    BY <1>13, <2>2, <2>3
  <2>5. t <= s
    BY <1>5, <2>4
  <2>6. t = s => i - 1 <= n - 1
    BY <1>6, <1>10, <2>1
  <2>7. CommitId(t, i - 1).segment = t /\ CommitId(t, i - 1).offset = i - 1
    BY DEF CommitId
  <2>8. QED
    BY <1>11, <2>1, <2>5, <2>6, <2>7 DEF AtMost
<1>14. Exact(files, data, LastLine, data)
  <2> HIDE DEF written
  <2>1. PICK after1 : after1 = LastLine
    OBVIOUS
  <2>2. \A t \in 0 .. MaxSegments - 1 : Exists(FilesOf(segments)[t]) =>
            \A i \in 1 .. Len(FilesOf(segments)[t][2]) : AtMost(CommitId(t, i - 1), after1)
    BY <1>1, <1>13, <2>1
  <2>3. PICK segs : segs = segments
    OBVIOUS
  <2>4. Exact(FilesOf(segs), data, after1, data)
    BY <1>2, <2>2, <2>3, AllCovered
  <2>5. QED
    BY <1>1, <2>1, <2>3, <2>4
<1>15. QED
  BY <1>1, <1>2, <1>12, <1>14 DEF LogInv

(* One more line at the end of the log is applied to what is committed, or *)
(* is a torn line that no snapshot covers.                                 *)
LEMMA AppendIsExact ==
    ASSUME NEW files, NEW new, NEW data, NEW after, NEW result,
           NEW c \in 0 .. MaxSegments - 1, NEW lines \in Seq(LogLines), NEW line \in LogLines,
           files[c] = File(lines), new[c] = File(Append(lines, line)),
           \A s \in 0 .. MaxSegments - 1 : s # c => new[s] = files[s],
           \A s \in c + 1 .. MaxSegments - 1 : ~Exists(files[s]),
           after.segment \in Int, after.offset \in Int, after.segment <= c,
           after.segment = c => after.offset < Len(lines),
           Exact(files, data, after, result)
    PROVE  Exact(new, data, after, IF line = Torn THEN result ELSE apply_ops(result, line[2]))
<1>1. PICK n \in Nat : n = Len(lines)
  OBVIOUS
<1>2. PICK longer \in Seq(LogLines) :
            /\ longer = Append(lines, line) /\ Len(longer) = n + 1 /\ longer[n + 1] = line
            /\ \A i \in 1 .. n : longer[i] = lines[i]
  <2>1. Append(lines, line) \in Seq(LogLines)
    BY AppendProperties
  <2>2. Len(Append(lines, line)) = n + 1 /\ Append(lines, line)[n + 1] = line
    BY <1>1, AppendProperties
  <2>3. \A i \in 1 .. n : Append(lines, line)[i] = lines[i]
    BY <1>1, AppendProperties
  <2>4. QED
    BY <2>1, <2>2, <2>3
<1>3. ~Skipped(c, after) /\ ~AtMost(CommitId(c, n), after)
  <2>1. CommitId(c, n).segment = c /\ CommitId(c, n).offset = n
    BY DEF CommitId
  <2>2. QED
    BY <1>1, <2>1 DEF Skipped, AtMost
<1>4. line # Blank
  BY DEF LogLines, Line, Torn, Blank
<1>5. PICK old : old = replay_files(files, data, after)
  OBVIOUS
<1>6. replay_files(new, data, after) = replay_line(old, line, CommitId(c, n), after)
  <2>1. DifferAtEnd(files, new, c)
    BY DEF DifferAtEnd
  <2>2. PICK r : /\ replay_files(files, data, after) = replay_file(r, files[c], c, after)
                 /\ replay_files(new, data, after) = replay_file(r, new[c], c, after)
    <3>1. ReplayAtEnd(files, new, data, after, c)
      BY <2>1, LastFile
    <3>2. QED
      BY <3>1 DEF ReplayAtEnd
  <2>3. old = replay_file(r, files[c], c, after)
    BY <1>5, <2>2
  <2>4. Exists(files[c]) /\ Exists(new[c])
    BY DEF Exists, File, NoFile
  <2>5. old = replay_segment(r, File(lines), c, after)
    BY <1>3, <2>3, <2>4 DEF replay_file
  <2>6. replay_files(new, data, after) = replay_segment(r, File(Append(lines, line)), c, after)
    BY <1>3, <2>2, <2>4 DEF replay_file
  <2>7. replay_segment(r, File(Append(lines, line)), c, after)
            = replay_line(replay_segment(r, File(lines), c, after), line,
                          CommitId(c, Len(lines)), after)
    BY AppendedLine
  <2>8. QED
    BY <1>1, <2>5, <2>6, <2>7
<1>7. files[c][2] = lines /\ new[c][2] = longer /\ Exists(files[c]) /\ Exists(new[c])
  BY <1>2 DEF Exists, File, NoFile
<1>8. DOMAIN lines = 1 .. n /\ DOMAIN longer = 1 .. n + 1
  BY <1>1, <1>2
<1>9. TornIn(files, after) => TornIn(new, after)
  <2>1. ASSUME NEW s \in 0 .. MaxSegments - 1, Exists(files[s]), NEW i \in DOMAIN files[s][2],
               files[s][2][i] = Torn, ~AtMost(CommitId(s, i - 1), after)
        PROVE  TornIn(new, after)
    <3>1. CASE s # c
      <4>1. new[s] = files[s]
        BY <3>1
      <4>2. QED
        BY <2>1, <4>1 DEF TornIn
    <3>2. CASE s = c
      <4>1. i \in 1 .. n /\ i \in 1 .. n + 1
        BY <1>1, <1>7, <1>8, <2>1, <3>2
      <4>2. i \in DOMAIN new[s][2] /\ new[s][2][i] = Torn
        BY <1>2, <1>7, <1>8, <2>1, <3>2, <4>1
      <4>3. QED
        BY <1>7, <2>1, <3>2, <4>2 DEF TornIn
    <3>3. QED
      BY <3>1, <3>2
  <2>2. QED
    BY <2>1 DEF TornIn
<1>10. TornIn(new, after) => TornIn(files, after) \/ line = Torn
  <2>1. ASSUME NEW s \in 0 .. MaxSegments - 1, Exists(new[s]), NEW i \in DOMAIN new[s][2],
               new[s][2][i] = Torn, ~AtMost(CommitId(s, i - 1), after), line # Torn
        PROVE  TornIn(files, after)
    <3>1. CASE s # c
      <4>1. new[s] = files[s]
        BY <3>1
      <4>2. QED
        BY <2>1, <4>1 DEF TornIn
    <3>2. CASE s = c
      <4>1. i \in 1 .. n + 1 /\ longer[i] = Torn
        BY <1>7, <1>8, <2>1, <3>2
      <4>2. i \in 1 .. n
        BY <1>1, <1>2, <2>1, <4>1
      <4>3. i \in DOMAIN files[s][2] /\ files[s][2][i] = Torn
        BY <1>2, <1>7, <1>8, <3>2, <4>1, <4>2
      <4>4. QED
        BY <1>7, <2>1, <3>2, <4>3 DEF TornIn
    <3>3. QED
      BY <3>1, <3>2
  <2>2. QED
    BY <2>1 DEF TornIn
<1>11. line = Torn => TornIn(new, after)
  <2>1. ASSUME line = Torn
        PROVE  TornIn(new, after)
    <3>1. n + 1 \in DOMAIN new[c][2] /\ new[c][2][n + 1] = Torn /\ (n + 1) - 1 = n
      BY <1>1, <1>2, <1>7, <1>8, <2>1
    <3>2. ~AtMost(CommitId(c, (n + 1) - 1), after)
      BY <1>3, <3>1
    <3>3. QED
      BY <1>7, <3>1, <3>2 DEF TornIn
  <2>2. QED
    BY <2>1
<1>12. CASE TornIn(files, after)
  <2>1. old = Err /\ ~IsOk(old)
    BY <1>5, <1>12 DEF Exact, Err, IsOk
  <2>2. replay_files(new, data, after) = Err
    BY <1>6, <2>1 DEF replay_line
  <2>3. QED
    BY <1>9, <1>12, <2>2 DEF Exact
<1>13. CASE ~TornIn(files, after)
  <2>1. old = Ok(result)
    BY <1>5, <1>13 DEF Exact
  <2>2. IsOk(old) /\ old[2] = result
    BY <2>1 DEF Ok, IsOk
  <2>3. replay_files(new, data, after) = apply_line(old, line)
    BY <1>3, <1>4, <1>6, <2>2 DEF replay_line
  <2>4. QED
    BY <1>10, <1>11, <1>13, <2>2, <2>3 DEF Exact, apply_line
<1>14. QED
  BY <1>12, <1>13

(* A change of one segment that the replay does not see.                   *)
LEMMA UnseenIsExact ==
    ASSUME NEW files, NEW new, NEW data, NEW after, NEW result, NEW k \in 0 .. MaxSegments - 1,
           \A s \in 0 .. MaxSegments - 1 : s # k => new[s] = files[s],
           \A r : replay_file(r, new[k], k, after) = replay_file(r, files[k], k, after),
           \A file \in {new[k], files[k]} :
                Exists(file) => \A i \in DOMAIN file[2] :
                    file[2][i] = Torn => AtMost(CommitId(k, i - 1), after),
           Exact(files, data, after, result)
    PROVE  Exact(new, data, after, result)
<1>1. \A s \in 0 .. MaxSegments - 1 : \A r :
            replay_file(r, new[s], s, after) = replay_file(r, files[s], s, after)
  <2>1. ASSUME NEW s \in 0 .. MaxSegments - 1, NEW r
        PROVE  replay_file(r, new[s], s, after) = replay_file(r, files[s], s, after)
    <3>1. CASE s = k
      BY <3>1
    <3>2. CASE s # k
      BY <3>2
    <3>3. QED
      BY <3>1, <3>2
  <2>2. QED
    BY <2>1
<1>2. replay_files(new, data, after) = replay_files(files, data, after)
  BY <1>1, SameReplay
<1>3. ASSUME NEW a, NEW b, \A s \in 0 .. MaxSegments - 1 : s # k => a[s] = b[s],
             Exists(a[k]) => \A i \in DOMAIN a[k][2] :
                    a[k][2][i] = Torn => AtMost(CommitId(k, i - 1), after),
             TornIn(a, after)
      PROVE  TornIn(b, after)
  <2>1. PICK s \in 0 .. MaxSegments - 1 :
            /\ Exists(a[s])
            /\ \E i \in DOMAIN a[s][2] :
                a[s][2][i] = Torn /\ ~AtMost(CommitId(s, i - 1), after)
    BY <1>3 DEF TornIn
  <2>2. s # k
    BY <1>3, <2>1
  <2>3. b[s] = a[s]
    BY <1>3, <2>2
  <2>4. QED
    BY <2>1, <2>3 DEF TornIn
<1>4. TornIn(new, after) <=> TornIn(files, after)
  <2>1. Exists(new[k]) => \A i \in DOMAIN new[k][2] :
                    new[k][2][i] = Torn => AtMost(CommitId(k, i - 1), after)
    OBVIOUS
  <2>2. Exists(files[k]) => \A i \in DOMAIN files[k][2] :
                    files[k][2][i] = Torn => AtMost(CommitId(k, i - 1), after)
    OBVIOUS
  <2>3. TornIn(new, after) => TornIn(files, after)
    BY <1>3, <2>1
  <2>4. TornIn(files, after) => TornIn(new, after)
    BY <1>3, <2>2
  <2>5. QED
    BY <2>3, <2>4
<1>5. QED
  BY <1>2, <1>4 DEF Exact

LEMMA AppendStore ==
    ASSUME NEW segs, NEW data, NEW after, NEW c, NEW result, LogInv(segs, after, c),
           Exact(FilesOf(segs), data, after, result), NEW line \in LogLines,
           NEW new, new = LineAdded(segs, c, line)
    PROVE  /\ LogInv(new, after, c)
           /\ Exact(FilesOf(new), data, after,
                    IF line = Torn THEN result ELSE apply_ops(result, line[2]))
<1>1. PICK lines, old, files : /\ lines = segs[c].plain[2] /\ old = FilesOf(segs)
                               /\ files = FilesOf(new)
  OBVIOUS
<1>2. /\ LogInv(new, after, c) /\ old[c] = File(lines) /\ lines \in Seq(LogLines)
      /\ files[c] = File(Append(lines, line))
      /\ \A s \in 0 .. MaxSegments - 1 : s # c => files[s] = old[s]
  <2>1. /\ LogInv(new, after, c)
        /\ FilesOf(segs)[c] = File(segs[c].plain[2]) /\ segs[c].plain[2] \in Seq(LogLines)
        /\ FilesOf(new)[c] = File(Append(segs[c].plain[2], line))
        /\ \A s \in 0 .. MaxSegments - 1 : s # c => FilesOf(new)[s] = FilesOf(segs)[s]
    BY AppendLog
  <2>2. QED
    BY <1>1, <2>1
<1>3. c \in 0 .. MaxSegments - 1
  BY DEF LogInv, EndsIn
<1>4. \A s \in c + 1 .. MaxSegments - 1 : ~Exists(old[s])
  <2>1. ASSUME NEW s \in c + 1 .. MaxSegments - 1
        PROVE  ~Exists(old[s])
    <3>1. s \in 0 .. MaxSegments - 1
      BY <1>3
    <3>2. QED
      BY <1>1, <3>1 DEF LogInv, EndsIn, FilesOf
  <2>2. QED
    BY <2>1
<1>5. /\ after.segment \in Int /\ after.offset \in Int /\ after.segment <= c
      /\ after.segment = c => after.offset < Len(lines)
  BY <1>1 DEF LogInv, Continues
<1>6. Exact(old, data, after, result)
  BY <1>1
<1>7. Exact(files, data, after, IF line = Torn THEN result ELSE apply_ops(result, line[2]))
  BY <1>2, <1>3, <1>4, <1>5, <1>6, AppendIsExact
<1>8. QED
  BY <1>1, <1>2, <1>7

LEMMA RotateStore ==
    ASSUME NEW segs, NEW data, NEW after, NEW c, NEW result, LogInv(segs, after, c),
           Exact(FilesOf(segs), data, after, result), c + 1 < MaxSegments,
           Len(segs[c].plain[2]) > 0,
           NEW new, new = Refiled(segs, c + 1, File(<<>>), segs[c + 1].gz)
    PROVE  LogInv(new, after, c + 1) /\ Exact(FilesOf(new), data, after, result)
<1>1. PICK k, old, files : k = c + 1 /\ old = FilesOf(segs) /\ files = FilesOf(new)
  OBVIOUS
<1>2. /\ LogInv(new, after, c + 1) /\ ~Exists(old[k]) /\ files[k] = File(<<>>)
      /\ \A s \in 0 .. MaxSegments - 1 : s # k => files[s] = old[s]
  <2>1. /\ LogInv(new, after, c + 1)
        /\ ~Exists(FilesOf(segs)[c + 1]) /\ FilesOf(new)[c + 1] = File(<<>>)
        /\ \A s \in 0 .. MaxSegments - 1 : s # c + 1 => FilesOf(new)[s] = FilesOf(segs)[s]
    BY RotateLog
  <2>2. QED
    BY <1>1, <2>1
<1>3. k \in 0 .. MaxSegments - 1
  BY <1>1, <1>2 DEF LogInv, EndsIn
<1>4. ASSUME NEW r
      PROVE  replay_file(r, files[k], k, after) = replay_file(r, old[k], k, after)
  <2>1. replay_file(r, old[k], k, after) = r
    BY <1>2 DEF replay_file
  <2>2. PICK lines : lines = <<>>
    OBVIOUS
  <2>3. lines \in Seq(LogLines) /\ \A i \in 1 .. Len(lines) : AtMost(CommitId(k, i - 1), after)
    BY <2>2
  <2>4. replay_segment(r, File(lines), k, after) = r
    BY <2>3, CoveredLines
  <2>5. QED
    BY <1>2, <2>1, <2>2, <2>4 DEF replay_file
<1>5. \A file \in {files[k], old[k]} :
            Exists(file) => \A i \in DOMAIN file[2] :
                file[2][i] = Torn => AtMost(CommitId(k, i - 1), after)
  BY <1>2 DEF File
<1>6. Exact(old, data, after, result)
  BY <1>1
<1>7. Exact(files, data, after, result)
  BY <1>2, <1>3, <1>4, <1>5, <1>6, UnseenIsExact
<1>8. QED
  BY <1>1, <1>2, <1>7

LEMMA EarlierStore ==
    ASSUME NEW segs, NEW data, NEW after, NEW c, NEW result, LogInv(segs, after, c),
           Exact(FilesOf(segs), data, after, result),
           NEW k \in 0 .. MaxSegments - 1, k < c, NEW plain, NEW gz,
           IsLogFile(plain), IsLogFile(gz), Exists(plain) /\ Exists(gz) => gz = plain,
           k < after.segment \/ (IF Exists(gz) THEN gz ELSE plain) = FilesOf(segs)[k],
           NEW new, new = Refiled(segs, k, plain, gz)
    PROVE  LogInv(new, after, c) /\ Exact(FilesOf(new), data, after, result)
<1>1. PICK old, files : old = FilesOf(segs) /\ files = FilesOf(new)
  OBVIOUS
<1>2. /\ LogInv(new, after, c) /\ files[k] = IF Exists(gz) THEN gz ELSE plain
      /\ \A s \in 0 .. MaxSegments - 1 : s # k => files[s] = old[s]
  <2>1. /\ LogInv(new, after, c)
        /\ FilesOf(new)[k] = IF Exists(gz) THEN gz ELSE plain
        /\ \A s \in 0 .. MaxSegments - 1 : s # k => FilesOf(new)[s] = FilesOf(segs)[s]
    BY EarlierFiles
  <2>2. QED
    BY <1>1, <2>1
<1>3. Exact(old, data, after, result)
  BY <1>1
<1>4. CASE k < after.segment
  <2>1. Skipped(k, after) /\ \A i : AtMost(CommitId(k, i - 1), after)
    BY <1>4 DEF Skipped, AtMost, CommitId
  <2>2. \A r : replay_file(r, files[k], k, after) = replay_file(r, old[k], k, after)
    BY <2>1 DEF replay_file
  <2>3. \A file \in {files[k], old[k]} :
            Exists(file) => \A i \in DOMAIN file[2] :
                file[2][i] = Torn => AtMost(CommitId(k, i - 1), after)
    BY <2>1
  <2>4. Exact(files, data, after, result)
    BY <1>2, <1>3, <2>2, <2>3, UnseenIsExact
  <2>5. QED
    BY <1>1, <1>2, <2>4
<1>5. CASE files[k] = old[k]
  <2>1. files = old
    <3>1. /\ files = [s \in 0 .. MaxSegments - 1 |-> files[s]]
          /\ old = [s \in 0 .. MaxSegments - 1 |-> old[s]]
      BY <1>1 DEF FilesOf
    <3>2. \A s \in 0 .. MaxSegments - 1 : files[s] = old[s]
      BY <1>2, <1>5
    <3>3. QED
      BY <3>1, <3>2
  <2>2. QED
    BY <1>1, <1>2, <1>3, <2>1
<1>6. QED
  BY <1>1, <1>2, <1>4, <1>5

(* A step of the writer that leaves the snapshots alone.                   *)
LEMMA LogStep ==
    ASSUME NEW c, NEW d, NEW after, NEW data, StoreInv, after = Loaded(snapshots).after,
           data = Loaded(snapshots).data, snapshots' = snapshots,
           LogInv(segments', after, d), Exact(FilesOf(segments'), data, after, committed')
    PROVE  StoreInv'
<1>1. d \in 0 .. MaxSegments - 1
  BY DEF LogInv, EndsIn
<1>2. Loaded(snapshots') = Loaded(snapshots) /\ SnapshotsInv(snapshots')
  BY DEF StoreInv, StoreHolds
<1>3. QED
  BY <1>1, <1>2 DEF StoreInv, StoreHolds

(* What a step of the writer starts from.                                  *)
LEMMA LogNow ==
    ASSUME StoreInv, NEW after, NEW data, after = Loaded(snapshots).after,
           data = Loaded(snapshots).data
    PROVE  /\ LogInv(segments, after, Current) /\ Covered = after
           /\ Exact(FilesOf(segments), data, after, committed)
<1>1. PICK c \in 0 .. MaxSegments - 1 : LogInv(segments, after, c)
  BY DEF StoreInv, StoreHolds
<1>2. Current = c
  BY <1>1, CurrentIs DEF LogInv
<1>3. Covered = after
  BY CoveredIs, LoadedIs DEF StoreInv, StoreHolds
<1>4. QED
  BY <1>1, <1>2, <1>3 DEF StoreInv, StoreHolds

LEMMA AppendsStore ==
    ASSUME StoreInv, NEW line \in LogLines, Appended(line),
           committed' = IF line = Torn THEN committed ELSE apply_ops(committed, line[2])
    PROVE  StoreInv'
<1>1. PICK after, data, c : /\ after = Loaded(snapshots).after
                            /\ data = Loaded(snapshots).data /\ c = Current
  OBVIOUS
<1>2. LogInv(segments, after, c) /\ Exact(FilesOf(segments), data, after, committed)
  BY <1>1, LogNow
<1>3. segments' = LineAdded(segments, c, line) /\ snapshots' = snapshots
  BY <1>1 DEF Appended, LineAdded
<1>4. PICK segs, new, old, result :
            segs = segments /\ new = segments' /\ old = committed /\ result = committed'
  OBVIOUS
<1>5. LogInv(new, after, c) /\ Exact(FilesOf(new), data, after, result)
  BY <1>2, <1>3, <1>4, AppendStore
<1>6. QED
  BY <1>1, <1>3, <1>4, <1>5, LogStep

LEMMA RotatesStore ==
    ASSUME StoreInv, WriterRotates
    PROVE  StoreInv'
<1>1. PICK after, data, c : /\ after = Loaded(snapshots).after
                            /\ data = Loaded(snapshots).data /\ c = Current
  OBVIOUS
<1>2. LogInv(segments, after, c) /\ Exact(FilesOf(segments), data, after, committed)
  BY <1>1, LogNow
<1>3. /\ c + 1 < MaxSegments /\ Len(segments[c].plain[2]) > 0
      /\ segments' = [segments EXCEPT ![c + 1].plain = File(<<>>)]
      /\ snapshots' = snapshots /\ committed' = committed
  BY <1>1 DEF WriterRotates
<1>4. PICK segs, new, result : segs = segments /\ new = segments' /\ result = committed
  OBVIOUS
<1>5. new = Refiled(segs, c + 1, File(<<>>), segs[c + 1].gz)
  <2>1. c + 1 \in 0 .. MaxSegments - 1
    BY <1>2, <1>3, SegmentsAssumption DEF LogInv, EndsIn
  <2>2. segs[c + 1] = [plain |-> segs[c + 1].plain, gz |-> segs[c + 1].gz]
    BY <1>2, <1>4, <2>1 DEF LogInv, SegmentsAreFiles
  <2>3. PICK file : file = File(<<>>)
    OBVIOUS
  <2>4. [segs[c + 1] EXCEPT !.plain = file] = [plain |-> file, gz |-> segs[c + 1].gz]
    BY <2>2
  <2>5. new = [segs EXCEPT ![c + 1] = [segs[c + 1] EXCEPT !.plain = file]]
    BY <1>3, <1>4, <2>3
  <2>6. QED
    BY <2>3, <2>4, <2>5 DEF Refiled
<1>6. LogInv(new, after, c + 1) /\ Exact(FilesOf(new), data, after, result)
  BY <1>2, <1>3, <1>4, <1>5, RotateStore
<1>7. PICK d : d = c + 1
  OBVIOUS
<1>8. QED
  BY <1>1, <1>3, <1>4, <1>6, <1>7, LogStep

LEMMA CompressesStore ==
    ASSUME StoreInv, WriterCompresses \/ KilledInCompression
    PROVE  StoreInv'
<1>1. PICK after, data, c : /\ after = Loaded(snapshots).after
                            /\ data = Loaded(snapshots).data /\ c = Current
  OBVIOUS
<1>2. LogInv(segments, after, c) /\ Exact(FilesOf(segments), data, after, committed)
  BY <1>1, LogNow
<1>3. PICK k, p :
        /\ k \in 0 .. c - 1 /\ p \in {NoFile, segments[k].plain}
        /\ Exists(segments[k].plain)
        /\ segments' = [segments EXCEPT ![k] = [plain |-> p, gz |-> segments[k].plain]]
        /\ snapshots' = snapshots /\ committed' = committed
  BY <1>1 DEF WriterCompresses, KilledInCompression, GetsTwin
<1>4. snapshots' = snapshots /\ committed' = committed
  BY <1>3
<1>5. PICK segs, new, result : segs = segments /\ new = segments' /\ result = committed
  OBVIOUS
<1>6. k \in 0 .. MaxSegments - 1 /\ k < c
  BY <1>2, <1>3, SegmentsAssumption DEF LogInv, EndsIn
<1>7. PICK gz, plain : gz = segs[k].plain /\ plain = p
  OBVIOUS
<1>8. new = Refiled(segs, k, plain, gz)
  BY <1>3, <1>5, <1>7 DEF Refiled
<1>9. IsLogFile(segs[k].plain) /\ Exists(segs[k].plain)
  BY <1>2, <1>3, <1>5, <1>6 DEF LogInv, SegmentsAreFiles
<1>10. ~Exists(NoFile)
  BY DEF Exists
<1>11. /\ IsLogFile(plain) /\ IsLogFile(gz) /\ Exists(gz)
       /\ Exists(plain) /\ Exists(gz) => gz = plain
  BY <1>3, <1>5, <1>7, <1>9, <1>10 DEF IsLogFile
<1>12. (IF Exists(gz) THEN gz ELSE plain) = FilesOf(segs)[k]
  BY <1>2, <1>5, <1>6, <1>7, <1>9, <1>11 DEF LogInv, SegmentsAreFiles, FilesOf
<1>13. LogInv(new, after, c) /\ Exact(FilesOf(new), data, after, result)
  <2>1. LogInv(segs, after, c) /\ Exact(FilesOf(segs), data, after, result)
    BY <1>2, <1>5
  <2>2. QED
    BY <1>6, <1>8, <1>11, <1>12, <2>1, EarlierStore
<1>14. QED
  BY <1>1, <1>4, <1>5, <1>13, LogStep

LEMMA PrunesStore ==
    ASSUME StoreInv, WriterPrunes
    PROVE  StoreInv'
<1>1. PICK after, data, c : /\ after = Loaded(snapshots).after
                            /\ data = Loaded(snapshots).data /\ c = Current
  OBVIOUS
<1>2. /\ LogInv(segments, after, c) /\ Exact(FilesOf(segments), data, after, committed)
      /\ Covered = after
  BY <1>1, LogNow
<1>3. PICK k \in 0 .. after.segment - 1 :
        segments' = [segments EXCEPT ![k] = [plain |-> NoFile, gz |-> NoFile]]
  BY <1>2 DEF WriterPrunes
<1>4. snapshots' = snapshots /\ committed' = committed
  BY DEF WriterPrunes
<1>5. PICK segs, new, result, none :
        segs = segments /\ new = segments' /\ result = committed /\ none = NoFile
  OBVIOUS
<1>6. k \in 0 .. MaxSegments - 1 /\ k < c /\ k < after.segment
  BY <1>2, <1>3, SegmentsAssumption DEF LogInv, EndsIn, Continues
<1>7. new = Refiled(segs, k, none, none)
  BY <1>3, <1>5 DEF Refiled
<1>8. ~Exists(none) /\ IsLogFile(none)
  BY <1>5 DEF Exists, IsLogFile
<1>9. LogInv(new, after, c) /\ Exact(FilesOf(new), data, after, result)
  <2>1. LogInv(segs, after, c) /\ Exact(FilesOf(segs), data, after, result)
    BY <1>2, <1>5
  <2>2. QED
    BY <1>6, <1>7, <1>8, <2>1, EarlierStore
<1>10. QED
  BY <1>1, <1>4, <1>5, <1>9, LogStep

LEMMA SnapshotsStore ==
    ASSUME StoreInv, TakesSnapshot
    PROVE  StoreInv'
<1>1. PICK after, data, c : /\ after = Loaded(snapshots).after
                            /\ data = Loaded(snapshots).data /\ c = Current
  OBVIOUS
<1>2. LogInv(segments, after, c)
  BY <1>1, LogNow
<1>3. PICK k \in {"gz", "plain"} :
        snapshots' = [snapshots EXCEPT ![k] =
            File([commit_id |-> LastLine, data |-> committed, mtime |-> Newest + 1])]
  BY DEF TakesSnapshot
<1>4. segments' = segments /\ committed' = committed
  BY DEF TakesSnapshot
<1>5. PICK id, result, m, snaps, new, file :
        /\ id = LastLine /\ result = committed /\ m = Newest + 1 /\ snaps = snapshots
        /\ new = snapshots' /\ file = SnapshotFile(id, result, m)
  OBVIOUS
<1>6. SnapshotsInv(snaps) /\ new = WithSnapshot(snaps, k, file)
  BY <1>3, <1>5 DEF StoreInv, StoreHolds, SnapshotFile, WithSnapshot
<1>7. m \in Nat \ {0} /\ \A j \in {"gz", "plain"} : Exists(snaps[j]) => snaps[j][2].mtime < m
  <2>1. Newest \in Nat
    BY NewestIs DEF StoreInv, StoreHolds
  <2>2. ASSUME NEW j \in {"gz", "plain"}, Exists(snaps[j])
        PROVE  snaps[j][2].mtime < m
    <3>1. snaps[j][2] \in SnapshotsTaken
      BY <1>5, <2>2 DEF SnapshotsTaken
    <3>2. snaps[j][2].mtime \in Nat \ {0} /\ snaps[j][2].mtime <= Newest
      BY <3>1, NewestIs DEF StoreInv, StoreHolds
    <3>3. QED
      BY <1>5, <2>1, <3>2
  <2>3. QED
    BY <1>5, <2>1, <2>2
<1>8. SnapshotsInv(new) /\ Loaded(new) = [data |-> result, after |-> id]
  BY <1>5, <1>6, <1>7, NewSnapshot
<1>9. LogInv(segments, id, c) /\ Exact(FilesOf(segments), result, id, result)
  BY <1>2, <1>5, SnapshotLog
<1>10. c \in 0 .. MaxSegments - 1
  BY <1>9 DEF LogInv, EndsIn
<1>11. Loaded(new).data = result /\ Loaded(new).after = id
  BY <1>8
<1>12. StoreHolds(segments, new, result)
  BY <1>8, <1>9, <1>10, <1>11 DEF StoreHolds
<1>13. QED
  BY <1>4, <1>5, <1>12 DEF StoreInv

LEMMA NextStore ==
    ASSUME StoreInv, [Next]_vars
    PROVE  StoreInv'
<1>1. CASE WriterCommits
  <2>1. PICK ops \in CommitOps : Appended(Line(ops)) /\ committed' = apply_ops(committed, ops)
    BY <1>1 DEF WriterCommits
  <2>2. PICK line : line = Line(ops)
    OBVIOUS
  <2>3. line \in LogLines /\ line # Torn /\ line[2] = ops
    BY <2>2 DEF LogLines, Line, Torn
  <2>4. QED
    BY <2>1, <2>2, <2>3, AppendsStore
<1>2. CASE WriterIsKilled
  <2>1. Appended(Torn) /\ committed' = committed /\ Torn \in LogLines
    BY <1>2 DEF WriterIsKilled, LogLines
  <2>2. QED
    BY <2>1, AppendsStore
<1>3. CASE UNCHANGED storeVars
  <2>1. segments' = segments /\ snapshots' = snapshots /\ committed' = committed
    BY <1>3 DEF storeVars
  <2>2. QED
    BY <2>1 DEF StoreInv
<1>4. ASSUME Tool
      PROVE  UNCHANGED storeVars
  BY <1>4 DEF Tool, ToolRuns, ToolCreatesIdentity, ToolSavesConfig, ToolSavesNode, ToolCounts,
     ToolFails, ToolExits, ToolUnchanged
<1>5. QED
  BY <1>1, <1>2, <1>3, <1>4, RotatesStore, CompressesStore, PrunesStore, SnapshotsStore
     DEF Next, vars, Writer, WriterSnapshots, KilledInSnapshot

(* A store starts with one commit and no snapshot.                         *)
LEMMA InitStore ==
    ASSUME StoreInit
    PROVE  StoreInv
<1>1. PICK ops \in FirstCommits :
        /\ committed = apply_ops(EmptyData, ops)
        /\ segments = [s \in 0 .. MaxSegments - 1 |->
                        [plain |-> IF s = 0 THEN File(<<Line(ops)>>) ELSE NoFile,
                         gz    |-> NoFile]]
  BY DEF StoreInit
<1>2. snapshots = [gz |-> NoFile, plain |-> NoFile]
  BY DEF StoreInit
<1>3. ~Exists(NoFile)
  BY DEF Exists
<1>4. SnapshotsInv(snapshots)
  BY <1>2, <1>3 DEF SnapshotsInv, IsSnapshot
<1>5. Loaded(snapshots) = [data |-> EmptyData, after |-> NoBoundary]
  <2>1. ChosenSnapshot(snapshots.gz, snapshots.plain) = NoFile
    BY <1>2, <1>3 DEF ChosenSnapshot
  <2>2. QED
    BY <1>3, <2>1 DEF Loaded, ParsedSnapshot
<1>6. PICK line, none, lines, first, after, data, result :
        /\ line = Line(ops) /\ none = NoFile /\ lines = <<>> /\ after = NoBoundary
        /\ first = Append(lines, line) /\ data = EmptyData /\ result = committed
  OBVIOUS
<1>7. /\ line \in LogLines /\ line # Torn /\ line[2] = ops /\ lines \in Seq(LogLines)
      /\ first = <<line>> /\ first \in Seq(LogLines) /\ Len(first) = 1 /\ Len(lines) = 0
  BY <1>6 DEF LogLines, Line, Torn
<1>8. after.segment = -1 /\ after.offset = -1
  BY <1>6 DEF NoBoundary, CommitId
<1>9. /\ Exists(File(first)) /\ File(first)[2] = first
      /\ Exists(File(lines)) /\ File(lines)[2] = lines
  BY DEF Exists, File, NoFile
<1>10. PICK files : files = FilesOf(segments)
  OBVIOUS
<1>11. 0 \in 0 .. MaxSegments - 1
  BY SegmentsAssumption
<1>12. /\ segments[0].plain = File(first) /\ segments[0].gz = none
       /\ \A s \in 0 .. MaxSegments - 1 :
            /\ segments[s] = [plain |-> segments[s].plain, gz |-> segments[s].gz]
            /\ segments[s].gz = none
            /\ s # 0 => segments[s].plain = none
  BY <1>1, <1>6, <1>7, <1>11
<1>13. /\ files[0] = File(first)
       /\ \A s \in 0 .. MaxSegments - 1 : s # 0 => files[s] = none
  BY <1>3, <1>6, <1>10, <1>11, <1>12 DEF FilesOf
<1>14. SegmentsAreFiles(segments)
  <2>1. segments = [s \in 0 .. MaxSegments - 1 |->
                        [plain |-> segments[s].plain, gz |-> segments[s].gz]]
    BY <1>1, <1>12
  <2>2. IsLogFile(File(first)) /\ IsLogFile(none) /\ ~Exists(none)
    BY <1>3, <1>6, <1>7, <1>9 DEF IsLogFile
  <2>3. ASSUME NEW s \in 0 .. MaxSegments - 1
        PROVE  /\ IsLogFile(segments[s].plain) /\ IsLogFile(segments[s].gz)
               /\ Exists(segments[s].plain) /\ Exists(segments[s].gz)
                    => segments[s].gz = segments[s].plain
    BY <1>12, <2>2
  <2>4. QED
    BY <2>1, <2>3 DEF SegmentsAreFiles
<1>15. EndsIn(segments, 0)
  <2>1. \A s \in 0 + 1 .. MaxSegments - 1 : s \in 0 .. MaxSegments - 1 /\ s # 0
    BY SegmentsAssumption
  <2>2. \A s \in 0 + 1 .. MaxSegments - 1 : segments[s].plain = none /\ segments[s].gz = none
    BY <1>12, <2>1
  <2>3. QED
    BY <1>3, <1>6, <1>9, <1>11, <1>12, <2>2 DEF EndsIn
<1>16. Continues(segments, after, 0)
  <2>1. 0 \in 0 .. 0 /\ 0 >= after.segment /\ after.segment # 0 /\ after.segment <= 0
    BY <1>8
  <2>2. Exists(FilesOf(segments)[0]) /\ FilesOf(segments)[0][2] # <<>>
    <3>1. FilesOf(segments)[0] = File(first)
      BY <1>10, <1>13
    <3>2. first # <<>>
      BY <1>7
    <3>3. QED
      BY <1>9, <3>1, <3>2
  <2>3. QED
    BY <1>8, <2>1, <2>2 DEF Continues
<1>17. Exact(files, data, after, result)
  <2>1. PICK old : old = [s \in 0 .. MaxSegments - 1 |-> IF s = 0 THEN File(lines) ELSE none]
    OBVIOUS
  <2>2. old[0] = File(lines) /\ \A s \in 0 .. MaxSegments - 1 : s # 0 => old[s] = none
    BY <1>11, <2>1
  <2>3. ASSUME NEW s \in 0 .. MaxSegments - 1, NEW r
        PROVE  replay_file(r, old[s], s, after) = r
    <3>1. CASE s = 0
      <4>1. \A i \in 1 .. Len(lines) : AtMost(CommitId(s, i - 1), after)
        BY <1>7
      <4>2. replay_segment(r, File(lines), s, after) = r
        BY <1>7, <4>1, CoveredLines
      <4>3. QED
        BY <2>2, <3>1, <4>2 DEF replay_file
    <3>2. CASE s # 0
      BY <1>3, <1>6, <2>2, <3>2 DEF replay_file
    <3>3. QED
      BY <3>1, <3>2
  <2>4. replay_files(old, data, after) = Ok(data)
    BY <2>3, NothingToReplay
  <2>5. ~TornIn(old, after)
    <3>1. \A s \in 0 .. MaxSegments - 1 : Exists(old[s]) => s = 0
      BY <1>3, <1>6, <2>2
    <3>2. DOMAIN old[0][2] = {}
      BY <1>6, <1>9, <2>2
    <3>3. QED
      BY <3>1, <3>2 DEF TornIn
  <2>6. Exact(old, data, after, data)
    BY <2>4, <2>5 DEF Exact
  <2>7. PICK c : c = 0
    OBVIOUS
  <2>8. /\ c \in 0 .. MaxSegments - 1 /\ old[c] = File(lines)
        /\ files[c] = File(Append(lines, line))
        /\ \A s \in 0 .. MaxSegments - 1 : s # c => files[s] = old[s]
    BY <1>6, <1>11, <1>13, <2>2, <2>7
  <2>9. \A s \in c + 1 .. MaxSegments - 1 : ~Exists(old[s])
    <3>1. \A s \in c + 1 .. MaxSegments - 1 : s \in 0 .. MaxSegments - 1 /\ s # 0
      BY <2>7, SegmentsAssumption
    <3>2. QED
      BY <1>3, <1>6, <2>2, <3>1
  <2>10. /\ after.segment \in Int /\ after.offset \in Int /\ after.segment <= c
         /\ after.segment = c => after.offset < Len(lines)
    BY <1>8, <2>7
  <2>11. Exact(files, data, after, IF line = Torn THEN data ELSE apply_ops(data, line[2]))
    BY <1>7, <2>6, <2>8, <2>9, <2>10, AppendIsExact
  <2>12. result = apply_ops(data, line[2])
    BY <1>1, <1>6, <1>7
  <2>13. QED
    BY <1>7, <2>11, <2>12
<1>18. Loaded(snapshots).data = data /\ Loaded(snapshots).after = after
  BY <1>5, <1>6
<1>19. LogInv(segments, after, 0)
  BY <1>14, <1>15, <1>16 DEF LogInv
<1>20. StoreHolds(segments, snapshots, result)
  BY <1>4, <1>10, <1>11, <1>17, <1>18, <1>19 DEF StoreHolds
<1>21. QED
  BY <1>6, <1>20 DEF StoreInv

(* The reader's result is the one that the invariant states.               *)
LEMMA StoreIsRead ==
    ASSUME StoreInv
    PROVE  ReplayIsExact
<1>1. PICK files, after, data : /\ files = FilesOf(segments) /\ after = Loaded(snapshots).after
                                /\ data = Loaded(snapshots).data
  OBVIOUS
<1>2. /\ LogInv(segments, after, Current) /\ Covered = after
      /\ Exact(files, data, after, committed)
  BY <1>1, LogNow
<1>3. list_wal_segments = files /\ DOMAIN segments = 0 .. MaxSegments - 1
  BY <1>1, <1>2, FilesAre DEF LogInv, SegmentsAreFiles
<1>4. TornAfterSnapshot <=> TornIn(files, after)
  BY <1>2, <1>3 DEF TornAfterSnapshot, TornIn
<1>5. PICK chosen : chosen = ChosenSnapshot(snapshots.gz, snapshots.plain)
  OBVIOUS
<1>6. /\ load_snapshot = IF IsHalf(chosen) THEN Err ELSE Ok([data |-> data, after |-> after])
      /\ IsOk(load_snapshot) <=> ~IsHalf(chosen)
  <2>1. Loaded(snapshots) = [data |-> data, after |-> after]
    BY <1>1 DEF Loaded, ParsedSnapshot
  <2>2. QED
    BY <1>5, <2>1, LoadedIs DEF IsOk, Ok, Err
<1>7. HalfIsRead <=> IsHalf(chosen) \/ HalfSegment(after)
  BY <1>2, <1>5, ChosenIsNewest
     DEF HalfIsRead, IsHalf, HalfSegment, Skipped, StoreInv, StoreHolds
<1>8. driver = WalStore =>
        open_store = IF HalfIsRead THEN Err ELSE replay_files(files, data, after)
  BY <1>3, <1>6, <1>7 DEF open_store, open_namespace, WalStore, replay_wal, Ok
<1>9. QED
  BY <1>2, <1>4, <1>8 DEF ReplayIsExact, Exact

(* open_store reads from the snapshots and the segments that matter.js     *)
(* left, after any number of commits, rotations, compressions, snapshots,  *)
(* prunings and kills, exactly what was committed, and refuses the store   *)
(* exactly when a torn line is not covered by a snapshot or a file that it *)
(* needs is half written.                                                  *)
THEOREM ReplayIsAlwaysExact == Spec => []ReplayIsExact
<1>1. Init => StoreInv
  BY InitStore DEF Init
<1>2. StoreInv /\ [Next]_vars => StoreInv'
  BY NextStore
<1>3. StoreInv => ReplayIsExact
  BY StoreIsRead
<1>4. QED
  BY <1>1, <1>2, <1>3, PTL DEF Spec

-----------------------------------------------------------------------------
(* What the tool makes of what matter.js committed.                        *)

ReadIsCommitted == IsOk(open_store) => open_store = Ok(committed)

IsDriver == driver = [kind |-> driver.kind, namespaces |-> driver.namespaces]

(* open_store gives what was committed or refuses.                         *)
LEMMA OnlyCommittedIsRead == Spec => []ReadIsCommitted
<1>1. Init => IsDriver
  BY DEF Init, StoreInit, IsDriver
<1>2. IsDriver /\ [Next]_vars => IsDriver'
  <2>1. ASSUME [Next]_vars
        PROVE  driver' = driver
    BY <2>1 DEF Next, vars, storeVars, Writer, WriterCommits, WriterIsKilled, Appended,
       WriterRotates, WriterCompresses, KilledInCompression, GetsTwin, WriterSnapshots,
       KilledInSnapshot, TakesSnapshot, WriterPrunes, Tool, ToolRuns,
       ToolCreatesIdentity, ToolSavesConfig, ToolSavesNode, ToolCounts, ToolFails, ToolExits,
       ToolUnchanged
  <2>2. QED
    BY <2>1 DEF IsDriver
<1>3. IsDriver /\ ReplayIsExact => ReadIsCommitted
  <2>1. SUFFICES ASSUME IsDriver, ReplayIsExact, IsOk(open_store)
                 PROVE  open_store = Ok(committed)
    BY DEF ReadIsCommitted
  <2>2. ~IsOk(Err)
    BY DEF IsOk, Err
  <2>3. driver.namespaces = 1 /\ driver.kind = "wal_kv"
    BY <2>1, <2>2 DEF open_store, open_namespace
  <2>4. driver = WalStore
    BY <2>1, <2>3 DEF IsDriver, WalStore
  <2>5. QED
    BY <2>1, <2>2, <2>4 DEF ReplayIsExact
<1>4. QED
  BY <1>1, <1>2, <1>3, ReplayIsAlwaysExact, PTL DEF Spec

LEMMA CommittedIsNamed ==
    /\ ReadIsCommitted /\ StoreNamesTheFabric => ReadNamesTheFabric
    /\ ReadIsCommitted /\ StoreLabelIsText => ReadLabelIsText
<1>1. ReadIsCommitted => (IsOk(open_store) => open_store[2] = committed)
  BY DEF ReadIsCommitted, Ok
<1>2. QED
  BY <1>1 DEF StoreNamesTheFabric, ReadNamesTheFabric, StoreLabelIsText, ReadLabelIsText

(* If the operational id, the operational IPK and the node id that         *)
(* matter.js left in the store are the fabric's, then whatever else the    *)
(* store holds, run() writes no identity but one the fabric's devices      *)
(* accept, and no boot makes another of it.                                *)
THEOREM MigrationIsAccepted == Spec /\ []StoreNamesTheFabric => []MigratedIsAccepted
<1>1. CountersInv /\ StrictInv /\ OriginInv => MigratedIsAccepted
  BY OriginTells
<1>2. ReadIsCommitted /\ StoreNamesTheFabric => ReadNamesTheFabric
  BY CommittedIsNamed
<1>3. QED
  BY <1>1, <1>2, OriginHolds, OnlyCommittedIsRead, PTL

(* An RCAC that ensure_identity minted has a serial number that DER leaves *)
(* as it is, however many draws it took, and the RCAC of a migrated fabric *)
(* is never taken for one of ours.                                         *)
THEOREM MintedSerialIsStrict == Spec /\ []StoreNamesTheFabric => []MintedIsStrict
<1>1. CountersInv /\ StrictInv /\ OriginInv => MintedIsStrict
  BY OriginTells
<1>2. ReadIsCommitted /\ StoreNamesTheFabric => ReadNamesTheFabric
  BY CommittedIsNamed
<1>3. QED
  BY <1>1, <1>2, OriginHolds, OnlyCommittedIsRead, PTL

(* Until someone edits server.json, ensure_identity can read and install   *)
(* it: neither the tool nor a first boot writes a file that a later boot   *)
(* refuses.                                                                *)
THEOREM UneditedIdentityInstalls == Spec /\ []StoreNamesTheFabric => []UneditedInstalls
<1>1. CountersInv /\ StrictInv /\ OriginInv => UneditedInstalls
  BY OriginTells
<1>2. ReadIsCommitted /\ StoreNamesTheFabric => ReadNamesTheFabric
  BY CommittedIsNamed
<1>3. QED
  BY <1>1, <1>2, OriginHolds, OnlyCommittedIsRead, PTL

(* Whatever label config.json has, from the store, from an earlier use of  *)
(* the directory or by default, a boot gives rs-matter one that fits the   *)
(* field of Fabric, and what it has in memory server.json reproduces.      *)
THEOREM ServedFabricIsStored == Spec /\ []StoreLabelIsText => []ServedIsStored
<1>1. Init => IInv /\ TextInv /\ LabelFits
  BY InitInv, InitText
<1>2. IInv /\ TextInv /\ LabelFits /\ ReadLabelIsText /\ [Next]_vars
        => (IInv /\ TextInv /\ LabelFits)'
  BY NextKeepsInv, NextText, NextFits
<1>3. FabricIsStored /\ LabelFits => ServedIsStored
  BY DEF LabelFits, ServedIsStored
<1>4. ReadIsCommitted /\ StoreLabelIsText => ReadLabelIsText
  BY CommittedIsNamed
<1>5. QED
  BY <1>1, <1>2, <1>3, <1>4, FabricsAreStored, OnlyCommittedIsRead, PTL DEF Spec

=============================================================================
