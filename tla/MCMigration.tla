---------------------------- MODULE MCMigration ----------------------------
(* Instances of Migration: the stores matter.js may have written.          *)
EXTENDS Migration

U(tag, n) == <<"tagged", tag, <<"decimal", n>>>>
Num(n) == <<"number", n>>
B(blob) == <<"tagged", "Uint8Array", <<"hex", blob>>>>

Root == DeviceFabric.root
OtherRoot == 2

(* credentials.fabric and certificates of a store in order. *)
GoodFabric ==
    [fabricId |-> U("FabricId", 1), nodeId |-> U("NodeId", CONTROLLER_NODE_ID),
     rootVendorId |-> Num(65521), label |-> <<"string", <<>>>>,
     identityProtectionKey |-> B(DeviceFabric.ipk),
     operationalIdentityProtectionKey |->
        B(OperationalIpk(DeviceFabric.ipk, DeviceCompressed)),
     operationalId |-> B(DeviceCompressed)]

GoodKey == B(Key(Root))
GoodCert == B(Rcac(Root, NoFabricId, <<128, 1>>))

(* A store in order, and stores with one thing wrong. *)
SourceFabrics ==
    {<<GoodFabric, GoodKey, GoodCert>>,
     <<[GoodFabric EXCEPT !.label = <<"string", <<2, 2>>>>], GoodKey,
       B(Rcac(Root, 1, <<1, 1>>))>>,
     <<GoodFabric, GoodKey, B(Rcac(Root, 2, <<1, 1>>))>>,
     <<GoodFabric, B(Key(OtherRoot)), GoodCert>>,
     <<GoodFabric, B(Key(OtherRoot)), B(Rcac(OtherRoot, NoFabricId, <<1, 1>>))>>,
     <<GoodFabric, GoodKey, B(Damaged)>>,
     <<GoodFabric, <<"tagged", "Secret", <<"hex", Key(Root)>>>>, GoodCert>>,
     <<[GoodFabric EXCEPT !.fabricId = Num(2)], GoodKey, GoodCert>>,
     <<[GoodFabric EXCEPT !.rootVendorId = Num(65536)], GoodKey, GoodCert>>,
     <<[GoodFabric EXCEPT !.identityProtectionKey =
            GoodFabric.operationalIdentityProtectionKey], GoodKey, GoodCert>>,
     <<[GoodFabric EXCEPT !.identityProtectionKey = B(Damaged)],
       GoodKey, GoodCert>>}

Upd(key, values) == [op |-> "upd", key |-> key, values |-> values]

Pair(n) == <<U("NodeId", n), <<"object", [ip |-> <<"string", n>>]>>>>
Commissioned(pairs) ==
    Upd(<<"nodes">>, [commissionedNodes |-> <<"tagged", "Map", <<"pairs", pairs>>>>])

Entry(k, n, index) ==
    <<"object", [rootPublicKey |-> B(<<"public", k>>),
                 nodeId |-> U("NodeId", n), fabricIndex |-> Num(index)]>>
Table(peer, entries) ==
    Upd(<<"nodes", peer, "endpoints.0.62">>, "1" :> <<"array", entries>>)

(* The identity, node 1 and its fabric table, in one commit. *)
MCFirstCommits ==
    {<<Upd(<<"credentials">>, [fabric |-> <<"object", s[1]>>]),
       Upd(<<"certificates">>, [rootKeyPair |-> <<"object", [privateKey |-> s[2]]>>,
                                rootCertBytes |-> s[3]]),
       Commissioned(<<Pair(1)>>),
       Table("peer1", <<Entry(Root, 1, 3), Entry(OtherRoot, 1, 4)>>)>>
     : s \in SourceFabrics}

(* Each of them, as far as it can be read, names the devices' fabric. *)
ASSUME SourcesAreOfTheFabric ==
    \A ops \in MCFirstCommits :
        LET source == read_source_fabric(apply_ops(EmptyData, ops))
        IN  IsOk(source) => NamesTheFabric(source[2])

MCCommitOps ==
    {<<Commissioned(<<Pair(7), Pair(1)>>)>>,
     <<Commissioned(<<Pair(2), Pair(1)>>),
       Table("peer2", <<Entry(Root, 2, 255), <<"string", 0>>, Entry(Root, 2, 2)>>)>>,
     <<Table("peer2", <<Entry(Root, 1, 2)>>)>>,
     <<[op |-> "del", key |-> <<"nodes", "peer1">>]>>,
     <<[op |-> "del_fields", key |-> <<"nodes">>,
        fields |-> {"commissionedNodes"}]>>}

MCSerials == {<<>>, <<128, 1>>, <<0, 1>>, <<0, 128>>}

(* A fresh directory, and one an earlier server used and broke. *)
MCLeftovers ==
    {[config |-> Absent, nodes |-> [n \in NodeIds |-> Absent]],
     [config |-> Unreadable(ConfigDefault),
      nodes |-> [n \in NodeIds |->
                    IF n = 2 THEN Readable([node_id |-> 2])
                    ELSE IF n = 1 THEN Unreadable([node_id |-> 1])
                    ELSE Absent]]}
=============================================================================
