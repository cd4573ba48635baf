------------------------------- MODULE JsDb -------------------------------
(***************************************************************************)
(* The matter.js store a migration reads: a namespace directory with one   *)
(* or two snapshot files and the segments of a write-ahead log.  The       *)
(* writer, matter.js, is external; it commits, starts segments, writes     *)
(* snapshots, compresses and prunes, and may be killed inside the writing  *)
(* of any of these files.  The reader takes the newer snapshot and replays *)
(* what it does not cover.                                                 *)
(*                                                                         *)
(* A context name is the sequence of its dotted parts, so that "key." is a *)
(* prefix of names exactly where <<key>> is a prefix of sequences, and the *)
(* empty name is the empty sequence.  A field map is a function from field *)
(* names, the data of a store a function from context names to field maps. *)
(***************************************************************************)
EXTENDS Integers, Sequences, FiniteSets, SequencesExt

CONSTANTS
    CommitOps,     \* the commits the writer may make: sequences of ops
    FirstCommits,  \* the ones the store may start with
    MaxCommits,    \* bound: commits and kills after the first one
    MaxSegments,   \* bound: segments
    MaxSnapshots   \* bound: snapshots

ASSUME SegmentsAssumption == MaxSegments \in Nat \ {0}

VARIABLES
    driver,     \* what driver.json says, and how many namespaces there are
    committed,  \* the data matter.js holds in memory
    segments,   \* the log: number -> the plain and the compressed file
    snapshots,  \* snapshot.json and snapshot.json.gz
    half,       \* snapshots, by mtime, and compressed segments half written
    commits     \* commits and kills so far

storeVars == <<driver, committed, segments, snapshots, half, commits>>

-----------------------------------------------------------------------------
NoFile == <<"none">>
File(contents) == <<"file", contents>>
Exists(file) == file # NoFile

(* A line of the log is a commit or what a kill inside the append left;    *)
(* the text ends with a newline, after which split yields an empty line.   *)
Line(ops) == <<"ops", ops>>
Torn == <<"torn">>
Blank == <<"blank">>
Lines(file) == Append(file[2], Blank)

CommitId(segment, offset) == [segment |-> segment, offset |-> offset]

(* The order #[derive(PartialOrd)] gives CommitId. *)
AtMost(a, b) ==
    a.segment < b.segment \/ (a.segment = b.segment /\ a.offset <= b.offset)

NoBoundary == CommitId(-1, -1)

-----------------------------------------------------------------------------
(* Applying a commit.                                                      *)

EmptyData == [c \in {} |-> <<>>]

Without(data, contexts) == [c \in DOMAIN data \ contexts |-> data[c]]

(* A del without fields: the context and every context below it. *)
DeleteContext(data, key) ==
    Without(data, {c \in DOMAIN data : IsPrefix(key, c)})

apply_op(data, op) ==
    LET old == IF op.key \in DOMAIN data THEN data[op.key] ELSE <<>>
        put(fields) == [c \in DOMAIN data \union {op.key} |->
                            IF c = op.key THEN fields ELSE data[c]]
    IN  CASE op.op = "upd" ->
                put([f \in DOMAIN op.values \union DOMAIN old |->
                        IF f \in DOMAIN op.values THEN op.values[f] ELSE old[f]])
          [] op.op = "del_fields" ->
                IF op.key \notin DOMAIN data THEN data
                ELSE put([f \in DOMAIN old \ op.fields |-> old[f]])
          [] op.op = "del" -> DeleteContext(data, op.key)

apply_ops(data, ops) == FoldLeft(apply_op, data, ops)

-----------------------------------------------------------------------------
(* The reader.  A result is <<"ok", data>> or <<"err">>.                   *)

Ok(value) == <<"ok", value>>
Err == <<"err">>
IsOk(result) == result[1] = "ok"

(* The newer snapshot, the compressed one on a tie. *)
ChosenSnapshot(gz, plain) ==
    IF Exists(gz) /\ Exists(plain)
    THEN IF plain[2].mtime > gz[2].mtime THEN plain ELSE gz
    ELSE IF Exists(gz) THEN gz ELSE plain

ParsedSnapshot(file) ==
    IF Exists(file) THEN [data |-> file[2].data, after |-> file[2].commit_id]
    ELSE [data |-> EmptyData, after |-> NoBoundary]

IsHalf(file) == Exists(file) /\ file[2].mtime \in half.snapshots

(* A snapshot that cannot be unpacked or parsed is an error, even with an  *)
(* older one beside it.                                                    *)
load_snapshot ==
    LET chosen == ChosenSnapshot(snapshots.gz, snapshots.plain)
    IN  IF IsHalf(chosen) THEN Err ELSE Ok(ParsedSnapshot(chosen))

(* The file to read of each segment: the compressed one wins over its twin. *)
list_wal_segments ==
    [s \in 0 .. MaxSegments - 1 |->
        IF Exists(segments[s].gz) THEN segments[s].gz ELSE segments[s].plain]

apply_line(result, line) ==
    IF line = Torn THEN Err ELSE Ok(apply_ops(result[2], line[2]))

(* A line of a segment; id is where it stands in the log. *)
replay_line(result, line, id, after) ==
    IF ~IsOk(result) \/ line = Blank \/ AtMost(id, after)
    THEN result ELSE apply_line(result, line)

replay_segment(result, file, s, after) ==
    LET lines == Lines(file)
        upto[i \in 0 .. Len(lines)] ==
            IF i = 0 THEN result
            ELSE replay_line(upto[i - 1], lines[i], CommitId(s, i - 1), after)
    IN  upto[Len(lines)]

(* Mutant: the segment the snapshot ends in is skipped whole. *)
SkipBoundary(s, after) == s <= after.segment

(* Segments the snapshot covers whole are not read. *)
Skipped(s, after) == s < after.segment

replay_file(result, file, s, after) ==
    IF Exists(file) /\ ~Skipped(s, after)
    THEN replay_segment(result, file, s, after) ELSE result

(* The segments in the order of their numbers. *)
replay_files(files, data, after) ==
    LET upto[n \in 0 .. MaxSegments] ==
            IF n = 0 THEN Ok(data)
            ELSE replay_file(upto[n - 1], files[n - 1], n - 1, after)
    IN  upto[MaxSegments]

(* A compressed segment that cannot be unpacked, even one whose plain twin *)
(* is there.                                                               *)
HalfSegment(after) == \E s \in half.segments : ~Skipped(s, after)

replay_wal(data, after) ==
    IF HalfSegment(after) THEN Err
    ELSE replay_files(list_wal_segments, data, after)

open_namespace ==
    IF driver.kind # "wal_kv" \/ ~IsOk(load_snapshot) THEN Err
    ELSE replay_wal(load_snapshot[2].data, load_snapshot[2].after)

open_store == IF driver.namespaces # 1 THEN Err ELSE open_namespace

-----------------------------------------------------------------------------
(* The writer, matter.js.                                                  *)

Current ==
    CHOOSE s \in DOMAIN segments :
        /\ Exists(segments[s].plain)
        /\ \A t \in DOMAIN segments : Exists(segments[t].plain) => t <= s

StoreInit ==
    /\ driver \in {[kind |-> "wal_kv", namespaces |-> 1],
                   [kind |-> "other", namespaces |-> 1],
                   [kind |-> "wal_kv", namespaces |-> 2]}
    /\ \E ops \in FirstCommits :
        /\ committed = apply_ops(EmptyData, ops)
        /\ segments = [s \in 0 .. MaxSegments - 1 |->
                        [plain |-> IF s = 0 THEN File(<<Line(ops)>>) ELSE NoFile,
                         gz    |-> NoFile]]
    /\ snapshots = [gz |-> NoFile, plain |-> NoFile]
    /\ half = [snapshots |-> {}, segments |-> {}]
    /\ commits = 0

(* The bound on commits and kills. *)
Counted == commits < MaxCommits /\ commits' = commits + 1

Appended(line) ==
    /\ Counted
    /\ segments' = [segments EXCEPT ![Current].plain =
                        File(Append(@[2], line))]
    /\ UNCHANGED <<driver, snapshots, half>>

WriterCommits ==
    \E ops \in CommitOps :
        /\ Appended(Line(ops))
        /\ committed' = apply_ops(committed, ops)

(* Killed inside the append, matter.js restarts without that commit. *)
WriterIsKilled ==
    /\ Appended(Torn)
    /\ UNCHANGED committed

(* The next commit goes to a new segment. *)
WriterRotates ==
    /\ Current + 1 < MaxSegments
    /\ Len(segments[Current].plain[2]) > 0
    /\ segments' = [segments EXCEPT ![Current + 1].plain = File(<<>>)]
    /\ UNCHANGED <<driver, committed, snapshots, half, commits>>

(* A closed segment gets a compressed twin, then loses the plain file.     *)
(* Killed in between, matter.js may have left half of the twin.            *)
GetsTwin(s, plain) ==
    /\ Exists(segments[s].plain)
    /\ segments' = [segments EXCEPT ![s] = [plain |-> plain, gz |-> segments[s].plain]]
    /\ UNCHANGED <<driver, committed, snapshots>>

HasTwin(s) == Exists(segments[s].gz) /\ s \notin half.segments

WriterCompresses ==
    /\ \E s \in 0 .. Current - 1 :
        /\ GetsTwin(s, IF HasTwin(s) THEN NoFile ELSE segments[s].plain)
        /\ half' = [half EXCEPT !.segments = @ \ {s}]
    /\ UNCHANGED commits

KilledInCompression ==
    /\ Counted
    /\ \E s \in 0 .. Current - 1 :
        /\ ~HasTwin(s)
        /\ GetsTwin(s, segments[s].plain)
        /\ half' = [half EXCEPT !.segments = @ \union {s}]

(* The last line written, which a snapshot of now includes. *)
LastLine ==
    LET written == {s \in 0 .. Current : Exists(list_wal_segments[s])
                                         /\ list_wal_segments[s][2] # <<>>}
        s == CHOOSE s \in written : \A t \in written : t <= s
    IN  CommitId(s, Len(list_wal_segments[s][2]) - 1)

SnapshotsTaken ==
    {snapshots[k][2] : k \in {k \in {"gz", "plain"} : Exists(snapshots[k])}}

Newest == CHOOSE t \in {0} \union {snap.mtime : snap \in SnapshotsTaken} :
            \A snap \in SnapshotsTaken : snap.mtime <= t

(* The last commit of the newest snapshot. *)
Covered ==
    IF SnapshotsTaken = {} THEN NoBoundary
    ELSE (CHOOSE snap \in SnapshotsTaken : snap.mtime = Newest).commit_id

(* A snapshot in either format, with a later mtime than any before it. *)
TakesSnapshot ==
    /\ Newest < MaxSnapshots
    /\ \E k \in {"gz", "plain"} :
        snapshots' = [snapshots EXCEPT ![k] =
            File([commit_id |-> LastLine, data |-> committed,
                  mtime |-> Newest + 1])]
    /\ UNCHANGED <<driver, committed, segments>>

WriterSnapshots == TakesSnapshot /\ UNCHANGED <<half, commits>>

KilledInSnapshot ==
    /\ TakesSnapshot
    /\ Counted
    /\ half' = [half EXCEPT !.snapshots = @ \union {Newest + 1}]

(* Segments that end before the newest snapshot's commit are deleted. *)
WriterPrunes ==
    /\ \E s \in 0 .. Covered.segment - 1 :
        /\ Exists(list_wal_segments[s])
        /\ segments' = [segments EXCEPT ![s] = [plain |-> NoFile, gz |-> NoFile]]
        /\ half' = [half EXCEPT !.segments = @ \ {s}]
    /\ UNCHANGED <<driver, committed, snapshots, commits>>

WalStore == [kind |-> "wal_kv", namespaces |-> 1]

Writer ==
    /\ driver = WalStore
    /\ \/ WriterCommits \/ WriterIsKilled \/ WriterRotates
       \/ WriterCompresses \/ KilledInCompression
       \/ WriterSnapshots \/ KilledInSnapshot \/ WriterPrunes

-----------------------------------------------------------------------------
(* A torn line that no snapshot covers. *)
TornAfterSnapshot ==
    \E s \in DOMAIN segments :
        /\ Exists(list_wal_segments[s])
        /\ \E i \in DOMAIN list_wal_segments[s][2] :
            /\ list_wal_segments[s][2][i] = Torn
            /\ ~AtMost(CommitId(s, i - 1), Covered)

(* A half-written file that is to be read: the newest snapshot, or a       *)
(* segment from the one on where that snapshot ends.                       *)
HalfIsRead ==
    \/ SnapshotsTaken # {} /\ Newest \in half.snapshots
    \/ \E s \in half.segments : ~(s < Covered.segment)

(* What the reader makes of a store is what matter.js committed to it, in  *)
(* whichever files the commits are by now, after a kill inside any of the  *)
(* writes too: it refuses a store with an unusable line that is not        *)
(* covered by a snapshot or with half a file that it needs, and no other   *)
(* WAL store.                                                              *)
ReplayIsExact ==
    driver = WalStore =>
        open_store = IF TornAfterSnapshot \/ HalfIsRead THEN Err ELSE Ok(committed)
=============================================================================
