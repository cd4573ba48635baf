---------------------------- MODULE ReportMerge ----------------------------
(***************************************************************************)
(* What becomes of the values and events a device reports over its         *)
(* subscription, and of the values a client writes to it.                  *)
(*                                                                         *)
(* A report is a sequence of messages.  Each attribute of it is sent whole *)
(* or, a list, element by element, over one message or several, between    *)
(* entries that cannot be parsed.  The sink merges the entries of a report *)
(* in one accumulator and hands the merged values over with the last       *)
(* message, and the events of each message at once.  The device may die in *)
(* the middle of a report; the next subscription starts over.              *)
(*                                                                         *)
(* Whose subscription a report is for, and when a device is resubscribed,  *)
(* is Subscription's subject: here there is one node and it is tracked.    *)
(***************************************************************************)
EXTENDS TlvJson

CONSTANTS
    Attrs,         \* attribute -> its hint in the tables
    Values,        \* attribute -> the TLV values the device may give it
    Writes,        \* attribute -> the JSON values clients write
    Commands,      \* command -> its input struct, "" for none
    Payloads,      \* command -> the JSON payloads clients send
    EventFields,   \* the events the tables know -> their fields
    Occurrences,   \* the events that may happen: [event, timestamp, payload]
    LocalClock,    \* what the server's clock may read, negative before 1970
    MaxChanges,    \* bound: values changed and events, in all
    MaxCuts,       \* bound: messages of a report, less one
    MaxItems       \* bound: attributes and events in a report

Unknown == <<"unknown">>
NoPending == <<"none">>

VARIABLES
    device,    \* attribute -> its TLV value
    dirty,     \* the attributes changed since they were last reported
    happened,  \* the event reports of the next report
    wire,      \* the messages under way
    pending,   \* PendingReports: the accumulator's pairs, or NoPending
    last,      \* the high-water mark of note_event, -1 for none
    view,      \* attribute -> its JSON value, as handed to the controller
    heard,     \* the node events handed to the controller, not yet taken
    changes,   \* changes so far
    report,    \* ghost: the last report's values, styles and damage
    before,    \* ghost: the view when it was sent
    owed,      \* ghost: the parsable events among them that arrived
    number,    \* the number of the device's next event
    written,   \* ghost: attribute -> the JSON its value was written from
    sent       \* ghost: event number -> the payload of the command behind it

vars == <<device, dirty, happened, wire, pending, last, view, heard, changes,
          report, before, owed, number, written, sent>>

-----------------------------------------------------------------------------
(* AttrAccumulator.  An attribute report is                                *)
(*   <<"data", attribute, list operation, TLV>>                            *)
(* or <<"status", a>>, <<"wildcard">> or <<"garbled">>; a list operation   *)
(* is <<"replace">>, <<"append">> or <<"index", i>>, i counting from 0.    *)
(* The pairs are a sequence of [key, json] with one pair for a key.        *)

SlotOf(out, key) == {i \in DOMAIN out : out[i].key = key}
Slot(out, key) == CHOOSE i \in SlotOf(out, key) : TRUE

put(out, key, json) ==
    IF SlotOf(out, key) = {} THEN Append(out, [key |-> key, json |-> json])
    ELSE [out EXCEPT ![Slot(out, key)].json = json]

Elements(out, key) ==
    IF SlotOf(out, key) # {} /\ out[Slot(out, key)].json[1] = "arr"
    THEN out[Slot(out, key)].json[2] ELSE <<>>

(* Mutant: keyed on the path alone, the last element of a list wins. *)
LastWins(out, key, json) == put(out, key, json)

(* An append without an array before it starts one. *)
append(out, key, json) ==
    put(out, key, <<"arr", Append(Elements(out, key), json)>>)

(* An element beyond the end is preceded by nulls. *)
set_index(out, key, i, json) ==
    LET arr == Elements(out, key)
        length == IF i >= Len(arr) THEN i + 1 ELSE Len(arr)
    IN  put(out, key, <<"arr", [j \in 1 .. length |->
                                  IF j = i + 1 THEN json
                                  ELSE IF j <= Len(arr) THEN arr[j]
                                  ELSE <<"null">>]>>)

list_op(out, key, op, json) ==
    CASE op[1] = "replace" -> put(out, key, json)
      [] op[1] = "append"  -> append(out, key, json)
      [] op[1] = "index"   -> set_index(out, key, op[2], json)

(* One attribute report: what does not parse or convert is skipped. *)
AbsorbOne(out, r) ==
    IF r[1] # "data" THEN out
    ELSE LET json == attr_value_to_json(Attrs[r[2]].ty, r[4])
         IN  IF IsOk(json) THEN list_op(out, r[2], r[3], json[2]) ELSE out

absorb(out, entries) == FoldLeft(AbsorbOne, out, entries)

-----------------------------------------------------------------------------
(* Events.  An event report is <<"data", EventData>>, <<"status">> or      *)
(* <<"garbled">>.                                                          *)

I64Max == Max64 \div 2 - 1

(* Unix milliseconds, or 0 for a clock set before 1970. *)
unix_millis(now) == IF 0 <= now /\ now <= I64Max THEN now ELSE 0

(* The timestamp and its type: the device's, or the local clock's.  The    *)
(* first clamps what i64 does not hold.                                    *)
convert_timestamp(ts, now) ==
    LET clamped == IF ts[2] > I64Max THEN I64Max ELSE ts[2]
    IN  CASE ts[1] = "epoch"  -> <<clamped, 1>>
          [] ts[1] = "system" -> <<clamped, 0>>
          [] ts[1] = "delta"  -> <<unix_millis(now), 2>>

(* An event's payload: by name if the tables know it, null if it is absent *)
(* or does not convert.                                                    *)
event_json(event, payload) ==
    LET converted == IF event \in DOMAIN EventFields
                     THEN tlv_to_json_named(payload, EventFields[event])
                     ELSE tlv_to_json(payload)
    IN  IF payload[1] # "empty" /\ IsOk(converted) THEN converted[2]
        ELSE <<"null">>

node_event(data, now) ==
    [event |-> data.event, event_number |-> data.number,
     timestamp |-> convert_timestamp(data.timestamp, now),
     data |-> event_json(data.event, data.payload)]

IsData(r) == r[1] = "data"

(* Mutant: an event report that does not parse ends the walk. *)
WalkToFirstBad(entries) ==
    LET bad == {i \in DOMAIN entries : ~IsData(entries[i])}
        end == IF bad = {} THEN Len(entries)
               ELSE (CHOOSE i \in bad : \A j \in bad : i <= j) - 1
    IN  [i \in 1 .. end |-> entries[i][2]]

(* The parsed events, in wire order. *)
walk_events(entries) ==
    LET data == SelectSeq(entries, IsData) IN [i \in DOMAIN data |-> data[i][2]]

(* note_event over a message: the events above the high-water mark. *)
Fresh(events) == SelectSeq(events, LAMBDA e : e.number > last)
HighWater(events) ==
    LET numbers == {last} \cup {events[i].number : i \in DOMAIN events}
    IN  CHOOSE n \in numbers : \A m \in numbers : m <= n

-----------------------------------------------------------------------------
(* The device.                                                             *)

(* The bounds: one report at a time, of few things, few in all. *)
MayHappen ==
    /\ wire = <<>> /\ changes < MaxChanges
    /\ changes' = changes + 1
    /\ Cardinality(dirty) + Len(walk_events(happened)) < MaxItems

(* The controller takes what it was handed; the last report is history. *)
NoReport == [values |-> <<>>, style |-> <<>>, spoiled |-> {}]
ControllerTakes ==
    /\ heard' = <<>> /\ owed' = <<>>
    /\ report' = NoReport /\ before' = view

(* The ways to send a value: whole, as an empty array and appends, or as   *)
(* elements with an index, first or last element first.                    *)
Data(a, op, tlv) == <<"data", a, op, tlv>>
Orders(n) == {[i \in 1 .. n |-> i], [i \in 1 .. n |-> n + 1 - i]}

Whole(a) == <<Data(a, <<"replace">>, device[a])>>
Appended(a) ==
    <<Data(a, <<"replace">>, <<"array", <<>>>>)>>
        \o [i \in DOMAIN device[a][2] |-> Data(a, <<"append">>, device[a][2][i])]
Indexed(a, f) ==
    [i \in DOMAIN f |-> Data(a, <<"index", f[i] - 1>>, device[a][2][f[i]])]

IsList(a) == Attrs[a].is_list /\ device[a][1] = "array"
Styles(a) ==
    {[of |-> a, as |-> "whole", entries |-> Whole(a)]}
        \cup (IF ~IsList(a) \/ device[a][2] = <<>> THEN {}
              ELSE {[of |-> a, as |-> "appended", entries |-> Appended(a)]}
                     \cup {[of |-> a, as |-> "indexed", entries |-> Indexed(a, f)] :
                            f \in Orders(Len(device[a][2]))})

(* A report's entries with the first one lost to garbage, or with          *)
(* entries that carry no value in its middle.                              *)
Junk == <<<<"garbled">>, <<"wildcard">>, <<"status">>>>
Damaged(entries) ==
    {[entries |-> entries, spoiled |-> {}]}
        \cup {[entries |-> <<<<"garbled">>>> \o Tail(entries),
               spoiled |-> {entries[1][2]}] : i \in DOMAIN entries \cap {1}}
        \cup {[entries |-> SubSeq(entries, 1, Len(entries) \div 2) \o Junk
                             \o SubSeq(entries, Len(entries) \div 2 + 1, Len(entries)),
               spoiled |-> {}]}

(* The messages of a report cut behind the positions of cuts; the events   *)
(* travel in the first message or in the last.                             *)
Messages(entries, events, cuts, inFirst) ==
    LET ends == SetToSortSeq(cuts \cup {Len(entries)}, <)
        count == Len(ends)
    IN  [m \in 1 .. count |->
            [attrs |-> SubSeq(entries, IF m = 1 THEN 1 ELSE ends[m - 1] + 1, ends[m]),
             events |-> IF m = (IF inFirst THEN 1 ELSE count) THEN events ELSE <<>>,
             more |-> m < count]]

DeviceChanges(a, tlv) ==
    /\ MayHappen /\ ControllerTakes
    /\ a \notin dirty
    /\ device' = [device EXCEPT ![a] = tlv]
    /\ dirty' = dirty \cup {a}
    /\ written' = [written EXCEPT ![a] = Unknown]
    /\ UNCHANGED <<happened, wire, pending, last, view, number, sent>>

Occurs(occurrence, payload, cause) ==
    /\ MayHappen /\ ControllerTakes
    /\ happened' = Append(happened,
                          <<"data", [event |-> occurrence.event,
                                     timestamp |-> occurrence.timestamp,
                                     payload |-> payload, number |-> number]>>)
    /\ number' = number + 1
    /\ sent' = IF happened = <<>> THEN number :> cause ELSE sent @@ (number :> cause)
    /\ UNCHANGED <<device, dirty, wire, pending, last, view, written>>

EventOccurs(occurrence) == Occurs(occurrence, occurrence.payload, Unknown)

EventIsGarbled ==
    /\ MayHappen /\ ControllerTakes
    /\ happened = <<>>
    /\ happened' = happened \o <<<<"garbled">>, <<"status">>>>
    /\ UNCHANGED <<device, dirty, wire, pending, last, view, number, written,
                   sent>>

DeviceReports ==
    /\ wire = <<>>
    /\ dirty # {} \/ happened # <<>>
    /\ \E style \in {s \in [dirty -> UNION {Styles(a) : a \in dirty}] :
                        \A a \in dirty : s[a].of = a} :
       \E sending \in Damaged(FlattenSeq(SetToSeq({style[a].entries : a \in dirty}))) :
       \E cuts \in {c \in SUBSET (1 .. Len(sending.entries) - 1) :
                        Cardinality(c) <= MaxCuts} :
       \E inFirst \in BOOLEAN :
            /\ happened = <<>> \/ cuts = {} => inFirst
            /\ wire' = Messages(sending.entries, happened, cuts, inFirst)
            /\ report' = [values |-> [a \in dirty |-> device[a]],
                          style |-> [a \in dirty |-> style[a].as],
                          spoiled |-> sending.spoiled]
    /\ before' = view
    /\ dirty' = {} /\ happened' = <<>>
    /\ UNCHANGED <<device, pending, last, view, heard, changes, owed, number,
                   written, sent>>

-----------------------------------------------------------------------------
(* The sink, the subscription and the client.                              *)

(* ReportSink::handle_report: absorb_message, the pairs of a complete      *)
(* report, and the message's events.                                       *)
Overlay(pairs) ==
    [a \in DOMAIN view |->
        IF SlotOf(pairs, a) = {} THEN view[a] ELSE pairs[Slot(pairs, a)].json]

absorb_message ==
    LET acc == absorb(IF pending = NoPending THEN <<>> ELSE pending[2],
                      Head(wire).attrs)
    IN  IF Head(wire).more
        THEN pending' = <<"some", acc>> /\ UNCHANGED view
        ELSE pending' = NoPending /\ view' = Overlay(acc)

ForwardEvents ==
    LET events == Fresh(walk_events(Head(wire).events))
    IN  /\ last' = HighWater(events)
        /\ \E now \in LocalClock :
              heard' = heard \o [i \in DOMAIN events |-> node_event(events[i], now)]

handle_report ==
    /\ wire # <<>>
    /\ absorb_message
    /\ ForwardEvents
    /\ owed' = owed \o SelectSeq(Head(wire).events, IsData)
    /\ wire' = Tail(wire)
    /\ UNCHANGED <<device, dirty, happened, changes, report, before, number, written,
                   sent>>

(* The device dies in the middle of a report and the supervisor establishes *)
(* the next subscription: what was accumulated is forgotten, the event     *)
(* mark is reset, and the device reports its values again.  Its lost       *)
(* events are not replayed.                                                *)
Resubscribes ==
    /\ wire # <<>> /\ pending # NoPending
    /\ wire' = <<>>
    /\ pending' = NoPending
    /\ last' = -1
    /\ dirty' = DOMAIN report.values
    /\ UNCHANGED <<device, happened, view, heard, changes, report, before,
                   owed, number, written, sent>>

(* write_attribute: a value the tables refuse never reaches the device. *)
encode_value(a, json) == write_json(json, Attrs[a])

ClientWrites(a, json) ==
    /\ MayHappen /\ ControllerTakes
    /\ a \notin dirty
    /\ IsOk(encode_value(a, json))
    /\ device' = [device EXCEPT ![a] = encode_value(a, json)[2]]
    /\ dirty' = dirty \cup {a}
    /\ written' = [written EXCEPT ![a] = json]
    /\ UNCHANGED <<happened, wire, pending, last, view, number, sent>>

(* A command's arguments: none, or an object that names its fields. *)
encode_command_args(input, payload) ==
    CASE payload[1] = "null" -> Ok(<<"struct", <<>>>>)
      [] payload[1] # "obj"  -> Err
      [] input = ""          -> Ok(<<"struct", <<>>>>)
      [] OTHER -> IF DOMAIN payload[2] # {} /\ IsTagBased(payload[2]) THEN Err
                  ELSE write_json(payload, Hint(input, FALSE))

(* A command whose effect the device reports in an event that repeats its  *)
(* arguments.                                                              *)
ClientInvokes(command, payload) ==
    LET args == encode_command_args(Commands[command], payload)
    IN  /\ IsOk(args)
        /\ Occurs([event |-> command, timestamp |-> <<"delta", 0>>],
                  args[2], payload)

-----------------------------------------------------------------------------
Init ==
    /\ device = [a \in DOMAIN Attrs |-> <<"null">>]
    /\ dirty = {} /\ happened = <<>> /\ wire = <<>> /\ pending = NoPending
    /\ last = -1
    /\ view = [a \in DOMAIN Attrs |-> Unknown]
    /\ heard = <<>> /\ changes = 0
    /\ report = NoReport
    /\ before = view /\ owed = <<>> /\ number = 0
    /\ written = [a \in DOMAIN Attrs |-> Unknown]
    /\ sent = <<>>

Next ==
    \/ \E a \in DOMAIN Attrs, tlv \in UNION {Values[a] : a \in DOMAIN Attrs} :
            tlv \in Values[a] /\ DeviceChanges(a, tlv)
    \/ \E occurrence \in Occurrences : EventOccurs(occurrence)
    \/ EventIsGarbled
    \/ DeviceReports
    \/ handle_report
    \/ Resubscribes
    \/ \E a \in DOMAIN Attrs : \E json \in Writes[a] : ClientWrites(a, json)
    \/ \E c \in DOMAIN Commands : \E payload \in Payloads[c] : ClientInvokes(c, payload)

Spec == Init /\ [][Next]_vars

-----------------------------------------------------------------------------
(* What a reported attribute should look like to a client: the conversion  *)
(* of its whole value, and of a list sent by appends the elements that     *)
(* convert.                                                                *)
Settled == wire = <<>> /\ pending = NoPending
Convertible(a) == attr_value_to_json(Attrs[a].ty, report.values[a])
Kept(a) ==
    LET json(i) == attr_value_to_json(Attrs[a].ty, report.values[a][2][i])
        good == SelectSeq([i \in DOMAIN report.values[a][2] |-> i],
                          LAMBDA i : IsOk(json(i)))
    IN  <<"arr", [i \in DOMAIN good |-> json(good[i])[2]]>>

(* Once the last message of a report is handled, a client sees every       *)
(* attribute of it as if it had come whole in a message of its own,        *)
(* however the report was split, interleaved with garbage or cut short by  *)
(* a dead subscription; an attribute that cannot be converted, or is not   *)
(* in the report, keeps its old value (AttrAccumulator, PendingReports).   *)
ReportIsExact ==
    Settled /\ dirty = {} =>
        \A a \in DOMAIN Attrs \ report.spoiled :
            view[a] = LET json == Convertible(a)
                      IN  IF a \notin DOMAIN report.values THEN before[a]
                      ELSE IF IsOk(json) THEN json[2]
                      ELSE IF report.style[a] = "appended" THEN Kept(a)
                      ELSE IF report.style[a] = "indexed" THEN view[a]
                      ELSE before[a]

(* Every event that arrived and could be parsed was handed over once, in   *)
(* wire order, whatever surrounded it, with a time that is not negative    *)
(* (walk_events, note_event, convert_timestamp).                           *)
EventsAreKept ==
    /\ Len(heard) = Len(owed)
    /\ \A i \in DOMAIN heard : /\ heard[i].event_number = owed[i][2].number
                              /\ heard[i].timestamp[1] >= 0

(* The JSON a client should read where it wrote v.  The keys of structs    *)
(* are ids in attributes and names in events, however the client wrote     *)
(* them; a number of a float type is the nearest of that type.  A time is  *)
(* Unix time when it is a whole attribute or a field of an event           *)
(* (isUnix), and counts from 2000 where it is nested in an attribute,      *)
(* although it was written as Unix time.                                   *)
RECURSIVE ReadBack(_, _, _, _)
ReadBack(v, ty, named, isUnix) ==
    CASE v[1] = "arr" ->
            <<"arr", [i \in DOMAIN v[2] |-> ReadBack(v[2][i], ty, named, FALSE)]>>
      [] v[1] = "obj" /\ IsStruct(ty) ->
            LET field(k) == CHOOSE f \in ToSet(Structs[ty]) :
                                k[2] = IF k[1] = "name" THEN f.name ELSE f.code
                key(k) == IF named THEN <<"name", field(k).name, 0>>
                          ELSE Id(field(k).code)
            IN  <<"obj", [c \in {key(k) : k \in DOMAIN v[2]} |->
                            LET k == CHOOSE k \in DOMAIN v[2] : key(k) = c
                            IN  ReadBack(v[2][k], field(k).ty, named, named)]>>
      [] v[1] = "num" /\ ty \in {"epoch_s", "epoch_us"} /\ ~isUnix ->
            <<"num", v[2] - BASE_TYPES[ty][2]>>
      [] v[1] \in {"num", "float"} /\ ty = "single" -> <<"float", as_f32(v[2])>>
      [] v[1] \in {"num", "float"} /\ ty = "double" -> <<"float", as_f64(v[2])>>
      [] OTHER -> v

(* What a client's write was accepted for is what it reads back, once the  *)
(* device has reported it, and the arguments of a command that an event    *)
(* repeats arrive in it as they were sent: the same value in the           *)
(* conventions of the place, with nothing lost but the digits that a float *)
(* cannot hold and the epoch of a nested time (write_json,                 *)
(* encode_command_args, attr_value_to_json, event_json).                   *)
WriteReadsBack ==
    /\ Settled /\ dirty = {} =>
        \A a \in DOMAIN report.values \ report.spoiled :
            written[a] # Unknown =>
                view[a] = ReadBack(written[a], Attrs[a].ty, FALSE, TRUE)
    /\ \A i \in DOMAIN heard :
        LET payload == sent[heard[i].event_number]
            command == heard[i].event
        IN  payload # Unknown =>
                heard[i].data =
                    IF payload[1] = "null" \/ Commands[command] = ""
                    THEN <<"obj", <<>>>>
                    ELSE ReadBack(payload, Commands[command], TRUE, TRUE)
=============================================================================
