------------------------------ MODULE TlvJson ------------------------------
(***************************************************************************)
(* The conversion between what devices send (TLV) and what clients see     *)
(* (JSON).  Attribute values are objects keyed by field id, command and    *)
(* event payloads are keyed by field name.                                 *)
(*                                                                         *)
(* Both kinds of value are tuples that start with their type.              *)
(*   TLV   <<"u", n>> <<"i", n>> <<"bool", b>> <<"utf8", text>>            *)
(*         <<"octets", bytes>> <<"null">> <<"array", elements>>            *)
(*         <<"f", n>>, a float, and <<"nan">>, one that is no number       *)
(*         <<"struct", members>>, a member being <<tag, TLV>>, and         *)
(*         <<"end">>, a stray end of container                             *)
(*   JSON  <<"num", n>> <<"bool", b>> <<"float", n>> <<"str", string>>     *)
(*         <<"null">> <<"arr", elements>> <<"obj", members>>               *)
(* A string is text or the base64 of bytes.  A key is <<"id", n, s>> or    *)
(* <<"name", f, s>>, where s tells spellings of one key apart ("1", "01";  *)
(* "level", "Level").  A result is <<"ok", value>> or <<"err">>.  Floats    *)
(* are whole numbers: what the narrower one loses is the low digits of a   *)
(* large number.                                                           *)
(***************************************************************************)
EXTENDS Integers, SequencesExt, FiniteSets, TLC

CONSTANTS
    Byte,          \* the values of a byte: 256 in the code
    EpochOffsetS,  \* MATTER_EPOCH_OFFSET_S
    EpochOffsetUs, \* MATTER_EPOCH_OFFSET_US
    MaxDepth,      \* MAX_DEPTH
    SinglePrecision, \* 2 ^ 24, from where on an f32 leaves numbers out
    DoublePrecision, \* 2 ^ 53, from where on an f64 does
    SingleMax,     \* the largest finite f32
    Structs        \* the cluster's structs: name -> sequence of fields

Ok(value) == <<"ok", value>>
Err == <<"err">>
IsOk(result) == result[1] = "ok"

(* A conversion goes on with F unless it has failed. *)
Then(result, F(_)) == IF IsOk(result) THEN F(result[2]) ELSE Err

(* The results of a sequence of conversions, the first failure ending it. *)
All(results) ==
    IF \A i \in DOMAIN results : IsOk(results[i])
    THEN Ok([i \in DOMAIN results |-> results[i][2]]) ELSE Err

Max64 == Byte ^ 8
NoTag == -1
Id(n) == <<"id", n, 0>>

(* Gen's base types, one name for each way of writing them. *)
BASE_TYPES ==
    [boolean |-> <<"bool">>, single |-> <<"single">>, double |-> <<"double">>,
     char_string |-> <<"utf8">>, octet_string |-> <<"octets">>,
     epoch_s |-> <<"epoch", EpochOffsetS, 4>>,
     epoch_us |-> <<"epoch", EpochOffsetUs, 8>>,
     int8u |-> <<"unsigned", 1>>, int16u |-> <<"unsigned", 2>>,
     int24u |-> <<"unsigned", 3>>, int64u |-> <<"unsigned", 8>>,
     int8s |-> <<"signed", 1>>, int24s |-> <<"signed", 3>>]

IsBase(ty) == ty \in DOMAIN BASE_TYPES
IsStruct(ty) == ty \in DOMAIN Structs

(* What the tables say of a slot: its type and whether it holds a list. *)
Hint(ty, is_list) == [ty |-> ty, is_list |-> is_list]
NoHint == Hint("", FALSE)

FieldHint(f) == Hint(f.ty, f.is_list)
FieldsWhere(fields, P(_)) == {i \in DOMAIN fields : P(fields[i])}

-----------------------------------------------------------------------------
(* TLV to JSON.                                                            *)

(* A byte that is no UTF-8 becomes the replacement character. *)
lossy_utf8(text) == <<"text", [i \in DOMAIN text |->
                                IF text[i] = "bad" THEN "?" ELSE text[i]]>>

(* Objects from keys and values; of two equal keys the later one counts. *)
Object(keys, values) ==
    <<"obj", [k \in {keys[i] : i \in DOMAIN keys} |->
                values[CHOOSE i \in DOMAIN keys :
                        keys[i] = k /\ \A j \in DOMAIN keys : keys[j] = k => j <= i]]>>

ContextMembers(e) == SelectSeq(e[2], LAMBDA m : m[1] # NoTag)

RECURSIVE tlv_to_json_at(_, _)
tlv_to_json_at(e, depth) ==
    LET converted(s) == All([i \in DOMAIN s |-> tlv_to_json_at(s[i], depth + 1)])
    IN  CASE depth > MaxDepth      -> Err
          [] e[1] = "utf8"         -> Ok(<<"str", lossy_utf8(e[2])>>)
          [] e[1] \in {"u", "i"}   -> Ok(<<"num", e[2]>>)
          [] e[1] = "bool"         -> Ok(e)
          [] e[1] = "f"            -> Ok(<<"float", e[2]>>)
          [] e[1] = "nan"          -> Ok(<<"null">>)
          [] e[1] = "octets"       -> Ok(<<"str", <<"base64", e[2]>>>>)
          [] e[1] = "null"         -> Ok(e)
          [] e[1] = "struct" ->
                LET members == ContextMembers(e)
                    keys == [i \in DOMAIN members |-> Id(members[i][1])]
                IN  Then(converted([i \in DOMAIN members |-> members[i][2]]),
                         LAMBDA values : Ok(Object(keys, values)))
          [] e[1] = "array" ->
                Then(converted(e[2]), LAMBDA items : Ok(<<"arr", items>>))
          [] OTHER -> Err

tlv_to_json(e) == tlv_to_json_at(e, 0)

(* Epochs count from 2000 in TLV and from 1970 in JSON. *)
apply_epoch(ty, v) ==
    IF IsBase(ty) /\ BASE_TYPES[ty][1] = "epoch" /\ v[1] = "num" /\ v[2] >= 0
    THEN LET unix == v[2] + BASE_TYPES[ty][2]
         IN  IF unix < Max64 THEN Ok(<<"num", unix>>) ELSE Err
    ELSE Ok(v)

(* An attribute's value: only an epoch at the top level is shifted. *)
attr_value_to_json(ty, e) ==
    Then(tlv_to_json(e), LAMBDA v : apply_epoch(ty, v))

(* Keyed by name, where the tables know the field; a struct field goes on  *)
(* by name, and so do the structs of a list.                               *)
RECURSIVE tlv_to_json_named_at(_, _, _)
tlv_to_json_named_at(e, fields, depth) ==
    LET members == ContextMembers(e)
        known(i) == {j \in DOMAIN fields : fields[j].code = members[i][1]}
        field(i) == fields[CHOOSE j \in known(i) : TRUE]
        key(i) == IF known(i) = {} THEN Id(members[i][1])
                  ELSE <<"name", field(i).name, 0>>
        plain(ty, m) == Then(tlv_to_json_at(m, depth + 1),
                             LAMBDA v : apply_epoch(ty, v))
        elements(m, nested) ==
            All([i \in DOMAIN m[2] |->
                    tlv_to_json_named_at(m[2][i], nested, depth + 2)])
        value(i) ==
            LET m == members[i][2]
            IN  IF known(i) = {} THEN tlv_to_json_at(m, depth + 1)
                ELSE IF ~IsStruct(field(i).ty) \/ m[1] \notin {"struct", "array"}
                THEN plain(field(i).ty, m)
                ELSE IF m[1] = "struct"
                THEN tlv_to_json_named_at(m, Structs[field(i).ty], depth + 1)
                ELSE Then(elements(m, Structs[field(i).ty]),
                          LAMBDA items : Ok(<<"arr", items>>))
    IN  IF depth > MaxDepth THEN Err
        ELSE IF e[1] # "struct" THEN tlv_to_json_at(e, depth)
        ELSE Then(All([i \in DOMAIN members |-> value(i)]),
                  LAMBDA values : Ok(Object([i \in DOMAIN members |-> key(i)], values)))

tlv_to_json_named(e, fields) == tlv_to_json_named_at(e, fields, 0)

-----------------------------------------------------------------------------
(* JSON to TLV.                                                            *)

(* serde_json's view of a number: unsigned, else signed, else a float. *)
as_u64(v) == v[1] = "num" /\ v[2] >= 0 /\ v[2] < Max64
as_i64(v) == v[1] = "num" /\ -(Max64 \div 2) <= v[2] /\ v[2] < Max64 \div 2
is_f64(v) == v[1] \in {"num", "float"}

(* The float nearest to n, one with an even last digit if two are: the     *)
(* floats from precision * step to its double are step apart.              *)
RECURSIVE NearestFrom(_, _, _)
NearestFrom(n, precision, step) ==
    LET down == n \div step
        rest == 2 * (n % step)
    IN  CASE n < 0                 -> -NearestFrom(-n, precision, step)
          [] n >= precision * step -> NearestFrom(n, precision, 2 * step)
          [] OTHER -> step * (IF rest < step \/ (rest = step /\ down % 2 = 0)
                              THEN down ELSE down + 1)

as_f64(n) == NearestFrom(n, DoublePrecision, 1)
as_f32(n) == NearestFrom(as_f64(n), SinglePrecision, 1)
IsFiniteSingle(n) == -SingleMax <= n /\ n <= SingleMax

When(condition, tlv) == IF condition THEN Ok(tlv) ELSE Err

write_unsigned(v, bytes) ==
    When(as_u64(v) /\ v[2] < Byte ^ bytes, <<"u", v[2]>>)

write_signed(v, bytes) ==
    LET limit == (Byte ^ bytes) \div 2
    IN  When(as_i64(v) /\ -limit <= v[2] /\ v[2] < limit, <<"i", v[2]>>)

(* Mutant: a time before 2000 wraps around. *)
EpochWraps(v, base) ==
    When(as_u64(v), <<"u", (v[2] - base[2]) % (Byte ^ base[3])>>)

(* A Unix time that Matter can express, in the width of its type. *)
to_matter_epoch(v, base) ==
    When(as_u64(v) /\ v[2] >= base[2] /\ v[2] - base[2] < Byte ^ base[3],
         <<"u", v[2] - base[2]>>)

write_base(v, base) ==
    CASE base[1] = "bool"     -> When(v[1] = "bool", v)
      [] base[1] = "single"   -> IF is_f64(v)
                                 THEN When(IsFiniteSingle(as_f32(v[2])), <<"f", as_f32(v[2])>>)
                                 ELSE Err
      [] base[1] = "double"   -> IF is_f64(v) THEN Ok(<<"f", as_f64(v[2])>>) ELSE Err
      [] base[1] = "utf8"     -> IF v[1] = "str" THEN Ok(<<"utf8", v[2][2]>>) ELSE Err
      [] base[1] = "octets"   -> IF v[1] = "str" /\ v[2][1] = "base64"
                                 THEN Ok(<<"octets", v[2][2]>>) ELSE Err
      [] base[1] = "epoch"    -> to_matter_epoch(v, base)
      [] base[1] = "unsigned" -> write_unsigned(v, base[2])
      [] base[1] = "signed"   -> write_signed(v, base[2])

(* The tag and hint of a member: by name, or by id with or without fields. *)
resolve(key, fields, named) ==
    LET same(f) == IF named THEN key[1] = "name" /\ f.name = key[2]
                   ELSE f.code = key[2]
        found == FieldsWhere(fields, same)
        f == fields[CHOOSE i \in found : TRUE]
    IN  CASE named /\ found = {} -> Err
          [] named               -> When(f.code < Byte, <<f.code, FieldHint(f)>>)
          [] OTHER -> When(key[1] = "id" /\ key[2] < Byte,
                           <<key[2], IF found = {} THEN NoHint ELSE FieldHint(f)>>)

IsTagBased(obj) == \A k \in DOMAIN obj : k[1] = "id" /\ k[2] < Byte

(* No two keys resolve to one tag. *)
TagsAreDistinct(tags, keys) == Cardinality(tags) = Cardinality(keys)

RECURSIVE write_json(_, _)
write_json(v, hint) ==
    LET items == All([i \in DOMAIN v[2] |-> write_json(v[2][i],
                                                [hint EXCEPT !.is_list = FALSE])])
        array == Then(items, LAMBDA s : Ok(<<"array", s>>))
        emit_struct(fields, named) ==
            LET obj == v[2]
                at(k) == resolve(k, fields, named)
                tags == {at(k)[2][1] : k \in DOMAIN obj}
                member(t) == CHOOSE k \in DOMAIN obj : at(k)[2][1] = t
                sorted == SetToSortSeq(tags, <)
                values == All([i \in DOMAIN sorted |->
                            write_json(obj[member(sorted[i])],
                                       at(member(sorted[i]))[2][2])])
            IN  IF \E k \in DOMAIN obj : ~IsOk(at(k)) THEN Err
                ELSE IF ~TagsAreDistinct(tags, DOMAIN obj) THEN Err
                ELSE Then(values, LAMBDA s :
                        Ok(<<"struct", [i \in DOMAIN s |-> <<sorted[i], s[i]>>]>>))
        write_hinted_struct(fields) ==
            IF v[1] # "obj" THEN Err
            ELSE emit_struct(fields, ~IsTagBased(v[2]))
        write_heuristic ==
            CASE v[1] = "null"  -> Ok(v)
              [] v[1] = "bool"  -> Ok(v)
              [] v[1] = "num"   -> IF as_u64(v) THEN Ok(<<"u", v[2]>>)
                                   ELSE IF as_i64(v) THEN Ok(<<"i", v[2]>>)
                                   ELSE Ok(<<"f", as_f64(v[2])>>)
              [] v[1] = "float" -> Ok(<<"f", v[2]>>)
              [] v[1] = "str"   -> Ok(<<"utf8", v[2][2]>>)
              [] v[1] = "arr"   -> array
              [] v[1] = "obj"   -> emit_struct(<<>>, FALSE)
    IN  IF hint.is_list
        THEN IF v[1] = "null" THEN Ok(v)
             ELSE IF v[1] = "arr" THEN array ELSE Err
        ELSE IF v[1] = "null" THEN Ok(v)
        ELSE IF IsBase(hint.ty) THEN write_base(v, BASE_TYPES[hint.ty])
        ELSE IF IsStruct(hint.ty) THEN write_hinted_struct(Structs[hint.ty])
        ELSE write_heuristic
=============================================================================
