--------------------------- MODULE MCReportMerge ---------------------------
(* Instances of ReportMerge: an integer list, a time, a list of structs    *)
(* and a struct with a time and floats in it.                              *)
EXTENDS ReportMerge

Field(code, name, ty, is_list) ==
    [code |-> code, name |-> name, ty |-> ty, is_list |-> is_list]

(* The tag of target is no byte of the instance. *)
MCStructs ==
    [Entry |-> <<Field(1, "privilege", "int8u", FALSE),
                 Field(2, "subjects", "int64u", TRUE),
                 Field(3, "salt", "octet_string", FALSE)>>,
     Lock |-> <<Field(0, "until", "epoch_s", FALSE),
                Field(1, "entry", "Entry", FALSE),
                Field(2, "mode", "ModeEnum", FALSE),
                Field(3, "level", "single", FALSE),
                Field(4, "span", "double", FALSE),
                Field(9, "target", "int8u", FALSE)>>]

MCAttrs == [parts |-> Hint("int16u", TRUE), time |-> Hint("epoch_us", FALSE),
            acl |-> Hint("Entry", TRUE), plan |-> Hint("Lock", FALSE)]

U(n) == <<"u", n>>
Arr(s) == <<"array", s>>
Entry(subjects) ==
    <<"struct", <<<<1, U(5)>>, <<2, subjects>>, <<NoTag, U(1)>>,
                  <<3, <<"octets", <<1>>>>>>>>>>

(* A list with an element that does not convert, a time that overflows, an *)
(* entry nested too deep beside one in order.                              *)
MCValues ==
    [parts |-> {Arr(<<<<"end">>, U(3)>>)},
     time |-> {U(Max64 - 1)},
     acl |-> {Arr(<<Entry(Arr(<<Arr(<<U(7)>>)>>)), Entry(<<"null">>)>>)},
     plan |-> {}]

N(n) == <<"num", n>>
F(n) == <<"float", n>>
Str(kind, s) == <<"str", <<kind, s>>>>
Key(name, spelling) == <<"name", name, spelling>>
Obj(f) == <<"obj", f>>

Named(level) ==
    Obj(Key("privilege", 1) :> N(level) @@ Key("subjects", 0) :> <<"arr", <<N(7)>>>>
        @@ Key("salt", 0) :> Str("base64", <<1>>))
Tagged(level) == Obj(Id(1) :> N(level) @@ Id(3) :> Str("base64", <<2>>))

(* Values to write: in order, out of range, of the wrong type, a time      *)
(* before 2000, two spellings of one key, floats that are rounded or that  *)
(* are too large.                                                          *)
MCWrites ==
    [parts |-> {<<"arr", <<N(4)>>>>, <<"arr", <<N(64)>>>>, N(4)},
     time |-> {N(107), N(99), Str("text", <<"a">>)},
     acl |-> {<<"arr", <<Named(2), Tagged(3)>>>>, <<"arr", <<Named(8)>>>>,
              <<"arr", <<Obj(Id(1) :> N(1) @@ <<"id", 1, 1>> :> N(2))>>>>,
              <<"arr", <<Obj(Id(3) :> Str("text", <<"a">>))>>>>},
     plan |-> {Obj(Key("until", 1) :> N(12) @@ Key("level", 0) :> F(-5)
                   @@ Key("span", 0) :> N(77)),
               Obj(Id(0) :> N(9)), Obj(Id(3) :> F(14))}]

MCCommands == [lock |-> "Lock", ping |-> ""]
MCPayloads ==
    [lock |-> {Obj(Key("until", 1) :> N(12) @@ Key("entry", 0) :> Named(2)
                   @@ Key("mode", 0) :> N(1) @@ Key("level", 0) :> F(7)),
               Obj(Key("until", 0) :> N(9)),
               Obj(Key("until", 0) :> N(12) @@ Key("until", 1) :> N(13)),
               Obj(Key("target", 0) :> N(1)), Obj(Key("nothing", 0) :> N(1)),
               Obj(Id(0) :> N(12)), <<"null">>, N(1)},
     ping |-> {Obj(Id(4) :> N(1))}]

MCEventFields == [lock |-> MCStructs["Lock"], alarm |-> MCStructs["Lock"]]

MCOccurrences ==
    {[event |-> "alarm", timestamp |-> <<"epoch", Max64 - 1>>,
      payload |-> <<"struct", <<<<0, U(4)>>, <<1, Entry(<<"null">>)>>,
                              <<3, <<"nan">>>>, <<6, U(1)>>>>>>],
     [event |-> "boot", timestamp |-> <<"system", 5>>, payload |-> <<"empty">>]}

MCLocalClock == {-1, 20}
=============================================================================
