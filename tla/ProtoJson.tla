----------------------------- MODULE ProtoJson -----------------------------
(***************************************************************************)
(* The serializer of src/src/proto_json.rs, which writes the lines of the  *)
(* JSONL files. serde_json writes a double that is not finite as null;     *)
(* NonFinite wraps it and writes the text of proto3 JSON, and since every  *)
(* child is serialized by a serializer of its own, every child has to be   *)
(* wrapped again.                                                          *)
(*                                                                         *)
(* A value is what serde makes of it: <<"f64", d>> with d a number or one  *)
(* of NaN, Infinity, -Infinity; <<"scalar">> for all other scalars;        *)
(* <<"unit">> for None and (); or a compound <<kind, children>>, where the *)
(* fields of a struct and the entries of a map are their values (a flat    *)
(* oneof comes as a map).                                                  *)
(***************************************************************************)
EXTENDS Integers, Sequences

CONSTANTS JsonValues   \* the values written

VARIABLES value,   \* the value to write
          json     \* what was written for it, <<>> before

protoJsonVars == <<value, json>>

NotFinite == {"NaN", "Infinity", "-Infinity"}
Single == {"some", "newtype_struct", "newtype_variant"}
Lists == {"seq", "tuple", "tuple_struct", "tuple_variant"}
Structs == {"struct", "struct_variant"}
Compound == Single \cup Lists \cup Structs \cup {"map"}

\* serde_json itself, all the way down.
RECURSIVE SerdeJson(_)
SerdeJson(v) ==
    CASE v[1] = "f64" -> IF v[2] \in NotFinite THEN <<"null">> ELSE <<"number", v[2]>>
      [] v[1] = "scalar" -> <<"scalar">>
      [] v[1] = "unit" -> <<"null">>
      [] OTHER -> <<v[1], [i \in DOMAIN v[2] |-> SerdeJson(v[2][i])]>>

\* serialize_f64; serialize_f32 converts and does the same.
SerializeF64(d) == IF d \in NotFinite THEN <<"text", d>> ELSE <<"number", d>>

\* to_vec: a value behind NonFinite.
RECURSIVE ToVec(_)

\* The value of a map entry is handed to serde_json as it is.
Child_MapUnwrapped(kind, v) == IF kind = "map" THEN SerdeJson(v) ELSE ToVec(v)

\* serialize_some, serialize_element, serialize_field, serialize_value: the
\* child goes to the inner serializer in a ProtoJson.
Child(kind, v) == ToVec(v)

ToVec(v) ==
    CASE v[1] = "f64" -> SerializeF64(v[2])
      [] v[1] = "scalar" -> <<"scalar">>
      [] v[1] = "unit" -> <<"null">>
      [] OTHER -> <<v[1], [i \in DOMAIN v[2] |-> Child(v[1], v[2][i])]>>

ProtoJsonInit == value \in JsonValues /\ json = <<>>

\* The serialization of write_jsonl.
WriteJson ==
    /\ json = <<>>
    /\ json' = ToVec(value)
    /\ UNCHANGED value
-----------------------------------------------------------------------------
\* The leaves of a value or of its JSON, in order.
RECURSIVE Leaves(_)
Leaves(v) ==
    IF v[1] \notin Compound THEN <<v>>
    ELSE LET RECURSIVE From(_)
             From(i) == IF i > Len(v[2]) THEN <<>> ELSE Leaves(v[2][i]) \o From(i + 1)
         IN  From(1)

\* What was received is in the line: at any depth, in any kind of parent, a
\* double that is not finite is its text, and null is written for nothing but
\* an absent value; and where every double is finite the line is exactly what
\* serde_json writes.
NonFiniteKept ==
    json # <<>> =>
        LET in == Leaves(value)
            out == Leaves(json)
        IN  /\ Len(in) = Len(out)
            /\ \A i \in DOMAIN in :
                  /\ out[i] = <<"null">> <=> in[i] = <<"unit">>
                  /\ in[i][1] = "f64" => out[i][2] = in[i][2]
            /\ (\A i \in DOMAIN in : in[i][1] = "f64" => in[i][2] \notin NotFinite) =>
                  json = SerdeJson(value)
=============================================================================
