------------------------------- MODULE Codec -------------------------------
(* How the members of one record of the public model become a JSON object   *)
(* and come back: nlohmann::json as the functions *_to_json and *_from_json *)
(* use it.  A record is described three times, as the code does: by its     *)
(* struct (which members, of which kind, initialised to what), by its       *)
(* writer (which members, left out when), and by its reader (which members, *)
(* required or not, within which bounds).  Nothing below relates the three: *)
(* that they agree is what Snapshot checks.                                 *)
(*                                                                          *)
(* The value of a member is a code.  A number stands for itself up to 255,  *)
(* and above that only the maxima of the wider types are told apart.        *)
EXTENDS Integers, Sequences, TLC

U8  == 255
U16 == 1016
U24 == 1024
U32 == 1032
I64 == 1063
U64 == 1064

Unset == -100   \* std::nullopt
Empty == -101   \* a std::vector without elements
Indeterminate == -102   \* a scalar member nobody initialised

Blank == 0      \* the text ""
Some  == 1      \* any other text in UTF-8
Bytes == 2      \* text that is not UTF-8

----------------------------------------------------------------------------
(* Kinds of members: the JSON form their value is written in, the values a  *)
(* member may hold, and the value its default member initialiser gives it.  *)

Number(max) == [form |-> <<"number">>, codes |-> {0, 1, max}, init |-> 0]
Signed(max) == [form |-> <<"number">>, codes |-> {-1, 0, 1, max}, init |-> 0]
Enum(max)   == Number(max)
Flag        == [form |-> <<"boolean">>, codes |-> {0, 1}, init |-> 0]
Text        == [form |-> <<"string">>, codes |-> {Blank, Some}, init |-> Blank]
Foreign     == [Text EXCEPT !.codes = @ \cup {Bytes}]

\* Another record: default constructed (0) or not (1).
Record      == [form |-> <<"object">>, codes |-> {0, 1}, init |-> 0]

\* A time point: 2 is a whole millisecond, 3 is some microseconds later.
Time        == [form |-> <<"milliseconds">>, codes |-> {0, 2, 3}, init |-> 0]

\* A list, told apart by one element, and std::optional.
List(kind)  == [form |-> <<"array">> \o kind.form, codes |-> kind.codes \cup {Empty}, init |-> Empty]
Opt(kind)   == [kind EXCEPT !.codes = @ \cup {Unset}, !.init = Unset]

From(kind, init)    == [kind EXCEPT !.init = init, !.codes = @ \cup {init}]
Uninitialised(kind) == [kind EXCEPT !.init = Indeterminate]

\* The members named in a set, all of one kind (or all written, or read, alike).
Each(members, k) == [m \in members |-> k]

----------------------------------------------------------------------------
(* Writers.  A row is the set of codes for which the member is left out.    *)

Always    == {}
IfSet     == {Unset}
NonEmpty  == {Empty}
Filled    == {Blank}
Unless(c) == {c}

----------------------------------------------------------------------------
(* Readers.  What a reader accepts for a member, and what absence does.     *)

Between(lo, hi) == [form |-> <<"number">>, lo |-> lo, hi |-> hi]
UpTo(max)       == Between(0, max)
Integer(max)    == Between(-1, max)
Boolean         == [form |-> <<"boolean">>, lo |-> 0, hi |-> 1]
String          == [form |-> <<"string">>, lo |-> Blank, hi |-> Some]
Object          == [form |-> <<"object">>, lo |-> 0, hi |-> 1]
Epoch           == [form |-> <<"milliseconds">>, lo |-> 0, hi |-> 2]
Array(accept)   == [accept EXCEPT !.form = <<"array">> \o @]

\* json::at: the member is required.
At(accept)       == [accept |-> accept, required |-> TRUE, absent |-> Unset, with |-> {}]
\* json::contains: the member keeps its initialiser when it is absent.
Contains(accept) == [At(accept) EXCEPT !.required = FALSE]
\* ... and is reset to nullopt, if another member is there.
ResetWith(accept, other) == [Contains(accept) EXCEPT !.with = {other}]
\* json::value: the member gets the default given there.
Value(accept, default) == [Contains(accept) EXCEPT !.absent = default, !.with = {"*"}]

----------------------------------------------------------------------------
(* A schema puts the three descriptions of one record together.             *)

Schema(type, writes, reads) == [type |-> type, writes |-> writes, reads |-> reads]

\* duration_cast to milliseconds drops what is below one.
Stored(kind, code) == IF kind.form = <<"milliseconds">> /\ code = 3 THEN 2 ELSE code

\* dump() refuses a string that is not UTF-8.
Dumps(schema, value) ==
  \A m \in DOMAIN schema.writes : schema.type[m].form \in {<<"string">>, <<"array", "string">>} => value[m] # Bytes

ToJson(schema, value) ==
  [m \in {w \in DOMAIN schema.writes : value[w] \notin schema.writes[w]} |-> Stored(schema.type[m], value[m])]

Accepts(schema, json, m) ==
  LET row == schema.reads[m] IN
  IF m \in DOMAIN json
  THEN /\ row.accept.form = schema.type[m].form
       /\ \/ json[m] = Empty /\ row.accept.form[1] = "array"
          \/ row.accept.lo <= json[m] /\ json[m] <= row.accept.hi
  ELSE ~row.required

Loads(schema, json) == \A m \in DOMAIN schema.reads : Accepts(schema, json, m)

FromJson(schema, json) ==
  [m \in DOMAIN schema.type |->
     IF m \notin DOMAIN schema.reads THEN schema.type[m].init
     ELSE IF m \in DOMAIN json THEN json[m]
     ELSE LET row == schema.reads[m] IN
          IF "*" \in row.with \/ row.with \cap DOMAIN json # {} THEN row.absent ELSE schema.type[m].init]
=============================================================================
