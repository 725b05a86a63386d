--------------------------- MODULE SnapshotProofs ---------------------------
(***************************************************************************)
(* TLC writes values that differ from a default or a full one in a single  *)
(* member.  That Agrees, which it evaluates for every type, is enough for  *)
(* every combination of the values of the members is proved here.          *)
(***************************************************************************)
EXTENDS Snapshot, TLAPS

\* What a reader is given, of a text written from v.
LEMMA WrittenMember ==
  ASSUME NEW s, NEW v, Agrees(s), Legal(s, v), NEW m \in DOMAIN ToJson(s, v)
  PROVE  /\ m \in DOMAIN s.type /\ v[m] \in s.type[m].codes \ s.writes[m]
         /\ ToJson(s, v)[m] = Stored(s.type[m], v[m])
  BY DEF ToJson, Legal, Agrees

\* What is left out has the value its absence stands for.
LEMMA OmittedMember ==
  ASSUME NEW s, NEW v, Agrees(s), Legal(s, v), NEW m \in DOMAIN s.type, m \notin DOMAIN ToJson(s, v)
  PROVE  /\ v[m] \in s.type[m].codes \cap s.writes[m]
         /\ ~s.reads[m].required
         /\ v[m] = Stored(s.type[m], v[m])
         /\ v[m] = Default(s.type[m], s.reads[m])
<1>1. v[m] \in s.type[m].codes \cap s.writes[m]
  BY DEF ToJson, Legal, Agrees
<1>2. AgreesOn(s.type[m], s.writes[m], s.reads[m])
  BY DEF Agrees
<1> QED
  BY <1>1, <1>2 DEF AgreesOn

\* A member that is always written is there, so that what depends on it is reset.
LEMMA DefaultTaken ==
  ASSUME NEW s, NEW v, Agrees(s), Legal(s, v), NEW m \in DOMAIN s.type, m \notin DOMAIN ToJson(s, v)
  PROVE  FromJson(s, ToJson(s, v))[m] = Default(s.type[m], s.reads[m])
<1> DEFINE json == ToJson(s, v)
           row == s.reads[m]
<1>1. FromJson(s, json)[m] =
        IF "*" \in row.with \/ row.with \cap DOMAIN json # {} THEN row.absent ELSE s.type[m].init
  BY DEF FromJson, Agrees
<1>2. \A w \in row.with \ {"*"} : w \in DOMAIN json
  BY DEF ToJson, Agrees
<1> QED
  BY <1>1, <1>2 DEF Default

LEMMA LoadsWritten ==
  ASSUME NEW s, NEW v, Agrees(s), Legal(s, v), Dumps(s, v)
  PROVE  Loads(s, ToJson(s, v))
<1> DEFINE json == ToJson(s, v)
<1> SUFFICES ASSUME NEW m \in DOMAIN s.reads PROVE Accepts(s, json, m)
  BY DEF Loads
<1>0. m \in DOMAIN s.type /\ m \in DOMAIN s.writes /\ AgreesOn(s.type[m], s.writes[m], s.reads[m])
  BY DEF Agrees
<1>1. CASE m \notin DOMAIN json
  BY <1>0, <1>1, OmittedMember DEF Accepts
<1>2. CASE m \in DOMAIN json
  <2>1. v[m] \in s.type[m].codes \ s.writes[m] /\ json[m] = Stored(s.type[m], v[m])
    BY <1>2, WrittenMember
  <2>2. AcceptsWritten(s.type[m], s.reads[m], v[m]) /\ s.reads[m].accept.form = s.type[m].form
    BY <1>0, <2>1 DEF AgreesOn
  <2>3. s.type[m].form \in {<<"string">>, <<"array", "string">>} => json[m] # Bytes
    <3>1. s.type[m].form \in {<<"string">>, <<"array", "string">>} => v[m] # Bytes
      BY <1>0 DEF Dumps
    <3>2. json[m] = v[m] \/ json[m] = 2
      BY <2>1 DEF Stored
    <3>3. s.type[m].form \in {<<"string">>, <<"array", "string">>} => s.type[m].form # <<"milliseconds">>
      OBVIOUS
    <3> QED
      BY <2>1, <3>1, <3>3 DEF Stored
  <2> QED
    BY <1>2, <2>1, <2>2, <2>3 DEF Accepts, AcceptsWritten
<1> QED
  BY <1>1, <1>2

\* The round trip of one value, for every schema that agrees with itself.
THEOREM AgreementRoundTrip ==
  ASSUME NEW s, NEW v, Agrees(s), Legal(s, v), Dumps(s, v)
  PROVE  /\ Loads(s, ToJson(s, v))
         /\ FromJson(s, ToJson(s, v)) = [m \in DOMAIN v |-> Stored(s.type[m], v[m])]
<1> DEFINE json == ToJson(s, v)
<1>1. DOMAIN s.type = DOMAIN v /\ DOMAIN s.reads = DOMAIN s.type
  BY DEF Legal, Agrees
<1>2. ASSUME NEW m \in DOMAIN s.type PROVE FromJson(s, json)[m] = Stored(s.type[m], v[m])
  <2>1. CASE m \in DOMAIN json
    <3>1. FromJson(s, json)[m] = json[m]
      BY <1>1, <2>1 DEF FromJson
    <3> QED
      BY <2>1, <3>1, WrittenMember
  <2>2. CASE m \notin DOMAIN json
    BY <2>2, OmittedMember, DefaultTaken
  <2> QED
    BY <2>1, <2>2
<1>3. FromJson(s, json) = [m \in DOMAIN s.type |-> FromJson(s, json)[m]]
  BY DEF FromJson
<1>4. [m \in DOMAIN s.type |-> FromJson(s, json)[m]] = [m \in DOMAIN v |-> Stored(s.type[m], v[m])]
  BY <1>1, <1>2
<1> QED
  BY <1>3, <1>4, LoadsWritten

----------------------------------------------------------------------------
\* What is in a text is what was written of the original, as far as it was not removed.
Kept(json) ==
    /\ DOMAIN json = DOMAIN ToJson(Schemas[type], original) \ removed
    /\ json = [m \in DOMAIN json |-> ToJson(Schemas[type], original)[m]]
    /\ \A m \in removed : ~Schemas[type].reads[m].required

\* The inductive invariant: a value in memory is one the struct can hold, until something
\* was read it is the original, and a whole text was written from it.
IInv ==
    /\ type \in Types /\ DOMAIN text = {"is", "members", "release"}
    /\ Legal(Schemas[type], original)
    /\ Legal(Schemas[type], value)
    /\ pc \notin {"loaded", "rejected"} => value = original
    /\ pc \in {"dumped", "written", "buffered"} => Dumps(Schemas[type], original) /\ medium = "file"
    /\ pc \in {"composed", "opened", "dumped", "buffered"} => text.is # "whole" /\ removed = {}
    /\ text.is = "whole" => Dumps(Schemas[type], original) /\ Kept(text.members)

LEMMA KeptWhole ==
  ASSUME NEW json, Kept(json), removed = {}
  PROVE  json = ToJson(Schemas[type], original)
<1> DEFINE full == ToJson(Schemas[type], original)
<1>1. full = [m \in DOMAIN full |-> full[m]]
  BY DEF ToJson
<1>2. DOMAIN json = DOMAIN full
  BY DEF Kept
<1> QED
  BY <1>1, <1>2 DEF Kept

\* A text that lacks what a reader does without is loaded.
LEMMA LoadsKept ==
  ASSUME NEW json, Agrees(Schemas[type]), Legal(Schemas[type], original), Dumps(Schemas[type], original), Kept(json)
  PROVE  Loads(Schemas[type], json)
<1> DEFINE s == Schemas[type]
           full == ToJson(s, original)
<1> SUFFICES ASSUME NEW m \in DOMAIN s.reads PROVE Accepts(s, json, m)
  BY DEF Loads
<1>1. Accepts(s, full, m)
  BY LoadsWritten DEF Loads
<1>2. CASE m \in DOMAIN json
  <2>1. m \in DOMAIN full /\ json[m] = full[m]
    BY <1>2 DEF Kept
  <2> QED
    BY <1>1, <1>2, <2>1 DEF Accepts
<1>3. CASE m \notin DOMAIN json
  <2>1. CASE m \in removed
    BY <1>3, <2>1 DEF Accepts, Kept
  <2>2. CASE m \notin removed
    <3>1. m \notin DOMAIN full
      BY <1>3, <2>2 DEF Kept
    <3> QED
      BY <1>1, <1>3, <3>1 DEF Accepts
  <2> QED
    BY <2>1, <2>2
<1> QED
  BY <1>2, <1>3

\* What a member is read as, when the text that was written of it may lack some.
ReadAs(m, c) ==
    LET kind == Schemas[type].type[m]
        row  == Schemas[type].reads[m] IN
    \/ m \notin removed /\ c = Stored(kind, original[m])
    \/ /\ m \in removed \cup {n \in DOMAIN original : Schemas[type].reads[n].with \cap removed # {}}
       /\ c \in {kind.init} \cup (kind.codes \cap {Unset})
       /\ kind.init \in kind.codes

LEMMA ReadKept ==
  ASSUME NEW json, Agrees(Schemas[type]), Legal(Schemas[type], original), Kept(json), NEW m \in DOMAIN original
  PROVE  ReadAs(m, FromJson(Schemas[type], json)[m])
<1> DEFINE s == Schemas[type]
           full == ToJson(s, original)
           row == s.reads[m]
           kind == s.type[m]
           read == FromJson(s, json)[m]
<1>0. m \in DOMAIN s.type /\ m \in DOMAIN s.reads /\ AgreesOn(kind, s.writes[m], row)
  BY DEF Legal, Agrees
<1>1. CASE m \in DOMAIN json
  <2>1. read = json[m]
    BY <1>0, <1>1 DEF FromJson
  <2>2. m \in DOMAIN full /\ m \notin removed /\ json[m] = full[m]
    BY <1>1 DEF Kept
  <2> QED
    BY <2>1, <2>2, WrittenMember DEF ReadAs
<1>2. CASE m \notin DOMAIN json
  <2>1. read = IF "*" \in row.with \/ row.with \cap DOMAIN json # {} THEN row.absent ELSE kind.init
    BY <1>0, <1>2 DEF FromJson
  <2>2. read \in {kind.init, Default(kind, row)}
    BY <2>1 DEF Default
  <2>3. CASE m \in removed
    <3>1. ~row.required
      BY <2>3 DEF Kept
    <3>2. kind.init \in kind.codes /\ Default(kind, row) \in {kind.init} \cup (kind.codes \cap {Unset})
      BY <1>0, <3>1 DEF AgreesOn
    <3> QED
      BY <2>2, <2>3, <3>2 DEF ReadAs
  <2>4. CASE m \notin removed
    <3>1. m \notin DOMAIN full
      BY <1>2, <2>4 DEF Kept
    <3>2. ~row.required /\ original[m] = Stored(kind, original[m]) /\ original[m] = Default(kind, row)
      BY <1>0, <3>1, OmittedMember
    <3>3. kind.init \in kind.codes
      BY <1>0, <3>2 DEF AgreesOn
    <3>4. CASE read = Default(kind, row)
      BY <2>4, <3>2, <3>4 DEF ReadAs
    <3>5. CASE read # Default(kind, row)
      <4>1. read = kind.init /\ row.with # {} /\ "*" \notin row.with /\ row.with \cap DOMAIN json = {}
        BY <2>1, <3>5 DEF Default
      <4>2. PICK w \in row.with : w \notin DOMAIN json
        BY <4>1
      <4>3. w \in DOMAIN full
        BY <1>0, <4>1, <4>2 DEF ToJson, Agrees
      <4>4. w \in removed
        BY <4>2, <4>3 DEF Kept
      <4> QED
        BY <3>3, <4>1, <4>2, <4>4 DEF ReadAs
    <3> QED
      BY <3>4, <3>5
  <2> QED
    BY <2>3, <2>4
<1> QED
  BY <1>1, <1>2

LEMMA ReadLegal ==
  ASSUME NEW json, Agrees(Schemas[type]), Legal(Schemas[type], original), Kept(json)
  PROVE  Legal(Schemas[type], FromJson(Schemas[type], json))
<1> DEFINE s == Schemas[type]
<1>1. DOMAIN FromJson(s, json) = DOMAIN s.type /\ DOMAIN original = DOMAIN s.type
  BY DEF FromJson, Legal
<1>2. ASSUME NEW m \in DOMAIN s.type PROVE FromJson(s, json)[m] \in s.type[m].codes
  <2>1. ReadAs(m, FromJson(s, json)[m])
    BY <1>1, ReadKept
  <2>2. Stored(s.type[m], original[m]) \in s.type[m].codes
    BY <1>1 DEF Legal, Agrees, AgreesOn
  <2> QED
    BY <2>1, <2>2 DEF ReadAs
<1> QED
  BY <1>1, <1>2 DEF Legal

----------------------------------------------------------------------------
\* The options leave out only what the reader of a System does without.
LEMMA OptionsOptional ==
  ASSUME NEW left \in Options, NEW m \in left
  PROVE  ~Schemas[type].reads[m].required
<1>1. type = "System" /\ m \in {"meta", "raw"}
  BY DEF Options
<1>2. Schemas["System"].reads = from_json
  BY DEF Schemas, Schema
<1>3. from_json[m] = Contains(Object)
  BY <1>1 DEF from_json
<1>4. ~Contains(Object).required
  BY DEF Contains, At
<1>5. Schemas[type].reads[m] = Contains(Object)
  BY <1>1, <1>2, <1>3
<1> QED
  BY <1>4, <1>5

LEMMA InitIInv == Init => IInv
  BY InputsLegal DEF Init, IInv, NoText

LEMMA NextIInv ==
  ASSUME \A t \in Types : Agrees(Schemas[t]), IInv, [Next]_vars
  PROVE  IInv'
<1> DEFINE s == Schemas[type]
<1>0. Agrees(s) /\ Legal(s, original) /\ Legal(s, value)
  BY DEF IInv
<1> USE DEF IInv
<1>1. CASE Open
  BY <1>1 DEF Open, Torn, NoText
<1>2. CASE Dump
  <2>1. CASE ~Dumps(s, value)
    BY <1>2, <2>1 DEF Dump, Kept
  <2>2. CASE Dumps(s, value) /\ medium = "file"
    BY <1>2, <2>2 DEF Dump
  <2>3. CASE Dumps(s, value) /\ medium # "file"
    <3> DEFINE json == ToJson(s, value)
    <3>1. PICK left \in Options :
            /\ text' = Whole([m \in DOMAIN json \ left |-> json[m]])
            /\ removed' = left \cap DOMAIN json /\ pc' = "saved"
      BY <1>2, <2>3 DEF Dump
    <3>2. UNCHANGED <<type, medium, original, value>> /\ value = original
      BY <1>2, <2>3 DEF Dump
    <3>3. text'.members = [m \in DOMAIN json \ left |-> json[m]] /\ DOMAIN text' = {"is", "members", "release"}
      BY <3>1 DEF Whole
    <3>4. \A m \in removed' : ~s.reads[m].required
      BY <3>1, OptionsOptional
    <3>5. Kept(text.members)'
      BY <3>1, <3>2, <3>3, <3>4 DEF Kept
    <3> QED
      BY <2>3, <3>1, <3>2, <3>3, <3>5
  <2> QED
    BY <2>1, <2>2, <2>3
<1>3. CASE Stream
  <2>1. CASE UNCHANGED text
    BY <1>3, <2>1 DEF Stream, Kept
  <2>2. CASE text' = Whole(ToJson(s, value)) /\ pc' = "written"
    <3>1. UNCHANGED <<type, medium, original, value, removed>> /\ value = original /\ removed = {} /\ Dumps(s, original)
      BY <1>3, <2>2 DEF Stream
    <3>2. text'.members = ToJson(s, original) /\ DOMAIN text' = {"is", "members", "release"}
      BY <2>2, <3>1 DEF Whole
    <3>3. Kept(text.members)'
      BY <3>1, <3>2 DEF Kept, ToJson
    <3> QED
      BY <1>3, <2>2, <3>1, <3>2, <3>3 DEF Stream
  <2> QED
    BY <1>3, <2>1, <2>2 DEF Stream
<1>4. CASE Close
  <2>1. CASE UNCHANGED text
    BY <1>4, <2>1 DEF Close, Kept
  <2>2. CASE pc = "buffered" /\ text' = Whole(ToJson(s, value))
    <3>1. UNCHANGED <<type, medium, original, value, removed>> /\ value = original /\ removed = {} /\ Dumps(s, original)
      BY <1>4, <2>2 DEF Close
    <3>2. text'.members = ToJson(s, original) /\ DOMAIN text' = {"is", "members", "release"}
      BY <2>2, <3>1 DEF Whole
    <3>3. Kept(text.members)'
      BY <3>1, <3>2 DEF Kept, ToJson
    <3> QED
      BY <1>4, <2>2, <3>1, <3>2, <3>3 DEF Close
  <2> QED
    BY <1>4, <2>1, <2>2 DEF Close
<1>5. CASE Crash
  BY <1>5 DEF Crash, Kept
<1>6. CASE Age
  <2>1. PICK gone \in {{m} : m \in Optional} \cup {Optional} :
          removed' = gone /\ text' = [text EXCEPT !.members = [m \in DOMAIN @ \ gone |-> @[m]]]
    BY <1>6 DEF Age
  <2>2. UNCHANGED <<type, medium, original, value, pc>> /\ removed = {} /\ text.is = "whole" /\ pc = "saved"
    BY <1>6 DEF Age
  <2>3. DOMAIN text' = {"is", "members", "release"} /\ text'.is = "whole"
    BY <2>1, <2>2
  <2>4. text'.members = [m \in DOMAIN text.members \ gone |-> text.members[m]]
    BY <2>1
  <2>5. \A m \in gone : ~s.reads[m].required
    BY DEF Optional
  <2>6. Kept(text.members)'
    BY <2>1, <2>2, <2>4, <2>5 DEF Kept
  <2> QED
    BY <2>1, <2>2, <2>3, <2>6
<1>7. CASE Outdate
  <2>1. UNCHANGED <<type, medium, original, value, removed, pc>> /\ text' = [text EXCEPT !.release = "other"]
    BY <1>7 DEF Outdate
  <2>2. text'.is = text.is /\ text'.members = text.members /\ DOMAIN text' = DOMAIN text /\ pc = "saved"
    BY <1>7, <2>1 DEF Outdate
  <2> QED
    BY <2>1, <2>2 DEF Kept
<1>8. CASE Read
  <2>1. UNCHANGED <<type, medium, original, text, removed>> /\ pc' \in {"loaded", "rejected"}
    BY <1>8 DEF Read
  <2>2. value' = value \/ (text.is = "whole" /\ value' = FromJson(s, text.members))
    BY <1>8 DEF Read
  <2>3. Legal(s, value')
    <3>1. CASE value' = value
      BY <1>0, <3>1
    <3>2. CASE text.is = "whole" /\ value' = FromJson(s, text.members)
      <4>1. Kept(text.members)
        BY <3>2
      <4>2. Legal(s, FromJson(s, text.members))
        BY ONLY <1>0, <4>1, ReadLegal
      <4> QED
        BY ONLY <3>2, <4>2
    <3> QED
      BY <2>2, <3>1, <3>2
  <2>4. text.is = "whole" => Kept(text.members)'
    BY <2>1 DEF Kept
  <2> QED
    BY <2>1, <2>3, <2>4
<1>9. CASE Rewrite
  BY <1>9 DEF Rewrite, NoText
<1>10. CASE UNCHANGED vars
  BY <1>10 DEF vars, Kept
<1> QED
  BY <1>1, <1>2, <1>3, <1>4, <1>5, <1>6, <1>7, <1>8, <1>9, <1>10 DEF Next

----------------------------------------------------------------------------
\* What was read is what the text says.
RInv ==
    pc \in {"loaded", "rejected"} /\ text.is = "whole" /\ text.release = "this"
      => pc = "loaded" /\ value = FromJson(Schemas[type], text.members)

LEMMA NextRInv ==
  ASSUME \A t \in Types : Agrees(Schemas[t]), IInv, RInv, [Next]_vars
  PROVE  RInv'
<1>1. CASE Read
  <2>1. text' = text /\ type' = type
    BY <1>1 DEF Read
  <2>2. CASE text.is = "whole" /\ text.release = "this"
    <3>1. Loads(Schemas[type], text.members)
      BY <2>2, LoadsKept DEF IInv
    <3>2. Compatible
      BY <2>2 DEF Compatible
    <3> QED
      BY <1>1, <2>1, <2>2, <3>1, <3>2 DEF Read, RInv
  <2> QED
    BY <2>1, <2>2 DEF RInv
<1>2. CASE Next /\ ~Read
  <2>1. pc' \notin {"loaded", "rejected"}
    BY <1>2 DEF Next, Open, Dump, Stream, Close, Crash, Age, Outdate, Rewrite
  <2> QED
    BY <2>1 DEF RInv
<1>3. CASE UNCHANGED vars
  BY <1>3 DEF vars, RInv
<1> QED
  BY <1>1, <1>2, <1>3

LEMMA Invariants ==
  ASSUME \A t \in Types : Agrees(Schemas[t])
  PROVE  Spec => [](IInv /\ RInv)
<1>1. Init => IInv /\ RInv
  BY InitIInv DEF Init, RInv
<1>2. IInv /\ RInv /\ [Next]_vars => (IInv /\ RInv)'
  BY NextIInv, NextRInv
<1> QED
  BY <1>1, <1>2, PTL DEF Spec

\* What is written whole is read as it was, whatever the values of its members are, and
\* so is what was loaded of an older text when it is written again.
THEOREM RoundTripAlways ==
  ASSUME \A t \in Types : Agrees(Schemas[t])
  PROVE  Spec => []RoundTrip
<1>1. ASSUME IInv, RInv PROVE RoundTrip
  <2> SUFFICES ASSUME pc \in {"loaded", "rejected"}, text.is = "whole", text.release = "this", removed = {}
               PROVE  pc = "loaded" /\ value = [m \in DOMAIN original |-> Stored(Schemas[type].type[m], original[m])]
    BY DEF RoundTrip
  <2>1. pc = "loaded" /\ value = FromJson(Schemas[type], text.members)
    BY <1>1 DEF RInv
  <2>2. Kept(text.members) /\ Agrees(Schemas[type]) /\ Legal(Schemas[type], original) /\ Dumps(Schemas[type], original)
    BY <1>1 DEF IInv
  <2>3. text.members = ToJson(Schemas[type], original)
    BY <2>2, KeptWhole
  <2> QED
    BY ONLY <2>1, <2>2, <2>3, AgreementRoundTrip
<1> QED
  BY <1>1, Invariants, PTL

\* A text without members the reader does without is loaded, what is missing is unknown,
\* and what is there is as it was.
THEOREM MissingIsUnknownAlways ==
  ASSUME \A t \in Types : Agrees(Schemas[t])
  PROVE  Spec => []MissingIsUnknown
<1>1. ASSUME IInv, RInv PROVE MissingIsUnknown
  <2> SUFFICES ASSUME pc \in {"loaded", "rejected"}, text.is = "whole", text.release = "this"
               PROVE  /\ pc = "loaded"
                      /\ \A m \in DOMAIN original : value[m] # Indeterminate /\ ReadAs(m, value[m])
    BY DEF MissingIsUnknown, ReadAs
  <2>1. pc = "loaded" /\ value = FromJson(Schemas[type], text.members)
    BY <1>1 DEF RInv
  <2>2. Kept(text.members) /\ Agrees(Schemas[type]) /\ Legal(Schemas[type], original) /\ Legal(Schemas[type], value)
    BY <1>1 DEF IInv
  <2>3. ASSUME NEW m \in DOMAIN original PROVE value[m] # Indeterminate /\ ReadAs(m, value[m])
    <3>1. ReadAs(m, value[m])
      BY ONLY <2>1, <2>2, <2>3, ReadKept
    <3>2. value[m] \in Schemas[type].type[m].codes
      BY ONLY <2>2, <2>3 DEF Legal
    <3>3. Indeterminate \notin Schemas[type].type[m].codes
      BY ONLY <2>2, <2>3 DEF Legal, Agrees, AgreesOn
    <3> QED
      BY ONLY <3>1, <3>2, <3>3
  <2> QED
    BY <2>1, <2>3
<1> QED
  BY <1>1, Invariants, PTL

----------------------------------------------------------------------------
\* What a file has been through: only a store is kept in one, a release leaves no mark in
\* it, and what is saved or read of it was written whole, or lost when it was closed.
FileInv ==
    medium = "file" =>
        /\ type = "RawStore" /\ text.release = "this"
        /\ pc = "saved" => text.is = "whole" \/ late
        /\ pc \in {"written", "loaded"} => text.is = "whole"

\* No file was written at first.
LEMMA InitFileInv == Init => FileInv
  BY DEF Init, FileInv, NoText

\* save_raw_store, a crash and load_raw_store keep to it.
LEMMA NextFileInv == ASSUME IInv, FileInv, [Next]_vars PROVE FileInv'
<1> USE DEF FileInv
<1> SUFFICES ASSUME medium' = "file" PROVE FileInv'
  OBVIOUS
<1>1. CASE Open
  BY <1>1 DEF Open, Torn, NoText
<1>2. CASE Dump
  BY <1>2 DEF Dump
<1>3. CASE Stream
  BY <1>3 DEF Stream, Whole
<1>4. CASE Close
  BY <1>4 DEF Close, Whole
<1>5. CASE Crash
  BY <1>5 DEF Crash
<1>6. CASE Age
  <2>1. PICK gone : text' = [text EXCEPT !.members = [m \in DOMAIN @ \ gone |-> @[m]]]
    BY <1>6 DEF Age
  <2>2. text'.is = text.is /\ text'.release = text.release
    BY <2>1 DEF IInv
  <2> QED
    BY <1>6, <2>2 DEF Age
<1>7. CASE Outdate
  BY <1>7 DEF Outdate
<1>8. CASE Read
  BY <1>8 DEF Read
<1>9. CASE Rewrite
  BY <1>9 DEF Rewrite, NoText
<1>10. CASE UNCHANGED vars
  BY <1>10 DEF vars
<1> QED
  BY <1>1, <1>2, <1>3, <1>4, <1>5, <1>6, <1>7, <1>8, <1>9, <1>10 DEF Next

\* save_raw_store that returns has written the whole store, unless its last bytes were
\* lost when the stream was closed; whatever befalls the file, load_raw_store returns the
\* store that was saved, or throws.
THEOREM SavedIsWholeAlways ==
  ASSUME \A t \in Types : Agrees(Schemas[t])
  PROVE  Spec => []SavedIsWhole
<1>1. Spec => []FileInv
  <2>1. Spec => []IInv
    BY Invariants, PTL
  <2>2. IInv /\ FileInv /\ [Next]_vars => FileInv'
    BY NextFileInv
  <2> QED
    BY <2>1, <2>2, InitFileInv, PTL DEF Spec
<1>2. ASSUME IInv, RInv, FileInv PROVE SavedIsWhole
  <2>1. ASSUME medium = "file", pc = "saved" PROVE text.is = "whole" \/ late
    BY <1>2, <2>1 DEF FileInv
  <2>2. ASSUME medium = "file", pc = "loaded", removed = {}
        PROVE  value = [m \in DOMAIN original |-> Stored(Schemas[type].type[m], original[m])]
    <3>1. text.is = "whole" /\ text.release = "this"
      BY <1>2, <2>2 DEF FileInv
    <3>2. value = FromJson(Schemas[type], text.members)
      BY <1>2, <2>2, <3>1 DEF RInv
    <3>3. Kept(text.members) /\ Agrees(Schemas[type]) /\ Legal(Schemas[type], original) /\ Dumps(Schemas[type], original)
      BY <1>2, <3>1 DEF IInv
    <3>4. text.members = ToJson(Schemas[type], original)
      BY <2>2, <3>3, KeptWhole
    <3> QED
      BY ONLY <3>2, <3>3, <3>4, AgreementRoundTrip
  <2> QED
    BY <2>1, <2>2 DEF SavedIsWhole
<1> QED
  BY <1>1, <1>2, Invariants, PTL
=============================================================================
