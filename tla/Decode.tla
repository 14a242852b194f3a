------------------------------- MODULE Decode -------------------------------
(***************************************************************************)
(* Checks 1 to 5 of the bundle loader (internal/gen/load.go, Load) over the  *)
(* decoders of internal/gen/decode.go.  A bundle is decoded twice: a        *)
(* lenient pass skips the fields it does not know, the format version and   *)
(* the capabilities it found are checked, and a strict pass refuses what is *)
(* unknown.                                                                 *)
(***************************************************************************)
EXTENDS WireSchema, SequencesExt

CONSTANTS Bundles,            \* the bundles under study
          AllFields,          \* the fields they hold, at any depth
          SupportedFeatures,  \* capabilities this generator implements
          KnownKinds          \* the operation kinds it implements

ASSUME BundlesAssumption ==
  /\ \A t \in AllFields : t.field \in Nat /\ t.body \in Seq(AllFields)
  /\ \A b \in Bundles : b.fields \in Seq(AllFields)

SupportedFormatVersion == 1

VARIABLES
  bundle,    \* [oversized, fields]: the bundle being loaded, never changed
  pass,      \* "lenient", "versions" or "strict"
  open,      \* the messages being decoded, the root first
  decoded,   \* what this pass has read, in order
  scout,     \* what the lenient pass read
  verdict    \* "running", "decoded", "invalid" or "incompatible"

decodeVars == <<bundle, pass, open, decoded, scout, verdict>>

lenient == pass = "lenient"

(* A message being decoded: the fields ahead, and those already read; a     *)
(* list holds one entry per value.                                          *)
Body(msg, fields) == [msg |-> msg, rest |-> fields, seen |-> <<>>, kind |-> 0]
Root(b) == <<Body("RuleBundle", b.fields)>>

DecodeTypeOK ==
  /\ pass \in {"lenient", "versions", "strict"}
  /\ \A k \in DOMAIN open : open[k].msg \in Messages /\ open[k].seen \in Seq(Nat)
  /\ \A i \in DOMAIN decoded : decoded[i].field \in FieldsOf(decoded[i].msg)
  /\ verdict \in {"running", "decoded", "invalid", "incompatible"}

------------------------------------------------------------------------------
Times(s, f) == Cardinality({i \in DOMAIN s : s[i] = f})

Message == open[Len(open)]
Field == Head(Message.rest)

(* seen.mark: a bit set of 64 fields, in which larger numbers leave no      *)
(* trace.                                                                   *)
Marked(f) == f < 64 /\ Times(Message.seen, f) > 0

DecodeInit ==
  /\ bundle \in Bundles
  /\ pass = "lenient"
  /\ open = Root(bundle)
  /\ decoded = <<>>
  /\ scout = <<>>
  /\ verdict = "running"

Refuse(why) ==
  /\ verdict' = why
  /\ UNCHANGED <<bundle, pass, open, decoded, scout>>

RefuseOversized ==
  /\ verdict = "running" /\ lenient /\ open = Root(bundle) /\ bundle.oversized
  /\ Refuse("invalid")

Decoding ==
  verdict = "running" /\ pass # "versions" /\ ~bundle.oversized
  /\ open # <<>>

Reading == Decoding /\ Message.rest # <<>>

(* The current message has read its next field, with these values.          *)
Took(fs) ==
  [Message EXCEPT !.rest = Tail(@), !.seen = @ \o fs,
                  !.kind = IF IsOperation(Message.msg) /\ Field.field = 1 THEN Field.value ELSE @]

(* decodeCountryAlias and decodeCapture mark a field before they know it,   *)
(* and decodeCountryAlias expects bytes of any.                             *)
Skippable ==
  /\ lenient
  /\ Message.msg \in {"CountryAlias", "Capture"} => ~Marked(Field.field)
  /\ Message.msg = "CountryAlias" => Field.wire = "bytes"

SkipUnknown ==
  /\ Reading /\ ~Knows(Message.msg, Field) /\ Skippable
  /\ open' = [open EXCEPT ![Len(open)] =
                IF Message.msg \in {"CountryAlias", "Capture"} THEN Took(<<Field.field>>)
                ELSE Took(<<>>)]
  /\ UNCHANGED <<bundle, pass, decoded, scout, verdict>>

RefuseUnknown ==
  Reading /\ ~Knows(Message.msg, Field) /\ ~Skippable /\ Refuse("invalid")

(* A known field is read once where it is singular, with its own wire type, *)
(* in range, and up to the limit of its list.                               *)
Vs == Values(Entry(Message.msg, Field).read, Field)

(* Mutant: a singular field may occur again.                                *)
AcceptableAgain ==
  LET e == Entry(Message.msg, Field)
  IN Readable(e.read, Field) /\ Times(Message.seen, Field.field) + Len(Vs) <= e.limit

Acceptable ==
  LET e == Entry(Message.msg, Field)
  IN /\ Readable(e.read, Field)
     /\ e.single => ~Marked(Field.field)
     /\ Times(Message.seen, Field.field) + Len(Vs) <= e.limit

RefuseField ==
  Reading /\ Knows(Message.msg, Field) /\ ~Acceptable /\ Refuse("invalid")

Read == [i \in DOMAIN Vs |->
           [msg |-> Message.msg, depth |-> Len(open), field |-> Field.field, value |-> Vs[i]]]

TakeField ==
  /\ Reading /\ Knows(Message.msg, Field) /\ Acceptable
  /\ decoded' = decoded \o Read
  /\ LET taken == [open EXCEPT ![Len(open)] = Took([i \in DOMAIN Vs |-> Field.field])]
         sub == Entry(Message.msg, Field).sub
     IN open' = IF sub = "" THEN taken ELSE Append(taken, Body(sub, Field.body))
  /\ UNCHANGED <<bundle, pass, scout, verdict>>

(* A node carries one branch of its oneof.  An operation has a kind, which  *)
(* only the strict pass resolves.                                           *)
Complete ==
  /\ Message.msg = "Node" => Cardinality({i \in DOMAIN Message.seen : Message.seen[i] >= 10}) = 1
  /\ IsOperation(Message.msg) =>
       /\ Times(Message.seen, 1) = 1
       /\ lenient \/ Message.kind \in KnownKinds

EndMessage ==
  /\ Decoding /\ Message.rest = <<>> /\ Complete
  /\ open' = SubSeq(open, 1, Len(open) - 1)
  /\ UNCHANGED <<bundle, pass, decoded, scout, verdict>>

RefuseIncomplete == Decoding /\ Message.rest = <<>> /\ ~Complete /\ Refuse("invalid")

EndLenientPass ==
  /\ verdict = "running" /\ lenient /\ open = <<>>
  /\ pass' = "versions"
  /\ scout' = decoded
  /\ UNCHANGED <<bundle, open, decoded, verdict>>

------------------------------------------------------------------------------
(* What a pass read of a root field, in order.                              *)
RootValues(log, f) ==
  LET of == SelectSeq(log, LAMBDA e : e.msg = "RuleBundle" /\ e.field = f)
  IN [i \in DOMAIN of |-> of[i].value]

FormatVersion == LET v == RootValues(scout, 1) IN IF v = <<>> THEN 0 ELSE v[1]

(* Check 4 answers for the first capability that is out of order or         *)
(* unknown, the order first.                                                *)
Disordered(ids, i) == i > 1 /\ ids[i] <= ids[i - 1]
Faults(ids) == {i \in DOMAIN ids : Disordered(ids, i) \/ ids[i] \notin SupportedFeatures}
VersionAnswer(version, ids) ==
  IF version # SupportedFormatVersion THEN "incompatible"
  ELSE IF Faults(ids) = {} THEN "running"
  ELSE LET i == CHOOSE i \in Faults(ids) : \A j \in Faults(ids) : i <= j
       IN IF Disordered(ids, i) THEN "invalid" ELSE "incompatible"

(* Mutant: the strict pass decodes into the bundle the lenient one filled.  *)
CheckVersionsKeeps ==
  /\ verdict = "running" /\ pass = "versions"
  /\ verdict' = VersionAnswer(FormatVersion, RootValues(scout, 3))
  /\ IF verdict' = "running"
     THEN pass' = "strict" /\ open' = Root(bundle)
     ELSE UNCHANGED <<pass, open>>
  /\ UNCHANGED <<bundle, decoded, scout>>

CheckVersions ==
  /\ verdict = "running" /\ pass = "versions"
  /\ verdict' = VersionAnswer(FormatVersion, RootValues(scout, 3))
  /\ IF verdict' = "running"
     THEN pass' = "strict" /\ open' = Root(bundle) /\ decoded' = <<>>
     ELSE UNCHANGED <<pass, open, decoded>>
  /\ UNCHANGED <<bundle, scout>>

EndStrictPass ==
  /\ verdict = "running" /\ pass = "strict" /\ open = <<>>
  /\ Refuse("decoded")

(* Every bundle gets an answer: decoding never stops without one, which is  *)
(* what the absence of deadlock says.                                       *)
Decided == verdict # "running" /\ UNCHANGED decodeVars

DecodeNext ==
  \/ RefuseOversized \/ SkipUnknown \/ RefuseUnknown \/ RefuseField \/ TakeField
  \/ EndMessage \/ RefuseIncomplete \/ EndLenientPass \/ CheckVersions \/ EndStrictPass
  \/ Decided

DecodeSpec == DecodeInit /\ [][DecodeNext]_decodeVars

------------------------------------------------------------------------------
(* Whether a body conforms to its message, whatever the order of its        *)
(* fields: to the V1 schema, or to what a later version may have made of it *)
(* by adding fields to the messages in newer, operations to a node          *)
(* ("oneof") and kinds to an operation ("kind").                            *)
Occurs(fields, f) == Cardinality({i \in DOMAIN fields : fields[i].field = f})
Held(msg, fields, f) ==
  LET Of(i) == Values(Entry(msg, fields[i]).read, fields[i])
      vs == {x \in (DOMAIN fields) \X (1 .. 10) :
               fields[x[1]].field = f /\ x[2] \in DOMAIN Of(x[1])}
  IN Cardinality(vs)
Branches(fields) == {i \in DOMAIN fields : fields[i].field \in 10 .. 16}
Strangers(msg, fields) == {i \in DOMAIN fields : ~Knows(msg, fields[i])}
KindOf(fields) == fields[CHOOSE i \in DOMAIN fields : fields[i].field = 1].value

V1 == {}
Later == Messages \cup {"oneof", "kind"}

Conforms(message, body, newer) ==
  LET conforms[x \in Messages \X Seq(AllFields)] ==
        LET msg == x[1]
            fields == x[2]
        IN /\ \A i \in DOMAIN fields \ Strangers(msg, fields) :
                LET e == Entry(msg, fields[i])
                IN /\ Readable(e.read, fields[i])
                   /\ e.single => Occurs(fields, fields[i].field) = 1
                   /\ Held(msg, fields, fields[i].field) <= e.limit
                   /\ e.sub # "" => conforms[<<e.sub, fields[i].body>>]
           /\ Strangers(msg, fields) # {} => msg \in newer
           /\ msg = "Node" =>
                \/ Cardinality(Branches(fields)) = 1
                \/ "oneof" \in newer /\ Branches(fields) = {} /\ Strangers(msg, fields) # {}
           /\ IsOperation(msg) =>
                Occurs(fields, 1) = 1 /\ (KindOf(fields) \in KnownKinds \/ "kind" \in newer)
  IN conforms[<<message, body>>]

Is(newer) == ~bundle.oversized /\ Conforms("RuleBundle", bundle.fields, newer)

RootFields(f) == SelectSeq(bundle.fields, LAMBDA t : t.field = f)
DeclaredVersion == IF RootFields(1) = <<>> THEN 0 ELSE Head(RootFields(1)).value
ListOf(ts) == FlattenSeq([i \in DOMAIN ts |-> Values("u32s", ts[i])])
DeclaredAnswer == VersionAnswer(DeclaredVersion, ListOf(RootFields(3)))

(* Whatever the order of the fields and wherever the fault is, a bundle is  *)
(* decoded exactly when it conforms to the V1 schema and its version and    *)
(* capabilities are supported; incompatible is answered only for a bundle   *)
(* some later version may have written; and a version fault is named before *)
(* unknown fields and kinds are, in every message but CountryAlias and      *)
(* Capture, while a node keeps an operation of V1 (Load, checks 1 to 5).    *)
VerdictIsDeclared ==
  verdict # "running" =>
    /\ verdict = "decoded" <=> DeclaredAnswer = "running" /\ Is(V1)
    /\ verdict = "incompatible" => DeclaredAnswer = "incompatible" /\ Is(Later)
    /\ DeclaredAnswer # "running" /\ Is(Later \ {"oneof", "CountryAlias", "Capture"}) =>
         verdict = DeclaredAnswer

(* load.go:48: whatever a later version adds, anywhere, its version gap is  *)
(* named before what it adds is refused.  It is not: decodeNode wants one   *)
(* operation it knows even in the lenient pass, and decodeCountryAlias and  *)
(* decodeCapture test the wire type and the repetition of unknown fields.   *)
GapNamedFirst ==
  verdict # "running" /\ DeclaredAnswer = "incompatible" /\ Is(Later) =>
    verdict = "incompatible"

(* The bundle that goes on is the one whose version and capabilities were   *)
(* checked: the strict pass reads exactly what the lenient pass had read,   *)
(* though only the latter's capabilities are handed to the validator.       *)
ScoutReadTheSame ==
  /\ DecodeTypeOK
  /\ verdict = "decoded" => decoded = scout

==============================================================================
