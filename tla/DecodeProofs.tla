---------------------------- MODULE DecodeProofs ----------------------------
(***************************************************************************)
(* For every bundle, the two passes of Load read the same: the capabilities *)
(* that are handed to the validator come from the lenient pass, everything  *)
(* else from the strict one (load.go, Load).  The argument is a simulation: *)
(* the strict pass follows the steps the lenient one took, and can neither  *)
(* leave them, because a field it knows is read alike, nor stop before      *)
(* their end, because both end when no message is open.                     *)
(***************************************************************************)
EXTENDS Decode, TLAPS, SequenceTheorems

(* Each message the schema nests is one of its messages.                    *)
LEMMA EntriesNest ==
  /\ \A fields, type : \A e \in One(fields, type) : e.sub = ""
  /\ \A fields, type, limit : \A e \in Many(fields, type, limit) : e.sub = ""
  /\ \A field, msg, limit : \A e \in Each(field, msg, limit) : e.sub = msg
  /\ \A field, msg : \A e \in Branch(field, msg) : e.sub = msg
<1>1. \A fields, type, single, limit, sub : \A e \in Entries(fields, type, single, limit, sub) : e.sub = sub
  BY DEF Entries
<1> QED BY <1>1 DEF One, Many, Each, Branch

LEMMA NestedMessages ==
  ASSUME NEW msg \in Messages, NEW e \in Schema[msg]
  PROVE  e.sub \in Messages \cup {""}
<1> DEFINE Known == {"RuleBundle", "IdentifierDefinition", "Source", "IdentifierDispatcher",
                     "CountryAlias", "DispatchTarget", "Program", "Capture", "Node"} \cup Operations
<1>1. Messages = Known
  BY DEF Messages, Schema, Operations
<1>2. ASSUME NEW m \in Operations PROVE \A x \in Schema[m] : x.sub = ""
  <2>1. \A x \in Kind : x.sub = ""
    BY EntriesNest DEF Kind
  <2>2. \A x \in stringParams \cup integerParams \cup predicateParams : x.sub = ""
    BY EntriesNest DEF stringParams, integerParams, predicateParams
  <2>3. \A x \in canonicalizationParams \cup assertionParams \cup checksumParams \cup callParams : x.sub = ""
    BY EntriesNest DEF canonicalizationParams, assertionParams, checksumParams, callParams
  <2>4. Schema[m] \subseteq Kind \cup (stringParams \cup integerParams \cup predicateParams)
                      \cup (canonicalizationParams \cup assertionParams \cup checksumParams \cup callParams)
    BY <1>2 DEF Schema, Operations
  <2> QED BY <2>1, <2>2, <2>3, <2>4
<1>3. CASE msg \in Operations
  BY <1>2, <1>3
<1>4. CASE msg = "RuleBundle"
  <2>1. e \in decodeBundle
    BY <1>4 DEF Schema
  <2>2. e.sub \in {"", "IdentifierDefinition", "Program", "IdentifierDispatcher"}
    <3>1. \A x \in One({1}, "u32") \cup One({2}, "str") \cup Many({3}, "u32s", Unlimited)
                       \cup One({4}, "bytes") : x.sub = ""
      BY EntriesNest
    <3>2. /\ \A x \in Each(6, "IdentifierDefinition", Unlimited) : x.sub = "IdentifierDefinition"
          /\ \A x \in Each(7, "Program", Unlimited) : x.sub = "Program"
          /\ \A x \in Each(8, "IdentifierDispatcher", Unlimited) : x.sub = "IdentifierDispatcher"
      BY EntriesNest
    <3> QED BY <2>1, <3>1, <3>2 DEF decodeBundle
  <2> QED BY <1>1, <2>2
<1>5. CASE msg = "IdentifierDefinition"
  <2>1. e \in decodeIdentifier
    BY <1>5 DEF Schema
  <2>2. e.sub \in {"", "Source"}
    <3>1. \A x \in One({1, 4, 5, 6}, "u32") \cup One({2, 3, 7}, "str") \cup One({9}, "enum") : x.sub = ""
      BY EntriesNest
    <3>2. \A x \in Each(8, "Source", Unlimited) : x.sub = "Source"
      BY EntriesNest
    <3> QED BY <2>1, <3>1, <3>2 DEF decodeIdentifier
  <2> QED BY <1>1, <2>2
<1>6. CASE msg = "IdentifierDispatcher"
  <2>1. e \in decodeDispatcher
    BY <1>6 DEF Schema
  <2>2. e.sub \in {"", "CountryAlias", "DispatchTarget"}
    BY <2>1, EntriesNest DEF decodeDispatcher
  <2> QED BY <1>1, <2>2
<1>7. CASE msg = "Program"
  <2>1. e \in decodeProgram
    BY <1>7 DEF Schema
  <2>2. e.sub \in {"", "Node", "Capture"}
    BY <2>1, EntriesNest DEF decodeProgram
  <2> QED BY <1>1, <2>2
<1>8. CASE msg = "Node"
  <2>1. e \in decodeNode
    BY <1>8 DEF Schema
  <2>2. e.sub \in {""} \cup Operations
    BY <2>1, EntriesNest DEF decodeNode, Operations
  <2> QED BY <1>1, <2>2
<1>9. CASE msg \in {"Source", "CountryAlias", "DispatchTarget", "Capture"}
  <2>1. e \in decodeSource \cup decodeCountryAlias \cup decodeTarget \cup decodeCapture
    BY <1>9 DEF Schema
  <2> QED BY <2>1, EntriesNest DEF decodeSource, decodeCountryAlias, decodeTarget, decodeCapture
<1> QED BY <1>1, <1>3, <1>4, <1>5, <1>6, <1>7, <1>8, <1>9

LEMMA EntryFound ==
  ASSUME NEW msg \in Messages, NEW t, Knows(msg, t)
  PROVE  Entry(msg, t) \in Schema[msg] /\ Entry(msg, t).sub \in Messages \cup {""}
<1>1. \E e \in Schema[msg] : e.field = t.field
  BY DEF Knows, FieldsOf
<1>2. Entry(msg, t) \in Schema[msg]
  BY <1>1 DEF Entry
<1> QED BY <1>2, NestedMessages

------------------------------------------------------------------------------
(* What the decoders hold: the fields ahead are fields of the bundle, and   *)
(* what has been read is a known field of a known message.                  *)
Numbered == {t.value : t \in AllFields}
BodyType == [msg : Messages, rest : Seq(AllFields), seen : Seq(Nat), kind : {0} \cup Numbered]
ReadType ==
  {e \in [msg : Messages, depth : Nat, field : Nat, value : Numbered] : e.field \in FieldsOf(e.msg)}

TypeInv ==
  /\ DecodeTypeOK /\ bundle \in Bundles
  /\ open \in Seq(BodyType) /\ decoded \in Seq(ReadType)

LEMMA OpenedType ==
  ASSUME NEW msg \in Messages, NEW fields \in Seq(AllFields)
  PROVE  Body(msg, fields) \in BodyType
<1>1. <<>> \in Seq(Nat)
  OBVIOUS
<1> QED BY <1>1 DEF Body, BodyType

LEMMA RootType ==
  ASSUME NEW b \in Bundles
  PROVE  Root(b) \in Seq(BodyType)
<1>1. "RuleBundle" \in Messages
  BY DEF Messages, Schema
<1>2. Body("RuleBundle", b.fields) \in BodyType
  BY <1>1, OpenedType, BundlesAssumption
<1> QED BY <1>2 DEF Root

LEMMA ReadingType ==
  ASSUME TypeInv, open # <<>>
  PROVE  /\ Len(open) \in Nat \ {0} /\ Message \in BodyType
         /\ Message.rest # <<>> => Field \in AllFields /\ Tail(Message.rest) \in Seq(AllFields)
<1>1. Len(open) \in Nat \ {0} /\ Message \in BodyType
  BY DEF TypeInv, Message
<1>2. Message.rest \in Seq(AllFields)
  BY <1>1 DEF BodyType
<1> QED BY <1>1, <1>2, HeadTailProperties DEF Field

(* The values of a field, packed or not.                                    *)
LEMMA ValuesType ==
  ASSUME NEW type, NEW t \in AllFields
  PROVE  Values(type, t) \in Seq(Numbered)
<1>1. t.body \in Seq(AllFields)
  BY BundlesAssumption
<1>2. CASE type \in Lists /\ t.wire = "bytes"
  <2>1. Values(type, t) = [i \in 1 .. Len(t.body) |-> t.body[i].value]
    BY <1>1, <1>2 DEF Values
  <2>2. \A i \in 1 .. Len(t.body) : t.body[i].value \in Numbered
    BY <1>1 DEF Numbered
  <2> QED BY <1>1, <2>1, <2>2
<1>3. CASE ~(type \in Lists /\ t.wire = "bytes")
  <2>1. t.value \in Numbered
    BY DEF Numbered
  <2> QED BY <1>3, <2>1 DEF Values
<1> QED BY <1>2, <1>3

LEMMA TookType ==
  ASSUME TypeInv, open # <<>>, Message.rest # <<>>, NEW fs \in Seq(Nat)
  PROVE  Took(fs) \in BodyType
<1>1. /\ Message \in BodyType /\ Field \in AllFields /\ Tail(Message.rest) \in Seq(AllFields)
  BY ReadingType
<1>2. Message.seen \o fs \in Seq(Nat)
  BY <1>1 DEF BodyType
<1>3. Field.value \in Numbered
  BY <1>1 DEF Numbered
<1> QED BY <1>1, <1>2, <1>3 DEF Took, BodyType

LEMMA ReplaceType ==
  ASSUME TypeInv, open # <<>>, NEW m \in BodyType
  PROVE  [open EXCEPT ![Len(open)] = m] \in Seq(BodyType)
BY DEF TypeInv

LEMMA TypeStep == TypeInv /\ [DecodeNext]_decodeVars => TypeInv'
<1> SUFFICES ASSUME TypeInv, [DecodeNext]_decodeVars PROVE TypeInv'
  OBVIOUS
<1>0. ASSUME bundle' \in Bundles, open' \in Seq(BodyType), decoded' \in Seq(ReadType),
             pass' \in {"lenient", "versions", "strict"},
             verdict' \in {"running", "decoded", "invalid", "incompatible"}
      PROVE  TypeInv'
  <2>1. \A k \in DOMAIN open' : open'[k].msg \in Messages /\ open'[k].seen \in Seq(Nat)
    <3>1. \A k \in DOMAIN open' : open'[k] \in BodyType
      BY <1>0
    <3> QED BY <3>1 DEF BodyType
  <2>2. \A i \in DOMAIN decoded' : decoded'[i].field \in FieldsOf(decoded'[i].msg)
    BY <1>0 DEF ReadType
  <2> QED BY <1>0, <2>1, <2>2 DEF TypeInv, DecodeTypeOK
<1>1. /\ bundle \in Bundles /\ open \in Seq(BodyType) /\ decoded \in Seq(ReadType)
      /\ pass \in {"lenient", "versions", "strict"}
      /\ verdict \in {"running", "decoded", "invalid", "incompatible"}
  BY DEF TypeInv, DecodeTypeOK
<1>2. CASE RefuseOversized \/ RefuseUnknown \/ RefuseField \/ RefuseIncomplete
  <2>1. verdict' = "invalid" /\ UNCHANGED <<bundle, pass, open, decoded>>
    BY <1>2 DEF RefuseOversized, RefuseUnknown, RefuseField, RefuseIncomplete, Refuse
  <2> QED BY <1>0, <1>1, <2>1
<1>3. CASE SkipUnknown
  <2>1. open # <<>> /\ Message.rest # <<>> /\ UNCHANGED <<bundle, pass, decoded, verdict>>
    BY <1>3 DEF SkipUnknown, Reading, Decoding
  <2>2. Field.field \in Nat
    BY <2>1, ReadingType, BundlesAssumption
  <2>3. Took(<<Field.field>>) \in BodyType /\ Took(<<>>) \in BodyType
    <3>1. <<Field.field>> \in Seq(Nat) /\ <<>> \in Seq(Nat)
      BY <2>2
    <3> QED BY <2>1, <3>1, TookType
  <2>4. open' \in Seq(BodyType)
    BY <1>3, <2>1, <2>3, ReplaceType DEF SkipUnknown
  <2> QED BY <1>0, <1>1, <2>1, <2>4
<1>4. CASE TakeField
  <2>1. /\ open # <<>> /\ Message.rest # <<>> /\ Knows(Message.msg, Field)
        /\ UNCHANGED <<bundle, pass, verdict>> /\ decoded' = decoded \o Read
    BY <1>4 DEF TakeField, Reading, Decoding
  <2>2. /\ Len(open) \in Nat /\ Message.msg \in Messages /\ Field \in AllFields
        /\ Field.field \in Nat /\ Field.body \in Seq(AllFields)
    BY <2>1, ReadingType, BundlesAssumption DEF BodyType
  <2>3. Vs \in Seq(Numbered)
    BY <2>2, ValuesType DEF Vs
  <2>4. DOMAIN Vs = 1 .. Len(Vs) /\ Len(Vs) \in Nat /\ \A i \in DOMAIN Vs : Vs[i] \in Numbered
    BY <2>3
  <2>5. Read \in Seq(ReadType)
    <3>1. Read = [i \in 1 .. Len(Vs) |-> Read[i]]
      BY <2>4 DEF Read
    <3>2. \A i \in 1 .. Len(Vs) : Read[i] \in ReadType
      BY <2>1, <2>2, <2>4 DEF Read, ReadType, Knows
    <3> QED BY <2>4, <3>1, <3>2
  <2>6. [i \in DOMAIN Vs |-> Field.field] \in Seq(Nat)
    BY <2>2, <2>4
  <2> DEFINE taken == [open EXCEPT ![Len(open)] = Took([i \in DOMAIN Vs |-> Field.field])]
             sub == Entry(Message.msg, Field).sub
  <2>7. taken \in Seq(BodyType)
    BY <2>1, <2>6, TookType, ReplaceType
  <2>8. sub # "" => Body(sub, Field.body) \in BodyType
    <3>1. sub \in Messages \cup {""}
      BY <2>1, <2>2, EntryFound
    <3> HIDE DEF sub
    <3> QED BY <2>2, <3>1, OpenedType
  <2>9. open' = IF sub = "" THEN taken ELSE Append(taken, Body(sub, Field.body))
    BY <1>4 DEF TakeField
  <2> HIDE DEF taken, sub
  <2>10. open' \in Seq(BodyType)
    <3>1. CASE sub = ""
      BY <2>7, <2>9, <3>1
    <3>2. CASE sub # ""
      BY <2>7, <2>8, <2>9, <3>2, AppendProperties
    <3> QED BY <3>1, <3>2
  <2>11. decoded' \in Seq(ReadType)
    BY <1>1, <2>1, <2>5
  <2> QED BY <1>0, <1>1, <2>1, <2>10, <2>11
<1>5. CASE EndMessage
  <2>1. open # <<>> /\ open' = SubSeq(open, 1, Len(open) - 1) /\ UNCHANGED <<bundle, pass, decoded, verdict>>
    BY <1>5 DEF EndMessage, Decoding
  <2>2. Len(open) \in Nat \ {0} /\ \A i \in 1 .. Len(open) - 1 : open[i] \in BodyType
    BY <1>1, <2>1
  <2>3. open' \in Seq(BodyType)
    BY <2>1, <2>2, SubSeqProperties
  <2> QED BY <1>0, <1>1, <2>1, <2>3
<1>6. CASE EndLenientPass
  <2>1. pass' = "versions" /\ UNCHANGED <<bundle, open, decoded, verdict>>
    BY <1>6 DEF EndLenientPass
  <2> QED BY <1>0, <1>1, <2>1
<1>7. CASE CheckVersions
  <2>1. verdict' \in {"running", "invalid", "incompatible"} /\ bundle' = bundle
    BY <1>7 DEF CheckVersions, VersionAnswer
  <2>2. \/ pass' = "strict" /\ open' = Root(bundle) /\ decoded' = <<>>
        \/ UNCHANGED <<pass, open, decoded>>
    BY <1>7 DEF CheckVersions
  <2>3. Root(bundle) \in Seq(BodyType)
    BY <1>1, RootType
  <2>4. bundle' \in Bundles /\ verdict' \in {"running", "decoded", "invalid", "incompatible"}
    BY <1>1, <2>1
  <2>5. CASE pass' = "strict" /\ open' = Root(bundle) /\ decoded' = <<>>
    <3>1. decoded' \in Seq(ReadType)
      BY <2>5
    <3> QED BY <1>0, <2>3, <2>4, <2>5, <3>1
  <2>6. CASE UNCHANGED <<pass, open, decoded>>
    BY <1>0, <1>1, <2>4, <2>6
  <2> QED BY <2>2, <2>5, <2>6
<1>8. CASE EndStrictPass
  <2>1. verdict' = "decoded" /\ UNCHANGED <<bundle, pass, open, decoded>>
    BY <1>8 DEF EndStrictPass, Refuse
  <2> QED BY <1>0, <1>1, <2>1
<1>9. CASE Decided \/ UNCHANGED decodeVars
  BY <1>0, <1>1, <1>9 DEF Decided, decodeVars
<1> QED BY <1>2, <1>3, <1>4, <1>5, <1>6, <1>7, <1>8, <1>9 DEF DecodeNext

------------------------------------------------------------------------------
(* A step of a pass, from what is open and what has been read: a message    *)
(* that is over is left, a known field is read.  What the lenient pass does *)
(* of a field it does not know is left open.                                *)
Inner(o) == o[Len(o)]
Ahead(o) == Head(Inner(o).rest)
EntryAhead(o) == Entry(Inner(o).msg, Ahead(o))
ValuesAhead(o) == Values(EntryAhead(o).read, Ahead(o))

AfterField(o) ==
  LET fs == [i \in DOMAIN ValuesAhead(o) |-> Ahead(o).field]
      taken == [o EXCEPT ![Len(o)] =
                  [Inner(o) EXCEPT !.rest = Tail(@), !.seen = @ \o fs,
                                   !.kind = IF IsOperation(Inner(o).msg) /\ Ahead(o).field = 1
                                            THEN Ahead(o).value ELSE @]]
  IN IF EntryAhead(o).sub = "" THEN taken
     ELSE Append(taken, Body(EntryAhead(o).sub, Ahead(o).body))
ReadAhead(o) ==
  [i \in DOMAIN ValuesAhead(o) |->
     [msg |-> Inner(o).msg, depth |-> Len(o), field |-> Ahead(o).field, value |-> ValuesAhead(o)[i]]]

At(o, log) == [open |-> o, decoded |-> log]
Over(o) == Inner(o).rest = <<>>
Known(o) == Inner(o).rest # <<>> /\ Knows(Inner(o).msg, Ahead(o))
Follows(x, y) ==
  /\ x.open # <<>>
  /\ Over(x.open) => y = At(SubSeq(x.open, 1, Len(x.open) - 1), x.decoded)
  /\ Known(x.open) => y = At(AfterField(x.open), x.decoded \o ReadAhead(x.open))

(* The first n steps of a pass over the bundle.                             *)
History(h, n) ==
  /\ n \in Nat /\ h[0] = At(Root(bundle), <<>>)
  /\ \A i \in 0 .. n - 1 : Follows(h[i], h[i + 1])

(* The lenient pass has a history; once it is over the history is complete, *)
(* and the strict pass stands somewhere on it.                              *)
PassInv ==
  /\ pass = "lenient" => \E n, h : History(h, n) /\ h[n] = At(open, decoded)
  /\ pass = "versions" =>
       open = <<>> /\ decoded = scout /\ \E n, h : History(h, n) /\ h[n] = At(open, decoded)
  /\ pass = "strict" =>
       \E n, h : /\ History(h, n) /\ h[n] = At(<<>>, scout)
                 /\ \E m \in 0 .. n : h[m] = At(open, decoded)
  /\ verdict = "decoded" => pass = "strict" /\ open = <<>>

(* Each step of a pass, as a step from one standing to the next.           *)
LEMMA FieldFollows ==
  ASSUME TakeField
  PROVE  /\ Follows(At(open, decoded), At(open', decoded')) /\ Known(open) /\ open # <<>>
         /\ At(open', decoded') = At(AfterField(open), decoded \o ReadAhead(open))
<1>1. open # <<>> /\ Message.rest # <<>> /\ Knows(Message.msg, Field)
  BY DEF TakeField, Reading, Decoding
<1>2. Message = Inner(open) /\ Field = Ahead(open) /\ Vs = ValuesAhead(open)
  BY DEF Message, Field, Vs, Inner, Ahead, ValuesAhead, EntryAhead
<1>3. Read = ReadAhead(open)
  BY <1>2 DEF Read, ReadAhead
<1>4. open' = AfterField(open)
  BY <1>2 DEF TakeField, AfterField, Took, EntryAhead
<1>5. decoded' = decoded \o ReadAhead(open)
  BY <1>3 DEF TakeField
<1> QED BY <1>1, <1>2, <1>4, <1>5 DEF Follows, At, Over, Known

(* The end of a message.                                                    *)
LEMMA EndFollows ==
  ASSUME EndMessage
  PROVE  /\ Follows(At(open, decoded), At(open', decoded')) /\ Over(open) /\ open # <<>>
         /\ At(open', decoded') = At(SubSeq(open, 1, Len(open) - 1), decoded)
<1>1. /\ open # <<>> /\ Message.rest = <<>> /\ decoded' = decoded
      /\ open' = SubSeq(open, 1, Len(open) - 1)
  BY DEF EndMessage, Decoding
<1> QED BY <1>1 DEF Follows, At, Over, Known, Message, Inner

(* The lenient pass over a field it does not know.                          *)
LEMMA SkipFollows ==
  ASSUME SkipUnknown
  PROVE  Follows(At(open, decoded), At(open', decoded'))
<1>1. open # <<>> /\ Message.rest # <<>> /\ ~Knows(Message.msg, Field)
  BY DEF SkipUnknown, Reading, Decoding
<1> QED BY <1>1 DEF Follows, At, Over, Known, Message, Inner, Field, Ahead

(* One more step of a history.                                              *)
LEMMA HistoryGrows ==
  ASSUME NEW n, NEW h, History(h, n), NEW y, Follows(h[n], y)
  PROVE  \E k, g : History(g, k) /\ g[k] = y
<1> DEFINE g == [i \in 0 .. n + 1 |-> IF i = n + 1 THEN y ELSE h[i]]
<1>1. n \in Nat /\ n + 1 \in Nat
  BY DEF History
<1>2. \A i \in 0 .. n : g[i] = h[i]
  BY <1>1
<1>3. g[n + 1] = y
  BY <1>1
<1> HIDE DEF g
<1>4. g[0] = At(Root(bundle), <<>>)
  BY <1>1, <1>2 DEF History
<1>5. ASSUME NEW i \in 0 .. (n + 1) - 1 PROVE Follows(g[i], g[i + 1])
  <2>1. CASE i = n
    BY <1>1, <1>2, <1>3, <2>1
  <2>2. CASE i # n
    <3>1. i \in 0 .. n - 1 /\ i + 1 \in 0 .. n /\ i \in 0 .. n
      BY <1>1, <2>2
    <3> QED BY <1>2, <3>1 DEF History
  <2> QED BY <2>1, <2>2
<1> QED BY <1>1, <1>3, <1>4, <1>5 DEF History

(* Each action keeps the history, and the strict pass on it.                *)
LEMMA PassStep == TypeInv /\ PassInv /\ [DecodeNext]_decodeVars => PassInv'
<1> SUFFICES ASSUME TypeInv, PassInv, [DecodeNext]_decodeVars PROVE PassInv'
  OBVIOUS
<1>1. CASE RefuseOversized \/ RefuseUnknown \/ RefuseField \/ RefuseIncomplete
  <2>1. verdict' = "invalid" /\ UNCHANGED <<bundle, pass, open, decoded, scout>>
    BY <1>1 DEF RefuseOversized, RefuseUnknown, RefuseField, RefuseIncomplete, Refuse
  <2> QED BY <2>1 DEF PassInv, History
<1>2. CASE SkipUnknown
  <2>1. pass = "lenient" /\ verdict = "running" /\ UNCHANGED <<bundle, pass, scout, verdict>>
    BY <1>2 DEF SkipUnknown, Skippable, lenient, Reading, Decoding
  <2>2. PICK n, h : History(h, n) /\ h[n] = At(open, decoded)
    BY <2>1 DEF PassInv
  <2>3. \E k, g : History(g, k) /\ g[k] = At(open', decoded')
    BY <1>2, <2>2, SkipFollows, HistoryGrows
  <2> QED BY <2>1, <2>3 DEF PassInv, History
<1>3. CASE TakeField \/ EndMessage
  <2>1. /\ open # <<>> /\ pass # "versions" /\ verdict = "running"
        /\ UNCHANGED <<bundle, pass, scout, verdict>>
    BY <1>3 DEF TakeField, EndMessage, Reading, Decoding
  <2>2. Follows(At(open, decoded), At(open', decoded'))
    BY <1>3, FieldFollows, EndFollows
  <2>3. CASE pass = "lenient"
    <3>1. PICK n, h : History(h, n) /\ h[n] = At(open, decoded)
      BY <2>3 DEF PassInv
    <3>2. \E k, g : History(g, k) /\ g[k] = At(open', decoded')
      BY <2>2, <3>1, HistoryGrows
    <3> QED BY <2>1, <2>3, <3>2 DEF PassInv, History
  <2>4. CASE pass = "strict"
    <3>1. PICK n, h : /\ History(h, n) /\ h[n] = At(<<>>, scout)
                      /\ \E m \in 0 .. n : h[m] = At(open, decoded)
      BY <2>4 DEF PassInv
    <3>2. PICK m \in 0 .. n : h[m] = At(open, decoded)
      BY <3>1
    <3>3. n \in Nat
      BY <3>1 DEF History
    <3>4. m # n
      BY <2>1, <3>1, <3>2 DEF At
    <3>5. m \in 0 .. n - 1 /\ m + 1 \in 0 .. n
      BY <3>3, <3>4
    <3>6. Follows(At(open, decoded), h[m + 1])
      BY <3>1, <3>2, <3>5 DEF History
    <3>7. h[m + 1] = At(open', decoded')
      BY <1>3, <3>6, FieldFollows, EndFollows DEF Follows, At
    <3>8. \E k \in 0 .. n : h[k] = At(open', decoded')
      BY <3>5, <3>7
    <3>9. History(h, n)' /\ h[n] = At(<<>>, scout')
      BY <2>1, <3>1 DEF History
    <3> QED BY <2>1, <2>4, <3>8, <3>9 DEF PassInv
  <2>5. pass \in {"lenient", "strict"}
    BY <2>1 DEF TypeInv, DecodeTypeOK
  <2> QED BY <2>3, <2>4, <2>5
<1>4. CASE EndLenientPass
  <2>1. /\ pass = "lenient" /\ open = <<>> /\ pass' = "versions" /\ scout' = decoded
        /\ verdict = "running" /\ UNCHANGED <<bundle, open, decoded, verdict>>
    BY <1>4 DEF EndLenientPass, lenient
  <2> QED BY <2>1 DEF PassInv, History
<1>5. CASE CheckVersions
  <2>1. pass = "versions" /\ verdict' \in {"running", "invalid", "incompatible"} /\ UNCHANGED <<bundle, scout>>
    BY <1>5 DEF CheckVersions, VersionAnswer
  <2>2. CASE verdict' = "running"
    <3>1. pass' = "strict" /\ open' = Root(bundle) /\ decoded' = <<>>
      BY <1>5, <2>2 DEF CheckVersions
    <3>2. PICK n, h : History(h, n) /\ h[n] = At(<<>>, scout)
      BY <2>1 DEF PassInv
    <3>3. 0 \in 0 .. n /\ h[0] = At(open', decoded')
      BY <3>1, <3>2 DEF History
    <3>4. History(h, n)' /\ h[n] = At(<<>>, scout')
      BY <2>1, <3>2 DEF History
    <3> QED BY <2>2, <3>1, <3>3, <3>4 DEF PassInv
  <2>3. CASE verdict' # "running"
    <3>1. UNCHANGED <<pass, open, decoded>>
      BY <1>5, <2>3 DEF CheckVersions
    <3> QED BY <2>1, <2>3, <3>1 DEF PassInv, History
  <2> QED BY <2>2, <2>3
<1>6. CASE EndStrictPass
  <2>1. pass = "strict" /\ open = <<>> /\ UNCHANGED <<bundle, pass, open, decoded, scout>>
    BY <1>6 DEF EndStrictPass, Refuse
  <2> QED BY <2>1 DEF PassInv, History
<1>7. CASE Decided \/ UNCHANGED decodeVars
  BY <1>7 DEF Decided, decodeVars, PassInv, History
<1> QED BY <1>1, <1>2, <1>3, <1>4, <1>5, <1>6, <1>7 DEF DecodeNext

(* The inductive invariant: the strict pass never leaves the steps that     *)
(* the lenient pass took over the same bundle.                              *)
THEOREM PassesInvariance == DecodeSpec => [](TypeInv /\ PassInv)
<1>1. DecodeInit => TypeInv /\ PassInv
  <2> SUFFICES ASSUME DecodeInit PROVE TypeInv /\ PassInv
    OBVIOUS
  <2>1. bundle \in Bundles /\ open = Root(bundle) /\ decoded = <<>> /\ pass = "lenient" /\ verdict = "running"
    BY DEF DecodeInit
  <2>2. open \in Seq(BodyType) /\ decoded \in Seq(ReadType)
    BY <2>1, RootType
  <2>3. TypeInv
    <3>1. \A k \in DOMAIN open : open[k].msg \in Messages /\ open[k].seen \in Seq(Nat)
      <4>1. \A k \in DOMAIN open : open[k] \in BodyType
        BY <2>2
      <4> QED BY <4>1 DEF BodyType
    <3>2. \A i \in DOMAIN decoded : decoded[i].field \in FieldsOf(decoded[i].msg)
      BY <2>1
    <3> QED BY <2>1, <2>2, <3>1, <3>2 DEF TypeInv, DecodeTypeOK
  <2> DEFINE h == [i \in {0} |-> At(open, decoded)]
  <2>4. h[0] = At(open, decoded) /\ History(h, 0)
    BY <2>1 DEF History
  <2> QED BY <2>1, <2>3, <2>4 DEF PassInv
<1>2. TypeInv /\ PassInv /\ [DecodeNext]_decodeVars => (TypeInv /\ PassInv)'
  BY TypeStep, PassStep
<1> QED BY <1>1, <1>2, PTL DEF DecodeSpec

(* Whatever the bundle holds, known or not, in order or not, what the       *)
(* strict pass hands to the validator is what the lenient pass read, whose  *)
(* version and capabilities were checked (load.go, Load).                   *)
THEOREM ScoutReadsTheSame == DecodeSpec => []ScoutReadTheSame
<1>1. TypeInv /\ PassInv => ScoutReadTheSame
  <2> SUFFICES ASSUME TypeInv, PassInv, verdict = "decoded" PROVE decoded = scout
    BY DEF ScoutReadTheSame, TypeInv
  <2>1. pass = "strict" /\ open = <<>>
    BY DEF PassInv
  <2>2. PICK n, h : /\ History(h, n) /\ h[n] = At(<<>>, scout)
                    /\ \E m \in 0 .. n : h[m] = At(open, decoded)
    BY <2>1 DEF PassInv
  <2>3. PICK m \in 0 .. n : h[m] = At(open, decoded)
    BY <2>2
  <2>4. n \in Nat
    BY <2>2 DEF History
  <2>5. m = n
    <3>1. SUFFICES ASSUME m # n PROVE FALSE
      OBVIOUS
    <3>2. m \in 0 .. n - 1
      BY <2>4, <3>1
    <3>3. h[m].open # <<>>
      BY <2>2, <3>2 DEF History, Follows
    <3> QED BY <2>1, <2>3, <3>3 DEF At
  <2>6. At(<<>>, scout) = At(open, decoded)
    BY <2>2, <2>3, <2>5
  <2> QED BY <2>6 DEF At
<1> QED BY <1>1, PassesInvariance, PTL
=============================================================================
