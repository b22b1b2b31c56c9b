-------------------------- MODULE SerializerProofs --------------------------
(***************************************************************************)
(* The start of the process and its serializer, for every environment and  *)
(* every batch.                                                            *)
(*                                                                         *)
(* The loop over the hosts runs through a Go map and may break, and yet    *)
(* what is warned of does not depend on its order.  What the loop has      *)
(* found out so far is a matter of the modes it has visited (LoopInv), and *)
(* as long as it goes on, none but the configured mode can be              *)
(* misconfigured.                                                          *)
(*                                                                         *)
(* A payload has the records of the logs that have been added so far, in   *)
(* their places (PlainInv), or in the groups of their metadata (OtelInv).  *)
(***************************************************************************)
EXTENDS Serializer, FiniteSetTheorems, TLAPS

-----------------------------------------------------------------------------
(* The inductive invariant of the configuration.                           *)

\* Another mode fits the host.
FitsOther(mode) == mode # webhookMode /\ ContainsAnyHost(input.host, mode)

\* The configured mode does not fit the host.
OwnUnfit ==
  ExpectedHostContains(webhookMode) # {} /\ ~ContainsAnyHost(input.host, webhookMode)

\* The host does not go with the mode, one way or the other.
Odd == OwnUnfit \/ \E m \in Modes : FitsOther(m)

\* Nothing has been looked at yet.
FreshInv ==
  phase = "parse" => visited = {} /\ ~hostMisconfigured /\ warnings = {}

\* The loop goes on: it has visited no other mode that fits, and knows of the configured
\* one if it has visited that.
LoopInv ==
  phase = "hosts" =>
    /\ ~HasErrors(input)
    /\ \A m \in visited : ~FitsOther(m)
    /\ hostMisconfigured <=> (webhookMode \in visited /\ OwnUnfit)
    /\ warnings = {}

\* The loop has ended, and has the whole truth, though it may not have seen all modes.
EndedInv ==
  phase = "headers" =>
    /\ ~HasErrors(input)
    /\ hostMisconfigured <=> Odd
    /\ warnings = IF hostMisconfigured THEN {"host"} ELSE {}

ConfigIInv == ConfigTypeOK /\ FreshInv /\ LoopInv /\ EndedInv /\ WarningsFit

-----------------------------------------------------------------------------
(* Every step preserves it.                                                *)

\* The process begins with nothing visited and nothing warned of.
LEMMA InitConfig == ConfigInit => ConfigIInv
BY DEF ConfigInit, ConfigIInv, ConfigTypeOK, FreshInv, LoopInv, EndedInv, WarningsFit, Modes,
       DefaultWebhookMode

\* With an error the process has exited, and nothing more is said of it.
LEMMA ExitConfig == ASSUME ConfigIInv, ExitOnErrors PROVE ConfigIInv'
BY DEF ExitOnErrors, ConfigIInv, ConfigTypeOK, FreshInv, LoopInv, EndedInv, WarningsFit

\* The loop begins with nothing found.
LEMMA SetModeConfig == ASSUME ConfigIInv, SetMode PROVE ConfigIInv'
<1>1. ConfigTypeOK'
  BY DEF SetMode, ConfigIInv, ConfigTypeOK, Modes, DefaultWebhookMode
<1>2. LoopInv'
  BY DEF SetMode, ConfigIInv, FreshInv, LoopInv
<1> QED
  BY <1>1, <1>2 DEF SetMode, ConfigIInv, FreshInv, EndedInv, WarningsFit

\* A visit changes what has been found out, and nothing that it is found out from.
LEMMA VisitTypes ==
  ASSUME ConfigTypeOK, phase = "hosts", NEW mode \in Modes,
         NEW misconfigured \in BOOLEAN, NEW break \in BOOLEAN,
         Visit(mode, misconfigured, break)
  PROVE  /\ ConfigTypeOK'
         /\ UNCHANGED <<input, webhookMode>>
         /\ phase' \in {"hosts", "headers"}
BY DEF Visit, ConfigTypeOK

\* What a visit does to the parts of the invariant that speak of the loop.
LEMMA VisitFacts ==
  ASSUME UNCHANGED <<input, webhookMode>>
  PROVE  /\ OwnUnfit' <=> OwnUnfit
         /\ \A m : FitsOther(m)' <=> FitsOther(m)
         /\ Odd' <=> Odd
         /\ HasErrors(input)' <=> HasErrors(input)
BY DEF OwnUnfit, FitsOther, Odd, ContainsAnyHost, ExpectedHostContains, HasErrors

\* The configured mode is visited: if it is the last one, no other fits.
LEMMA VisitOwnConfig ==
  ASSUME ConfigIInv, NEW mode \in Modes, VisitOwn(mode)
  PROVE  ConfigIInv'
<1>0. ConfigTypeOK /\ LoopInv /\ phase = "hosts" /\ mode = webhookMode
  BY DEF ConfigIInv, VisitOwn
<1>1. Visit(mode, OwnUnfit, FALSE)
  BY <1>0 DEF VisitOwn, OwnUnfit
<1>2. /\ ConfigTypeOK' /\ UNCHANGED <<input, webhookMode>>
      /\ phase' \in {"hosts", "headers"}
  <2>1. OwnUnfit \in BOOLEAN
    BY DEF OwnUnfit
  <2> QED
    BY <1>0, <1>1, <2>1, VisitTypes
<1>3. /\ hostMisconfigured' <=> OwnUnfit
      /\ webhookMode \in visited'
      /\ \A m \in visited' : ~FitsOther(m)
      /\ ~HasErrors(input)
  BY <1>0, <1>1 DEF Visit, LoopInv, FitsOther
<1>4. LoopInv'
  BY <1>0, <1>1, <1>2, <1>3, VisitFacts DEF Visit, LoopInv
<1>5. EndedInv'
  <2> SUFFICES ASSUME phase' = "headers"
               PROVE  EndedInv'
    BY DEF EndedInv
  <2>1. visited' = Modes
    BY <1>0, <1>1 DEF Visit
  <2>2. Odd <=> OwnUnfit
    BY <1>3, <2>1 DEF Odd
  <2>3. warnings' = IF hostMisconfigured' THEN {"host"} ELSE {}
    BY <1>0, <1>1 DEF Visit, LoopInv
  <2> QED
    BY <1>2, <1>3, <2>2, <2>3, VisitFacts DEF EndedInv
<1> QED
  BY <1>2, <1>4, <1>5 DEF ConfigIInv, FreshInv, WarningsFit

\* Another mode is visited: the loop ends with it if it fits, and then the host is odd;
\* if it is the last one and does not fit, none does.
LEMMA VisitOtherConfig ==
  ASSUME ConfigIInv, NEW mode \in Modes, VisitOther(mode)
  PROVE  ConfigIInv'
<1>0. ConfigTypeOK /\ LoopInv /\ phase = "hosts" /\ mode # webhookMode
  BY DEF ConfigIInv, VisitOther
<1> DEFINE fits == ContainsAnyHost(input.host, mode)
<1>1. Visit(mode, fits, fits) /\ (fits <=> FitsOther(mode))
  BY <1>0 DEF VisitOther, FitsOther
<1>2. /\ ConfigTypeOK' /\ UNCHANGED <<input, webhookMode>>
      /\ phase' \in {"hosts", "headers"}
  <2>1. fits \in BOOLEAN
    BY DEF ContainsAnyHost
  <2> QED
    BY <1>0, <1>1, <2>1, VisitTypes
<1> HIDE DEF fits
<1>3. /\ hostMisconfigured' <=> ((webhookMode \in visited /\ OwnUnfit) \/ fits)
      /\ visited' = visited \cup {mode}
      /\ \A m \in visited : ~FitsOther(m)
      /\ ~HasErrors(input)
      /\ warnings' = IF phase' = "headers" /\ hostMisconfigured' THEN {"host"} ELSE {}
  BY <1>0, <1>1 DEF Visit, LoopInv
<1>4. LoopInv'
  <2>1. phase' = "hosts" => ~fits
    BY <1>1 DEF Visit
  <2> QED
    BY <1>0, <1>1, <1>2, <1>3, <2>1, VisitFacts DEF LoopInv
<1>5. EndedInv'
  <2> SUFFICES ASSUME phase' = "headers"
               PROVE  EndedInv'
    BY DEF EndedInv
  <2>1. fits \/ visited' = Modes
    BY <1>0, <1>1 DEF Visit
  <2>2. hostMisconfigured' <=> Odd
    <3>1. CASE fits
      BY <1>1, <1>3, <3>1 DEF Odd
    <3>2. CASE ~fits
      <4>1. \A m \in Modes : ~FitsOther(m)
        BY <1>1, <1>3, <2>1, <3>2
      <4>2. webhookMode \in visited
        BY <1>0, <1>3, <2>1, <3>2 DEF ConfigTypeOK
      <4> QED
        BY <1>3, <3>2, <4>1, <4>2 DEF Odd
    <3> QED
      BY <3>1, <3>2
  <2> QED
    BY <1>2, <1>3, <2>2, VisitFacts DEF EndedInv
<1> QED
  BY <1>2, <1>4, <1>5 DEF ConfigIInv, FreshInv, WarningsFit

\* The headers are looked at only when the host has passed.
LEMMA CheckHeadersConfig ==
  ASSUME ConfigIInv, CheckHeaders
  PROVE  ConfigIInv'
<1>0. ConfigTypeOK /\ EndedInv /\ phase = "headers"
  BY DEF ConfigIInv, CheckHeaders
<1>1. ConfigTypeOK'
  BY <1>0 DEF CheckHeaders, ConfigTypeOK
<1>2. WarningsFit'
  <2>1. MissingHeaders' = MissingHeaders
    BY DEF CheckHeaders, MissingHeaders, ExpectedHeaders, UnmarshalText
  <2>2. /\ ~HasErrors(input) /\ input' = input /\ webhookMode' = webhookMode
        /\ warnings' = IF Odd THEN {"host"} ELSE IF MissingHeaders # {} THEN {"header"} ELSE {}
    BY <1>0 DEF CheckHeaders, EndedInv
  <2>3. Odd <=> \/ \E m \in Modes \ {webhookMode} : ContainsAnyHost(input.host, m)
                \/ ExpectedHostContains(webhookMode) # {} /\ ~ContainsAnyHost(input.host, webhookMode)
    BY DEF Odd, OwnUnfit, FitsOther
  <2> QED
    BY <2>1, <2>2, <2>3 DEF WarningsFit
<1> QED
  BY <1>1, <1>2 DEF CheckHeaders, ConfigIInv, FreshInv, LoopInv, EndedInv

\* Once the process has gone on, nothing more is said of its start.
LEMMA GoOnConfig == ASSUME ConfigIInv, GoOn PROVE ConfigIInv'
BY DEF GoOn, ConfigIInv, ConfigTypeOK, FreshInv, LoopInv, EndedInv, WarningsFit

\* A step that changes nothing keeps it.
LEMMA StutterConfig == ASSUME ConfigIInv, UNCHANGED configVars PROVE ConfigIInv'
<1> USE DEF configVars
<1>1. UNCHANGED <<input, webhookMode>> /\ MissingHeaders' = MissingHeaders
  BY DEF MissingHeaders, ExpectedHeaders, UnmarshalText
<1>2. ConfigTypeOK'
  BY DEF ConfigIInv, ConfigTypeOK
<1>3. FreshInv' /\ LoopInv' /\ EndedInv'
  BY <1>1, VisitFacts DEF ConfigIInv, FreshInv, LoopInv, EndedInv
<1>4. WarningsFit'
  BY <1>1 DEF ConfigIInv, WarningsFit
<1> QED
  BY <1>2, <1>3, <1>4 DEF ConfigIInv

-----------------------------------------------------------------------------
(* The inductive invariant of the payload.                                 *)

AllLogs == UNION {ToSet(batch) : batch \in Batches}
Metas   == {log.meta : log \in AllLogs}
Records == {Record(mode, log) : mode \in Modes, log \in AllLogs}
Groups  == [key : {MetadataKey(m) : m \in Metas},
            resource : {BuildResourceAttributes(m) : m \in Metas},
            records : Seq(Records)]

\* The lengths in the text of a key tell the metadata apart (helpers.go:175-194).  No prover
\* here takes texts to pieces: it is the hypothesis of the theorem about payloads, and what
\* RecordsAreTheLogs needs it for is checked on metadata that are alike without the lengths.
KeysTellApart == \A m, n \in Metas : MetadataKey(m) = MetadataKey(n) => m = n

\* The places of the logs that have been added, and of those with metadata m.
Added       == 1 .. done
AddedOf(m)  == {n \in Added : logs[n].meta = m}
MetasAdded  == {logs[n].meta : n \in Added}

BatchInv ==
  /\ logs = <<>> \/ logs \in Batches
  /\ done \in 0 .. Len(logs)
  /\ done = 0 => payload = <<>>
  /\ phase # "serialize" => logs = <<>>

PlainInv ==
  Format(webhookMode) # "otel" => payload = [n \in Added |-> Record(webhookMode, logs[n])]

\* A group is that of one of the metadata, and has all of their logs so far.
GroupOf(g, m) ==
  /\ g.key = MetadataKey(m) /\ g.resource = BuildResourceAttributes(m)
  /\ InOrder(g.records, AddedOf(m))

OtelInv ==
  Format(webhookMode) = "otel" =>
    /\ payload \in Seq(Groups)
    /\ \A a, b \in DOMAIN payload : payload[a].key = payload[b].key => a = b
    /\ \A a \in DOMAIN payload : \E m \in MetasAdded : GroupOf(payload[a], m)
    /\ \A m \in MetasAdded : \E a \in DOMAIN payload : payload[a].key = MetadataKey(m)
    /\ IsFiniteSet(MetasAdded) /\ Len(payload) = Cardinality(MetasAdded)

SerializerIInv == ConfigIInv /\ BatchInv /\ PlainInv /\ OtelInv

-----------------------------------------------------------------------------
(* Every step preserves it.                                                *)

\* A batch is a sequence of logs.
LEMMA BatchTypes ==
  ASSUME NEW batch \in Batches
  PROVE  batch \in Seq(AllLogs) /\ Len(batch) \in Nat \ {0}
<1>1. batch \in Seq(ToSet(batch)) /\ batch # <<>>
  BY BatchesAssumption DEF BatchesAssumption
<1>2. ToSet(batch) \subseteq AllLogs
  BY DEF AllLogs
<1>3. batch \in Seq(AllLogs)
  BY <1>1, <1>2
<1> QED
  BY <1>1, <1>3

\* An empty payload has every log that has been added.
LEMMA EmptyPayload == ASSUME done = 0, payload = <<>> PROVE PlainInv /\ OtelInv
<1>1. Added = {} /\ MetasAdded = {}
  BY DEF Added, MetasAdded
<1>2. PlainInv
  BY <1>1 DEF PlainInv
<1>3. payload \in Seq(Groups) /\ DOMAIN payload = {} /\ Len(payload) = 0
  OBVIOUS
<1> QED
  BY <1>1, <1>2, <1>3, FS_EmptySet DEF OtelInv

\* The place that is found is that of the group with the key, if there is one.
LEMMA Lookup ==
  ASSUME NEW S, NEW groups \in Seq(S), NEW key,
         \A a, b \in DOMAIN groups : groups[a].key = groups[b].key => a = b
  PROVE  IF \E a \in DOMAIN groups : groups[a].key = key
         THEN GroupAt(groups, key) \in DOMAIN groups /\ groups[GroupAt(groups, key)].key = key
         ELSE GroupAt(groups, key) = 0
<1> DEFINE Found == {a \in 1 .. Len(groups) : groups[a].key = key}
           at == GroupAt(groups, key)
<1>1. at = IF Found # {} THEN Min(Found) ELSE 0
  BY DEF GroupAt, SelectInSeq
<1>2. DOMAIN groups = 1 .. Len(groups) /\ Len(groups) \in Nat
  OBVIOUS
<1>3. ASSUME NEW a \in Found PROVE Min(Found) = a
  <2>1. Found = {a}
    BY <1>2, <1>3
  <2> QED
    BY <2>1 DEF Min
<1> HIDE DEF at
<1>4. CASE \E a \in DOMAIN groups : groups[a].key = key
  <2>1. PICK a \in Found : TRUE
    BY <1>2, <1>4
  <2>2. at = a
    BY <1>1, <1>3, <2>1
  <2> QED
    BY <1>2, <1>4, <2>1, <2>2 DEF at
<1>5. CASE ~\E a \in DOMAIN groups : groups[a].key = key
  <2>1. Found = {}
    BY <1>2, <1>5
  <2> QED
    BY <1>1, <1>5, <2>1 DEF at
<1> QED
  BY <1>4, <1>5

\* One record is in order.
LEMMA OneInOrder == ASSUME NEW n PROVE InOrder(<<Record(webhookMode, logs[n])>>, {n})
<1> DEFINE record == Record(webhookMode, logs[n])
           at == [i \in {1} |-> n]
<1>1. DOMAIN <<record>> = {1} /\ <<record>>[1] = record
  OBVIOUS
<1> HIDE DEF record
<1>2. at \in [DOMAIN <<record>> -> {n}] /\ at[1] = n
  BY <1>1
<1>3. \A i \in DOMAIN <<record>> : <<record>>[i] = Record(webhookMode, logs[at[i]])
  BY <1>1, <1>2 DEF record
<1>4. \A i, j \in DOMAIN <<record>> : i < j => at[i] < at[j]
  BY <1>1
<1>5. InOrder(<<record>>, {n})
  BY <1>1, <1>2, <1>3, <1>4 DEF InOrder
<1> QED
  BY <1>5 DEF record

\* One record more, of a log that is later than the others.
LEMMA OneMoreInOrder ==
  ASSUME NEW S, NEW records \in Seq(S), NEW places, places \subseteq Nat, InOrder(records, places),
         NEW n \in Nat, \A p \in places : p < n,
         NEW record, record = Record(webhookMode, logs[n])
  PROVE  InOrder(Append(records, record), places \cup {n})
<1> DEFINE more == Append(records, record)
<1>1. PICK at \in [DOMAIN records -> places] :
        /\ \A i, j \in DOMAIN records : i < j => at[i] < at[j]
        /\ \A p \in places : \E i \in DOMAIN records : at[i] = p
        /\ \A i \in DOMAIN records : records[i] = Record(webhookMode, logs[at[i]])
  BY DEF InOrder
<1>2. /\ Len(records) \in Nat /\ DOMAIN records = 1 .. Len(records)
      /\ DOMAIN more = 1 .. Len(records) + 1
      /\ \A i \in DOMAIN records : more[i] = records[i]
      /\ more[Len(records) + 1] = record
  OBVIOUS
<1> HIDE DEF more
<1> DEFINE to == [i \in DOMAIN more |-> IF i = Len(records) + 1 THEN n ELSE at[i]]
<1>3. to \in [DOMAIN more -> places \cup {n}]
  BY <1>1, <1>2
<1>4. ASSUME NEW i \in DOMAIN more, NEW j \in DOMAIN more, i < j
      PROVE  to[i] < to[j]
  <2>1. i \in DOMAIN records /\ to[i] = at[i] /\ at[i] \in places
    BY <1>1, <1>2, <1>4
  <2>2. CASE j = Len(records) + 1
    BY <2>1, <2>2
  <2>3. CASE j # Len(records) + 1
    <3>1. j \in DOMAIN records /\ to[j] = at[j]
      BY <1>2, <2>3
    <3> QED
      BY <1>1, <1>4, <2>1, <3>1
  <2> QED
    BY <2>2, <2>3
<1>5. \A p \in places \cup {n} : \E i \in DOMAIN more : to[i] = p
  <2>1. to[Len(records) + 1] = n
    BY <1>2
  <2>2. ASSUME NEW p \in places PROVE \E i \in DOMAIN more : to[i] = p
    <3>1. PICK i \in DOMAIN records : at[i] = p
      BY <1>1
    <3> QED
      BY <1>2, <3>1
  <2> QED
    BY <1>2, <2>1, <2>2
<1>6. \A i \in DOMAIN more : more[i] = Record(webhookMode, logs[to[i]])
  BY <1>1, <1>2
<1> QED
  BY <1>3, <1>4, <1>5, <1>6 DEF InOrder, more

\* What a log that is added adds to the places.
LEMMA AddFacts ==
  ASSUME SerializerIInv, Add
  PROVE  /\ done \in Nat /\ done' = done + 1 /\ logs \in Batches
         /\ UNCHANGED <<configVars, logs, webhookMode>>
         /\ webhookMode \in Modes /\ logs[done'] \in AllLogs
         /\ Added' = Added \cup {done'} /\ Added \subseteq Nat
         /\ \A n \in Added : n < done'
         /\ MetasAdded' = MetasAdded \cup {logs[done'].meta}
         /\ \A m : AddedOf(m)' = IF m = logs[done'].meta THEN AddedOf(m) \cup {done'} ELSE AddedOf(m)
<1>1. done \in Nat /\ done' = done + 1 /\ logs \in Batches /\ done < Len(logs)
  BY DEF SerializerIInv, BatchInv, Add
<1>2. logs \in Seq(AllLogs) /\ Len(logs) \in Nat
  BY <1>1, BatchTypes
<1>3. UNCHANGED <<configVars, logs, webhookMode>> /\ webhookMode \in Modes
  BY DEF Add, configVars, SerializerIInv, ConfigIInv, ConfigTypeOK
<1>4. Added' = Added \cup {done'} /\ Added \subseteq Nat /\ \A n \in Added : n < done'
  BY <1>1 DEF Added
<1>5. logs[done'] \in AllLogs
  BY <1>1, <1>2
<1>6. MetasAdded' = MetasAdded \cup {logs[done'].meta}
  BY <1>3, <1>4 DEF MetasAdded
<1>7. ASSUME NEW m
      PROVE  AddedOf(m)' = IF m = logs[done'].meta THEN AddedOf(m) \cup {done'} ELSE AddedOf(m)
  BY <1>3, <1>4 DEF AddedOf
<1> QED
  BY <1>1, <1>3, <1>4, <1>5, <1>6, <1>7

\* A record is added at the end.
LEMMA AddPlain == ASSUME SerializerIInv, Add PROVE PlainInv'
<1> SUFFICES ASSUME Format(webhookMode)' # "otel"
             PROVE  payload' = [n \in Added' |-> Record(webhookMode, logs[n])]
  BY AddFacts DEF PlainInv
<1>1. payload' = Append(payload, Record(webhookMode, logs[done']))
  BY AddFacts DEF Add, Format
<1>2. payload = [n \in 1 .. done |-> Record(webhookMode, logs[n])]
  BY AddFacts DEF SerializerIInv, PlainInv, Added, Format
<1>3. done \in Nat /\ done' = done + 1
  BY AddFacts
<1> DEFINE record(n) == Record(webhookMode, logs[n])
<1> HIDE DEF record
<1>4. Append([n \in 1 .. done |-> record(n)], record(done + 1)) = [n \in 1 .. done + 1 |-> record(n)]
  BY <1>3
<1> QED
  BY <1>1, <1>2, <1>3, <1>4 DEF record, Added

\* The step adds the record to the group of its log, or a group for it.
LEMMA AddGrouped ==
  ASSUME SerializerIInv, Add, Format(webhookMode) = "otel", NEW m, m = logs[done'].meta
  PROVE  LET key == MetadataKey(m)
             record == Record(webhookMode, logs[done'])
         IN /\ m \in Metas /\ record \in Records
            /\ payload' = IF GroupAt(payload, key) = 0
                 THEN Append(payload, [key |-> key, resource |-> BuildResourceAttributes(m),
                                       records |-> <<record>>])
                 ELSE [payload EXCEPT ![GroupAt(payload, key)].records = Append(@, record)]
  BY AddFacts DEF Add, Grouped, Metas, Records

\* The metadata of the logs that have been added are among those of the batches.
LEMMA AddedMetas == ASSUME SerializerIInv PROVE MetasAdded \subseteq Metas
<1> SUFFICES ASSUME NEW n \in Added PROVE logs[n] \in AllLogs
  BY DEF MetasAdded, Metas
<1>1. logs \in Batches /\ done \in 0 .. Len(logs)
  BY DEF SerializerIInv, BatchInv, Added
<1>2. logs \in Seq(AllLogs) /\ Len(logs) \in Nat
  BY <1>1, BatchTypes
<1> QED
  BY <1>1, <1>2 DEF Added

\* What a group is after the step, in terms of the state before it.
LEMMA GroupAfter ==
  ASSUME UNCHANGED <<webhookMode, logs>>, NEW a, NEW m
  PROVE  GroupOf(payload[a], m)' <=>
           /\ payload'[a].key = MetadataKey(m) /\ payload'[a].resource = BuildResourceAttributes(m)
           /\ InOrder(payload'[a].records, AddedOf(m)')
  BY DEF GroupOf, InOrder

\* The metadata of the log are new: so is its group.
LEMMA AddGroup ==
  ASSUME SerializerIInv, KeysTellApart, Add, Format(webhookMode) = "otel",
         NEW m, m = logs[done'].meta, m \notin MetasAdded
  PROVE  OtelInv'
<1> DEFINE key == MetadataKey(m)
           record == Record(webhookMode, logs[done'])
           group == [key |-> key, resource |-> BuildResourceAttributes(m), records |-> <<record>>]
           size == Len(payload)
<1>1. /\ payload \in Seq(Groups) /\ size \in Nat /\ DOMAIN payload = 1 .. size
      /\ \A a, b \in DOMAIN payload : payload[a].key = payload[b].key => a = b
      /\ \A a \in DOMAIN payload : \E k \in MetasAdded : GroupOf(payload[a], k)
      /\ \A k \in MetasAdded : \E a \in DOMAIN payload : payload[a].key = MetadataKey(k)
      /\ IsFiniteSet(MetasAdded) /\ size = Cardinality(MetasAdded)
  BY DEF SerializerIInv, OtelInv
<1>2. m \in Metas /\ record \in Records /\ MetasAdded \subseteq Metas
  BY AddGrouped, AddedMetas
<1>3. \A a \in DOMAIN payload : payload[a].key # key
  BY <1>1, <1>2 DEF GroupOf, KeysTellApart
<1>4. payload' = Append(payload, group)
  <2>1. GroupAt(payload, key) = 0
    BY <1>1, <1>3, Lookup
  <2> QED
    BY <2>1, AddGrouped
<1>5. group \in Groups /\ group.key = key /\ group.records = <<record>>
      /\ group.resource = BuildResourceAttributes(m)
  BY <1>2 DEF Groups
<1> HIDE DEF group
<1>6. /\ payload' \in Seq(Groups) /\ Len(payload') = size + 1 /\ DOMAIN payload' = 1 .. size + 1
      /\ \A a \in DOMAIN payload : payload'[a] = payload[a]
      /\ payload'[size + 1] = group
  BY <1>1, <1>4, <1>5
<1>7. ASSUME NEW a \in DOMAIN payload', NEW b \in DOMAIN payload', payload'[a].key = payload'[b].key
      PROVE  a = b
  <2>1. CASE a \in DOMAIN payload /\ b \in DOMAIN payload
    BY <1>1, <1>6, <1>7, <2>1
  <2>2. payload'[size + 1].key = key /\ \A c \in DOMAIN payload : payload'[c].key # key
    BY <1>3, <1>5, <1>6
  <2>3. \A c \in DOMAIN payload' : c \in DOMAIN payload \/ c = size + 1
    BY <1>1, <1>6
  <2>4. CASE a = size + 1
    BY <1>7, <2>2, <2>3, <2>4
  <2>5. CASE b = size + 1
    BY <1>7, <2>2, <2>3, <2>5
  <2> QED
    BY <1>7, <2>1, <2>3, <2>4, <2>5
<1>8. MetasAdded' = MetasAdded \cup {m} /\ AddedOf(m)' = {done'}
  <2>1. AddedOf(m) = {}
    BY DEF AddedOf, MetasAdded
  <2> QED
    BY <2>1, AddFacts
<1>9. ASSUME NEW a \in DOMAIN payload' PROVE \E k \in MetasAdded' : GroupOf(payload[a], k)'
  <2>1. CASE a \in DOMAIN payload
    <3>1. PICK k \in MetasAdded : GroupOf(payload[a], k)
      BY <1>1, <2>1
    <3>2. AddedOf(k)' = AddedOf(k)
      BY AddFacts, <3>1
    <3>3. GroupOf(payload[a], k)'
      BY <1>6, <2>1, <3>1, <3>2, AddFacts, GroupAfter DEF GroupOf
    <3> QED
      BY <1>8, <3>1, <3>3
  <2>2. CASE a = size + 1
    <3>1. InOrder(<<record>>, {done'})
      BY OneInOrder, AddFacts
    <3>2. payload'[a] = group
      BY <1>6, <2>2
    <3>3. GroupOf(payload[a], m)'
      BY <1>5, <1>8, <3>1, <3>2, AddFacts, GroupAfter
    <3> QED
      BY <1>8, <3>3
  <2> QED
    BY <1>1, <1>6, <2>1, <2>2
<1>10. ASSUME NEW k \in MetasAdded'
       PROVE  \E a \in DOMAIN payload' : payload'[a].key = MetadataKey(k)
  <2>1. CASE k = m
    <3>1. size + 1 \in DOMAIN payload' /\ payload'[size + 1].key = MetadataKey(k)
      BY <1>1, <1>5, <1>6, <2>1
    <3> QED
      BY <3>1
  <2>2. CASE k \in MetasAdded
    <3>1. PICK a \in DOMAIN payload : payload[a].key = MetadataKey(k)
      BY <1>1, <2>2
    <3>2. a \in DOMAIN payload' /\ payload'[a] = payload[a]
      BY <1>1, <1>6
    <3> QED
      BY <3>1, <3>2
  <2> QED
    BY <1>8, <2>1, <2>2
<1>11. IsFiniteSet(MetasAdded') /\ Len(payload') = Cardinality(MetasAdded')
  <2>1. /\ IsFiniteSet(MetasAdded \cup {m})
        /\ Cardinality(MetasAdded \cup {m}) = Cardinality(MetasAdded) + 1
    BY <1>1, FS_AddElement
  <2> QED
    BY <1>1, <1>6, <1>8, <2>1
<1> QED
  BY <1>6, <1>7, <1>9, <1>10, <1>11 DEF OtelInv

\* The metadata of the log have a group: its record goes to the end of it.
LEMMA AddToGroup ==
  ASSUME SerializerIInv, KeysTellApart, Add, Format(webhookMode) = "otel",
         NEW m, m = logs[done'].meta, m \in MetasAdded
  PROVE  OtelInv'
<1> DEFINE key == MetadataKey(m)
           record == Record(webhookMode, logs[done'])
           at == GroupAt(payload, key)
           group == [payload[at] EXCEPT !.records = Append(@, record)]
<1>1. /\ payload \in Seq(Groups) /\ DOMAIN payload = 1 .. Len(payload) /\ Len(payload) \in Nat
      /\ \A a, b \in DOMAIN payload : payload[a].key = payload[b].key => a = b
      /\ \A a \in DOMAIN payload : \E k \in MetasAdded : GroupOf(payload[a], k)
      /\ \A k \in MetasAdded : \E a \in DOMAIN payload : payload[a].key = MetadataKey(k)
      /\ IsFiniteSet(MetasAdded) /\ Len(payload) = Cardinality(MetasAdded)
  BY DEF SerializerIInv, OtelInv
<1>2. m \in Metas /\ record \in Records /\ MetasAdded \subseteq Metas
  BY AddGrouped, AddedMetas
<1>3. at \in DOMAIN payload /\ payload[at].key = key /\ at # 0
  <2>1. \E a \in DOMAIN payload : payload[a].key = key
    BY <1>1
  <2>2. at \in DOMAIN payload /\ payload[at].key = key
    BY <1>1, <2>1, Lookup
  <2> QED
    BY <1>1, <2>2
<1>4. payload' = [payload EXCEPT ![at].records = Append(@, record)]
  BY <1>3, AddGrouped
<1>5. GroupOf(payload[at], m) /\ payload[at] \in Groups
  <2>1. PICK k \in MetasAdded : GroupOf(payload[at], k)
    BY <1>1, <1>3
  <2>2. k = m
    BY <1>2, <1>3, <2>1 DEF GroupOf, KeysTellApart
  <2> QED
    BY <1>1, <1>3, <2>1, <2>2
<1>6. /\ group \in Groups /\ group.key = key /\ group.resource = BuildResourceAttributes(m)
      /\ group.records = Append(payload[at].records, record)
  <2>1. payload[at].records \in Seq(Records) /\ Append(payload[at].records, record) \in Seq(Records)
    BY <1>2, <1>5 DEF Groups
  <2> QED
    BY <1>5, <2>1 DEF Groups, GroupOf
<1>7. payload' = [payload EXCEPT ![at] = group]
  BY <1>4
<1> HIDE DEF group, at
<1>8. /\ payload' \in Seq(Groups) /\ DOMAIN payload' = DOMAIN payload /\ Len(payload') = Len(payload)
      /\ payload'[at] = group /\ \A a \in DOMAIN payload \ {at} : payload'[a] = payload[a]
  BY <1>1, <1>3, <1>6, <1>7
<1>9. \A a \in DOMAIN payload : payload'[a].key = payload[a].key
  BY <1>3, <1>6, <1>8
<1>10. MetasAdded' = MetasAdded /\ AddedOf(m)' = AddedOf(m) \cup {done'}
  BY AddFacts
<1>11. InOrder(group.records, AddedOf(m)')
  <2>1. AddedOf(m) \subseteq Nat /\ done' \in Nat /\ \A n \in AddedOf(m) : n < done'
    BY AddFacts DEF AddedOf
  <2>2. InOrder(payload[at].records, AddedOf(m)) /\ payload[at].records \in Seq(Records)
    BY <1>5 DEF GroupOf, Groups
  <2>3. InOrder(Append(payload[at].records, record), AddedOf(m) \cup {done'})
    BY <2>1, <2>2, OneMoreInOrder
  <2> QED
    BY <1>6, <1>10, <2>3
<1>12. ASSUME NEW a \in DOMAIN payload PROVE \E k \in MetasAdded' : GroupOf(payload[a], k)'
  <2>1. CASE a = at
    <3>1. GroupOf(payload[a], m)'
      BY <1>6, <1>8, <1>11, <2>1, AddFacts, GroupAfter
    <3> QED
      BY <1>10, <3>1
  <2>2. CASE a # at
    <3>1. PICK k \in MetasAdded : GroupOf(payload[a], k)
      BY <1>1
    <3>2. k # m
      BY <1>1, <1>3, <2>2, <3>1 DEF GroupOf
    <3>3. AddedOf(k)' = AddedOf(k)
      BY <3>2, AddFacts
    <3>4. GroupOf(payload[a], k)'
      BY <1>8, <2>2, <3>1, <3>3, AddFacts, GroupAfter DEF GroupOf
    <3> QED
      BY <1>10, <3>1, <3>4
  <2> QED
    BY <2>1, <2>2
<1> QED
  BY <1>1, <1>8, <1>9, <1>10, <1>12 DEF OtelInv

\* A log that is added is in its place.
LEMMA AddIInv == ASSUME SerializerIInv, KeysTellApart, Add PROVE SerializerIInv'
<1>1. ConfigIInv'
  BY AddFacts, StutterConfig DEF SerializerIInv
<1>2. BatchInv'
  <2>1. done < Len(logs) /\ Len(logs) \in Nat /\ phase' = phase
    BY AddFacts, BatchTypes DEF Add, configVars
  <2> QED
    BY <2>1, AddFacts DEF SerializerIInv, BatchInv
<1>3. OtelInv'
  <2>1. CASE Format(webhookMode) = "otel"
    <3>1. PICK m : m = logs[done'].meta
      OBVIOUS
    <3> QED
      BY <2>1, <3>1, AddGroup, AddToGroup
  <2>2. CASE Format(webhookMode) # "otel"
    BY <2>2, AddFacts DEF OtelInv, Format
  <2> QED
    BY <2>1, <2>2
<1> QED
  BY <1>1, <1>2, <1>3, AddPlain DEF SerializerIInv

\* While nothing is being serialized, or the batch has been handed over, nothing is added.
LEMMA RestIInv ==
  ASSUME SerializerIInv, [Next]_vars, ~Add
  PROVE  SerializerIInv'
<1>1. ConfigIInv'
  <2>1. UNCHANGED configVars \/ GoOn \/ ConfigStep
    BY DEF Next, Run, Receive, HandOver, vars
  <2> QED
    BY <2>1, ExitConfig, SetModeConfig, CheckHeadersConfig, VisitOwnConfig, VisitOtherConfig,
       GoOnConfig, StutterConfig DEF ConfigStep, SerializerIInv
<1>2. \/ UNCHANGED <<logs, done, payload>> /\ (UNCHANGED webhookMode \/ phase # "serialize")
      \/ done' = 0 /\ payload' = <<>>
  BY DEF Next, Run, Receive, HandOver, vars, serializerVars, configVars, ConfigStep, GoOn, ExitOnErrors,
         SetMode, CheckHeaders, VisitOwn, VisitOther, Visit, SerializerIInv, BatchInv
<1> QED
  <2>1. BatchInv'
    BY <1>1, BatchTypes
       DEF Next, Run, Receive, HandOver, vars, serializerVars, configVars, ConfigStep, GoOn, ExitOnErrors,
           SetMode, CheckHeaders, VisitOwn, VisitOther, Visit, SerializerIInv, BatchInv
  <2>2. CASE done' = 0 /\ payload' = <<>>
    <3>1. (done = 0 /\ payload = <<>> => PlainInv /\ OtelInv)'
      BY EmptyPayload, PTL
    <3> QED
      BY <1>1, <2>1, <2>2, <3>1 DEF SerializerIInv
  <2>3. CASE UNCHANGED <<logs, done, payload, webhookMode>>
    <3>1. Added' = Added /\ MetasAdded' = MetasAdded /\ \A m : AddedOf(m)' = AddedOf(m)
      BY <2>3 DEF Added, MetasAdded, AddedOf
    <3>2. \A a, m : GroupOf(payload[a], m)' <=> GroupOf(payload[a], m)
      BY <2>3, <3>1, GroupAfter DEF GroupOf
    <3>3. PlainInv'
      BY <2>3, <3>1 DEF SerializerIInv, PlainInv, Format
    <3>4. OtelInv'
      BY <2>3, <3>1, <3>2 DEF SerializerIInv, OtelInv, Format
    <3> QED
      BY <1>1, <2>1, <3>3, <3>4 DEF SerializerIInv
  <2>4. CASE UNCHANGED <<logs, done, payload>> /\ phase # "serialize"
    <3>1. done' = 0 /\ payload' = <<>>
      BY <2>4 DEF SerializerIInv, BatchInv
    <3> QED
      BY <2>2, <3>1
  <2> QED
    BY <1>2, <2>2, <2>3, <2>4

-----------------------------------------------------------------------------
(* The theorems.                                                           *)

\* The start, in whatever order its loop over the hosts runs, and the payload, after any
\* number of its logs, are as SerializerIInv says (config.go, serializer.go).
THEOREM Inductive == KeysTellApart => (Spec => []SerializerIInv)
<1> SUFFICES ASSUME KeysTellApart PROVE Spec => []SerializerIInv
  OBVIOUS
<1>1. Init => SerializerIInv
  <2> SUFFICES ASSUME Init PROVE SerializerIInv
    OBVIOUS
  <2>1. ConfigIInv /\ BatchInv
    BY InitConfig DEF Init, ConfigInit, BatchInv
  <2> QED
    BY <2>1, EmptyPayload DEF Init, SerializerIInv
<1>2. SerializerIInv /\ [Next]_vars => SerializerIInv'
  BY AddIInv, RestIInv
<1> QED
  BY <1>1, <1>2, PTL DEF Spec

\* For every host, mode and set of headers: a process that goes on has no error in its
\* configuration and has warned at most once, of what the host or the headers deserve,
\* whatever the order of the loop over the hosts (config.go:100-149).
THEOREM WarningsFitHolds == Spec => []WarningsFit
<1>1. Init => ConfigIInv
  BY InitConfig DEF Init
<1>2. ConfigIInv /\ [Next]_vars => ConfigIInv'
  <2> SUFFICES ASSUME ConfigIInv, [Next]_vars PROVE ConfigIInv'
    OBVIOUS
  <2>1. UNCHANGED configVars \/ GoOn \/ ConfigStep
    BY DEF Next, Run, Receive, Add, HandOver, vars
  <2> QED
    BY <2>1, ExitConfig, SetModeConfig, CheckHeadersConfig, VisitOwnConfig, VisitOtherConfig,
       GoOnConfig, StutterConfig DEF ConfigStep
<1>3. ConfigIInv => WarningsFit
  BY DEF ConfigIInv
<1> QED
  BY <1>1, <1>2, <1>3, PTL DEF Spec

\* For every batch and every mode: a complete payload has each log of its batch once and in
\* its place, and in OTLP a group for each metadata, with its logs in their order, as long
\* as the keys of the groups tell the metadata apart (reconstruct_otel/helpers.go:19-70).
THEOREM RecordsAreTheLogsHolds == KeysTellApart => (Spec => []RecordsAreTheLogs)
<1> SUFFICES ASSUME KeysTellApart PROVE Spec => []RecordsAreTheLogs
  OBVIOUS
<1>1. SerializerIInv => RecordsAreTheLogs
  <2> SUFFICES ASSUME SerializerIInv, Complete PROVE RecordsAreTheLogs
    BY DEF RecordsAreTheLogs
  <2>1. DOMAIN logs = Added /\ Len(logs) \in Nat
    BY BatchTypes DEF SerializerIInv, BatchInv, Complete, Added
  <2>2. CASE Format(webhookMode) = "otel"
    <3> DEFINE metas == {logs[n].meta : n \in DOMAIN logs}
    <3>1. metas = MetasAdded
      BY <2>1 DEF MetasAdded
    <3>2. ASSUME NEW m \in metas
          PROVE  \E g \in ToSet(payload) :
                   /\ g.resource = BuildResourceAttributes(m)
                   /\ InOrder(g.records, {n \in DOMAIN logs : logs[n].meta = m})
      <4>1. PICK a \in DOMAIN payload : payload[a].key = MetadataKey(m)
        BY <2>2, <3>1, <3>2 DEF SerializerIInv, OtelInv
      <4>2. PICK k \in MetasAdded : GroupOf(payload[a], k)
        BY <2>2, <4>1 DEF SerializerIInv, OtelInv
      <4>3. k = m
        BY <3>1, <3>2, <4>1, <4>2, AddedMetas DEF GroupOf, KeysTellApart
      <4>4. payload[a] \in ToSet(payload)
        BY <4>1 DEF ToSet
      <4>5. AddedOf(m) = {n \in DOMAIN logs : logs[n].meta = m}
        BY <2>1 DEF AddedOf
      <4> QED
        BY <4>2, <4>3, <4>4, <4>5 DEF GroupOf
    <3>3. Len(payload) = Cardinality(metas)
      BY <2>2, <3>1 DEF SerializerIInv, OtelInv
    <3> QED
      BY <2>2, <3>2, <3>3 DEF RecordsAreTheLogs
  <2>3. CASE Format(webhookMode) # "otel"
    BY <2>1, <2>3 DEF SerializerIInv, PlainInv, RecordsAreTheLogs
  <2> QED
    BY <2>2, <2>3
<1> QED
  BY <1>1, Inductive, PTL
=============================================================================
