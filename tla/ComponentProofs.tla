------------------------- MODULE ComponentProofs ----------------------------
(***************************************************************************)
(* What holds of the smaller components, each by itself, for all values of *)
(* their constants.                                                        *)
(***************************************************************************)
EXTENDS Waitset, TypeSupport, StatusCounters, Listeners, Builders, SampleArrays,
        BenchCases, WriterWatch, InterfaceDefs, DeriveMacros, IdlModules,
        DataLemmas, SequenceTheorems, FiniteSetTheorems, TLAPS

-----------------------------------------------------------------------------
(* Waitset *)

(* What a slice or an attachment refers to is alive or was freed too early; *)
(* while a wait blocks, entities are only detached, so a vector with room   *)
(* for all of them still has room for all that are triggered; and what Rust *)
(* can attach exists.                                                       *)
WaitInv ==
  /\ handles \subseteq exists /\ IsFiniteSet(attached)
  /\ attached \subseteq Entities \X WaitArguments /\ arguments \subseteq WaitArguments
  /\ wcapacity \in Nat
  /\ waiting = "blocked" /\ roomy => Cardinality(attached) <= wcapacity
  /\ WaitSound

(* WaitInv holds of a waitset just created, *)
LEMMA WaitInvInit == WaitsetInit => WaitInv
BY FS_EmptySet DEF WaitsetInit, WaitInv, WaitSound

(* a wait that returns keeps it: if there was room, C wrote all it counts,  *)
LEMMA WaitReturnsKeeps == WaitInv /\ WaitReturns => WaitInv'
<1> SUFFICES ASSUME WaitInv, WaitReturns PROVE WaitInv'
  OBVIOUS
<1> DEFINE p == Cardinality(TriggeredNow)
           room == IF p < wcapacity THEN p ELSE wcapacity
<1>1. TriggeredNow \subseteq attached /\ IsFiniteSet(TriggeredNow)
  BY FS_Subset DEF TriggeredNow, WaitInv
<1>2. p \in Nat /\ Cardinality(attached) \in Nat /\ p <= Cardinality(attached)
  BY <1>1, FS_CardinalityType, FS_Subset DEF WaitInv
<1>3. PICK written \in SUBSET TriggeredNow :
         /\ Cardinality(written) = room
         /\ returned' = { a[2] : a \in written } \cup
                         (IF p > Cardinality(written) THEN {Junk} ELSE {})
  BY DEF WaitReturns, Slice
<1>4. \A a \in written : a \in attached /\ a[2] \in WaitArguments /\ a[2] # Junk
                          /\ a[2] \in arguments \cup freedEarly
  BY <1>1, WaitsetAssumption DEF WaitInv, WaitSound
<1>5. roomy => room = p
  BY <1>2 DEF WaitInv, WaitReturns
<1>6. roomy => Junk \notin returned'
  <2> SUFFICES ASSUME roomy PROVE Junk \notin returned'
    OBVIOUS
  <2>1. ~(p > Cardinality(written))
    BY <1>2, <1>3, <1>5
  <2>2. returned' = { a[2] : a \in written }
    BY <1>3, <2>1
  <2> QED BY <1>4, <2>2
<1>7. returned' \ {Junk} \subseteq arguments \cup freedEarly
  <2>1. returned' \ {Junk} \subseteq { a[2] : a \in written }
    BY <1>3
  <2> QED BY <1>4, <2>1
<1>8. /\ UNCHANGED << handles, exists, attached, arguments, roomy, freedEarly >>
      /\ waiting' = "no" /\ wcapacity' = 0
  BY DEF WaitReturns
<1>9. WaitSound'
  BY <1>6, <1>7, <1>8 DEF WaitInv, WaitSound
<1> QED BY <1>8, <1>9 DEF WaitInv

(* and every step keeps it. *)
LEMMA WaitInvStep == WaitInv /\ [WaitsetNext]_waitsetVars => WaitInv'
<1> SUFFICES ASSUME WaitInv, [WaitsetNext]_waitsetVars PROVE WaitInv'
  OBVIOUS
<1> USE DEF WaitInv, WaitSound, waitCall
<1>1. ASSUME NEW e \in Entities, NEW x \in WaitArguments, attach(e, x) PROVE WaitInv'
  <2>1. IsFiniteSet(attached')
    BY <1>1, FS_AddElement DEF attach
  <2>2. attached' \subseteq attached \cup {<< e, x >>}
    BY <1>1 DEF attach
  <2> QED BY <1>1, <2>1, <2>2 DEF attach, NotWaiting
<1>2. ASSUME NEW e \in Entities, detach(e) PROVE WaitInv'
  <2>1. attached' \subseteq attached /\ IsFiniteSet(attached')
    BY <1>2, FS_Subset DEF detach
  <2> QED BY <1>2, <2>1 DEF detach, NotWaiting
<1>3. ASSUME NEW c \in WaitConditions, DropCondition(c) PROVE WaitInv'
  BY <1>3 DEF DropCondition
<1>4. ASSUME NEW c \in WaitConditions, NEW m \in SUBSET Masks,
             create_readcondition(c, m)
      PROVE  WaitInv'
  BY <1>4 DEF create_readcondition
<1>5. ASSUME NEW r \in WaitReaders, DropReader(r) PROVE WaitInv'
  <2> DEFINE gone == {r} \cup { c \in WaitConditions : ReaderOf[c] = r }
  <2>1. attached' = { a \in attached : a[1] \notin gone }
    BY <1>5 DEF DropReader
  <2>2. /\ attached' \subseteq attached /\ IsFiniteSet(attached')
        /\ Cardinality(attached') <= Cardinality(attached)
    BY <2>1, FS_Subset
  <2>3. Cardinality(attached) \in Nat /\ Cardinality(attached') \in Nat
    BY <2>2, FS_CardinalityType
  <2>4. waiting' = waiting /\ wcapacity' = wcapacity /\ roomy' = roomy
    BY <1>5 DEF DropReader
  <2>5. waiting' = "blocked" /\ roomy' => Cardinality(attached') <= wcapacity'
    BY <2>2, <2>3, <2>4
  <2> QED BY <1>5, <2>1, <2>2, <2>5 DEF DropReader
<1>6. ASSUME NEW r \in WaitReaders, NEW m \in SUBSET Masks,
             dds_set_status_mask(r, m) \/ Occur(r, m)
      PROVE  WaitInv'
  BY <1>6 DEF dds_set_status_mask, Occur
<1>7. ASSUME NEW x \in WaitArguments, FreeArgument(x) PROVE WaitInv'
  <2>1. /\ freedEarly \subseteq freedEarly'
        /\ x \in returned \cup { a[2] : a \in attached } => x \in freedEarly'
    BY <1>7 DEF FreeArgument
  <2>2. returned' = returned /\ attached' = attached
    BY <1>7 DEF FreeArgument
  <2>3. returned' \ {Junk} \subseteq arguments' \cup freedEarly'
    BY <1>7, <2>1, <2>2 DEF FreeArgument
  <2>4. \A a \in attached' : a[1] \in exists' /\ a[2] \in arguments' \cup freedEarly'
    BY <1>7, <2>1, <2>2 DEF FreeArgument
  <2> QED BY <1>7, <2>3, <2>4 DEF FreeArgument
<1>8. ASSUME NEW n \in 0..Cardinality(Entities), wait(n) PROVE WaitInv'
  <2>1. n \in Nat /\ Cardinality(attached) \in Nat
    BY FS_CardinalityType
  <2> QED BY <1>8, <2>1 DEF wait
<1>9. CASE WaitReturns
  BY <1>9, WaitReturnsKeeps
<1>10. CASE WaitTimesOut
  BY <1>10 DEF WaitTimesOut, Slice
<1>11. CASE WaitFails
  BY <1>11 DEF WaitFails
<1>12. CASE UseSlice
  BY <1>12 DEF UseSlice
<1>13. CASE DropWaitset
  <2>1. attached' = {} /\ IsFiniteSet(attached')
    BY <1>13, FS_EmptySet DEF DropWaitset
  <2> QED BY <1>13, <2>1 DEF DropWaitset
<1>14. CASE UNCHANGED waitsetVars
  BY <1>14 DEF waitsetVars
<1> QED BY <1>1, <1>2, <1>3, <1>4, <1>5, <1>6, <1>7, <1>8, <1>9, <1>10, <1>11,
           <1>12, <1>13, <1>14 DEF WaitsetNext

(* Readers, conditions and arguments are dropped while a wait blocks, and   *)
(* vectors of any capacity are passed: what a wait hands out is alive or    *)
(* was freed by the application while C still kept it, and what C did not   *)
(* write is shown only to the application whose vector was too small.       *)
THEOREM WaitHandsOutTheLiving == WaitsetSpec => []WaitSound
<1>1. WaitInv => WaitSound
  BY DEF WaitInv
<1> QED BY <1>1, WaitInvInit, WaitInvStep, PTL DEF WaitsetSpec

-----------------------------------------------------------------------------
(* TypeSupport *)

(* A serdata in use says how it was made *)
AsMade(h) ==
  /\ h.origin \in Origins /\ h.serdata.key \in KeyValues
  /\ h.serdata.ops = Static
  /\ h.serdata.type \in TopicIds /\ sertypes[h.serdata.type] = "live"
  /\ h.serdata.hash = IF h.origin = "sample" THEN Murmur[h.serdata.key] ELSE 0
  /\ h.serdata.key_hash =
       IF h.origin = "keyhash" THEN CdrKey(h.serdata.key) ELSE NoKeyHash

SameName(d, e) == d.hash = e.hash /\ d.key_hash = e.key_hash

(* The map files by name, that is hash and key hash, and names are unique;  *)
(* what is in use is filed under its name as long as the map is there       *)
FilesInv ==
  /\ \A i \in DOMAIN tkmap :
       /\ i[1] = tkmap[i].hash /\ i[2] = tkmap[i].key_hash
       /\ tkmap[i].ops = Static /\ tkmap[i].type = NullType
  /\ \A i, j \in DOMAIN tkmap : SameName(tkmap[i], tkmap[j]) => i = j
  /\ ~domain_freed =>
       \A h \in held : h.instance \in DOMAIN tkmap
                       /\ SameName(tkmap[h.instance], h.serdata)
  /\ \A g, h \in held : SameName(g.serdata, h.serdata) <=> g.instance = h.instance

TypesInv ==
  /\ sertypes \in [TopicIds -> {"none", "live", "freed", "lost"}]
  /\ opened \subseteq TopicIds /\ \A t \in opened : sertypes[t] = "live"
  /\ domain_freed \in BOOLEAN /\ (domain_freed => opened = {})
  /\ IsFiniteSet(held) /\ \A h \in held : AsMade(h)
  /\ FilesInv

(* The fields of what the constructors make *)
LEMMA MadeFields ==
  ASSUME NEW origin \in Origins, NEW t, NEW k
  PROVE  /\ Made(origin, t, k).type = t /\ Made(origin, t, k).ops = Static
         /\ Made(origin, t, k).key = k
         /\ Made(origin, t, k).hash = IF origin = "sample" THEN Murmur[k] ELSE 0
         /\ Made(origin, t, k).key_hash =
              IF origin = "keyhash" THEN CdrKey(k) ELSE NoKeyHash
BY DEF Made, Origins, serdata_from_sample, serdata_from_cdr, serdata_from_keyhash,
       NewSerData, SERDATA_OPS

(* What the map keeps of it *)
LEMMA UntypedFields ==
  ASSUME NEW d
  PROVE  /\ serdata_to_untyped(d).type = NullType
         /\ serdata_to_untyped(d).ops = d.ops
         /\ SameName(serdata_to_untyped(d), d)
BY DEF serdata_to_untyped, NewSerData, SameName

(* TypesInv holds when the first topic is created, *)
LEMMA TypesInvInit == TypeSupportInit => TypesInv
<1> SUFFICES ASSUME TypeSupportInit PROVE TypesInv
  OBVIOUS
<1>1. DOMAIN tkmap = {}
  BY DEF TypeSupportInit
<1>2. FilesInv
  BY <1>1 DEF TypeSupportInit, FilesInv
<1>3. IsFiniteSet(held)
  BY FS_EmptySet DEF TypeSupportInit
<1> QED BY <1>2, <1>3 DEF TypeSupportInit, TypesInv

(* A serdata is filed where its like is, or under a new name *)
LEMMA FileStep ==
  ASSUME TypesInv, NEW origin \in Origins, NEW t \in TopicIds, NEW k \in KeyValues,
         File(origin, t, k)
  PROVE  TypesInv'
<1> DEFINE d == Made(origin, t, k)
<1> USE DEF TypesInv
<1>1. PICK i \in IF Filed(d) # {} THEN Filed(d) ELSE {Fresh(d)} :
        /\ tkmap' = IF i \in DOMAIN tkmap THEN tkmap
                    ELSE [ n \in DOMAIN tkmap \cup {i} |->
                             IF n = i THEN serdata_to_untyped(d) ELSE tkmap[n] ]
        /\ held' = held \cup {[serdata |-> d, origin |-> origin, instance |-> i]}
  BY DEF File
<1> DEFINE new == [serdata |-> d, origin |-> origin, instance |-> i]
<1>2. /\ t \in opened /\ Cardinality(held) < MaxHeld
      /\ UNCHANGED << sertypes, opened, domain_freed >>
  BY DEF File
<1>3. ~domain_freed /\ sertypes[t] = "live"
  BY <1>2
<1>4. AsMade(new)'
  BY <1>2, <1>3, MadeFields DEF AsMade
<1>5. \A h \in held' : AsMade(h)'
  BY <1>1, <1>2, <1>4 DEF AsMade
<1>6. IsFiniteSet(held')
  BY <1>1, FS_AddElement
<1> HIDE DEF d
<1>7. CASE Filed(d) # {}
  <2>1. i \in DOMAIN tkmap /\ SameName(tkmap[i], d) /\ tkmap' = tkmap
    BY <1>1, <1>7 DEF Filed, serdata_eqkey, SameName
  <2>2. FilesInv'
    <3>1. ASSUME NEW h \in held' PROVE h.instance \in DOMAIN tkmap' /\ SameName(tkmap'[h.instance], h.serdata)
      BY <1>1, <1>3, <2>1, <3>1 DEF FilesInv
    <3>2. ASSUME NEW g \in held', NEW h \in held'
          PROVE  SameName(g.serdata, h.serdata) <=> g.instance = h.instance
      BY <2>1, <3>1, <3>2 DEF FilesInv, SameName
    <3> QED BY <1>2, <2>1, <3>1, <3>2 DEF FilesInv
  <2> QED BY <1>2, <1>5, <1>6, <2>2
<1>8. CASE Filed(d) = {}
  <2>1. PICK free \in 1..MaxHeld : Fresh(d) = << d.hash, d.key_hash, free >>
                                /\ Fresh(d) \notin DOMAIN tkmap
    <3>1. \A n : << d.hash, d.key_hash, n >> \notin DOMAIN tkmap
      BY <1>8 DEF Filed, serdata_eqkey, FilesInv
    <3>2. 1 \in 1..MaxHeld
      BY <1>2, TypeSupportAssumption, FS_CardinalityType
    <3> QED BY <3>1, <3>2 DEF Fresh
  <2>2. i = Fresh(d)
    BY <1>1, <1>8
  <2>3. /\ DOMAIN tkmap' = DOMAIN tkmap \cup {i} /\ i \notin DOMAIN tkmap
        /\ tkmap'[i] = serdata_to_untyped(d)
        /\ \A n \in DOMAIN tkmap : tkmap'[n] = tkmap[n]
    BY <1>1, <2>1, <2>2
  <2>4. SameName(tkmap'[i], d) /\ tkmap'[i].type = NullType /\ tkmap'[i].ops = Static
    BY <2>3, UntypedFields, MadeFields DEF d
  <2>5. \A n \in DOMAIN tkmap : ~SameName(tkmap[n], d)
    BY <1>8 DEF Filed, serdata_eqkey, SameName
  <2>6. FilesInv'
    <3>1. \A n \in DOMAIN tkmap' :
            /\ n[1] = tkmap'[n].hash /\ n[2] = tkmap'[n].key_hash
            /\ tkmap'[n].ops = Static /\ tkmap'[n].type = NullType
      BY <2>1, <2>2, <2>3, <2>4 DEF FilesInv, SameName
    <3>2. \A n, m \in DOMAIN tkmap' : SameName(tkmap'[n], tkmap'[m]) => n = m
      BY <2>3, <2>4, <2>5 DEF FilesInv, SameName
    <3>3. ASSUME NEW h \in held' PROVE h.instance \in DOMAIN tkmap' /\ SameName(tkmap'[h.instance], h.serdata)
      BY <1>1, <1>3, <2>3, <2>4, <3>3 DEF FilesInv
    <3>4. ASSUME NEW g \in held', NEW h \in held'
          PROVE  SameName(g.serdata, h.serdata) <=> g.instance = h.instance
      BY <3>2, <3>3, <3>4 DEF SameName
    <3> QED BY <3>1, <3>2, <3>3, <3>4 DEF FilesInv
  <2> QED BY <1>2, <1>5, <1>6, <2>6
<1> QED BY <1>7, <1>8

(* every step keeps it, *)
LEMMA TypesInvStep == TypesInv /\ [TypeSupportNext]_typeVars => TypesInv'
<1> SUFFICES ASSUME TypesInv, [TypeSupportNext]_typeVars PROVE TypesInv'
  OBVIOUS
<1> USE DEF TypesInv, AsMade
<1>1. ASSUME NEW t \in TopicIds, CreateTopic(t) PROVE TypesInv'
  BY <1>1 DEF CreateTopic, FilesInv
<1>2. ASSUME NEW t \in TopicIds, CreateTopicFails(t) PROVE TypesInv'
  BY <1>2 DEF CreateTopicFails, FilesInv
<1>3. ASSUME NEW t \in TopicIds, DeleteTopic(t) PROVE TypesInv'
  BY <1>3 DEF DeleteTopic, FilesInv
<1>4. ASSUME NEW t \in TopicIds, FreeSertype(t) PROVE TypesInv'
  BY <1>4 DEF FreeSertype, FilesInv
<1>5. ASSUME NEW t \in TopicIds, NEW origin \in Origins, NEW k \in KeyValues, File(origin, t, k)
      PROVE  TypesInv'
  BY <1>5, FileStep
<1>6. ASSUME NEW h \in held, Release(h) PROVE TypesInv'
  <2>1. held' \subseteq held /\ IsFiniteSet(held')
    BY <1>6, FS_Subset DEF Release
  <2> QED BY <1>6, <2>1 DEF Release, FilesInv
<1>7. ASSUME NEW i \in DOMAIN tkmap, Collect(i) PROVE TypesInv'
  BY <1>7 DEF Collect, FilesInv
<1>8. CASE FreeDomain
  BY <1>8 DEF FreeDomain, FilesInv
<1>9. CASE UNCHANGED typeVars
  BY <1>9 DEF typeVars, FilesInv
<1> QED BY <1>1, <1>2, <1>3, <1>4, <1>5, <1>6, <1>7, <1>8, <1>9 DEF TypeSupportNext

(* and it is what the copies need. *)
LEMMA TypesInvServes == TypesInv => CopyServes
<1> SUFFICES ASSUME TypesInv PROVE CopyServes
  OBVIOUS
<1>1. OpsOutlive
  BY DEF TypesInv, FilesInv, AsMade, OpsOutlive, Serdatas
<1>2. FiledTogether
  BY DEF TypesInv, FilesInv, AsMade, SameName, FiledTogether
<1> QED BY <1>1, <1>2 DEF CopyServes

(* The untyped copy in the map serves every serdata filed with it, and the  *)
(* table of operations outlives them all, for any topics and keys.          *)
THEOREM CopiesServe == TypeSupportSpec => []CopyServes
BY TypesInvInit, TypesInvStep, TypesInvServes, PTL DEF TypeSupportSpec

-----------------------------------------------------------------------------
(* StatusCounters *)

(* A count and a current count *)
Pair == Int \X Int

(* A deadline has one counter.  A status with a callback has no changes to  *)
(* poll, one without has none that a callback was told.                     *)
ToldInv ==
  /\ endpoint \in {"reader", "writer", "async_reader", "watching_reader",
                   "watching_writer"}
  /\ counts \in [Statuses -> Pair] /\ changes \in [Statuses -> Pair]
  /\ polled \in [Statuses -> Pair] /\ called_back \in [Statuses -> Pair]
  /\ \A s \in Statuses : s = "requested_deadline_missed" =>
       counts[s][2] = 0 /\ changes[s][2] = 0
  /\ \A s \in Statuses :
       /\ Balance(s) = counts[s]
       /\ Hooked(s) \/ s \notin StatusesOf(endpoint) =>
            changes[s] = NoneYet /\ polled[s] = NoneYet
       /\ ~Hooked(s) => called_back[s] = NoneYet

(* Pairs add up as numbers do *)
LEMMA PlusPair ==
  ASSUME NEW a \in Pair, NEW b \in Pair
  PROVE  Plus(a, b) \in Pair /\ Plus(a, b)[1] = a[1] + b[1] /\ Plus(a, b)[2] = a[2] + b[2]
BY DEF Pair, Plus

(* A pair is its two components. *)
LEMMA PairEqual ==
  ASSUME NEW a \in Pair, NEW b \in Pair, a[1] = b[1], a[2] = b[2]
  PROVE  a = b
BY DEF Pair

(* Nothing happened: two zeroes. *)
LEMMA NonePair == NoneYet \in Pair /\ NoneYet[1] = 0 /\ NoneYet[2] = 0
BY DEF Pair, NoneYet

(* What a poll returns is what C holds *)
LEMMA PollReturns ==
  ASSUME ToldInv, NEW s \in Statuses
  PROVE  CountersIn(s) = counts[s] /\ ChangesIn(s) = changes[s]
<1>1. /\ counts[s] \in Pair /\ changes[s] \in Pair
      /\ counts[s] = << counts[s][1], counts[s][2] >>
      /\ changes[s] = << changes[s][1], changes[s][2] >>
  BY DEF ToldInv, Pair
<1>2. CASE s = "liveliness_changed"
  BY <1>1, <1>2 DEF CountersIn, ChangesIn, Returned, LivelinessChangedStatus, CStatus
<1>3. CASE s = "requested_deadline_missed"
  BY <1>1, <1>3 DEF ToldInv, CountersIn, ChangesIn, Returned,
                    RequestedDeadlineMissedStatus, CStatus
<1>4. CASE s = "subscription_matched"
  BY <1>1, <1>4 DEF CountersIn, ChangesIn, Returned, SubscriptionMatchedStatus,
                    MatchedStatus, CStatus
<1>5. CASE s = "publication_matched"
  BY <1>1, <1>5 DEF CountersIn, ChangesIn, Returned, PublicationMatchedStatus,
                    MatchedStatus, CStatus
<1> QED BY <1>2, <1>3, <1>4, <1>5 DEF Statuses

(* ToldInv holds of an endpoint just created, *)
LEMMA ToldInvInit == StatusInit => ToldInv
<1> SUFFICES ASSUME StatusInit PROVE ToldInv
  OBVIOUS
<1>1. ASSUME NEW s \in Statuses PROVE Balance(s) = NoneYet
  BY NonePair, PlusPair, PairEqual DEF StatusInit, Balance
<1>2. endpoint \in {"reader", "writer", "async_reader", "watching_reader", "watching_writer"}
  BY DEF StatusInit, InternalHooks
<1> QED BY <1>1, <1>2, NonePair DEF StatusInit, ToldInv

(* Sums of pairs may be regrouped *)
LEMMA PlusMoves ==
  ASSUME NEW p \in Pair, NEW c \in Pair, NEW d \in Pair, NEW e \in Pair
  PROVE  /\ Plus(Plus(p, c), Plus(d, e)) = Plus(Plus(Plus(p, c), d), e)
         /\ Plus(Plus(p, Plus(c, Plus(d, e))), NoneYet) = Plus(Plus(Plus(p, c), d), e)
         /\ Plus(Plus(Plus(p, d), c), NoneYet) = Plus(Plus(p, c), d)
  BY DEF Plus, Pair, NoneYet

(* a change of a status keeps it, *)
LEMMA ChangeStep == ASSUME ToldInv, StatusChanges PROVE ToldInv'
<1> USE DEF ToldInv
<1>0. PICK s \in StatusesOf(endpoint) : \E delta \in Happens[s] :
        /\ counts' = [counts EXCEPT ![s] = Plus(counts[s], delta)]
        /\ IF Hooked(s)
           THEN /\ called_back' = [called_back EXCEPT ![s] = Plus(@, Plus(changes[s], delta))]
                /\ changes' = [changes EXCEPT ![s] = NoneYet]
           ELSE /\ changes' = [changes EXCEPT ![s] = Plus(changes[s], delta)]
                /\ UNCHANGED called_back
  BY DEF StatusChanges
<1>1. PICK delta \in Happens[s] :
        /\ counts' = [counts EXCEPT ![s] = Plus(counts[s], delta)]
        /\ IF Hooked(s)
           THEN /\ called_back' = [called_back EXCEPT ![s] = Plus(@, Plus(changes[s], delta))]
                /\ changes' = [changes EXCEPT ![s] = NoneYet]
           ELSE /\ changes' = [changes EXCEPT ![s] = Plus(changes[s], delta)]
                /\ UNCHANGED called_back
  BY <1>0
<1>2. s \in Statuses /\ UNCHANGED << endpoint, user_hooks, polled >>
  BY DEF StatusesOf, Statuses, StatusChanges
<1>3. delta \in Pair /\ (s = "requested_deadline_missed" => delta[2] = 0)
  BY <1>2 DEF Statuses, Happens, Pair
<1>4. /\ Plus(counts[s], delta) \in Pair /\ Plus(changes[s], delta) \in Pair
      /\ Plus(called_back[s], Plus(changes[s], delta)) \in Pair
      /\ counts[s] \in Pair /\ changes[s] \in Pair /\ called_back[s] \in Pair /\ polled[s] \in Pair
  BY <1>2, <1>3, PlusPair
<1>5. /\ counts' \in [Statuses -> Pair] /\ changes' \in [Statuses -> Pair]
      /\ called_back' \in [Statuses -> Pair] /\ polled' \in [Statuses -> Pair]
  BY <1>1, <1>2, <1>4, NonePair
<1>6. ASSUME NEW q \in Statuses, q = "requested_deadline_missed"
      PROVE  counts'[q][2] = 0 /\ changes'[q][2] = 0
  <2>1. /\ Plus(counts[s], delta)[2] = counts[s][2] + delta[2]
        /\ Plus(changes[s], delta)[2] = changes[s][2] + delta[2]
    BY <1>3, <1>4, PlusPair
  <2>2. CASE q = s
    <3>1. Plus(counts[q], delta)[2] = 0 /\ Plus(changes[q], delta)[2] = 0
      BY <1>3, <1>6, <2>1, <2>2
    <3>2. /\ counts'[q] = Plus(counts[q], delta)
          /\ changes'[q] = NoneYet \/ changes'[q] = Plus(changes[q], delta)
      BY <1>1, <1>2, <2>2
    <3> QED BY <3>1, <3>2, NonePair
  <2>3. CASE q # s
    BY <1>1, <1>6, <2>3
  <2> QED BY <2>2, <2>3
<1>7. ASSUME NEW q \in Statuses
      PROVE  /\ Balance(q)' = counts'[q]
             /\ Hooked(q)' \/ q \notin StatusesOf(endpoint)' =>
                  changes'[q] = NoneYet /\ polled'[q] = NoneYet
             /\ ~Hooked(q)' => called_back'[q] = NoneYet
  <2>1. /\ (Hooked(q)' <=> Hooked(q)) /\ StatusesOf(endpoint)' = StatusesOf(endpoint)
        /\ polled'[q] = polled[q]
    BY <1>2 DEF Hooked
  <2>2. CASE q # s
    BY <1>1, <1>2, <2>1, <2>2 DEF Balance
  <2>3. CASE q = s /\ Hooked(s)
    <3>1. /\ called_back'[s] = Plus(called_back[s], Plus(changes[s], delta))
          /\ changes'[s] = NoneYet /\ counts'[s] = Plus(counts[s], delta)
      BY <1>1, <1>2, <2>3
    <3>2. Balance(s)' = counts'[s]
      BY <1>2, <1>3, <1>4, <2>1, <2>3, <3>1, PlusMoves DEF Balance
    <3> QED BY <1>2, <2>1, <2>3, <3>1, <3>2
  <2>4. CASE q = s /\ ~Hooked(s)
    <3>1. /\ called_back'[s] = called_back[s]
          /\ changes'[s] = Plus(changes[s], delta) /\ counts'[s] = Plus(counts[s], delta)
      BY <1>1, <1>2, <2>4
    <3>2. Balance(s)' = counts'[s]
      BY <1>2, <1>3, <1>4, <2>1, <2>4, <3>1, PlusMoves DEF Balance
    <3> QED BY <1>2, <2>1, <2>4, <3>1, <3>2
  <2> QED BY <2>2, <2>3, <2>4
<1> QED BY <1>2, <1>5, <1>6, <1>7

(* and so do a poll *)
LEMMA PollStep ==
  ASSUME ToldInv, NEW s \in Statuses, TakeStatus(s) PROVE ToldInv'
<1> USE DEF ToldInv
<1>1. /\ polled' = [polled EXCEPT ![s] = Plus(@, changes[s])]
      /\ changes' = [changes EXCEPT ![s] = NoneYet]
      /\ UNCHANGED << endpoint, user_hooks, counts, called_back >>
  BY PollReturns DEF TakeStatus
<1>2. polled[s] \in Pair /\ changes[s] \in Pair /\ called_back[s] \in Pair
  OBVIOUS
<1>3. changes' \in [Statuses -> Pair] /\ polled' \in [Statuses -> Pair]
  BY <1>1, <1>2, PlusPair, NonePair
<1>4. ASSUME NEW q \in Statuses, q = "requested_deadline_missed"
      PROVE  changes'[q][2] = 0
  BY <1>1, <1>4, NonePair
<1>5. ASSUME NEW q \in Statuses
      PROVE  /\ Balance(q)' = counts'[q]
             /\ Hooked(q)' \/ q \notin StatusesOf(endpoint)' =>
                  changes'[q] = NoneYet /\ polled'[q] = NoneYet
             /\ ~Hooked(q)' => called_back'[q] = NoneYet
  <2>1. (Hooked(q)' <=> Hooked(q)) /\ StatusesOf(endpoint)' = StatusesOf(endpoint)
    BY <1>1 DEF Hooked
  <2>2. CASE q # s
    BY <1>1, <2>1, <2>2 DEF Balance
  <2>3. CASE q = s
    <3>1. polled'[s] = Plus(polled[s], changes[s]) /\ changes'[s] = NoneYet
      BY <1>1
    <3>2. Balance(s)' = counts'[s]
      BY <1>1, <1>2, <3>1, PlusMoves DEF Balance
    <3>3. polled[s] = NoneYet /\ changes[s] = NoneYet => polled'[s] = NoneYet
      BY <3>1, NonePair DEF Plus, NoneYet
    <3> QED BY <1>1, <2>1, <2>3, <3>1, <3>2, <3>3
  <2> QED BY <2>2, <2>3
<1> QED BY <1>1, <1>3, <1>4, <1>5

(* and every other step; *)
LEMMA ToldInvStep == ToldInv /\ [StatusNext]_statusVars => ToldInv'
<1> SUFFICES ASSUME ToldInv, [StatusNext]_statusVars PROVE ToldInv'
  OBVIOUS
<1>1. CASE StatusChanges
  BY <1>1, ChangeStep
<1>2. ASSUME NEW s \in Statuses, TakeStatus(s) PROVE ToldInv'
  BY <1>2, PollStep
<1>3. CASE UNCHANGED statusVars
  BY <1>3 DEF statusVars, ToldInv, Balance, Hooked
<1> QED BY <1>1, <1>2, <1>3 DEF StatusNext, Statuses, liveliness_changed_status,
     requested_deadline_missed_status, subscription_matched_status, publication_matched_status

(* it says that nothing is lost. *)
LEMMA ToldInvTells == ToldInv => StatusesTold
<1> SUFFICES ASSUME ToldInv PROVE StatusesTold
  OBVIOUS
<1>1. \A s \in StatusesOf(endpoint) : Balance(s) = counts[s] /\ CountersIn(s) = counts[s]
  BY PollReturns DEF ToldInv, StatusesOf, Statuses
<1>2. ASSUME NEW s \in Statuses, polled[s] = NoneYet, changes[s] = NoneYet
      PROVE  called_back[s] = counts[s]
  <2>1. called_back[s] \in Pair /\ counts[s] \in Pair /\ Balance(s) = counts[s]
    BY DEF ToldInv
  <2> QED BY <1>2, <2>1 DEF Balance, Plus, NoneYet, Pair
<1>3. ASSUME endpoint \notin {"writer", "watching_writer"}, "liveliness_changed" \notin user_hooks
      PROVE  Plus(polled["liveliness_changed"], changes["liveliness_changed"])
               = counts["liveliness_changed"]
  <2> DEFINE s == "liveliness_changed"
  <2>1. s \in Statuses /\ ~Hooked(s)
    BY <1>3 DEF ToldInv, Statuses, Hooked, InternalHooks
  <2>2. /\ polled[s] \in Pair /\ changes[s] \in Pair /\ called_back[s] = NoneYet
        /\ Balance(s) = counts[s]
    BY <2>1 DEF ToldInv
  <2> QED BY <2>2 DEF Balance, Plus, NoneYet, Pair
<1>4. ASSUME NEW s \in {"subscription_matched", "publication_matched"},
             endpoint \in {"watching_reader", "watching_writer"}
      PROVE  polled[s] = NoneYet /\ called_back[s] = counts[s]
  <2>1. s \in Statuses /\ (Hooked(s) \/ s \notin StatusesOf(endpoint))
    BY <1>4 DEF Statuses, StatusesOf, Hooked, InternalHooks
  <2> QED BY <1>2, <2>1 DEF ToldInv
<1> QED BY <1>1, <1>3, <1>4 DEF StatusesTold

(* Every change of a status is told exactly once: by its callback where one *)
(* is registered, by a poll where none is, however changes and polls mix.   *)
THEOREM EveryChangeIsTold == StatusSpec => []StatusesTold
BY ToldInvInit, ToldInvStep, ToldInvTells, PTL DEF StatusSpec

-----------------------------------------------------------------------------
(* Listeners *)

(* The events of the C library *)
AllEvents ==
  { "data_available", "sample_lost", "sample_rejected", "liveliness_changed",
    "requested_deadline_missed", "requested_incompatible_qos", "subscription_matched",
    "liveliness_lost", "offered_deadline_missed", "offered_incompatible_qos",
    "publication_matched", "inconsistent_topic", "data_on_readers" }

(* Every event has its own field, trampoline and type of status *)
LEMMA OwnRow ==
  /\ CallbackFields = AllEvents
  /\ \A e \in CallbackFields :
       /\ Closures[e].set = e /\ Closures[e].call = e
       /\ HasStatus(e) => Closures[e].status = TRUE
       /\ ~HasStatus(e) => Closures[e].status = FALSE
<1> DEFINE Owns(table) == \A e \in DOMAIN table :
             /\ table[e].set = e /\ table[e].call = e
             /\ HasStatus(e) => table[e].status = TRUE
             /\ ~HasStatus(e) => table[e].status = FALSE
<1>1. Owns(ReaderDataEvents)
  BY DEF ReaderDataEvents, HasStatus, Row
<1>2. Owns(ReaderStatusEvents)
  BY DEF ReaderStatusEvents, HasStatus, Row
<1>3. Owns(WriterEvents)
  BY DEF WriterEvents, HasStatus, Row
<1>4. Owns(TopicEvents)
  BY DEF TopicEvents, HasStatus, Row
<1>5. Owns(Closures)
  BY <1>1, <1>2, <1>3, <1>4 DEF Closures
<1>6. CallbackFields = AllEvents
  BY DEF CallbackFields, AllEvents, Closures, ReaderDataEvents, ReaderStatusEvents,
         WriterEvents, TopicEvents
<1> QED BY <1>5, <1>6 DEF CallbackFields

(* Every event has its own method of the builder and its own line lset!     *)
LEMMA OwnLine ==
  ASSUME NEW e \in CallbackFields
  PROVE  BuilderField(e) = e /\ LsetLine(e).event = e /\ LsetLine(e).closure = e
<1>1. e \in AllEvents
  BY OwnRow
<1>2. BuilderFields[e] = e
  BY <1>1 DEF AllEvents, BuilderFields
<1>3. LsetLines[e].event = e /\ LsetLines[e].closure = e
  BY <1>1 DEF AllEvents, LsetLines, Line
<1> QED BY <1>2, <1>3 DEF BuilderField, LsetLine

(* A callback is in the field of its event, and C has the trampoline of     *)
(* each field that is set                                                   *)
RoutedInv ==
  /\ fields \in [CallbackFields -> Nat] /\ made \in Nat
  /\ hook_stage \in {"open", "hooked"} => fields = wanted
  /\ hook_stage = "hooked" =>
       c_table = [e \in CallbackFields |-> IF wanted[e] = NoCallback THEN NoClosure ELSE e]

(* RoutedInv holds of a listener just built, *)
LEMMA RoutedInvInit == ListenersInit => RoutedInv
BY DEF ListenersInit, RoutedInv, Nothing, NoCallback

(* hook tells C the trampoline of each event that is set *)
LEMMA HookTable ==
  ASSUME RoutedInv, Hook
  PROVE  c_table' = [e \in CallbackFields |-> IF fields[e] = NoCallback THEN NoClosure ELSE e]
<1> DEFINE rows == { LsetLine(f) : f \in { g \in CallbackFields : fields[g] # NoCallback } }
<1>1. \A l \in rows : l.event = l.closure /\ l.event \in CallbackFields
                       /\ fields[l.event] # NoCallback
  BY OwnLine
<1>2. ASSUME NEW e \in CallbackFields, fields[e] # NoCallback
      PROVE  \E l \in rows : l.event = e
  <2>1. LsetLine(e) \in rows
    BY <1>2
  <2> QED BY <2>1, OwnLine
<1>3. c_table' = [ e \in CallbackFields |-> IF \E l \in rows : l.event = e
                     THEN (CHOOSE l \in rows : l.event = e).closure ELSE NoClosure ]
  BY DEF Hook
<1> HIDE DEF rows
<1>4. ASSUME NEW e \in CallbackFields
      PROVE  (IF \E l \in rows : l.event = e
              THEN (CHOOSE l \in rows : l.event = e).closure ELSE NoClosure)
             = IF fields[e] = NoCallback THEN NoClosure ELSE e
  <2>1. CASE \E l \in rows : l.event = e
    <3>1. (CHOOSE l \in rows : l.event = e) \in rows
          /\ (CHOOSE l \in rows : l.event = e).event = e
      BY <2>1
    <3> QED BY <1>1, <2>1, <3>1
  <2>2. CASE ~ \E l \in rows : l.event = e
    BY <1>2, <2>2
  <2> QED BY <2>1, <2>2
<1> QED BY <1>3, <1>4

(* every step keeps it, *)
LEMMA RoutedInvStep == RoutedInv /\ [ListenersNext]_listenerVars => RoutedInv'
<1> SUFFICES ASSUME RoutedInv, [ListenersNext]_listenerVars PROVE RoutedInv'
  OBVIOUS
<1> USE DEF RoutedInv
<1>1. ASSUME NEW e \in CallbackFields, BuilderOn(e) PROVE RoutedInv'
  <2>1. BuilderField(e) = e
    BY OwnLine
  <2>2. /\ fields' = [fields EXCEPT ![e] = made + 1] /\ made' = made + 1
        /\ wanted' = [wanted EXCEPT ![e] = made + 1]
        /\ hook_stage = "open" /\ hook_stage' = hook_stage
    BY <1>1, <2>1 DEF BuilderOn
  <2> QED BY <2>2
<1>2. ASSUME NEW e \in CallbackFields, On(e) PROVE RoutedInv'
  <2>1. Closures[e].set = e
    BY OwnRow
  <2> QED BY <1>2, <2>1 DEF On
<1>3. CASE Hook
  <2>1. fields = wanted /\ UNCHANGED << fields, made, wanted >>
    BY <1>3 DEF Hook
  <2> QED BY <1>3, <2>1, HookTable
<1>4. CASE HookFails
  BY <1>4 DEF HookFails, Nothing, NoCallback
<1>5. CASE DropListener
  BY <1>5 DEF DropListener, Nothing, NoCallback
<1>6. CASE UNCHANGED listenerVars
  BY <1>6 DEF listenerVars
<1> QED BY <1>1, <1>2, <1>3, <1>4, <1>5, <1>6 DEF ListenersNext

(* and it says which callback an event reaches. *)
LEMMA RoutedInvRoutes == RoutedInv => EventsRouted
<1> SUFFICES ASSUME RoutedInv, hook_stage = "hooked", NEW e \in CallbackFields
             PROVE  Runs(e) = << wanted[e], wanted[e] # NoCallback /\ HasStatus(e) >>
  BY DEF EventsRouted
<1>1. fields = wanted /\ c_table[e] = IF wanted[e] = NoCallback THEN NoClosure ELSE e
  BY DEF RoutedInv
<1>2. e # NoClosure
  BY OwnRow DEF AllEvents, NoClosure
<1>3. Closures[e].status = HasStatus(e)
  <2>1. HasStatus(e) \in BOOLEAN
    BY DEF HasStatus
  <2>2. CASE HasStatus(e)
    BY <2>1, <2>2, OwnRow
  <2>3. CASE ~HasStatus(e)
    BY <2>1, <2>3, OwnRow
  <2> QED BY <2>2, <2>3
<1>4. CASE wanted[e] = NoCallback
  BY <1>1, <1>4 DEF Runs
<1>5. CASE wanted[e] # NoCallback
  <2>1. Runs(e) = << fields[Closures[e].call], Closures[e].status >>
    BY <1>1, <1>2, <1>5 DEF Runs
  <2> QED BY <1>1, <1>3, <1>5, <2>1, OwnRow DEF HasStatus
<1> QED BY <1>4, <1>5

(* Each event runs the callback that was last set for it before hook, with  *)
(* its own status, and one that nobody wanted runs none.                    *)
THEOREM EventsFindTheirCallbacks == ListenersSpec => []EventsRouted
BY RoutedInvInit, RoutedInvStep, RoutedInvRoutes, PTL DEF ListenersSpec

-----------------------------------------------------------------------------
(* Builders *)

(* Callbacks of the application that were registered, each at one place     *)
Given(callbacks) ==
  /\ callbacks \in [Events -> Seq(1..registered)]
  /\ \A d, e \in Events : \A i \in DOMAIN callbacks[d] : \A j \in DOMAIN callbacks[e] :
       callbacks[d][i] = callbacks[e][j] => d = e /\ i = j

(* What an event runs, and whether it still has to run f                    *)
Chain(e) == IF e \in Heard THEN << Internal >> \o Promised[e] ELSE Promised[e]
Standing(f) == \E k \in DOMAIN running : running[k] = f
Behind(e) == e = event /\ running # << >> /\ Head(running) = Internal

RunningInv ==
  /\ running \in Seq(0..MaxCallbacks)
  /\ \A k \in DOMAIN running :
       /\ running[k] = Internal => k = 1 /\ event \in Heard
       /\ running[k] # Internal => \E i \in DOMAIN Promised[event] : Promised[event][i] = running[k]
       /\ \A m \in DOMAIN running : running[k] = running[m] => k = m

CountInv ==
  /\ \A e \in Events : \A i \in DOMAIN Promised[e] :
       happened[e] = called[Promised[e][i]] + IF Standing(Promised[e][i]) THEN 1 ELSE 0
  /\ \A e \in Heard : happened[e] = seen[e] + IF Behind(e) THEN 1 ELSE 0

(* What was collected is the application's; an endpoint's listener runs the *)
(* crate's callback first and then what was promised, and has run of it     *)
(* what is not pending                                                      *)
ChainInv ==
  /\ registered \in 0..MaxCallbacks /\ event \in Events
  /\ happened \in [Events -> Nat] /\ seen \in [Events -> Nat]
  /\ called \in [1..MaxCallbacks -> Nat]
  /\ Given(collecting)
  /\ builder.listener = Null \/ Given(builder.listener)
  /\ builder.listener_builder = Null \/ Given(builder.listener_builder)
  /\ builder \in [ listener : {builder.listener}, listener_builder : {builder.listener_builder},
                   is_async : BOOLEAN, timeout : BOOLEAN ]
  /\ ~created => /\ running = << >> /\ \A e \in Events : happened[e] = 0 /\ seen[e] = 0
                 /\ \A f \in 1..MaxCallbacks : called[f] = 0
  /\ created => /\ \A e \in Events :
                     (IF listener = Null THEN << >> ELSE listener[e]) = Chain(e)
                /\ RunningInv /\ CountInv

(* Nothing was given. *)
LEMMA NothingGiven == Given(Default) /\ \A e \in Events : Default[e] = << >> /\ DOMAIN Default[e] = {}
<1>1. << >> \in Seq(1..registered) /\ DOMAIN << >> = {}
  BY EmptySeq
<1> QED BY <1>1 DEF Given, Default

(* What is promised is the application's. *)
LEMMA PromisedGiven ==
  ASSUME ChainInv
  PROVE  Given(Promised) /\ Promised \in [Events -> Seq(0..MaxCallbacks)]
         /\ \A e \in Events : \A i \in DOMAIN Promised[e] : Promised[e][i] \in 1..MaxCallbacks
<1>0. registered \in Nat /\ registered <= MaxCallbacks /\ MaxCallbacks \in Nat
  BY BuildersAssumption DEF ChainInv
<1>1. Given(Promised)
  BY NothingGiven DEF Promised, UnwrapOrDefault, ChainInv
<1>2. ASSUME NEW e \in Events, NEW i \in DOMAIN Promised[e] PROVE Promised[e][i] \in 1..MaxCallbacks
  <2>1. Promised[e] \in Seq(1..registered)
    BY <1>1 DEF Given
  <2>2. Promised[e][i] \in 1..registered
    BY <1>2, <2>1, LenProperties
  <2> QED BY <1>0, <2>2
<1>3. ASSUME NEW e \in Events PROVE Promised[e] \in Seq(0..MaxCallbacks)
  <2>1. Promised[e] \in Seq(1..registered)
    BY <1>1 DEF Given
  <2>2. 1..registered \subseteq 0..MaxCallbacks
    BY <1>0
  <2> QED BY <2>1, <2>2, WiderSeq
<1>4. Promised \in [Events -> Seq(0..MaxCallbacks)]
  <2>1. Promised \in [Events -> Seq(1..registered)]
    BY <1>1 DEF Given
  <2> QED BY <1>3, <2>1
<1> QED BY <1>1, <1>2, <1>4

(* ChainInv holds of a new builder, *)
LEMMA ChainInvInit == BuildersInit => ChainInv
<1> SUFFICES ASSUME BuildersInit PROVE ChainInv
  OBVIOUS
<1>1. registered \in 0..MaxCallbacks
  BY BuildersAssumption DEF BuildersInit
<1>2. Given(collecting)
  BY NothingGiven DEF BuildersInit
<1> QED BY <1>1, <1>2 DEF BuildersInit, ChainInv, Events

(* A callback that is registered is a new one, *)
LEMMA GivenGrows ==
  ASSUME registered \in 0..MaxCallbacks, registered' = registered + 1,
         NEW callbacks, Given(callbacks)
  PROVE  /\ callbacks \in [Events -> Seq(1..registered')]
         /\ \A e \in Events : \A i \in DOMAIN callbacks[e] : callbacks[e][i] # registered'
         /\ \A d, e \in Events : \A i \in DOMAIN callbacks[d] : \A j \in DOMAIN callbacks[e] :
              callbacks[d][i] = callbacks[e][j] => d = e /\ i = j
<1>1. callbacks \in [Events -> Seq(1..registered)]
  BY DEF Given
<1>2. ASSUME NEW e \in Events
      PROVE  /\ callbacks[e] \in Seq(1..registered')
             /\ \A i \in DOMAIN callbacks[e] : callbacks[e][i] # registered'
  <2>1. /\ Len(callbacks[e]) \in Nat /\ DOMAIN callbacks[e] = 1..Len(callbacks[e])
        /\ callbacks[e] \in [1..Len(callbacks[e]) -> 1..registered]
    BY <1>1, LenProperties
  <2>2. callbacks[e] \in [1..Len(callbacks[e]) -> 1..registered']
    BY <2>1, BuildersAssumption
  <2>3. callbacks[e] \in Seq(1..registered')
    BY <2>1, <2>2
  <2>4. \A i \in DOMAIN callbacks[e] : callbacks[e][i] # registered'
    BY <2>1, BuildersAssumption
  <2> QED BY <2>3, <2>4
<1> QED BY <1>1, <1>2 DEF Given

(* so that its place is its own; *)
LEMMA RegisterStep == ASSUME ChainInv, NEW e \in Events, Register(e) PROVE ChainInv'
<1>1. /\ ~created /\ registered' = registered + 1 /\ registered' \in 0..MaxCallbacks
      /\ UNCHANGED << builder, kind, listener, created, happened, event, running, seen, called >>
  BY BuildersAssumption DEF ChainInv, Register, endpointVars, eventVars
<1> DEFINE s == collecting[e]  t == << registered' >> \o s
<1>2. /\ collecting \in [Events -> Seq(1..registered')]
      /\ \A d \in Events : \A i \in DOMAIN collecting[d] : collecting[d][i] # registered'
      /\ \A c, d \in Events : \A i \in DOMAIN collecting[c] : \A j \in DOMAIN collecting[d] :
           collecting[c][i] = collecting[d][j] => c = d /\ i = j
  BY <1>1, GivenGrows DEF ChainInv
<1>3. registered' \in 1..registered'
  BY <1>1, BuildersAssumption DEF ChainInv
<1>4. Given(collecting)'
  <2>1. CASE collecting' = [collecting EXCEPT ![e] = << registered' >>]
    <3>1. << registered' >> \in Seq(1..registered') /\ DOMAIN << registered' >> = {1}
          /\ << registered' >>[1] = registered'
      BY <1>3
    <3>2. collecting'[e] = << registered' >> /\ \A d \in Events : d # e => collecting'[d] = collecting[d]
      BY <1>2, <2>1
    <3>3. collecting' \in [Events -> Seq(1..registered')]
      BY <1>2, <2>1, <3>1
    <3>4. ASSUME NEW c \in Events, NEW d \in Events, NEW i \in DOMAIN collecting'[c],
                 NEW j \in DOMAIN collecting'[d], collecting'[c][i] = collecting'[d][j]
          PROVE  c = d /\ i = j
      <4> DEFINE only == << registered' >>
      <4>0. /\ DOMAIN only = {1} /\ only[1] = registered' /\ collecting'[e] = only
            /\ \A b \in Events : b # e => collecting'[b] = collecting[b]
        BY <3>1, <3>2
      <4> HIDE DEF only
      <4>1. CASE c = e /\ d = e
        BY <3>4, <4>0, <4>1
      <4>2. CASE c = e /\ d # e
        BY <1>2, <3>4, <4>0, <4>2
      <4>3. CASE c # e /\ d = e
        BY <1>2, <3>4, <4>0, <4>3
      <4>4. CASE c # e /\ d # e
        BY <1>2, <3>4, <4>0, <4>4
      <4> QED BY <4>1, <4>2, <4>3, <4>4
    <3> QED BY <3>3, <3>4 DEF Given
  <2>2. CASE collecting' = Chained(collecting, e, registered')
    <3>1. /\ t \in Seq(1..registered') /\ DOMAIN s = 1..Len(s) /\ Len(s) \in Nat
          /\ DOMAIN t = 1..Len(s) + 1 /\ t[1] = registered'
          /\ \A i \in 2..Len(s) + 1 : i - 1 \in 1..Len(s) /\ t[i] = s[i - 1]
      BY <1>2, <1>3, Prepended
    <3>2. collecting' = [collecting EXCEPT ![e] = t]
      BY <2>2 DEF Chained
    <3> HIDE DEF t
    <3>3. collecting'[e] = t /\ \A d \in Events : d # e => collecting'[d] = collecting[d]
      BY <1>2, <3>2
    <3>4. collecting' \in [Events -> Seq(1..registered')]
      BY <1>2, <3>1, <3>2
    <3>5. \A i \in DOMAIN t : i = 1 \/ i \in 2..Len(s) + 1
      BY <3>1
    <3>6. ASSUME NEW i \in DOMAIN t, NEW j \in DOMAIN t, t[i] = t[j] PROVE i = j
      <4>1. CASE i = 1 \/ j = 1
        BY <1>2, <3>1, <3>5, <3>6, <4>1
      <4>2. CASE i # 1 /\ j # 1
        <5>1. i - 1 \in DOMAIN s /\ j - 1 \in DOMAIN s /\ s[i - 1] = s[j - 1]
          BY <3>1, <3>5, <3>6, <4>2
        <5>2. i - 1 = j - 1
          BY <1>2, <5>1
        <5> QED BY <3>1, <5>2
      <4> QED BY <4>1, <4>2
    <3>7. ASSUME NEW i \in DOMAIN t, NEW d \in Events, d # e, NEW j \in DOMAIN collecting[d]
          PROVE  t[i] # collecting[d][j]
      <4>1. CASE i = 1
        BY <1>2, <3>1, <3>7, <4>1
      <4>2. CASE i # 1
        <5>1. i - 1 \in DOMAIN s /\ t[i] = s[i - 1]
          BY <3>1, <3>5, <4>2
        <5> QED BY <1>2, <3>7, <5>1
      <4> QED BY <4>1, <4>2
    <3>8. ASSUME NEW c \in Events, NEW d \in Events, NEW i \in DOMAIN collecting'[c],
                 NEW j \in DOMAIN collecting'[d], collecting'[c][i] = collecting'[d][j]
          PROVE  c = d /\ i = j
      <4>1. CASE c = e /\ d = e
        BY <3>3, <3>6, <3>8, <4>1
      <4>2. CASE c = e /\ d # e
        BY <3>3, <3>7, <3>8, <4>2
      <4>3. CASE c # e /\ d = e
        BY <3>3, <3>7, <3>8, <4>3
      <4>4. CASE c # e /\ d # e
        BY <1>2, <3>3, <3>8, <4>4
      <4> QED BY <4>1, <4>2, <4>3, <4>4
    <3> QED BY <3>4, <3>8 DEF Given
  <2> QED BY <2>1, <2>2 DEF Register
<1>5. (builder.listener = Null \/ Given(builder.listener))'
  BY <1>1, GivenGrows DEF ChainInv, Given
<1>6. (builder.listener_builder = Null \/ Given(builder.listener_builder))'
  BY <1>1, GivenGrows DEF ChainInv, Given
<1> QED BY <1>1, <1>4, <1>5, <1>6 DEF ChainInv

(* what is handed to the builder keeps it. *)
LEMMA CollectStep ==
  ASSUME ChainInv, WithListener \/ WithListenerBuilder \/ AsAsync \/ Watch PROVE ChainInv'
<1>1. /\ ~created /\ Given(Default)
      /\ UNCHANGED << registered, kind, listener, created, happened, event, running, seen, called >>
  BY NothingGiven DEF WithListener, WithListenerBuilder, AsAsync, Watch, endpointVars, eventVars
<1>2. /\ Given(collecting) /\ (builder.listener = Null \/ Given(builder.listener))
      /\ (builder.listener_builder = Null \/ Given(builder.listener_builder))
      /\ builder \in [ listener : {builder.listener}, listener_builder : {builder.listener_builder},
                       is_async : BOOLEAN, timeout : BOOLEAN ]
  BY DEF ChainInv
<1>3. Given(collecting)'
  BY <1>1, <1>2 DEF WithListener, WithListenerBuilder, AsAsync, Watch, Given
<1>4. builder' \in [ listener : {builder'.listener}, listener_builder : {builder'.listener_builder},
                     is_async : BOOLEAN, timeout : BOOLEAN ]
  BY <1>2 DEF WithListener, WithListenerBuilder, AsAsync, Watch
<1>5. /\ builder'.listener \in {builder.listener, collecting}
      /\ builder'.listener_builder \in {builder.listener_builder, collecting}
  BY <1>2 DEF WithListener, WithListenerBuilder, AsAsync, Watch
<1>6. (builder.listener = Null \/ Given(builder.listener))'
  BY <1>1, <1>2, <1>5 DEF Given
<1>7. (builder.listener_builder = Null \/ Given(builder.listener_builder))'
  BY <1>1, <1>2, <1>5 DEF Given
<1> QED BY <1>1, <1>3, <1>4, <1>6, <1>7 DEF ChainInv

(* A callback of the crate's before those of an event. *)
LEMMA FirstAt ==
  ASSUME NEW c \in Callbacks, NEW e \in Events
  PROVE  /\ Chained(c, e, Internal) \in Callbacks
         /\ \A d \in Events : Chained(c, e, Internal)[d] =
              IF d = e THEN << Internal >> \o c[d] ELSE c[d]
<1> DEFINE s == << Internal >> \o c[e]
<1>1. c[e] \in Seq(0..MaxCallbacks) /\ Internal \in 0..MaxCallbacks
  BY BuildersAssumption DEF Callbacks, Internal
<1>2. s \in Seq(0..MaxCallbacks)
  BY <1>1, Prepended
<1>3. Chained(c, e, Internal) = [c EXCEPT ![e] = s] /\ s = << Internal >> \o c[e]
  BY DEF Chained
<1> HIDE DEF s
<1>4. [c EXCEPT ![e] = s] \in Callbacks
  BY <1>2 DEF Callbacks
<1>5. \A d \in Events : [c EXCEPT ![e] = s][d] = IF d = e THEN s ELSE c[d]
  BY DEF Callbacks
<1> QED BY <1>3, <1>4, <1>5

(* The crate's callbacks come first in the listener of an endpoint, *)
LEMMA Listens ==
  ASSUME NEW callbacks \in Callbacks, NEW watching \in BOOLEAN
  PROVE  /\ ReaderListener(callbacks, watching) \in Callbacks
         /\ \A e \in Events : ReaderListener(callbacks, watching)[e] =
              IF e \in {"data_available", "deadline_missed"} \/ (watching /\ e = "matched")
              THEN << Internal >> \o callbacks[e] ELSE callbacks[e]
         /\ WriterListener(callbacks) \in Callbacks
         /\ \A e \in Events : WriterListener(callbacks)[e] =
              IF e = "matched" THEN << Internal >> \o callbacks[e] ELSE callbacks[e]
<1> DEFINE one == Chained(callbacks, "data_available", Internal)
           two == Chained(one, "deadline_missed", Internal)
           three == Chained(two, "matched", Internal)
<1>0. "data_available" \in Events /\ "deadline_missed" \in Events /\ "matched" \in Events
  BY DEF Events
<1>1. one \in Callbacks
      /\ \A e \in Events : one[e] =
           IF e = "data_available" THEN << Internal >> \o callbacks[e] ELSE callbacks[e]
  BY <1>0, FirstAt
<1>2. two = Chained(one, "deadline_missed", Internal) /\ three = Chained(two, "matched", Internal)
      /\ ReaderListener(callbacks, watching) = IF watching THEN three ELSE two
  BY DEF ReaderListener
<1> HIDE DEF one, two, three
<1>3. two \in Callbacks
      /\ \A e \in Events : two[e] =
           IF e = "deadline_missed" THEN << Internal >> \o one[e] ELSE one[e]
  BY <1>0, <1>1, <1>2, FirstAt
<1>4. three \in Callbacks
      /\ \A e \in Events : three[e] =
           IF e = "matched" THEN << Internal >> \o two[e] ELSE two[e]
  BY ZenonT(40), <1>0, <1>2, <1>3, FirstAt
<1>5. /\ WriterListener(callbacks) \in Callbacks
      /\ \A e \in Events : WriterListener(callbacks)[e] =
              IF e = "matched" THEN << Internal >> \o callbacks[e] ELSE callbacks[e]
  BY <1>0, FirstAt DEF WriterListener
<1> QED BY <1>1, <1>2, <1>3, <1>4, <1>5

(* which therefore runs what was promised. *)
LEMMA CreateStep == ASSUME ChainInv, Create PROVE ChainInv'
<1>1. /\ ~created /\ created' /\ listener' = Listener /\ collecting' = Default
      /\ UNCHANGED << kind, registered, builder, happened, event, running, seen, called >>
  BY DEF Create, eventVars
<1>2. /\ running = << >> /\ (\A e \in Events : happened[e] = 0 /\ seen[e] = 0)
      /\ \A f \in 1..MaxCallbacks : called[f] = 0
  BY <1>1 DEF ChainInv
<1>3. Promised' = Promised /\ Heard' = Heard
  BY <1>1 DEF Promised, Heard, UnwrapOrDefault
<1>4. Given(collecting)'
  BY <1>1, NothingGiven DEF Given
<1>5. RunningInv'
  <2>1. << >> \in Seq(0..MaxCallbacks) /\ DOMAIN << >> = {}
    BY EmptySeq
  <2> QED BY <1>1, <1>2, <2>1 DEF RunningInv
<1>6. CountInv'
  <2>1. \A f : ~Standing(f)'
    <3>1. DOMAIN << >> = {}
      BY EmptySeq
    <3> QED BY <1>1, <1>2, <3>1 DEF Standing
  <2>2. \A e : ~Behind(e)'
    BY <1>1, <1>2 DEF Behind
  <2>3. Heard \subseteq Events
    BY DEF Heard, Events
  <2> QED BY <1>1, <1>2, <1>3, <2>1, <2>2, <2>3, PromisedGiven DEF CountInv
<1>7. \A e \in Events : (IF listener' = Null THEN << >> ELSE listener'[e]) = Chain(e)
  <2> DEFINE own == UnwrapOrDefault(builder.listener_builder)
  <2>0. builder.is_async \in BOOLEAN /\ builder.timeout \in BOOLEAN
    BY DEF ChainInv
  <2>1. Promised \in Callbacks
    BY PromisedGiven DEF Callbacks
  <2>2. CASE builder.is_async
    <3>1. Promised = own /\ Listener = ReaderListener(own, builder.timeout)
      BY <2>2 DEF Promised, Heard, Listener
    <3>2. Listener # Null
      BY <2>0, <2>1, <3>1, Listens, NullAssumption
    <3> QED BY <1>1, <2>0, <2>1, <2>2, <3>1, <3>2, Listens DEF Chain, Heard
  <2>3. CASE ~builder.is_async /\ builder.timeout
    <3>1. Promised = own /\ Listener = WriterListener(own)
      BY <2>3 DEF Promised, Heard, Listener
    <3>2. Listener # Null
      BY <2>1, <3>1, Listens, NullAssumption
    <3> QED BY <1>1, <2>1, <2>3, <3>1, <3>2, Listens DEF Chain, Heard
  <2>4. CASE ~builder.is_async /\ ~builder.timeout
    <3>1. Heard = {}
      BY <2>4 DEF Heard
    <3>2. Listener = IF builder.listener # Null THEN builder.listener ELSE builder.listener_builder
      BY <2>4 DEF Listener
    <3> QED BY <1>1, <3>1, <3>2, NothingGiven DEF Chain, Promised, UnwrapOrDefault
  <2> QED BY <2>0, <2>2, <2>3, <2>4
<1>8. \A e \in Events : Chain(e)' = Chain(e)
  BY <1>3 DEF Chain
<1>9. (builder.listener = Null \/ Given(builder.listener))'
  BY <1>1 DEF ChainInv, Given
<1>10. (builder.listener_builder = Null \/ Given(builder.listener_builder))'
  BY <1>1 DEF ChainInv, Given
<1> QED BY <1>1, <1>4, <1>5, <1>6, <1>7, <1>8, <1>9, <1>10 DEF ChainInv

(* What an event is to run: the callback of the crate and what is promised, *)
(* each once.                                                               *)
LEMMA ChainRuns ==
  ASSUME ChainInv, NEW e \in Events
  PROVE  /\ Chain(e) \in Seq(0..MaxCallbacks)
         /\ \A k \in DOMAIN Chain(e) :
              /\ Chain(e)[k] = Internal => k = 1 /\ e \in Heard
              /\ Chain(e)[k] # Internal => \E i \in DOMAIN Promised[e] : Promised[e][i] = Chain(e)[k]
              /\ \A m \in DOMAIN Chain(e) : Chain(e)[k] = Chain(e)[m] => k = m
         /\ \A i \in DOMAIN Promised[e] : \E k \in DOMAIN Chain(e) : Chain(e)[k] = Promised[e][i]
         /\ e \in Heard => Chain(e) # << >> /\ Head(Chain(e)) = Internal
<1> DEFINE s == Promised[e]  t == << Internal >> \o s
<1>1. /\ s \in Seq(0..MaxCallbacks) /\ Internal \in 0..MaxCallbacks
      /\ \A i \in DOMAIN s : s[i] # Internal
      /\ \A i, j \in DOMAIN s : s[i] = s[j] => i = j
  BY PromisedGiven, BuildersAssumption DEF Given, Internal
<1>2. CASE e \notin Heard
  BY <1>1, <1>2 DEF Chain
<1>3. CASE e \in Heard
  <2>1. /\ t \in Seq(0..MaxCallbacks) /\ DOMAIN s = 1..Len(s) /\ Len(s) \in Nat
        /\ DOMAIN t = 1..Len(s) + 1 /\ t[1] = Internal
        /\ \A i \in 2..Len(s) + 1 : i - 1 \in 1..Len(s) /\ t[i] = s[i - 1]
    BY <1>1, Prepended
  <2>2. Chain(e) = t
    BY <1>3 DEF Chain
  <2> HIDE DEF t
  <2>3. ASSUME NEW k \in DOMAIN t, k # 1
        PROVE  k \in 2..Len(s) + 1 /\ k - 1 \in DOMAIN s /\ t[k] = s[k - 1] /\ t[k] # Internal
    BY <1>1, <2>1, <2>3
  <2>4. ASSUME NEW i \in DOMAIN s PROVE i + 1 \in DOMAIN t /\ t[i + 1] = s[i]
    <3>1. i + 1 \in 2..Len(s) + 1 /\ (i + 1) - 1 = i
      BY <2>1, <2>4
    <3> QED BY <2>1, <3>1
  <2>5. ASSUME NEW k \in DOMAIN t, NEW m \in DOMAIN t, t[k] = t[m] PROVE k = m
    <3>1. CASE k = 1 \/ m = 1
      BY <2>1, <2>3, <2>5, <3>1
    <3>2. CASE k # 1 /\ m # 1
      <4>1. k - 1 = m - 1
        BY <1>1, <2>3, <2>5, <3>2
      <4> QED BY <2>1, <4>1
    <3> QED BY <3>1, <3>2
  <2>6. t # << >> /\ Head(t) = Internal
    <3>1. Len(t) # 0
      BY <2>1, LenProperties
    <3> QED BY <2>1, <3>1, HeadTailProperties, EmptySeq
  <2> QED BY ZenonT(40), <1>3, <2>1, <2>2, <2>3, <2>4, <2>5, <2>6
<1> QED BY <1>2, <1>3

(* An event has its chain to run, *)
LEMMA HappenStep == ASSUME ChainInv, NEW e \in Events, Happen(e) PROVE ChainInv'
<1>1. /\ created /\ running = << >> /\ event' = e
      /\ happened' = [happened EXCEPT ![e] = @ + 1]
      /\ UNCHANGED << kind, registered, collecting, builder, listener, created, seen, called >>
  BY DEF Happen
<1>2. running' = Chain(e)
  BY <1>1 DEF Happen, ChainInv
<1>3. Promised' = Promised /\ Heard' = Heard
  BY <1>1 DEF Promised, Heard, UnwrapOrDefault
<1>4. RunningInv'
  BY <1>1, <1>2, <1>3, ChainRuns DEF RunningInv
<1>5. DOMAIN running = {}
  <2>1. DOMAIN << >> = {}
    BY EmptySeq
  <2> QED BY <1>1, <2>1
<1>6. happened \in [Events -> Nat] /\ CountInv
  BY <1>1 DEF ChainInv
<1>7. /\ happened' \in [Events -> Nat] /\ happened'[e] = happened[e] + 1
      /\ \A d \in Events : d # e => happened'[d] = happened[d]
  BY <1>1, <1>6
<1>8. ASSUME NEW d \in Events, NEW i \in DOMAIN Promised[d]
      PROVE  happened'[d] = called[Promised[d][i]] + IF Standing(Promised[d][i])' THEN 1 ELSE 0
  <2> DEFINE f == Promised[d][i]
  <2>1. happened[d] = called[f]
    <3>1. ~Standing(f)
      BY <1>5 DEF Standing
    <3>2. f \in 1..MaxCallbacks
      BY <1>8, PromisedGiven
    <3>3. called[f] \in Nat
      BY <3>2 DEF ChainInv
    <3>4. happened[d] = called[f] + 0
      BY <1>6, <1>8, <3>1 DEF CountInv
    <3> QED BY <3>3, <3>4
  <2>2. Standing(f)' <=> \E k \in DOMAIN Chain(e) : Chain(e)[k] = f
    BY <1>2, <1>3 DEF Standing
  <2>3. CASE d = e
    <3>1. Standing(f)'
      BY <1>8, <2>2, <2>3, ChainRuns
    <3> QED BY <1>7, <2>1, <2>3, <3>1
  <2>4. CASE d # e
    <3>1. f # Internal /\ \A j \in DOMAIN Promised[e] : Promised[e][j] # f
      BY <1>8, <2>4, PromisedGiven DEF Given, Internal
    <3>2. \A k \in DOMAIN Chain(e) : Chain(e)[k] # f
      BY <3>1, ChainRuns
    <3>3. called[f] \in Nat
      BY <1>6, <2>1
    <3> QED BY <1>7, <2>1, <2>2, <2>4, <3>2, <3>3
  <2> QED BY <2>3, <2>4
<1>9. ASSUME NEW d \in Heard PROVE happened'[d] = seen[d] + IF Behind(d)' THEN 1 ELSE 0
  <2>0. d \in Events
    BY DEF Heard, Events
  <2>1. happened[d] = seen[d]
    <3>1. ~Behind(d) /\ seen[d] \in Nat
      BY <1>1, <2>0 DEF Behind, ChainInv
    <3>2. happened[d] = seen[d] + 0
      BY <1>6, <3>1 DEF CountInv
    <3> QED BY <3>1, <3>2
  <2>2. CASE d = e
    <3>1. Behind(d)'
      BY <1>1, <1>2, <2>2, ChainRuns DEF Behind
    <3> QED BY <1>7, <2>1, <2>2, <3>1
  <2>3. CASE d # e
    <3>1. ~Behind(d)' /\ seen[d] \in Nat
      BY <1>1, <2>0, <2>3 DEF Behind, ChainInv
    <3> QED BY <1>7, <2>0, <2>1, <2>3, <3>1
  <2> QED BY <2>2, <2>3
<1>10. CountInv'
  BY <1>1, <1>3, <1>8, <1>9 DEF CountInv
<1>11. \A d \in Events : Chain(d)' = Chain(d)
  BY <1>3 DEF Chain
<1>12. Given(collecting)' /\ (builder.listener = Null \/ Given(builder.listener))'
      /\ (builder.listener_builder = Null \/ Given(builder.listener_builder))'
  <2>1. Given(collecting)' = Given(collecting) /\ Given(builder.listener)' = Given(builder.listener)
        /\ Given(builder.listener_builder)' = Given(builder.listener_builder)
    BY <1>1 DEF Given
  <2> QED BY <1>1, <2>1 DEF ChainInv
<1> QED BY <1>1, <1>4, <1>7, <1>10, <1>11, <1>12 DEF ChainInv

(* a callback that runs leaves it, *)
LEMMA RunStep == ASSUME ChainInv, Run PROVE ChainInv'
<1> DEFINE h == Head(running)  n == Len(running)
<1>1. /\ running # << >> /\ running' = Tail(running)
      /\ UNCHANGED << kind, registered, collecting, builder, listener, created, happened, event >>
      /\ (h = Internal => seen' = [seen EXCEPT ![event] = @ + 1] /\ UNCHANGED called)
      /\ (h # Internal => called' = [called EXCEPT ![h] = @ + 1] /\ UNCHANGED seen)
  BY DEF Run
<1>2. created /\ created' /\ RunningInv /\ CountInv
  BY <1>1 DEF ChainInv
<1>3. Promised' = Promised /\ Heard' = Heard
  BY <1>1 DEF Promised, Heard, UnwrapOrDefault
<1>4. /\ n \in Nat /\ n > 0 /\ DOMAIN running = 1..n /\ h = running[1]
      /\ running' \in Seq(0..MaxCallbacks) /\ DOMAIN running' = 1..n - 1
      /\ \A i \in 1..n - 1 : i + 1 \in 2..n /\ running'[i] = running[i + 1]
  <2>1. running \in Seq(0..MaxCallbacks)
    BY <1>2 DEF RunningInv
  <2>2. n \in Nat /\ n # 0 /\ DOMAIN running = 1..n
    BY <1>1, <2>1, LenProperties, EmptySeq
  <2>3. /\ h = running[1] /\ running' \in Seq(0..MaxCallbacks) /\ Len(running') = n - 1
        /\ \A i \in 1..Len(running') : running'[i] = running[i + 1]
    BY <1>1, <2>1, HeadTailProperties
  <2>4. DOMAIN running' = 1..n - 1
    BY <2>3, LenProperties
  <2> QED BY <2>2, <2>3, <2>4
<1>5. ASSUME NEW k \in DOMAIN running'
      PROVE  /\ k + 1 \in DOMAIN running /\ k + 1 # 1 /\ running'[k] = running[k + 1]
             /\ running'[k] # Internal /\ running'[k] # h
  <2>1. k + 1 \in DOMAIN running /\ k + 1 # 1 /\ running'[k] = running[k + 1] /\ 1 \in DOMAIN running
    BY <1>4, <1>5
  <2> QED BY <1>2, <1>4, <2>1 DEF RunningInv
<1>6. RunningInv'
  <2>1. ASSUME NEW k \in DOMAIN running', NEW m \in DOMAIN running', running'[k] = running'[m]
        PROVE  k = m
    <3>1. k + 1 = m + 1
      BY <1>2, <1>5, <2>1 DEF RunningInv
    <3> QED BY <1>4, <3>1
  <2>2. \A k \in DOMAIN running' : \E i \in DOMAIN Promised[event] : Promised[event][i] = running'[k]
    BY <1>2, <1>5 DEF RunningInv
  <2> QED BY <1>1, <1>3, <1>4, <1>5, <2>1, <2>2 DEF RunningInv
<1>7. ASSUME NEW f, f # h PROVE Standing(f)' <=> Standing(f)
  <2>1. ASSUME NEW k \in DOMAIN running, running[k] = f PROVE Standing(f)'
    <3>1. k # 1
      BY <1>4, <1>7, <2>1
    <3>2. k - 1 \in 1..n - 1 /\ (k - 1) + 1 = k
      BY <1>4, <2>1, <3>1
    <3> QED BY <1>4, <2>1, <3>2 DEF Standing
  <2>2. ASSUME NEW k \in DOMAIN running', running'[k] = f PROVE Standing(f)
    BY <1>5, <2>2 DEF Standing
  <2> QED BY <2>1, <2>2 DEF Standing
<1>8. ASSUME NEW f, f = h PROVE Standing(f) /\ ~Standing(f)'
  <2>1. Standing(f)
    BY <1>4, <1>8 DEF Standing
  <2>2. ~Standing(f)'
    BY <1>5, <1>8 DEF Standing
  <2> QED BY <2>1, <2>2
<1>9. called \in [1..MaxCallbacks -> Nat] /\ seen \in [Events -> Nat] /\ event \in Events
  BY DEF ChainInv
<1>10. /\ called' \in [1..MaxCallbacks -> Nat]
       /\ \A f \in 1..MaxCallbacks : called'[f] = called[f] + IF f = h /\ h # Internal THEN 1 ELSE 0
  <2>1. CASE h = Internal
    <3>1. called' = called /\ \A f \in 1..MaxCallbacks : called[f] \in Nat
      BY <1>1, <1>9, <2>1
    <3> HIDE DEF h
    <3> QED BY <1>9, <2>1, <3>1
  <2>2. CASE h # Internal
    <3>1. h \in 1..MaxCallbacks /\ called' = [called EXCEPT ![h] = @ + 1]
      <4>1. PICK i \in DOMAIN Promised[event] : Promised[event][i] = h
        BY <1>2, <1>4, <2>2 DEF RunningInv
      <4> QED BY <1>1, <1>9, <2>2, <4>1, PromisedGiven
    <3> HIDE DEF h
    <3>2. called' \in [1..MaxCallbacks -> Nat]
      BY <1>9, <3>1
    <3>3. \A f \in 1..MaxCallbacks : called'[f] = IF f = h THEN called[f] + 1 ELSE called[f]
      BY <1>9, <3>1
    <3>4. \A f \in 1..MaxCallbacks : called[f] \in Nat
      BY <1>9
    <3> QED BY <2>2, <3>2, <3>3, <3>4
  <2> QED BY <2>1, <2>2
<1>11. /\ seen' \in [Events -> Nat]
       /\ \A e \in Events : seen'[e] = seen[e] + IF e = event /\ h = Internal THEN 1 ELSE 0
  <2>1. CASE h = Internal
    BY <1>1, <1>9, <2>1
  <2>2. CASE h # Internal
    BY <1>1, <1>9, <2>2
  <2> QED BY <2>1, <2>2
<1>12. ASSUME NEW d \in Events, NEW i \in DOMAIN Promised[d]
       PROVE  happened[d] = called'[Promised[d][i]] + IF Standing(Promised[d][i])' THEN 1 ELSE 0
  <2>0. PICK f : f = Promised[d][i]
    OBVIOUS
  <2>1. f \in 1..MaxCallbacks /\ f # Internal
    BY <1>12, <2>0, PromisedGiven DEF Internal
  <2>6. Standing(Promised[d][i])' <=> Standing(f)'
    BY <1>3, <2>0 DEF Standing
  <2>2. happened[d] = called[f] + IF Standing(f) THEN 1 ELSE 0
    BY <1>2, <1>12, <2>0 DEF CountInv
  <2>3. called[f] \in Nat /\ called'[f] = called[f] + IF f = h /\ h # Internal THEN 1 ELSE 0
    BY <1>9, <1>10, <2>1
  <2>4. CASE f = h
    <3>1. Standing(f) /\ ~Standing(f)'
      BY <1>8, <2>4
    <3> QED BY <2>0, <2>1, <2>2, <2>3, <2>4, <2>6, <3>1
  <2>5. CASE f # h
    <3>1. Standing(f)' <=> Standing(f)
      BY <1>7, <2>5
    <3> QED BY <2>0, <2>2, <2>3, <2>5, <2>6, <3>1
  <2> QED BY <2>4, <2>5
<1>13. ASSUME NEW d \in Heard PROVE happened[d] = seen'[d] + IF Behind(d)' THEN 1 ELSE 0
  <2>0. d \in Events
    BY DEF Heard, Events
  <2>1. ~Behind(d)'
    <3>1. ASSUME running' # << >> PROVE Head(running') # Internal
      <4>1. Head(running') = running'[1] /\ 1 \in DOMAIN running'
        BY <1>4, <3>1, HeadTailProperties, LenProperties, EmptySeq
      <4> QED BY <1>5, <4>1
    <3> QED BY <3>1 DEF Behind
  <2>2. Behind(d) <=> d = event /\ h = Internal
    BY <1>1 DEF Behind
  <2>3. happened[d] = seen[d] + IF Behind(d) THEN 1 ELSE 0
    BY <1>2 DEF CountInv
  <2>4. seen'[d] = seen[d] + (IF d = event /\ h = Internal THEN 1 ELSE 0) /\ seen[d] \in Nat
    BY <1>9, <1>11, <2>0
  <2>5. CASE d = event /\ h = Internal
    BY <2>1, <2>2, <2>3, <2>4, <2>5
  <2>6. CASE ~(d = event /\ h = Internal)
    BY <2>1, <2>2, <2>3, <2>4, <2>6
  <2> QED BY <2>5, <2>6
<1>14. CountInv'
  BY <1>1, <1>3, <1>12, <1>13 DEF CountInv
<1>15. \A d \in Events : Chain(d)' = Chain(d)
  BY <1>3 DEF Chain
<1>16. Given(collecting)' /\ (builder.listener = Null \/ Given(builder.listener))'
      /\ (builder.listener_builder = Null \/ Given(builder.listener_builder))'
  <2>1. Given(collecting)' = Given(collecting) /\ Given(builder.listener)' = Given(builder.listener)
        /\ Given(builder.listener_builder)' = Given(builder.listener_builder)
    BY <1>1 DEF Given
  <2> QED BY <1>1, <2>1 DEF ChainInv
<1> QED BY <1>1, <1>2, <1>6, <1>10, <1>11, <1>14, <1>15, <1>16 DEF ChainInv

(* and every step keeps ChainInv, *)
LEMMA ChainInvStep == ASSUME ChainInv, [BuildersNext]_builderVars PROVE ChainInv'
<1>1. ASSUME NEW e \in Events, Register(e) PROVE ChainInv'
  BY <1>1, RegisterStep
<1>2. ASSUME NEW e \in Events, Happen(e) PROVE ChainInv'
  BY <1>2, HappenStep
<1>3. CASE WithListener \/ WithListenerBuilder \/ AsAsync \/ Watch
  BY <1>3, CollectStep
<1>4. CASE Create
  BY <1>4, CreateStep
<1>5. CASE Run
  BY <1>5, RunStep
<1>6. CASE UNCHANGED builderVars
  <2>1. UNCHANGED << kind, registered, collecting, builder, listener, created,
                     happened, event, running, seen, called >>
    BY <1>6 DEF builderVars
  <2>2. Promised' = Promised /\ Heard' = Heard
    BY <2>1 DEF Promised, Heard, UnwrapOrDefault
  <2>3. RunningInv' = RunningInv /\ CountInv' = CountInv
    BY <2>1, <2>2 DEF RunningInv, CountInv, Standing, Behind
  <2>4. \A d \in Events : Chain(d)' = Chain(d)
    BY <2>2 DEF Chain
  <2> QED BY SMTT(30), <2>1, <2>3, <2>4 DEF ChainInv, Given
<1> QED BY <1>1, <1>2, <1>3, <1>4, <1>5, <1>6 DEF BuildersNext

(* of which ChainSound is a consequence. *)
LEMMA ChainInvSound == ChainInv => ChainSound
<1> SUFFICES ASSUME ChainInv PROVE ChainSound
  OBVIOUS
<1>1. InternalFirst
  <2> SUFFICES ASSUME created, running = << >> \/ Head(running) # Internal, NEW e \in Heard
               PROVE  seen[e] = happened[e]
    BY DEF InternalFirst
  <2>1. e \in Events /\ ~Behind(e)
    BY DEF Heard, Events, Behind
  <2>2. seen[e] \in Nat /\ happened[e] = seen[e] + 0
    BY <2>1 DEF ChainInv, CountInv
  <2> QED BY <2>2
<1>2. NothingDropped
  <2> SUFFICES ASSUME created, running = << >>, NEW e \in Events, NEW i \in DOMAIN Promised[e]
               PROVE  called[Promised[e][i]] = happened[e]
    BY DEF NothingDropped
  <2>1. ~Standing(Promised[e][i])
    <3>1. DOMAIN << >> = {}
      BY EmptySeq
    <3> QED BY <3>1 DEF Standing
  <2>2. Promised[e][i] \in 1..MaxCallbacks
    BY PromisedGiven
  <2>3. called[Promised[e][i]] \in Nat /\ happened[e] = called[Promised[e][i]] + 0
    BY <2>1, <2>2 DEF ChainInv, CountInv
  <2> QED BY <2>3
<1> QED BY <1>1, <1>2 DEF ChainSound

(* Whatever the application collects, chains and hands over, in any order,  *)
(* its callbacks each run once for each event, and the crate's own before   *)
(* them.                                                                    *)
THEOREM ChainsAreSound == BuildersSpec => []ChainSound
<1>1. BuildersInit => ChainInv
  BY ChainInvInit
<1>2. ChainInv /\ [BuildersNext]_builderVars => ChainInv'
  BY ChainInvStep
<1>3. ChainInv => ChainSound
  BY ChainInvSound
<1> QED BY <1>1, <1>2, <1>3, PTL DEF BuildersSpec

-----------------------------------------------------------------------------
(* SampleArrays *)

(* A sequence without repetitions *)
Distinct(s) == \A i, j \in DOMAIN s : s[i] = s[j] => i = j
Live == { x \in Boxes : heap[x] = "live" }
BoundInArray == /\ bound \subseteq ToSet(Samples) /\ IsFiniteSet(bound)
                /\ arrayrefs = Cardinality(bound)
PutSound == /\ put.written \in Nat /\ put.dst \in Nat
            /\ put.written <= put.dst /\ (put.ok => put.written = put.size)

(* Boxes are made in their order, the array holds each live one once        *)
BoxesInv ==
  /\ heap \in [Boxes -> {"none", "live", "freed"}]
  /\ Samples \in Seq(Boxes) /\ array \in {NullArray, << Samples >>}
  /\ Distinct(Samples) /\ Live = ToSet(Samples)
  /\ BoundInArray /\ PutSound
  /\ \E k \in 0..MaxBoxes : \A x \in Boxes : heap[x] = "none" <=> x > k

(* The elements of a sequence without repetitions are as many as it is long *)
LEMMA DistinctCount ==
  ASSUME NEW S, NEW s \in Seq(S), Distinct(s)
  PROVE  IsFiniteSet(ToSet(s)) /\ Cardinality(ToSet(s)) = Len(s)
<1>1. DOMAIN s = 1..Len(s) /\ Len(s) \in Nat /\ s \in [1..Len(s) -> S]
  BY LenProperties
<1>2. s \in Bijection(1..Len(s), ToSet(s))
  BY <1>1 DEF Bijection, Injection, IsInjective, Surjection, Distinct, ToSet
<1>3. ExistsBijection(1..Len(s), ToSet(s))
  BY <1>2 DEF ExistsBijection
<1>4. IsFiniteSet(1..Len(s)) /\ Cardinality(1..Len(s)) = Len(s)
  <2>1. Cardinality(1..Len(s)) = IF 1 > Len(s) THEN 0 ELSE Len(s) - 1 + 1
    BY SMTT(30), <1>1, FS_Interval
  <2>2. IsFiniteSet(1..Len(s))
    BY <1>1, FS_Interval
  <2> QED BY <1>1, <2>1, <2>2
<1> QED BY <1>3, <1>4, FS_Bijection

(* Dropping boxes releases what they hold *)
LEMMA DropStep ==
  ASSUME NEW xs, BoxesInv, DropBoxes(xs), NEW s \in Seq(Boxes),
         ToSet(s) = ToSet(Samples) \ xs, xs \subseteq ToSet(Samples),
         Samples' = s
  PROVE  /\ heap' \in [Boxes -> {"none", "live", "freed"}]
         /\ Live' = ToSet(Samples)' /\ BoundInArray'
         /\ \E k \in 0..MaxBoxes : \A x \in Boxes : heap'[x] = "none" <=> x > k
<1>1. heap' = [x \in Boxes |-> IF x \in xs THEN "freed" ELSE heap[x]]
  BY DEF DropBoxes, HeapWithout
<1>2. Live = ToSet(Samples)
  BY DEF BoxesInv
<1>3. heap' \in [Boxes -> {"none", "live", "freed"}]
  BY <1>1 DEF BoxesInv
<1>4. Live' = ToSet(Samples)'
  BY <1>1, <1>2 DEF Live
<1>5. \A x \in Boxes : heap'[x] = "none" <=> heap[x] = "none"
  BY <1>1, <1>2 DEF Live
<1>6. BoundInArray'
  <2>1. bound' = bound \ xs /\ arrayrefs' = arrayrefs - Cardinality(bound \cap xs)
    BY DEF DropBoxes
  <2>2. IsFiniteSet(bound) /\ arrayrefs = Cardinality(bound) /\ bound \subseteq ToSet(Samples)
    BY DEF BoxesInv, BoundInArray
  <2> QED BY <2>1, <2>2, FS_Difference DEF BoundInArray
<1> QED BY <1>3, <1>4, <1>5, <1>6 DEF BoxesInv

(* A shorter array drops the boxes of its surplus *)
LEMMA ShrunkStep ==
  ASSUME BoxesInv, NEW n \in Nat, n < Len(Samples), Shrunk(n), UNCHANGED put
  PROVE  BoxesInv'
<1> DEFINE t == SubSeq(Samples, 1, n)
           xs == { Samples[i] : i \in (n + 1)..Len(Samples) }
<1>1. /\ Samples \in Seq(Boxes) /\ Len(Samples) \in Nat
      /\ DOMAIN Samples = 1..Len(Samples) /\ Distinct(Samples)
      /\ \A i \in 1..Len(Samples) : Samples[i] \in Boxes
  BY LenProperties DEF BoxesInv
<1>2. /\ t \in Seq(Boxes) /\ Len(t) = n /\ DOMAIN t = 1..n
      /\ \A i \in 1..n : t[i] = Samples[i]
  <2>1. \A i \in 1..n : Samples[i] \in Boxes
    BY <1>1
  <2>2. /\ t \in Seq(Boxes) /\ Len(t) = IF 1 <= n THEN n - 1 + 1 ELSE 0
        /\ \A i \in 1 .. n - 1 + 1 : t[i] = Samples[1 + i - 1]
    BY <2>1, SubSeqProperties
  <2>3. Len(t) = n
    BY <2>2
  <2>4. DOMAIN t = 1..n
    BY <2>2, <2>3, LenProperties
  <2> QED BY <2>2, <2>3, <2>4
<1>3. array' = << t >> /\ DropBoxes(xs)
  BY DEF Shrunk
<1> HIDE DEF t
<1>4. Samples' = t
  BY <1>3 DEF Samples, NullArray
<1>5. Distinct(t)
  BY <1>1, <1>2 DEF Distinct
<1>6. ToSet(t) = { Samples[i] : i \in 1..n }
  BY <1>2 DEF ToSet
<1>7. xs \subseteq ToSet(Samples)
  BY <1>1 DEF ToSet
<1>8. ToSet(t) = ToSet(Samples) \ xs
  <2>1. ASSUME NEW x \in ToSet(t) PROVE x \in ToSet(Samples) \ xs
    <3>1. PICK i \in 1..n : x = Samples[i]
      BY <1>6
    <3>2. i \in DOMAIN Samples
      BY <1>1
    <3>3. \A j \in (n + 1)..Len(Samples) : Samples[j] # x
      BY <1>1, <3>1, <3>2 DEF Distinct
    <3> QED BY <3>1, <3>2, <3>3 DEF ToSet
  <2>2. ASSUME NEW x \in ToSet(Samples) \ xs PROVE x \in ToSet(t)
    <3>1. PICK i \in 1..Len(Samples) : x = Samples[i]
      BY <1>1 DEF ToSet
    <3>2. i \in 1..n
      BY <1>1, <3>1
    <3> QED BY <1>6, <3>1, <3>2
  <2> QED BY <2>1, <2>2
<1> HIDE DEF xs
<1>9. /\ heap' \in [Boxes -> {"none", "live", "freed"}]
      /\ Live' = ToSet(Samples)' /\ BoundInArray'
      /\ \E k \in 0..MaxBoxes : \A x \in Boxes : heap'[x] = "none" <=> x > k
  BY <1>2, <1>3, <1>4, <1>7, <1>8, DropStep
<1>10. PutSound'
  BY DEF BoxesInv, PutSound
<1> QED BY <1>2, <1>3, <1>4, <1>5, <1>9, <1>10 DEF BoxesInv

(* A longer array gets boxes that were never used *)
LEMMA ExtendedStep ==
  ASSUME BoxesInv, NEW n \in Nat, n >= Len(Samples), Extended(n), UNCHANGED put
  PROVE  BoxesInv'
<1> DEFINE m == n - Len(Samples)
           new == NewBoxes(m)
           unused == { x \in Boxes : heap[x] = "none" }
<1>1. /\ Samples \in Seq(Boxes) /\ Len(Samples) \in Nat /\ m \in Nat
      /\ DOMAIN Samples = 1..Len(Samples) /\ Distinct(Samples)
      /\ \A i \in 1..Len(Samples) : Samples[i] \in Boxes
  BY LenProperties DEF BoxesInv
<1>2. /\ Cardinality(unused) >= m /\ array' = << Samples \o new >>
      /\ heap' = HeapWith(ToSet(new)) /\ UNCHANGED << bound, arrayrefs >>
  BY DEF Extended, Available
<1>3. PICK k \in 0..MaxBoxes : \A x \in Boxes : heap[x] = "none" <=> x > k
  BY DEF BoxesInv
<1>4. unused = (k + 1)..MaxBoxes /\ k + m <= MaxBoxes /\ MaxBoxes \in Nat
  <2>1. unused = (k + 1)..MaxBoxes
    BY <1>3, SampleArraysAssumption DEF Boxes
  <2>2. Cardinality((k + 1)..MaxBoxes) = IF k + 1 > MaxBoxes THEN 0 ELSE MaxBoxes - (k + 1) + 1
    BY SampleArraysAssumption, FS_Interval
  <2>3. MaxBoxes \in Nat /\ k \in Nat /\ k <= MaxBoxes
    BY <1>3, SampleArraysAssumption
  <2> HIDE DEF unused
  <2>4. m <= Cardinality((k + 1)..MaxBoxes)
    BY <1>2, <2>1
  <2>5. k + m <= MaxBoxes
    <3>1. CASE k + 1 > MaxBoxes
      BY <1>1, <2>2, <2>3, <2>4, <3>1
    <3>2. CASE ~(k + 1 > MaxBoxes)
      BY <1>1, <2>2, <2>3, <2>4, <3>2
    <3> QED BY <3>1, <3>2
  <2> QED BY <2>1, <2>3, <2>5
<1>5. \A i \in 1..m : new[i] = k + i
  <2> SUFFICES ASSUME m > 0 PROVE \A i \in 1..m : new[i] = k + i
    BY <1>1
  <2>1. k + 1 \in unused /\ \A y \in unused : k + 1 <= y
    BY <1>1, <1>4
  <2>2. (CHOOSE x \in unused : \A y \in unused : x <= y) = k + 1
    <3>1. \E x \in unused : \A y \in unused : x <= y
      BY <2>1
    <3>2. ASSUME NEW x \in unused, \A y \in unused : x <= y PROVE x = k + 1
      BY <1>4, <2>1, <3>2
    <3> QED BY <3>1, <3>2
  <2>3. new = [i \in 1..m |-> (k + 1) + i - 1]
    BY <2>1, <2>2 DEF NewBoxes
  <2> QED BY <1>1, <2>3
<1>6. new \in Seq(Boxes) /\ Len(new) = m /\ DOMAIN new = 1..m
  <2>1. \A i \in 1..m : k + i \in Boxes
    BY <1>1, <1>4 DEF Boxes
  <2>2. DOMAIN new = 1..m /\ new \in [1..m -> Boxes]
    BY <1>5, <2>1 DEF NewBoxes
  <2>3. new \in Seq(Boxes)
    BY <1>1, <2>2, SeqDef
  <2> QED BY <1>1, <2>2, <2>3, LenProperties
<1> HIDE DEF new, unused
<1> DEFINE t == Samples \o new
<1>7. /\ t \in Seq(Boxes) /\ Len(t) = Len(Samples) + m
      /\ \A i \in 1..Len(Samples) + m :
           t[i] = IF i <= Len(Samples) THEN Samples[i] ELSE k + (i - Len(Samples))
      /\ DOMAIN t = 1..Len(Samples) + m
  <2>1. /\ t \in Seq(Boxes) /\ Len(t) = Len(Samples) + m
        /\ \A i \in 1..Len(Samples) + m :
             t[i] = IF i <= Len(Samples) THEN Samples[i] ELSE new[i - Len(Samples)]
    BY <1>1, <1>6, ConcatProperties
  <2>2. DOMAIN t = 1..Len(Samples) + m
    BY <2>1, LenProperties
  <2> QED BY <1>1, <1>5, <2>1, <2>2
<1> HIDE DEF t
<1>8. Samples' = t
  BY <1>2 DEF Samples, NullArray, t
<1>9. \A i \in 1..Len(Samples) : Samples[i] <= k /\ heap[Samples[i]] = "live"
  <2>1. \A i \in 1..Len(Samples) : Samples[i] \in Live
    BY <1>1 DEF BoxesInv, ToSet
  <2> QED BY <1>1, <1>3, <2>1 DEF Live, Boxes
<1>10. Distinct(t)
  BY <1>1, <1>7, <1>9 DEF Distinct, Boxes
<1>11. ToSet(new) = (k + 1)..(k + m)
  <2>1. ASSUME NEW x \in (k + 1)..(k + m) PROVE x \in ToSet(new)
    <3>1. x - k \in 1..m /\ new[x - k] = x
      BY <1>1, <1>5
    <3> QED BY <1>6, <3>1 DEF ToSet
  <2>2. \A i \in 1..m : k + i \in (k + 1)..(k + m)
    BY <1>1
  <2> QED BY <1>5, <1>6, <2>1, <2>2 DEF ToSet
<1>12. ToSet(t) = ToSet(Samples) \cup (k + 1)..(k + m)
  <2>1. ASSUME NEW x \in ToSet(t) PROVE x \in ToSet(Samples) \cup (k + 1)..(k + m)
    <3>1. PICK i \in 1..Len(Samples) + m : x = t[i]
      BY <1>7 DEF ToSet
    <3>2. CASE i <= Len(Samples)
      BY <1>1, <1>7, <3>1, <3>2 DEF ToSet
    <3>3. CASE i > Len(Samples)
      <4>1. x = k + (i - Len(Samples))
        BY <1>1, <1>7, <3>1, <3>3
      <4> QED BY <1>1, <3>1, <3>3, <4>1
    <3> QED BY <1>1, <3>2, <3>3
  <2>2. ASSUME NEW x \in ToSet(Samples) PROVE x \in ToSet(t)
    <3>1. PICK i \in 1..Len(Samples) : x = Samples[i]
      BY <1>1 DEF ToSet
    <3>2. i \in DOMAIN t /\ t[i] = x
      BY <1>1, <1>7, <3>1
    <3> QED BY <3>2 DEF ToSet
  <2>3. ASSUME NEW x \in (k + 1)..(k + m) PROVE x \in ToSet(t)
    <3>1. Len(Samples) + (x - k) \in DOMAIN t /\ t[Len(Samples) + (x - k)] = x
      BY <1>1, <1>7
    <3> QED BY <3>1 DEF ToSet
  <2> QED BY <2>1, <2>2, <2>3
<1>13. heap' = [x \in Boxes |-> IF x \in (k + 1)..(k + m) THEN "live" ELSE heap[x]]
  BY <1>2, <1>11 DEF HeapWith
<1>14. heap' \in [Boxes -> {"none", "live", "freed"}]
  BY <1>13 DEF BoxesInv
<1>15. Live' = ToSet(Samples)'
  <2>1. (k + 1)..(k + m) \subseteq Boxes
    BY <1>1, <1>4 DEF Boxes
  <2>2. Live' = Live \cup (k + 1)..(k + m)
    BY <1>13, <2>1 DEF Live
  <2>3. Live = ToSet(Samples)
    BY DEF BoxesInv
  <2> QED BY <1>8, <1>12, <2>2, <2>3
<1>16. BoundInArray'
  BY <1>2, <1>8, <1>12 DEF BoxesInv, BoundInArray
<1>17. \E j \in 0..MaxBoxes : \A x \in Boxes : heap'[x] = "none" <=> x > j
  <2>1. k + m \in 0..MaxBoxes
    BY <1>1, <1>4
  <2>2. \A x \in Boxes : heap'[x] = "none" <=> x > k + m
    BY <1>1, <1>3, <1>4, <1>13 DEF Boxes
  <2> QED BY <2>1, <2>2
<1>18. PutSound'
  BY DEF BoxesInv, PutSound
<1>19. array' = << Samples' >>
  BY <1>2, <1>8 DEF t
<1> QED BY <1>7, <1>8, <1>10, <1>14, <1>15, <1>16, <1>17, <1>18, <1>19 DEF BoxesInv

(* BoxesInv holds of an array without boxes, *)
LEMMA BoxesInvInit == ArraysInit => BoxesInv
<1> SUFFICES ASSUME ArraysInit PROVE BoxesInv
  OBVIOUS
<1>1. Samples = << >> /\ Samples \in Seq(Boxes) /\ DOMAIN Samples = {}
  BY EmptySeq DEF ArraysInit, Samples
<1>2. ToSet(Samples) = {} /\ Live = {} /\ Distinct(Samples)
  BY <1>1 DEF ToSet, Live, ArraysInit, Distinct
<1>3. BoundInArray
  BY FS_EmptySet DEF BoundInArray, ArraysInit
<1>4. 0 \in 0..MaxBoxes /\ \A x \in Boxes : heap[x] = "none" <=> x > 0
  BY SampleArraysAssumption DEF ArraysInit, Boxes
<1> QED BY <1>1, <1>2, <1>3, <1>4 DEF BoxesInv, ArraysInit, PutSound, NoPut

(* every step keeps it, *)
LEMMA BoxesInvStep == BoxesInv /\ [ArraysNext]_arrayVars => BoxesInv'
<1> SUFFICES ASSUME BoxesInv, [ArraysNext]_arrayVars PROVE BoxesInv'
  OBVIOUS
<1>0. UNCHANGED array => UNCHANGED Samples
  BY DEF Samples
<1>1. ASSUME NEW n \in 0..MaxCount, sertype_realloc_samples(n) PROVE BoxesInv'
  <2>1. n \in Nat /\ UNCHANGED put
    BY <1>1, SampleArraysAssumption DEF sertype_realloc_samples
  <2>2. CASE array # NullArray /\ UNCHANGED << array, heap, bound, arrayrefs >>
    BY <1>0, <2>1, <2>2 DEF BoxesInv, Live, BoundInArray, PutSound
  <2>3. CASE n < Len(Samples) /\ Shrunk(n)
    BY <2>1, <2>3, ShrunkStep
  <2>4. CASE ~(n < Len(Samples)) /\ Extended(n)
    <3>1. Len(Samples) \in Nat
      BY LenProperties DEF BoxesInv
    <3> QED BY <2>1, <2>4, <3>1, ExtendedStep
  <2> QED BY <1>1, <2>2, <2>3, <2>4 DEF sertype_realloc_samples
<1>2. CASE FreeAll
  <2>1. /\ array' = NullArray /\ DropBoxes(ToSet(Samples)) /\ UNCHANGED put
    BY <1>2 DEF FreeAll
  <2>2. Samples' = << >> /\ << >> \in Seq(Boxes) /\ DOMAIN << >> = {}
    BY <2>1, EmptySeq DEF Samples
  <2>3. ToSet(<< >>) = {} /\ Distinct(<< >>)
    BY <2>2 DEF ToSet, Distinct
  <2>4. /\ heap' \in [Boxes -> {"none", "live", "freed"}]
        /\ Live' = ToSet(Samples)' /\ BoundInArray'
        /\ \E k \in 0..MaxBoxes : \A x \in Boxes : heap'[x] = "none" <=> x > k
    BY <2>1, <2>2, <2>3, DropStep
  <2> QED BY <2>1, <2>2, <2>3, <2>4 DEF BoxesInv, PutSound
<1>3. CASE FreeContentsOnly
  <2>1. BoundInArray'
    <3>1. IsFiniteSet(bound) /\ arrayrefs = Cardinality(bound) /\ bound \subseteq ToSet(Samples)
      BY DEF BoxesInv, BoundInArray
    <3> QED BY <1>0, <1>3, <3>1, FS_Difference DEF BoundInArray, FreeContentsOnly
  <2> QED BY <1>0, <1>3, <2>1 DEF FreeContentsOnly, BoxesInv, Live, PutSound
<1>4. CASE sertype_zero_samples
  BY <1>0, <1>4 DEF sertype_zero_samples, arrayVars, BoxesInv, Live, BoundInArray, PutSound
<1>5. ASSUME NEW i \in 1..MaxCount, ConvertInto(i) PROVE BoxesInv'
  <2>1. BoundInArray'
    <3>1. IsFiniteSet(bound) /\ arrayrefs = Cardinality(bound) /\ bound \subseteq ToSet(Samples)
      BY DEF BoxesInv, BoundInArray
    <3>2. Samples[i] \in ToSet(Samples) /\ Samples[i] \notin bound
      BY <1>5 DEF ConvertInto, ToSet
    <3> QED BY <1>0, <1>5, <3>1, <3>2, FS_AddElement DEF BoundInArray, ConvertInto
  <2> QED BY <1>0, <1>5, <2>1 DEF ConvertInto, BoxesInv, Live, PutSound
<1>6. ASSUME NEW cdr \in Sizes, NEW dst \in Sizes, sertype_serialize_into(cdr, dst)
      PROVE  BoxesInv'
  <2>1. PutSound'
    <3>1. cdr \in Nat /\ dst \in Nat
      BY SampleArraysAssumption
    <3>2. CASE cdr <= dst
      <4>1. put'.written = cdr /\ put'.dst = dst /\ put'.size = cdr
        BY <1>6, <3>2 DEF sertype_serialize_into, sertype_get_serialized_size
      <4> QED BY <3>1, <3>2, <4>1 DEF PutSound
    <3>3. CASE ~(cdr <= dst)
      <4>1. put'.written = 0 /\ put'.dst = dst
        BY <1>6, <3>3 DEF sertype_serialize_into, sertype_get_serialized_size
      <4>2. ~put'.ok
        <5>1. put'.ok = (cdr <= dst)
          BY <1>6, Zenon DEF sertype_serialize_into, sertype_get_serialized_size
        <5> QED BY <3>3, <5>1
      <4> QED BY <3>1, <4>1, <4>2 DEF PutSound
    <3> QED BY <3>2, <3>3
  <2> QED BY <1>0, <1>6, <2>1 DEF sertype_serialize_into, BoxesInv, Live, BoundInArray
<1>7. CASE UNCHANGED arrayVars
  BY <1>0, <1>7 DEF arrayVars, BoxesInv, Live, BoundInArray, PutSound
<1> QED BY <1>1, <1>2, <1>3, <1>4, <1>5, <1>6, <1>7 DEF ArraysNext

(* and it is what is asked of an array. *)
LEMMA BoxesInvSound == BoxesInv => ArraysSound
BY DistinctCount DEF BoxesInv, BoundInArray, PutSound, Live, ArraysSound

(* The boxes that live are those of the array, however it grows and         *)
(* shrinks; every reference is held by a sample of it; only a whole CDR     *)
(* counts as written.                                                       *)
THEOREM BoxesAreTheArrays == ArraysSpec => []ArraysSound
BY BoxesInvInit, BoxesInvStep, BoxesInvSound, PTL DEF ArraysSpec

-----------------------------------------------------------------------------
(* BenchCases *)

(* While the payloads are bisected, those below low are not above the size *)
(* on the wire and those from high on are; while one is aligned, no other   *)
(* between it and the size on the wire would do.                            *)
Missed(n) == IF relation = "above" THEN n < low ELSE n > low
BoundaryInv ==
  /\ relation \in {"above", "below"} /\ wire_bytes \in WireBytes
  /\ step \in {"bisect", "align", "found", "overflow"}
  /\ low \in Nat /\ low <= UsizeMax + 1
  /\ step = "bisect" => /\ high \in Nat /\ high <= UsizeMax + 1 /\ low <= high
                        /\ low = 0 \/ size_at(low - 1) <= wire_bytes
                        /\ size_at(high) > wire_bytes
  /\ step \in {"align", "found"} => \A n \in Nat : Missed(n) => ~OnSide(n)
  /\ step = "found" => OnSide(low)
  /\ step = "overflow" => \A n \in 0..UsizeMax : ~OnSide(n)

(* A search begins with every payload before it, *)
LEMMA BoundaryInvInit == CasesInit => BoundaryInv
<1> SUFFICES ASSUME CasesInit PROVE BoundaryInv
  OBVIOUS
<1>1. wire_bytes \in Nat /\ wire_bytes <= UsizeMax /\ UsizeMax \in Nat
  BY BenchCasesAssumption DEF CasesInit
<1> QED BY <1>1 DEF CasesInit, BoundaryInv, size_at

(* ends next to the size on the wire, *)
LEMMA BisectedStep == ASSUME BoundaryInv, step = "bisect", Bisected,
                             UNCHANGED << relation, wire_bytes >>
                      PROVE  BoundaryInv'
<1>1. /\ wire_bytes \in Nat /\ UsizeMax \in Nat /\ low \in Nat /\ low = high
      /\ relation \in {"above", "below"} /\ wire_bytes \in WireBytes /\ low <= UsizeMax + 1
  BY BenchCasesAssumption DEF BoundaryInv, Bisected
<1>2. /\ low = 0 \/ 24 + (low - 1) <= wire_bytes
      /\ 24 + low > wire_bytes
  BY <1>1 DEF BoundaryInv, size_at
<1>3. CASE relation = "above" /\ step' = "align" /\ UNCHANGED low
  <2>1. ASSUME NEW n \in Nat, n < low PROVE ~OnSide(n)
    BY <1>1, <1>2, <1>3, <2>1 DEF OnSide, size_at
  <2> QED BY <1>1, <1>3, <2>1 DEF BoundaryInv, Missed, OnSide
<1>4. CASE relation = "below" /\ low > 0 /\ step' = "align" /\ low' = low - 1
  <2>1. ASSUME NEW n \in Nat, n > low - 1 PROVE ~OnSide(n)
    BY <1>1, <1>2, <1>4, <2>1 DEF OnSide, size_at
  <2>2. low - 1 \in Nat /\ low - 1 <= UsizeMax + 1
    BY <1>1, <1>4
  <2> QED BY <1>1, <1>4, <2>1, <2>2 DEF BoundaryInv, Missed, OnSide
<1>5. CASE relation = "below" /\ low = 0 /\ step' = "overflow" /\ UNCHANGED low
  <2>1. ASSUME NEW n \in 0..UsizeMax PROVE ~OnSide(n)
    BY <1>1, <1>2, <1>5, <2>1 DEF OnSide, size_at
  <2> QED BY <1>1, <1>5, <2>1 DEF BoundaryInv, OnSide
<1> QED BY <1>3, <1>4, <1>5 DEF Bisected

(* halves what is left, *)
LEMMA HalveStep == ASSUME BoundaryInv, step = "bisect", Halve,
                          UNCHANGED << relation, wire_bytes >>
                   PROVE  BoundaryInv'
<1> DEFINE middle == low + (high - low) \div 2
<1>1. /\ wire_bytes \in Nat /\ UsizeMax \in Nat /\ low \in Nat /\ high \in Nat /\ low < high
      /\ relation \in {"above", "below"} /\ wire_bytes \in WireBytes /\ high <= UsizeMax + 1
      /\ low = 0 \/ size_at(low - 1) <= wire_bytes
      /\ size_at(high) > wire_bytes /\ step' = "bisect"
  BY BenchCasesAssumption DEF BoundaryInv, Halve
<1>2. middle \in Nat /\ low <= middle /\ middle < high
  BY <1>1
<1>3. \/ size_at(middle) <= wire_bytes /\ low' = middle + 1 /\ high' = high
      \/ size_at(middle) > wire_bytes /\ high' = middle /\ low' = low
  <2>1. \/ size_at(middle) <= wire_bytes /\ low' = middle + 1 /\ high' = high
        \/ ~(size_at(middle) <= wire_bytes) /\ high' = middle /\ low' = low
    BY DEF Halve
  <2> HIDE DEF middle
  <2> QED BY <1>1, <1>2, <2>1 DEF size_at
<1> HIDE DEF middle
<1>4. (middle + 1) - 1 = middle /\ middle + 1 \in Nat /\ middle + 1 <= high
  BY <1>1, <1>2
<1> QED BY <1>1, <1>2, <1>3, <1>4 DEF BoundaryInv

(* and a payload that is not aligned gives way to the next one. *)
LEMMA AlignStep == ASSUME BoundaryInv, Align PROVE BoundaryInv'
<1>1. /\ wire_bytes \in Nat /\ UsizeMax \in Nat /\ low \in Nat /\ low <= UsizeMax + 1
      /\ relation \in {"above", "below"} /\ wire_bytes \in WireBytes /\ step = "align"
      /\ \A n \in Nat : Missed(n) => ~OnSide(n)
      /\ UNCHANGED << relation, wire_bytes >>
  BY BenchCasesAssumption DEF BoundaryInv, Align
<1>2. Aligned <=> OnSide(low)
  BY DEF Aligned, OnSide
<1>3. CASE Aligned /\ step' = "found" /\ UNCHANGED low
  BY <1>1, <1>2, <1>3 DEF BoundaryInv, Missed, OnSide
<1>4. CASE ~Aligned
  <2> DEFINE to == IF relation = "above" THEN low + 1 ELSE low - 1
  <2>1. IF to \in 0..UsizeMax THEN low' = to /\ step' = "align" ELSE step' = "overflow" /\ low' = low
    BY <1>1, <1>4 DEF Align
  <2>2. CASE to \in 0..UsizeMax
    <3>1. low' = to /\ step' = "align" /\ to \in Nat /\ to <= UsizeMax + 1
      BY <1>1, <2>1, <2>2
    <3>2. ASSUME NEW n \in Nat, IF relation = "above" THEN n < to ELSE n > to
          PROVE  ~OnSide(n)
      <4>1. n = low \/ Missed(n)
        BY <1>1, <3>2 DEF Missed
      <4> QED BY <1>1, <1>2, <1>4, <4>1
    <3> HIDE DEF to
    <3> QED BY <1>1, <3>1, <3>2 DEF BoundaryInv, Missed, OnSide
  <2>3. CASE to \notin 0..UsizeMax
    <3>1. low' = low /\ step' = "overflow"
      BY <2>1, <2>3
    <3>2. ASSUME NEW n \in 0..UsizeMax PROVE ~OnSide(n)
      <4>1. n \in Nat /\ (n = low \/ Missed(n))
        BY <1>1, <2>3, <3>2 DEF Missed
      <4> QED BY <1>1, <1>2, <1>4, <4>1
    <3> QED BY <1>1, <3>1, <3>2 DEF BoundaryInv, OnSide
  <2> QED BY <2>2, <2>3
<1> QED BY <1>3, <1>4 DEF Align

(* Every step keeps BoundaryInv, *)
LEMMA BoundaryInvStep == BoundaryInv /\ [CasesNext]_casesVars => BoundaryInv'
<1> SUFFICES ASSUME BoundaryInv, [CasesNext]_casesVars PROVE BoundaryInv'
  OBVIOUS
<1>1. CASE Bisect
  BY <1>1, BisectedStep, HalveStep DEF Bisect
<1>2. CASE Align
  BY <1>2, AlignStep
<1>3. CASE UNCHANGED boundaryVars
  BY <1>3 DEF boundaryVars, BoundaryInv, Missed, OnSide
<1> QED BY <1>1, <1>2, <1>3 DEF CasesNext, FindBoundary, Measure, RunCdr, casesVars

(* so that a boundary case gets the nearest aligned payload on its side of  *)
(* the size on the wire, or an error if there is none, for every size.      *)
THEOREM BoundariesAreNearest == CasesSpec => []BoundaryRight
<1>1. ASSUME BoundaryInv PROVE BoundaryRight
  <2>1. ASSUME step = "found", NEW n \in 0..(wire_bytes + 4), OnSide(n)
        PROVE  IF relation = "above" THEN n >= low ELSE n <= low
    <3>1. n \in Nat /\ low \in Nat /\ ~Missed(n)
      BY <1>1, <2>1, BenchCasesAssumption DEF BoundaryInv
    <3> QED BY <3>1 DEF Missed
  <2> QED BY <1>1, <2>1 DEF BoundaryRight, BoundaryInv
<1> QED BY <1>1, BoundaryInvInit, BoundaryInvStep, PTL DEF CasesSpec

(* The CDR case, from its first message to its line *)
CdrInv ==
  /\ lines = IF cdr_outcome = "exit ok" THEN << "ok" >>
             ELSE IF cdr_outcome = "exit error" THEN << "error" >> ELSE << >>
  /\ cdr_outcome \in {"record", "exit ok"} => sequence = Warmup + Measured
  /\ cdr_outcome = "exit ok" => roundtrip_ok
  /\ cdr_outcome \in {"running", "record", "error", "exit ok", "exit error", "unwritten"}

(* Every step keeps CdrInv, *)
LEMMA CdrInvStep == CdrInv /\ [CasesNext]_casesVars => CdrInv'
<1> SUFFICES ASSUME CdrInv, [CasesNext]_casesVars PROVE CdrInv'
  OBVIOUS
<1>1. CASE Roundtrip
  BY <1>1 DEF Roundtrip, CdrInv
<1>2. CASE Finished
  BY <1>2 DEF Finished, CdrInv
<1>3. CASE Exit
  <2>1. lines = << >>
    BY <1>3 DEF Exit, CdrInv
  <2>2. CASE lines' = Append(lines, RecordStatus) /\ RecordStatus = "ok" /\ cdr_outcome' = "exit ok"
    <3>1. lines' = << "ok" >>
      <4>1. lines' = Append(<< >>, "ok")
        BY <2>1, <2>2
      <4>2. Append(<< >>, "ok") = << "ok" >>
        OBVIOUS
      <4> QED BY <4>1, <4>2
    <3>2. cdr_outcome = "record" /\ roundtrip_ok
      BY <2>2 DEF RecordStatus
    <3> QED BY <1>3, <2>2, <3>1, <3>2 DEF Exit, CdrInv, roundtrip_ok
  <2>3. CASE lines' = Append(lines, RecordStatus) /\ RecordStatus = "error" /\ cdr_outcome' = "exit error"
    <3>1. lines' = << "error" >>
      <4>1. lines' = Append(<< >>, "error")
        BY <2>1, <2>3
      <4>2. Append(<< >>, "error") = << "error" >>
        OBVIOUS
      <4> QED BY <4>1, <4>2
    <3> QED BY <2>3, <3>1 DEF CdrInv
  <2>4. CASE cdr_outcome' = "unwritten" /\ UNCHANGED lines
    BY <2>1, <2>4 DEF CdrInv
  <2> QED BY <1>3, <2>2, <2>3, <2>4 DEF Exit, RecordStatus
<1>4. CASE UNCHANGED cdrVars
  BY <1>4 DEF cdrVars, CdrInv, roundtrip_ok
<1> QED BY <1>1, <1>2, <1>3, <1>4 DEF CasesNext, FindBoundary, Measure, RunCdr, casesVars, boundaryVars, cdrVars

(* so that a CDR case leaves one line, which agrees with the exit status    *)
(* and is "ok" only if every measured message came back as it was.          *)
THEOREM CdrLinesAreTrue == CasesSpec => []CdrRecorded
<1>1. CasesInit => CdrInv
  BY DEF CasesInit, CdrInv
<1>2. CdrInv => CdrRecorded
  BY DEF CdrInv, CdrRecorded, roundtrip_ok
<1> QED BY <1>1, <1>2, CdrInvStep, PTL DEF CasesSpec

(* An order of n numbers in which none is less than the one before it       *)
Sorts(p, v, n) ==
  /\ p \in Injection(1..n, 1..n)
  /\ \A i, j \in 1..n : i < j => v[p[i]] <= v[p[j]]

(* One number more can be sorted: the least one comes first, and the last   *)
(* one takes its place among the others.                                    *)
LEMMA SortsMore ==
  ASSUME NEW n \in Nat, n > 0, NEW v \in [1..n -> Nat],
         \A w \in [1..n - 1 -> Nat] : \E q : Sorts(q, w, n - 1)
  PROVE  \E p : Sorts(p, v, n)
<1>1. PICK m \in 1..n : \A i \in 1..n : v[m] <= v[i]
  <2> DEFINE T == { v[i] : i \in 1..n }
  <2>1. T \in SUBSET Nat /\ T # {}
    <3>1. n \in 1..n
      OBVIOUS
    <3> QED BY <3>1
  <2>2. PICK x \in T : \A y \in T : x <= y
    <3> HIDE DEF T
    <3> QED BY <2>1, LeastNatural
  <2> QED BY <2>2
<1> DEFINE other == [j \in 1..n - 1 |-> IF j = m THEN n ELSE j]
           w == [j \in 1..n - 1 |-> v[other[j]]]
<1>2. /\ \A j \in 1..n - 1 : other[j] \in 1..n /\ other[j] # m
      /\ \A i, j \in 1..n - 1 : other[i] = other[j] => i = j
  OBVIOUS
<1> HIDE DEF other
<1>3. w \in [1..n - 1 -> Nat] /\ \A j \in 1..n - 1 : w[j] = v[other[j]]
  BY <1>2
<1> HIDE DEF w
<1>4. PICK q : Sorts(q, w, n - 1)
  BY <1>3
<1>5. /\ \A i \in 1..n - 1 : q[i] \in 1..n - 1
      /\ \A i, j \in 1..n - 1 : q[i] = q[j] => i = j
      /\ \A i, j \in 1..n - 1 : i < j => w[q[i]] <= w[q[j]]
  BY <1>4 DEF Sorts, Injection, IsInjective
<1> DEFINE p == [i \in 1..n |-> IF i = 1 THEN m ELSE other[q[i - 1]]]
<1>6. \A i \in 1..n : i # 1 => i - 1 \in 1..n - 1
  OBVIOUS
<1>7. p[1] = m /\ \A i \in 1..n : i # 1 => p[i] = other[q[i - 1]]
  OBVIOUS
<1>8. p \in [1..n -> 1..n]
  BY <1>2, <1>5, <1>6
<1> HIDE DEF p
<1>9. \A i \in 1..n : i # 1 => q[i - 1] \in 1..n - 1 /\ p[i] # m
  <2>1. ASSUME NEW i \in 1..n, i # 1 PROVE q[i - 1] \in 1..n - 1 /\ p[i] # m
    <3>1. i - 1 \in 1..n - 1
      BY <1>6, <2>1
    <3>2. q[i - 1] \in 1..n - 1
      BY <1>5, <3>1
    <3> QED BY <1>2, <1>7, <2>1, <3>2
  <2> QED BY <2>1
<1>10. ASSUME NEW i \in 1..n, NEW j \in 1..n, p[i] = p[j] PROVE i = j
  <2>1. CASE i = 1 \/ j = 1
    BY <1>7, <1>9, <1>10, <2>1
  <2>2. CASE i # 1 /\ j # 1
    <3>1. other[q[i - 1]] = other[q[j - 1]]
      BY <1>7, <1>10, <2>2
    <3>2. q[i - 1] = q[j - 1]
      <4>1. q[i - 1] \in 1..n - 1 /\ q[j - 1] \in 1..n - 1
        BY <1>9, <2>2
      <4> QED BY <1>2, <3>1, <4>1
    <3>3. i - 1 \in 1..n - 1 /\ j - 1 \in 1..n - 1
      BY <1>6, <2>2
    <3>4. i - 1 = j - 1
      BY <1>5, <3>2, <3>3
    <3> QED BY <3>4
  <2> QED BY <2>1, <2>2
<1>11. ASSUME NEW i \in 1..n, NEW j \in 1..n, i < j PROVE v[p[i]] <= v[p[j]]
  <2>1. CASE i = 1
    <3>1. p[i] = m /\ p[j] \in 1..n
      BY <1>7, <1>8, <2>1
    <3> QED BY <1>1, <3>1
  <2>2. CASE i # 1
    <3>1. j # 1 /\ i - 1 \in 1..n - 1 /\ j - 1 \in 1..n - 1 /\ i - 1 < j - 1
      BY <1>11, <2>2
    <3>2. w[q[i - 1]] <= w[q[j - 1]]
      BY <1>5, <3>1
    <3>3. w[q[i - 1]] = v[p[i]] /\ w[q[j - 1]] = v[p[j]]
      <4>1. q[i - 1] \in 1..n - 1 /\ q[j - 1] \in 1..n - 1
        BY <1>5, <3>1
      <4>2. p[i] = other[q[i - 1]] /\ p[j] = other[q[j - 1]]
        BY <1>7, <2>2, <3>1
      <4> QED BY <1>3, <4>1, <4>2
    <3> QED BY <3>2, <3>3
  <2> QED BY <2>1, <2>2
<1> QED BY <1>8, <1>10, <1>11 DEF Sorts, Injection, IsInjective

(* So every sequence of numbers can be sorted: a shortest one that cannot   *)
(* is not there.                                                            *)
LEMMA SortsAll ==
  ASSUME NEW n \in Nat, NEW v \in [1..n -> Nat] PROVE \E p : Sorts(p, v, n)
<1> DEFINE T == { k \in Nat : \E w \in [1..k -> Nat] : ~\E p : Sorts(p, w, k) }
<1>1. SUFFICES ASSUME T # {} PROVE FALSE
  OBVIOUS
<1>2. T \in SUBSET Nat
  OBVIOUS
<1>3. PICK k \in T : \A x \in T : k <= x
  <2> HIDE DEF T
  <2> QED BY <1>1, <1>2, LeastNatural
<1>4. PICK w \in [1..k -> Nat] : ~\E p : Sorts(p, w, k)
  BY <1>3
<1>5. k # 0
  <2>1. ASSUME k = 0 PROVE Sorts([i \in 1..0 |-> i], w, 0)
    BY DEF Sorts, Injection, IsInjective
  <2> QED BY <1>4, <2>1
<1>6. k \in Nat /\ k > 0 /\ k - 1 \in Nat /\ ~(k <= k - 1)
  BY <1>3, <1>5
<1>7. k - 1 \notin T
  BY <1>3, <1>6
<1> QED BY <1>4, <1>6, <1>7, SortsMore

(* What Sorted gives: the same values, none less than the one before it     *)
LEMMA SortedOrders ==
  ASSUME NEW v \in Seq(Nat), v # << >>
  PROVE  \E p \in [1..Len(v) -> 1..Len(v)] :
           /\ \A i, j \in 1..Len(v) : p[i] = p[j] => i = j
           /\ \A i \in 1..Len(v) : \E j \in 1..Len(v) : p[j] = i
           /\ Sorted(v) = [i \in 1..Len(v) |-> v[p[i]]]
           /\ \A i, j \in 1..Len(v) : i <= j => v[p[i]] <= v[p[j]]
<1> DEFINE n == Len(v)
<1>1. n \in Nat /\ DOMAIN v = 1..n /\ v \in [1..n -> Nat]
  BY LenProperties
<1> HIDE DEF n
<1> DEFINE p == CHOOSE q \in Injection(1..n, 1..n) :
                  \A i, j \in 1..n : i < j => v[q[i]] <= v[q[j]]
<1>2. \E q \in Injection(1..n, 1..n) : \A i, j \in 1..n : i < j => v[q[i]] <= v[q[j]]
  BY <1>1, SortsAll DEF Sorts
<1>3. p \in Injection(1..n, 1..n) /\ \A i, j \in 1..n : i < j => v[p[i]] <= v[p[j]]
  BY <1>2
<1>4. Sorted(v) = [i \in 1..n |-> v[p[i]]]
  BY <1>1 DEF Sorted
<1> HIDE DEF p
<1>5. p \in [1..n -> 1..n] /\ \A i, j \in 1..n : p[i] = p[j] => i = j
  BY <1>3 DEF Injection, IsInjective
<1>6. \A i \in 1..n : \E j \in 1..n : p[j] = i
  <2>1. p \in Surjection(1..n, 1..n)
    BY <1>1, <1>3, CountTo, FS_Injection
  <2> QED BY <2>1 DEF Surjection
<1>7. ASSUME NEW i \in 1..n, NEW j \in 1..n, i <= j PROVE v[p[i]] <= v[p[j]]
  <2>1. CASE i < j
    BY <1>3, <2>1
  <2>2. CASE i = j
    <3>1. v[p[i]] \in Nat
      BY <1>1, <1>5
    <3> QED BY <2>2, <3>1
  <2>3. i < j \/ i = j
    BY <1>1, <1>7
  <2> QED BY <2>1, <2>2, <2>3
<1> QED BY <1>4, <1>5, <1>6, <1>7 DEF n

(* What the fold of latency_summary makes of the sets of the first n places *)
SumAt(g, v, s) == IF s = {} THEN 0 ELSE g[s \ {Max(s)}] + v[Max(s)]
SumsUp(g, v, n) == g = [s \in SUBSET (1..n) |-> SumAt(g, v, s)]

(* The sums of one place more *)
LEMMA SumsMore ==
  ASSUME NEW v, NEW n \in Nat, NEW g, SumsUp(g, v, n)
  PROVE  \E f : SumsUp(f, v, n + 1)
<1> DEFINE f == [s \in SUBSET (1..n + 1) |->
                   IF n + 1 \in s THEN g[s \ {n + 1}] + v[n + 1] ELSE g[s]]
<1>1. \A s \in SUBSET (1..n + 1) :
        f[s] = IF n + 1 \in s THEN g[s \ {n + 1}] + v[n + 1] ELSE g[s]
  OBVIOUS
<1>2. f = [s \in SUBSET (1..n + 1) |-> f[s]]
  OBVIOUS
<1> HIDE DEF f
<1>3. \A s \in SUBSET (1..n) : g[s] = SumAt(g, v, s) /\ s \in SUBSET (1..n + 1) /\ n + 1 \notin s
  BY DEF SumsUp
<1>4. ASSUME NEW s \in SUBSET (1..n + 1) PROVE f[s] = SumAt(f, v, s)
  <2>1. CASE n + 1 \in s
    <3>1. Max(s) = n + 1 /\ s # {}
      <4>1. n + 1 \in Nat /\ s \subseteq 1..n + 1
        OBVIOUS
      <4> QED BY <2>1, <4>1, LastPlace
    <3>2. s \ {n + 1} \in SUBSET (1..n)
      OBVIOUS
    <3>3. f[s \ {n + 1}] = g[s \ {n + 1}]
      BY <1>1, <1>3, <3>2
    <3> QED BY <1>1, <2>1, <3>1, <3>3 DEF SumAt
  <2>2. CASE n + 1 \notin s
    <3>1. s \in SUBSET (1..n)
      BY <2>2
    <3>2. f[s] = SumAt(g, v, s)
      BY <1>1, <1>3, <2>2, <3>1
    <3>3. s # {} => s \ {Max(s)} \in SUBSET (1..n)
      BY <3>1
    <3>4. s # {} => f[s \ {Max(s)}] = g[s \ {Max(s)}]
      BY <1>1, <1>3, <3>3
    <3> QED BY <3>2, <3>4 DEF SumAt
  <2> QED BY <2>1, <2>2
<1>5. SumsUp(f, v, n + 1)
  BY <1>2, <1>4 DEF SumsUp
<1> QED BY <1>5

(* And so all sums are there. *)
LEMMA SumsAll ==
  ASSUME NEW v, NEW n \in Nat PROVE \E g : SumsUp(g, v, n)
<1> DEFINE T == { k \in Nat : ~\E g : SumsUp(g, v, k) }
<1>1. SUFFICES ASSUME T # {} PROVE FALSE
  OBVIOUS
<1>2. T \in SUBSET Nat
  OBVIOUS
<1>3. PICK k \in T : \A x \in T : k <= x
  <2> HIDE DEF T
  <2> QED BY <1>1, <1>2, LeastNatural
<1>4. k # 0
  <2>1. SumsUp([s \in SUBSET (1..0) |-> 0], v, 0)
    BY DEF SumsUp, SumAt
  <2>2. \E g : SumsUp(g, v, 0)
    BY <2>1
  <2> QED BY <1>3, <2>2
<1>5. k - 1 \in Nat /\ ~(k <= k - 1) /\ k - 1 + 1 = k
  BY <1>3, <1>4
<1>6. \E g : SumsUp(g, v, k - 1)
  BY <1>3, <1>5
<1>7. \E g : SumsUp(g, v, k - 1 + 1)
  BY <1>5, <1>6, SumsMore
<1> QED BY <1>3, <1>5, <1>7

(* What the fold computes adds the numbers up one by one. *)
LEMMA FoldSteps ==
  ASSUME NEW v \in Seq(Nat)
  PROVE  \E g : /\ g[1..0] = 0
                /\ \A k \in 1..Len(v) : g[1..k] = g[1..k - 1] + v[k]
                /\ FoldLeft(LAMBDA a, b : a + b, 0, v) = g[1..Len(v)]
<1> DEFINE n == Len(v)
<1>1. n \in Nat /\ DOMAIN v = 1..n
  BY LenProperties
<1> HIDE DEF n
<1> DEFINE g == CHOOSE h : SumsUp(h, v, n)
<1>2. SumsUp(g, v, n)
  BY <1>1, SumsAll
<1>3. FoldLeft(LAMBDA a, b : a + b, 0, v) = g[1..n]
  BY <1>1 DEF FoldLeft, MapThenFoldSet, SumsUp, SumAt
<1> HIDE DEF g
<1>4. \A s \in SUBSET (1..n) : g[s] = SumAt(g, v, s)
  BY <1>2 DEF SumsUp
<1>5. g[1..0] = 0
  <2>1. 1..0 = {} /\ {} \in SUBSET (1..n)
    OBVIOUS
  <2> QED BY <1>4, <2>1 DEF SumAt
<1>6. ASSUME NEW k \in 1..n PROVE g[1..k] = g[1..k - 1] + v[k]
  <2>1. k \in Nat /\ k \in 1..k /\ 1..k \in SUBSET (1..n) /\ (1..k) \ {k} = 1..k - 1
    BY <1>1
  <2>2. Max(1..k) = k /\ 1..k # {}
    BY <2>1, LastPlace
  <2> QED BY <1>4, <2>1, <2>2 DEF SumAt
<1> QED BY <1>3, <1>5, <1>6 DEF n

(* A sum lies between as many times the least and the greatest.             *)
LEMMA SumBounded ==
  ASSUME NEW n \in Nat, NEW v \in [1..n -> Nat], NEW g, g[1..0] = 0,
         \A k \in 1..n : g[1..k] = g[1..k - 1] + v[k],
         NEW least \in Nat, NEW most \in Nat,
         \A i \in 1..n : least <= v[i] /\ v[i] <= most
  PROVE  g[1..n] \in Nat /\ n * least <= g[1..n] /\ g[1..n] <= n * most
<1> DEFINE Bounded(k) == g[1..k] \in Nat /\ k * least <= g[1..k] /\ g[1..k] <= k * most
           T == { k \in 0..n : ~Bounded(k) }
<1>1. SUFFICES ASSUME T # {} PROVE FALSE
  OBVIOUS
<1>2. T \in SUBSET Nat
  OBVIOUS
<1>3. PICK k \in T : \A x \in T : k <= x
  <2> HIDE DEF T
  <2> QED BY <1>1, <1>2, LeastNatural
<1>4. Bounded(0)
  <2>1. 0 * least = 0 /\ 0 * most = 0
    OBVIOUS
  <2> QED BY <2>1
<1>5. k \in 1..n /\ k - 1 \in 0..n /\ ~(k <= k - 1)
  <2>1. k # 0
    BY <1>3, <1>4
  <2> QED BY <1>3, <2>1
<1>6. Bounded(k - 1)
  BY <1>3, <1>5
<1>7. g[1..k] = g[1..k - 1] + v[k] /\ least <= v[k] /\ v[k] <= most /\ v[k] \in Nat
  BY <1>5
<1>8. k * least = (k - 1) * least + least /\ k * most = (k - 1) * most + most
  <2>1. k \in Int
    BY <1>5
  <2> QED BY <2>1
<1>9. (k - 1) * least \in Int /\ (k - 1) * most \in Int
  BY <1>5
<1>10. Bounded(k)
  <2> DEFINE a == (k - 1) * least
             b == (k - 1) * most
             c == g[1..k - 1]
  <2>1. c \in Nat /\ a <= c /\ c <= b /\ a \in Int /\ b \in Int
    BY <1>6, <1>9
  <2>2. g[1..k] = c + v[k] /\ k * least = a + least /\ k * most = b + most
    BY <1>7, <1>8
  <2> HIDE DEF a, b, c
  <2> QED BY <1>7, <2>1, <2>2
<1> QED BY <1>3, <1>10

(* A mean lies between what every number lies between. *)
LEMMA MeanBounded ==
  ASSUME NEW n \in Nat, n > 0, NEW sum \in Nat, NEW least \in Nat, NEW most \in Nat,
         n * least <= sum, sum <= n * most
  PROVE  least <= sum \div n /\ sum \div n <= most
<1> DEFINE q == sum \div n
           r == sum % n
<1>1. q \in Int /\ r \in Int /\ sum = n * q + r /\ 0 <= r /\ r < n
  BY SMT
<1> HIDE DEF q, r
<1>2. least <= q
  <2>1. ASSUME q + 1 <= least PROVE FALSE
    <3>1. n * (q + 1) <= n * least
      BY <1>1, <2>1
    <3>2. n * (q + 1) = n * q + n
      BY <1>1
    <3> QED BY <1>1, <3>1, <3>2
  <2> QED BY <1>1, <2>1
<1>3. q <= most
  <2>1. ASSUME most + 1 <= q PROVE FALSE
    <3>1. n * (most + 1) <= n * q
      BY <1>1, <2>1
    <3>2. n * (most + 1) = n * most + n
      OBVIOUS
    <3> QED BY <1>1, <3>1, <3>2
  <2> QED BY <1>1, <2>1
<1> QED BY <1>2, <1>3 DEF q

(* The place of a percentile among n sorted values *)
LEMMA PlaceOf ==
  ASSUME NEW n \in Nat, n > 0, NEW p \in {50, 95, 99}
  PROVE  LET k == 1 + ((n - 1) * p + 99) \div 100 IN
         k \in 1..n /\ p * n <= 100 * k
<1>1. CASE p = 50
  BY <1>1
<1>2. CASE p = 95
  BY <1>2
<1>3. CASE p = 99
  BY <1>3
<1> QED BY <1>1, <1>2, <1>3

(* A later percentile has no earlier place. *)
LEMMA PlacesOrder ==
  ASSUME NEW n \in Nat, n > 0
  PROVE  /\ ((n - 1) * 50 + 99) \div 100 <= ((n - 1) * 95 + 99) \div 100
         /\ ((n - 1) * 95 + 99) \div 100 <= ((n - 1) * 99 + 99) \div 100
OBVIOUS

(* The first k of the sorted values are no greater than the kth.            *)
LEMMA ShareOf ==
  ASSUME latencies \in Seq(Nat), NEW p \in [1..Len(latencies) -> 1..Len(latencies)],
         \A i, j \in 1..Len(latencies) : p[i] = p[j] => i = j,
         \A i, j \in 1..Len(latencies) : i <= j => latencies[p[i]] <= latencies[p[j]],
         NEW k \in 1..Len(latencies)
  PROVE  Share(latencies[p[k]]) \in Nat /\ Share(latencies[p[k]]) >= 100 * k
<1> DEFINE n == Len(latencies)
           x == latencies[p[k]]
           S == { i \in DOMAIN latencies : latencies[i] <= x }
           f == [i \in 1..k |-> p[i]]
<1>1. n \in Nat /\ DOMAIN latencies = 1..n /\ k \in Nat /\ \A i \in 1..k : i \in 1..n
  BY LenProperties
<1>2. IsFiniteSet(S)
  <2>1. IsFiniteSet(1..n) /\ S \subseteq 1..n
    BY <1>1, CountTo
  <2> QED BY <2>1, FS_Subset
<1>3. \A i \in 1..k : f[i] \in S
  <2>1. ASSUME NEW i \in 1..k PROVE latencies[p[i]] <= x /\ p[i] \in 1..n
    <3>1. i \in 1..n /\ k \in 1..n /\ i <= k
      BY <1>1
    <3> QED BY <3>1
  <2> QED BY <1>1, <2>1
<1>4. f \in Injection(1..k, S)
  <2>1. f \in [1..k -> S]
    <3> HIDE DEF S
    <3> QED BY <1>3
  <2>2. \A i, j \in 1..k : f[i] = f[j] => i = j
    BY <1>1
  <2> HIDE DEF S, f
  <2> QED BY <2>1, <2>2 DEF Injection, IsInjective
<1> HIDE DEF S, f
<1>5. Cardinality(1..k) <= Cardinality(S)
  BY <1>2, <1>4, FS_Injection
<1>6. Cardinality(1..k) = k /\ Cardinality(S) \in Nat
  BY <1>1, <1>2, CountTo, FS_CardinalityType
<1>7. Share(x) = Cardinality(S) * 100
  BY DEF Share, S
<1> HIDE DEF x
<1>8. Share(x) \in Nat /\ Share(x) >= 100 * k
  BY <1>1, <1>5, <1>6, <1>7
<1> QED BY <1>8 DEF x

(* What is summarised is in its order, and each percentile has its share.   *)
LEMMA SummaryHolds == latencies \in Seq(Nat) => SummarySound
<1> SUFFICES ASSUME latencies \in Seq(Nat), latencies # << >> PROVE SummarySound
  BY DEF SummarySound
<1> DEFINE v == latencies
           n == Len(v)
           s == Sorted(v)
           Place(q) == 1 + ((n - 1) * q + 99) \div 100
<1>1. n \in Nat /\ n > 0 /\ DOMAIN v = 1..n /\ v \in [1..n -> Nat]
  BY LenProperties, EmptySeq
<1>2. PICK p \in [1..n -> 1..n] :
        /\ \A i, j \in 1..n : p[i] = p[j] => i = j
        /\ \A i \in 1..n : \E j \in 1..n : p[j] = i
        /\ s = [i \in 1..n |-> v[p[i]]]
        /\ \A i, j \in 1..n : i <= j => v[p[i]] <= v[p[j]]
  BY SortedOrders
<1>3. s \in Seq(Nat) /\ Len(s) = n /\ \A i \in 1..n : s[i] = v[p[i]] /\ s[i] \in Nat
  <2> HIDE DEF n, s, v
  <2>1. \A i \in 1..n : v[p[i]] \in Nat
    BY <1>1, <1>2
  <2>2. s \in [1..n -> Nat] /\ \A i \in 1..n : s[i] = v[p[i]]
    BY <1>2, <2>1
  <2>3. s \in Seq(Nat) /\ Len(s) = n
    BY <1>1, <2>2, FunctionSeq
  <2> QED BY <2>1, <2>2, <2>3
<1>4. /\ Place(50) \in 1..n /\ 50 * n <= 100 * Place(50)
      /\ Place(95) \in 1..n /\ 95 * n <= 100 * Place(95)
      /\ Place(99) \in 1..n /\ 99 * n <= 100 * Place(99)
  <2> HIDE DEF n
  <2> QED BY <1>1, PlaceOf
<1>5. Place(50) <= Place(95) /\ Place(95) <= Place(99)
  <2> HIDE DEF n
  <2>1. /\ ((n - 1) * 50 + 99) \div 100 <= ((n - 1) * 95 + 99) \div 100
        /\ ((n - 1) * 95 + 99) \div 100 <= ((n - 1) * 99 + 99) \div 100
    BY <1>1, PlacesOrder
  <2> QED BY <1>1, <2>1
<1>6. \A q \in {50, 95, 99} : percentile(s, q) = s[Place(q)]
  BY <1>3 DEF percentile
<1> DEFINE sum == FoldLeft(LAMBDA a, b : a + b, 0, v)
           summary == latency_summary(v)
<1>7. /\ summary.count = n /\ summary.min = s[1] /\ summary.max = s[n]
      /\ summary.mean = sum \div n
      /\ summary.p50 = s[Place(50)] /\ summary.p95 = s[Place(95)]
      /\ summary.p99 = s[Place(99)]
  <2>1. /\ summary.count = n /\ summary.min = s[1] /\ summary.max = s[Len(s)]
        /\ summary.mean = sum \div n
        /\ summary.p50 = percentile(s, 50) /\ summary.p95 = percentile(s, 95)
        /\ summary.p99 = percentile(s, 99)
    <3> HIDE DEF s, sum
    <3> QED BY DEF latency_summary, s, sum
  <2> QED BY <1>3, <1>6, <2>1
<1>8. sum \in Nat /\ n * s[1] <= sum /\ sum <= n * s[n]
  <2>1. PICK g : /\ g[1..0] = 0
                 /\ \A k \in 1..n : g[1..k] = g[1..k - 1] + v[k]
                 /\ sum = g[1..n]
    BY FoldSteps
  <2>2. 1 \in 1..n /\ n \in 1..n
    BY <1>1
  <2>3. ASSUME NEW i \in 1..n PROVE s[1] <= v[i] /\ v[i] <= s[n]
    <3>1. PICK j \in 1..n : p[j] = i
      BY <1>2
    <3>2. 1 <= j /\ j <= n
      BY <1>1
    <3>3. v[p[1]] <= v[p[j]] /\ v[p[j]] <= v[p[n]]
      BY <1>2, <2>2, <3>2
    <3> QED BY <1>3, <2>2, <3>1, <3>3
  <2> HIDE DEF n, s, sum, v
  <2> QED BY <1>1, <1>3, <2>1, <2>2, <2>3, SumBounded
<1>9. s[1] <= sum \div n /\ sum \div n <= s[n]
  <2>1. s[1] \in Nat /\ s[n] \in Nat
    BY <1>1, <1>3
  <2> HIDE DEF n, s, sum
  <2> QED BY <1>1, <1>8, <2>1, MeanBounded
<1>10. \A i, j \in 1..n : i <= j => s[i] <= s[j]
  BY <1>2, <1>3
<1>11. /\ s[1] <= s[Place(50)] /\ s[Place(50)] <= s[Place(95)]
       /\ s[Place(95)] <= s[Place(99)] /\ s[Place(99)] <= s[n]
  <2>1. 1 \in 1..n /\ n \in 1..n
    BY <1>1
  <2>2. 1 <= Place(50) /\ Place(99) <= n
    BY <1>1, <1>4
  <2> HIDE DEF n, s, Place
  <2> QED BY <1>4, <1>5, <1>10, <2>1, <2>2
<1>12. \A k \in 1..n : Share(s[k]) \in Nat /\ Share(s[k]) >= 100 * k
  <2>1. ASSUME NEW k \in 1..n
        PROVE  Share(v[p[k]]) \in Nat /\ Share(v[p[k]]) >= 100 * k
    BY <1>2, ShareOf
  <2> QED BY <1>3, <2>1
<1>13. /\ Share(s[Place(50)]) >= 50 * n /\ Share(s[Place(95)]) >= 95 * n
       /\ Share(s[Place(99)]) >= 99 * n
  <2> DEFINE a == Share(s[Place(50)])
             b == Share(s[Place(95)])
             c == Share(s[Place(99)])
  <2>1. /\ a \in Nat /\ a >= 100 * Place(50) /\ b \in Nat /\ b >= 100 * Place(95)
        /\ c \in Nat /\ c >= 100 * Place(99)
    <3> HIDE DEF n, s, Place
    <3> QED BY <1>4, <1>12
  <2>2. Place(50) \in Nat /\ Place(95) \in Nat /\ Place(99) \in Nat
    BY <1>4
  <2> DEFINE i == Place(50)
             j == Place(95)
             k == Place(99)
  <2>3. /\ i \in Nat /\ j \in Nat /\ k \in Nat /\ n \in Nat
        /\ a >= 100 * i /\ b >= 100 * j /\ c >= 100 * k
        /\ 50 * n <= 100 * i /\ 95 * n <= 100 * j /\ 99 * n <= 100 * k
    <3> HIDE DEF n, s, Place, a, b, c
    <3> QED BY <1>1, <1>4, <2>1, <2>2
  <2> HIDE DEF n, s, Place, a, b, c, i, j, k
  <2>4. a >= 50 * n /\ b >= 95 * n /\ c >= 99 * n
    BY <2>1, <2>3
  <2> QED BY <2>4 DEF a, b, c
<1>14. \A k \in 1..n : s[k] \in ToSet(v)
  BY <1>1, <1>3 DEF ToSet
<1> HIDE DEF n, s, Place, sum, v
<1>15. {s[Place(50)], s[Place(95)], s[Place(99)]} \subseteq ToSet(v)
  BY <1>4, <1>14
<1> HIDE DEF summary
<1> QED BY <1>7, <1>9, <1>11, <1>13, <1>15 DEF SummarySound, summary, v

(* Latencies are numbers *)
LatenciesInv == latencies \in Seq(Nat)

(* A summary is in its order, whatever was measured, and a percentile is a  *)
(* measured value that at least its share of the values does not exceed.    *)
THEOREM SummariesAreTrue == CasesSpec => []SummarySound
<1>1. CasesInit => LatenciesInv
  BY DEF CasesInit, LatenciesInv
<1>2. LatenciesInv /\ [CasesNext]_casesVars => LatenciesInv'
  <2> SUFFICES ASSUME LatenciesInv, [CasesNext]_casesVars PROVE LatenciesInv'
    OBVIOUS
  <2>1. CASE Measure
    <3>1. PICK ns \in Nanos : latencies' = Append(latencies, ns)
      BY <2>1 DEF Measure
    <3>2. ns \in Nat
      BY BenchCasesAssumption
    <3> QED BY <3>1, <3>2, AppendProperties DEF LatenciesInv
  <2>2. CASE UNCHANGED latencies
    BY <2>2 DEF LatenciesInv
  <2> QED BY <2>1, <2>2 DEF CasesNext, FindBoundary, RunCdr, casesVars
<1>3. LatenciesInv => SummarySound
  BY SummaryHolds DEF LatenciesInv
<1> QED BY <1>1, <1>2, <1>3, PTL DEF CasesSpec

(* What a report of the benchmark rests on holds of every boundary case,    *)
(* every list of latencies and every CDR case.                              *)
THEOREM ReportsAreSound == CasesSpec => []ReportSound
<1>1. BoundaryRight /\ SummarySound /\ CdrRecorded => ReportSound
  BY DEF ReportSound
<1> QED BY <1>1, BoundariesAreNearest, SummariesAreTrue, CdrLinesAreTrue, PTL

-----------------------------------------------------------------------------
(* WriterWatch *)

(* While the watch hears the callbacks, it knows whether readers are there, *)
(* and it measures an absence no longer than it lasts                       *)
HeardInv ==
  /\ emptySince <= clock
  /\ ~ hearing => report = None
  /\ report # None => report = matched
  /\ IsMeasuring(absence_watch) => absence_watch.since <= clock
  /\ hearing /\ report = None => (IsMeasuring(absence_watch) <=> matched = 0)
  /\ hearing /\ matched = 0 /\ IsMeasuring(absence_watch) => emptySince <= absence_watch.since

WriterInv == WriterTypeOK /\ HeardInv /\ ReportsAlternate

(* What is known of a watch *)
LEMMA Watches ==
  ASSUME NEW w \in MatchState
  PROVE  \/ w = Present /\ ~ IsMeasuring(w)
         \/ /\ IsMeasuring(w) /\ w.since \in Instant /\ w.notified \in BOOLEAN
            /\ w = Absent(w.since, w.notified)
BY DEF MatchState, Present, Absent, IsMeasuring

(* A new absence is an absence that measures from its start *)
LEMMA Absences ==
  ASSUME NEW t \in Instant, NEW n \in BOOLEAN
  PROVE  /\ Absent(t, n) \in MatchState /\ IsMeasuring(Absent(t, n))
         /\ Absent(t, n).since = t /\ Absent(t, n).notified = n
         /\ Present \in MatchState /\ ~ IsMeasuring(Present)
BY DEF MatchState, Present, Absent, IsMeasuring

(* The initial states satisfy the invariant *)
LEMMA IInvInit == WriterInit => WriterInv
<1> SUFFICES ASSUME WriterInit PROVE WriterInv
  OBVIOUS
<1>1. 0 \in Instant /\ 0 \in 0..MaxReaders
  BY InstantAssumption, WriterWatchAssumption DEF Instant
<1>2. absence_watch \in MatchState /\ IsMeasuring(absence_watch) /\ absence_watch.since = 0
  BY <1>1, Absences DEF WriterInit, NewAt
<1>3. WriterTypeOK
  <2>1. clock = 0 /\ matched = 0 /\ report = None /\ emptySince = 0 /\ balance = 0
    BY DEF WriterInit
  <2>2. call \in [Callers -> BOOLEAN \cup {None}] /\ hearing \in BOOLEAN
        /\ last \in BOOLEAN
    BY DEF WriterInit
  <2> QED BY <1>1, <1>2, <2>1, <2>2 DEF WriterTypeOK
<1>4. HeardInv /\ ReportsAlternate
  BY <1>2 DEF WriterInit, HeardInv, ReportsAlternate
<1> QED BY <1>3, <1>4 DEF WriterInv

(* Every step preserves it *)
LEMMA IInvStep == WriterInv /\ [WriterNext]_writerVars => WriterInv'
<1> SUFFICES ASSUME WriterInv, [WriterNext]_writerVars PROVE WriterInv'
  OBVIOUS
<1> USE InstantAssumption, WriterWatchAssumption
<1>1. WriterTypeOK /\ HeardInv /\ ReportsAlternate
  BY DEF WriterInv
<1>2. CASE TimePasses
  BY <1>1, <1>2 DEF TimePasses, WriterInv, WriterTypeOK, HeardInv, ReportsAlternate, Instant,
                    IsMeasuring, MatchState, Present
<1>3. ASSUME NEW n \in 0..MaxReaders, Match(n) PROVE WriterInv'
  <2>1. WriterTypeOK'
    BY <1>1, <1>3 DEF Match, WriterTypeOK
  <2>2. HeardInv'
    BY <1>1, <1>3 DEF Match, WriterTypeOK, HeardInv, Instant
  <2> QED BY <1>1, <1>3, <2>1, <2>2 DEF Match, WriterInv, ReportsAlternate
<1>4. CASE UpdateWatch
  <2>1. /\ report # None /\ report' = None /\ report = matched
        /\ absence_watch' = UpdateAt(absence_watch, report, clock)
        /\ UNCHANGED << clock, matched, hearing, last, call, emptySince, balance >>
        /\ hearing /\ matched \in Nat
    BY <1>1, <1>4 DEF UpdateWatch, HeardInv, WriterTypeOK
  <2>2. CASE matched > 0
    <3>1. absence_watch' = Present /\ absence_watch' \in MatchState /\ ~ IsMeasuring(absence_watch')
      BY <2>1, <2>2, Absences, <1>1 DEF UpdateAt, WriterTypeOK
    <3>2. WriterTypeOK'
      BY <1>1, <2>1, <3>1 DEF WriterTypeOK
    <3>3. HeardInv'
      BY <1>1, <2>1, <2>2, <3>1 DEF HeardInv
    <3> QED BY <1>1, <2>1, <3>2, <3>3 DEF WriterInv, ReportsAlternate
  <2>3. CASE matched = 0 /\ IsMeasuring(absence_watch)
    <3>1. absence_watch' = absence_watch
      BY <2>1, <2>3 DEF UpdateAt
    <3>2. WriterTypeOK' /\ HeardInv'
      BY <1>1, <2>1, <2>3, <3>1 DEF WriterTypeOK, HeardInv
    <3> QED BY <1>1, <2>1, <3>2 DEF WriterInv, ReportsAlternate
  <2>4. CASE matched = 0 /\ ~ IsMeasuring(absence_watch)
    <3>1. absence_watch' = Absent(clock, FALSE)
      BY <2>1, <2>4 DEF UpdateAt
    <3>2. clock \in Instant
      BY <1>1 DEF WriterTypeOK
    <3>3. absence_watch' \in MatchState /\ IsMeasuring(absence_watch') /\ absence_watch'.since = clock
      BY <3>1, <3>2, Absences
    <3>4. WriterTypeOK'
      BY <1>1, <2>1, <3>3 DEF WriterTypeOK
    <3>5. HeardInv'
      BY <1>1, <2>1, <2>4, <3>2, <3>3 DEF HeardInv, Instant
    <3> QED BY <1>1, <2>1, <3>4, <3>5 DEF WriterInv, ReportsAlternate
  <2> QED BY <2>1, <2>2, <2>3, <2>4
<1>5. ASSUME NEW c \in Callers, Judge(c) PROVE WriterInv'
  <2>1. IsAbsentAt(absence_watch, Grace, clock) \in BOOLEAN
    BY DEF IsAbsentAt
  <2>2. WriterTypeOK'
    BY <1>1, <1>5, <2>1 DEF Judge, WriterTypeOK
  <2> QED BY <1>1, <1>5, <2>2 DEF Judge, WriterInv, HeardInv, ReportsAlternate
<1>6. ASSUME NEW c \in Callers, Swap(c) PROVE WriterInv'
  <2>1. call[c] \in BOOLEAN /\ last \in BOOLEAN
    BY <1>1, <1>6 DEF Swap, WriterTypeOK
  <2>2. last' = call[c] /\ balance' = IF last' THEN 1 ELSE 0
    <3>1. CASE call[c] = last
      BY <1>1, <1>6, <2>1, <3>1 DEF Swap, ReportsAlternate, WriterTypeOK
    <3>2. CASE call[c] /\ ~ last
      <4>1. call[c] # last /\ balance = 0
        BY <1>1, <3>2 DEF ReportsAlternate
      <4>2. last' = call[c] /\ balance' = balance + 1
        BY <1>6, <3>2, <4>1 DEF Swap
      <4> QED BY <3>2, <4>1, <4>2
    <3>3. CASE ~ call[c] /\ last
      <4>1. call[c] # last /\ balance = 1
        BY <1>1, <3>3 DEF ReportsAlternate
      <4>2. last' = call[c] /\ balance' = balance + (-1)
        BY <1>6, <3>3, <4>1 DEF Swap
      <4> QED BY <3>3, <4>1, <4>2
    <3> QED BY <2>1, <3>1, <3>2, <3>3
  <2>3. call' \in [Callers -> BOOLEAN \cup {None}]
    BY <1>1, <1>6 DEF Swap, WriterTypeOK
  <2>4. UNCHANGED << clock, matched, report, hearing, absence_watch, emptySince >>
    BY <1>6 DEF Swap
  <2>5. HeardInv'
    BY <1>1, <2>4 DEF HeardInv
  <2>6. balance' \in Int
    BY <2>2
  <2>7. WriterTypeOK'
    BY <1>1, <2>1, <2>2, <2>3, <2>4, <2>6 DEF WriterTypeOK
  <2>8. ReportsAlternate'
    BY <2>2 DEF ReportsAlternate
  <2> QED BY <2>5, <2>7, <2>8 DEF WriterInv
<1>7. CASE SetListener
  BY <1>1, <1>7 DEF SetListener, WriterInv, WriterTypeOK, HeardInv, ReportsAlternate
<1>8. CASE UNCHANGED writerVars
  BY <1>1, <1>8 DEF writerVars, WriterInv, WriterTypeOK, HeardInv, ReportsAlternate
<1> QED BY <1>2, <1>3, <1>4, <1>5, <1>6, <1>7, <1>8 DEF WriterNext

(* It holds in every state *)
LEMMA IInvHolds == WriterSpec => []WriterInv
BY IInvInit, IInvStep, PTL DEF WriterSpec

(* The writer's watch and the calls on it stay well typed. *)
THEOREM WriterTyped == WriterSpec => []WriterTypeOK
<1>1. WriterInv => WriterTypeOK
  BY DEF WriterInv
<1> QED BY <1>1, IInvHolds, PTL

(* Absences and recoveries are reported alternately, by any number of       *)
(* callers whose verdicts overtake each other.                              *)
THEOREM ReportsOnce == WriterSpec => []ReportsAlternate
<1>1. WriterInv => ReportsAlternate
  BY DEF WriterInv
<1> QED BY <1>1, IInvHolds, PTL

(* A verdict of absence means that no reader has been there for the whole   *)
(* timeout, as long as the watch hears and no callback is under way.        *)
THEOREM VerdictsHold == WriterSpec => VerdictSound
<1> DEFINE
  Sound == \A c \in Callers : hearing /\ report = None /\ call[c] = None =>
    (call'[c] = TRUE => matched = 0 /\ emptySince + Grace <= clock)
<1>1. ASSUME WriterInv, [WriterNext]_writerVars PROVE [Sound]_writerVars
  <2> SUFFICES ASSUME WriterNext, NEW c \in Callers, hearing, report = None,
                      call[c] = None, call'[c] = TRUE
               PROVE  matched = 0 /\ emptySince + Grace <= clock
    BY <1>1
  <2>1. WriterTypeOK /\ HeardInv
    BY <1>1 DEF WriterInv
  <2>2. None # TRUE
    BY WriterWatchAssumption
  <2>3. call' # call
    BY <2>2
  <2>4. ASSUME NEW d \in Callers, Swap(d) PROVE FALSE
    BY <2>1, <2>2, <2>4 DEF Swap, WriterTypeOK
  <2>5. PICK d \in Callers : Judge(d)
    BY <2>3, <2>4 DEF WriterNext, TimePasses, UpdateWatch, SetListener, Match
  <2>6. IsAbsentAt(absence_watch, Grace, clock)
    BY <2>1, <2>2, <2>5 DEF Judge, WriterTypeOK
  <2>7. /\ IsMeasuring(absence_watch) /\ clock - absence_watch.since >= Grace
        /\ absence_watch.since \in Nat /\ clock \in Nat /\ emptySince \in Nat
    BY <2>1, <2>6, Watches, InstantAssumption DEF IsAbsentAt, WriterTypeOK, Instant
  <2>8. matched = 0 /\ emptySince <= absence_watch.since
    BY <2>1, <2>7 DEF HeardInv
  <2> QED BY <2>7, <2>8, WriterWatchAssumption
<1> QED BY <1>1, IInvHolds, PTL DEF WriterSpec, VerdictSound

-----------------------------------------------------------------------------
(* InterfaceDefs *)

(* What is registered for a type, and a call of collect_defs                *)
Entry(t) == << Name(t), Definition(t) >>
AllEntries == { Entry(t) : t \in Types }
Frame == [ type : Types, next : Nat \ {0} ]

(* The calls are a path of fields from the root, whose names differ and are *)
(* not registered                                                           *)
PathInv ==
  /\ stack \in Seq(Frame) /\ visiting \in Seq(Names) /\ Len(visiting) = Len(stack)
  /\ stack # << >> => stack[1].type = Root
  /\ \A i \in 1..Len(stack) :
       /\ stack[i].type \in Reached
       /\ visiting[i] = Name(stack[i].type) /\ ~Registered(visiting[i])
       /\ stack[i].next <= Len(Fields(stack[i].type)) + 1
       /\ \A j \in 1..Len(stack) : visiting[i] = visiting[j] => i = j
  /\ \A i \in 2..Len(stack) :
       /\ stack[i - 1].next <= Len(Fields(stack[i - 1].type))
       /\ Fields(stack[i - 1].type)[stack[i - 1].next] = stack[i].type

(* What a type needs is registered before it is: the fields that a call has *)
(* passed, all fields of a type that is registered, and at last the root    *)
SeenInv ==
  /\ \A i \in 1..Len(stack) : \A k \in 1..stack[i].next - 1 :
       Entry(Fields(stack[i].type)[k]) \in seen_defs
  /\ \A d \in seen_defs : \E t \in Reached :
       /\ d = Entry(t)
       /\ \A k \in 1..Len(Fields(t)) : Entry(Fields(t)[k]) \in seen_defs
  /\ \A d, e \in seen_defs : d[1] = e[1] => d = e
  /\ stack = << >> => Entry(Root) \in seen_defs

(* What is listed is what is registered, and for a .msg what is visited     *)
ListedInv ==
  /\ entries \in Seq(AllEntries)
  /\ \A i, j \in 1..Len(entries) : entries[i][1] = entries[j][1] => i = j
  /\ \A i \in 1..Len(entries) :
       \/ entries[i] \in seen_defs
       \/ registry = "msg" /\ \E j \in 1..Len(stack) : entries[i] = Entry(stack[j].type)
  /\ \A d \in seen_defs : \E i \in 1..Len(entries) : entries[i] = d
  /\ registry = "msg" => \A j \in 1..Len(stack) : \E i \in 1..Len(entries) :
                           entries[i] = Entry(stack[j].type)
  /\ registry = "idl" =>
       \A i \in 1..Len(entries) : \A n \in Refs(entries[i]) :
         \E j \in 1..i - 1 : entries[j][1] = n

(* The outcome and its reason *)
OutcomeInv ==
  /\ program \in Programs /\ registry \in {"idl", "msg"}
  /\ outcome \in {"running", "done", "conflict", "cycle"}
  /\ outcome = "done" <=> stack = << >>
  /\ outcome = "cycle" =>
       \E t, u \in Reached : Name(t) = Name(u) /\ Path(Types, t, u)
  /\ outcome = "conflict" =>
       \E t, u \in Reached :
         Name(t) = Name(u) /\ Definition(t) # Definition(u)

DefsInv == OutcomeInv /\ PathInv /\ SeenInv /\ ListedInv

(* The fields and the name of a type, and what its entry refers to          *)
LEMMA EntryOf ==
  ASSUME program \in Programs, NEW t \in Types
  PROVE  /\ Fields(t) \in Seq(Types) /\ Len(Fields(t)) \in Nat
         /\ DOMAIN Fields(t) = 1..Len(Fields(t))
         /\ \A k \in 1..Len(Fields(t)) : Fields(t)[k] \in Types
         /\ Name(t) \in Names
         /\ Entry(t) \in AllEntries /\ Entry(t)[1] = Name(t) /\ Entry(t)[2] = Definition(t)
         /\ \A n \in Refs(Entry(t)) : \E k \in 1..Len(Fields(t)) : n = Name(Fields(t)[k])
<1>1. program \in [ fields : [Types -> Seq(Types)], name : [Types -> Names],
                    own : [Types -> Texts] ]
  BY ProgramsAssumption
<1>2. Fields(t) \in Seq(Types) /\ Name(t) \in Names
  BY <1>1 DEF Fields, Name
<1>3. /\ Len(Fields(t)) \in Nat /\ DOMAIN Fields(t) = 1..Len(Fields(t))
      /\ \A k \in 1..Len(Fields(t)) : Fields(t)[k] \in Types
  BY <1>2, LenProperties
<1>4. Entry(t) \in AllEntries /\ Entry(t)[1] = Name(t) /\ Entry(t)[2] = Definition(t)
  BY DEF Entry, AllEntries
<1>5. Definition(t)[2] = [i \in 1..Len(Fields(t)) |-> Name(Fields(t)[i])]
  BY <1>3 DEF Definition
<1>6. ASSUME NEW n \in Refs(Entry(t))
      PROVE  \E k \in 1..Len(Fields(t)) : n = Name(Fields(t)[k])
  <2>1. PICK k \in DOMAIN Entry(t)[2][2] : n = Entry(t)[2][2][k]
    BY <1>6 DEF Refs
  <2> QED BY <1>4, <1>5, <2>1
<1> QED BY <1>2, <1>3, <1>4, <1>6

(* Names on a path differ, so it is no longer than there are types.         *)
LEMMA ShortPath ==
  ASSUME OutcomeInv, PathInv PROVE Len(stack) <= Cardinality(Types)
<1> DEFINE f == [i \in 1..Len(stack) |-> stack[i].type]
<1>1. Len(stack) \in Nat /\ \A i \in 1..Len(stack) : stack[i] \in Frame
  BY LenProperties DEF PathInv
<1>2. f \in [1..Len(stack) -> Types]
  BY <1>1 DEF Frame
<1>3. \A i, j \in 1..Len(stack) : f[i] = f[j] => i = j
  BY DEF PathInv
<1>4. Cardinality(1..Len(stack)) = Len(stack) /\ IsFiniteSet(1..Len(stack))
  BY <1>1, CountTo
<1>5. Cardinality(Types) \in Nat
  BY ProgramsAssumption, FS_CardinalityType
<1>6. ~(Cardinality(Types) < Cardinality(1..Len(stack)))
  <2> HIDE DEF f
  <2>1. ASSUME Cardinality(Types) < Cardinality(1..Len(stack)) PROVE FALSE
    <3>1. \E x, y \in 1..Len(stack) : x # y /\ f[x] = f[y]
      BY <1>2, <1>4, <2>1, ProgramsAssumption, FS_PigeonHole
    <3> QED BY <3>1, <1>3
  <2> QED BY <2>1
<1> QED BY <1>1, <1>4, <1>5, <1>6

(* A field of the last call is reached from every call. *)
LEMMA OnTheWay ==
  ASSUME OutcomeInv, PathInv, stack # << >>, Top.next <= Len(Fields(Top.type)),
         NEW i \in 1..Len(stack)
  PROVE  Path(Types, stack[i].type, NextField)
<1> DEFINE n == Len(stack) - i + 1
           p == [m \in 0..n |-> IF m = n THEN NextField ELSE stack[i + m].type]
<1>1. /\ Len(stack) \in Nat /\ Len(stack) > 0
      /\ \A j \in 1..Len(stack) : stack[j] \in Frame
  BY LenProperties, EmptySeq DEF PathInv
<1>2. \A j \in 1..Len(stack) : stack[j].type \in Types /\ stack[j].next \in Nat \ {0}
  BY <1>1 DEF Frame
<1>3. n \in 1..Cardinality(Types)
  BY <1>1, ShortPath, ProgramsAssumption, FS_CardinalityType
<1>4. \A j \in 1..Len(stack) : /\ DOMAIN Fields(stack[j].type) = 1..Len(Fields(stack[j].type))
                               /\ Len(Fields(stack[j].type)) \in Nat
                               /\ \A k \in 1..Len(Fields(stack[j].type)) : Fields(stack[j].type)[k] \in Types
  BY <1>2, EntryOf DEF OutcomeInv
<1>5. Top = stack[Len(stack)] /\ NextField = Fields(Top.type)[Top.next]
      /\ Top.next \in 1..Len(Fields(Top.type)) /\ NextField \in Types
  BY <1>1, <1>2, <1>4 DEF Top, NextField
<1>6. p \in [0..n -> Types]
  BY <1>1, <1>2, <1>5
<1>7. p[0] = stack[i].type /\ p[n] = NextField
  BY <1>1, <1>3
<1>8. ASSUME NEW m \in 1..n
      PROVE  p[m - 1] \in Types /\ \E k \in DOMAIN Fields(p[m - 1]) : Fields(p[m - 1])[k] = p[m]
  <2> DEFINE j == i + m - 1
  <2>1. j \in 1..Len(stack) /\ m \in Nat /\ m - 1 \in 0..n /\ m - 1 # n /\ i + (m - 1) = j
    BY <1>1
  <2>2. p[m - 1] = stack[j].type
    BY <2>1
  <2>3. CASE m = n
    <3>1. j = Len(stack)
      BY <1>1, <2>3
    <3> QED BY <1>2, <1>4, <1>5, <1>7, <2>1, <2>2, <2>3, <3>1
  <2>4. CASE m # n
    <3>1. j + 1 \in 2..Len(stack) /\ i + m = j + 1 /\ m \in 0..n /\ (j + 1) - 1 = j
      BY <1>1, <2>1, <2>4
    <3>2. p[m] = stack[j + 1].type
      BY <2>4, <3>1
    <3>3. stack[j].next <= Len(Fields(stack[j].type))
          /\ Fields(stack[j].type)[stack[j].next] = stack[j + 1].type
      BY <3>1 DEF PathInv
    <3>4. stack[j].next \in DOMAIN Fields(stack[j].type)
      <4>1. stack[j].next \in Nat \ {0} /\ Len(Fields(stack[j].type)) \in Nat
            /\ DOMAIN Fields(stack[j].type) = 1..Len(Fields(stack[j].type))
        BY <1>2, <1>4, <2>1
      <4> HIDE DEF j
      <4> QED BY <3>3, <4>1
    <3> HIDE DEF p
    <3> QED BY <1>2, <2>1, <2>2, <3>2, <3>3, <3>4
  <2> QED BY <2>3, <2>4
<1> HIDE DEF p, n
<1> QED BY <1>3, <1>6, <1>7, <1>8 DEF Path

(* It is reached from the root. *)
LEMMA NextReached ==
  ASSUME OutcomeInv, PathInv, InFields
  PROVE  /\ Len(stack) \in Nat /\ Len(stack) \in 1..Len(stack)
         /\ Top = stack[Len(stack)] /\ Top \in Frame
         /\ Top.next \in 1..Len(Fields(Top.type))
         /\ NextField \in Types /\ NextField \in Reached
         /\ NextField = Fields(Top.type)[Top.next]
<1>1. Len(stack) \in Nat /\ Len(stack) \in 1..Len(stack) /\ stack[Len(stack)] \in Frame
  BY LenProperties, EmptySeq DEF PathInv, InFields
<1>2. Top = stack[Len(stack)] /\ Top.type \in Types /\ Top.next \in Nat \ {0}
  BY <1>1 DEF Top, Frame
<1>3. Top.next \in 1..Len(Fields(Top.type)) /\ NextField \in Types
  BY <1>2, EntryOf DEF OutcomeInv, InFields, NextField
<1>4. NextField \in Reached
  <2>1. Path(Types, stack[1].type, NextField)
    BY <1>1, OnTheWay DEF InFields
  <2> QED BY <1>3, <2>1 DEF PathInv, Reached, InFields
<1> QED BY <1>1, <1>2, <1>3, <1>4 DEF NextField

(* The program stays as it is, and what is reached with it. *)
LEMMA SameProgram ==
  ASSUME program' = program
  PROVE  /\ Reached' = Reached
         /\ \A t, u : Path(Types, t, u)' <=> Path(Types, t, u)
         /\ \A t : Fields(t)' = Fields(t) /\ Name(t)' = Name(t)
                   /\ Definition(t)' = Definition(t) /\ Entry(t)' = Entry(t)
         /\ AllEntries' = AllEntries
<1>1. \A t : Fields(t)' = Fields(t) /\ Name(t)' = Name(t)
  BY DEF Fields, Name
<1>2. \A t : Definition(t)' = Definition(t)
  BY DEF Definition, Fields, Name
<1>3. \A t : Entry(t)' = Entry(t)
  BY <1>1, <1>2 DEF Entry
<1>4. \A t, u : Path(Types, t, u)' <=> Path(Types, t, u)
  BY DEF Path, Fields
<1>5. Reached' = Reached
  BY <1>4 DEF Reached
<1> QED BY <1>1, <1>2, <1>3, <1>4, <1>5 DEF AllEntries

(* DefsInv holds of a new registry. *)
LEMMA DefsInvInit == DefsInit => DefsInv
<1> SUFFICES ASSUME DefsInit PROVE DefsInv
  OBVIOUS
<1> DEFINE frame == [type |-> Root, next |-> 1]
<1>1. Root \in Types /\ program \in Programs
  BY ProgramsAssumption DEF DefsInit
<1>2. frame \in Frame /\ Root \in Reached /\ frame.type = Root /\ frame.next = 1
  BY <1>1 DEF Frame, Reached
<1> HIDE DEF frame
<1>3. stack = << frame >> /\ stack \in Seq(Frame) /\ Len(stack) = 1 /\ stack[1] = frame /\ stack # << >>
  BY <1>2 DEF DefsInit, frame
<1>4. visiting \in Seq(Names) /\ Len(visiting) = 1 /\ visiting[1] = Name(Root)
  BY <1>1, EntryOf DEF DefsInit
<1>5. OutcomeInv
  BY <1>3 DEF DefsInit, OutcomeInv
<1>6. PathInv
  BY <1>1, <1>2, <1>3, <1>4, EntryOf DEF PathInv, Registered, DefsInit
<1>7. SeenInv
  BY <1>2, <1>3 DEF SeenInv, DefsInit
<1>8. ListedInv
  <2>1. CASE registry = "msg"
    <3>1. entries = << Entry(Root) >>
      BY <2>1 DEF DefsInit, Entry
    <3>2. entries \in Seq(AllEntries) /\ Len(entries) = 1 /\ entries[1] = Entry(Root)
      BY <1>1, <3>1, EntryOf
    <3> QED BY <1>2, <1>3, <2>1, <3>2 DEF ListedInv, DefsInit
  <2>2. CASE registry = "idl"
    <3>1. entries \in Seq(AllEntries) /\ Len(entries) = 0
      BY <2>2 DEF DefsInit
    <3> QED BY <3>1, <2>2 DEF ListedInv, DefsInit
  <2> QED BY <2>1, <2>2 DEF DefsInit
<1> QED BY <1>5, <1>6, <1>7, <1>8 DEF DefsInv

(* A call passes a field *)
LEMMA PassField ==
  ASSUME NEW s \in Seq(Frame), s # << >>
  PROVE  LET a == [s EXCEPT ![Len(s)].next = @ + 1] IN
         /\ a \in Seq(Frame) /\ a # << >> /\ Len(a) = Len(s) /\ Len(s) \in Nat /\ Len(s) > 0
         /\ \A i \in 1..Len(s) : /\ a[i].type = s[i].type
                                 /\ a[i].next = IF i = Len(s) THEN s[i].next + 1 ELSE s[i].next
<1> DEFINE n == Len(s)
           e == [s[n] EXCEPT !.next = @ + 1]
           a == [s EXCEPT ![n] = e]
<1>1. n \in Nat /\ n \in 1..n /\ n > 0 /\ \A i \in 1..n : s[i] \in Frame
  BY LenProperties, EmptySeq
<1>2. s[n] \in Frame
  BY <1>1
<1>3. e \in Frame /\ e.type = s[n].type /\ e.next = s[n].next + 1
  BY <1>2 DEF Frame
<1> HIDE DEF e
<1>4. a \in Seq(Frame) /\ Len(a) = n /\ \A j \in 1..n : a[j] = IF j = n THEN e ELSE s[j]
  BY <1>1, <1>3, ExceptSeq
<1>5. a # << >>
  BY <1>1, <1>4
<1>6. a = [s EXCEPT ![Len(s)].next = @ + 1]
  BY DEF e
<1> HIDE DEF a
<1>7. \A i \in 1..n : /\ a[i].type = s[i].type
                      /\ a[i].next = IF i = n THEN s[i].next + 1 ELSE s[i].next
  BY <1>1, <1>3, <1>4
<1> QED BY <1>1, <1>4, <1>5, <1>6, <1>7

(* A panic leaves everything else as it is. *)
LEMMA PanicStays ==
  ASSUME OutcomeInv, PathInv, SeenInv, ListedInv,
         UNCHANGED << program, registry, stack, visiting, seen_defs, entries >>
  PROVE  PathInv' /\ SeenInv' /\ ListedInv'
<1>1. \A name : Registered(name)' <=> Registered(name)
  BY DEF Registered
<1>2. PathInv'
  BY <1>1, SameProgram DEF PathInv
<1>3. SeenInv'
  BY SameProgram DEF SeenInv
<1>4. ListedInv'
  BY SameProgram DEF ListedInv, Refs
<1> QED BY <1>2, <1>3, <1>4

(* A name that is registered is passed over, or was the name of another     *)
(* type that was reached.                                                   *)
LEMMA EnterKnownStep == ASSUME DefsInv, EnterKnown PROVE DefsInv'
<1> DEFINE n == Len(stack)
<1>0. OutcomeInv /\ PathInv /\ SeenInv /\ ListedInv /\ InFields /\ stack \in Seq(Frame)
      /\ stack # << >> /\ outcome = "running"
  BY DEF DefsInv, EnterKnown, InFields, PathInv
<1>1. /\ n \in Nat /\ n \in 1..n /\ Top = stack[n] /\ Top \in Frame
      /\ Top.next \in 1..Len(Fields(Top.type)) /\ NextField \in Types
      /\ NextField \in Reached /\ NextField = Fields(Top.type)[Top.next]
  BY <1>0, NextReached
<1>2. CASE Entry(NextField) \in seen_defs
  <2>1. stack' = Advanced
        /\ UNCHANGED << program, registry, visiting, seen_defs, entries, outcome >>
    BY <1>2 DEF EnterKnown, Entry
  <2>2. /\ stack' \in Seq(Frame) /\ stack' # << >> /\ Len(stack') = n
        /\ \A i \in 1..n : /\ stack'[i].type = stack[i].type
                           /\ stack'[i].next = IF i = n THEN stack[i].next + 1 ELSE stack[i].next
    BY <1>0, <2>1, PassField DEF Advanced
  <2>3. \A name : Registered(name)' <=> Registered(name)
    BY <2>1 DEF Registered
  <2>4. \A i \in 1..n : stack[i].type \in Types /\ stack[i].next \in Nat \ {0}
    <3>1. \A i \in 1..n : stack[i] \in Frame
      BY <1>0, LenProperties
    <3> QED BY <3>1 DEF Frame
  <2>5. \A i \in 1..n : Len(Fields(stack[i].type)) \in Nat
    BY <1>0, <2>4, EntryOf DEF OutcomeInv
  <2>6. PathInv'
    <3>1. ASSUME NEW i \in 2..n
          PROVE  /\ stack'[i - 1].next <= Len(Fields(stack'[i - 1].type))
                 /\ Fields(stack'[i - 1].type)[stack'[i - 1].next] = stack'[i].type
      <4>1. i - 1 \in 1..n /\ i - 1 # n /\ i \in 1..n
        BY <1>1
      <4>2. stack'[i - 1].type = stack[i - 1].type /\ stack'[i - 1].next = stack[i - 1].next
            /\ stack'[i].type = stack[i].type
        BY <2>2, <4>1
      <4> QED BY <1>0, <4>2 DEF PathInv
    <3>2. ASSUME NEW i \in 1..n
          PROVE  stack'[i].next <= Len(Fields(stack'[i].type)) + 1
      <4>1. stack[i].next <= Len(Fields(stack[i].type)) + 1
        BY <1>0 DEF PathInv
      <4> QED BY <1>1, <2>2, <2>4, <2>5, <4>1
    <3>3. ASSUME NEW i \in 1..n
          PROVE  /\ stack'[i].type \in Reached
                 /\ visiting[i] = Name(stack'[i].type) /\ ~Registered(visiting[i])
                 /\ \A j \in 1..n : visiting[i] = visiting[j] => i = j
      BY <1>0, <2>2 DEF PathInv
    <3>4. stack'[1].type = Root
      BY <1>0, <1>1, <2>2 DEF PathInv
    <3>5. visiting \in Seq(Names) /\ Len(visiting) = n
      BY <1>0 DEF PathInv
    <3>6. \A t : Fields(t)' = Fields(t) /\ Name(t)' = Name(t)
      BY <2>1, SameProgram
    <3>7. Reached' = Reached /\ Len(stack') = n /\ visiting' = visiting
      BY <2>1, <2>2, SameProgram
    <3> HIDE DEF n
    <3>8. \A i \in 1..Len(stack') :
            /\ stack'[i].type \in Reached'
            /\ visiting'[i] = Name(stack[i].type)' /\ ~Registered(visiting[i])'
            /\ stack'[i].next <= Len(Fields(stack[i].type)') + 1
            /\ \A j \in 1..Len(stack') : visiting'[i] = visiting'[j] => i = j
      <4>1. ASSUME NEW i \in 1..n
            PROVE  /\ visiting'[i] = Name(stack[i].type)'
                   /\ stack'[i].next <= Len(Fields(stack[i].type)') + 1
        BY <3>2, <3>3, <3>6, <3>7
      <4>2. ASSUME NEW i \in 1..n PROVE ~Registered(visiting[i])'
        BY <2>1, <3>3 DEF Registered
      <4> QED BY <3>3, <3>7, <4>1, <4>2
    <3>9. \A i \in 2..Len(stack') :
            /\ stack'[i - 1].next <= Len(Fields(stack[i - 1].type)')
            /\ Fields(stack[i - 1].type)'[stack'[i - 1].next] = stack'[i].type
      BY <3>1, <3>6, <3>7
    <3> QED BY <2>2, <3>4, <3>5, <3>7, <3>8, <3>9 DEF PathInv
  <2>7. SeenInv'
    <3>1. ASSUME NEW i \in 1..n, NEW k \in 1..stack'[i].next - 1
          PROVE  Entry(Fields(stack'[i].type)[k]) \in seen_defs
      <4>1. CASE k <= stack[i].next - 1
        <5>1. k \in 1..stack[i].next - 1
          BY <2>4, <4>1
        <5> QED BY <1>0, <2>2, <5>1 DEF SeenInv
      <4>2. CASE ~(k <= stack[i].next - 1)
        <5>1. i = n /\ k = stack[i].next
          BY <2>2, <2>4, <4>2
        <5> QED BY <1>1, <1>2, <2>2, <5>1
      <4> QED BY <4>1, <4>2
    <3> QED BY <1>0, <2>1, <2>2, <3>1, SameProgram DEF SeenInv
  <2>8. ListedInv'
    <3>1. \A S : (\E j \in 1..n : S = Entry(stack[j].type)) => \E j \in 1..n : S = Entry(stack'[j].type)
      BY <2>2
    <3> QED BY <1>0, <2>1, <2>2, <3>1, SameProgram DEF ListedInv, Refs
  <2>9. OutcomeInv'
    BY <1>0, <2>1, <2>2 DEF OutcomeInv
  <2> QED BY <2>6, <2>7, <2>8, <2>9 DEF DefsInv
<1>3. CASE Entry(NextField) \notin seen_defs
  <2>1. Panics("conflict")
    BY <1>3 DEF EnterKnown, Entry
  <2>2. outcome' = "conflict"
        /\ UNCHANGED << program, registry, stack, visiting, seen_defs, entries >>
    BY <2>1 DEF Panics
  <2>3. PICK d \in seen_defs : d[1] = Name(NextField)
    BY DEF EnterKnown, Registered
  <2>4. PICK t \in Reached : d = Entry(t)
    BY <1>0 DEF SeenInv
  <2>5. Name(t) = Name(NextField)
    BY <2>3, <2>4 DEF Entry
  <2>6. Definition(t) # Definition(NextField)
    BY <1>3, <2>4, <2>5 DEF Entry
  <2>7. \E r, u \in Reached' : Name(r)' = Name(u)' /\ Definition(r)' # Definition(u)'
    BY <1>1, <2>2, <2>5, <2>6, SameProgram
  <2>8. OutcomeInv'
    BY <1>0, <2>2, <2>7 DEF OutcomeInv
  <2> QED BY <1>0, <2>2, <2>8, PanicStays DEF DefsInv
<1> QED BY <1>2, <1>3

(* A name on the path is that of a type that needs itself. *)
LEMMA EnterVisitedStep == ASSUME DefsInv, EnterVisited PROVE DefsInv'
<1>0. OutcomeInv /\ PathInv /\ SeenInv /\ ListedInv /\ InFields /\ outcome = "running"
      /\ stack # << >> /\ Top.next <= Len(Fields(Top.type))
  BY DEF DefsInv, EnterVisited, InFields
<1>1. outcome' = "cycle"
      /\ UNCHANGED << program, registry, stack, visiting, seen_defs, entries >>
  BY DEF EnterVisited, Panics
<1>2. PICK i \in DOMAIN visiting : visiting[i] = Name(NextField)
  BY DEF EnterVisited, OnPath
<1>3. i \in 1..Len(stack)
  BY <1>0, LenProperties DEF PathInv
<1>4. stack[i].type \in Reached /\ Name(stack[i].type) = Name(NextField)
  BY <1>0, <1>2, <1>3 DEF PathInv
<1>5. Path(Types, stack[i].type, NextField)
  BY <1>0, <1>3, OnTheWay
<1>6. NextField \in Reached
  BY <1>0, NextReached
<1>7. \E t, u \in Reached' : Name(t)' = Name(u)' /\ Path(Types, t, u)'
  BY <1>1, <1>4, <1>5, <1>6, SameProgram
<1>8. OutcomeInv'
  BY <1>0, <1>1, <1>7 DEF OutcomeInv
<1> QED BY <1>0, <1>1, <1>8, PanicStays DEF DefsInv

(* A name that is new goes on the path. *)
LEMMA EnterNewStep == ASSUME DefsInv, EnterNew PROVE DefsInv'
<1> DEFINE n == Len(stack)
           frame == [type |-> NextField, next |-> 1]
<1>0. OutcomeInv /\ PathInv /\ SeenInv /\ ListedInv /\ InFields /\ stack \in Seq(Frame)
      /\ stack # << >> /\ outcome = "running"
      /\ visiting \in Seq(Names) /\ Len(visiting) = n
  BY DEF DefsInv, EnterNew, InFields, PathInv
<1>1. /\ n \in Nat /\ n \in 1..n /\ Top = stack[n] /\ Top \in Frame
      /\ Top.next \in 1..Len(Fields(Top.type)) /\ NextField \in Types
      /\ NextField \in Reached /\ NextField = Fields(Top.type)[Top.next]
  BY <1>0, NextReached
<1>2. /\ stack' = Append(stack, frame) /\ visiting' = Append(visiting, Name(NextField))
      /\ UNCHANGED << program, registry, seen_defs, outcome >>
      /\ entries' = IF registry = "msg" THEN Append(entries, Entry(NextField)) ELSE entries
      /\ ~Registered(Name(NextField)) /\ ~OnPath(Name(NextField))
  BY DEF EnterNew, Entry
<1>3. frame \in Frame /\ frame.type = NextField /\ frame.next = 1
  BY <1>1 DEF Frame
<1>4. Name(NextField) \in Names /\ Entry(NextField) \in AllEntries
      /\ Entry(NextField)[1] = Name(NextField) /\ Len(Fields(NextField)) \in Nat
  BY <1>0, <1>1, EntryOf DEF OutcomeInv
<1> HIDE DEF frame
<1>5. /\ stack' \in Seq(Frame) /\ stack' # << >> /\ Len(stack') = n + 1
      /\ \A i \in 1..n : stack'[i] = stack[i]
      /\ stack'[n + 1] = frame
  BY <1>0, <1>2, <1>3, AppendProperties
<1>6. /\ visiting' \in Seq(Names) /\ Len(visiting') = n + 1
      /\ \A i \in 1..n : visiting'[i] = visiting[i]
      /\ visiting'[n + 1] = Name(NextField)
  BY <1>0, <1>2, <1>4, AppendProperties
<1>7. \A name : Registered(name)' <=> Registered(name)
  BY <1>2 DEF Registered
<1>8. \A i \in 1..n : visiting[i] # Name(NextField)
  BY <1>0, <1>2, LenProperties DEF OnPath
<1>9. \A i \in 1..n : /\ stack[i].type \in Reached
                      /\ visiting[i] = Name(stack[i].type) /\ ~Registered(visiting[i])
                      /\ stack[i].next <= Len(Fields(stack[i].type)) + 1
                      /\ \A j \in 1..n : visiting[i] = visiting[j] => i = j
  BY <1>0 DEF PathInv
<1>10. PathInv'
  <2>1. ASSUME NEW i \in 1..n + 1
        PROVE  /\ stack'[i].type \in Reached
               /\ visiting'[i] = Name(stack'[i].type) /\ ~Registered(visiting'[i])
               /\ stack'[i].next <= Len(Fields(stack'[i].type)) + 1
               /\ \A j \in 1..n + 1 : visiting'[i] = visiting'[j] => i = j
    <3>1. CASE i = n + 1
      BY <1>1, <1>2, <1>3, <1>4, <1>5, <1>6, <1>8, <3>1
    <3>2. CASE i # n + 1
      <4>1. i \in 1..n
        BY <1>1, <3>2
      <4>2. ASSUME NEW j \in 1..n + 1, visiting'[i] = visiting'[j] PROVE i = j
        <5>1. j \in 1..n
          BY <1>1, <1>6, <1>8, <4>1, <4>2
        <5> QED BY <1>6, <1>9, <4>1, <4>2, <5>1
      <4> QED BY <1>5, <1>6, <1>9, <4>1, <4>2
    <3> QED BY <3>1, <3>2
  <2>2. ASSUME NEW i \in 2..n + 1
        PROVE  /\ stack'[i - 1].next <= Len(Fields(stack'[i - 1].type))
               /\ Fields(stack'[i - 1].type)[stack'[i - 1].next] = stack'[i].type
    <3>1. CASE i = n + 1
      <4>1. i - 1 = n
        BY <1>1, <3>1
      <4> QED BY <1>1, <1>3, <1>5, <3>1, <4>1
    <3>2. CASE i # n + 1
      <4>1. i \in 2..n /\ i - 1 \in 1..n /\ i \in 1..n
        BY <1>1, <3>2
      <4>2. stack'[i - 1] = stack[i - 1] /\ stack'[i] = stack[i]
        BY <1>5, <4>1
      <4> QED BY <1>0, <4>1, <4>2 DEF PathInv
    <3> QED BY <3>1, <3>2
  <2>3. stack'[1].type = Root
    BY <1>0, <1>1, <1>5 DEF PathInv
  <2>4. \A t : Fields(t)' = Fields(t) /\ Name(t)' = Name(t)
    BY <1>2, SameProgram
  <2>5. Reached' = Reached /\ Len(stack') = n + 1 /\ Len(visiting') = n + 1
    BY <1>2, <1>5, <1>6, SameProgram
  <2> HIDE DEF n
  <2>6. \A i \in 1..Len(stack') :
          /\ stack'[i].type \in Reached'
          /\ visiting'[i] = Name(stack[i].type)' /\ ~Registered(visiting[i])'
          /\ stack'[i].next <= Len(Fields(stack[i].type)') + 1
          /\ \A j \in 1..Len(stack') : visiting'[i] = visiting'[j] => i = j
    <3>1. ASSUME NEW i \in 1..n + 1
          PROVE  /\ visiting'[i] = Name(stack[i].type)'
                 /\ stack'[i].next <= Len(Fields(stack[i].type)') + 1
      BY <2>1, <2>4
    <3>2. ASSUME NEW i \in 1..n + 1 PROVE ~Registered(visiting[i])'
      BY <1>2, <2>1 DEF Registered
    <3> QED BY <2>1, <2>5, <3>1, <3>2
  <2>7. \A i \in 2..Len(stack') :
          /\ stack'[i - 1].next <= Len(Fields(stack[i - 1].type)')
          /\ Fields(stack[i - 1].type)'[stack'[i - 1].next] = stack'[i].type
    BY <2>2, <2>4, <2>5
  <2> QED BY <1>5, <1>6, <2>3, <2>5, <2>6, <2>7 DEF PathInv
<1>11. SeenInv'
  <2>1. ASSUME NEW i \in 1..n + 1, NEW k \in 1..stack'[i].next - 1
        PROVE  Entry(Fields(stack'[i].type)[k]) \in seen_defs
    <3>1. CASE i = n + 1
      BY <1>3, <1>5, <2>1, <3>1
    <3>2. CASE i # n + 1
      <4>1. i \in 1..n
        BY <1>1, <3>2
      <4> QED BY <1>0, <1>5, <2>1, <4>1 DEF SeenInv
    <3> QED BY <3>1, <3>2
  <2>2. \A r : Fields(r)' = Fields(r) /\ Entry(r)' = Entry(r)
    BY <1>2, SameProgram
  <2>3. Reached' = Reached /\ Len(stack') = n + 1 /\ seen_defs' = seen_defs
    BY <1>2, <1>5, SameProgram
  <2>4. \A i \in 1..Len(stack') : \A k \in 1..stack'[i].next - 1 :
          Entry(Fields(stack[i].type)[k])' \in seen_defs'
    BY <2>1, <2>2, <2>3
  <2> QED BY <1>0, <1>5, <2>2, <2>3, <2>4 DEF SeenInv
<1>12. ListedInv'
  <2>0. \A e : (\E j \in 1..n : e = Entry(stack[j].type))
               => \E j \in 1..n + 1 : e = Entry(stack'[j].type)
    BY <1>1, <1>5
  <2>1. CASE registry = "idl"
    <3>1. entries' = entries /\ registry' = "idl" /\ seen_defs' = seen_defs
          /\ AllEntries' = AllEntries
      BY <1>2, <2>1, SameProgram
    <3>2. \A i \in 1..Len(entries) : entries[i] \in seen_defs
      BY <1>0, <2>1 DEF ListedInv
    <3>3. /\ entries \in Seq(AllEntries)
          /\ \A i, j \in 1..Len(entries) : entries[i][1] = entries[j][1] => i = j
          /\ \A d \in seen_defs : \E i \in 1..Len(entries) : entries[i] = d
      BY <1>0 DEF ListedInv
    <3>4. \A i \in 1..Len(entries) : \A q \in Refs(entries[i]) :
            \E j \in 1..i - 1 : entries[j][1] = q
      BY <1>0, <2>1 DEF ListedInv
    <3>5. \A i : Refs(entries[i])' = Refs(entries[i])
      BY <3>1 DEF Refs
    <3>6. registry' # "msg"
      BY <3>1
    <3>7. \A i \in 1..Len(entries') : \A q \in Refs(entries[i])' :
            \E j \in 1..i - 1 : entries'[j][1] = q
      BY <3>1, <3>4, <3>5
    <3>8. \A i \in 1..Len(entries') : entries'[i] \in seen_defs'
      BY <3>1, <3>2
    <3>9. \A d \in seen_defs' : \E i \in 1..Len(entries') : entries'[i] = d
      BY <3>1, <3>3
    <3>10. \A i, j \in 1..Len(entries') : entries'[i][1] = entries'[j][1] => i = j
      BY <3>1, <3>3
    <3> QED BY <3>1, <3>3, <3>6, <3>7, <3>8, <3>9, <3>10 DEF ListedInv
  <2>2. CASE registry = "msg"
    <3> DEFINE m == Len(entries)
    <3>1. entries \in Seq(AllEntries) /\ m \in Nat
      BY <1>0, LenProperties DEF ListedInv
    <3>2. /\ entries' \in Seq(AllEntries) /\ Len(entries') = m + 1
          /\ \A i \in 1..m : entries'[i] = entries[i]
          /\ entries'[m + 1] = Entry(NextField)
      BY <1>2, <1>4, <2>2, <3>1, AppendProperties
    <3>3. ASSUME NEW i \in 1..m PROVE entries[i][1] # Name(NextField)
      <4>1. CASE entries[i] \in seen_defs
        BY <1>2, <4>1 DEF Registered
      <4>2. CASE \E j \in 1..n : entries[i] = Entry(stack[j].type)
        <5>1. PICK j \in 1..n : entries[i] = Entry(stack[j].type)
          BY <4>2
        <5>2. entries[i][1] = visiting[j]
          BY <1>9, <5>1 DEF Entry
        <5> QED BY <1>8, <5>2
      <4> QED BY <1>0, <4>1, <4>2 DEF ListedInv
    <3>4. ASSUME NEW i \in 1..m + 1, NEW j \in 1..m + 1, entries'[i][1] = entries'[j][1]
          PROVE  i = j
      <4>1. CASE i \in 1..m /\ j \in 1..m
        BY <1>0, <3>2, <3>4, <4>1 DEF ListedInv
      <4>2. CASE i \notin 1..m
        <5>1. i = m + 1 /\ entries'[i][1] = Name(NextField)
          BY <1>4, <3>1, <3>2, <4>2
        <5>2. j \notin 1..m
          BY <3>2, <3>3, <3>4, <5>1
        <5> QED BY <3>1, <5>1, <5>2
      <4>3. CASE j \notin 1..m
        <5>1. j = m + 1 /\ entries'[j][1] = Name(NextField)
          BY <1>4, <3>1, <3>2, <4>3
        <5>2. i \notin 1..m
          BY <3>2, <3>3, <3>4, <5>1
        <5> QED BY <3>1, <5>1, <5>2
      <4> QED BY <4>1, <4>2, <4>3
    <3>5. ASSUME NEW i \in 1..m + 1
          PROVE  entries'[i] \in seen_defs \/ \E j \in 1..n + 1 : entries'[i] = Entry(stack'[j].type)
      <4>1. CASE i = m + 1
        BY <1>1, <1>3, <1>5, <3>2, <4>1
      <4>2. CASE i # m + 1
        <5>1. i \in 1..m
          BY <3>1, <4>2
        <5>2. entries[i] \in seen_defs \/ \E j \in 1..n : entries[i] = Entry(stack[j].type)
          BY <1>0, <5>1 DEF ListedInv
        <5> QED BY <2>0, <3>2, <5>1, <5>2
      <4> QED BY <4>1, <4>2
    <3>6. ASSUME NEW d \in seen_defs PROVE \E i \in 1..m + 1 : entries'[i] = d
      <4>1. PICK i \in 1..m : entries[i] = d
        BY <1>0 DEF ListedInv
      <4> QED BY <3>1, <3>2, <4>1
    <3>7. ASSUME NEW j \in 1..n + 1 PROVE \E i \in 1..m + 1 : entries'[i] = Entry(stack'[j].type)
      <4>1. CASE j = n + 1
        <5>1. m + 1 \in 1..m + 1 /\ entries'[m + 1] = Entry(stack'[j].type)
          BY <1>3, <1>5, <3>1, <3>2, <4>1
        <5> QED BY <5>1
      <4>2. CASE j # n + 1
        <5>1. j \in 1..n
          BY <1>1, <4>2
        <5>2. PICK i \in 1..m : entries[i] = Entry(stack[j].type)
          BY <1>0, <2>2, <5>1 DEF ListedInv
        <5>3. i \in 1..m + 1 /\ entries'[i] = Entry(stack'[j].type)
          BY <1>5, <3>1, <3>2, <5>1, <5>2
        <5> QED BY <5>3
      <4> QED BY <4>1, <4>2
    <3>8. /\ entries' \in Seq(AllEntries') /\ Len(entries') = m + 1 /\ Len(stack') = n + 1
          /\ seen_defs' = seen_defs /\ registry' = "msg" /\ \A r : Entry(r)' = Entry(r)
      BY <1>2, <1>5, <2>2, <3>2, SameProgram
    <3>9. \A j \in 1..n + 1 : Entry(stack[j].type)' = Entry(stack'[j].type)
      BY <3>8
    <3> HIDE DEF m, n
    <3> QED BY <3>4, <3>5, <3>6, <3>7, <3>8, <3>9 DEF ListedInv
  <2> QED BY <1>0, <2>1, <2>2 DEF OutcomeInv
<1>13. OutcomeInv'
  BY <1>0, <1>2, <1>5 DEF OutcomeInv
<1> QED BY <1>10, <1>11, <1>12, <1>13 DEF DefsInv

(* A type whose fields are all passed is registered, and the call of the    *)
(* type that has it goes on.                                                *)
LEMMA FinishStep == ASSUME DefsInv, Finish PROVE DefsInv'
<1> DEFINE n == Len(stack)
           t == Top.type
<1>0. OutcomeInv /\ PathInv /\ SeenInv /\ ListedInv /\ stack \in Seq(Frame)
      /\ stack # << >> /\ outcome = "running" /\ Top.next > Len(Fields(t))
      /\ visiting \in Seq(Names) /\ Len(visiting) = n
  BY DEF DefsInv, Finish, PathInv
<1>1. /\ n \in Nat /\ n \in 1..n /\ n > 0 /\ Top = stack[n]
      /\ \A i \in 1..n : stack[i] \in Frame
  BY <1>0, LenProperties, EmptySeq DEF Top
<1>2. \A i \in 1..n : stack[i].type \in Types /\ stack[i].next \in Nat \ {0}
                      /\ Len(Fields(stack[i].type)) \in Nat
  <2>1. \A i \in 1..n : stack[i].type \in Types /\ stack[i].next \in Nat \ {0}
    BY <1>1 DEF Frame
  <2> QED BY <1>0, <2>1, EntryOf DEF OutcomeInv
<1>3. \A i \in 1..n : /\ stack[i].type \in Reached
                      /\ visiting[i] = Name(stack[i].type) /\ ~Registered(visiting[i])
                      /\ stack[i].next <= Len(Fields(stack[i].type)) + 1
                      /\ \A j \in 1..n : visiting[i] = visiting[j] => i = j
  BY <1>0 DEF PathInv
<1>4. t = stack[n].type /\ t \in Types /\ t \in Reached /\ visiting[n] = Name(t)
      /\ ~Registered(Name(t)) /\ Len(Fields(t)) \in Nat
  BY <1>1, <1>2, <1>3
<1>5. Entry(t) \in AllEntries /\ Entry(t)[1] = Name(t)
      /\ \A q \in Refs(Entry(t)) : \E k \in 1..Len(Fields(t)) : q = Name(Fields(t)[k])
  BY <1>0, <1>4, EntryOf DEF OutcomeInv
<1>6. visiting # << >> /\ visiting[Len(visiting)] = Name(Top.type)
  BY <1>0, <1>1, <1>4
<1>7. /\ visiting' = SubSeq(visiting, 1, n - 1)
      /\ seen_defs' = seen_defs \cup {Entry(t)}
      /\ entries' = IF registry = "idl" THEN Append(entries, Entry(t)) ELSE entries
      /\ stack' = IF n = 1 THEN << >> ELSE [Under EXCEPT ![Len(Under)].next = @ + 1]
      /\ outcome' = IF n = 1 THEN "done" ELSE outcome
      /\ UNCHANGED << program, registry >>
  BY <1>0, <1>6 DEF Finish, Entry
<1>8. /\ stack' \in Seq(Frame) /\ Len(stack') = n - 1 /\ (stack' = << >> <=> n = 1)
      /\ \A i \in 1..n - 1 :
           /\ stack'[i].type = stack[i].type
           /\ stack'[i].next = IF i = n - 1 THEN stack[i].next + 1 ELSE stack[i].next
  <2>1. CASE n = 1
    <3>1. stack' = << >>
      BY <1>7, <2>1
    <3> QED BY <2>1, <3>1
  <2>2. CASE n # 1
    <3> DEFINE s == Under
    <3>0. n \in Nat /\ n > 0 /\ n # 1
      BY <1>1, <2>2
    <3>1. n - 1 \in Nat /\ n - 1 > 0 /\ \A i \in 1..n - 1 : i \in 1..n
      <4> HIDE DEF n
      <4> QED BY <3>0
    <3>2. s \in Seq(Frame) /\ Len(s) = n - 1 /\ \A i \in 1..n - 1 : s[i] = stack[i]
      BY <1>1, <3>1, SubSeqProperties DEF Under
    <3>3. stack' = [s EXCEPT ![Len(s)].next = @ + 1]
      BY <1>7, <2>2
    <3> HIDE DEF s
    <3>4. s # << >>
      BY <3>1, <3>2
    <3>5. /\ stack' \in Seq(Frame) /\ stack' # << >> /\ Len(stack') = Len(s)
          /\ \A i \in 1..Len(s) :
               /\ stack'[i].type = s[i].type
               /\ stack'[i].next = IF i = Len(s) THEN s[i].next + 1 ELSE s[i].next
      BY <3>2, <3>3, <3>4, PassField
    <3> HIDE DEF n
    <3> QED BY <2>2, <3>2, <3>5
  <2> QED BY <2>1, <2>2
<1>9. /\ visiting' \in Seq(Names) /\ Len(visiting') = n - 1
      /\ \A i \in 1..n - 1 : visiting'[i] = visiting[i]
  <2>1. \A i \in 1..n - 1 : visiting[i] \in Names
    BY <1>0, <1>1, LenProperties
  <2>2. 1 \in Int /\ n - 1 \in Int
    BY <1>1
  <2>3. /\ SubSeq(visiting, 1, n - 1) \in Seq(Names)
        /\ Len(SubSeq(visiting, 1, n - 1)) = IF 1 <= n - 1 THEN n - 1 - 1 + 1 ELSE 0
        /\ \A i \in 1..n - 1 - 1 + 1 : SubSeq(visiting, 1, n - 1)[i] = visiting[1 + i - 1]
    <3> HIDE DEF n
    <3> QED BY <2>1, <2>2, SubSeqProperties
  <2>4. n \in Nat /\ n > 0
    BY <1>1
  <2> HIDE DEF n
  <2>5. n - 1 - 1 + 1 = n - 1 /\ (IF 1 <= n - 1 THEN n - 1 - 1 + 1 ELSE 0) = n - 1
        /\ \A i \in 1..n - 1 : 1 + i - 1 = i
    BY <2>4
  <2> QED BY <1>7, <2>3, <2>5
<1>10. \A name : Registered(name)' <=> Registered(name) \/ name = Name(t)
  BY <1>5, <1>7 DEF Registered
<1> HIDE DEF t
<1>11. PathInv'
  <2>1. ASSUME NEW i \in 1..n - 1
        PROVE  /\ stack'[i].type \in Reached
               /\ visiting'[i] = Name(stack'[i].type)
               /\ ~(Registered(visiting'[i]) \/ visiting'[i] = Name(t))
               /\ stack'[i].next <= Len(Fields(stack'[i].type)) + 1
               /\ \A j \in 1..n - 1 : visiting'[i] = visiting'[j] => i = j
    <3>1. i \in 1..n /\ i # n
      BY <1>1
    <3>2. visiting[i] # Name(t)
      BY <1>1, <1>3, <1>4, <3>1
    <3>3. stack'[i].next <= Len(Fields(stack[i].type)) + 1
      <4>1. CASE i = n - 1
        <5>1. n \in 2..n
          BY <1>1, <3>1
        <5>2. stack[i].next <= Len(Fields(stack[i].type))
          BY <1>0, <4>1, <5>1 DEF PathInv
        <5>3. stack'[i].next = stack[i].next + 1
          BY <1>8, <4>1
        <5>4. stack[i].next \in Nat /\ Len(Fields(stack[i].type)) \in Nat
          BY <1>2, <3>1
        <5> QED BY <5>2, <5>3, <5>4
      <4>2. CASE i # n - 1
        BY <1>3, <1>8, <3>1, <4>2
      <4> QED BY <4>1, <4>2
    <3>4. \A j \in 1..n - 1 : j \in 1..n
      BY <1>1
    <3>5. visiting'[i] = visiting[i] /\ stack'[i].type = stack[i].type
      BY <1>8, <1>9
    <3>6. \A j \in 1..n - 1 : visiting'[i] = visiting'[j] => i = j
      BY <1>3, <1>9, <3>1, <3>4, <3>5
    <3>7. stack[i].type \in Reached /\ visiting[i] = Name(stack[i].type)
          /\ ~Registered(visiting[i])
      BY <1>3, <3>1
    <3> QED BY <3>2, <3>3, <3>5, <3>6, <3>7
  <2>2. ASSUME NEW i \in 2..n - 1
        PROVE  /\ stack'[i - 1].next <= Len(Fields(stack'[i - 1].type))
               /\ Fields(stack'[i - 1].type)[stack'[i - 1].next] = stack'[i].type
    <3>1. i - 1 \in 1..n - 1 /\ i \in 1..n - 1 /\ i - 1 # n - 1 /\ i \in 2..n
      BY <1>1
    <3>2. stack'[i - 1].type = stack[i - 1].type /\ stack'[i - 1].next = stack[i - 1].next
          /\ stack'[i].type = stack[i].type
      BY <1>8, <3>1
    <3> QED BY <1>0, <3>1, <3>2 DEF PathInv
  <2>3. ASSUME stack' # << >> PROVE stack'[1].type = Root
    <3>1. 1 \in 1..n - 1
      BY <1>1, <1>8, <2>3
    <3> QED BY <1>0, <1>8, <3>1 DEF PathInv
  <2>4. \A r : Fields(r)' = Fields(r) /\ Name(r)' = Name(r)
    BY <1>7, SameProgram
  <2>5. Reached' = Reached /\ Len(stack') = n - 1 /\ Len(visiting') = n - 1
    BY <1>7, <1>8, <1>9, SameProgram
  <2> HIDE DEF n
  <2>6. \A i \in 1..Len(stack') :
          /\ stack'[i].type \in Reached'
          /\ visiting'[i] = Name(stack[i].type)' /\ ~Registered(visiting[i])'
          /\ stack'[i].next <= Len(Fields(stack[i].type)') + 1
          /\ \A j \in 1..Len(stack') : visiting'[i] = visiting'[j] => i = j
    <3>1. ASSUME NEW i \in 1..n - 1
          PROVE  /\ visiting'[i] = Name(stack[i].type)'
                 /\ stack'[i].next <= Len(Fields(stack[i].type)') + 1
      BY <2>1, <2>4
    <3>2. ASSUME NEW i \in 1..n - 1 PROVE ~Registered(visiting[i])'
      <4>1. \A d \in seen_defs' : d[1] # visiting'[i]
        BY <1>5, <1>7, <2>1 DEF Registered
      <4> QED BY <4>1 DEF Registered
    <3> QED BY <2>1, <2>5, <3>1, <3>2
  <2>7. \A i \in 2..Len(stack') :
          /\ stack'[i - 1].next <= Len(Fields(stack[i - 1].type)')
          /\ Fields(stack[i - 1].type)'[stack'[i - 1].next] = stack'[i].type
    BY <2>2, <2>4, <2>5
  <2> QED BY <1>8, <1>9, <2>3, <2>5, <2>6, <2>7 DEF PathInv
<1>12. SeenInv'
  <2>1. ASSUME NEW i \in 1..n - 1, NEW k \in 1..stack'[i].next - 1
        PROVE  Entry(Fields(stack'[i].type)[k]) \in seen_defs'
    <3>1. i \in 1..n /\ i # n
      BY <1>1
    <3>2. CASE k <= stack[i].next - 1
      <4>1. k \in 1..stack[i].next - 1
        BY <1>2, <3>1, <3>2
      <4> QED BY <1>0, <1>7, <1>8, <3>1, <4>1 DEF SeenInv
    <3>3. CASE ~(k <= stack[i].next - 1)
      <4>1. i = n - 1 /\ k = stack[i].next /\ n \in 2..n
        <5>1. stack[i].next \in Nat
              /\ stack'[i].next = IF i = n - 1 THEN stack[i].next + 1 ELSE stack[i].next
          BY <1>2, <1>8, <3>1
        <5>2. i = n - 1 /\ k = stack[i].next
          BY <3>3, <5>1
        <5> QED BY <1>1, <3>1, <5>2
      <4>2. Fields(stack[i].type)[k] = stack[n].type
        BY <1>0, <4>1 DEF PathInv
      <4> QED BY <1>4, <1>7, <1>8, <4>2
    <3> QED BY <3>2, <3>3
  <2>2. \A k \in 1..Len(Fields(t)) : Entry(Fields(t)[k]) \in seen_defs
    <3>1. ASSUME NEW k \in 1..Len(Fields(t)) PROVE k \in 1..stack[n].next - 1
      BY <1>0, <1>1, <1>2, <1>4
    <3> QED BY <1>0, <1>1, <1>4, <3>1 DEF SeenInv
  <2>3. ASSUME NEW d \in seen_defs'
        PROVE  \E r \in Reached : d = Entry(r) /\ \A k \in 1..Len(Fields(r)) : Entry(Fields(r)[k]) \in seen_defs'
    <3>1. CASE d \in seen_defs
      BY <1>0, <1>7, <3>1 DEF SeenInv
    <3>2. CASE d = Entry(t)
      BY <1>4, <1>7, <2>2, <3>2
    <3> QED BY <1>7, <3>1, <3>2
  <2>4. ASSUME NEW d \in seen_defs', NEW e \in seen_defs', d[1] = e[1] PROVE d = e
    <3>1. \A c \in seen_defs : c[1] # Name(t)
      BY <1>4 DEF Registered
    <3> QED BY <1>0, <1>5, <1>7, <2>4, <3>1 DEF SeenInv
  <2>5. stack' = << >> => Entry(Root) \in seen_defs'
    BY <1>0, <1>4, <1>7, <1>8 DEF PathInv
  <2>6. \A r : Fields(r)' = Fields(r) /\ Entry(r)' = Entry(r)
    BY <1>7, SameProgram
  <2>7. Reached' = Reached /\ Len(stack') = n - 1
    BY <1>7, <1>8, SameProgram
  <2> HIDE DEF n
  <2> QED BY <2>1, <2>3, <2>4, <2>5, <2>6, <2>7 DEF SeenInv
<1> DEFINE m == Len(entries)
<1>13. entries \in Seq(AllEntries) /\ m \in Nat
  BY <1>0, LenProperties DEF ListedInv
<1>14. ASSUME registry = "idl" PROVE ListedInv'
  <2>1. /\ entries' \in Seq(AllEntries) /\ Len(entries') = m + 1
        /\ \A i \in 1..m : entries'[i] = entries[i]
        /\ entries'[m + 1] = Entry(t)
    BY <1>5, <1>7, <1>13, <1>14, AppendProperties
  <2>2. ASSUME NEW i \in 1..m PROVE entries[i] \in seen_defs /\ entries[i][1] # Name(t)
    <3>1. entries[i] \in seen_defs
      BY <1>0, <1>14 DEF ListedInv
    <3> QED BY <1>4, <3>1 DEF Registered
  <2>3. ASSUME NEW i \in 1..m + 1, NEW j \in 1..m + 1, entries'[i][1] = entries'[j][1]
        PROVE  i = j
    <3>1. CASE i \in 1..m /\ j \in 1..m
      BY <1>0, <2>1, <2>3, <3>1 DEF ListedInv
    <3>2. CASE i \notin 1..m
      <4>1. i = m + 1 /\ entries'[i][1] = Name(t)
        BY <1>5, <1>13, <2>1, <3>2
      <4>2. j \notin 1..m
        BY <2>1, <2>2, <2>3, <4>1
      <4> QED BY <1>13, <4>1, <4>2
    <3>3. CASE j \notin 1..m
      <4>1. j = m + 1 /\ entries'[j][1] = Name(t)
        BY <1>5, <1>13, <2>1, <3>3
      <4>2. i \notin 1..m
        BY <2>1, <2>2, <2>3, <4>1
      <4> QED BY <1>13, <4>1, <4>2
    <3> QED BY <3>1, <3>2, <3>3
  <2>4. ASSUME NEW i \in 1..m + 1 PROVE entries'[i] \in seen_defs'
    BY <1>7, <1>13, <2>1, <2>2
  <2>5. ASSUME NEW d \in seen_defs' PROVE \E i \in 1..m + 1 : entries'[i] = d
    <3>1. CASE d \in seen_defs
      <4>1. PICK i \in 1..m : entries[i] = d
        BY <1>0, <3>1 DEF ListedInv
      <4> QED BY <1>13, <2>1, <4>1
    <3>2. CASE d = Entry(t)
      <4>1. m + 1 \in 1..m + 1
        BY <1>13
      <4> QED BY <2>1, <3>2, <4>1
    <3> QED BY <1>7, <3>1, <3>2
  <2>6. ASSUME NEW i \in 1..m + 1, NEW q \in Refs(entries'[i])
        PROVE  \E j \in 1..i - 1 : entries'[j][1] = q
    <3>1. CASE i = m + 1
      <4>1. PICK k \in 1..Len(Fields(t)) : q = Name(Fields(t)[k])
        BY <1>5, <2>1, <2>6, <3>1
      <4>2. k \in 1..stack[n].next - 1
        BY <1>0, <1>1, <1>2, <1>4
      <4>3. Entry(Fields(t)[k]) \in seen_defs
        BY <1>0, <1>1, <1>4, <4>2 DEF SeenInv
      <4>4. PICK j \in 1..m : entries[j] = Entry(Fields(t)[k])
        BY <1>0, <4>3 DEF ListedInv
      <4>5. entries[j][1] = q
        BY <4>1, <4>4 DEF Entry
      <4> QED BY <1>13, <2>1, <3>1, <4>4, <4>5
    <3>2. CASE i # m + 1
      <4>1. i \in 1..m /\ \A j \in 1..i - 1 : j \in 1..m
        BY <1>13, <3>2
      <4>2. PICK j \in 1..i - 1 : entries[j][1] = q
        BY <1>0, <1>14, <2>1, <2>6, <4>1 DEF ListedInv
      <4> QED BY <2>1, <4>1, <4>2
    <3> QED BY <3>1, <3>2
  <2>7. registry' = "idl" /\ AllEntries' = AllEntries
    BY <1>7, <1>14, SameProgram
  <2>8. \A e : Refs(e)' = Refs(e)
    BY DEF Refs
  <2> HIDE DEF m
  <2> QED BY <2>1, <2>3, <2>4, <2>5, <2>6, <2>7, <2>8 DEF ListedInv, Refs
<1>15. ASSUME registry = "msg" PROVE ListedInv'
  <2>1. entries' = entries /\ registry' = "msg"
    BY <1>7, <1>15
  <2>2. ASSUME NEW i \in 1..m
        PROVE  entries[i] \in seen_defs' \/ \E j \in 1..n - 1 : entries[i] = Entry(stack'[j].type)
    <3>1. CASE entries[i] \in seen_defs
      BY <1>7, <3>1
    <3>2. CASE \E j \in 1..n : entries[i] = Entry(stack[j].type)
      <4>1. PICK j \in 1..n : entries[i] = Entry(stack[j].type)
        BY <3>2
      <4>2. CASE j = n
        BY <1>4, <1>7, <4>1, <4>2
      <4>3. CASE j # n
        <5>1. j \in 1..n - 1
          BY <1>1, <4>3
        <5> QED BY <1>8, <4>1, <5>1
      <4> QED BY <4>2, <4>3
    <3> QED BY <1>0, <3>1, <3>2 DEF ListedInv
  <2>3. ASSUME NEW d \in seen_defs' PROVE \E i \in 1..m : entries[i] = d
    <3>1. \E i \in 1..m : entries[i] = Entry(t)
      BY <1>0, <1>1, <1>4, <1>15 DEF ListedInv
    <3> QED BY <1>0, <1>7, <3>1 DEF ListedInv
  <2>4. ASSUME NEW j \in 1..n - 1 PROVE \E i \in 1..m : entries[i] = Entry(stack'[j].type)
    <3>1. j \in 1..n
      BY <1>1
    <3> QED BY <1>0, <1>8, <1>15, <3>1 DEF ListedInv
  <2>5. Len(stack') = n - 1 /\ AllEntries' = AllEntries /\ \A r : Entry(r)' = Entry(r)
    BY <1>7, <1>8, SameProgram
  <2> HIDE DEF n
  <2> QED BY <1>0, <1>13, <1>15, <2>1, <2>2, <2>3, <2>4, <2>5 DEF ListedInv
<1>16. OutcomeInv'
  BY <1>0, <1>7, <1>8 DEF OutcomeInv
<1> QED BY <1>0, <1>11, <1>12, <1>14, <1>15, <1>16 DEF DefsInv, OutcomeInv

(* Every step keeps DefsInv. *)
LEMMA DefsInvStep == DefsInv /\ [DefsNext]_defsVars => DefsInv'
<1> SUFFICES ASSUME DefsInv, [DefsNext]_defsVars PROVE DefsInv'
  OBVIOUS
<1>1. CASE EnterKnown
  BY <1>1, EnterKnownStep
<1>2. CASE EnterVisited
  BY <1>2, EnterVisitedStep
<1>3. CASE EnterNew
  BY <1>3, EnterNewStep
<1>4. CASE Finish
  BY <1>4, FinishStep
<1>5. CASE UNCHANGED defsVars
  <2>1. OutcomeInv'
    <3>1. UNCHANGED << program, registry, stack, outcome >>
      BY <1>5 DEF defsVars
    <3> QED BY <3>1, SameProgram DEF OutcomeInv, DefsInv
  <2> QED BY <1>5, <2>1, PanicStays DEF DefsInv, defsVars
<1> QED BY <1>1, <1>2, <1>3, <1>4, <1>5 DEF DefsNext

(* When all is done, what is listed is registered, and its fields are.      *)
LEMMA DoneClosed ==
  ASSUME DefsInv, outcome = "done"
  PROVE  /\ Entry(Root) \in seen_defs
         /\ \A i \in 1..Len(entries) : entries[i] \in seen_defs
<1>1. stack = << >> /\ Len(stack) = 0
  BY DEF DefsInv, OutcomeInv
<1>2. Entry(Root) \in seen_defs
  BY <1>1 DEF DefsInv, SeenInv
<1>3. \A i \in 1..Len(entries) : entries[i] \in seen_defs
  BY <1>1 DEF DefsInv, ListedInv
<1> QED BY <1>2, <1>3

(* What a path reaches through types whose names are their own is           *)
(* registered: the first on it that is not cannot be there.                 *)
LEMMA PathDefined ==
  ASSUME DefsInv, outcome = "done", NEW Unique, Unique \subseteq Reached,
         \A t \in Unique : \A u \in Reached : Name(u) = Name(t) => u = t,
         NEW n \in Nat, NEW p \in [0..n -> Types], p[0] = Root,
         \A i \in 1..n : p[i - 1] \in Unique,
         \A i \in 1..n : \E k \in DOMAIN Fields(p[i - 1]) : Fields(p[i - 1])[k] = p[i]
  PROVE  Entry(p[n]) \in seen_defs
<1> DEFINE T == { i \in 0..n : Entry(p[i]) \notin seen_defs }
<1>1. T = {}
  <2> SUFFICES ASSUME T # {} PROVE FALSE
    OBVIOUS
  <2>1. T \in SUBSET Nat
    OBVIOUS
  <2>2. PICK i \in T : \A j \in T : i <= j
    BY <2>1, LeastNatural
  <2>3. i \in 1..n /\ i - 1 \in 0..n /\ ~(i <= i - 1)
    <3>1. i # 0
      BY <2>2, DoneClosed
    <3> QED BY <3>1
  <2>4. Entry(p[i - 1]) \in seen_defs
    BY <2>2, <2>3
  <2>5. PICK t \in Reached : /\ Entry(p[i - 1]) = Entry(t)
                             /\ \A k \in 1..Len(Fields(t)) : Entry(Fields(t)[k]) \in seen_defs
    BY <2>4 DEF DefsInv, SeenInv
  <2>6. t = p[i - 1]
    BY <2>3, <2>5 DEF Entry
  <2>7. PICK k \in DOMAIN Fields(t) : Fields(t)[k] = p[i]
    BY <2>3, <2>6
  <2>8. k \in 1..Len(Fields(t))
    BY <2>3, <2>6, <2>7, EntryOf DEF DefsInv, OutcomeInv
  <2>9. Entry(p[i]) \in seen_defs
    BY <2>5, <2>7, <2>8
  <2> QED BY <2>2, <2>9
<1> QED BY <1>1

(* DefsInv says more than DefinitionsSound. *)
LEMMA DefsInvSound == DefsInv => DefinitionsSound
<1> SUFFICES ASSUME DefsInv PROVE DefinitionsSound
  OBVIOUS
<1>1. entries \in Seq(AllEntries) /\ DOMAIN entries = 1..Len(entries)
  BY LenProperties DEF DefsInv, ListedInv
<1>2. OutputSound
  <2>1. ASSUME outcome = "done", NEW i \in DOMAIN entries, NEW q \in Refs(entries[i])
        PROVE  \E j \in DOMAIN entries : entries[j][1] = q
    <3>1. entries[i] \in seen_defs
      BY <1>1, <2>1, DoneClosed
    <3>2. PICK t \in Reached : /\ entries[i] = Entry(t)
                               /\ \A k \in 1..Len(Fields(t)) : Entry(Fields(t)[k]) \in seen_defs
      BY <3>1 DEF DefsInv, SeenInv
    <3>3. t \in Types
      BY DEF Reached
    <3>4. PICK k \in 1..Len(Fields(t)) : q = Name(Fields(t)[k])
      BY <2>1, <3>2, <3>3, EntryOf DEF DefsInv, OutcomeInv
    <3>5. PICK j \in 1..Len(entries) : entries[j] = Entry(Fields(t)[k])
      BY <3>2 DEF DefsInv, ListedInv
    <3> QED BY <1>1, <3>4, <3>5 DEF Entry
  <2> QED BY <1>1, <2>1 DEF OutputSound, DefsInv, OutcomeInv, ListedInv
<1>3. PanicJustified
  <2> DEFINE Unique == { t \in Reached : \A u \in Reached : Name(u) = Name(t) => u = t }
  <2>1. ASSUME outcome = "done", NEW t \in Types, Path(Unique, Root, t) PROVE Defined(t)
    <3>1. PICK n \in 1..Cardinality(Types) : \E p \in [0..n -> Types] :
            /\ p[0] = Root /\ p[n] = t
            /\ \A i \in 1..n : p[i - 1] \in Unique
            /\ \A i \in 1..n : \E k \in DOMAIN Fields(p[i - 1]) : Fields(p[i - 1])[k] = p[i]
      BY <2>1 DEF Path
    <3>2. n \in Nat
      BY ProgramsAssumption, FS_CardinalityType
    <3>3. PICK p \in [0..n -> Types] :
            /\ p[0] = Root /\ p[n] = t
            /\ \A i \in 1..n : p[i - 1] \in Unique
            /\ \A i \in 1..n : \E k \in DOMAIN Fields(p[i - 1]) : Fields(p[i - 1])[k] = p[i]
      BY <3>1
    <3>4. Unique \subseteq Reached
          /\ \A r \in Unique : \A u \in Reached : Name(u) = Name(r) => u = r
      OBVIOUS
    <3> HIDE DEF Unique
    <3>5. Entry(t) \in seen_defs
      BY <2>1, <3>2, <3>3, <3>4, PathDefined
    <3>6. \E i \in 1..Len(entries) : entries[i] = Entry(t)
      BY <3>5 DEF DefsInv, ListedInv
    <3> QED BY <1>1, <3>6 DEF Defined, Entry
  <2> QED BY <2>1 DEF PanicJustified, DefsInv, OutcomeInv
<1> QED BY <1>2, <1>3 DEF DefinitionsSound

(* For any finite number of types, however they refer to each other: the    *)
(* definitions come out once each, complete and in an order in which they   *)
(* can be read, and a panic has its reason.                                 *)
THEOREM DefinitionsAreSound == DefsSpec => []DefinitionsSound
BY DefsInvInit, DefsInvStep, DefsInvSound, PTL DEF DefsSpec

-----------------------------------------------------------------------------
(* DeriveMacros *)

(* A member of a struct, and what of a struct the macros rely on            *)
StructField == [name : Seq(Classes), type : FieldTypes, key : KeyAttributes]

(* The key fields are the fields with a key attribute.                      *)
LEMMA KeysAre ==
  ASSUME NEW item, item.fields \in Seq(StructField)
  PROVE  /\ KeyFields(item) \in Seq(StructField)
         /\ \A i \in DOMAIN KeyFields(item) :
              is_key(KeyFields(item)[i]) /\ KeyFields(item)[i] \in StructField
         /\ \A f : (\E i \in DOMAIN KeyFields(item) : KeyFields(item)[i] = f)
                     <=> (\E k \in DOMAIN item.fields : item.fields[k] = f /\ is_key(f))
<1> DEFINE S == { f \in ToSet(item.fields) : is_key(f) }
           v == item.fields
           keys == Kept(v, S)
<1>0. KeyFields(item) = keys
  BY DEF KeyFields
<1>1. keys \in Seq(StructField)
  BY KeptOf
<1>2. PICK p : KeepsBy(p, keys, v, S)
  <2> HIDE DEF S, v
  <2>1. v \in Seq(StructField)
    BY DEF v
  <2> QED BY <2>1, KeptOf
<1>3. DOMAIN keys = 1..Len(keys) /\ DOMAIN v = 1..Len(v)
  BY <1>1, LenProperties
<1>4. \A k \in 1..Len(v) : v[k] \in S <=> is_key(v[k])
  BY <1>3 DEF ToSet
<1> HIDE DEF S, keys, v
<1>5. \A i \in DOMAIN keys : is_key(keys[i]) /\ keys[i] \in StructField
  <2> SUFFICES ASSUME NEW i \in 1..Len(keys) PROVE is_key(keys[i]) /\ keys[i] \in StructField
    BY <1>3
  <2>1. keys[i] \in StructField
    BY <1>1, ElementOfSeq
  <2> QED BY <1>2, <1>4, <2>1 DEF KeepsBy
<1>6. ASSUME NEW f
      PROVE  (\E i \in DOMAIN keys : keys[i] = f) <=> (\E k \in DOMAIN v : v[k] = f /\ is_key(f))
  <2>1. ASSUME NEW i \in DOMAIN keys, keys[i] = f PROVE \E k \in DOMAIN v : v[k] = f /\ is_key(f)
    BY <1>2, <1>3, <1>4, <2>1 DEF KeepsBy
  <2>2. ASSUME NEW k \in DOMAIN v, v[k] = f, is_key(f) PROVE \E i \in DOMAIN keys : keys[i] = f
    BY <1>2, <1>3, <1>4, <2>2 DEF KeepsBy
  <2> QED BY <2>1, <2>2
<1> QED BY <1>0, <1>1, <1>5, <1>6 DEF v

(* A key that is valid is a path or an array; there is a String in it       *)
(* exactly if the holder is told so, and a key struct exactly if it is      *)
(* contained.                                                               *)
LEMMA ValidKey ==
  ASSUME NEW f \in StructField, is_key(f), validate_key_field_type(f)
  PROVE  /\ f.type.kind \in {"path", "array"}
         /\ HoldsString(f) <=> f.type.of = "String"
         /\ (~(is_primitive(f) \/ is_key_enum(f)) /\ f.type.kind = "path" /\ f.type.of = "Inner")
              <=> (f.type.of = "Inner" /\ ~is_key_enum(f))
<1>1. f.type \in FieldTypes
  BY DEF StructField
<1>2. f.type.kind \in {"path", "array"}
  BY DEF validate_key_field_type, IsPlainPath, IsArray
<1>3. f.type.of = "Inner" => f.type.kind = "path" /\ ~is_primitive(f)
  BY <1>2 DEF validate_key_field_type, IsPlainPath, IsArray, is_primitive,
              is_primitive_type_path, Portable, Unportable
<1>4. HoldsString(f) => f.type.of = "String"
  BY DEF HoldsString, is_variable_length, validate_key_field_type, IsPlainPath, IsArray,
         is_primitive, is_primitive_type_path, Portable, Unportable
<1>5. f.type.of = "String" => HoldsString(f)
  BY <1>2 DEF HoldsString, is_variable_length, IsArray,
         is_primitive, is_primitive_type_path
<1> QED BY <1>2, <1>3, <1>4, <1>5

(* One character of a name in snake case                                    *)
SnakeNext(prev, c) ==
  IF prev # "bad" /\ (IF c = "underscore" THEN prev # c ELSE c \in Lower \cup {"1"})
  THEN c ELSE "bad"

(* How the fold goes through the characters behind the first.               *)
LEMMA SnakeSteps ==
  ASSUME NEW v \in Seq(Classes)
  PROVE  \E g : /\ g[1..0] = "a"
                /\ \A k \in 1..Len(v) : g[1..k] = SnakeNext(g[1..k - 1], v[k])
                /\ FoldLeft(SnakeNext, "a", v) = g[1..Len(v)]
<1> DEFINE n == Len(v)
           A == Classes \cup {"bad"}
           At(g, s) == IF s = {} THEN "a" ELSE SnakeNext(g[s \ {Max(s)}], v[Max(s)])
           Is(g) == g = [s \in SUBSET (1..n) |-> At(g, s)]
           move == [p \in A \X Classes |-> SnakeNext(p[1], p[2])]
<1>1. n \in Nat /\ DOMAIN v = 1..n /\ v \in [1..n -> Classes]
  BY LenProperties
<1>2. move \in [A \X Classes -> A] /\ "a" \in A
  BY DEF SnakeNext, Classes, Lower
<1>3. PICK h \in [SUBSET (1..n) -> A] : FoldedUp(move, "a", v, h, n)
  <2> HIDE DEF n, move, A
  <2> QED BY <1>1, <1>2, FoldAll
<1>4. \A s \in SUBSET (1..n) : h[s] = At(h, s)
  <2>1. ASSUME NEW s \in SUBSET (1..n), s # {} PROVE h[s] = At(h, s)
    <3>1. Max(s) \in s
      BY <1>1, <2>1, SomeLast
    <3>2. h[s \ {Max(s)}] \in A /\ v[Max(s)] \in Classes
      BY <1>1, <1>3, <3>1
    <3>3. h[s] = move[<< h[s \ {Max(s)}], v[Max(s)] >>]
      BY <1>3, <2>1 DEF FoldedUp, FoldAt
    <3> QED BY <2>1, <3>2, <3>3
  <2>2. h[{}] = "a"
    BY <1>3 DEF FoldedUp, FoldAt
  <2> QED BY <2>1, <2>2
<1>5. Is(h)
  <2>1. h = [s \in SUBSET (1..n) |-> h[s]]
    BY <1>3
  <2> QED BY <1>4, <2>1
<1> DEFINE g == CHOOSE f : Is(f)
<1>6. Is(g)
  <2> HIDE DEF Is
  <2> QED BY <1>5
<1>7. FoldLeft(SnakeNext, "a", v) = g[1..n]
  BY <1>1 DEF FoldLeft, MapThenFoldSet
<1> HIDE DEF g
<1>8. \A s \in SUBSET (1..n) : g[s] = At(g, s)
  BY <1>6
<1>9. g[1..0] = "a"
  BY <1>1, <1>8, SetOf
<1>10. \A k \in 1..n : g[1..k] = SnakeNext(g[1..k - 1], v[k])
  BY <1>1, <1>8, SetOf
<1> QED BY <1>7, <1>9, <1>10

(* What the loop accepts is in snake case.                                  *)
LEMMA SnakeIs ==
  ASSUME NEW chars \in Seq(Classes), validate_lower_snake_case(chars)
  PROVE  SnakeCase(chars)
<1> DEFINE v == Tail(chars)
           n == Len(v)
           end == FoldLeft(SnakeNext, "a", v)
<1>1. /\ v \in Seq(Classes) /\ n \in Nat /\ Len(chars) = n + 1 /\ chars # << >>
      /\ \A i \in 1..n : v[i] = chars[i + 1] /\ v[i] \in Classes
      /\ chars[1] \in Lower /\ chars[n + 1] # "underscore" /\ end # "bad"
  <2>1. chars # << >> /\ Head(chars) \in Lower /\ Last(chars) # "underscore"
    BY DEF validate_lower_snake_case
  <2>2. end # "bad"
    BY DEF validate_lower_snake_case, SnakeNext
  <2> HIDE DEF end
  <2>3. v \in Seq(Classes) /\ Len(v) = Len(chars) - 1 /\ \A i \in 1..Len(v) : v[i] = chars[i + 1]
    BY <2>1, HeadTailProperties
  <2>4. n \in Nat /\ \A i \in 1..n : v[i] \in Classes
    BY <2>3, LenProperties
  <2>5. Head(chars) = chars[1] /\ Len(chars) \in Nat
    BY <2>1
  <2>6. Last(chars) = chars[Len(chars)]
    BY DEF Last
  <2> QED BY <2>1, <2>2, <2>3, <2>4, <2>5, <2>6
<1>2. PICK g : /\ g[1..0] = "a"
               /\ \A k \in 1..n : g[1..k] = SnakeNext(g[1..k - 1], v[k])
               /\ end = g[1..n]
  BY <1>1, SnakeSteps
<1> HIDE DEF v, n, end
<1> DEFINE Fits(k) ==
             g[1..k] # "bad" =>
               /\ k > 0 => g[1..k] = v[k]
               /\ \A i \in 1..k : v[i] \in Lower \cup {"1", "underscore"}
               /\ \A i \in 1..k - 1 : v[i] = "underscore" => v[i + 1] # "underscore"
           K == { k \in 0..n : Fits(k) }
<1>3. 0 \in K
  BY <1>1, <1>2
<1>4. ASSUME NEW k \in 1..n, k - 1 \in K PROVE k \in K
  <2>1. g[1..k] = SnakeNext(g[1..k - 1], v[k])
    BY <1>2
  <2>2. SUFFICES ASSUME g[1..k] # "bad"
                 PROVE  /\ g[1..k] = v[k]
                        /\ \A i \in 1..k : v[i] \in Lower \cup {"1", "underscore"}
                        /\ \A i \in 1..k - 1 : v[i] = "underscore" => v[i + 1] # "underscore"
    OBVIOUS
  <2>3. g[1..k - 1] # "bad" /\ g[1..k] = v[k] /\ v[k] \in Lower \cup {"1", "underscore"}
        /\ (v[k] = "underscore" => g[1..k - 1] # "underscore")
    <3> DEFINE prev == g[1..k - 1]
               c == v[k]
               x == g[1..k]
    <3>1. x = SnakeNext(prev, c) /\ x # "bad"
      BY <2>1, <2>2
    <3> HIDE DEF prev, c, x, K
    <3> QED BY <3>1 DEF prev, c, x, SnakeNext
  <2>4. /\ k - 1 > 0 => g[1..k - 1] = v[k - 1]
        /\ \A i \in 1..k - 1 : v[i] \in Lower \cup {"1", "underscore"}
        /\ \A i \in 1..k - 1 - 1 : v[i] = "underscore" => v[i + 1] # "underscore"
    BY <1>4, <2>3
  <2>5. \A i \in 1..k : i \in 1..k - 1 \/ i = k
    OBVIOUS
  <2>6. \A i \in 1..k - 1 : i \in 1..k - 1 - 1 \/ (i = k - 1 /\ k - 1 > 0 /\ i + 1 = k)
    OBVIOUS
  <2> HIDE DEF K
  <2> QED BY <2>3, <2>4, <2>5, <2>6
<1>5. n \in K
  <2>1. n \in 0..n
    BY <1>1
  <2> HIDE DEF K
  <2> QED BY <1>1, <1>3, <1>4, <2>1, PlaceByPlace
<1>6. /\ \A i \in 1..n : v[i] \in Lower \cup {"1", "underscore"}
      /\ \A i \in 1..n - 1 : v[i] = "underscore" => v[i + 1] # "underscore"
  BY <1>1, <1>2, <1>5
<1>7. ASSUME NEW i \in 1..n + 1
      PROVE  \/ chars[i] \in Lower \cup {"1"}
             \/ chars[i] = "underscore" /\ i < n + 1 /\ chars[i + 1] \in Lower \cup {"1"}
  <2>1. CASE i = 1
    BY <1>1, <2>1
  <2>2. CASE i # 1
    <3>1. i - 1 \in 1..n /\ i - 1 + 1 = i
      BY <1>1, <2>2
    <3>2. chars[i] = v[i - 1] /\ chars[i] \in Lower \cup {"1", "underscore"}
      BY <1>1, <1>6, <3>1
    <3>3. CASE chars[i] = "underscore"
      <4>1. i < n + 1 /\ i - 1 \in 1..n - 1 /\ i \in 1..n
        BY <1>1, <3>1, <3>3
      <4>2. v[i] # "underscore" /\ v[i] = chars[i + 1] /\ v[i] \in Lower \cup {"1", "underscore"}
        BY <1>1, <1>6, <3>1, <3>2, <3>3, <4>1
      <4> QED BY <3>3, <4>1, <4>2
    <3> QED BY <3>2, <3>3
  <2> QED BY <2>1, <2>2
<1>8. DOMAIN chars = 1..n + 1
  BY <1>1, LenProperties
<1> QED BY <1>1, <1>7, <1>8 DEF SnakeCase

(* One argument, and what the arguments may come to                         *)
AttrNext(result, arg) ==
  IF result.error # "none" THEN result
  ELSE CASE arg.key = "fixed_size" /\ ~result.fixed_size ->
              [result EXCEPT !.fixed_size = TRUE]
         [] arg.key = "package" /\ result.package = << >> /\ arg.literal ->
              [result EXCEPT !.package = << arg.value >>]
         [] arg.key = "name" /\ result.name = << >> /\ arg.literal ->
              [result EXCEPT !.name = << arg.value >>]
         [] OTHER -> Failed("attrs")

ArgumentsOf(args, key) == {<< >>} \cup { << arg.value >> : arg \in { a \in args : a.key = key } }
Outcomes(args) ==
  [ error : {"none"}, fixed_size : BOOLEAN,
    package : ArgumentsOf(args, "package"), name : ArgumentsOf(args, "name") ] \cup {Failed("attrs")}

LEMMA AttrTyped ==
  ASSUME NEW args, NEW r \in Outcomes(args), NEW arg \in args
  PROVE  AttrNext(r, arg) \in Outcomes(args)
<1> DEFINE P == ArgumentsOf(args, "package")
           N == ArgumentsOf(args, "name")
           Good == [ error : {"none"}, fixed_size : BOOLEAN, package : P, name : N ]
           x == AttrNext(r, arg)
<1>0. Good \subseteq Outcomes(args) /\ Failed("attrs") \in Outcomes(args)
  BY DEF Outcomes
<1>1. CASE r = Failed("attrs")
  <2>1. r.error = "attrs"
    BY <1>1 DEF Failed
  <2>2. AttrNext(r, arg) = r
    BY <2>1 DEF AttrNext
  <2> QED BY <2>2
<1>2. CASE r \in Good
  <2>1. r.error = "none"
    BY <1>2
  <2>2. CASE arg.key = "fixed_size" /\ ~r.fixed_size
    <3>1. x = [r EXCEPT !.fixed_size = TRUE]
      BY <2>1, <2>2 DEF AttrNext
    <3>2. x \in Good
      <4> HIDE DEF P, N, x
      <4> QED BY <1>2, <3>1
    <3> QED BY <1>0, <3>2
  <2>3. CASE arg.key = "package" /\ r.package = << >> /\ arg.literal
    <3>1. x = [r EXCEPT !.package = << arg.value >>]
      BY <2>1, <2>3 DEF AttrNext
    <3>2. << arg.value >> \in P
      BY <2>3 DEF ArgumentsOf
    <3>3. x \in Good
      <4> HIDE DEF P, N, x
      <4> QED BY <1>2, <3>1, <3>2
    <3> QED BY <1>0, <3>3
  <2>4. CASE arg.key = "name" /\ r.name = << >> /\ arg.literal
    <3>1. x = [r EXCEPT !.name = << arg.value >>]
      BY <2>1, <2>4 DEF AttrNext
    <3>2. << arg.value >> \in N
      BY <2>4 DEF ArgumentsOf
    <3>3. x \in Good
      <4> HIDE DEF P, N, x
      <4> QED BY <1>2, <3>1, <3>2
    <3> QED BY <1>0, <3>3
  <2>5. CASE /\ ~(arg.key = "fixed_size" /\ ~r.fixed_size)
             /\ ~(arg.key = "package" /\ r.package = << >> /\ arg.literal)
             /\ ~(arg.key = "name" /\ r.name = << >> /\ arg.literal)
    <3>1. x = Failed("attrs")
      BY <2>1, <2>5 DEF AttrNext
    <3> QED BY <1>0, <3>1
  <2> QED BY <2>2, <2>3, <2>4, <2>5
<1> QED BY <1>1, <1>2 DEF Outcomes

(* The package comes from an argument that says package.                    *)
LEMMA AttrsAre ==
  ASSUME NEW attrs, Len(attrs) \in Nat, DOMAIN attrs = 1..Len(attrs)
  PROVE  parse_cdds_attrs(attrs) \in Outcomes(ToSet(attrs))
<1> DEFINE n == Len(attrs)
           args == ToSet(attrs)
           A == Outcomes(args)
           At(g, s) == IF s = {} THEN NoAttrs ELSE AttrNext(g[s \ {Max(s)}], attrs[Max(s)])
           Is(g) == g = [s \in SUBSET (1..n) |-> At(g, s)]
           move == [p \in A \X args |-> AttrNext(p[1], p[2])]
           v == [i \in 1..n |-> attrs[i]]
<1>1. n \in Nat /\ v \in [1..n -> args] /\ \A i \in 1..n : v[i] = attrs[i] /\ attrs[i] \in args
  BY DEF ToSet
<1>2. move \in [A \X args -> A] /\ NoAttrs \in A
  <2>1. NoAttrs \in A
    BY DEF NoAttrs, Outcomes, ArgumentsOf
  <2>2. \A p \in A \X args : AttrNext(p[1], p[2]) \in A
    BY AttrTyped
  <2> HIDE DEF A, args
  <2> QED BY <2>1, <2>2
<1>3. PICK h \in [SUBSET (1..n) -> A] : FoldedUp(move, NoAttrs, v, h, n)
  <2> HIDE DEF n, move, A, v, args
  <2> QED BY <1>1, <1>2, FoldAll
<1>4. \A s \in SUBSET (1..n) : h[s] = At(h, s)
  <2>1. ASSUME NEW s \in SUBSET (1..n), s # {} PROVE h[s] = At(h, s)
    <3>1. Max(s) \in s
      BY <1>1, <2>1, SomeLast
    <3>2. h[s \ {Max(s)}] \in A /\ v[Max(s)] = attrs[Max(s)] /\ attrs[Max(s)] \in args
      <4> HIDE DEF A, args, v, n
      <4> QED BY <1>1, <1>3, <3>1
    <3>3. h[s] = move[<< h[s \ {Max(s)}], v[Max(s)] >>]
      BY <1>3, <2>1 DEF FoldedUp, FoldAt
    <3> HIDE DEF A, args, v, n
    <3> QED BY <2>1, <3>2, <3>3
  <2>2. h[{}] = NoAttrs
    BY <1>3 DEF FoldedUp, FoldAt
  <2> QED BY <2>1, <2>2
<1>5. Is(h)
  <2>1. h = [s \in SUBSET (1..n) |-> h[s]]
    BY <1>3
  <2> QED BY <1>4, <2>1
<1> DEFINE g == CHOOSE f : Is(f)
<1>6. Is(g)
  <2> HIDE DEF Is
  <2> QED BY <1>5
<1>7. parse_cdds_attrs(attrs) = g[1..n]
  BY DEF parse_cdds_attrs, AttrNext, FoldLeft, MapThenFoldSet
<1> HIDE DEF g
<1>8. \A s \in SUBSET (1..n) : g[s] = At(g, s)
  BY <1>6
<1>9. g[1..0] = NoAttrs /\ \A k \in 1..n : g[1..k] = AttrNext(g[1..k - 1], attrs[k])
  BY <1>1, <1>8, SetOf
<1> DEFINE K == { k \in 0..n : g[1..k] \in A }
<1>10. 0 \in K
  <2> HIDE DEF A
  <2> QED BY <1>1, <1>2, <1>9
<1>11. ASSUME NEW k \in 1..n, k - 1 \in K PROVE k \in K
  <2>1. g[1..k - 1] \in A /\ attrs[k] \in args
    BY <1>1, <1>11
  <2>2. g[1..k] \in A
    <3> HIDE DEF args
    <3> QED BY <1>9, <2>1, AttrTyped
  <2> HIDE DEF A
  <2> QED BY <2>2
<1>12. n \in K
  <2>1. n \in 0..n
    BY <1>1
  <2> HIDE DEF K
  <2> QED BY <1>1, <1>10, <1>11, <2>1, PlaceByPlace
<1> QED BY <1>7, <1>12

(* Each expansion is that of its struct, if it took place                   *)
DeriveInv ==
  /\ structs \in Structs
  /\ DOMAIN topics = 1..2 /\ DOMAIN interfaces = 1..2
  /\ \A i \in 1..2 : /\ topics[i] \in {Pending, derive_topic(structs[i])}
                     /\ interfaces[i] \in {Pending, derive_dds_interface(structs[i])}

LEMMA DerivesInit == DeriveInit => DeriveInv
BY DEF DeriveInit, DeriveInv

LEMMA DerivesStep == DeriveInv /\ [DeriveNext]_deriveVars => DeriveInv'
<1> SUFFICES ASSUME DeriveInv, [DeriveNext]_deriveVars PROVE DeriveInv'
  OBVIOUS
<1>1. ASSUME NEW i \in 1..2, ExpandTopic(i) PROVE DeriveInv'
  <2>1. /\ topics' = [topics EXCEPT ![i] = derive_topic(structs[i])]
        /\ UNCHANGED << structs, interfaces >>
    BY <1>1 DEF ExpandTopic
  <2> QED BY <2>1 DEF DeriveInv
<1>2. ASSUME NEW i \in 1..2, ExpandDdsInterface(i) PROVE DeriveInv'
  <2>1. /\ interfaces' = [interfaces EXCEPT ![i] = derive_dds_interface(structs[i])]
        /\ UNCHANGED << structs, topics >>
    BY <1>2 DEF ExpandDdsInterface
  <2> QED BY <2>1 DEF DeriveInv
<1>3. CASE UNCHANGED deriveVars
  BY <1>3 DEF deriveVars, DeriveInv
<1> QED BY <1>1, <1>2, <1>3 DEF DeriveNext

(* What a struct of a program is                                            *)
IsStruct(item) ==
  /\ item.fields \in Seq(StructField)
  /\ Len(item.attrs) \in Nat /\ DOMAIN item.attrs = 1..Len(item.attrs)
  /\ \A k \in DOMAIN item.attrs :
       item.attrs[k].key = "package" => item.attrs[k].value \in Seq(Classes)

KeysValid(item) ==
  \A i \in DOMAIN KeyFields(item) : validate_key_field_type(KeyFields(item)[i])

StringIn(item) ==
  \E k \in DOMAIN item.fields : is_key(item.fields[k]) /\ item.fields[k].type.of = "String"
InnerIn(item) ==
  \E k \in DOMAIN item.fields :
    is_key(item.fields[k]) /\ item.fields[k].type.of = "Inner" /\ ~is_key_enum(item.fields[k])

(* What the names of the key fields are, and what a holder should be        *)
KeyNames(item) == [i \in DOMAIN KeyFields(item) |-> KeyFields(item)[i].name]

HolderRight(item, holder) ==
  /\ ~KeysValid(item) => holder.error = "key"
  /\ KeysValid(item) =>
       /\ holder.error = "none" /\ holder.fields = KeyNames(item)
       /\ (holder.variable <=> StringIn(item)) /\ (holder.contained <=> InnerIn(item))

(* The holder: rejected exactly with an invalid key, and never later.       *)
LEMMA HolderIs ==
  ASSUME NEW item, IsStruct(item) PROVE HolderRight(item, build_key_holder_struct(item))
<1> DEFINE keys == KeyFields(item)
           Direct(f) == is_primitive(f) \/ is_key_enum(f)
           holder == build_key_holder_struct(item)
           HasInner(f) == ~Direct(f) /\ f.type.kind = "path" /\ f.type.of = "Inner"
<1>1. /\ \A i \in DOMAIN keys : is_key(keys[i]) /\ keys[i] \in StructField
      /\ \A f : (\E i \in DOMAIN keys : keys[i] = f)
                  <=> (\E k \in DOMAIN item.fields : item.fields[k] = f /\ is_key(f))
  BY KeysAre DEF IsStruct
<1> HIDE DEF keys
<1>2. ASSUME ~KeysValid(item) PROVE holder.error = "key"
  BY <1>2 DEF KeysValid, build_key_holder_struct, Failed, keys
<1>3. ASSUME KeysValid(item)
      PROVE  /\ holder.error = "none" /\ holder.fields = [i \in DOMAIN keys |-> keys[i].name]
             /\ (holder.variable <=> StringIn(item)) /\ (holder.contained <=> InnerIn(item))
  <2>1. \A i \in DOMAIN keys : validate_key_field_type(keys[i])
    BY <1>3 DEF KeysValid, keys
  <2>2. \A i \in DOMAIN keys :
          /\ keys[i].type.kind \in {"path", "array"}
          /\ HoldsString(keys[i]) <=> keys[i].type.of = "String"
          /\ HasInner(keys[i]) <=> (keys[i].type.of = "Inner" /\ ~is_key_enum(keys[i]))
    BY <1>1, <2>1, ValidKey
  <2>3. holder = [ error |-> "none", fields |-> [i \in DOMAIN keys |-> keys[i].name],
                   variable |-> \E i \in DOMAIN keys : HoldsString(keys[i]),
                   contained |-> \E i \in DOMAIN keys : HasInner(keys[i]) ]
    <3>1. /\ ~\E i \in DOMAIN keys : ~validate_key_field_type(keys[i])
          /\ ~\E i \in DOMAIN keys : ~Direct(keys[i]) /\ keys[i].type.kind \notin {"path", "array"}
      BY <2>1, <2>2
    <3> QED BY <3>1 DEF build_key_holder_struct, keys
  <2>4. (\E i \in DOMAIN keys : HoldsString(keys[i])) <=> StringIn(item)
    <3>1. (\E i \in DOMAIN keys : HoldsString(keys[i]))
            <=> \E i \in DOMAIN keys : keys[i].type.of = "String"
      BY <2>2
    <3>2. StringIn(item) <=>
            \E f : f.type.of = "String" /\ \E k \in DOMAIN item.fields : item.fields[k] = f /\ is_key(f)
      BY DEF StringIn
    <3> QED BY <1>1, <3>1, <3>2
  <2>5. (\E i \in DOMAIN keys : HasInner(keys[i])) <=> InnerIn(item)
    <3>1. (\E i \in DOMAIN keys : HasInner(keys[i]))
            <=> \E i \in DOMAIN keys : keys[i].type.of = "Inner" /\ ~is_key_enum(keys[i])
      BY <2>2
    <3>2. InnerIn(item) <=>
            \E f : f.type.of = "Inner" /\ ~is_key_enum(f)
                     /\ \E k \in DOMAIN item.fields : item.fields[k] = f /\ is_key(f)
      BY DEF InnerIn
    <3> QED BY <1>1, <3>1, <3>2
  <2> HIDE DEF holder, HasInner
  <2> QED BY <2>3, <2>4, <2>5
<1> HIDE DEF holder
<1> QED BY <1>2, <1>3 DEF keys, holder, HolderRight, KeyNames

(* What Topic should make of a struct                                       *)
TopicRight(item, t) ==
  LET cdds == parse_cdds_attrs(item.attrs) IN
  /\ t.error # "unreachable"
  /\ t.error = "key" => ~KeysValid(item)
  /\ Derived(t) =>
       /\ KeysValid(item) /\ t.keys = KeyNames(item)
       /\ cdds.package # << >> => t.typename = << cdds.package[1], NameOr(cdds, item) >>
       /\ (t.variable <=> StringIn(item)) /\ (t.contained <=> InnerIn(item))

LEMMA TopicIs ==
  ASSUME NEW item, IsStruct(item) PROVE TopicRight(item, derive_topic(item))
<1> DEFINE t == derive_topic(item)
           cdds == parse_cdds_attrs(item.attrs)
           holder == build_key_holder_struct(item)
<1>1. /\ ~KeysValid(item) => holder.error = "key"
      /\ KeysValid(item) =>
           /\ holder.error = "none" /\ holder.fields = KeyNames(item)
           /\ (holder.variable <=> StringIn(item)) /\ (holder.contained <=> InnerIn(item))
  BY HolderIs DEF HolderRight
<1>2. cdds.error \in {"none", "attrs"}
  <2>1. cdds \in Outcomes(ToSet(item.attrs))
    BY AttrsAre DEF IsStruct
  <2> HIDE DEF cdds
  <2> QED BY <2>1 DEF Outcomes, Failed
<1>3. t = IF item.generic THEN Failed("generic")
          ELSE IF item.reserved = "Topic" THEN Failed("reserved")
          ELSE IF holder.error # "none" THEN holder
          ELSE IF cdds.error # "none" THEN cdds
          ELSE [ error |-> "none", keys |-> holder.fields,
                 variable |-> holder.variable, contained |-> holder.contained,
                 fixed_size |-> cdds.fixed_size,
                 typename |-> IF cdds.package = << >> THEN << >>
                              ELSE << cdds.package[1], NameOr(cdds, item) >> ]
  BY DEF derive_topic
<1> DEFINE Right ==
             /\ t.error # "unreachable"
             /\ t.error = "key" => ~KeysValid(item)
             /\ Derived(t) =>
                  /\ KeysValid(item) /\ t.keys = KeyNames(item)
                  /\ cdds.package # << >> => t.typename = << cdds.package[1], NameOr(cdds, item) >>
                  /\ (t.variable <=> StringIn(item)) /\ (t.contained <=> InnerIn(item))
<1> SUFFICES Right
  BY DEF TopicRight
<1> HIDE DEF t, cdds, holder
<1>4. CASE item.generic
  BY <1>3, <1>4 DEF Failed, Derived
<1>5. CASE ~item.generic /\ item.reserved = "Topic"
  BY <1>3, <1>5 DEF Failed, Derived
<1>6. CASE ~item.generic /\ item.reserved # "Topic" /\ holder.error # "none"
  BY <1>1, <1>3, <1>6 DEF Derived
<1>7. CASE /\ ~item.generic /\ item.reserved # "Topic" /\ holder.error = "none"
           /\ cdds.error # "none"
  BY <1>2, <1>3, <1>7 DEF Derived
<1>8. CASE /\ ~item.generic /\ item.reserved # "Topic" /\ holder.error = "none"
           /\ cdds.error = "none"
  <2>1. t = [ error |-> "none", keys |-> holder.fields,
              variable |-> holder.variable, contained |-> holder.contained,
              fixed_size |-> cdds.fixed_size,
              typename |-> IF cdds.package = << >> THEN << >>
                           ELSE << cdds.package[1], NameOr(cdds, item) >> ]
    BY <1>3, <1>8
  <2> QED BY <1>1, <1>8, <2>1 DEF Derived
<1> QED BY <1>4, <1>5, <1>6, <1>7, <1>8

(* A keyword has one character; an escaped one has two.                     *)
LEMMA EscapedIs ==
  ASSUME NEW chars \in Seq(Classes)
  PROVE  /\ escape_idl_identifier(chars) \notin [1..1 -> Keywords]
         /\ escape_idl_identifier(chars) \in {chars, << "underscore" >> \o chars}
         /\ ~is_reserved_keyword(chars) => chars \notin [1..1 -> Keywords]
<1>1. Len(chars) \in Nat /\ DOMAIN chars = 1..Len(chars)
  BY LenProperties
<1>2. ASSUME chars \in [1..1 -> Keywords] PROVE is_reserved_keyword(chars)
  <2>1. DOMAIN chars = 1..1 /\ chars[1] \in Keywords
    BY <1>2
  <2>2. ~(Len(chars) < 1)
    <3>1. 1 \in 1..1
      OBVIOUS
    <3> QED BY <1>1, <2>1, <3>1
  <2>3. ~(1 < Len(chars))
    <3>1. ASSUME 1 < Len(chars) PROVE FALSE
      <4>1. 2 \in 1..Len(chars) /\ 2 \notin 1..1
        BY <1>1, <3>1
      <4> QED BY <1>1, <2>1, <4>1
    <3> QED BY <3>1
  <2> QED BY <1>1, <2>1, <2>2, <2>3 DEF is_reserved_keyword
<1>3. ASSUME is_reserved_keyword(chars) PROVE << "underscore" >> \o chars \notin [1..1 -> Keywords]
  <2>1. "underscore" \in Classes /\ Len(chars) = 1
    BY <1>3 DEF Classes, is_reserved_keyword
  <2>2. DOMAIN (<< "underscore" >> \o chars) = 1..Len(chars) + 1
    BY <2>1, Prepended
  <2>3. 2 \in 1..Len(chars) + 1 /\ 2 \notin 1..1
    BY <2>1
  <2> QED BY <2>2, <2>3
<1> QED BY <1>2, <1>3 DEF escape_idl_identifier

(* What DdsInterface should make of it                                      *)
InterfaceRight(item, d) ==
  LET cdds == parse_cdds_attrs(item.attrs) IN
  /\ d.error = "key" => ~KeysValid(item)
  /\ Derived(d) =>
       /\ KeysValid(item) /\ cdds.package # << >> /\ d.keys = KeyNames(item)
       /\ d.msg_ref = << cdds.package[1], NameOr(cdds, item) >>
       /\ SnakeCase(d.msg_ref[1])
       /\ \A k \in DOMAIN d.members :
            SnakeCase(d.members[k]) /\ d.members[k] \notin [1..1 -> Keywords]
       /\ d.idl_module \notin [1..1 -> Keywords]
       /\ d.idl_module \in {d.msg_ref[1], << "underscore" >> \o d.msg_ref[1]}

LEMMA InterfaceIs ==
  ASSUME NEW item, IsStruct(item) PROVE InterfaceRight(item, derive_dds_interface(item))
<1> DEFINE d == derive_dds_interface(item)
           cdds == parse_cdds_attrs(item.attrs)
           keys == KeyFields(item)
           parts == item.fields
           package == cdds.package[1]
           Good == [ error |-> "none", keys |-> [i \in DOMAIN keys |-> keys[i].name],
                     msg_ref |-> << package, NameOr(cdds, item) >>,
                     idl_module |-> escape_idl_identifier(package),
                     members |-> [i \in DOMAIN parts |-> parts[i].name] ]
           NamesValid == \A i \in DOMAIN parts : validate_msg_field_name(parts[i].name)
<1>1. cdds \in Outcomes(ToSet(item.attrs))
  BY AttrsAre DEF IsStruct
<1>2. cdds.error \in {"none", "attrs"}
  <2> HIDE DEF cdds
  <2> QED BY <1>1 DEF Outcomes, Failed
<1>3. /\ d.error = "key" => ~KeysValid(item)
      /\ Derived(d) => /\ d = Good /\ KeysValid(item) /\ cdds.error = "none"
                       /\ cdds.package # << >> /\ validate_lower_snake_case(package)
                       /\ NamesValid
  <2> DEFINE Bad(e) == d = Failed(e) /\ e \notin {"none", "key"}
  <2>1. \/ \E e \in {"generic", "reserved", "package", "unnamed", "empty", "type_name",
                     "field_name", "zero"} : d = Failed(e)
        \/ d = cdds /\ cdds.error # "none"
        \/ d = Failed("key") /\ ~KeysValid(item)
        \/ /\ d = Good /\ KeysValid(item) /\ cdds.error = "none"
           /\ cdds.package # << >> /\ validate_lower_snake_case(package)
           /\ NamesValid
    BY DEF derive_dds_interface, KeysValid
  <2> HIDE DEF d, cdds, Good, NamesValid
  <2>2. CASE \E e \in {"generic", "reserved", "package", "unnamed", "empty", "type_name",
                     "field_name", "zero"} : d = Failed(e)
    BY <2>2 DEF Failed, Derived
  <2>3. CASE d = cdds /\ cdds.error # "none"
    BY <1>2, <2>3 DEF Derived
  <2>4. CASE d = Failed("key") /\ ~KeysValid(item)
    BY <2>4 DEF Failed, Derived
  <2>5. CASE /\ d = Good /\ KeysValid(item) /\ cdds.error = "none"
             /\ cdds.package # << >> /\ validate_lower_snake_case(package)
             /\ NamesValid
    BY <2>5 DEF Good
  <2> QED BY <2>1, <2>2, <2>3, <2>4, <2>5
<1>4. ASSUME Derived(d)
      PROVE  /\ SnakeCase(package)
             /\ \A k \in DOMAIN parts :
                  SnakeCase(parts[k].name) /\ parts[k].name \notin [1..1 -> Keywords]
             /\ escape_idl_identifier(package) \notin [1..1 -> Keywords]
             /\ escape_idl_identifier(package) \in {package, << "underscore" >> \o package}
  <2> HIDE DEF d, cdds, package, NamesValid, Good
  <2>1. package \in Seq(Classes)
    <3>1. cdds.package \in ArgumentsOf(ToSet(item.attrs), "package") \ {<< >>}
      BY <1>1, <1>3, <1>4 DEF Outcomes, Failed
    <3>2. PICK arg \in ToSet(item.attrs) : arg.key = "package" /\ cdds.package = << arg.value >>
      BY <3>1 DEF ArgumentsOf
    <3>3. package = arg.value
      BY <3>2 DEF package
    <3> QED BY <3>2, <3>3 DEF IsStruct, ToSet
  <2>2. SnakeCase(package)
    BY <1>3, <1>4, <2>1, SnakeIs
  <2>3. ASSUME NEW k \in DOMAIN parts
        PROVE  SnakeCase(parts[k].name) /\ parts[k].name \notin [1..1 -> Keywords]
    <3>1. parts[k].name \in Seq(Classes)
      <4>1. parts[k] \in StructField
        BY <2>3, ElementOfSeq, LenProperties DEF IsStruct
      <4> QED BY <4>1 DEF StructField
    <3>2. validate_msg_field_name(parts[k].name)
      BY <1>3, <1>4, <2>3 DEF NamesValid
    <3>3. validate_lower_snake_case(parts[k].name) /\ ~is_reserved_keyword(parts[k].name)
      BY <3>2 DEF validate_msg_field_name
    <3> HIDE DEF parts
    <3> QED BY <3>1, <3>3, SnakeIs, EscapedIs
  <2> QED BY <2>1, <2>2, <2>3, EscapedIs
<1>5. /\ Good.keys = [i \in DOMAIN keys |-> keys[i].name]
      /\ Good.msg_ref = << package, NameOr(cdds, item) >>
      /\ Good.idl_module = escape_idl_identifier(package)
      /\ Good.members = [i \in DOMAIN parts |-> parts[i].name]
  OBVIOUS
<1> HIDE DEF d, cdds, Good, NamesValid, parts, package
<1>6. << package, NameOr(cdds, item) >>[1] = package
  OBVIOUS
<1>7. Derived(d) => Good.msg_ref[1] = package /\ DOMAIN Good.members = DOMAIN parts
                      /\ \A k \in DOMAIN parts : Good.members[k] = parts[k].name
  BY <1>5, <1>6
<1>8. /\ d.error = "key" => ~KeysValid(item)
      /\ Derived(d) =>
           /\ KeysValid(item) /\ cdds.package # << >> /\ d.keys = KeyNames(item)
           /\ d.msg_ref = << package, NameOr(cdds, item) >>
           /\ SnakeCase(d.msg_ref[1])
           /\ \A k \in DOMAIN d.members :
                SnakeCase(d.members[k]) /\ d.members[k] \notin [1..1 -> Keywords]
           /\ d.idl_module \notin [1..1 -> Keywords]
           /\ d.idl_module \in {d.msg_ref[1], << "underscore" >> \o d.msg_ref[1]}
  BY <1>3, <1>4, <1>5, <1>7 DEF KeyNames
<1> QED BY <1>8 DEF d, cdds, package, InterfaceRight

(* It implies DerivesAgree.                                                 *)
LEMMA DerivesImply == DeriveInv => DerivesAgree
<1> SUFFICES ASSUME DeriveInv PROVE DerivesAgree
  OBVIOUS
<1>1. \A i \in 1..2 : IsStruct(structs[i])
  BY StructsAssumption DEF DeriveInv, IsStruct, StructField
<1>2. Pending.error = "not_expanded"
  BY DEF Pending, Failed
<1> DEFINE Cdds(i) == parse_cdds_attrs(structs[i].attrs)
           KeysOf(i) == KeyNames(structs[i])
<1>3. ASSUME NEW i \in 1..2
      PROVE  /\ topics[i].error # "unreachable"
             /\ topics[i].error = "key" => ~KeysValid(structs[i])
             /\ Derived(topics[i]) =>
                  /\ KeysValid(structs[i]) /\ topics[i].keys = KeysOf(i)
                  /\ Cdds(i).package # << >> =>
                       topics[i].typename = << Cdds(i).package[1], NameOr(Cdds(i), structs[i]) >>
                  /\ (topics[i].variable <=> StringIn(structs[i]))
                  /\ (topics[i].contained <=> InnerIn(structs[i]))
  <2>1. CASE topics[i] = Pending
    BY <1>2, <2>1 DEF Derived
  <2>2. CASE topics[i] = derive_topic(structs[i])
    BY <1>1, <2>2, TopicIs DEF TopicRight
  <2> QED BY <2>1, <2>2 DEF DeriveInv
<1>4. ASSUME NEW i \in 1..2
      PROVE  /\ interfaces[i].error = "key" => ~KeysValid(structs[i])
             /\ Derived(interfaces[i]) =>
                  /\ KeysValid(structs[i]) /\ interfaces[i].keys = KeysOf(i)
                  /\ Cdds(i).package # << >>
                  /\ interfaces[i].msg_ref = << Cdds(i).package[1], NameOr(Cdds(i), structs[i]) >>
                  /\ SnakeCase(interfaces[i].msg_ref[1])
                  /\ \A k \in DOMAIN interfaces[i].members :
                       /\ SnakeCase(interfaces[i].members[k])
                       /\ interfaces[i].members[k] \notin [1..1 -> Keywords]
                  /\ interfaces[i].idl_module \notin [1..1 -> Keywords]
                  /\ interfaces[i].idl_module \in
                       {interfaces[i].msg_ref[1], << "underscore" >> \o interfaces[i].msg_ref[1]}
  <2>1. CASE interfaces[i] = Pending
    BY <1>2, <2>1 DEF Derived
  <2>2. CASE interfaces[i] = derive_dds_interface(structs[i])
    BY <1>1, <2>2, InterfaceIs DEF InterfaceRight
  <2> QED BY <2>1, <2>2 DEF DeriveInv
<1>5. ASSUME NEW i \in 1..2, Derived(topics[1]), Derived(topics[2])
      PROVE  force_md5_keyhash(i) <=> StringInKey(i)
  <2>1. \A j \in 1..2 : InKey(j, "String") <=> StringIn(structs[j])
    BY DEF InKey, StringIn
  <2>2. \A j \in 1..2 : InKey(j, "Inner") <=> InnerIn(structs[j])
    BY DEF InKey, InnerIn
  <2>3. /\ (topics[1].variable <=> StringIn(structs[1]))
        /\ (topics[1].contained <=> InnerIn(structs[1]))
        /\ (topics[2].variable <=> StringIn(structs[2]))
    BY <1>3, <1>5
  <2> QED BY <2>1, <2>2, <2>3 DEF force_md5_keyhash, StringInKey
<1> HIDE DEF Cdds, KeysOf
<1>6. ASSUME NEW i \in 1..2
      PROVE  /\ topics[i].error # "unreachable"
             /\ topics[i].error = "key" => ~Derived(interfaces[i])
             /\ interfaces[i].error = "key" => ~Derived(topics[i])
             /\ Derived(topics[i]) /\ Derived(interfaces[i]) =>
                  /\ topics[i].keys = interfaces[i].keys
                  /\ topics[i].typename = interfaces[i].msg_ref
  BY <1>3, <1>4
<1> QED BY <1>4, <1>5, <1>6 DEF DerivesAgree

(* However the two macros expand whatever structs, in any order, they agree *)
(* on keys, names and what they refuse, and the key hash is forced exactly  *)
(* for keys with a String (derive_topic, derive_dds_interface).             *)
THEOREM MacrosAgree == DeriveSpec => []DerivesAgree
BY DerivesInit, DerivesStep, DerivesImply, PTL DEF DeriveSpec

-----------------------------------------------------------------------------
(* IdlModules *)

(* A name that a table has once means one thing.                            *)
LEMMA MeansOnce ==
  ASSUME NEW table, NEW name, NEW sense, NEW bits, << name, sense, bits >> \in table,
         \A m \in table : m[1] = name => m = << name, sense, bits >>
  PROVE  Meaning(table, name) = {<< sense, bits >>}
BY DEF Meaning

(* The table says the same of each primitive in both languages.             *)
LEMMA PrimitiveMeans ==
  ASSUME NEW p \in { q[1] : q \in Primitives }
  PROVE  /\ Meaning(IdlMeans, Primitive(p)[2]) # {}
         /\ Meaning(IdlMeans, Primitive(p)[2]) = Meaning(MsgMeans, Primitive(p)[3])
<1>1. PICK q \in Primitives : p = q[1]
  OBVIOUS
<1>2. \A r \in Primitives : r[1] = q[1] => r = q
  BY DEF Primitives
<1>3. Primitive(p) = q
  BY <1>1, <1>2 DEF Primitive
<1>4. PICK sense, bits :
        << q[2], sense, bits >> \in IdlMeans /\ << q[3], sense, bits >> \in MsgMeans
  BY DEF Primitives, IdlMeans, MsgMeans
<1>5. \A m \in IdlMeans : m[1] = q[2] => m = << q[2], sense, bits >>
  BY <1>4 DEF IdlMeans
<1>6. \A m \in MsgMeans : m[1] = q[3] => m = << q[3], sense, bits >>
  BY <1>4 DEF MsgMeans
<1>7. /\ Meaning(IdlMeans, q[2]) = {<< sense, bits >>}
      /\ Meaning(MsgMeans, q[3]) = {<< sense, bits >>}
  BY <1>4, <1>5, <1>6, MeansOnce
<1> QED BY <1>3, <1>7

(* What the modules of a definition leave open, and what it declares        *)
ScopedName(d) == Append(idl_module_open(mode, d.package), idl_type_name(mode, d.name))

Passed(u) == u < at[1] \/ (u = at[1] /\ at[2] = "close")

NoEmpties == \A i \in DOMAIN mode.middle : mode.middle[i] # Empty

(* The scope is that of the definition under way; the structs behind it are *)
(* declared, and so were those that their fields name                       *)
ScopeInv ==
  /\ mode \in Modes /\ defs \in Definitions
  /\ at \in Nat \X {"open", "struct", "close"} /\ at[1] > 0
  /\ at[2] # "open" => at[1] <= Len(defs)
  /\ at[1] <= Len(defs) + 1
  /\ scope = IF at[2] = "open" THEN << >> ELSE idl_module_open(mode, Current.package)
  /\ \A u \in 1..Len(defs) : Passed(u) => ScopedName(defs[u]) \in declared

FieldFound(f) ==
  /\ f.struct \in 1..Len(defs) /\ f.field \in DOMAIN defs[f.struct].fields
  /\ LET field == defs[f.struct].fields[f.field] IN
     IF field.struct > 0 THEN NoEmpties => f.met
     ELSE f.idl.ref = << Primitive(field.prim)[2] >>

(* The sections are those of the structs so far, the last one first         *)
SectionRight(s, t) ==
  /\ t # Len(defs) => s.header = << MsgName(t) >>
  /\ \A i \in DOMAIN s.fields :
       Len(s.fields[i].ref) = 2 => \E u \in 1..t - 1 : s.fields[i].ref = MsgName(u)

SectionsInv ==
  /\ \E S : sections \in Seq(S)
  /\ Len(sections) = at[1] - 1
  /\ \A i \in 1..at[1] - 1 : SectionRight(sections[i], at[1] - i)

TextInv == ScopeInv /\ (\A f \in idl_fields : FieldFound(f)) /\ SectionsInv

(* What the modes and the definitions are                                   *)
LEMMA TextData ==
  ASSUME ScopeInv
  PROVE  /\ mode.middle \in Seq(STRING) /\ Len(defs) \in Nat /\ DOMAIN defs = 1..Len(defs)
         /\ middle_segments(mode) \in Seq(STRING)
         /\ NoEmpties => middle_segments(mode) = mode.middle
         /\ \A t \in 1..Len(defs) : defs[t].fields \in Seq(Field(t - 1))
<1>1. /\ mode.middle \in Seq(STRING) /\ Len(defs) \in Nat /\ DOMAIN defs = 1..Len(defs)
      /\ \A t \in 1..Len(defs) : defs[t].fields \in Seq(Field(t - 1))
  BY IdlAssumption DEF ScopeInv
<1>2. middle_segments(mode) \in Seq(STRING)
  BY <1>1, KeptOf DEF middle_segments
<1>3. ASSUME NoEmpties PROVE middle_segments(mode) = mode.middle
  <2>1. DOMAIN mode.middle = 1..Len(mode.middle)
    BY <1>1, LenProperties
  <2>2. \A k \in 1..Len(mode.middle) : mode.middle[k] \in ToSet(mode.middle) \ {Empty}
    BY <1>3, <2>1 DEF NoEmpties, ToSet
  <2> QED BY <1>1, <2>2, KeptWhole DEF middle_segments
<1> QED BY <1>1, <1>2, <1>3

(* What is opened is a sequence, one longer than the segments.              *)
LEMMA OpenedIs ==
  ASSUME ScopeInv, NEW p
  PROVE  /\ idl_module_open(mode, p) \in Seq(STRING \cup {p})
         /\ Len(idl_module_open(mode, p)) = idl_module_close(mode)
         /\ idl_module_close(mode) \in Nat
<1> DEFINE S == STRING \cup {p}
           mids == middle_segments(mode)
<1>1. mids \in Seq(STRING)
  BY TextData
<1>2. mids \in Seq(S) /\ << p >> \in Seq(S) /\ Len(mids) \in Nat /\ Len(<< p >>) = 1
  BY <1>1, WiderSeq, LenProperties
<1> HIDE DEF mids
<1>3. << p >> \o mids \in Seq(S) /\ Len(<< p >> \o mids) = 1 + Len(mids)
  BY <1>2, ConcatProperties
<1> QED BY <1>2, <1>3 DEF idl_module_open, idl_module_close, mids

(* Without empty segments a reference is the scoped name.                   *)
LEMMA RefIsScoped ==
  ASSUME ScopeInv, NoEmpties, NEW d
  PROVE  idl_type_ref(mode, d.package, d.name) = ScopedName(d)
<1> DEFINE p == d.package
           x == idl_type_name(mode, d.name)
           S == STRING \cup {p, x}
           o == << p >> \o mode.middle
<1>1. mode.middle \in Seq(STRING) /\ middle_segments(mode) = mode.middle
  BY TextData
<1>2. mode.middle \in Seq(S) /\ << p >> \in Seq(S)
  BY <1>1, WiderSeq
<1>3. o \in Seq(S)
  BY <1>2, ConcatProperties
<1>4. x \in S
  OBVIOUS
<1>5. Append(o, x) = o \o << x >>
  <2> HIDE DEF S, o, x
  <2> QED BY <1>3, <1>4, AppendIsConcat
<1> QED BY <1>1, <1>5 DEF idl_type_ref, ScopedName, idl_module_open

(* What a field of a definition is                                          *)
LEMMA FieldIs ==
  ASSUME ScopeInv, NEW t \in 1..Len(defs), NEW i \in DOMAIN defs[t].fields
  PROVE  /\ defs[t].fields[i] \in Field(t - 1)
         /\ defs[t].fields[i].struct > 0 =>
              /\ defs[t].fields[i].struct \in 1..t - 1
              /\ defs[t].fields[i].struct \in 1..Len(defs)
<1>1. defs[t].fields \in Seq(Field(t - 1)) /\ Len(defs) \in Nat
  BY TextData
<1>2. defs[t].fields[i] \in Field(t - 1)
  BY <1>1, ElementOfSeq, LenProperties
<1>3. defs[t].fields[i].struct \in 0..t - 1
  BY <1>2 DEF Field
<1> QED BY <1>1, <1>2, <1>3

LEMMA SectionIs ==
  ASSUME ScopeInv, NEW t \in 1..Len(defs) PROVE SectionRight(Section(t), t)
<1>1. t # Len(defs) => Section(t).header = << MsgName(t) >>
  BY DEF Section
<1>2. ASSUME NEW i \in DOMAIN Section(t).fields, Len(Section(t).fields[i].ref) = 2
      PROVE  \E u \in 1..t - 1 : Section(t).fields[i].ref = MsgName(u)
  <2> DEFINE f == defs[t].fields[i]
  <2>1. i \in DOMAIN defs[t].fields /\ Section(t).fields[i].ref = ElementMsg(f)
    BY DEF Section, MsgField
  <2>2. f.struct > 0
    <3>1. Len(<< Primitive(f.prim)[3] >>) = 1
      OBVIOUS
    <3> QED BY <1>2, <2>1, <3>1 DEF ElementMsg
  <2>3. f.struct \in 1..t - 1
    BY <2>1, <2>2, FieldIs
  <2> QED BY <2>1, <2>2, <2>3 DEF ElementMsg
<1> QED BY <1>1, <1>2 DEF SectionRight

(* TextInv holds of a text just begun, *)
LEMMA TextInit == IdlInit => TextInv
<1> SUFFICES ASSUME IdlInit PROVE TextInv
  OBVIOUS
<1>1. Len(defs) \in Nat
  BY IdlAssumption DEF IdlInit
<1>2. ScopeInv
  BY <1>1 DEF IdlInit, ScopeInv, Passed
<1>3. SectionsInv
  <2>1. sections = << >> /\ at[1] = 1
    BY DEF IdlInit
  <2>2. sections \in Seq({}) /\ Len(sections) = 0
    BY <2>1
  <2> QED BY <2>1, <2>2 DEF SectionsInv
<1> QED BY <1>2, <1>3 DEF IdlInit, TextInv

(* and after every piece. *)
LEMMA TextStep == TextInv /\ [IdlNext]_idlVars => TextInv'
<1> SUFFICES ASSUME TextInv, [IdlNext]_idlVars PROVE TextInv'
  OBVIOUS
<1>0. /\ Len(defs) \in Nat /\ at[1] \in Nat /\ at[1] > 0 /\ ScopeInv /\ SectionsInv
      /\ \A f \in idl_fields : FieldFound(f)
  BY TextData DEF TextInv, ScopeInv
<1>1. CASE OpenModules
  <2>1. /\ at[1] <= Len(defs) /\ at[2] = "open" /\ at' = << at[1], "struct" >>
        /\ scope' = scope \o idl_module_open(mode, Current.package)
        /\ UNCHANGED << mode, defs, declared, idl_fields, sections >>
    BY <1>1 DEF OpenModules
  <2>2. scope' = idl_module_open(mode, Current.package)
    <3>1. scope = << >>
      BY <1>0, <2>1 DEF ScopeInv
    <3>2. idl_module_open(mode, Current.package) \in Seq(STRING \cup {Current.package})
      BY <1>0, OpenedIs
    <3> QED BY <2>1, <3>1, <3>2, ConcatEmptySeq
  <2>3. Current' = Current /\ at'[1] = at[1] /\ at'[2] = "struct"
    BY <2>1 DEF Current
  <2>4. \A u \in 1..Len(defs) : Passed(u)' => Passed(u)
    BY <1>0, <2>1, <2>3 DEF Passed
  <2>5. ScopeInv'
    BY <1>0, <2>1, <2>2, <2>3, <2>4 DEF ScopeInv, ScopedName
  <2>6. SectionsInv'
    BY <1>0, <2>1, <2>3 DEF SectionsInv, SectionRight, MsgName
  <2>7. \A f \in idl_fields' : FieldFound(f)'
    BY <1>0, <2>1 DEF FieldFound, NoEmpties
  <2> QED BY <2>5, <2>6, <2>7 DEF TextInv
<1>2. CASE DeclareStruct
  <2> DEFINE new == { [ struct |-> at[1], field |-> i, idl |-> IdlField(Current.fields[i]),
                        met |-> IdlField(Current.fields[i]).ref \in declared ]
                      : i \in DOMAIN Current.fields }
  <2>1. /\ at[1] <= Len(defs) /\ at[2] = "struct" /\ at' = << at[1], "close" >>
        /\ declared' = declared \cup {Append(scope, idl_type_name(mode, Current.name))}
        /\ idl_fields' = idl_fields \cup new
        /\ UNCHANGED << mode, defs, scope, sections >>
    BY <1>2 DEF DeclareStruct
  <2>2. Current' = Current /\ at'[1] = at[1] /\ at'[2] = "close" /\ at[1] \in 1..Len(defs)
    BY <1>0, <2>1 DEF Current
  <2>3. scope = idl_module_open(mode, Current.package)
    BY <1>0, <2>1 DEF ScopeInv
  <2>4. ASSUME NEW u \in 1..Len(defs), Passed(u)' PROVE ScopedName(defs[u]) \in declared'
    <3>1. CASE u = at[1]
      BY <2>1, <2>3, <3>1 DEF ScopedName, Current
    <3>2. CASE u # at[1]
      <4>1. Passed(u)
        BY <1>0, <2>2, <2>4, <3>2 DEF Passed
      <4> QED BY <1>0, <2>1, <4>1 DEF ScopeInv
    <3> QED BY <3>1, <3>2
  <2>5. ScopeInv'
    BY <1>0, <2>1, <2>2, <2>3, <2>4 DEF ScopeInv, ScopedName
  <2>6. SectionsInv'
    BY <1>0, <2>1, <2>2 DEF SectionsInv, SectionRight, MsgName
  <2>7. ASSUME NEW f \in new PROVE FieldFound(f)
    <3>1. PICK i \in DOMAIN Current.fields :
            f = [ struct |-> at[1], field |-> i, idl |-> IdlField(Current.fields[i]),
                  met |-> IdlField(Current.fields[i]).ref \in declared ]
      BY <2>7
    <3> DEFINE field == defs[at[1]].fields[i]
    <3>2. /\ f.struct = at[1] /\ f.field = i /\ f.idl.ref = ElementIdl(field)
          /\ f.met = (ElementIdl(field) \in declared)
      BY <3>1 DEF Current, IdlField
    <3>3. i \in DOMAIN defs[at[1]].fields
      BY <3>1 DEF Current
    <3>4. field.struct \in 0..at[1] - 1
      BY <1>0, <2>2, <3>3, FieldIs DEF Field
    <3>5. ASSUME NoEmpties, field.struct > 0 PROVE ElementIdl(field) \in declared
      <4>1. field.struct \in 1..Len(defs) /\ field.struct < at[1]
        BY <1>0, <2>1, <3>4, <3>5
      <4>2. ElementIdl(field) = ScopedName(defs[field.struct])
        BY <1>0, <3>5, RefIsScoped DEF ElementIdl
      <4> HIDE DEF field
      <4>3. Passed(field.struct)
        BY <4>1 DEF Passed
      <4> QED BY <1>0, <4>1, <4>2, <4>3 DEF ScopeInv
    <3>6. ~(field.struct > 0) => f.idl.ref = << Primitive(field.prim)[2] >>
      BY <3>2 DEF ElementIdl
    <3>7. defs[f.struct].fields[f.field] = field
      BY <3>2
    <3>8. field.struct > 0 => (NoEmpties => f.met)
      BY <3>2, <3>5
    <3> HIDE DEF new, field
    <3> QED BY <2>2, <3>2, <3>3, <3>6, <3>7, <3>8 DEF FieldFound
  <2> HIDE DEF new
  <2>8. \A f \in idl_fields' : FieldFound(f)
    BY <1>0, <2>1, <2>7
  <2>9. \A f \in idl_fields' : FieldFound(f)'
    BY <2>1, <2>8 DEF FieldFound, NoEmpties
  <2> QED BY <2>5, <2>6, <2>9 DEF TextInv
<1>3. CASE CloseModules
  <2> DEFINE n == at[1]
  <2>1. /\ n <= Len(defs) /\ at[2] = "close" /\ at' = << n + 1, "open" >>
        /\ scope' = SubSeq(scope, 1, Len(scope) - idl_module_close(mode))
        /\ sections' = << Section(n) >> \o sections
        /\ UNCHANGED << mode, defs, declared, idl_fields >>
    BY <1>3 DEF CloseModules
  <2>2. at'[1] = n + 1 /\ at'[2] = "open" /\ n \in 1..Len(defs) /\ n \in Nat \ {0}
    BY <1>0, <2>1
  <2>3. scope' = << >>
    <3>1. scope = idl_module_open(mode, Current.package)
      BY <1>0, <2>1 DEF ScopeInv
    <3>2. Len(scope) = idl_module_close(mode) /\ idl_module_close(mode) \in Nat
      BY <1>0, <3>1, OpenedIs
    <3>3. Len(scope) - idl_module_close(mode) = 0
      BY <3>2
    <3> QED BY <2>1, <3>3, SubSeqEmpty
  <2>4. \A u \in 1..Len(defs) : Passed(u)' => Passed(u)
    BY <1>0, <2>1, <2>2 DEF Passed
  <2>5. ScopeInv'
    <3>1. n + 1 \in Nat /\ n + 1 > 0 /\ n + 1 <= Len(defs) + 1
      BY <1>0, <2>1
    <3> HIDE DEF n
    <3> QED BY <1>0, <2>1, <2>2, <2>3, <2>4, <3>1 DEF ScopeInv, ScopedName
  <2>6. SectionsInv'
    <3>1. PICK R : sections \in Seq(R)
      BY <1>0 DEF SectionsInv
    <3> DEFINE S == R \cup {Section(n)}
    <3>2. sections \in Seq(S) /\ Section(n) \in S /\ Len(sections) = n - 1
      BY <1>0, <3>1, WiderSeq DEF SectionsInv
    <3> HIDE DEF S
    <3>3. /\ sections' \in Seq(S) /\ DOMAIN sections' = 1..Len(sections) + 1
          /\ sections'[1] = Section(n)
          /\ \A i \in 2..Len(sections) + 1 :
               i - 1 \in 1..Len(sections) /\ sections'[i] = sections[i - 1]
      BY <2>1, <3>2, Prepended
    <3>4. Len(sections') = n
      <4>1. Len(<< Section(n) >>) = 1 /\ << Section(n) >> \in Seq(S)
        BY <3>2
      <4> HIDE DEF n
      <4> QED BY <2>1, <2>2, <3>2, <4>1, ConcatProperties
    <3>5. ASSUME NEW i \in 1..n PROVE SectionRight(sections'[i], n + 1 - i)
      <4>1. CASE i = 1
        <5>1. n + 1 - i = n
          BY <1>0, <4>1
        <5> QED BY <1>0, <2>2, <3>3, <4>1, <5>1, SectionIs
      <4>2. CASE i # 1
        <5>1. i \in 2..Len(sections) + 1 /\ i - 1 \in 1..n - 1 /\ n - (i - 1) = n + 1 - i
          BY <1>0, <3>2, <4>2
        <5>2. SectionRight(sections[i - 1], n - (i - 1))
          BY <1>0, <5>1 DEF SectionsInv
        <5> QED BY <3>3, <5>1, <5>2
      <4> QED BY <4>1, <4>2
    <3>6. ASSUME NEW i \in 1..n PROVE SectionRight(sections[i], at[1] - i)'
      <4>1. SectionRight(sections'[i], n + 1 - i) /\ at'[1] - i = n + 1 - i
        BY <2>2, <3>5
      <4> HIDE DEF n
      <4> QED BY <2>1, <4>1 DEF SectionRight, MsgName
    <3>7. n + 1 - 1 = n
      BY <2>2
    <3> HIDE DEF n
    <3> QED BY <2>2, <3>3, <3>4, <3>6, <3>7 DEF SectionsInv
  <2>7. \A f \in idl_fields' : FieldFound(f)'
    BY <1>0, <2>1 DEF FieldFound, NoEmpties
  <2> QED BY <2>5, <2>6, <2>7 DEF TextInv
<1>4. CASE UNCHANGED idlVars
  <2>1. /\ mode' = mode /\ defs' = defs /\ at' = at /\ scope' = scope
        /\ declared' = declared /\ idl_fields' = idl_fields /\ sections' = sections
    BY <1>4 DEF idlVars
  <2>2. ScopeInv'
    BY <1>0, <2>1 DEF ScopeInv, ScopedName, Passed, Current
  <2>3. SectionsInv'
    BY <1>0, <2>1 DEF SectionsInv, SectionRight, MsgName
  <2>4. \A f \in idl_fields' : FieldFound(f)'
    BY <1>0, <2>1 DEF FieldFound, NoEmpties
  <2> QED BY <2>2, <2>3, <2>4 DEF TextInv
<1> QED BY <1>1, <1>2, <1>3, <1>4 DEF IdlNext

(* It implies TextsResolve.                                                 *)
LEMMA TextImplies == TextInv => TextsResolve
<1> SUFFICES ASSUME TextInv PROVE TextsResolve
  OBVIOUS
<1>0. ScopeInv /\ SectionsInv /\ Len(defs) \in Nat /\ \A f \in idl_fields : FieldFound(f)
  BY TextData DEF TextInv
<1>1. Balanced
  BY <1>0 DEF ScopeInv, Balanced
<1>2. ASSUME NoEmpties PROVE ReferencesResolve
  <2> SUFFICES ASSUME NEW f \in idl_fields PROVE NamesAStruct(f)
    BY DEF ReferencesResolve
  <2> DEFINE field == defs[f.struct].fields[f.field]
  <2>1. FieldFound(f)
    BY <1>0
  <2>2. field \in Field(f.struct - 1)
    BY <1>0, <2>1, FieldIs DEF FieldFound
  <2>3. CASE field.struct > 0
    BY <1>2, <2>1, <2>3 DEF FieldFound, NamesAStruct
  <2>4. CASE ~(field.struct > 0)
    <3>1. f.idl.ref = << Primitive(field.prim)[2] >>
      BY <2>1, <2>4 DEF FieldFound
    <3>2. ElementMsg(field) = << Primitive(field.prim)[3] >>
      BY <2>4 DEF ElementMsg
    <3>3. f.idl.ref[1] = Primitive(field.prim)[2] /\ ElementMsg(field)[1] = Primitive(field.prim)[3]
      BY <3>1, <3>2
    <3>4. field.prim \in { q[1] : q \in Primitives }
      BY <2>2 DEF Field
    <3>5. /\ Meaning(IdlMeans, f.idl.ref[1]) # {}
          /\ Meaning(IdlMeans, f.idl.ref[1]) = Meaning(MsgMeans, ElementMsg(field)[1])
      BY <3>3, <3>4, PrimitiveMeans
    <3> QED BY <2>4, <3>5 DEF NamesAStruct
  <2> QED BY <2>3, <2>4
<1>3. ASSUME at[1] > Len(defs) PROVE Followed
  <2> DEFINE n == Len(defs)
  <2>1. at[1] = n + 1 /\ at[1] - 1 = n
    BY <1>0, <1>3 DEF ScopeInv
  <2>2. DOMAIN sections = 1..n /\ \A i \in 1..n : SectionRight(sections[i], n + 1 - i)
    BY <1>0, <2>1, LenProperties DEF SectionsInv
  <2> SUFFICES ASSUME NEW i \in 1..n, NEW k \in DOMAIN sections[i].fields,
                      Len(sections[i].fields[k].ref) = 2
               PROVE  \E j \in 1..n : j > i /\ sections[j].header = << sections[i].fields[k].ref >>
    BY <2>2 DEF Followed
  <2>3. PICK u \in 1..n + 1 - i - 1 : sections[i].fields[k].ref = MsgName(u)
    BY <2>2 DEF SectionRight
  <2>4. n + 1 - u \in 1..n /\ n + 1 - u > i /\ n + 1 - (n + 1 - u) = u /\ u # n
    BY <1>0
  <2>5. sections[n + 1 - u].header = << MsgName(u) >>
    BY <2>2, <2>4 DEF SectionRight
  <2> QED BY <2>3, <2>4, <2>5
<1> QED BY <1>1, <1>2, <1>3 DEF TextsResolve, NoEmpties

(* The text that comes out of any definitions in order closes its modules,  *)
(* its references name structs that are there in both languages, and        *)
(* primitives mean the same (NsMode::idl_type_ref, idl_module_open and      *)
(* close, MsgDefRegistry::render): for any structs and any middle, but for  *)
(* middles with empty segments, where references do not resolve.            *)
THEOREM TextsAreSound == IdlSpec => []TextsResolve
BY TextInit, TextStep, TextImplies, PTL DEF IdlSpec
=============================================================================
