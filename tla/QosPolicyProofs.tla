------------------------- MODULE QosPolicyProofs ----------------------------
(***************************************************************************)
(* What the runs show of the policies for small widths, proved for every *)
(* width, and of the handles for all of them.                              *)
(***************************************************************************)
EXTENDS QosPolicy, QosHandles, DataLemmas, SequenceTheorems, TLAPS

(* to_qos was asked for a policy it accepts, and a history that this crate *)
(* set can be asked for again                                              *)
IInv ==
  /\ QosTypeOK
  /\ origin = "policy" => Builds(source) /\ qos = to_qos(source)
  /\ origin # "discovery" /\ qos.history # NotSet =>
       validate_history(qos.history.kind, qos.history.depth)

(* A saturated product is an i32 and not less than its positive factor *)
LEMMA Saturates ==
  ASSUME NEW d \in I32
  PROVE  /\ saturating_mul(d, SupportInstances) \in I32
         /\ d > 0 => saturating_mul(d, SupportInstances) >= d
BY QosPolicyAssumption DEF I32, saturating_mul, SupportInstances

(* What to_qos limits a depth to is well formed *)
LEMMA LimitsTyped ==
  ASSUME NEW d \in I32
  PROVE  LimitsFor(d) \in Limits
<1>1. SupportInstances \in I32
  BY QosPolicyAssumption DEF I32, SupportInstances
<1> QED
  BY <1>1, Saturates DEF LimitsFor, Limits

(* The limits fit the depth they were made for *)
LEMMA DepthFits ==
  ASSUME NEW d \in I32, d > 0
  PROVE  LimitsFit([kind |-> "KEEP_LAST", depth |-> d], LimitsFor(d))
<1> DEFINE m == saturating_mul(d, SupportInstances)
<1>1. m \in Int /\ d \in Int /\ m >= d
  BY Saturates, QosPolicyAssumption DEF I32
<1>2. /\ LimitsFor(d).samples = m
      /\ LimitsFor(d).instances = 4
      /\ LimitsFor(d).perInstance = d
  BY DEF LimitsFor, SupportInstances
<1> HIDE DEF m
<1> QED
  BY <1>1, <1>2 DEF LimitsFit

(* Durations are clamped from both sides *)
LEMMA DurationsTyped ==
  ASSUME NEW d \in Nat
  PROVE  to_dds_duration(d) \in DdsDuration /\ to_dds_duration(d) >= 0
BY QosPolicyAssumption DEF to_dds_duration, DdsDuration

(* A synchronised depth is a NonZeroU16 and, but for 1, never more than it  *)
(* was                                                                      *)
LEMMA SyncDepthTyped ==
  ASSUME NEW d \in I32
  PROVE  /\ sync_depth(d) \in 1..U16Max
         /\ sync_depth(d) = 1 \/ sync_depth(d) <= d
         /\ d \in 1..U16Max => sync_depth(d) = d
BY QosPolicyAssumption DEF sync_depth, I32

(* Every part of what to_qos builds is a policy of dds_qos_t *)
LEMMA ToQosTyped ==
  ASSUME NEW p, IsPolicy(p)
  PROVE  to_qos(p) \in DdsQos
<1>1. ToHistory(p.history) \in History
  BY QosPolicyAssumption DEF IsPolicy, ToHistory, History, I32
<1>2. ToReliability(p) \in Reliability
  <2>1. to_dds_duration(HundredMillis) \in DdsDuration
    BY DurationsTyped, QosPolicyAssumption
  <2>2. to_dds_duration(p.reliability.blocking) \in DdsDuration
    BY DurationsTyped DEF IsPolicy
  <2>3. 0 \in DdsDuration
    BY QosPolicyAssumption DEF DdsDuration
  <2> QED
    BY <2>1, <2>2, <2>3 DEF ToReliability, Reliability
<1>3. (IF p.history.kind = "KeepLast" THEN LimitsFor(p.history.depth) ELSE NotSet)
        \in Limits \cup {NotSet}
  BY LimitsTyped DEF IsPolicy
<1>4. ToService(p.durability) \in Service \cup {NotSet}
  <2>1. p.durability.sync_depth \in I32
    BY QosPolicyAssumption DEF IsPolicy, I32
  <2>2. LimitsFor(p.durability.sync_depth) \in Limits
    BY <2>1, LimitsTyped
  <2> QED
    BY <2>1, <2>2 DEF ToService, Service, History
<1>5. (IF p.durability.kind = "Volatile" THEN "VOLATILE" ELSE "TRANSIENT_LOCAL")
        \in Durability
  BY DEF Durability
<1> QED
  BY <1>1, <1>2, <1>3, <1>4, <1>5 DEF to_qos, DdsQos

(* A summary is a policy, whatever the peer sent *)
LEMMA FromTyped ==
  ASSUME NEW q \in DdsQos
  PROVE  IsPolicy(from(q))
<1>0. /\ q.history \in History \cup {NotSet}
      /\ q.reliability \in Reliability \cup {NotSet}
      /\ q.service \in Service \cup {NotSet}
  BY DEF DdsQos
<1>1. /\ FromHistory(q.history) \in [kind : {"KeepLast", "KeepAll"}, depth : I32]
      /\ FromHistory(q.history).kind = "KeepAll" => FromHistory(q.history).depth = 0
  BY <1>0, QosPolicyAssumption
  DEF FromHistory, History, KeepLast, KeepAll, I32, SupportInstances
<1>2. /\ FromReliability(q.reliability)
           \in [kind : {"Reliable", "BestEffort"}, blocking : Nat]
      /\ FromReliability(q.reliability).kind = "BestEffort" =>
           FromReliability(q.reliability).blocking = 0
  BY <1>0, QosPolicyAssumption
  DEF FromReliability, Reliability, Reliable, BestEffort, from_dds_duration,
      DdsDuration
<1>3. /\ FromDurability(q)
           \in [kind : {"TransientLocal", "Volatile"}, sync_depth : 0..U16Max]
      /\ FromDurability(q).kind = "Volatile" <=> FromDurability(q).sync_depth = 0
  <2>1. CASE q.durability \in {NotSet, "VOLATILE"}
    BY <2>1, QosPolicyAssumption DEF FromDurability, Volatile
  <2>2. CASE q.durability \notin {NotSet, "VOLATILE"}
    <3>1. \E n \in 1..U16Max : FromDurability(q) = TransientLocal(n)
      <4>1. CASE q.service = NotSet
        BY <2>2, <4>1, QosPolicyAssumption DEF FromDurability
      <4>2. CASE q.service # NotSet
        <5>1. q.service.history.depth \in I32
          BY <1>0, <4>2 DEF Service, History
        <5> QED
          BY <2>2, <4>2, <5>1, SyncDepthTyped, QosPolicyAssumption DEF FromDurability
      <4> QED
        BY <4>1, <4>2
    <3> QED
      BY <3>1 DEF TransientLocal
  <2> QED
    BY <2>1, <2>2
<1> QED
  BY <1>1, <1>2, <1>3 DEF IsPolicy, from

(* What is built from an accepted policy passes the checks of an endpoint *)
LEMMA BuiltPasses ==
  ASSUME NEW p, IsPolicy(p), Builds(p)
  PROVE  Accepted(to_qos(p))
<1>1. /\ to_qos(p).history # NotSet => HistoryFits(to_qos(p).history)
      /\ to_qos(p).history # NotSet /\ to_qos(p).limits # NotSet =>
           LimitsFit(to_qos(p).history, to_qos(p).limits)
  <2>1. CASE p.history.kind = "KeepLast"
    <3>1. p.history.depth \in I32 /\ p.history.depth > 0
      BY <2>1 DEF IsPolicy, Builds, validate_history, I32
    <3>2. to_qos(p).history = [kind |-> "KEEP_LAST", depth |-> p.history.depth]
      BY <2>1 DEF to_qos, ToHistory
    <3>3. to_qos(p).limits = LimitsFor(p.history.depth)
      BY <2>1 DEF to_qos
    <3>4. LimitsFit(to_qos(p).history, to_qos(p).limits)
      BY <3>1, <3>2, <3>3, DepthFits
    <3> QED
      BY <3>1, <3>2, <3>4 DEF HistoryFits
  <2>2. CASE p.history.kind # "KeepLast"
    <3>1. to_qos(p).history.kind = "KEEP_ALL" /\ to_qos(p).limits = NotSet
      BY <2>2 DEF to_qos, ToHistory
    <3> QED
      BY <3>1 DEF HistoryFits
  <2> QED
    BY <2>1, <2>2
<1>2. to_qos(p).reliability.blocking >= 0
  <2>1. to_qos(p).reliability = ToReliability(p)
    BY DEF to_qos
  <2>2. to_dds_duration(HundredMillis) >= 0
    BY DurationsTyped, QosPolicyAssumption
  <2>3. to_dds_duration(p.reliability.blocking) >= 0
    BY DurationsTyped DEF IsPolicy
  <2> QED
    BY <2>1, <2>2, <2>3 DEF ToReliability
<1>3. to_qos(p).service # NotSet =>
        /\ HistoryFits(to_qos(p).service.history)
        /\ LimitsFit(to_qos(p).service.history, to_qos(p).service.limits)
  <2> SUFFICES ASSUME to_qos(p).service # NotSet
               PROVE  /\ HistoryFits(to_qos(p).service.history)
                      /\ LimitsFit(to_qos(p).service.history,
                                   to_qos(p).service.limits)
    OBVIOUS
  <2> DEFINE d == p.durability.sync_depth
  <2>1. p.durability.kind # "Volatile"
    BY DEF to_qos, ToService
  <2>2. d \in I32 /\ d > 0
    BY <2>1, QosPolicyAssumption DEF IsPolicy, I32
  <2>3. to_qos(p).service = [ history |-> [kind |-> "KEEP_LAST", depth |-> d],
                              limits |-> LimitsFor(d) ]
    BY <2>1 DEF to_qos, ToService
  <2> HIDE DEF d
  <2>4. LimitsFit([kind |-> "KEEP_LAST", depth |-> d], LimitsFor(d))
    BY <2>2, DepthFits
  <2> QED
    BY <2>2, <2>3, <2>4 DEF HistoryFits
<1> QED
  BY <1>1, <1>2, <1>3 DEF Accepted

(* A policy is its own summary, up to the two overrides of to_qos *)
LEMMA RoundTrip ==
  ASSUME NEW p, IsPolicy(p)
  PROVE  from(to_qos(p)) = Normal(p)
<1>0. to_qos(p) \in DdsQos
  BY ToQosTyped
<1>1. FromHistory(to_qos(p).history) = p.history
  <2>1. to_qos(p).history = ToHistory(p.history) /\ ToHistory(p.history) # NotSet
    BY NotSetAssumption, QosPolicyAssumption
    DEF to_qos, ToHistory, IsPolicy, History, I32
  <2>2. CASE p.history.kind = "KeepLast"
    <3>1. FromHistory(to_qos(p).history) = KeepLast(p.history.depth)
      BY <2>1, <2>2 DEF FromHistory, ToHistory
    <3> QED
      BY <2>2, <3>1 DEF IsPolicy, KeepLast
  <2>3. CASE p.history.kind # "KeepLast"
    <3>1. FromHistory(to_qos(p).history) = KeepAll
      BY <2>1, <2>3 DEF FromHistory, ToHistory
    <3> QED
      BY <2>3, <3>1 DEF IsPolicy, KeepAll
  <2> QED
    BY <2>2, <2>3
<1>2. FromReliability(to_qos(p).reliability) = Normal(p).reliability
  <2> DEFINE b == p.reliability.blocking
  <2>1. /\ to_qos(p).reliability = ToReliability(p)
        /\ ToReliability(p) # NotSet
    <3>1. to_qos(p).reliability = ToReliability(p)
      BY DEF to_qos
    <3>2. to_dds_duration(HundredMillis) \in DdsDuration
      BY DurationsTyped, QosPolicyAssumption
    <3>3. to_dds_duration(b) \in DdsDuration
      BY DurationsTyped DEF IsPolicy
    <3>4. 0 \in DdsDuration
      BY QosPolicyAssumption DEF DdsDuration
    <3>5. ToReliability(p) \in Reliability
      BY <3>2, <3>3, <3>4 DEF ToReliability, Reliability
    <3> QED
      BY <3>1, <3>5, NotSetAssumption
  <2>2. Normal(p).reliability =
          IF p.reliability.kind = "Reliable"
          THEN Reliable(IF b > Infinity THEN Infinity ELSE b)
          ELSE IF p.durability.kind = "TransientLocal" THEN Reliable(HundredMillis)
          ELSE BestEffort
    BY DEF Normal, IsPolicy
  <2>3. b \in Nat
    BY DEF IsPolicy
  <2>4. /\ from_dds_duration(to_dds_duration(b)) =
             IF b > Infinity THEN Infinity ELSE b
        /\ from_dds_duration(to_dds_duration(HundredMillis)) = HundredMillis
    BY <2>3, QosPolicyAssumption DEF from_dds_duration, to_dds_duration
  <2> HIDE DEF b
  <2>5. CASE p.reliability.kind = "Reliable"
    <3>1. ToReliability(p) = [kind |-> "RELIABLE", blocking |-> to_dds_duration(b)]
      BY <2>5 DEF ToReliability, b
    <3> QED
      BY <2>1, <2>2, <2>4, <2>5, <3>1 DEF FromReliability
  <2>6. CASE /\ p.reliability.kind # "Reliable"
             /\ p.durability.kind = "TransientLocal"
    <3>1. ToReliability(p) =
            [kind |-> "RELIABLE", blocking |-> to_dds_duration(HundredMillis)]
      BY <2>6 DEF ToReliability
    <3> QED
      BY <2>1, <2>2, <2>4, <2>6, <3>1 DEF FromReliability
  <2>7. CASE /\ p.reliability.kind # "Reliable"
             /\ p.durability.kind # "TransientLocal"
    <3>1. ToReliability(p) = [kind |-> "BEST_EFFORT", blocking |-> 0]
      BY <2>7 DEF ToReliability
    <3> QED
      BY <2>1, <2>2, <2>7, <3>1 DEF FromReliability
  <2> QED
    BY <2>5, <2>6, <2>7
<1>3. FromDurability(to_qos(p)) = p.durability
  <2>1. CASE p.durability.kind = "Volatile"
    <3>1. FromDurability(to_qos(p)) = Volatile
      BY <2>1 DEF FromDurability, to_qos
    <3> QED
      BY <2>1, <3>1 DEF IsPolicy, Volatile
  <2>2. CASE p.durability.kind # "Volatile"
    <3> DEFINE d == p.durability.sync_depth
    <3>1. d \in 1..U16Max /\ d \in I32
      BY <2>2, QosPolicyAssumption DEF IsPolicy, I32
    <3>2. /\ to_qos(p).durability = "TRANSIENT_LOCAL"
          /\ to_qos(p).service = [ history |-> [kind |-> "KEEP_LAST", depth |-> d],
                                   limits |-> LimitsFor(d) ]
      BY <2>2 DEF to_qos, ToService
    <3>3. to_qos(p).durability # NotSet /\ to_qos(p).service # NotSet
      <4>1. LimitsFor(d) \in Limits
        BY <3>1, LimitsTyped
      <4>2. to_qos(p).service \in Service
        BY <3>1, <3>2, <4>1 DEF Service, History
      <4>3. to_qos(p).durability \in Durability
        BY <3>2 DEF Durability
      <4> QED
        BY <4>2, <4>3, NotSetAssumption
    <3>4. sync_depth(d) = d
      BY <3>1, SyncDepthTyped
    <3> HIDE DEF d
    <3>5. FromDurability(to_qos(p)) = TransientLocal(d)
      BY <3>2, <3>3, <3>4 DEF FromDurability
    <3> QED
      BY <2>2, <3>5 DEF IsPolicy, TransientLocal, d
  <2> QED
    BY <2>1, <2>2
<1>4. Normal(p) = [ history |-> p.history, reliability |-> Normal(p).reliability,
                    durability |-> p.durability ]
  BY DEF Normal, IsPolicy
<1> QED
  BY <1>1, <1>2, <1>3, <1>4 DEF from

(* The setters keep a history that was validated *)
LEMMA SetKeeps ==
  ASSUME IInv, NEW q \in DdsQos, Set(q),
         q.history # NotSet => validate_history(q.history.kind, q.history.depth)
  PROVE  IInv'
BY DEF IInv, Set, QosTypeOK

(* What to_qos builds has a valid history *)
LEMMA BuiltKeeps ==
  ASSUME NEW p, IsPolicy(p), Built(p)
  PROVE  IInv'
<1>1. to_qos(p) \in DdsQos
  BY ToQosTyped
<1>2. validate_history(to_qos(p).history.kind, to_qos(p).history.depth)
  BY DEF Built, Builds, to_qos, ToHistory, IsPolicy, validate_history
<1> QED
  BY <1>1, <1>2 DEF Built, IInv, QosTypeOK

(* The policies that callers ask for *)
LEMMA PoliciesAre ==
  ASSUME NEW p \in Policies(Depths, Durations)
  PROVE  IsPolicy(p)
BY QosPolicyAssumption
DEF Policies, IsPolicy, KeepLast, KeepAll, Reliable, BestEffort, TransientLocal,
    Volatile, I32, SupportInstances

(* The invariant holds at first *)
LEMMA IInvInit == QosInit => IInv
BY NotSetAssumption DEF QosInit, IInv, QosTypeOK, Created, DdsQos

(* Every operation keeps the invariant *)
LEMMA IInvStep == IInv /\ [QosNext]_qosVars => IInv'
<1> SUFFICES ASSUME IInv, [QosNext]_qosVars
             PROVE  IInv'
  OBVIOUS
<1> USE DEF IInv
<1>0. /\ qos \in DdsQos
      /\ qos.history # NotSet =>
           (origin # "discovery" =>
              validate_history(qos.history.kind, qos.history.depth))
  BY DEF QosTypeOK
<1>1. ASSUME NEW kind \in HistoryKind, NEW depth \in Depths,
             set_history(kind, depth)
      PROVE  IInv'
  <2> DEFINE h == [kind |-> kind, depth |-> depth]
             q == [qos EXCEPT !.history = h]
  <2>1. h \in History
    BY QosPolicyAssumption DEF History, HistoryKind
  <2>2. q \in DdsQos /\ q.history = h
    BY <1>0, <2>1 DEF DdsQos
  <2>3. validate_history(h.kind, h.depth) /\ Set(q)
    BY <1>1 DEF set_history
  <2> HIDE DEF h, q
  <2> QED
    BY <2>2, <2>3, SetKeeps
<1>2. ASSUME NEW kind \in HistoryKind, NEW depth \in Depths, NEW n \in Bounds,
             set_durability_service(kind, depth, n)
      PROVE  IInv'
  <2> DEFINE s == [ history |-> [kind |-> kind, depth |-> depth],
                    limits |-> [samples |-> n, instances |-> n,
                                perInstance |-> n] ]
             q == [qos EXCEPT !.service = s]
  <2>1. s \in Service
    BY QosPolicyAssumption DEF Service, History, Limits, HistoryKind
  <2>2. q \in DdsQos /\ q.history = qos.history
    BY <1>0, <2>1 DEF DdsQos
  <2>3. Set(q)
    BY <1>2 DEF set_durability_service
  <2> HIDE DEF q
  <2> QED
    BY <1>0, <2>2, <2>3, SetKeeps DEF Set
<1>3. ASSUME NEW n \in Bounds, set_resource_limits(n)
      PROVE  IInv'
  <2> DEFINE l == [samples |-> n, instances |-> n, perInstance |-> n]
             q == [qos EXCEPT !.limits = l]
  <2>1. l \in Limits
    BY QosPolicyAssumption DEF Limits
  <2>2. q \in DdsQos /\ q.history = qos.history
    BY <1>0, <2>1 DEF DdsQos
  <2>3. Set(q)
    BY <1>3 DEF set_resource_limits
  <2> HIDE DEF q
  <2> QED
    BY <1>0, <2>2, <2>3, SetKeeps DEF Set
<1>4. ASSUME NEW kind \in {"BEST_EFFORT", "RELIABLE"}, NEW d \in Durations,
             set_reliability(kind, d)
      PROVE  IInv'
  <2> DEFINE r == [kind |-> kind, blocking |-> to_dds_duration(d)]
             q == [qos EXCEPT !.reliability = r]
  <2>1. r \in Reliability
    BY QosPolicyAssumption, DurationsTyped DEF Reliability
  <2>2. q \in DdsQos /\ q.history = qos.history
    BY <1>0, <2>1 DEF DdsQos
  <2>3. Set(q)
    BY <1>4 DEF set_reliability
  <2> HIDE DEF q
  <2> QED
    BY <1>0, <2>2, <2>3, SetKeeps DEF Set
<1>5. ASSUME NEW kind \in Durability, set_durability(kind)
      PROVE  IInv'
  <2> DEFINE q == [qos EXCEPT !.durability = kind]
  <2>1. q \in DdsQos /\ q.history = qos.history
    BY <1>0 DEF DdsQos
  <2>2. Set(q)
    BY <1>5 DEF set_durability
  <2> HIDE DEF q
  <2> QED
    BY <1>0, <2>1, <2>2, SetKeeps DEF Set
<1>6. ASSUME NEW p \in Policies(Depths, Durations), merge(p)
      PROVE  IInv'
  <2> DEFINE q == Merged(qos, to_qos(p))
  <2>1. IsPolicy(p) /\ Builds(p) /\ Set(q)
    BY <1>6, PoliciesAre DEF merge
  <2>2. to_qos(p) \in DdsQos
    BY <2>1, ToQosTyped
  <2>3. q \in DdsQos
    BY <1>0, <2>2 DEF Merged, Or, DdsQos
  <2>4. q.history = Or(qos.history, to_qos(p).history)
    BY DEF Merged
  <2>5. validate_history(to_qos(p).history.kind, to_qos(p).history.depth)
    BY <2>1 DEF Builds, to_qos, ToHistory, IsPolicy, validate_history
  <2>6. q.history # NotSet => validate_history(q.history.kind, q.history.depth)
    BY <1>0, <2>1, <2>4, <2>5 DEF Or, Set
  <2> HIDE DEF q
  <2> QED
    BY <2>1, <2>3, <2>6, SetKeeps
<1>7. ASSUME NEW p \in Policies(Depths, Durations), Build(p)
      PROVE  IInv'
  BY <1>7, PoliciesAre, BuiltKeeps DEF Build
<1>8. ASSUME NEW depth \in Depths, NEW d \in Durations \cup {NotSet},
             create_transient_local(depth, d)
      PROVE  IInv'
  <2> DEFINE p == [ history |-> KeepLast(depth),
                    reliability |->
                      Reliable(IF d = NotSet THEN HundredMillis ELSE d),
                    durability |-> TransientLocal(sync_depth(depth)) ]
  <2>1. Built(p)
    BY <1>8 DEF create_transient_local, Build
  <2>2. depth \in I32
    BY QosPolicyAssumption
  <2>3. sync_depth(depth) \in 1..U16Max
    BY <2>2, SyncDepthTyped
  <2>4. (IF d = NotSet THEN HundredMillis ELSE d) \in Nat
    BY QosPolicyAssumption
  <2>5. IsPolicy(p)
    BY <2>2, <2>3, <2>4, QosPolicyAssumption
    DEF IsPolicy, KeepLast, Reliable, TransientLocal
  <2> HIDE DEF p
  <2> QED
    BY <2>1, <2>5, BuiltKeeps
<1>9. ASSUME NEW h \in [kind : HistoryKind, depth : Depths],
             NEW s \in [kind : HistoryKind, depth : Depths],
             NEW r \in [kind : {"BEST_EFFORT", "RELIABLE"}, blocking : Foreign],
             NEW d \in Durability,
             Discover(h, r, d, Unbounded(s))
      PROVE  IInv'
  <2>1. h \in History /\ s \in History /\ r \in Reliability
    BY QosPolicyAssumption DEF History, HistoryKind, Reliability
  <2>2. -1 \in I32
    BY QosPolicyAssumption DEF I32, SupportInstances
  <2>3. Unbounded(s) \in Service
    BY <2>1, <2>2 DEF Unbounded, Service, Limits
  <2>4. qos' \in DdsQos /\ origin' = "discovery" /\ source' = NotSet
    BY <1>9, <2>1, <2>3 DEF Discover, DdsQos
  <2> QED
    BY <2>4 DEF QosTypeOK
<1>10. CASE create
  <2>1. qos' = Created /\ origin' = "setters" /\ source' = NotSet
    BY <1>10 DEF create
  <2>2. Created \in DdsQos /\ Created.history = NotSet
    BY DEF Created, DdsQos
  <2> QED
    BY <2>1, <2>2 DEF QosTypeOK
<1>11. CASE Mirror
  BY <1>0, <1>11, FromTyped, BuiltKeeps DEF Mirror
<1>12. CASE UNCHANGED qosVars
  BY <1>12 DEF qosVars, QosTypeOK
<1> QED
  BY <1>1, <1>2, <1>3, <1>4, <1>5, <1>6, <1>7, <1>8, <1>9, <1>10, <1>11, <1>12
  DEF QosNext

(* It holds in every state *)
LEMMA IInvHolds == QosSpec => []IInv
<1>1. QosInit => IInv
  BY IInvInit
<1>2. IInv /\ [QosNext]_qosVars => IInv'
  BY IInvStep
<1> QED
  BY <1>1, <1>2, PTL DEF QosSpec

(* Setters, Policy::to_qos, merging and discovery only ever make values of *)
(* the widths that dds_qos_t has                                           *)
THEOREM QosTyped == QosSpec => []QosTypeOK
<1>1. IInv => QosTypeOK
  BY DEF IInv
<1> QED
  BY <1>1, IInvHolds, PTL

(* Policy::to_qos never builds a DdsQos that an endpoint is refused for,   *)
(* whatever the widths and the depths                                      *)
THEOREM BuiltAccepted == QosSpec => []BuiltIsAccepted
<1>1. IInv => BuiltIsAccepted
  BY BuiltPasses DEF IInv, QosTypeOK, BuiltIsAccepted
<1> QED
  BY <1>1, IInvHolds, PTL

(* Policy::from undoes Policy::to_qos                                      *)
THEOREM SurvivesSummary == QosSpec => []PolicySurvives
<1>1. IInv => PolicySurvives
  BY RoundTrip DEF IInv, QosTypeOK, PolicySurvives
<1> QED
  BY <1>1, IInvHolds, PTL

(* The depth that a summary asks a writer to keep for late joiners is at   *)
(* least 1 and never more than what the peer keeps                         *)
THEOREM SyncBounded == QosSpec => []SyncIsBounded
<1>1. IInv => SyncIsBounded
  <2> SUFFICES ASSUME IInv, FromDurability(qos).kind = "TransientLocal"
               PROVE  /\ FromDurability(qos).sync_depth \in 1..U16Max
                      /\ \/ FromDurability(qos).sync_depth = 1
                         \/ /\ qos.service # NotSet
                            /\ \/ qos.service.history.kind = "KEEP_ALL"
                               \/ FromDurability(qos).sync_depth
                                    <= qos.service.history.depth
    BY DEF SyncIsBounded, from
  <2>1. qos.durability \notin {NotSet, "VOLATILE"}
    BY DEF FromDurability, Volatile
  <2>2. CASE qos.service = NotSet
    <3>1. FromDurability(qos).sync_depth = 1
      BY <2>1, <2>2 DEF FromDurability, TransientLocal
    <3> QED
      BY <3>1, QosPolicyAssumption
  <2>3. CASE qos.service # NotSet /\ qos.service.history.kind = "KEEP_ALL"
    <3>1. FromDurability(qos).sync_depth = U16Max
      BY <2>1, <2>3 DEF FromDurability, TransientLocal
    <3> QED
      BY <2>3, <3>1, QosPolicyAssumption
  <2>4. CASE qos.service # NotSet /\ qos.service.history.kind # "KEEP_ALL"
    <3>1. FromDurability(qos).sync_depth = sync_depth(qos.service.history.depth)
      BY <2>1, <2>4 DEF FromDurability, TransientLocal
    <3>2. qos.service.history.depth \in I32
      BY <2>4 DEF IInv, QosTypeOK, DdsQos, Service, History
    <3> QED
      BY <2>4, <3>1, <3>2, SyncDepthTyped
  <2> QED
    BY <2>2, <2>3, <2>4
<1> QED
  BY <1>1, IInvHolds, PTL

(* What was made here can be summarised and built again *)
THEOREM SummaryBuildsAgain == QosSpec => []SummaryBuilds
<1>1. IInv => SummaryBuilds
  <2> SUFFICES ASSUME IInv, origin # "discovery",
                      FromHistory(qos.history).kind = "KeepLast"
               PROVE  validate_history("KEEP_LAST",
                                       FromHistory(qos.history).depth)
    BY DEF SummaryBuilds, Builds, from
  <2>1. CASE qos.history = NotSet
    BY <2>1 DEF FromHistory, KeepLast, validate_history
  <2>2. CASE qos.history # NotSet
    <3>1. qos.history.kind = "KEEP_LAST"
      BY <2>2 DEF FromHistory, KeepAll
    <3>2. FromHistory(qos.history).depth = qos.history.depth
      BY <2>2, <3>1 DEF FromHistory, KeepLast
    <3> QED
      BY <2>2, <3>1, <3>2 DEF IInv
  <2> QED
    BY <2>1, <2>2
<1> QED
  BY <1>1, IInvHolds, PTL

(* Policies and what is built, read and mirrored from them agree, for every *)
(* width, duration and depth                                                *)
THEOREM PoliciesAgree == QosSpec => []QosSound
<1>1. BuiltIsAccepted /\ PolicySurvives /\ SyncIsBounded /\ SummaryBuilds
        => QosSound
  BY DEF QosSound
<1> QED
  BY <1>1, BuiltAccepted, SurvivesSummary, SyncBounded, SummaryBuildsAgain, PTL

-----------------------------------------------------------------------------
(* DdsQos handles *)

(* What is read of a QoS, and a dds_qos_t *)
Values == [ lifespan : DdsDuration \cup {NotSet}, userdata : {0, 1} ]
Objects == [ owner : {"none", "rust", "sample", "leaked", "freed"},
             lifespan : DdsDuration \cup {NotSet}, userdata : {0, 1} ]

HandlesInv ==
  /\ qobject \in [QosObjects -> Objects]
  /\ qhandle \in [QosNames -> QosObjects \cup {NotSet}]
  /\ told \in [QosNames -> Values]
  /\ \A v \in QosNames : ~NoQos(v) =>
       /\ ObjectOf(v).owner = "rust" /\ Reads(ObjectOf(v)) = told[v]
       /\ \A w \in QosNames : qhandle[w] = qhandle[v] => w = v
  /\ \A o \in QosObjects : qobject[o].owner = "rust" => \E v \in QosNames : qhandle[v] = o
  /\ \A o \in QosObjects : Unused(o) => qobject[o] = BlankQos
  /\ found # NotSet =>
       /\ found.props \in PropertyLists
       /\ is_alive => found.qos \in QosObjects /\ qobject[found.qos].owner = "sample"
  /\ PropertiesSound

(* What is read of a QoS object is a value, and a copy reads the same. *)
LEMMA ReadsTyped ==
  ASSUME NEW q \in Objects
  PROVE  Reads(q) \in Values /\ Owned(q) \in Objects /\ Reads(Owned(q)) = Reads(q)
         /\ Owned(q).owner = "rust"
BY QosPolicyAssumption, HandlesAssumption
   DEF Objects, Values, Reads, Owned, DdsDuration, from_dds_duration

(* A new object reads as one that was told nothing. *)
LEMMA BlankTyped ==
  /\ BlankQos \in Objects /\ BlankQos.owner = "none" /\ Untold \in Values
  /\ \A s \in {"rust", "freed"} : /\ [BlankQos EXCEPT !.owner = s] \in Objects
                      /\ [BlankQos EXCEPT !.owner = s].owner = s
                      /\ Reads([BlankQos EXCEPT !.owner = s]) = Untold
BY DEF BlankQos, Untold, Objects, Values, NoUserdata, Reads

(* A record of two fields, both of them set. *)
LEMMA BothSet ==
  ASSUME NEW r \in Values, NEW x, NEW y
  PROVE  [r EXCEPT !.lifespan = x, !.userdata = y] = [lifespan |-> x, userdata |-> y]
<1> DEFINE e == [r EXCEPT !.lifespan = x, !.userdata = y]
<1>1. e \in [lifespan : {x}, userdata : {y}]
  BY DEF Values
<1> HIDE DEF e
<1>2. e = [lifespan |-> x, userdata |-> y]
  BY <1>1
<1> QED BY <1>2 DEF e

(* Greatest of a set of indices *)
LEMMA LastIndex ==
  ASSUME NEW n \in Nat, NEW K \in SUBSET (1..n), K # {}
  PROVE  \E i \in K : \A j \in K : j <= i
<1> DEFINE T == { n - j : j \in K }
<1>1. T \in SUBSET Nat /\ T # {}
  <2>1. \A j \in K : j \in 1..n /\ n - j \in Nat
    OBVIOUS
  <2>2. PICK j \in K : TRUE
    OBVIOUS
  <2>3. n - j \in T
    BY <2>2
  <2> QED BY <2>1, <2>3
<1>2. PICK x \in T : \A y \in T : x <= y
  BY <1>1, LeastNatural
<1>3. PICK i \in K : x = n - i
  OBVIOUS
<1>4. ASSUME NEW j \in K PROVE j <= i
  <2>1. n - j \in T
    OBVIOUS
  <2>2. n - i <= n - j
    BY <1>2, <1>3, <2>1
  <2>3. i \in 1..n /\ j \in 1..n
    OBVIOUS
  <2> QED BY <2>2, <2>3
<1> QED BY <1>4

(* A property is answered with what its name was announced with. *)
LEMMA PropertyGiven ==
  ASSUME NEW props \in PropertyLists, property(props).kind = "some",
         NEW name \in Wanted
  PROVE  \E i \in DOMAIN props :
           /\ props[i][1] = name
           /\ property(props).values[name] = Parsed(name, props[i][2])
<1> DEFINE Known == { i \in DOMAIN props : props[i][1] \in Wanted }
           K == { i \in Known : props[i][1] = name }
           LastOne == CHOOSE i \in Known : /\ props[i][1] = name
                                        /\ \A j \in Known : props[j][1] = name => j <= i
<1>1. DOMAIN props = 1..Len(props) /\ Len(props) \in Nat
  BY HandlesAssumption, LenProperties
<1>2. /\ \A m \in Wanted : \E i \in Known : props[i][1] = m
      /\ property(props).values[name] = Parsed(name, props[LastOne][2])
  BY DEF property, Answer
<1>3. K \in SUBSET (1..Len(props)) /\ K # {}
  BY <1>1, <1>2
<1>4. \E i \in Known : props[i][1] = name /\ \A j \in Known : props[j][1] = name => j <= i
  <2>1. PICK i \in K : \A j \in K : j <= i
    BY <1>1, <1>3, LastIndex
  <2> QED BY <2>1
<1> HIDE DEF K
<1>5. LastOne \in DOMAIN props /\ props[LastOne][1] = name
  BY <1>4
<1> QED BY <1>2, <1>5

(* HandlesInv holds before the first QoS, *)
LEMMA HandlesInvInit == HandlesInit => HandlesInv
<1> SUFFICES ASSUME HandlesInit PROVE HandlesInv
  OBVIOUS
<1>1. PropertiesSound
  BY DEF HandlesInit, PropertiesSound, NotAsked, Answer
<1>2. \A o \in QosObjects : qobject[o] = BlankQos
  BY DEF HandlesInit
<1>3. qobject \in [QosObjects -> Objects] /\ told \in [QosNames -> Values]
  BY BlankTyped DEF HandlesInit
<1>4. \A v \in QosNames : NoQos(v)
  BY DEF HandlesInit, NoQos
<1> QED BY <1>1, <1>2, <1>3, <1>4, BlankTyped DEF HandlesInit, HandlesInv

(* A step that changes no policy, and whose changed object *)
LEMMA CopyStep ==
  ASSUME HandlesInv, NEW v \in QosNames, NoQos(v), NEW o \in QosObjects, Copied(v, o),
         told' = [told EXCEPT ![v] = Reads(qobject[o])], UNCHANGED << found, answered >>
  PROVE  HandlesInv'
<1>1. PICK new \in QosObjects :
        /\ Unused(new)
        /\ qobject' = [qobject EXCEPT ![new] = Owned(qobject[o])]
        /\ qhandle' = [qhandle EXCEPT ![v] = new]
  BY DEF Copied
<1>2. /\ Reads(qobject[o]) \in Values /\ Owned(qobject[o]) \in Objects
      /\ Reads(Owned(qobject[o])) = Reads(qobject[o])
      /\ Owned(qobject[o]).owner = "rust"
  BY ReadsTyped DEF HandlesInv
<1>3. qobject[new].owner = "none"
  BY <1>1 DEF Unused
<1>4. new # NotSet
  BY HandlesAssumption
<1>5. /\ qobject' \in [QosObjects -> Objects]
      /\ qhandle' \in [QosNames -> QosObjects \cup {NotSet}]
      /\ told' \in [QosNames -> Values]
  BY <1>1, <1>2 DEF HandlesInv
<1>6. \A w \in QosNames : ~NoQos(w) => qhandle[w] # new
  BY <1>3 DEF HandlesInv, ObjectOf, NoQos
<1>7. ASSUME NEW w \in QosNames, ~NoQos(w)'
      PROVE  /\ ObjectOf(w)'.owner = "rust" /\ Reads(ObjectOf(w))' = told'[w]
             /\ \A u \in QosNames : qhandle'[u] = qhandle'[w] => u = w
  <2> DEFINE q == Owned(qobject[o])
             t == Reads(qobject[o])
  <2>0. \A u \in QosNames : qhandle'[u] = IF u = v THEN new ELSE qhandle[u]
    BY <1>1 DEF HandlesInv
  <2>1. CASE w = v
    <3>1. qobject'[qhandle'[w]] = q /\ told'[w] = t
      BY <1>1, <2>1 DEF HandlesInv
    <3>2. \A u \in QosNames : u # v => qhandle'[u] # new
      BY <1>4, <1>6, <2>0 DEF NoQos
    <3>3. ObjectOf(w)' = q
      BY <3>1 DEF ObjectOf
    <3>4. Reads(ObjectOf(w))' = Reads(q)
      BY <3>3 DEF Reads
    <3> QED BY <1>2, <2>0, <2>1, <3>1, <3>2, <3>3, <3>4
  <2>2. CASE w # v
    <3>1. /\ ~NoQos(w) /\ qhandle'[w] = qhandle[w] /\ qhandle[w] # new
          /\ told'[w] = told[w]
      BY <1>6, <1>7, <2>0, <2>2 DEF NoQos
    <3>2. ObjectOf(w)' = ObjectOf(w)
      BY <1>1, <3>1 DEF ObjectOf, HandlesInv
    <3>3. Reads(ObjectOf(w))' = Reads(ObjectOf(w))
      BY <3>2 DEF Reads
    <3> QED BY <2>0, <3>1, <3>2, <3>3 DEF HandlesInv
  <2> QED BY <2>1, <2>2
<1>8. ASSUME NEW x \in QosObjects
      PROVE  /\ qobject'[x].owner = "rust" => \E u \in QosNames : qhandle'[u] = x
             /\ Unused(x)' => qobject'[x] = BlankQos
  <2>1. CASE x = new
    BY <1>1, <1>2, <2>1 DEF Unused, HandlesInv
  <2>2. CASE x # new
    <3>1. qobject'[x] = qobject[x]
      BY <1>1, <2>2 DEF HandlesInv
    <3>2. ASSUME qobject[x].owner = "rust" PROVE \E u \in QosNames : qhandle'[u] = x
      <4>1. PICK u \in QosNames : qhandle[u] = x
        BY <3>2 DEF HandlesInv
      <4>2. u # v
        BY <4>1, HandlesAssumption DEF NoQos
      <4> QED BY <1>1, <4>1, <4>2 DEF HandlesInv
    <3> QED BY <3>1, <3>2 DEF Unused, HandlesInv
  <2> QED BY <2>1, <2>2
<1>9. found # NotSet /\ is_alive => found.qos # new
  BY <1>3 DEF HandlesInv
<1> QED BY <1>1, <1>5, <1>7, <1>8, <1>9 DEF HandlesInv, PropertiesSound, is_alive

(* A question that is answered with nothing keeps HandlesInv, *)
LEMMA FailStep ==
  ASSUME HandlesInv, CopyFails, UNCHANGED << told, found, answered >>
  PROVE  HandlesInv'
<1>1. PICK new \in QosObjects :
        /\ Unused(new)
        /\ qobject' = [qobject EXCEPT ![new].owner = "freed"] /\ qhandle' = qhandle
  BY DEF CopyFails
<1>2. qobject'[new] \in Objects /\ qobject'[new].owner = "freed"
  BY <1>1 DEF HandlesInv, Objects
<1> QED BY <1>1, <1>2 DEF HandlesInv, NoQos, ObjectOf, Unused, PropertiesSound, is_alive

(* One dds_qos_t and what was told *)
LEMMA SetStep ==
  ASSUME HandlesInv, NEW v \in QosNames, ~NoQos(v), NEW q \in Objects,
         NEW t \in Values,
         q.owner = "rust", Reads(q) = t,
         qobject' = [qobject EXCEPT ![qhandle[v]] = q],
         told' = [told EXCEPT ![v] = t], UNCHANGED << qhandle, found, answered >>
  PROVE  HandlesInv'
<1>1. qhandle[v] \in QosObjects /\ qobject[qhandle[v]].owner = "rust"
  BY DEF HandlesInv, NoQos, ObjectOf
<1> QED BY <1>1 DEF HandlesInv, NoQos, ObjectOf, Unused, PropertiesSound, is_alive

(* a QoS that is dropped keeps it, *)
LEMMA GoneStep ==
  ASSUME HandlesInv, NEW v \in QosNames, ~NoQos(v), NEW q \in Objects,
         q.owner \in {"leaked", "freed"},
         qobject' = [qobject EXCEPT ![qhandle[v]] = q], Forgotten(v)
  PROVE  HandlesInv'
<1>1. qhandle[v] \in QosObjects /\ qobject[qhandle[v]].owner = "rust"
  BY DEF HandlesInv, NoQos, ObjectOf
<1>2. NotSet \notin QosObjects
  BY HandlesAssumption
<1> QED BY <1>1, <1>2, BlankTyped DEF HandlesInv, NoQos, ObjectOf, Unused, PropertiesSound, is_alive,
             Forgotten

(* and so does every step. *)
LEMMA HandlesInvStep == HandlesInv /\ [HandlesNext]_handleVars => HandlesInv'
<1> SUFFICES ASSUME HandlesInv, [HandlesNext]_handleVars PROVE HandlesInv'
  OBVIOUS
<1>0. NotSet \notin QosObjects /\ NotSet \notin Int
  BY HandlesAssumption
<1>1. ASSUME NEW v \in QosNames, NEW o \in QosObjects, CreateQos(v, o) PROVE HandlesInv'
  <2>1. qobject[o] = BlankQos
    BY <1>1 DEF CreateQos, HandlesInv
  <2>2. qobject' = [qobject EXCEPT ![o] = [BlankQos EXCEPT !.owner = "rust"]]
    BY <1>1, <2>1 DEF CreateQos
  <2> QED BY <1>0, <1>1, <2>1, <2>2, BlankTyped
       DEF CreateQos, HandlesInv, NoQos, ObjectOf, Unused, PropertiesSound, is_alive
<1>2. ASSUME NEW v \in QosNames, NEW d \in Durations, SetLifespan(v, d) PROVE HandlesInv'
  <2> DEFINE q == [ObjectOf(v) EXCEPT !.lifespan = to_dds_duration(d)]
             t == [told[v] EXCEPT !.lifespan = Meant(d)]
  <2>1. /\ ~NoQos(v) /\ qobject' = [qobject EXCEPT ![qhandle[v]] = q]
        /\ told' = [told EXCEPT ![v] = t] /\ UNCHANGED << qhandle, found, answered >>
    BY <1>2 DEF SetLifespan, ObjectOf
  <2>2. /\ ObjectOf(v) \in Objects /\ told[v] \in Values
        /\ ObjectOf(v).owner = "rust" /\ Reads(ObjectOf(v)) = told[v]
    BY <2>1 DEF HandlesInv, NoQos, ObjectOf
  <2>3. d \in Nat /\ Infinity \in Nat
    BY QosPolicyAssumption
  <2>4. /\ to_dds_duration(d) \in DdsDuration /\ to_dds_duration(d) \in Int
        /\ from_dds_duration(to_dds_duration(d)) = Meant(d)
        /\ Meant(d) \in DdsDuration
    BY <2>3 DEF to_dds_duration, from_dds_duration, Meant, DdsDuration
  <2>5. q \in Objects /\ q.owner = "rust" /\ t \in Values
    BY <2>2, <2>4 DEF Objects, Values
  <2>6. Reads(q) = t
    BY <1>0, <2>2, <2>4 DEF Objects, Values, Reads
  <2> HIDE DEF q, t
  <2> QED BY <2>1, <2>5, <2>6, SetStep
<1>3. ASSUME NEW v \in QosNames, NEW n \in {0, 1}, set_userdata(v, n) PROVE HandlesInv'
  <2> DEFINE q == [ObjectOf(v) EXCEPT !.userdata = n]
             t == [told[v] EXCEPT !.userdata = n]
  <2>1. /\ ~NoQos(v) /\ qobject' = [qobject EXCEPT ![qhandle[v]] = q]
        /\ told' = [told EXCEPT ![v] = t] /\ UNCHANGED << qhandle, found, answered >>
    BY <1>3 DEF set_userdata, ObjectOf
  <2>2. /\ ObjectOf(v) \in Objects /\ told[v] \in Values
        /\ ObjectOf(v).owner = "rust" /\ Reads(ObjectOf(v)) = told[v]
    BY <2>1 DEF HandlesInv, NoQos, ObjectOf
  <2>5. q \in Objects /\ q.owner = "rust" /\ t \in Values
    BY <2>2 DEF Objects, Values
  <2>6. Reads(q) = t
    BY <2>2 DEF Objects, Values, Reads
  <2> HIDE DEF q, t
  <2> QED BY <2>1, <2>5, <2>6, SetStep
<1>4. ASSUME NEW v \in QosNames, NEW w \in QosNames, CloneQos(v, w) PROVE HandlesInv'
  <2>1. /\ ~NoQos(v) /\ NoQos(w) /\ UNCHANGED << found, answered >>
        /\ qhandle[v] \in QosObjects /\ Reads(qobject[qhandle[v]]) = told[v]
    BY <1>4 DEF CloneQos, HandlesInv, NoQos, ObjectOf
  <2>2. CASE Copied(w, qhandle[v]) /\ told' = [told EXCEPT ![w] = told[v]]
    BY <2>1, <2>2, CopyStep
  <2>3. CASE CopyFails /\ UNCHANGED told
    BY <2>1, <2>3, FailStep
  <2> QED BY <1>4, <2>2, <2>3 DEF CloneQos
<1>5. ASSUME NEW v \in QosNames, NEW w \in QosNames, MergeQos(v, w) PROVE HandlesInv'
  <2> DEFINE a == ObjectOf(v)  b == ObjectOf(w)
             l == Or(a.lifespan, b.lifespan)
             u == IF a.userdata # 0 THEN a.userdata ELSE b.userdata
             q == [a EXCEPT !.lifespan = l, !.userdata = u]
             t == [told[v] EXCEPT !.lifespan = Or(told[v].lifespan, told[w].lifespan),
                                  !.userdata = IF told[v].userdata # 0 THEN told[v].userdata
                                               ELSE told[w].userdata]
  <2>0. qhandle[v] \in QosObjects /\ ~NoQos(v) /\ ~NoQos(w)
    BY <1>5 DEF MergeQos, NoQos, HandlesInv
  <2>1. /\ ~NoQos(v) /\ qobject' = [qobject EXCEPT ![qhandle[v]] = q]
        /\ told' = [told EXCEPT ![v] = t] /\ UNCHANGED << qhandle, found, answered >>
    BY <1>5, <2>0 DEF MergeQos, ObjectOf, HandlesInv
  <2>2. /\ a \in Objects /\ told[v] \in Values /\ a.owner = "rust" /\ Reads(a) = told[v]
        /\ b \in Objects /\ told[w] \in Values /\ Reads(b) = told[w]
    BY <2>0 DEF HandlesInv, NoQos, ObjectOf
  <2> HIDE DEF a, b, t
  <2>3. l \in DdsDuration \cup {NotSet} /\ u \in {0, 1}
    BY <2>2 DEF Objects, Or
  <2>4. q \in Objects /\ q.owner = "rust" /\ q.lifespan = l /\ q.userdata = u
    BY <2>2, <2>3 DEF Objects
  <2>5. /\ told[v].lifespan = IF a.lifespan = NotSet THEN NotSet ELSE from_dds_duration(a.lifespan)
        /\ told[w].lifespan = IF b.lifespan = NotSet THEN NotSet ELSE from_dds_duration(b.lifespan)
        /\ told[v].userdata = a.userdata /\ told[w].userdata = b.userdata
    BY <2>2 DEF Reads
  <2>6. a.lifespan \in Int \cup {NotSet} /\ b.lifespan \in Int \cup {NotSet}
    BY <2>2, QosPolicyAssumption DEF Objects, DdsDuration
  <2>7. Or(told[v].lifespan, told[w].lifespan)
          = IF l = NotSet THEN NotSet ELSE from_dds_duration(l)
    BY <1>0, <2>5, <2>6 DEF Or, from_dds_duration
  <2>8. t = [lifespan |-> Or(told[v].lifespan, told[w].lifespan), userdata |-> u]
    <3>1. u = IF told[v].userdata # 0 THEN told[v].userdata ELSE told[w].userdata
      BY <2>5 DEF u
    <3> HIDE DEF u
    <3> DEFINE x == Or(told[v].lifespan, told[w].lifespan)
               y == IF told[v].userdata # 0 THEN told[v].userdata ELSE told[w].userdata
    <3>2. t = [told[v] EXCEPT !.lifespan = x, !.userdata = y]
      BY DEF t
    <3> HIDE DEF x, y
    <3>3. t = [lifespan |-> x, userdata |-> y]
      BY <2>2, <3>2, BothSet
    <3> QED BY <3>1, <3>3 DEF x, y
  <2> HIDE DEF t, q, l, u
  <2>9. Reads(q) = t
    BY <2>4, <2>7, <2>8 DEF Reads
  <2>10. t \in Values
    BY <2>4, <2>9, ReadsTyped
  <2> QED BY <2>1, <2>4, <2>9, <2>10, SetStep
<1>6. ASSUME NEW v \in QosNames, GiveToC(v) PROVE HandlesInv'
  <2> DEFINE q == [qobject[qhandle[v]] EXCEPT !.owner = "leaked"]
  <2>1. ~NoQos(v) /\ qobject' = [qobject EXCEPT ![qhandle[v]] = q] /\ Forgotten(v)
    BY <1>6 DEF GiveToC
  <2>2. q \in Objects /\ q.owner = "leaked"
    BY <2>1 DEF HandlesInv, NoQos, Objects
  <2> HIDE DEF q
  <2> QED BY <2>1, <2>2, GoneStep
<1>7. ASSUME NEW v \in QosNames, DropQos(v) PROVE HandlesInv'
  BY <1>7, BlankTyped, GoneStep DEF DropQos
<1>8. ASSUME NEW v \in QosNames, QosOfSample(v) PROVE HandlesInv'
  <2>1. NoQos(v) /\ found.qos \in QosObjects /\ UNCHANGED << found, answered >>
    BY <1>8 DEF QosOfSample, HandlesInv
  <2>2. CASE Copied(v, found.qos) /\ told' = [told EXCEPT ![v] = Reads(qobject[found.qos])]
    BY <2>1, <2>2, CopyStep
  <2>3. CASE CopyFails /\ UNCHANGED told
    BY <2>1, <2>3, FailStep
  <2> QED BY <1>8, <2>2, <2>3 DEF QosOfSample
<1>9. ASSUME NEW o \in QosObjects, NEW d \in Foreign, NEW n \in {0, 1},
             NEW props \in PropertyLists, LendSample(o, d, n, props)
      PROVE  HandlesInv'
  <2> DEFINE q == [owner |-> "sample", lifespan |-> d, userdata |-> n]
  <2>1. q \in Objects /\ q.owner = "sample"
    BY QosPolicyAssumption DEF Objects
  <2>2. PICK alive \in BOOLEAN :
          /\ found' = [qos |-> IF alive THEN o ELSE NotSet, props |-> props]
          /\ qobject' = IF alive THEN [qobject EXCEPT ![o] = q] ELSE qobject
    BY <1>9 DEF LendSample
  <2>3. Unused(o) /\ answered' = NotAsked /\ UNCHANGED << qhandle, told >>
    BY <1>9 DEF LendSample
  <2> HIDE DEF q
  <2>4. PropertiesSound'
    BY <2>3 DEF PropertiesSound, NotAsked, Answer
  <2>5. CASE alive
    BY <2>1, <2>2, <2>3, <2>4, <2>5 DEF HandlesInv, NoQos, ObjectOf, Unused, is_alive
  <2>6. CASE ~alive
    BY <2>2, <2>3, <2>4, <2>6 DEF HandlesInv, NoQos, ObjectOf, Unused, is_alive
  <2> QED BY <2>5, <2>6
<1>10. CASE AskProperty
  <2>1. found # NotSet /\ found.props \in PropertyLists /\ UNCHANGED << qobject, qhandle, told, found >>
    BY <1>10 DEF AskProperty, HandlesInv
  <2>2. PropertiesSound'
    <3>1. CASE is_alive
      BY <1>10, <2>1, <3>1, PropertyGiven DEF AskProperty, PropertiesSound
    <3>2. CASE ~is_alive
      BY <1>10, <3>2 DEF AskProperty, PropertiesSound, Answer
    <3> QED BY <3>1, <3>2
  <2> QED BY <2>1, <2>2 DEF HandlesInv, NoQos, ObjectOf, Unused, is_alive
<1>11. CASE ReturnLent
  <2>1. found' = NotSet /\ answered' = NotAsked /\ UNCHANGED << qhandle, told >>
    BY <1>11 DEF ReturnLent
  <2>2. PropertiesSound'
    BY <2>1 DEF PropertiesSound, NotAsked, Answer
  <2>3. CASE is_alive
    <3>1. /\ found.qos \in QosObjects /\ qobject[found.qos].owner = "sample"
          /\ qobject' = [qobject EXCEPT ![found.qos] = [BlankQos EXCEPT !.owner = "freed"]]
      BY <1>11, <2>3 DEF ReturnLent, HandlesInv
    <3> QED BY <2>1, <2>2, <3>1, BlankTyped DEF HandlesInv, NoQos, ObjectOf, Unused
  <2>4. CASE ~is_alive
    BY <1>11, <2>1, <2>2, <2>4 DEF ReturnLent, HandlesInv, NoQos, ObjectOf, Unused
  <2> QED BY <2>3, <2>4
<1>12. CASE SummariseSample \/ UNCHANGED handleVars
  BY <1>12 DEF SummariseSample, handleVars, HandlesInv, NoQos, ObjectOf, Unused, is_alive,
               PropertiesSound
<1> QED BY <1>1, <1>2, <1>3, <1>4, <1>5, <1>6, <1>7, <1>8, <1>9, <1>10, <1>11, <1>12
       DEF HandlesNext

(* Each DdsQos owns its dds_qos_t alone and reads what it was told, for any *)
(* objects, names and property lists.                                       *)
THEOREM HandlesAreSound == HandlesSpec => []HandlesSound
<1>1. HandlesInv => HandlesSound
  BY DEF HandlesInv, HandlesSound
<1> QED BY <1>1, HandlesInvInit, HandlesInvStep, PTL DEF HandlesSpec
=============================================================================
