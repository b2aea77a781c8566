----------------------------- MODULE QosPolicy -----------------------------
(***************************************************************************)
(* DdsQos and its summary Policy (dds_qos.rs).  A DdsQos is put together   *)
(* by setters, by Policy::to_qos or by merging, or it comes from the       *)
(* discovery of an endpoint, perhaps of another vendor; Policy::from       *)
(* summarises it, and a tool that mirrors a peer builds a DdsQos from the  *)
(* summary.  Only the policies that Policy is about are modelled.  Widths  *)
(* are parameters: a depth is an i32, a synchronised depth a NonZeroU16, a *)
(* dds_duration_t an i64 of nanoseconds whose last value means infinity.   *)
(***************************************************************************)
EXTENDS Integers

CONSTANTS
  I32Max, U16Max,
  Infinity,       \* DDS_INFINITY
  HundredMillis,  \* the blocking time to_qos and create_transient_local choose
  Depths,         \* depths that callers and peers use
  Bounds,         \* resource limits that callers set
  Durations,      \* Durations that callers use
  Foreign,        \* durations of discovered endpoints
  NotSet          \* a policy or a deadline that is not given

SupportInstances == 4
I32 == (-I32Max - 1)..I32Max
DdsDuration == (-Infinity - 1)..Infinity

ASSUME QosPolicyAssumption ==
  /\ I32Max \in Nat /\ SupportInstances <= I32Max
  /\ U16Max \in 1..I32Max
  /\ Infinity \in Nat /\ HundredMillis \in 0..Infinity
  /\ Depths \subseteq I32 /\ Bounds \subseteq I32
  /\ Durations \subseteq Nat /\ Foreign \subseteq DdsDuration

(* dds_qos_t; a policy that is not present is NotSet *)
Limits == [samples : I32, instances : I32, perInstance : I32]
History == [kind : {"KEEP_LAST", "KEEP_ALL"}, depth : I32]
Reliability == [kind : {"BEST_EFFORT", "RELIABLE"}, blocking : DdsDuration]
Durability == {"VOLATILE", "TRANSIENT_LOCAL", "TRANSIENT", "PERSISTENT"}
Service == [history : History, limits : Limits]

ASSUME NotSetAssumption ==
  NotSet \notin Limits \cup History \cup Reliability \cup Durability \cup Service

DdsQos == [ history : History \cup {NotSet},
            limits : Limits \cup {NotSet},
            reliability : Reliability \cup {NotSet},
            durability : Durability \cup {NotSet},
            service : Service \cup {NotSet} ]

(* Policy.  KeepAll, BestEffort and Volatile have no number: it is 0. *)
KeepLast(depth) == [kind |-> "KeepLast", depth |-> depth]
KeepAll == [kind |-> "KeepAll", depth |-> 0]
Reliable(blocking) == [kind |-> "Reliable", blocking |-> blocking]
BestEffort == [kind |-> "BestEffort", blocking |-> 0]
TransientLocal(n) == [kind |-> "TransientLocal", sync_depth |-> n]
Volatile == [kind |-> "Volatile", sync_depth |-> 0]

Policies(depths, durations) ==
  [ history : { KeepLast(d) : d \in depths } \cup {KeepAll},
    reliability : { Reliable(d) : d \in durations } \cup {BestEffort},
    durability : { TransientLocal(n) : n \in 1..U16Max } \cup {Volatile} ]

IsPolicy(p) ==
  /\ p \in [ history : [kind : {"KeepLast", "KeepAll"}, depth : I32],
              reliability : [kind : {"Reliable", "BestEffort"}, blocking : Nat],
              durability : [ kind : {"TransientLocal", "Volatile"},
                             sync_depth : 0..U16Max ] ]
  /\ p.history.kind = "KeepAll" => p.history.depth = 0
  /\ p.reliability.kind = "BestEffort" => p.reliability.blocking = 0
  /\ p.durability.kind = "Volatile" <=> p.durability.sync_depth = 0

VARIABLES
  qos,     \* the DdsQos
  origin,  \* who made it: "setters", "policy" or "discovery"
  source   \* the Policy that to_qos built it from, if any

qosVars == << qos, origin, source >>

QosTypeOK ==
  /\ qos \in DdsQos
  /\ origin \in {"setters", "policy", "discovery"}
  /\ IF origin = "policy" THEN IsPolicy(source) ELSE source = NotSet

---------------------------------------------------------------------------
(* To dds_duration_t: what does not fit is infinite *)
to_dds_duration(d) == IF d <= Infinity THEN d ELSE Infinity

(* Negative values are as bad as zero *)
from_dds_duration(d) == IF d >= 0 THEN d ELSE 0

(* KEEP_LAST of no sample is refused *)
validate_history(kind, depth) == ~(kind = "KEEP_LAST" /\ depth <= 0)

(* Mutant of saturating_mul: the product wraps *)
wrapping_mul(a, b) == ((a * b + I32Max + 1) % (2 * (I32Max + 1))) - (I32Max + 1)

(* i32::saturating_mul *)
saturating_mul(a, b) ==
  IF a * b > I32Max THEN I32Max
  ELSE IF a * b < -I32Max - 1 THEN -I32Max - 1 ELSE a * b

(* What to_qos limits a KEEP_LAST history and a late joiner's history to *)
LimitsFor(depth) ==
  [ samples |-> saturating_mul(depth, SupportInstances),
    instances |-> SupportInstances, perInstance |-> depth ]

ToHistory(h) ==
  IF h.kind = "KeepLast" THEN [kind |-> "KEEP_LAST", depth |-> h.depth]
  ELSE [kind |-> "KEEP_ALL", depth |-> 0]

(* BestEffort with TransientLocal is overridden at the end *)
ToReliability(p) ==
  IF p.reliability.kind = "Reliable"
  THEN [kind |-> "RELIABLE", blocking |-> to_dds_duration(p.reliability.blocking)]
  ELSE IF p.durability.kind = "TransientLocal"
  THEN [kind |-> "RELIABLE", blocking |-> to_dds_duration(HundredMillis)]
  ELSE [kind |-> "BEST_EFFORT", blocking |-> 0]

ToService(d) ==
  IF d.kind = "Volatile" THEN NotSet
  ELSE [ history |-> [kind |-> "KEEP_LAST", depth |-> d.sync_depth],
         limits |-> LimitsFor(d.sync_depth) ]

(* Policy::to_qos answers BadParameter, or else this *)
Builds(p) == p.history.kind = "KeepLast" => validate_history("KEEP_LAST", p.history.depth)

to_qos(p) ==
  [ history |-> ToHistory(p.history),
    limits |-> IF p.history.kind = "KeepLast" THEN LimitsFor(p.history.depth)
               ELSE NotSet,
    reliability |-> ToReliability(p),
    durability |-> IF p.durability.kind = "Volatile" THEN "VOLATILE"
                   ELSE "TRANSIENT_LOCAL",
    service |-> ToService(p.durability) ]

(* Policy::sync_depth and the clamping of Policy::from *)
sync_depth(depth) ==
  IF depth <= 0 THEN 1 ELSE IF depth <= U16Max THEN depth ELSE U16Max

FromHistory(h) ==
  IF h = NotSet THEN KeepLast(1)
  ELSE IF h.kind = "KEEP_LAST" THEN KeepLast(h.depth) ELSE KeepAll

FromReliability(r) ==
  IF r = NotSet THEN BestEffort
  ELSE IF r.kind = "RELIABLE" THEN Reliable(from_dds_duration(r.blocking))
  ELSE BestEffort

FromDurability(q) ==
  IF q.durability \in {NotSet, "VOLATILE"} THEN Volatile
  ELSE TransientLocal(IF q.service = NotSet THEN 1
                      ELSE IF q.service.history.kind = "KEEP_ALL" THEN U16Max
                      ELSE sync_depth(q.service.history.depth))

(* Policy::from of a DdsQos or of a borrowed dds_qos_t *)
from(q) == [ history |-> FromHistory(q.history),
             reliability |-> FromReliability(q.reliability),
             durability |-> FromDurability(q) ]

---------------------------------------------------------------------------
Created == [ history |-> NotSet, limits |-> NotSet, reliability |-> NotSet,
             durability |-> NotSet, service |-> NotSet ]

(* DdsQos::create *)
QosInit == qos = Created /\ origin = "setters" /\ source = NotSet

(* The setters; a discovered dds_qos_t is only lent and only summarised *)
Set(q) ==
  /\ origin # "discovery"
  /\ qos' = q /\ origin' = "setters" /\ source' = NotSet

HistoryKind == {"KEEP_LAST", "KEEP_ALL"}

set_history(kind, depth) ==
  /\ validate_history(kind, depth)
  /\ Set([qos EXCEPT !.history = [kind |-> kind, depth |-> depth]])

set_resource_limits(n) ==
  Set([qos EXCEPT !.limits = [samples |-> n, instances |-> n, perInstance |-> n]])

set_reliability(kind, d) ==
  Set([qos EXCEPT !.reliability = [kind |-> kind, blocking |-> to_dds_duration(d)]])

set_durability(kind) == Set([qos EXCEPT !.durability = kind])

set_durability_service(kind, depth, n) ==
  /\ validate_history(kind, depth)
  /\ Set([qos EXCEPT !.service =
            [ history |-> [kind |-> kind, depth |-> depth],
              limits |-> [samples |-> n, instances |-> n, perInstance |-> n] ]])

create == qos' = Created /\ origin' = "setters" /\ source' = NotSet

(* dds_merge_qos: what is missing is taken from the other one *)
Or(policy, other) == IF policy # NotSet THEN policy ELSE other

Merged(q, other) ==
  [ history |-> Or(q.history, other.history), limits |-> Or(q.limits, other.limits),
    reliability |-> Or(q.reliability, other.reliability),
    durability |-> Or(q.durability, other.durability),
    service |-> Or(q.service, other.service) ]

merge(p) == Builds(p) /\ Set(Merged(qos, to_qos(p)))

Built(p) == Builds(p) /\ qos' = to_qos(p) /\ origin' = "policy" /\ source' = p

Build(p) == qos = Created /\ Built(p)

(* Policy::create_transient_local; deadline is NotSet or a duration *)
create_transient_local(history, deadline) ==
  /\ validate_history("KEEP_LAST", history) /\ history \in 1..U16Max
  /\ Build([ history |-> KeepLast(history),
             reliability |->
               Reliable(IF deadline = NotSet THEN HundredMillis ELSE deadline),
             durability |-> TransientLocal(sync_depth(history)) ])

(* An endpoint is discovered: nobody has checked its policies *)
Discover(history, reliability, durability, service) ==
  /\ qos = Created
  /\ qos' = [ history |-> history, limits |-> NotSet, reliability |-> reliability,
              durability |-> durability, service |-> service ]
  /\ origin' = "discovery" /\ source' = NotSet

(* An endpoint is created like the one described by qos *)
Mirror == Built(from(qos))

Unbounded(h) ==
  [history |-> h, limits |-> [samples |-> -1, instances |-> -1, perInstance |-> -1]]

QosNext ==
  \/ \E kind \in HistoryKind : \E depth \in Depths :
       \/ set_history(kind, depth)
       \/ \E n \in Bounds : set_durability_service(kind, depth, n)
  \/ \E n \in Bounds : set_resource_limits(n)
  \/ \E kind \in {"BEST_EFFORT", "RELIABLE"} : \E d \in Durations :
       set_reliability(kind, d)
  \/ \E kind \in Durability : set_durability(kind)
  \/ \E p \in Policies(Depths, Durations) : merge(p) \/ Build(p)
  \/ \E depth \in Depths : \E d \in Durations \cup {NotSet} :
       create_transient_local(depth, d)
  \/ \E h, s \in [kind : HistoryKind, depth : Depths] :
       \E r \in [kind : {"BEST_EFFORT", "RELIABLE"}, blocking : Foreign] :
         \E d \in Durability : Discover(h, r, d, Unbounded(s))
  \/ create \/ Mirror

QosSpec == QosInit /\ [][QosNext]_qosVars

---------------------------------------------------------------------------
(* The checks of dds_create_reader and dds_create_writer *)
LimitsFit(h, l) ==
  /\ \A n \in {l.samples, l.instances, l.perInstance} : n = -1 \/ n > 0
  /\ l.samples # -1 /\ l.perInstance # -1 => l.perInstance <= l.samples
  /\ h.kind = "KEEP_LAST" /\ l.perInstance # -1 => h.depth <= l.perInstance

HistoryFits(h) == h.kind = "KEEP_LAST" => h.depth > 0

Accepted(q) ==
  /\ q.history # NotSet => HistoryFits(q.history)
  /\ q.history # NotSet /\ q.limits # NotSet => LimitsFit(q.history, q.limits)
  /\ q.reliability # NotSet => q.reliability.blocking >= 0
  /\ q.service # NotSet => /\ HistoryFits(q.service.history)
                         /\ LimitsFit(q.service.history, q.service.limits)

(* Whatever numbers a Policy holds, to_qos refuses it at once or builds a   *)
(* DdsQos that no endpoint is refused for later: its comments name depths   *)
(* that overflow the limits and durations that become negative.             *)
BuiltIsAccepted == origin = "policy" => Accepted(qos)

(* What to_qos promises to keep of a Policy *)
Normal(p) ==
  [ p EXCEPT !.reliability =
      IF p.reliability.kind = "Reliable"
      THEN Reliable(IF p.reliability.blocking > Infinity THEN Infinity
                    ELSE p.reliability.blocking)
      ELSE IF p.durability.kind = "TransientLocal" THEN Reliable(HundredMillis)
      ELSE BestEffort ]

(* A peer that summarises the DdsQos it discovers sees the Policy the       *)
(* endpoint was built from, whatever it was: in particular the depth that   *)
(* late joiners are sent is neither lost nor mixed up with the history.     *)
PolicySurvives == origin = "policy" => from(qos) = Normal(source)

(* A summary never asks for more samples to be kept for late joiners than   *)
(* the peer keeps, unless that is without bound; a missing or nonsensical   *)
(* depth is one sample, never 65535.                                        *)
SyncIsBounded ==
  LET d == from(qos).durability IN
  d.kind = "TransientLocal" =>
    /\ d.sync_depth \in 1..U16Max
    /\ \/ d.sync_depth = 1
       \/ /\ qos.service # NotSet
          /\ \/ qos.service.history.kind = "KEEP_ALL"
             \/ d.sync_depth <= qos.service.history.depth

(* The summary of a DdsQos that was made here can be built again; only      *)
(* discovery brings a history that cannot.                                  *)
SummaryBuilds == origin # "discovery" => Builds(from(qos))

(* All of it: what Policy and DdsQos promise each other.                    *)
QosSound == BuiltIsAccepted /\ PolicySurvives /\ SyncIsBounded /\ SummaryBuilds
=============================================================================
