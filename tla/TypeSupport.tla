----------------------------- MODULE TypeSupport ----------------------------
(***************************************************************************)
(* What the C library is given for a keyed type (sertype.rs, serdata.rs):  *)
(* sertypes, the tables of operations, serdatas and the instances they are *)
(* filed under.  The library's instance map (tkmap) keeps an untyped copy  *)
(* of a serdata, made by to_untyped, finds it again by hash and eqkey and  *)
(* may keep it until the domain is freed, long after the type is gone.     *)
(***************************************************************************)
EXTENDS Naturals, FiniteSets

CONSTANTS TopicIds,   \* topics of one type, each with a sertype of its own
          KeyValues,  \* values of the key
          Murmur,     \* their hashes
          MaxHeld     \* bound: serdatas in use at a time

ASSUME TypeSupportAssumption ==
  Murmur \in [KeyValues -> Nat] /\ MaxHeld \in Nat

Origins == {"sample", "cdr", "keyhash"}
NullType == 0
Static == 0  \* not in any sertype
NullKey == 0

VARIABLES
  sertypes,      \* sertypes[t]: "none", "live", "freed" or "lost"
  opened,        \* topics that exist, with their endpoints
  tkmap,         \* untyped serdatas by instance
  held,          \* serdatas in caches and in samples, with their instances
  domain_freed

typeVars == << sertypes, opened, tkmap, held, domain_freed >>

TypeSupportInit ==
  /\ sertypes = [t \in TopicIds |-> "none"]
  /\ opened = {}
  /\ tkmap = << >>
  /\ held = {}
  /\ domain_freed = FALSE

---------------------------------------------------------------------------
(* Mutant of SERDATA_OPS: the table is part of the sertype's memory *)
SERDATA_OPS_IN_SERTYPE(t) == t

(* The tables are constants of the type, as long as the program lives *)
SERDATA_OPS(t) == Static

(* KeyHash::None or KeyHash::CdrKey *)
NoKeyHash == << >>
CdrKey(k) == << k >>

(* SerData::new over ddsi_serdata_init; key is what its contents say *)
NewSerData(t, k) ==
  [ type |-> t, ops |-> SERDATA_OPS(t), key |-> k, hash |-> 0,
    key_hash |-> NoKeyHash ]

(* TopicType::hash, of the key's CDR *)
serdata_from_sample(t, k) == [NewSerData(t, k) EXCEPT !.hash = Murmur[k]]

(* from_fragchain, from_ser_iov and from_psmx keep the CDR as it is *)
serdata_from_cdr(t, k) == NewSerData(t, k)

serdata_from_keyhash(t, k) == [NewSerData(t, k) EXCEPT !.key_hash = CdrKey(k)]

Made(origin, t, k) ==
  CASE origin = "sample" -> serdata_from_sample(t, k)
    [] origin = "cdr" -> serdata_from_cdr(t, k)
    [] origin = "keyhash" -> serdata_from_keyhash(t, k)

serdata_eqkey(a, b) == a.key_hash = b.key_hash

(* It is initialised with the sertype and loses it afterwards; there are no *)
(* contents                                                                 *)
serdata_to_untyped(d) ==
  [NewSerData(NullType, NullKey) EXCEPT !.ops = d.ops, !.key_hash = d.key_hash,
                                     !.hash = d.hash]

(* Where the library files a serdata *)
Filed(d) ==
  { i \in DOMAIN tkmap : tkmap[i].hash = d.hash /\ serdata_eqkey(tkmap[i], d) }

(* A new instance, named after the serdata it is made for *)
Fresh(d) ==
  LET Named(n) == << d.hash, d.key_hash, n >> IN
  Named(CHOOSE n \in 1..MaxHeld : Named(n) \notin DOMAIN tkmap)

---------------------------------------------------------------------------
(* DdsTopic::create: SerType::new and into_sertype *)
CreateTopic(t) ==
  /\ ~domain_freed /\ sertypes[t] = "none"
  /\ sertypes' = [sertypes EXCEPT ![t] = "live"]
  /\ opened' = opened \cup {t}
  /\ UNCHANGED << tkmap, held, domain_freed >>

(* The sertype was released to C, which did not take it *)
CreateTopicFails(t) ==
  /\ ~domain_freed /\ sertypes[t] = "none"
  /\ sertypes' = [sertypes EXCEPT ![t] = "lost"]
  /\ UNCHANGED << opened, tkmap, held, domain_freed >>

(* A serdata is written, received, or made for a key, and filed *)
File(origin, t, k) ==
  /\ t \in opened
  /\ Cardinality(held) < MaxHeld
  /\ LET d == Made(origin, t, k) IN
     \E i \in IF Filed(d) # {} THEN Filed(d) ELSE {Fresh(d)} :
       /\ tkmap' = IF i \in DOMAIN tkmap THEN tkmap
                   ELSE [ n \in DOMAIN tkmap \cup {i} |->
                            IF n = i THEN serdata_to_untyped(d) ELSE tkmap[n] ]
       /\ held' = held \cup {[serdata |-> d, origin |-> origin, instance |-> i]}
  /\ UNCHANGED << sertypes, opened, domain_freed >>

(* serdata_free, of the last reference *)
Release(h) ==
  /\ h \in held
  /\ held' = held \ {h}
  /\ UNCHANGED << sertypes, opened, tkmap, domain_freed >>

(* An instance without serdatas may go or stay; its copy goes with it *)
Collect(i) ==
  /\ \A h \in held : h.instance # i
  /\ tkmap' = [n \in DOMAIN tkmap \ {i} |-> tkmap[n]]
  /\ UNCHANGED << sertypes, opened, held, domain_freed >>

DeleteTopic(t) ==
  /\ t \in opened
  /\ opened' = opened \ {t}
  /\ UNCHANGED << sertypes, tkmap, held, domain_freed >>

(* sertype_free and Drop for SerType: the last reference to it is gone *)
FreeSertype(t) ==
  /\ sertypes[t] = "live" /\ t \notin opened
  /\ \A h \in held : h.serdata.type # t
  /\ sertypes' = [sertypes EXCEPT ![t] = "freed"]
  /\ UNCHANGED << opened, tkmap, held, domain_freed >>

(* ddsi_tkmap_free *)
FreeDomain ==
  /\ opened = {} /\ ~domain_freed
  /\ domain_freed' = TRUE
  /\ tkmap' = << >>
  /\ UNCHANGED << sertypes, opened, held >>

TypeSupportNext ==
  \/ \E t \in TopicIds :
       \/ CreateTopic(t) \/ CreateTopicFails(t) \/ DeleteTopic(t)
       \/ FreeSertype(t)
       \/ \E origin \in Origins : \E k \in KeyValues : File(origin, t, k)
  \/ \E h \in held : Release(h)
  \/ \E i \in DOMAIN tkmap : Collect(i)
  \/ FreeDomain

TypeSupportSpec == TypeSupportInit /\ [][TypeSupportNext]_typeVars

---------------------------------------------------------------------------
Serdatas == { h.serdata : h \in held } \cup { tkmap[i] : i \in DOMAIN tkmap }

OpsOutlive ==
  \A d \in Serdatas :
    /\ d.ops = Static \/ sertypes[d.ops] = "live"
    /\ d.type = NullType \/ sertypes[d.type] = "live"

FiledTogether ==
  \A a, b \in held :
    a.origin = b.origin =>
      /\ a.serdata.key = b.serdata.key => a.instance = b.instance
      /\ a.origin = "sample" /\ a.serdata.hash # b.serdata.hash =>
           a.instance # b.instance

(* The untyped copy in the map serves in place of what it was copied from.  *)
(* It is found for the next serdata of that kind and key, whichever topic   *)
(* either came from, while written keys of different hashes are kept apart; *)
(* and when it is freed, with its domain and after the sertype it was made  *)
(* under, the table with its free is still there (sertype.rs:34-41), as it  *)
(* is for every serdata in use.                                             *)
CopyServes == OpsOutlive /\ FiledTogether

(* eqkey tests whether two serdatas have the same key, as the comment at    *)
(* serdata.rs:342-343 says.                                                 *)
EqkeyExact ==
  \A a, b \in held :
    serdata_eqkey(a.serdata, b.serdata) <=> a.serdata.key = b.serdata.key
=============================================================================
