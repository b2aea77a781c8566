-------------------------- MODULE DomainLifecycle --------------------------
(***************************************************************************)
(* Shared and owned participants and domains (cyclonedds/src/              *)
(* shared_registry.rs, dds_participant.rs, dds_domain.rs).                 *)
(*                                                                         *)
(* Cyclone DDS tears a domain down when its last participant is deleted,   *)
(* and a create in that domain meanwhile uses freed memory                 *)
(* (docs/domain-lifecycle.md).  get_or_create avoids it by construction:   *)
(* one entity per domain, created under the registry's mutex and leaked.   *)
(* A step is one call into the C library or one access to a registry; a    *)
(* deletion is two steps, the teardown it may cause lies between them.     *)
(***************************************************************************)
EXTENDS FiniteSets

CONSTANTS Threads,        \* threads that use the API
          Domains,        \* real domain ids
          Default,        \* DDS_DOMAIN_DEFAULT, the key of "no domain given"
          DefaultDomain,  \* the id that CYCLONEDDS_URI gives to Default
          Handles,        \* participants the C library may still return
          Args,           \* QoS, listeners and configuration strings
          None,           \* Option::None
          LookupMayFail   \* dds_get_domainid may fail on a new participant

(* A shared domain that was created without a configuration *)
Plain == "plain"

(* What a call answers that hands out no shared participant *)
Outcomes == {"none", "owned", "domain", "error", "precondition"}

ASSUME LifecycleAssumption ==
  /\ DefaultDomain \in Domains
  /\ Default \notin Domains
  /\ None \notin Handles \cup Args \cup Threads \cup {Plain}
  /\ Handles \cap Outcomes = {}
  /\ LookupMayFail \in BOOLEAN

Keys == Domains \cup {Default}

(* The domain that a participant requested with this key ends up in *)
Actual(k) == IF k = Default THEN DefaultDomain ELSE k

VARIABLES
  members,    \* members[d]: live participants of d in the C library
  declared,   \* domains made by dds_create_domain and not deleted
  teardown,   \* domains inside dds_domain_free
  used,       \* handles ever returned
  entries,    \* SHARED_PARTICIPANTS: key -> leaked participant or None
  shared,     \* SHARED_DOMAINS: domain -> config of the leaked one, or None
  lock,       \* per registry, the thread in its mutex or None
  pc,         \* where each thread stands
  key,        \* the key of each thread's running or last call
  asked,      \* the arguments given with that call, or None
  made,       \* the participant that this shared call created, or None
  result,     \* what each thread's last call returned
  owned,      \* the participants each thread owns, with their domains
  ownDomain   \* ownDomain[d]: the owner of a DdsDomain of d, or None

library == << members, declared, teardown, used >>
registry == << entries, shared, lock >>
call == << key, asked, made, result >>
owners == << owned, ownDomain >>
vars == << library, registry, pc, call, owners >>

Step ==
  { "idle",
    "create",       \* participants locked, key missing, about to create
    "resolve",      \* created, about to look up the actual domain
    "unwind",       \* resolve_key failed: inside the drop of the new one
    "discard",      \* the actual domain is registered: about to drop
    "alias",        \* inside that drop, the alias comes next
    "declare",      \* domains locked, key missing, about to create
    "createOwned",  \* inside an unsafe create of a participant
    "finish" }      \* inside dds_delete of an owned entity

TypeOK ==
  /\ members \in [Domains -> SUBSET Handles]
  /\ declared \in SUBSET Domains
  /\ teardown \in SUBSET Domains
  /\ used \in SUBSET Handles
  /\ entries \in [Keys -> Handles \cup {None}]
  /\ shared \in [Domains -> Args \cup {Plain, None}]
  /\ lock \in [{"participants", "domains"} -> Threads \cup {None}]
  /\ pc \in [Threads -> Step]
  /\ key \in [Threads -> Keys]
  /\ asked \in [Threads -> Args \cup {None}]
  /\ made \in [Threads -> Handles \cup {None}]
  /\ result \in [Threads -> Handles \cup Outcomes]
  /\ owned \in [Threads -> SUBSET (Domains \X Handles)]
  /\ ownDomain \in [Domains -> Threads \cup {None}]

Init ==
  /\ members = [d \in Domains |-> {}]
  /\ declared = {}
  /\ teardown = {}
  /\ used = {}
  /\ entries = [k \in Keys |-> None]
  /\ shared = [d \in Domains |-> None]
  /\ lock = [r \in {"participants", "domains"} |-> None]
  /\ pc = [t \in Threads |-> "idle"]
  /\ key = [t \in Threads |-> Default]
  /\ asked = [t \in Threads |-> None]
  /\ made = [t \in Threads |-> None]
  /\ result = [t \in Threads |-> "none"]
  /\ owned = [t \in Threads |-> {}]
  /\ ownDomain = [d \in Domains |-> None]

---------------------------------------------------------------------------
(* The C library, as the repository's documentation describes it *)

Exists(d) == members[d] # {} \/ d \in declared

(* dds_create_participant: a new handle, the domain comes up if need be *)
Join(d, h) ==
  /\ h \notin used
  /\ used' = used \cup {h}
  /\ members' = [members EXCEPT ![d] = @ \cup {h}]
  /\ UNCHANGED << declared, teardown >>

(* dds_delete of a participant: the last one takes the domain with it *)
Leave(d, h) ==
  /\ members' = [members EXCEPT ![d] = @ \ {h}]
  /\ teardown' = IF members[d] = {h} /\ d \notin declared
                 THEN teardown \cup {d} ELSE teardown
  /\ UNCHANGED << declared, used >>

(* dds_create_domain of a domain that does not exist *)
Declare(d) ==
  /\ ~ Exists(d)
  /\ declared' = declared \cup {d}
  /\ UNCHANGED << members, teardown, used >>

(* dds_delete of a domain: its participants go with it *)
Remove(d) ==
  /\ declared' = declared \ {d}
  /\ members' = [members EXCEPT ![d] = {}]
  /\ teardown' = teardown \cup {d}
  /\ UNCHANGED used

(* dds_delete returns *)
Deleted(d) ==
  /\ teardown' = teardown \ {d}
  /\ UNCHANGED << members, declared, used >>

---------------------------------------------------------------------------
Goes(t, from, to) ==
  /\ pc[t] = from
  /\ pc' = [pc EXCEPT ![t] = to]

Begins(t, k, args) ==
  /\ key' = [key EXCEPT ![t] = k]
  /\ asked' = [asked EXCEPT ![t] = args]
  /\ made' = [made EXCEPT ![t] = None]

Returns(t, value) == result' = [result EXCEPT ![t] = value]

(* The last thing a running call does: its arguments stay *)
Ends(t, value) ==
  /\ Returns(t, value)
  /\ UNCHANGED << key, asked, made >>

Locks(r, t) == lock[r] = None /\ lock' = [lock EXCEPT ![r] = t]

Unlocks(r) == lock' = [lock EXCEPT ![r] = None]

Domain(t) == Actual(key[t])

(* A call of t on domain d is under way *)
Busy(t, d) == pc[t] # "idle" /\ Domain(t) = d

(***************************************************************************)
(* What the Safety sections of the two unsafe creates ask of the caller:   *)
(* the count of the domain's participants cannot fall to zero, because one *)
(* is shared, or nobody else creates or drops in that domain meanwhile.    *)
(* The second half binds the calls that come later, too.                   *)
(***************************************************************************)
MayOwn(t, d) ==
  \/ entries[d] # None
  \/ \A u \in Threads \ {t} : ~ Busy(u, d)

MayShare(t, d) ==
  \/ entries[d] # None
  \/ \A u \in Threads \ {t} :
       Busy(u, d) => pc[u] \notin {"createOwned", "finish"}

---------------------------------------------------------------------------
(* DdsParticipant::get_or_create_with over SharedRegistry::get_or_create *)

(* match Shared::Existing: explicit arguments are refused, never ignored *)
Existing(h, args) == IF args = None THEN h ELSE "precondition"

(* The key is registered: locked, looked up and unlocked in one step *)
LookupHit(t, k, args) ==
  /\ Goes(t, "idle", "idle")
  /\ lock["participants"] = None
  /\ entries[k] # None
  /\ Begins(t, k, args)
  /\ Returns(t, Existing(entries[k], args))
  /\ UNCHANGED << library, registry, owners >>

LookupMiss(t, k, args) ==
  /\ Goes(t, "idle", "create")
  /\ Locks("participants", t)
  /\ entries[k] = None
  /\ MayShare(t, Actual(k))
  /\ Begins(t, k, args)
  /\ Returns(t, "none")
  /\ UNCHANGED << library, entries, shared, owners >>

(* Mutant of CreateFails: the guard outlives the call *)
CreateFailsLocked(t) ==
  /\ Goes(t, "create", "idle")
  /\ Ends(t, "error")
  /\ UNCHANGED << library, registry, owners >>

(* create()? returns early, the guard unlocks *)
CreateFails(t) ==
  /\ Goes(t, "create", "idle")
  /\ Unlocks("participants")
  /\ Ends(t, "error")
  /\ UNCHANGED << library, entries, shared, owners >>

CreateShared(t, h) ==
  /\ Goes(t, "create", "resolve")
  /\ Join(Domain(t), h)
  /\ made' = [made EXCEPT ![t] = h]
  /\ UNCHANGED << registry, key, asked, result, owners >>

(* resolve_key(&entity)? returns early: the new participant is dropped *)
ResolveFails(t) ==
  /\ LookupMayFail
  /\ Goes(t, "resolve", "unwind")
  /\ Leave(Domain(t), made[t])
  /\ UNCHANGED << registry, call, owners >>

Unwound(t) ==
  /\ Goes(t, "unwind", "idle")
  /\ Deleted(Domain(t))
  /\ Unlocks("participants")
  /\ Ends(t, "error")
  /\ UNCHANGED << entries, shared, owners >>

(* Mutant of Register: only the requested key is entered *)
RegisterKeyOnly(t) ==
  /\ Goes(t, "resolve", "idle")
  /\ entries[Domain(t)] = None
  /\ entries' = [entries EXCEPT ![key[t]] = made[t]]
  /\ Unlocks("participants")
  /\ Ends(t, made[t])
  /\ UNCHANGED << library, shared, owners >>

(* Mutant of Register: the entity is not leaked but dropped with the call *)
RegisterUnleaked(t) ==
  /\ Goes(t, "resolve", "idle")
  /\ entries[Domain(t)] = None
  /\ Leave(Domain(t), made[t])
  /\ entries' = [k \in Keys |->
                   IF k \in {key[t], Domain(t)} THEN made[t] ELSE entries[k]]
  /\ Unlocks("participants")
  /\ Ends(t, made[t])
  /\ UNCHANGED << shared, owners >>

(* The actual domain has no entry: leaked and registered under both keys *)
Register(t) ==
  /\ Goes(t, "resolve", "idle")
  /\ entries[Domain(t)] = None
  /\ entries' = [k \in Keys |->
                   IF k \in {key[t], Domain(t)} THEN made[t] ELSE entries[k]]
  /\ Unlocks("participants")
  /\ Ends(t, made[t])
  /\ UNCHANGED << library, shared, owners >>

(* It has one: the participant just made is surplus *)
FindsActual(t) ==
  /\ Goes(t, "resolve", "discard")
  /\ entries[Domain(t)] # None
  /\ UNCHANGED << library, registry, call, owners >>

(* Mutant of Discard: the surplus participant is leaked, too *)
DiscardLeaks(t) ==
  /\ Goes(t, "discard", "alias")
  /\ UNCHANGED << library, registry, call, owners >>

Discard(t) ==
  /\ Goes(t, "discard", "alias")
  /\ Leave(Domain(t), made[t])
  /\ UNCHANGED << registry, call, owners >>

InsertAlias(t) ==
  /\ Goes(t, "alias", "idle")
  /\ Deleted(Domain(t))
  /\ entries' = [entries EXCEPT ![key[t]] = entries[Domain(t)]]
  /\ Unlocks("participants")
  /\ Ends(t, Existing(entries[Domain(t)], asked[t]))
  /\ UNCHANGED << shared, owners >>

---------------------------------------------------------------------------
(* DdsDomain::get_or_create: the other registry, with its own mutex *)

(* match Shared::Existing: no configuration or the same one *)
ExistingDomain(d, config) ==
  IF config \in {None, shared[d]} THEN "domain" ELSE "precondition"

DomainHit(t, d, config) ==
  /\ Goes(t, "idle", "idle")
  /\ lock["domains"] = None
  /\ shared[d] # None
  /\ Begins(t, d, config)
  /\ Returns(t, ExistingDomain(d, config))
  /\ UNCHANGED << library, registry, owners >>

DomainMiss(t, d, config) ==
  /\ Goes(t, "idle", "declare")
  /\ Locks("domains", t)
  /\ shared[d] = None
  /\ MayShare(t, d)
  /\ Begins(t, d, config)
  /\ Returns(t, "none")
  /\ UNCHANGED << library, entries, shared, owners >>

(* A domain that exists, by whomever, or a configuration that is refused *)
DeclareFails(t) ==
  /\ Goes(t, "declare", "idle")
  /\ Exists(Domain(t)) \/ asked[t] # None
  /\ Unlocks("domains")
  /\ Ends(t, IF Exists(Domain(t)) THEN "precondition" ELSE "error")
  /\ UNCHANGED << library, entries, shared, owners >>

DeclareShared(t) ==
  /\ Goes(t, "declare", "idle")
  /\ Declare(Domain(t))
  /\ shared' = [shared EXCEPT ![Domain(t)] =
                  IF asked[t] = None THEN Plain ELSE asked[t]]
  /\ Unlocks("domains")
  /\ Ends(t, "domain")
  /\ UNCHANGED << entries, owners >>

---------------------------------------------------------------------------
(* unsafe create and Drop, within the caller's promise *)

OwnBegins(t, k) ==
  /\ Goes(t, "idle", "createOwned")
  /\ MayOwn(t, Actual(k))
  /\ Begins(t, k, None)
  /\ Returns(t, "none")
  /\ UNCHANGED << library, registry, owners >>

OwnFails(t) ==
  /\ Goes(t, "createOwned", "idle")
  /\ Ends(t, "error")
  /\ UNCHANGED << library, registry, owners >>

OwnCreated(t, h) ==
  /\ Goes(t, "createOwned", "idle")
  /\ Join(Domain(t), h)
  /\ owned' = [owned EXCEPT ![t] = @ \cup {<<Domain(t), h>>}]
  /\ Ends(t, "owned")
  /\ UNCHANGED << registry, ownDomain >>

(* dds_delete fails, and is only logged, when the domain took h with it *)
DropOwned(t, d, h) ==
  /\ Goes(t, "idle", "finish")
  /\ <<d, h>> \in owned[t]
  /\ MayOwn(t, d)
  /\ Leave(d, h)
  /\ owned' = [owned EXCEPT ![t] = @ \ {<<d, h>>}]
  /\ Begins(t, d, None)
  /\ Returns(t, "none")
  /\ UNCHANGED << registry, ownDomain >>

(* An owned domain: dds_create_domain is the only call of create *)
OwnDomain(t, d) ==
  /\ Goes(t, "idle", "idle")
  /\ \A u \in Threads \ {t} : ~ Busy(u, d)
  /\ Begins(t, d, None)
  /\ UNCHANGED << registry, owned >>
  /\ \/ /\ Declare(d)
        /\ ownDomain' = [ownDomain EXCEPT ![d] = t]
        /\ Returns(t, "owned")
     \/ /\ Returns(t, "error")
        /\ UNCHANGED << library, ownDomain >>

(* Nobody may use the domain: no call runs, no participant of it is shared *)
DropDomain(t, d) ==
  /\ Goes(t, "idle", "finish")
  /\ ownDomain[d] = t
  /\ entries[d] = None
  /\ \A u \in Threads \ {t} : ~ Busy(u, d)
  /\ Remove(d)
  /\ ownDomain' = [ownDomain EXCEPT ![d] = None]
  /\ Begins(t, d, None)
  /\ Returns(t, "none")
  /\ UNCHANGED << registry, owned >>

DropEnds(t) ==
  /\ Goes(t, "finish", "idle")
  /\ Deleted(Domain(t))
  /\ Ends(t, "none")
  /\ UNCHANGED << registry, owners >>

---------------------------------------------------------------------------
(* What a call that has begun still does *)
Advance(t) ==
  \/ CreateFails(t)
  \/ \E h \in Handles : CreateShared(t, h)
  \/ ResolveFails(t)
  \/ Unwound(t)
  \/ Register(t)
  \/ FindsActual(t)
  \/ Discard(t)
  \/ InsertAlias(t)
  \/ DeclareFails(t)
  \/ DeclareShared(t)
  \/ OwnFails(t)
  \/ \E h \in Handles : OwnCreated(t, h)
  \/ DropEnds(t)

Call(t) ==
  \/ \E k \in Keys, args \in Args \cup {None} :
       LookupHit(t, k, args) \/ LookupMiss(t, k, args)
  \/ \E d \in Domains, config \in Args \cup {None} :
       DomainHit(t, d, config) \/ DomainMiss(t, d, config)
  \/ \E k \in Keys : OwnBegins(t, k)
  \/ \E d \in Domains, h \in Handles : DropOwned(t, d, h)
  \/ \E d \in Domains : OwnDomain(t, d) \/ DropDomain(t, d)

Next == \E t \in Threads : Advance(t) \/ Call(t)

Spec == Init /\ [][Next]_vars

---------------------------------------------------------------------------
(* A participant or a domain is never created in a domain that is being    *)
(* torn down: what get_or_create is for, given the owners' promise.  Only   *)
(* if dds_getdomainid fails does get_or_create itself take a domain down,   *)
(* by the drop of the participant it just made (shared_registry.rs:65).     *)
NoCreateInTeardown ==
  \A t \in Threads :
    pc[t] \in {"create", "createOwned", "declare"} /\ Domain(t) \in teardown =>
      \E u \in Threads : pc[u] = "unwind" /\ Domain(u) = Domain(t)

(* A registered participant stays alive in the domain of its key, which is *)
(* never torn down: the &'static handed out is never dangling.             *)
SharedAlive ==
  \A k \in Keys : entries[k] # None =>
    /\ entries[k] \in members[Actual(k)]
    /\ Actual(k) \notin teardown

(* All successful shared calls of one domain, by its id or by default,     *)
(* return one participant: the alias never splits it in two.               *)
OneShared ==
  \A t, u \in Threads :
    result[t] \in Handles /\ result[u] \in Handles /\ Domain(t) = Domain(u)
      => result[t] = result[u]

(* Arguments are never silently ignored: a participant that was asked for  *)
(* with arguments was created by that call, and a domain that was asked    *)
(* for with a configuration has it.                                        *)
ArgsHonoured ==
  \A t \in Threads :
    asked[t] # None =>
      /\ result[t] \in Handles => result[t] = made[t]
      /\ result[t] = "domain" => shared[Domain(t)] = asked[t]

(* The registry's promise: one participant, alive for good, as asked for.  *)
SharedSound == SharedAlive /\ OneShared /\ ArgsHonoured

(* Every live participant is registered, owned or held by a running call:  *)
(* the one that get_or_create finds surplus does not stay behind.          *)
NoneLeaked ==
  \A d \in Domains : \A h \in members[d] :
    \/ h = entries[d]
    \/ \E t \in Threads : <<d, h>> \in owned[t]
    \/ \E t \in Threads : pc[t] \in {"resolve", "discard"} /\ made[t] = h

(* Only an owner takes a domain down: what get_or_create drops while it    *)
(* runs never is the last participant of a domain (dds_participant.rs:188, *)
(* shared_registry.rs:68).                                                 *)
OwnersTearDown ==
  \A d \in teardown : \E t \in Threads : pc[t] = "finish" /\ Domain(t) = d

(* The mutex of a registry is released whatever way a call ends: whoever    *)
(* has it is in a call that can go on, waiting for nothing and nobody, and  *)
(* every call ends after a few such steps.  No early return leaves the      *)
(* mutex locked, and no two threads wait for each other's.                  *)
LocksAreReleased ==
  \A r \in {"participants", "domains"} :
    lock[r] # None => ENABLED Advance(lock[r])

===========================================================================
