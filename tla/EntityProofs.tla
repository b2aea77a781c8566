------------------------------ MODULE EntityProofs --------------------------
(***************************************************************************)
(* What holds of shared and owned participants for every number of         *)
(* threads, domains and handles, and of the tree of entities below them:   *)
(* no callback runs on a freed box, nothing is deleted under its owner,    *)
(* and loans can be returned, for any number of entities, listeners and    *)
(* handles.                                                                *)
(***************************************************************************)
EXTENDS DomainLifecycle, EntityTree, TLAPS, FiniteSetTheorems

---------------------------------------------------------------------------
(* The inductive invariant *)

(* Where a thread is inside the mutex of the participants, where it has a  *)
(* participant nobody else knows, and where it deletes something           *)
Section == {"create", "resolve", "unwind", "discard", "alias"}

Holding == {"resolve", "discard"}

Deleting == {"finish", "unwind"}

(* Whoever is inside the registry of participants holds its mutex *)
LockInv ==
  \A t \in Threads :
    /\ pc[t] \in Section => lock["participants"] = t
    /\ pc[t] = "unwind" => LookupMayFail

(* Inside it the requested key is missing, and after a lookup of the       *)
(* actual domain that found it, the domain's entry is there                *)
KeyInv ==
  \A t \in Threads :
    /\ pc[t] \in Section => entries[key[t]] = None
    /\ pc[t] \in {"discard", "alias"} => entries[Domain(t)] # None

(* An alias is the entry of its domain *)
AliasInv == \A k \in Keys : entries[k] # None => entries[Actual(k)] = entries[k]

(* Nobody else has the participant that a call just made *)
MadeInv ==
  \A t \in Threads : pc[t] \in Holding =>
    /\ made[t] \in members[Domain(t)]
    /\ made[t] \in used
    /\ \A k \in Keys : entries[k] # made[t]

(* Nor is an owned participant registered or just made *)
OwnedInv ==
  \A u \in Threads : \A p \in owned[u] :
    /\ p[2] \in used
    /\ \A k \in Keys : entries[k] # p[2]
    /\ \A t \in Threads : pc[t] \in Holding => made[t] # p[2]

(* A registered participant is alive *)
EntryInv ==
  \A k \in Keys :
    entries[k] # None => entries[k] \in members[Actual(k)] \cap used

(* A running call has no answer; a successful answer is what is registered *)
ResultInv ==
  \A t \in Threads :
    /\ pc[t] # "idle" => result[t] = "none"
    /\ result[t] \in Handles => result[t] = entries[Domain(t)]

(* The owners' promise, as it unfolds *)
PromiseInv ==
  \A t, u \in Threads :
    t # u /\ pc[u] \in {"createOwned", "finish"} /\ Busy(t, Domain(u))
      => entries[Domain(u)] # None

(* A shared domain stays declared, and nobody owns it as well *)
DomainInv ==
  \A d \in Domains :
    /\ shared[d] # None => d \in declared /\ ownDomain[d] = None
    /\ ownDomain[d] # None => d \in declared

(* Only a domain without a shared participant is torn down *)
TeardownInv ==
  \A d \in teardown :
    /\ entries[d] = None
    /\ \E u \in Threads : pc[u] \in Deleting /\ Domain(u) = d

(* NoneLeaked, with the domain that a new participant is in *)
NoneLeakedInv ==
  \A d \in Domains : \A h \in members[d] :
    \/ h = entries[d]
    \/ \E t \in Threads : <<d, h>> \in owned[t]
    \/ \E t \in Threads : pc[t] \in Holding /\ made[t] = h /\ Domain(t) = d

IInv ==
  /\ TypeOK
  /\ LockInv
  /\ KeyInv
  /\ AliasInv
  /\ MadeInv
  /\ OwnedInv
  /\ EntryInv
  /\ ResultInv
  /\ PromiseInv
  /\ DomainInv
  /\ ArgsHonoured
  /\ TeardownInv
  /\ NoneLeakedInv

---------------------------------------------------------------------------
(* It is inductive.  The operators that actions are built from are always  *)
(* expanded; each lemma names the parts of the invariant it needs.         *)

USE DEF Step, Section, Holding, Deleting, Actual, Keys, Domain, Goes, Begins,
        Returns, Ends, Locks, Unlocks, Join, Leave, Declare, Remove, Deleted,
        Existing, ExistingDomain, library, registry, call, owners, vars

(* The invariant holds before the first call *)
LEMMA IInvInit ==
  ASSUME Init
  PROVE  IInv
BY LifecycleAssumption DEF Init, IInv, Outcomes, TypeOK, LockInv, KeyInv,
   AliasInv, MadeInv, OwnedInv, EntryInv, ResultInv, PromiseInv, DomainInv,
   ArgsHonoured, TeardownInv, NoneLeakedInv, Busy

(* Types: what a call made or looked up and then returns is a handle *)
LEMMA TypeOKStep ==
  ASSUME TypeOK, KeyInv, MadeInv,
         Next
  PROVE  TypeOK'
<1>1. PICK t \in Threads : Advance(t) \/ Call(t)
  BY DEF Next
<1> USE LifecycleAssumption
    DEF TypeOK, KeyInv, MadeInv, Outcomes
<1>2. CASE \/ \E k \in Keys, given \in Args \cup {None} :
                LookupHit(t, k, given) \/ LookupMiss(t, k, given)
           \/ \E d \in Domains, config \in Args \cup {None} :
                DomainHit(t, d, config) \/ DomainMiss(t, d, config)
           \/ \E k \in Keys : OwnBegins(t, k)
  <2>1. ASSUME NEW k \in Keys, NEW given \in Args \cup {None}, LookupHit(t, k, given)
        PROVE  TypeOK'
    BY <2>1 DEF LookupHit
  <2>2. ASSUME NEW k \in Keys, NEW given \in Args \cup {None}, LookupMiss(t, k, given)
        PROVE  TypeOK'
    BY <2>2 DEF LookupMiss
  <2>3. ASSUME NEW d \in Domains, NEW config \in Args \cup {None}, DomainHit(t, d, config)
        PROVE  TypeOK'
    BY <2>3 DEF DomainHit
  <2>4. ASSUME NEW d \in Domains, NEW config \in Args \cup {None}, DomainMiss(t, d, config)
        PROVE  TypeOK'
    BY <2>4 DEF DomainMiss
  <2>5. ASSUME NEW k \in Keys, OwnBegins(t, k) PROVE TypeOK'
    BY <2>5 DEF OwnBegins
  <2> HIDE DEF TypeOK
  <2> QED BY <1>2, <2>1, <2>2, <2>3, <2>4, <2>5
<1>3. CASE \/ CreateFails(t)
           \/ FindsActual(t)
           \/ DeclareFails(t)
           \/ OwnFails(t)
  BY SMTT(30), <1>3 DEF CreateFails, FindsActual, DeclareFails, OwnFails
<1>4. CASE \/ Unwound(t)
           \/ DeclareShared(t)
           \/ DropEnds(t)
  BY <1>4 DEF Unwound, DeclareShared, DropEnds
<1>5. CASE \E h \in Handles : CreateShared(t, h)
  BY <1>5 DEF CreateShared
<1>6. CASE ResolveFails(t) \/ Discard(t)
  BY <1>6 DEF ResolveFails, Discard
<1>7. CASE Register(t)
  BY <1>7 DEF Register
<1>8. CASE InsertAlias(t)
  BY <1>8 DEF InsertAlias
<1>9. CASE \E h \in Handles : OwnCreated(t, h)
  BY <1>9 DEF OwnCreated
<1>10. CASE \E d \in Domains, h \in Handles : DropOwned(t, d, h)
  BY <1>10 DEF DropOwned
<1>11. CASE \E d \in Domains : OwnDomain(t, d) \/ DropDomain(t, d)
  BY SMTT(30), <1>11 DEF OwnDomain, DropDomain
<1> QED
  BY <1>1, <1>2, <1>3, <1>4, <1>5, <1>6, <1>7, <1>8, <1>9, <1>10, <1>11
  DEF Advance, Call

(* The mutex: get_or_create takes it first and gives it back last *)
LEMMA LockStep ==
  ASSUME TypeOK, LockInv,
         Next
  PROVE  LockInv'
<1>1. PICK t \in Threads : Advance(t) \/ Call(t)
  BY DEF Next
<1> USE LifecycleAssumption
    DEF LockInv, TypeOK
<1>2. CASE \/ \E k \in Keys, given \in Args \cup {None} :
                LookupHit(t, k, given) \/ LookupMiss(t, k, given)
           \/ \E d \in Domains, config \in Args \cup {None} :
                DomainHit(t, d, config) \/ DomainMiss(t, d, config)
           \/ \E k \in Keys : OwnBegins(t, k)
  BY <1>2 DEF LookupHit, LookupMiss, DomainHit, DomainMiss, OwnBegins
<1>3. CASE \/ CreateFails(t)
           \/ FindsActual(t)
           \/ DeclareFails(t)
           \/ OwnFails(t)
  BY <1>3 DEF CreateFails, FindsActual, DeclareFails, OwnFails
<1>4. CASE \/ Unwound(t)
           \/ DeclareShared(t)
           \/ DropEnds(t)
  BY <1>4 DEF Unwound, DeclareShared, DropEnds
<1>5. CASE \E h \in Handles : CreateShared(t, h)
  BY <1>5 DEF CreateShared
<1>6. CASE ResolveFails(t) \/ Discard(t)
  BY <1>6 DEF ResolveFails, Discard
<1>7. CASE Register(t)
  BY <1>7 DEF Register
<1>8. CASE InsertAlias(t)
  BY <1>8 DEF InsertAlias
<1>9. CASE \E h \in Handles : OwnCreated(t, h)
  BY <1>9 DEF OwnCreated
<1>10. CASE \E d \in Domains, h \in Handles : DropOwned(t, d, h)
  BY <1>10 DEF DropOwned
<1>11. CASE \E d \in Domains : OwnDomain(t, d) \/ DropDomain(t, d)
  BY <1>11 DEF OwnDomain, DropDomain
<1> QED
  BY <1>1, <1>2, <1>3, <1>4, <1>5, <1>6, <1>7, <1>8, <1>9, <1>10, <1>11
  DEF Advance, Call

(* The requested key stays missing while the mutex is held *)
LEMMA KeyStep ==
  ASSUME TypeOK, LockInv, KeyInv,
         Next
  PROVE  KeyInv'
<1>1. PICK t \in Threads : Advance(t) \/ Call(t)
  BY DEF Next
<1> USE LifecycleAssumption
    DEF KeyInv, TypeOK, LockInv
<1>2. CASE \/ \E k \in Keys, given \in Args \cup {None} :
                LookupHit(t, k, given) \/ LookupMiss(t, k, given)
           \/ \E d \in Domains, config \in Args \cup {None} :
                DomainHit(t, d, config) \/ DomainMiss(t, d, config)
           \/ \E k \in Keys : OwnBegins(t, k)
  BY <1>2 DEF LookupHit, LookupMiss, DomainHit, DomainMiss, OwnBegins
<1>3. CASE \/ CreateFails(t)
           \/ FindsActual(t)
           \/ DeclareFails(t)
           \/ OwnFails(t)
  BY <1>3 DEF CreateFails, FindsActual, DeclareFails, OwnFails
<1>4. CASE \/ Unwound(t)
           \/ DeclareShared(t)
           \/ DropEnds(t)
  BY <1>4 DEF Unwound, DeclareShared, DropEnds
<1>5. CASE \E h \in Handles : CreateShared(t, h)
  BY <1>5 DEF CreateShared
<1>6. CASE ResolveFails(t) \/ Discard(t)
  BY <1>6 DEF ResolveFails, Discard
<1>7. CASE Register(t)
  BY <1>7 DEF Register
<1>8. CASE InsertAlias(t)
  BY <1>8 DEF InsertAlias
<1>9. CASE \E h \in Handles : OwnCreated(t, h)
  BY <1>9 DEF OwnCreated
<1>10. CASE \E d \in Domains, h \in Handles : DropOwned(t, d, h)
  BY <1>10 DEF DropOwned
<1>11. CASE \E d \in Domains : OwnDomain(t, d) \/ DropDomain(t, d)
  BY <1>11 DEF OwnDomain, DropDomain
<1> QED
  BY <1>1, <1>2, <1>3, <1>4, <1>5, <1>6, <1>7, <1>8, <1>9, <1>10, <1>11
  DEF Advance, Call

(* Register and InsertAlias keep the aliases equal to their entries *)
LEMMA AliasStep ==
  ASSUME TypeOK, LockInv, KeyInv, AliasInv,
         Next
  PROVE  AliasInv'
<1>1. PICK t \in Threads : Advance(t) \/ Call(t)
  BY DEF Next
<1> USE LifecycleAssumption
    DEF AliasInv, TypeOK, LockInv, KeyInv
<1>2. CASE \/ \E k \in Keys, given \in Args \cup {None} :
                LookupHit(t, k, given) \/ LookupMiss(t, k, given)
           \/ \E d \in Domains, config \in Args \cup {None} :
                DomainHit(t, d, config) \/ DomainMiss(t, d, config)
           \/ \E k \in Keys : OwnBegins(t, k)
  BY <1>2 DEF LookupHit, LookupMiss, DomainHit, DomainMiss, OwnBegins
<1>3. CASE \/ CreateFails(t)
           \/ FindsActual(t)
           \/ DeclareFails(t)
           \/ OwnFails(t)
  BY <1>3 DEF CreateFails, FindsActual, DeclareFails, OwnFails
<1>4. CASE \/ Unwound(t)
           \/ DeclareShared(t)
           \/ DropEnds(t)
  BY <1>4 DEF Unwound, DeclareShared, DropEnds
<1>5. CASE \E h \in Handles : CreateShared(t, h)
  BY <1>5 DEF CreateShared
<1>6. CASE ResolveFails(t) \/ Discard(t)
  BY <1>6 DEF ResolveFails, Discard
<1>7. CASE Register(t)
  BY <1>7 DEF Register
<1>8. CASE InsertAlias(t)
  BY <1>8 DEF InsertAlias
<1>9. CASE \E h \in Handles : OwnCreated(t, h)
  BY <1>9 DEF OwnCreated
<1>10. CASE \E d \in Domains, h \in Handles : DropOwned(t, d, h)
  BY <1>10 DEF DropOwned
<1>11. CASE \E d \in Domains : OwnDomain(t, d) \/ DropDomain(t, d)
  BY <1>11 DEF OwnDomain, DropDomain
<1> QED
  BY <1>1, <1>2, <1>3, <1>4, <1>5, <1>6, <1>7, <1>8, <1>9, <1>10, <1>11
  DEF Advance, Call

(* A participant just made stays alive and private until it is registered *)
LEMMA MadeStep ==
  ASSUME TypeOK, LockInv, KeyInv, AliasInv, MadeInv, OwnedInv, EntryInv,
         Next
  PROVE  MadeInv'
<1>1. PICK t \in Threads : Advance(t) \/ Call(t)
  BY DEF Next
<1> USE LifecycleAssumption
    DEF MadeInv, TypeOK, LockInv, KeyInv, AliasInv, OwnedInv, EntryInv, Busy
<1>2. CASE \/ \E k \in Keys, given \in Args \cup {None} :
                LookupHit(t, k, given) \/ LookupMiss(t, k, given)
           \/ \E d \in Domains, config \in Args \cup {None} :
                DomainHit(t, d, config) \/ DomainMiss(t, d, config)
           \/ \E k \in Keys : OwnBegins(t, k)
  BY <1>2 DEF LookupHit, LookupMiss, DomainHit, DomainMiss, OwnBegins
<1>3. CASE \/ CreateFails(t)
           \/ FindsActual(t)
           \/ DeclareFails(t)
           \/ OwnFails(t)
  BY <1>3 DEF CreateFails, FindsActual, DeclareFails, OwnFails
<1>4. CASE \/ Unwound(t)
           \/ DeclareShared(t)
           \/ DropEnds(t)
  BY <1>4 DEF Unwound, DeclareShared, DropEnds
<1>5. CASE \E h \in Handles : CreateShared(t, h)
  BY <1>5 DEF CreateShared
<1>6. CASE ResolveFails(t) \/ Discard(t)
  BY <1>6 DEF ResolveFails, Discard
<1>7. CASE Register(t)
  BY <1>7 DEF Register
<1>8. CASE InsertAlias(t)
  BY <1>8 DEF InsertAlias
<1>9. CASE \E h \in Handles : OwnCreated(t, h)
  BY <1>9 DEF OwnCreated
<1>10. CASE \E d \in Domains, h \in Handles : DropOwned(t, d, h)
  BY <1>10 DEF DropOwned
<1>11. CASE \E d \in Domains : OwnDomain(t, d) \/ DropDomain(t, d)
  BY <1>11 DEF OwnDomain, DropDomain
<1> QED
  BY <1>1, <1>2, <1>3, <1>4, <1>5, <1>6, <1>7, <1>8, <1>9, <1>10, <1>11
  DEF Advance, Call

(* Owned participants are never registered *)
LEMMA OwnedStep ==
  ASSUME TypeOK, LockInv, MadeInv, OwnedInv, EntryInv,
         Next
  PROVE  OwnedInv'
<1>1. PICK t \in Threads : Advance(t) \/ Call(t)
  BY DEF Next
<1> USE LifecycleAssumption
    DEF OwnedInv, TypeOK, LockInv, MadeInv, EntryInv
<1>2. CASE \/ \E k \in Keys, given \in Args \cup {None} :
                LookupHit(t, k, given) \/ LookupMiss(t, k, given)
           \/ \E d \in Domains, config \in Args \cup {None} :
                DomainHit(t, d, config) \/ DomainMiss(t, d, config)
           \/ \E k \in Keys : OwnBegins(t, k)
  BY <1>2 DEF LookupHit, LookupMiss, DomainHit, DomainMiss, OwnBegins
<1>3. CASE \/ CreateFails(t)
           \/ FindsActual(t)
           \/ DeclareFails(t)
           \/ OwnFails(t)
  BY <1>3 DEF CreateFails, FindsActual, DeclareFails, OwnFails
<1>4. CASE \/ Unwound(t)
           \/ DeclareShared(t)
           \/ DropEnds(t)
  BY <1>4 DEF Unwound, DeclareShared, DropEnds
<1>5. CASE \E h \in Handles : CreateShared(t, h)
  BY <1>5 DEF CreateShared
<1>6. CASE ResolveFails(t) \/ Discard(t)
  BY <1>6 DEF ResolveFails, Discard
<1>7. CASE Register(t)
  BY <1>7 DEF Register
<1>8. CASE InsertAlias(t)
  BY <1>8 DEF InsertAlias
<1>9. CASE \E h \in Handles : OwnCreated(t, h)
  BY <1>9 DEF OwnCreated
<1>10. CASE \E d \in Domains, h \in Handles : DropOwned(t, d, h)
  BY <1>10 DEF DropOwned
<1>11. CASE \E d \in Domains : OwnDomain(t, d) \/ DropDomain(t, d)
  BY <1>11 DEF OwnDomain, DropDomain
<1> QED
  BY <1>1, <1>2, <1>3, <1>4, <1>5, <1>6, <1>7, <1>8, <1>9, <1>10, <1>11
  DEF Advance, Call

(* No deletion takes a registered participant *)
LEMMA EntryStep ==
  ASSUME TypeOK, LockInv, KeyInv, AliasInv, MadeInv, OwnedInv, EntryInv,
         Next
  PROVE  EntryInv'
<1>1. PICK t \in Threads : Advance(t) \/ Call(t)
  BY DEF Next
<1> USE LifecycleAssumption
    DEF EntryInv, TypeOK, LockInv, KeyInv, AliasInv, MadeInv, OwnedInv
<1>2. CASE \/ \E k \in Keys, given \in Args \cup {None} :
                LookupHit(t, k, given) \/ LookupMiss(t, k, given)
           \/ \E d \in Domains, config \in Args \cup {None} :
                DomainHit(t, d, config) \/ DomainMiss(t, d, config)
           \/ \E k \in Keys : OwnBegins(t, k)
  BY <1>2 DEF LookupHit, LookupMiss, DomainHit, DomainMiss, OwnBegins
<1>3. CASE \/ CreateFails(t)
           \/ FindsActual(t)
           \/ DeclareFails(t)
           \/ OwnFails(t)
  BY <1>3 DEF CreateFails, FindsActual, DeclareFails, OwnFails
<1>4. CASE \/ Unwound(t)
           \/ DeclareShared(t)
           \/ DropEnds(t)
  BY <1>4 DEF Unwound, DeclareShared, DropEnds
<1>5. CASE \E h \in Handles : CreateShared(t, h)
  BY <1>5 DEF CreateShared
<1>6. CASE ResolveFails(t) \/ Discard(t)
  BY <1>6 DEF ResolveFails, Discard
<1>7. CASE Register(t)
  BY <1>7 DEF Register
<1>8. CASE InsertAlias(t)
  BY <1>8 DEF InsertAlias
<1>9. CASE \E h \in Handles : OwnCreated(t, h)
  BY <1>9 DEF OwnCreated
<1>10. CASE \E d \in Domains, h \in Handles : DropOwned(t, d, h)
  BY <1>10 DEF DropOwned
<1>11. CASE \E d \in Domains : OwnDomain(t, d) \/ DropDomain(t, d)
  BY SMTT(30), <1>11 DEF OwnDomain, DropDomain
<1> QED
  BY <1>1, <1>2, <1>3, <1>4, <1>5, <1>6, <1>7, <1>8, <1>9, <1>10, <1>11
  DEF Advance, Call

(* Entries never change, so old answers agree with them *)
LEMMA ResultStep ==
  ASSUME TypeOK, LockInv, KeyInv, AliasInv, ResultInv,
         Next
  PROVE  ResultInv'
<1>1. PICK t \in Threads : Advance(t) \/ Call(t)
  BY DEF Next
<1> USE LifecycleAssumption
    DEF ResultInv, TypeOK, LockInv, KeyInv, AliasInv, Outcomes
<1>2. CASE \/ \E k \in Keys, given \in Args \cup {None} :
                LookupHit(t, k, given) \/ LookupMiss(t, k, given)
           \/ \E d \in Domains, config \in Args \cup {None} :
                DomainHit(t, d, config) \/ DomainMiss(t, d, config)
           \/ \E k \in Keys : OwnBegins(t, k)
  BY <1>2 DEF LookupHit, LookupMiss, DomainHit, DomainMiss, OwnBegins
<1>3. CASE \/ CreateFails(t)
           \/ FindsActual(t)
           \/ DeclareFails(t)
           \/ OwnFails(t)
  BY <1>3 DEF CreateFails, FindsActual, DeclareFails, OwnFails
<1>4. CASE \/ Unwound(t)
           \/ DeclareShared(t)
           \/ DropEnds(t)
  BY <1>4 DEF Unwound, DeclareShared, DropEnds
<1>5. CASE \E h \in Handles : CreateShared(t, h)
  BY <1>5 DEF CreateShared
<1>6. CASE ResolveFails(t) \/ Discard(t)
  BY <1>6 DEF ResolveFails, Discard
<1>7. CASE Register(t)
  BY <1>7 DEF Register
<1>8. CASE InsertAlias(t)
  BY <1>8 DEF InsertAlias
<1>9. CASE \E h \in Handles : OwnCreated(t, h)
  BY <1>9 DEF OwnCreated
<1>10. CASE \E d \in Domains, h \in Handles : DropOwned(t, d, h)
  BY <1>10 DEF DropOwned
<1>11. CASE \E d \in Domains : OwnDomain(t, d) \/ DropDomain(t, d)
  BY <1>11 DEF OwnDomain, DropDomain
<1> QED
  BY <1>1, <1>2, <1>3, <1>4, <1>5, <1>6, <1>7, <1>8, <1>9, <1>10, <1>11
  DEF Advance, Call

(* The promise of the owners holds until their call ends *)
LEMMA PromiseStep ==
  ASSUME TypeOK, LockInv, KeyInv, PromiseInv,
         Next
  PROVE  PromiseInv'
<1>1. PICK t \in Threads : Advance(t) \/ Call(t)
  BY DEF Next
<1> USE LifecycleAssumption
    DEF PromiseInv, TypeOK, LockInv, KeyInv, Busy, MayOwn, MayShare
<1>2. CASE \/ \E k \in Keys, given \in Args \cup {None} :
                LookupHit(t, k, given) \/ LookupMiss(t, k, given)
           \/ \E d \in Domains, config \in Args \cup {None} :
                DomainHit(t, d, config) \/ DomainMiss(t, d, config)
           \/ \E k \in Keys : OwnBegins(t, k)
  BY <1>2 DEF LookupHit, LookupMiss, DomainHit, DomainMiss, OwnBegins
<1>3. CASE \/ CreateFails(t)
           \/ FindsActual(t)
           \/ DeclareFails(t)
           \/ OwnFails(t)
  BY <1>3 DEF CreateFails, FindsActual, DeclareFails, OwnFails
<1>4. CASE \/ Unwound(t)
           \/ DeclareShared(t)
           \/ DropEnds(t)
  BY <1>4 DEF Unwound, DeclareShared, DropEnds
<1>5. CASE \E h \in Handles : CreateShared(t, h)
  BY <1>5 DEF CreateShared
<1>6. CASE ResolveFails(t) \/ Discard(t)
  BY <1>6 DEF ResolveFails, Discard
<1>7. CASE Register(t)
  BY <1>7 DEF Register
<1>8. CASE InsertAlias(t)
  BY <1>8 DEF InsertAlias
<1>9. CASE \E h \in Handles : OwnCreated(t, h)
  BY <1>9 DEF OwnCreated
<1>10. CASE \E d \in Domains, h \in Handles : DropOwned(t, d, h)
  BY <1>10 DEF DropOwned
<1>11. CASE \E d \in Domains : OwnDomain(t, d) \/ DropDomain(t, d)
  BY <1>11 DEF OwnDomain, DropDomain
<1> QED
  BY <1>1, <1>2, <1>3, <1>4, <1>5, <1>6, <1>7, <1>8, <1>9, <1>10, <1>11
  DEF Advance, Call

(* A shared domain is neither declared again nor deleted *)
LEMMA DomainStep ==
  ASSUME TypeOK, LockInv, DomainInv,
         Next
  PROVE  DomainInv'
<1>1. PICK t \in Threads : Advance(t) \/ Call(t)
  BY DEF Next
<1> USE LifecycleAssumption
    DEF DomainInv, TypeOK, Exists
<1>2. CASE \/ \E k \in Keys, given \in Args \cup {None} :
                LookupHit(t, k, given) \/ LookupMiss(t, k, given)
           \/ \E d \in Domains, config \in Args \cup {None} :
                DomainHit(t, d, config) \/ DomainMiss(t, d, config)
           \/ \E k \in Keys : OwnBegins(t, k)
  BY <1>2 DEF LookupHit, LookupMiss, DomainHit, DomainMiss, OwnBegins
<1>3. CASE \/ CreateFails(t)
           \/ FindsActual(t)
           \/ DeclareFails(t)
           \/ OwnFails(t)
  BY <1>3 DEF CreateFails, FindsActual, DeclareFails, OwnFails
<1>4. CASE \/ Unwound(t)
           \/ DeclareShared(t)
           \/ DropEnds(t)
  BY <1>4 DEF Unwound, DeclareShared, DropEnds
<1>5. CASE \E h \in Handles : CreateShared(t, h)
  BY <1>5 DEF CreateShared
<1>6. CASE ResolveFails(t) \/ Discard(t)
  BY <1>6 DEF ResolveFails, Discard
<1>7. CASE Register(t)
  BY <1>7 DEF Register
<1>8. CASE InsertAlias(t)
  BY <1>8 DEF InsertAlias
<1>9. CASE \E h \in Handles : OwnCreated(t, h)
  BY <1>9 DEF OwnCreated
<1>10. CASE \E d \in Domains, h \in Handles : DropOwned(t, d, h)
  BY <1>10 DEF DropOwned
<1>11. CASE \E d \in Domains : OwnDomain(t, d) \/ DropDomain(t, d)
  BY <1>11 DEF OwnDomain, DropDomain
<1> QED
  BY <1>1, <1>2, <1>3, <1>4, <1>5, <1>6, <1>7, <1>8, <1>9, <1>10, <1>11
  DEF Advance, Call

(* Given arguments are refused or used *)
LEMMA ArgsStep ==
  ASSUME TypeOK, KeyInv, MadeInv, ResultInv, DomainInv, ArgsHonoured,
         Next
  PROVE  ArgsHonoured'
<1>1. PICK t \in Threads : Advance(t) \/ Call(t)
  BY DEF Next
<1> USE LifecycleAssumption
    DEF ArgsHonoured, TypeOK, KeyInv, MadeInv, ResultInv, DomainInv,
        Outcomes, Exists
<1>2. CASE \/ \E k \in Keys, given \in Args \cup {None} :
                LookupHit(t, k, given) \/ LookupMiss(t, k, given)
           \/ \E d \in Domains, config \in Args \cup {None} :
                DomainHit(t, d, config) \/ DomainMiss(t, d, config)
           \/ \E k \in Keys : OwnBegins(t, k)
  BY <1>2 DEF LookupHit, LookupMiss, DomainHit, DomainMiss, OwnBegins
<1>3. CASE \/ CreateFails(t)
           \/ FindsActual(t)
           \/ DeclareFails(t)
           \/ OwnFails(t)
  BY <1>3 DEF CreateFails, FindsActual, DeclareFails, OwnFails
<1>4. CASE \/ Unwound(t)
           \/ DeclareShared(t)
           \/ DropEnds(t)
  BY <1>4 DEF Unwound, DeclareShared, DropEnds
<1>5. CASE \E h \in Handles : CreateShared(t, h)
  BY <1>5 DEF CreateShared
<1>6. CASE ResolveFails(t) \/ Discard(t)
  BY <1>6 DEF ResolveFails, Discard
<1>7. CASE Register(t)
  BY <1>7 DEF Register
<1>8. CASE InsertAlias(t)
  BY <1>8 DEF InsertAlias
<1>9. CASE \E h \in Handles : OwnCreated(t, h)
  BY <1>9 DEF OwnCreated
<1>10. CASE \E d \in Domains, h \in Handles : DropOwned(t, d, h)
  BY <1>10 DEF DropOwned
<1>11. CASE \E d \in Domains : OwnDomain(t, d) \/ DropDomain(t, d)
  BY <1>11 DEF OwnDomain, DropDomain
<1> QED
  BY <1>1, <1>2, <1>3, <1>4, <1>5, <1>6, <1>7, <1>8, <1>9, <1>10, <1>11
  DEF Advance, Call

(* A teardown starts where nobody is shared and ends with its deletion *)
LEMMA TeardownStep ==
  ASSUME TypeOK, LockInv, KeyInv, AliasInv, MadeInv, OwnedInv, EntryInv,
         PromiseInv, TeardownInv,
         Next
  PROVE  TeardownInv'
<1>1. PICK t \in Threads : Advance(t) \/ Call(t)
  BY DEF Next
<1> USE LifecycleAssumption
    DEF TeardownInv, TypeOK, LockInv, KeyInv, AliasInv, MadeInv, OwnedInv,
        EntryInv, PromiseInv, Busy
<1>2. CASE \/ \E k \in Keys, given \in Args \cup {None} :
                LookupHit(t, k, given) \/ LookupMiss(t, k, given)
           \/ \E d \in Domains, config \in Args \cup {None} :
                DomainHit(t, d, config) \/ DomainMiss(t, d, config)
           \/ \E k \in Keys : OwnBegins(t, k)
  BY <1>2 DEF LookupHit, LookupMiss, DomainHit, DomainMiss, OwnBegins
<1>3. CASE \/ CreateFails(t)
           \/ FindsActual(t)
           \/ DeclareFails(t)
           \/ OwnFails(t)
  BY <1>3 DEF CreateFails, FindsActual, DeclareFails, OwnFails
<1>4. CASE \/ Unwound(t)
           \/ DeclareShared(t)
           \/ DropEnds(t)
  BY <1>4 DEF Unwound, DeclareShared, DropEnds
<1>5. CASE \E h \in Handles : CreateShared(t, h)
  BY <1>5 DEF CreateShared
<1>6. CASE ResolveFails(t) \/ Discard(t)
  BY <1>6 DEF ResolveFails, Discard
<1>7. CASE Register(t)
  BY <1>7 DEF Register
<1>8. CASE InsertAlias(t)
  BY <1>8 DEF InsertAlias
<1>9. CASE \E h \in Handles : OwnCreated(t, h)
  BY <1>9 DEF OwnCreated
<1>10. CASE \E d \in Domains, h \in Handles : DropOwned(t, d, h)
  BY <1>10 DEF DropOwned
<1>11. CASE \E d \in Domains : OwnDomain(t, d) \/ DropDomain(t, d)
  BY SMTT(30), <1>11 DEF OwnDomain, DropDomain
<1> QED
  BY <1>1, <1>2, <1>3, <1>4, <1>5, <1>6, <1>7, <1>8, <1>9, <1>10, <1>11
  DEF Advance, Call

(* What leaves a call is registered, owned or deleted *)
LEMMA NoneLeakedStep ==
  ASSUME TypeOK, LockInv, KeyInv, MadeInv, NoneLeakedInv,
         Next
  PROVE  NoneLeakedInv'
<1>1. PICK t \in Threads : Advance(t) \/ Call(t)
  BY DEF Next
<1> USE LifecycleAssumption
    DEF NoneLeakedInv, TypeOK, LockInv, KeyInv, MadeInv
<1>2. CASE \/ \E k \in Keys, given \in Args \cup {None} :
                LookupHit(t, k, given) \/ LookupMiss(t, k, given)
           \/ \E d \in Domains, config \in Args \cup {None} :
                DomainHit(t, d, config) \/ DomainMiss(t, d, config)
           \/ \E k \in Keys : OwnBegins(t, k)
  BY <1>2 DEF LookupHit, LookupMiss, DomainHit, DomainMiss, OwnBegins
<1>3. CASE \/ CreateFails(t)
           \/ FindsActual(t)
           \/ DeclareFails(t)
           \/ OwnFails(t)
  BY <1>3 DEF CreateFails, FindsActual, DeclareFails, OwnFails
<1>4. CASE \/ Unwound(t)
           \/ DeclareShared(t)
           \/ DropEnds(t)
  BY <1>4 DEF Unwound, DeclareShared, DropEnds
<1>5. CASE \E h \in Handles : CreateShared(t, h)
  BY <1>5 DEF CreateShared
<1>6. CASE ResolveFails(t) \/ Discard(t)
  BY <1>6 DEF ResolveFails, Discard
<1>7. CASE Register(t)
  BY <1>7 DEF Register
<1>8. CASE InsertAlias(t)
  BY <1>8 DEF InsertAlias
<1>9. CASE \E h \in Handles : OwnCreated(t, h)
  BY <1>9 DEF OwnCreated
<1>10. CASE \E d \in Domains, h \in Handles : DropOwned(t, d, h)
  BY <1>10 DEF DropOwned
<1>11. CASE \E d \in Domains : OwnDomain(t, d) \/ DropDomain(t, d)
  BY <1>11 DEF OwnDomain, DropDomain
<1> QED
  BY <1>1, <1>2, <1>3, <1>4, <1>5, <1>6, <1>7, <1>8, <1>9, <1>10, <1>11
  DEF Advance, Call

(* A step that changes nothing keeps the invariant *)
LEMMA IInvStutter ==
  ASSUME IInv, UNCHANGED vars
  PROVE  IInv'
BY DEF IInv, TypeOK, LockInv, KeyInv, AliasInv, MadeInv, OwnedInv, EntryInv,
       ResultInv, PromiseInv, DomainInv, ArgsHonoured, TeardownInv,
       NoneLeakedInv, Busy

(* IInv is an invariant of the specification *)
LEMMA IInvHolds == Spec => []IInv
<1>1. Init => IInv
  BY IInvInit
<1>2. IInv /\ [Next]_vars => IInv'
  <2> SUFFICES ASSUME IInv, [Next]_vars
               PROVE  IInv'
    OBVIOUS
  <2>1. CASE Next
    BY <2>1, TypeOKStep, LockStep, KeyStep, AliasStep, MadeStep, OwnedStep,
       EntryStep, ResultStep, PromiseStep, DomainStep, ArgsStep, TeardownStep,
       NoneLeakedStep DEF IInv
  <2>2. CASE UNCHANGED vars
    BY <2>2, IInvStutter
  <2> QED
    BY <2>1, <2>2
<1> QED
  BY <1>1, <1>2, PTL DEF Spec

---------------------------------------------------------------------------
(* What it implies *)

(* Every state of the model is well formed *)
THEOREM LifecycleTypeCorrect ==
  Spec => []TypeOK
<1>1. IInv => TypeOK
  BY DEF IInv
<1> QED
  BY <1>1, IInvHolds, PTL

(* The &'static participants that get_or_create hands out are alive for    *)
(* good, whatever the owners of other participants do within their promise *)
THEOREM SharedStaysAlive ==
  Spec => []SharedAlive
<1>1. IInv => SharedAlive
  BY DEF IInv, EntryInv, AliasInv, TeardownInv, SharedAlive
<1> QED
  BY <1>1, IInvHolds, PTL

(* All callers of one domain, by id or by default, share one participant *)
THEOREM SharedIsOne ==
  Spec => []OneShared
<1>1. IInv => OneShared
  BY DEF IInv, ResultInv, OneShared
<1> QED
  BY <1>1, IInvHolds, PTL

(* Arguments that cannot be honoured are refused *)
THEOREM ArgumentsHonoured ==
  Spec => []ArgsHonoured
<1>1. IInv => ArgsHonoured
  BY DEF IInv
<1> QED
  BY <1>1, IInvHolds, PTL

(* What get_or_create hands out is one participant, alive and as asked for *)
THEOREM RegistryIsSound ==
  Spec => []SharedSound
<1>1. SharedAlive /\ OneShared /\ ArgsHonoured => SharedSound
  BY DEF SharedSound
<1> QED
  BY <1>1, SharedStaysAlive, SharedIsOne, ArgumentsHonoured, PTL

(* No live participant is left without a holder *)
THEOREM NothingLeaks ==
  Spec => []NoneLeaked
<1>1. IInv => NoneLeaked
  BY DEF IInv, NoneLeakedInv, NoneLeaked
<1> QED
  BY <1>1, IInvHolds, PTL

(* If dds_get_domainid answers for every new participant, get_or_create    *)
(* takes no domain down                                                    *)
THEOREM OnlyOwnersTearDown ==
  ASSUME ~ LookupMayFail
  PROVE  Spec => []OwnersTearDown
<1>1. IInv => OwnersTearDown
  BY DEF IInv, LockInv, TeardownInv, OwnersTearDown
<1> QED
  BY <1>1, IInvHolds, PTL

(* Nobody ever creates in a domain that is being torn down, but for the    *)
(* teardown that the failing lookup itself causes                          *)
THEOREM CreationIsSafe ==
  Spec => []NoCreateInTeardown
<1>1. IInv => NoCreateInTeardown
  <2> SUFFICES ASSUME IInv, NEW t \in Threads, Domain(t) \in teardown,
                      pc[t] \in {"create", "createOwned", "declare"},
                      NEW u \in Threads, pc[u] \in Deleting,
                      Domain(u) = Domain(t)
               PROVE  pc[u] = "unwind"
    BY DEF NoCreateInTeardown, IInv, TeardownInv
  <2>1. entries[Domain(t)] = None
    BY DEF IInv, TeardownInv
  <2>2. CASE pc[u] = "finish"
    <3>1. u # t /\ Busy(t, Domain(u))
      BY <2>2 DEF Busy
    <3> QED
      BY <2>1, <2>2, <3>1 DEF IInv, PromiseInv
  <2> QED
    BY <2>2 DEF Deleting
<1> QED
  BY <1>1, IInvHolds, PTL

---------------------------------------------------------------------------
(* The tree of entities *)

Middles == Groups \cup Topics \cup Builtins

(* What is under what, and what an unused entity looks like *)
TreeInv ==
  /\ \A x \in Participants : up[x] = Nil
  /\ \A x \in Middles : up[x] \in Participants \cup {Nil}
  /\ \A x \in Endpoints : up[x] \in Groups \cup Participants \cup {Nil}
  /\ \A x \in Entities :
       /\ value[x] = "none" => up[x] = Nil /\ topicOf[x] = Nil
       /\ value[x] # "none" /\ x \notin Participants => up[x] # Nil
       /\ up[x] # Nil => value[up[x]] # "none"
       /\ topicOf[x] # Nil => value[topicOf[x]] # "none"
       /\ topicOf[x] # Nil => x \in Endpoints

(* The C entity of a value, and those above it *)
LifeInv ==
  \A x \in Entities :
    /\ entity[x] = "live" => value[x] = "open"
    /\ entity[x] = "none" <=> value[x] = "none"
    /\ handles[x] > 0 => value[x] = "open"
    /\ entity[x] = "live" /\ up[x] # Nil => entity[up[x]] = "live"

Has(x, k) == own[x] = k \/ next[x] = k

(* Boxes have one owner *)
BoxInv ==
  /\ \A k \in Listeners :
       box[k] = "live" <=> \E x \in Entities : Has(x, k)
  /\ \A k \in Listeners, x, y \in Entities : Has(x, k) /\ Has(y, k) => x = y
  /\ \A x \in Entities :
       /\ own[x] # Nil => own[x] # next[x]
       /\ next[x] # Nil =>
            x \in Endpoints /\ value[x] = "open" /\ handles[x] > 0
       /\ own[x] # Nil => value[x] \notin {"none", "gone"}

(* The listener that the C entity was given last *)
Given ==
  [x \in Entities |-> IF next[x] # Nil THEN next[x] ELSE own[x]]

(* A live entity calls its own listener and those of what it is under *)
ArgsInv ==
  /\ \A x \in Entities, k \in Listeners : entity[x] = "live" /\ k \in args[x] =>
       \/ k = Given[x]
       \/ up[x] # Nil /\ k = Given[up[x]]
       \/ up[x] # Nil /\ up[up[x]] # Nil /\ k = Given[up[up[x]]]
  /\ \A c \in running : entity[c[1]] = "live" /\ c[2] \in args[c[1]]

(* What C has lent to a buffer is what the buffer will return *)
LoanInv ==
  \A l \in Buffers : /\ lent[l] = loan[l]
                     /\ loan[l] # Nil => value[loan[l]] = "open"

EntityInv ==
  /\ TreeTypeOK /\ TreeInv /\ LifeInv /\ BoxInv /\ ArgsInv /\ OpenIsLive /\ LoanInv

(* What the three create functions have in common *)
Making(x, parent, t, k) ==
  /\ Created(x, parent, t, k)
  /\ \/ x \in Participants /\ parent = Nil /\ t = Nil
     \/ x \in Middles /\ parent \in Participants /\ t = Nil
     \/ x \in Endpoints /\ parent \in Groups \cup Participants /\ t \in Topics
  /\ parent # Nil => entity[parent] = "live"
  /\ t # Nil => handles[t] > 0 /\ entity[t] = "live"
  /\ handles' = [y \in Entities |->
       IF y = x THEN 1 ELSE IF y = t THEN handles[y] - 1 ELSE handles[y]]

LEMMA Makes ==
  ASSUME TreeTypeOK, TreeNext
  PROVE  \/ \E x \in Entities, parent \in Entities \cup {Nil},
               t \in Topics \cup {Nil}, k \in MaybeListener :
               Making(x, parent, t, k)
         \/ \E t \in Topics, k \in MaybeListener : CreateEndpointFails(t, k)
         \/ Drops \/ Calls \/ Loans
         \/ \E x \in Groups \cup Topics : CloneHandle(x)
         \/ \E e \in Endpoints : SetListenerDone(e)
<1>1. ASSUME NEW p \in Participants, NEW k \in MaybeListener,
             CreateParticipant(p, k)
      PROVE  Making(p, Nil, Nil, k)
  <2>1. p \in Entities /\ p # Nil
    BY EntityTreeAssumption DEF Entities
  <2>2. handles' = [handles EXCEPT ![p] = 1] /\ Created(p, Nil, Nil, k)
    BY <1>1 DEF CreateParticipant
  <2>3. handles' = [y \in Entities |->
          IF y = p THEN 1 ELSE IF y = Nil THEN handles[y] - 1 ELSE handles[y]]
    BY <2>1, <2>2, EntityTreeAssumption DEF TreeTypeOK
  <2> QED BY <2>2, <2>3 DEF Making
<1>2. ASSUME NEW p \in Participants, NEW k \in MaybeListener,
             NEW x \in Middles, CreateUnderParticipant(x, p, k)
      PROVE  Making(x, p, Nil, k)
  <2>1. x \in Entities /\ x # Nil
    BY EntityTreeAssumption DEF Entities, Middles
  <2>2. handles' = [handles EXCEPT ![x] = 1] /\ Created(x, p, Nil, k)
        /\ entity[p] = "live"
    BY <1>2 DEF CreateUnderParticipant, Usable
  <2>3. handles' = [y \in Entities |->
          IF y = x THEN 1 ELSE IF y = Nil THEN handles[y] - 1 ELSE handles[y]]
    BY <2>1, <2>2, EntityTreeAssumption DEF TreeTypeOK
  <2> QED BY <2>2, <2>3 DEF Making
<1>3. ASSUME NEW t \in Topics, NEW k \in MaybeListener, NEW e \in Endpoints,
             NEW parent \in Groups \cup Participants,
             CreateEndpoint(e, parent, t, k)
      PROVE  Making(e, parent, t, k)
  <2>1. e \in Entities /\ t \in Entities /\ e # t /\ e # Nil /\ t # Nil
    BY EntityTreeAssumption DEF Entities
  <2>2. /\ handles' = [handles EXCEPT ![e] = 1, ![t] = @ - 1]
        /\ Created(e, parent, t, k) /\ entity[parent] = "live"
        /\ handles[t] > 0 /\ entity[t] = "live"
    BY <1>3 DEF CreateEndpoint, Usable
  <2>3. handles' = [y \in Entities |->
          IF y = e THEN 1 ELSE IF y = t THEN handles[y] - 1 ELSE handles[y]]
    BY <2>1, <2>2 DEF TreeTypeOK
  <2> QED BY <2>2, <2>3 DEF Making
<1>4. CASE Creates
  <2>1. CASE \E p \in Participants, k \in MaybeListener : CreateParticipant(p, k)
    BY <2>1, <1>1 DEF Entities
  <2>2. CASE \E p \in Participants, k \in MaybeListener, x \in Middles :
               CreateUnderParticipant(x, p, k)
    <3>1. PICK p \in Participants, k \in MaybeListener, x \in Middles :
               CreateUnderParticipant(x, p, k)
      BY <2>2
    <3>2. Making(x, p, Nil, k)
      BY <3>1, <1>2
    <3> QED BY <3>2 DEF Entities, Middles
  <2>3. CASE \E t \in Topics, k \in MaybeListener : CreateEndpointFails(t, k)
    BY <2>3
  <2>4. CASE \E t \in Topics, k \in MaybeListener, e \in Endpoints,
               parent \in Groups \cup Participants : CreateEndpoint(e, parent, t, k)
    <3>1. PICK t \in Topics, k \in MaybeListener, e \in Endpoints,
               parent \in Groups \cup Participants : CreateEndpoint(e, parent, t, k)
      BY <2>4
    <3>2. Making(e, parent, t, k)
      BY <3>1, <1>3
    <3> QED BY <3>2 DEF Entities
  <2> QED BY <1>4, <2>1, <2>2, <2>3, <2>4 DEF Creates, Middles
<1> QED BY <1>4 DEF TreeNext

(* TreeTypeOK is inductive *)
LEMMA TypeStep ==
  ASSUME TreeTypeOK, TreeInv, TreeNext
  PROVE  TreeTypeOK'
<1>1. ASSUME NEW x \in Entities, NEW parent \in Entities \cup {Nil},
             NEW t \in Topics \cup {Nil}, NEW k \in MaybeListener,
             Making(x, parent, t, k)
      PROVE  TreeTypeOK'
  <2>1. k \in Listeners \cup {Nil} /\ Nil \notin Listeners /\ 1 \in 0..MaxHandles
    BY EntityTreeAssumption DEF MaybeListener
  <2>2. handles' \in [Entities -> 0..MaxHandles]
    <3>1. \A y \in Entities : handles[y] \in 0..MaxHandles
      BY DEF TreeTypeOK
    <3>2. t \in Entities => handles[t] > 0
      BY EntityTreeAssumption, <1>1 DEF Making, Entities
    <3> QED BY <1>1, <2>1, <3>1, <3>2, EntityTreeAssumption DEF Making
  <2>3. args' \in [Entities -> SUBSET Listeners]
    <3>1. Boxes(k) \in SUBSET Listeners
      BY <2>1 DEF Boxes
    <3>2. (IF parent = Nil THEN {} ELSE args[parent]) \in SUBSET Listeners
      BY DEF TreeTypeOK
    <3> QED BY <1>1, <3>1, <3>2 DEF Making, Created, TreeTypeOK
  <2>4. box' \in [Listeners -> {"none", "live", "freed"}]
    BY <1>1 DEF Making, Created, TreeTypeOK
  <2>5. /\ entity' \in [Entities -> {"none", "live", "deleted"}]
        /\ value' \in [Entities -> {"none", "open", "deleted", "released", "gone"}]
        /\ up' \in [Entities -> Entities \cup {Nil}]
        /\ topicOf' \in [Entities -> Topics \cup {Nil}]
        /\ own' \in [Entities -> Listeners \cup {Nil}]
    BY <1>1, <2>1 DEF Making, Created, TreeTypeOK
  <2> QED BY <1>1, <2>2, <2>3, <2>4, <2>5 DEF Making, Created, TreeTypeOK
<1>2. ASSUME NEW t \in Topics, NEW k \in MaybeListener,
             CreateEndpointFails(t, k)
      PROVE  TreeTypeOK'
  BY <1>2, EntityTreeAssumption 
  DEF CreateEndpointFails, TreeTypeOK, Freed, Entities, MaybeListener
<1>3. ASSUME NEW x \in Entities,
             DropHandle(x)
      PROVE  TreeTypeOK'
  BY <1>3, EntityTreeAssumption 
  DEF DropHandle, TreeTypeOK, Freed, Entities, MaybeListener
<1>4. ASSUME NEW x \in Entities,
             Delete(x)
      PROVE  TreeTypeOK'
  BY <1>4, EntityTreeAssumption 
  DEF Delete, TreeTypeOK, Freed, Entities, MaybeListener
<1>5. ASSUME NEW x \in Entities,
             ReleaseParents(x)
      PROVE  TreeTypeOK'
  BY <1>5, EntityTreeAssumption 
  DEF ReleaseParents, TreeTypeOK, Freed, Entities, MaybeListener
<1>6. ASSUME NEW x \in Entities,
             FreeListener(x)
      PROVE  TreeTypeOK'
  BY <1>6, EntityTreeAssumption 
  DEF FreeListener, TreeTypeOK, Freed, Entities, MaybeListener
<1>7. ASSUME NEW x \in Entities, NEW k \in Listeners,
             CallbackBegins(x, k)
      PROVE  TreeTypeOK'
  BY <1>7, EntityTreeAssumption 
  DEF CallbackBegins, TreeTypeOK, Freed, Entities, MaybeListener
<1>8. ASSUME NEW x \in Entities, NEW k \in Listeners,
             CallbackEnds(x, k)
      PROVE  TreeTypeOK'
  BY <1>8, EntityTreeAssumption 
  DEF CallbackEnds, TreeTypeOK, Freed, Entities, MaybeListener
<1>9. ASSUME NEW e \in Endpoints, NEW k \in Listeners,
             SetListener(e, k)
      PROVE  TreeTypeOK'
  <2>1. value[e] # "none" /\ e \in Entities /\ e \notin Participants
    BY <1>9, EntityTreeAssumption DEF SetListener, Entities
  <2>2. up[e] \in Entities
    BY <2>1 DEF TreeInv, TreeTypeOK
  <2>3. {k} \cup args[up[e]] \in SUBSET Listeners
    BY <2>2 DEF TreeTypeOK
  <2> QED BY <1>9, <2>1, <2>3 DEF SetListener, TreeTypeOK
<1>10. ASSUME NEW e \in Endpoints, NEW k \in Listeners,
             SetListenerFails(e, k)
      PROVE  TreeTypeOK'
  BY <1>10, EntityTreeAssumption 
  DEF SetListenerFails, TreeTypeOK, Freed, Entities, MaybeListener
<1>11. ASSUME NEW e \in Endpoints,
             SetListenerDone(e)
      PROVE  TreeTypeOK'
  BY <1>11, EntityTreeAssumption 
  DEF SetListenerDone, TreeTypeOK, Freed, Entities, MaybeListener
<1>12. ASSUME NEW x \in Entities,
             CloneHandle(x)
      PROVE  TreeTypeOK'
  BY <1>12, EntityTreeAssumption 
  DEF CloneHandle, TreeTypeOK, Freed, Entities, MaybeListener
<1>13. ASSUME NEW l \in Buffers, NEW b \in Builtins,
             ReadBuiltin(l, b)
      PROVE  TreeTypeOK'
  BY <1>13, EntityTreeAssumption 
  DEF ReadBuiltin, TreeTypeOK, Freed, Entities, MaybeListener
<1>14. ASSUME NEW l \in Buffers,
             ReturnLoan(l)
      PROVE  TreeTypeOK'
  BY <1>14, EntityTreeAssumption 
  DEF ReturnLoan, TreeTypeOK, Freed, Entities, MaybeListener
<1> QED
  BY <1>1, <1>2, <1>3, <1>4, <1>5, <1>6, <1>7, <1>8, <1>9, <1>10, <1>11, <1>12, <1>13, <1>14, Makes
  DEF Drops, Calls, Loans, Entities, TreeTypeOK

(* The shape of the tree *)
LEMMA TreeStep ==
  ASSUME TreeTypeOK, TreeInv, LifeInv, TreeNext
  PROVE  TreeInv'
<1>1. ASSUME NEW x \in Entities, NEW parent \in Entities \cup {Nil},
             NEW t \in Topics \cup {Nil}, NEW k \in MaybeListener,
             Making(x, parent, t, k)
      PROVE  TreeInv'
  <2>1. /\ up' = [up EXCEPT ![x] = parent] /\ topicOf' = [topicOf EXCEPT ![x] = t]
        /\ value' = [value EXCEPT ![x] = "open"]
        /\ entity[x] = "none"
    BY <1>1 DEF Making, Created
  <2>2. /\ parent # Nil => parent \in Entities /\ value[parent] = "open"
        /\ t # Nil => t \in Entities /\ value[t] = "open"
    BY <1>1, EntityTreeAssumption DEF Making, LifeInv, Entities
  <2>3. /\ x \in Participants => parent = Nil
        /\ x \in Middles => parent \in Participants
        /\ x \in Endpoints => parent \in Groups \cup Participants
        /\ t # Nil => x \in Endpoints
        /\ x \notin Participants => parent # Nil
    BY <1>1, EntityTreeAssumption DEF Making, Middles, Entities
  <2> QED BY <2>1, <2>2, <2>3 DEF TreeInv, TreeTypeOK, Entities, Middles
<1>2. ASSUME NEW t \in Topics, NEW k \in MaybeListener,
             CreateEndpointFails(t, k)
      PROVE  TreeInv'
  BY <1>2 DEF CreateEndpointFails, TreeInv, TreeTypeOK
<1>3. ASSUME NEW x \in Entities,
             DropHandle(x)
      PROVE  TreeInv'
  BY <1>3 DEF DropHandle, TreeInv, TreeTypeOK
<1>4. ASSUME NEW x \in Entities,
             Delete(x)
      PROVE  TreeInv'
  BY <1>4 DEF Delete, TreeInv, TreeTypeOK
<1>5. ASSUME NEW x \in Entities,
             ReleaseParents(x)
      PROVE  TreeInv'
  BY <1>5 DEF ReleaseParents, TreeInv, TreeTypeOK
<1>6. ASSUME NEW x \in Entities,
             FreeListener(x)
      PROVE  TreeInv'
  BY <1>6 DEF FreeListener, TreeInv, TreeTypeOK
<1>7. ASSUME NEW x \in Entities, NEW k \in Listeners,
             CallbackBegins(x, k)
      PROVE  TreeInv'
  BY <1>7 DEF CallbackBegins, TreeInv, TreeTypeOK
<1>8. ASSUME NEW x \in Entities, NEW k \in Listeners,
             CallbackEnds(x, k)
      PROVE  TreeInv'
  BY <1>8 DEF CallbackEnds, TreeInv, TreeTypeOK
<1>9. ASSUME NEW e \in Endpoints, NEW k \in Listeners,
             SetListener(e, k)
      PROVE  TreeInv'
  BY <1>9 DEF SetListener, TreeInv, TreeTypeOK
<1>10. ASSUME NEW e \in Endpoints, NEW k \in Listeners,
             SetListenerFails(e, k)
      PROVE  TreeInv'
  BY <1>10 DEF SetListenerFails, TreeInv, TreeTypeOK
<1>11. ASSUME NEW e \in Endpoints,
             SetListenerDone(e)
      PROVE  TreeInv'
  BY <1>11 DEF SetListenerDone, TreeInv, TreeTypeOK
<1>12. ASSUME NEW x \in Entities,
             CloneHandle(x)
      PROVE  TreeInv'
  BY <1>12 DEF CloneHandle, TreeInv, TreeTypeOK
<1>13. ASSUME NEW l \in Buffers, NEW b \in Builtins,
             ReadBuiltin(l, b)
      PROVE  TreeInv'
  BY <1>13 DEF ReadBuiltin, TreeInv, TreeTypeOK
<1>14. ASSUME NEW l \in Buffers,
             ReturnLoan(l)
      PROVE  TreeInv'
  BY <1>14 DEF ReturnLoan, TreeInv, TreeTypeOK
<1> QED
  BY <1>1, <1>2, <1>3, <1>4, <1>5, <1>6, <1>7, <1>8, <1>9, <1>10, <1>11, <1>12, <1>13, <1>14, Makes
  DEF Drops, Calls, Loans, Entities, TreeTypeOK

(* Values, entities and what is above them *)
LEMMA LifeStep ==
  ASSUME TreeTypeOK, TreeInv, LifeInv, TreeNext
  PROVE  LifeInv'
<1>1. ASSUME NEW x \in Entities, NEW parent \in Entities \cup {Nil},
             NEW t \in Topics \cup {Nil}, NEW k \in MaybeListener,
             Making(x, parent, t, k)
      PROVE  LifeInv'
  <2>1. /\ entity' = [entity EXCEPT ![x] = "live"]
        /\ up' = [up EXCEPT ![x] = parent]
        /\ value' = [value EXCEPT ![x] = "open"]
        /\ entity[x] = "none"
    BY <1>1 DEF Making, Created
  <2>2. parent # Nil => entity[parent] = "live"
    BY <1>1 DEF Making
  <2>3. \A y \in Entities : handles'[y] > 0 => y = x \/ handles[y] > 0
    BY <1>1, EntityTreeAssumption DEF Making, TreeTypeOK
  <2>4. \A y \in Entities : up[y] # x
    BY <2>1, EntityTreeAssumption DEF LifeInv, TreeInv
  <2> QED BY <2>1, <2>2, <2>3, <2>4 DEF LifeInv, TreeTypeOK
<1>2. ASSUME NEW t \in Topics, NEW k \in MaybeListener,
             CreateEndpointFails(t, k)
      PROVE  LifeInv'
  <2>1. \A y \in Entities : handles'[y] > 0 => handles[y] > 0
    BY <1>2 DEF CreateEndpointFails, TreeTypeOK
  <2> QED BY <1>2, <2>1 DEF CreateEndpointFails, LifeInv
<1>3. ASSUME NEW x \in Entities,
             DropHandle(x)
      PROVE  LifeInv'
  BY <1>3 DEF DropHandle, LifeInv, TreeTypeOK, Entities
<1>4. ASSUME NEW x \in Entities,
             Delete(x)
      PROVE  LifeInv'
  <2> DEFINE Dropped(y) == entity[x] = "live" /\ y \in Subtree(x)
  <2>1. \A y \in Entities :
          entity'[y] = IF Dropped(y) /\ entity[y] = "live" THEN "deleted" ELSE entity[y]
    BY <1>4 DEF Delete
  <2>2. \A y \in Entities : entity'[y] = "live" =>
          entity[y] = "live" /\ ~ Dropped(y)
    BY <2>1
  <2>3. /\ value[x] = "open" /\ handles[x] = 0
        /\ value' = [value EXCEPT ![x] = "deleted"]
        /\ UNCHANGED << handles, up >>
    BY <1>4 DEF Delete, Unheld
  <2>4. \A y \in Entities : entity'[y] = "live" => value'[y] = "open"
    <3>1. x \in Subtree(x)
      BY DEF Subtree
    <3> QED BY <2>2, <2>3, <3>1 DEF LifeInv, TreeTypeOK
  <2>5. \A y \in Entities : entity'[y] = "none" <=> value'[y] = "none"
    BY <2>1, <2>3 DEF LifeInv, TreeTypeOK
  <2>6. \A y \in Entities : handles'[y] > 0 => value'[y] = "open"
    BY <2>3 DEF LifeInv, TreeTypeOK
  <2>7. ASSUME NEW y \in Entities, entity'[y] = "live", up[y] # Nil
        PROVE  entity'[up[y]] = "live"
    <3>1. entity[y] = "live" /\ ~ Dropped(y) /\ entity[up[y]] = "live"
          /\ up[y] \in Entities
      BY <2>2, <2>7 DEF LifeInv, TreeTypeOK
    <3>2. up[y] \in Participants \/ up[y] \in Groups
      BY <2>7 DEF TreeInv, Entities, Middles
    <3>3. ~ Dropped(up[y])
      <4>1. CASE up[y] = x
        BY <3>1, <4>1 DEF Subtree
      <4>2. CASE up[y] \in Participants /\ up[y] # x
        BY <3>1, <4>2, EntityTreeAssumption DEF Subtree, TreeInv
      <4>3. CASE up[y] \in Groups /\ up[y] # x
        <5>1. up[up[y]] \in Participants \cup {Nil}
          BY <4>3 DEF TreeInv, Middles
        <5> QED BY <3>1, <4>3, <5>1, EntityTreeAssumption DEF Subtree, TreeInv
      <4> QED BY <3>2, <4>1, <4>2, <4>3
    <3> QED BY <2>1, <3>1, <3>3
  <2> QED BY <2>3, <2>4, <2>5, <2>6, <2>7 DEF LifeInv
<1>5. ASSUME NEW x \in Entities,
             ReleaseParents(x)
      PROVE  LifeInv'
  BY <1>5 DEF ReleaseParents, LifeInv, TreeTypeOK, Entities
<1>6. ASSUME NEW x \in Entities,
             FreeListener(x)
      PROVE  LifeInv'
  BY <1>6 DEF FreeListener, LifeInv, TreeTypeOK, Entities
<1>7. ASSUME NEW x \in Entities, NEW k \in Listeners,
             CallbackBegins(x, k)
      PROVE  LifeInv'
  BY <1>7 DEF CallbackBegins, LifeInv, TreeTypeOK, Entities
<1>8. ASSUME NEW x \in Entities, NEW k \in Listeners,
             CallbackEnds(x, k)
      PROVE  LifeInv'
  BY <1>8 DEF CallbackEnds, LifeInv, TreeTypeOK, Entities
<1>9. ASSUME NEW e \in Endpoints, NEW k \in Listeners,
             SetListener(e, k)
      PROVE  LifeInv'
  BY <1>9 DEF SetListener, LifeInv, TreeTypeOK, Entities
<1>10. ASSUME NEW e \in Endpoints, NEW k \in Listeners,
             SetListenerFails(e, k)
      PROVE  LifeInv'
  BY <1>10 DEF SetListenerFails, LifeInv, TreeTypeOK, Entities
<1>11. ASSUME NEW e \in Endpoints,
             SetListenerDone(e)
      PROVE  LifeInv'
  BY <1>11 DEF SetListenerDone, LifeInv, TreeTypeOK, Entities
<1>12. ASSUME NEW x \in Entities,
             CloneHandle(x)
      PROVE  LifeInv'
  BY <1>12 DEF CloneHandle, LifeInv, TreeTypeOK, Entities
<1>13. ASSUME NEW l \in Buffers, NEW b \in Builtins,
             ReadBuiltin(l, b)
      PROVE  LifeInv'
  BY <1>13 DEF ReadBuiltin, LifeInv, TreeTypeOK, Entities
<1>14. ASSUME NEW l \in Buffers,
             ReturnLoan(l)
      PROVE  LifeInv'
  BY <1>14 DEF ReturnLoan, LifeInv, TreeTypeOK, Entities
<1> QED
  BY <1>1, <1>2, <1>3, <1>4, <1>5, <1>6, <1>7, <1>8, <1>9, <1>10, <1>11, <1>12, <1>13, <1>14, Makes
  DEF Drops, Calls, Loans, Entities, TreeTypeOK

(* Boxes keep one owner *)
LEMMA BoxStep ==
  ASSUME TreeTypeOK, LifeInv, BoxInv, TreeNext
  PROVE  BoxInv'
<1>1. ASSUME NEW x \in Entities, NEW parent \in Entities \cup {Nil},
             NEW t \in Topics \cup {Nil}, NEW k \in MaybeListener,
             Making(x, parent, t, k)
      PROVE  BoxInv'
  <2>1. /\ own' = [own EXCEPT ![x] = k] /\ UNCHANGED next
        /\ value' = [value EXCEPT ![x] = "open"]
        /\ entity[x] = "none"
        /\ box' = [b \in Listeners |-> IF b = k THEN "live" ELSE box[b]]
        /\ k # Nil => box[k] = "none"
    BY <1>1 DEF Making, Created, Hooked
  <2>2. k \in Listeners \cup {Nil} /\ Nil \notin Listeners
    BY EntityTreeAssumption DEF MaybeListener
  <2>3. value[x] = "none" /\ own[x] = Nil /\ next[x] = Nil
    BY <2>1 DEF LifeInv, BoxInv
  <2>4. \A y \in Endpoints : handles[y] > 0 => handles'[y] > 0
    BY <1>1, EntityTreeAssumption DEF Making, TreeTypeOK, Entities
  <2>5. \A y \in Entities, j \in Listeners :
          Has(y, j)' <=> (Has(y, j) \/ (y = x /\ j = k))
    BY <2>1, <2>2, <2>3 DEF Has, TreeTypeOK
  <2>6. \A y \in Entities : k # Nil => ~ Has(y, k)
    BY <2>1, <2>2 DEF BoxInv
  <2>7. \A j \in Listeners : box'[j] = "live" <=> \E y \in Entities : Has(y, j)'
    BY <2>1, <2>2, <2>5 DEF BoxInv
  <2>8. \A j \in Listeners, y, z \in Entities :
          Has(y, j)' /\ Has(z, j)' => y = z
    BY <2>2, <2>5, <2>6 DEF BoxInv
  <2>9. \A y \in Entities :
          /\ own'[y] # Nil => own'[y] # next'[y]
          /\ next'[y] # Nil =>
               y \in Endpoints /\ value'[y] = "open" /\ handles'[y] > 0
          /\ own'[y] # Nil => value'[y] \notin {"none", "gone"}
    BY <2>1, <2>3, <2>4 DEF BoxInv, TreeTypeOK
  <2> QED BY <2>7, <2>8, <2>9 DEF BoxInv
<1>2. ASSUME NEW t \in Topics, NEW k \in MaybeListener,
             CreateEndpointFails(t, k)
      PROVE  BoxInv'
  <2>1. k # Nil => box[k] = "none"
    BY <1>2 DEF CreateEndpointFails, Hooked
  <2>2. \A j \in Listeners : box'[j] = "live" <=> box[j] = "live"
    BY <1>2, <2>1 DEF CreateEndpointFails, Freed, TreeTypeOK
  <2>3. \A y \in Endpoints : handles'[y] = handles[y]
    BY <1>2, EntityTreeAssumption DEF CreateEndpointFails, TreeTypeOK, Entities
  <2>4. UNCHANGED << own, next, value >>
    BY <1>2 DEF CreateEndpointFails
  <2> QED BY <2>2, <2>3, <2>4 DEF BoxInv, Has
<1>3. ASSUME NEW x \in Entities,
             DropHandle(x)
      PROVE  BoxInv'
  <2>1. /\ next[x] = Nil /\ UNCHANGED << own, next, value, box >>
        /\ \A y \in Entities : y # x => handles'[y] = handles[y]
    BY <1>3 DEF DropHandle, TreeTypeOK
  <2> QED BY <2>1 DEF BoxInv, Has
<1>4. ASSUME NEW x \in Entities,
             Delete(x)
      PROVE  BoxInv'
  <2>1. /\ value' = [value EXCEPT ![x] = "deleted"]
        /\ handles[x] = 0 /\ value[x] = "open"
        /\ UNCHANGED << own, next, box, handles >>
    BY <1>4 DEF Delete, Unheld
  <2>2. next[x] = Nil
    BY <2>1 DEF BoxInv
  <2> QED BY <2>1, <2>2 DEF BoxInv, Has, TreeTypeOK
<1>5. ASSUME NEW x \in Entities,
             ReleaseParents(x)
      PROVE  BoxInv'
  <2>1. /\ value' = [value EXCEPT ![x] = "released"] /\ value[x] = "deleted"
        /\ UNCHANGED << own, next, box, handles >>
    BY <1>5 DEF ReleaseParents
  <2> QED BY <2>1 DEF BoxInv, Has, TreeTypeOK
<1>6. ASSUME NEW x \in Entities,
             FreeListener(x)
      PROVE  BoxInv'
  <2>1. /\ value' = [value EXCEPT ![x] = "gone"] /\ value[x] = "released"
        /\ own' = [own EXCEPT ![x] = Nil] /\ box' = Freed(own[x])
        /\ UNCHANGED << next, handles >>
    BY <1>6 DEF FreeListener
  <2>2. next[x] = Nil
    BY <2>1 DEF BoxInv
  <2>3. own[x] \in Listeners \cup {Nil} /\ Nil \notin Listeners
    BY EntityTreeAssumption DEF TreeTypeOK
  <2>4. \A y \in Entities, j \in Listeners :
          Has(y, j)' <=> Has(y, j) /\ j # own[x]
    BY <2>1, <2>2, <2>3 DEF Has, TreeTypeOK, BoxInv
  <2>5. \A j \in Listeners :
          box'[j] = "live" <=> box[j] = "live" /\ j # own[x]
    BY <2>1, <2>3 DEF Freed, TreeTypeOK
  <2>6. \A j \in Listeners : box'[j] = "live" <=> \E y \in Entities : Has(y, j)'
    BY <2>4, <2>5 DEF BoxInv
  <2>7. \A j \in Listeners, y, z \in Entities :
          Has(y, j)' /\ Has(z, j)' => y = z
    BY <2>4 DEF BoxInv
  <2>8. \A y \in Entities :
          /\ own'[y] # Nil => own'[y] # next'[y]
          /\ next'[y] # Nil =>
               y \in Endpoints /\ value'[y] = "open" /\ handles'[y] > 0
          /\ own'[y] # Nil => value'[y] \notin {"none", "gone"}
    BY <2>1, <2>2 DEF BoxInv, TreeTypeOK
  <2> QED BY <2>6, <2>7, <2>8 DEF BoxInv
<1>7. ASSUME NEW x \in Entities, NEW k \in Listeners,
             CallbackBegins(x, k)
      PROVE  BoxInv'
  BY <1>7 DEF CallbackBegins, BoxInv, Has
<1>8. ASSUME NEW x \in Entities, NEW k \in Listeners,
             CallbackEnds(x, k)
      PROVE  BoxInv'
  BY <1>8 DEF CallbackEnds, BoxInv, Has
<1>9. ASSUME NEW e \in Endpoints, NEW k \in Listeners,
             SetListener(e, k)
      PROVE  BoxInv'
  <2>1. /\ value[e] = "open" /\ handles[e] > 0 /\ next[e] = Nil
        /\ box[k] = "none" /\ box' = [box EXCEPT ![k] = "live"]
        /\ next' = [next EXCEPT ![e] = k]
        /\ UNCHANGED << own, value, handles >>
    BY <1>9 DEF SetListener
  <2>2. e \in Entities /\ k # Nil /\ Nil \notin Listeners
    BY EntityTreeAssumption DEF Entities
  <2>3. \A y \in Entities : ~ Has(y, k)
    BY <2>1 DEF BoxInv
  <2>4. \A y \in Entities, j \in Listeners :
          Has(y, j)' <=> (Has(y, j) \/ (y = e /\ j = k))
    BY <2>1, <2>2 DEF Has, TreeTypeOK
  <2>5. \A j \in Listeners : box'[j] = "live" <=> \E y \in Entities : Has(y, j)'
    <3>1. \A j \in Listeners : box'[j] = "live" <=> (box[j] = "live" \/ j = k)
      BY <2>1 DEF TreeTypeOK
    <3> QED BY <2>2, <2>4, <3>1 DEF BoxInv
  <2>6. \A j \in Listeners, y, z \in Entities :
          Has(y, j)' /\ Has(z, j)' => y = z
    BY <2>3, <2>4 DEF BoxInv
  <2>7. \A y \in Entities :
          /\ own'[y] # Nil => own'[y] # next'[y]
          /\ next'[y] # Nil =>
               y \in Endpoints /\ value'[y] = "open" /\ handles'[y] > 0
          /\ own'[y] # Nil => value'[y] \notin {"none", "gone"}
    BY <2>1, <2>3 DEF BoxInv, TreeTypeOK, Has
  <2> QED BY <2>5, <2>6, <2>7 DEF BoxInv
<1>10. ASSUME NEW e \in Endpoints, NEW k \in Listeners,
             SetListenerFails(e, k)
      PROVE  BoxInv'
  <2>1. \A j \in Listeners : box'[j] = "live" <=> box[j] = "live"
    BY <1>10 DEF SetListenerFails, Freed, TreeTypeOK
  <2>2. UNCHANGED << own, next, value, handles >>
    BY <1>10 DEF SetListenerFails
  <2> QED BY <2>1, <2>2 DEF BoxInv, Has
<1>11. ASSUME NEW e \in Endpoints,
             SetListenerDone(e)
      PROVE  BoxInv'
  <2>1. /\ next[e] # Nil /\ own' = [own EXCEPT ![e] = next[e]]
        /\ box' = Freed(own[e]) /\ next' = [next EXCEPT ![e] = Nil]
        /\ UNCHANGED << value, handles >>
    BY <1>11 DEF SetListenerDone
  <2>2. e \in Entities
    BY DEF Entities
  <2>3. /\ own[e] \in Listeners \cup {Nil} /\ Nil \notin Listeners
        /\ next[e] \in Listeners /\ own[e] # next[e]
    BY <2>1, <2>2, EntityTreeAssumption DEF TreeTypeOK, BoxInv
  <2>4. \A y \in Entities, j \in Listeners :
          Has(y, j)' <=> Has(y, j) /\ j # own[e]
    BY <2>1, <2>2, <2>3 DEF Has, TreeTypeOK, BoxInv
  <2>5. \A j \in Listeners :
          box'[j] = "live" <=> box[j] = "live" /\ j # own[e]
    BY <2>1, <2>3 DEF Freed, TreeTypeOK
  <2>6. \A j \in Listeners : box'[j] = "live" <=> \E y \in Entities : Has(y, j)'
    BY <2>4, <2>5 DEF BoxInv
  <2>7. \A j \in Listeners, y, z \in Entities :
          Has(y, j)' /\ Has(z, j)' => y = z
    BY <2>4 DEF BoxInv
  <2>8. \A y \in Entities :
          /\ own'[y] # Nil => own'[y] # next'[y]
          /\ next'[y] # Nil =>
               y \in Endpoints /\ value'[y] = "open" /\ handles'[y] > 0
          /\ own'[y] # Nil => value'[y] \notin {"none", "gone"}
    BY <2>1, <2>2 DEF BoxInv, TreeTypeOK
  <2> QED BY <2>6, <2>7, <2>8 DEF BoxInv
<1>12. ASSUME NEW x \in Entities,
             CloneHandle(x)
      PROVE  BoxInv'
  <2>1. /\ UNCHANGED << own, next, value, box >>
        /\ \A y \in Entities : handles[y] > 0 => handles'[y] > 0
    BY <1>12, EntityTreeAssumption DEF CloneHandle, TreeTypeOK
  <2> QED BY <2>1 DEF BoxInv, Has
<1>13. ASSUME NEW l \in Buffers, NEW b \in Builtins,
             ReadBuiltin(l, b)
      PROVE  BoxInv'
  BY <1>13 DEF ReadBuiltin, BoxInv, Has
<1>14. ASSUME NEW l \in Buffers,
             ReturnLoan(l)
      PROVE  BoxInv'
  BY <1>14 DEF ReturnLoan, BoxInv, Has
<1> QED
  BY <1>1, <1>2, <1>3, <1>4, <1>5, <1>6, <1>7, <1>8, <1>9, <1>10, <1>11, <1>12, <1>13, <1>14, Makes
  DEF Drops, Calls, Loans, Entities, TreeTypeOK

(* Live entities know only boxes of the living *)
LEMMA CallbackArgsStep ==
  ASSUME TreeTypeOK, TreeInv, LifeInv, BoxInv, ArgsInv, TreeNext
  PROVE  ArgsInv'
<1>1. ASSUME NEW x \in Entities, NEW parent \in Entities \cup {Nil},
             NEW t \in Topics \cup {Nil}, NEW k \in MaybeListener,
             Making(x, parent, t, k)
      PROVE  ArgsInv'
  <2>1. /\ own' = [own EXCEPT ![x] = k] /\ UNCHANGED << next, running >>
        /\ entity' = [entity EXCEPT ![x] = "live"] /\ entity[x] = "none"
        /\ up' = [up EXCEPT ![x] = parent]
        /\ args' = [args EXCEPT ![x] =
              Boxes(k) \cup IF parent = Nil THEN {} ELSE args[parent]]
    BY <1>1 DEF Making, Created
  <2>2. value[x] = "none" /\ next[x] = Nil
    BY <2>1 DEF LifeInv, BoxInv
  <2>3. Given'[x] = k /\ \A y \in Entities : y # x => Given'[y] = Given[y]
    BY <2>1, <2>2 DEF Given, TreeTypeOK
  <2>4. \A y \in Entities : up[y] # x
    BY <2>2, EntityTreeAssumption DEF TreeInv
  <2>5. /\ parent # Nil => parent \in Entities /\ entity[parent] = "live"
        /\ parent # Nil => parent \in Groups \cup Participants
        /\ parent # x
    BY <1>1, <2>1, EntityTreeAssumption DEF Making, Entities
  <2>6. parent # Nil /\ up[parent] # Nil =>
          up[parent] \in Entities /\ up[up[parent]] = Nil
    BY <2>5 DEF TreeInv, TreeTypeOK, Entities, Middles
  <2>7. ASSUME NEW y \in Entities, NEW j \in Listeners,
               entity'[y] = "live", j \in args'[y]
        PROVE  \/ j = Given'[y]
               \/ up'[y] # Nil /\ j = Given'[up'[y]]
               \/ up'[y] # Nil /\ up'[up'[y]] # Nil /\ j = Given'[up'[up'[y]]]
    <3>1. CASE y # x
      <4>1. entity[y] = "live" /\ j \in args[y] /\ up'[y] = up[y]
        BY <2>1, <2>7, <3>1 DEF TreeTypeOK
      <4>2. \/ j = Given[y]
            \/ up[y] # Nil /\ j = Given[up[y]]
            \/ up[y] # Nil /\ up[up[y]] # Nil /\ j = Given[up[up[y]]]
        BY <4>1 DEF ArgsInv
      <4>3. up[y] # Nil => up[y] \in Entities /\ up[y] # x /\ up'[up[y]] = up[up[y]]
        BY <2>1, <2>4 DEF TreeTypeOK
      <4>4. up[y] # Nil /\ up[up[y]] # Nil =>
              up[up[y]] \in Entities /\ up[up[y]] # x
        BY <2>4, <4>3 DEF TreeTypeOK
      <4> QED BY <2>3, <3>1, <4>1, <4>2, <4>3, <4>4
    <3>2. CASE y = x /\ j \in Boxes(k)
      BY <2>3, <3>2 DEF Boxes
    <3>3. CASE y = x /\ parent # Nil /\ j \in args[parent]
      <4>1. \/ j = Given[parent]
            \/ up[parent] # Nil /\ j = Given[up[parent]]
        BY <2>5, <2>6, <3>3 DEF ArgsInv
      <4>2. up'[y] = parent /\ up'[parent] = up[parent]
        BY <2>1, <2>5, <3>3 DEF TreeTypeOK
      <4>3. up[parent] # Nil => up[parent] # x
        BY <2>4, <2>5, <3>3
      <4> QED BY <2>3, <2>5, <2>6, <3>3, <4>1, <4>2, <4>3
    <3> QED BY <2>1, <2>7, <3>1, <3>2, <3>3 DEF TreeTypeOK
  <2>8. \A c \in running' : entity'[c[1]] = "live" /\ c[2] \in args'[c[1]]
    <3>1. \A c \in running : c[1] \in Entities /\ c[1] # x
      BY <2>1 DEF ArgsInv, TreeTypeOK
    <3> QED BY <2>1, <3>1 DEF ArgsInv, TreeTypeOK
  <2> QED BY <2>7, <2>8 DEF ArgsInv
<1>2. ASSUME NEW t \in Topics, NEW k \in MaybeListener,
             CreateEndpointFails(t, k)
      PROVE  ArgsInv'
  BY <1>2 DEF CreateEndpointFails, ArgsInv, Given
<1>3. ASSUME NEW x \in Entities,
             DropHandle(x)
      PROVE  ArgsInv'
  BY <1>3 DEF DropHandle, ArgsInv, Given
<1>4. ASSUME NEW x \in Entities,
             Delete(x)
      PROVE  ArgsInv'
  <2>1. /\ UNCHANGED << own, next, up, args, running >>
        /\ \A y \in Entities : entity'[y] = "live" => entity[y] = "live"
        /\ \A y \in Entities :
             entity[y] = "live" /\ y \notin Subtree(x) => entity'[y] = "live"
        /\ QuietUnder(Subtree(x))
    BY <1>4 DEF Delete
  <2>2. \A c \in running : c = << c[1], c[2] >> /\ c[1] \in Entities
                            /\ c[2] \in Listeners
    BY DEF TreeTypeOK
  <2>3. \A c \in running : c[1] \notin Subtree(x)
    BY <2>1, <2>2 DEF QuietUnder
  <2> QED BY <2>1, <2>2, <2>3 DEF ArgsInv, Given
<1>5. ASSUME NEW x \in Entities,
             ReleaseParents(x)
      PROVE  ArgsInv'
  BY <1>5 DEF ReleaseParents, ArgsInv, Given
<1>6. ASSUME NEW x \in Entities,
             FreeListener(x)
      PROVE  ArgsInv'
  <2>1. /\ value[x] = "released" /\ own' = [own EXCEPT ![x] = Nil]
        /\ UNCHANGED << entity, args, running, up, next >>
    BY <1>6 DEF FreeListener
  <2>2. \A y \in Entities : entity[y] = "live" => y # x /\ Given'[y] = Given[y]
    BY <2>1 DEF LifeInv, Given, TreeTypeOK
  <2>3. \A y \in Entities : entity[y] = "live" /\ up[y] # Nil =>
          up[y] \in Entities /\ entity[up[y]] = "live"
    BY DEF LifeInv, TreeTypeOK
  <2>4. ASSUME NEW y \in Entities, NEW j \in Listeners,
               entity[y] = "live", j \in args[y]
        PROVE  \/ j = Given'[y]
               \/ up[y] # Nil /\ j = Given'[up[y]]
               \/ up[y] # Nil /\ up[up[y]] # Nil /\ j = Given'[up[up[y]]]
    <3>1. \/ j = Given[y]
          \/ up[y] # Nil /\ j = Given[up[y]]
          \/ up[y] # Nil /\ up[up[y]] # Nil /\ j = Given[up[up[y]]]
      BY <2>4 DEF ArgsInv
    <3> QED BY <2>2, <2>3, <2>4, <3>1
  <2> QED BY <2>1, <2>4 DEF ArgsInv
<1>7. ASSUME NEW x \in Entities, NEW k \in Listeners,
             CallbackBegins(x, k)
      PROVE  ArgsInv'
  <2>1. /\ entity[x] = "live" /\ k \in args[x]
        /\ running' = running \cup {<< x, k >>}
        /\ UNCHANGED << entity, args, up, own, next >>
    BY <1>7 DEF CallbackBegins
  <2> QED BY <2>1 DEF ArgsInv, Given
<1>8. ASSUME NEW x \in Entities, NEW k \in Listeners,
             CallbackEnds(x, k)
      PROVE  ArgsInv'
  BY <1>8 DEF CallbackEnds, ArgsInv, Given
<1>9. ASSUME NEW e \in Endpoints, NEW k \in Listeners,
             SetListener(e, k)
      PROVE  ArgsInv'
  <2>1. /\ value[e] = "open" /\ next[e] = Nil /\ QuietUnder({e})
        /\ args' = [args EXCEPT ![e] = {k} \cup args[up[e]]]
        /\ next' = [next EXCEPT ![e] = k] /\ entity[e] = "live"
        /\ UNCHANGED << own, entity, up, running >>
    BY <1>9 DEF SetListener
  <2>2. e \in Entities /\ k # Nil /\ e \notin Groups \cup Participants
    BY EntityTreeAssumption DEF Entities
  <2>3. /\ up[e] \in Entities /\ up[e] \in Groups \cup Participants
        /\ entity[up[e]] = "live" /\ up[e] # Nil
    BY <2>1, <2>2, EntityTreeAssumption DEF TreeInv, LifeInv, Entities
  <2>4. Given'[e] = k /\ \A y \in Entities : y # e => Given'[y] = Given[y]
    BY <2>1, <2>2 DEF Given, TreeTypeOK
  <2>5. \A y \in Entities : up[y] # Nil => up[y] \in Entities /\ up[y] # e
    BY <2>2, EntityTreeAssumption DEF TreeInv, Entities, Middles, TreeTypeOK
  <2>6. up[up[e]] # Nil => up[up[up[e]]] = Nil
    BY <2>3 DEF TreeInv, Entities, Middles
  <2>7. ASSUME NEW y \in Entities, NEW j \in Listeners,
               entity[y] = "live", j \in args'[y]
        PROVE  \/ j = Given'[y]
               \/ up[y] # Nil /\ j = Given'[up[y]]
               \/ up[y] # Nil /\ up[up[y]] # Nil /\ j = Given'[up[up[y]]]
    <3>1. CASE y # e
      <4>1. j \in args[y]
        BY <2>1, <2>7, <3>1 DEF TreeTypeOK
      <4>2. \/ j = Given[y]
            \/ up[y] # Nil /\ j = Given[up[y]]
            \/ up[y] # Nil /\ up[up[y]] # Nil /\ j = Given[up[up[y]]]
        BY <2>7, <4>1 DEF ArgsInv
      <4> QED BY <2>4, <2>5, <3>1, <4>2
    <3>2. CASE y = e /\ j = k
      BY <2>4, <3>2
    <3>3. CASE y = e /\ j \in args[up[e]]
      <4>1. \/ j = Given[up[e]]
            \/ up[up[e]] # Nil /\ j = Given[up[up[e]]]
        BY <2>3, <2>6, <3>3 DEF ArgsInv
      <4> QED BY <2>3, <2>4, <2>5, <3>3, <4>1
    <3> QED BY <2>1, <2>2, <2>7, <3>1, <3>2, <3>3 DEF TreeTypeOK
  <2>8. \A c \in running : entity[c[1]] = "live" /\ c[2] \in args'[c[1]]
    <3>1. \A c \in running : c = << c[1], c[2] >> /\ c[1] \in Entities
                              /\ c[2] \in Listeners
      BY DEF TreeTypeOK
    <3>2. \A c \in running : c[1] # e
      BY <2>1, <3>1 DEF QuietUnder
    <3> QED BY <2>1, <3>1, <3>2 DEF ArgsInv, TreeTypeOK
  <2> QED BY <2>1, <2>7, <2>8 DEF ArgsInv
<1>10. ASSUME NEW e \in Endpoints, NEW k \in Listeners,
             SetListenerFails(e, k)
      PROVE  ArgsInv'
  BY <1>10 DEF SetListenerFails, ArgsInv, Given
<1>11. ASSUME NEW e \in Endpoints,
             SetListenerDone(e)
      PROVE  ArgsInv'
  <2>1. /\ next[e] # Nil /\ own' = [own EXCEPT ![e] = next[e]]
        /\ next' = [next EXCEPT ![e] = Nil]
        /\ UNCHANGED << entity, args, running, up >>
    BY <1>11 DEF SetListenerDone
  <2>2. \A y \in Entities : Given'[y] = Given[y]
    BY <2>1 DEF Given, TreeTypeOK
  <2>3. \A y \in Entities : up[y] # Nil => up[y] \in Entities
    BY DEF TreeTypeOK
  <2> QED BY <2>1, <2>2, <2>3 DEF ArgsInv
<1>12. ASSUME NEW x \in Entities,
             CloneHandle(x)
      PROVE  ArgsInv'
  BY <1>12 DEF CloneHandle, ArgsInv, Given
<1>13. ASSUME NEW l \in Buffers, NEW b \in Builtins,
             ReadBuiltin(l, b)
      PROVE  ArgsInv'
  BY <1>13 DEF ReadBuiltin, ArgsInv, Given
<1>14. ASSUME NEW l \in Buffers,
             ReturnLoan(l)
      PROVE  ArgsInv'
  BY <1>14 DEF ReturnLoan, ArgsInv, Given
<1> QED
  BY <1>1, <1>2, <1>3, <1>4, <1>5, <1>6, <1>7, <1>8, <1>9, <1>10, <1>11, <1>12, <1>13, <1>14, Makes
  DEF Drops, Calls, Loans, Entities, TreeTypeOK

(* The root of whatever exists is a participant *)
LEMMA Roots ==
  ASSUME TreeTypeOK, TreeInv, NEW x \in Entities, value[x] # "none"
  PROVE  Root(x) \in Participants
<1>1. CASE x \in Participants
  BY <1>1 DEF TreeInv, Root
<1>2. CASE x \in Middles /\ x \notin Participants
  <2>1. up[x] \in Participants /\ up[x] # Nil /\ up[up[x]] = Nil
    BY <1>2, EntityTreeAssumption DEF TreeInv, Entities
  <2> QED BY <2>1 DEF Root
<1>3. CASE x \in Endpoints /\ x \notin Participants
  <2>1. up[x] \in Groups \cup Participants /\ up[x] # Nil
    BY <1>3, EntityTreeAssumption DEF TreeInv, Entities
  <2>2. up[x] \in Entities /\ value[up[x]] # "none"
    BY <2>1 DEF TreeInv, Entities
  <2>3. CASE up[x] \in Participants
    <3>1. up[up[x]] = Nil
      BY <2>3 DEF TreeInv
    <3> QED BY <2>1, <2>3, <3>1 DEF Root
  <2>4. CASE up[x] \in Groups
    <3>1. up[x] \notin Participants
      BY <2>4, EntityTreeAssumption
    <3>2. up[up[x]] # Nil
      BY <2>2, <3>1 DEF TreeInv
    <3>3. up[up[x]] \in Participants
      BY <2>4, <3>2 DEF TreeInv, Middles
    <3> QED BY <2>1, <3>2, <3>3 DEF Root
  <2> QED BY <2>1, <2>3, <2>4
<1> QED BY <1>1, <1>2, <1>3 DEF Entities, Middles

(* Children keep what they need *)
LEMMA KeepStep ==
  ASSUME TreeTypeOK, TreeInv, LifeInv, OpenIsLive, TreeNext
  PROVE  OpenIsLive'
<1>1. ASSUME NEW x \in Entities, NEW parent \in Entities \cup {Nil},
             NEW t \in Topics \cup {Nil}, NEW k \in MaybeListener,
             Making(x, parent, t, k)
      PROVE  OpenIsLive'
  <2>1. /\ entity' = [entity EXCEPT ![x] = "live"] /\ entity[x] = "none"
        /\ up' = [up EXCEPT ![x] = parent]
        /\ topicOf' = [topicOf EXCEPT ![x] = t]
        /\ value' = [value EXCEPT ![x] = "open"]
        /\ t # Nil => entity[t] = "live"
    BY <1>1 DEF Making, Created
  <2>2. value[x] = "none" /\ x # Nil /\ t # x /\ t # Nil => t \in Entities
    BY <2>1, EntityTreeAssumption DEF LifeInv, Entities
  <2>3. \A y \in Entities : up[y] # x /\ topicOf[y] # x
    BY <2>1, EntityTreeAssumption DEF TreeInv, LifeInv
  <2>4. ASSUME NEW y \in Entities, y # x
        PROVE  Root(y)' = Root(y) /\ Root(y) # x
    <3>1. up'[y] = up[y] /\ up[y] # x
      BY <2>1, <2>3, <2>4 DEF TreeTypeOK
    <3>2. up[y] # Nil => up'[up[y]] = up[up[y]] /\ up[up[y]] # x
      BY <2>1, <2>3, <3>1 DEF TreeTypeOK
    <3> QED BY <2>4, <3>1, <3>2 DEF Root
  <2>5. ASSUME NEW y \in Entities, y # x,
               value'[y] = "open", value'[Root(y)'] = "open"
        PROVE  /\ entity'[y] = "live"
               /\ topicOf'[y] # Nil /\ Root(topicOf[y])' = Root(y)' =>
                    entity'[topicOf'[y]] = "live"
    <3>1. Root(y)' = Root(y) /\ Root(y) # x
      BY <2>4, <2>5
    <3>2. value[y] = "open" /\ value[Root(y)] = "open"
      BY <2>1, <2>5, <3>1 DEF TreeTypeOK
    <3>3. topicOf'[y] = topicOf[y]
      BY <2>1, <2>5 DEF TreeTypeOK
    <3>4. topicOf[y] # Nil => topicOf[y] \in Entities /\ topicOf[y] # x
      BY <2>3 DEF TreeTypeOK, Entities
    <3>5. ASSUME topicOf[y] # Nil
          PROVE  Root(topicOf[y])' = Root(topicOf[y])
      <4>1. PICK z \in Entities : z = topicOf[y] /\ z # x
        BY <3>4, <3>5
      <4>2. Root(z)' = Root(z)
        BY <2>4, <4>1
      <4> QED BY <3>3, <4>1, <4>2 DEF Root
    <3>6. /\ entity[y] = "live"
          /\ topicOf[y] # Nil /\ Root(topicOf[y]) = Root(y) =>
               entity[topicOf[y]] = "live"
      BY <3>2 DEF OpenIsLive
    <3>7. entity'[y] = "live"
      BY <2>1, <3>6 DEF TreeTypeOK
    <3>8. ASSUME topicOf'[y] # Nil, Root(topicOf[y])' = Root(y)'
          PROVE  entity'[topicOf'[y]] = "live"
      <4>1. Root(topicOf[y])' = Root(topicOf[y]) /\ topicOf[y] # Nil
        BY <3>3, <3>5, <3>8
      <4>2. entity[topicOf[y]] = "live"
        BY <3>1, <3>6, <3>8, <4>1
      <4> QED BY <2>1, <3>3, <3>4, <4>1, <4>2 DEF TreeTypeOK
    <3> QED BY <3>7, <3>8
  <2>6. /\ entity'[x] = "live"
        /\ topicOf'[x] # Nil => entity'[topicOf'[x]] = "live"
    BY <2>1, <2>2 DEF TreeTypeOK
  <2> QED BY <2>5, <2>6 DEF OpenIsLive
<1>2. ASSUME NEW t \in Topics, NEW k \in MaybeListener,
             CreateEndpointFails(t, k)
      PROVE  OpenIsLive'
  BY <1>2 DEF CreateEndpointFails, OpenIsLive, Root
<1>3. ASSUME NEW x \in Entities,
             DropHandle(x)
      PROVE  OpenIsLive'
  BY <1>3 DEF DropHandle, OpenIsLive, Root
<1>4. ASSUME NEW x \in Entities,
             Delete(x)
      PROVE  OpenIsLive'
  <2>1. /\ Unheld(x) /\ UNCHANGED << up, topicOf >>
        /\ value' = [value EXCEPT ![x] = "deleted"]
        /\ \A y \in Entities : y \notin Subtree(x) => entity'[y] = entity[y]
    BY <1>4 DEF Delete
  <2>2. ASSUME NEW y \in Entities, value'[y] = "open", value'[Root(y)] = "open"
        PROVE  /\ entity'[y] = "live"
               /\ topicOf[y] # Nil /\ Root(topicOf[y]) = Root(y) =>
                    entity'[topicOf[y]] = "live"
    <3>1. y # x /\ value[y] = "open"
      BY <2>1, <2>2 DEF TreeTypeOK
    <3>2. Root(y) \in Participants
      BY <3>1, Roots
    <3>3. Root(y) # x /\ value[Root(y)] = "open"
      BY <2>1, <2>2, <3>2 DEF TreeTypeOK, Entities
    <3>4. /\ entity[y] = "live"
          /\ topicOf[y] # Nil /\ Root(topicOf[y]) = Root(y) =>
               entity[topicOf[y]] = "live"
      BY <3>1, <3>3 DEF OpenIsLive
    <3>5. \A e \in Endpoints : value[e] = "open" =>
            x \in Participants \/ (x # up[e] /\ x # topicOf[e])
      BY <2>1 DEF Unheld, KeepersOf
    <3>6. up[y] # x
      <4>1. CASE y \in Endpoints /\ x \notin Participants
        BY <3>1, <3>5, <4>1
      <4>2. CASE x \in Participants
        BY <3>3, <4>2, EntityTreeAssumption DEF Root, TreeInv, Entities
      <4>3. CASE y \notin Endpoints /\ x \notin Participants
        BY <4>3, EntityTreeAssumption DEF TreeInv, Entities, Middles
      <4> QED BY <4>1, <4>2, <4>3
    <3>7. ~ (up[y] # Nil /\ up[up[y]] = x)
      BY <3>3, EntityTreeAssumption DEF Root
    <3>8. y \notin Subtree(x)
      BY <3>1, <3>6, <3>7 DEF Subtree
    <3>9. ASSUME topicOf[y] # Nil, Root(topicOf[y]) = Root(y)
          PROVE  topicOf[y] \in Entities /\ topicOf[y] \notin Subtree(x)
      <4>1. topicOf[y] \in Topics /\ topicOf[y] \in Entities /\ y \in Endpoints
        BY <3>9 DEF TreeTypeOK, Entities, TreeInv
      <4>2. topicOf[y] # x
        BY <3>1, <3>5, <4>1, EntityTreeAssumption
      <4>3. up[topicOf[y]] \in Participants \cup {Nil}
        BY <4>1 DEF TreeInv, Middles
      <4>4. up[topicOf[y]] # x
        BY <3>3, <3>9, <4>3, EntityTreeAssumption DEF Root, TreeInv, Entities
      <4>5. ~ (up[topicOf[y]] # Nil /\ up[up[topicOf[y]]] = x)
        BY <3>3, <3>9, EntityTreeAssumption DEF Root
      <4> QED BY <4>1, <4>2, <4>4, <4>5 DEF Subtree
    <3> QED BY <2>1, <3>4, <3>8, <3>9
  <2> QED BY <2>1, <2>2 DEF OpenIsLive, Root
<1>5. ASSUME NEW x \in Entities,
             ReleaseParents(x)
      PROVE  OpenIsLive'
  <2>1. /\ value[x] = "deleted" /\ value' = [value EXCEPT ![x] = "released"]
        /\ UNCHANGED << entity, up, topicOf >>
    BY <1>5 DEF ReleaseParents
  <2>2. \A y \in Entities \cup {Nil} : value'[y] = "open" /\ y \in Entities => value[y] = "open"
    BY <2>1 DEF TreeTypeOK
  <2>3. \A y \in Entities : value[y] = "open" => Root(y) \in Entities
    BY Roots DEF Entities
  <2> QED BY <2>1, <2>2, <2>3 DEF OpenIsLive, Root
<1>6. ASSUME NEW x \in Entities,
             FreeListener(x)
      PROVE  OpenIsLive'
  <2>1. /\ value[x] = "released" /\ value' = [value EXCEPT ![x] = "gone"]
        /\ UNCHANGED << entity, up, topicOf >>
    BY <1>6 DEF FreeListener
  <2>2. \A y \in Entities \cup {Nil} : value'[y] = "open" /\ y \in Entities => value[y] = "open"
    BY <2>1 DEF TreeTypeOK
  <2>3. \A y \in Entities : value[y] = "open" => Root(y) \in Entities
    BY Roots DEF Entities
  <2> QED BY <2>1, <2>2, <2>3 DEF OpenIsLive, Root
<1>7. ASSUME NEW x \in Entities, NEW k \in Listeners,
             CallbackBegins(x, k)
      PROVE  OpenIsLive'
  BY <1>7 DEF CallbackBegins, OpenIsLive, Root
<1>8. ASSUME NEW x \in Entities, NEW k \in Listeners,
             CallbackEnds(x, k)
      PROVE  OpenIsLive'
  BY <1>8 DEF CallbackEnds, OpenIsLive, Root
<1>9. ASSUME NEW e \in Endpoints, NEW k \in Listeners,
             SetListener(e, k)
      PROVE  OpenIsLive'
  BY <1>9 DEF SetListener, OpenIsLive, Root
<1>10. ASSUME NEW e \in Endpoints, NEW k \in Listeners,
             SetListenerFails(e, k)
      PROVE  OpenIsLive'
  BY <1>10 DEF SetListenerFails, OpenIsLive, Root
<1>11. ASSUME NEW e \in Endpoints,
             SetListenerDone(e)
      PROVE  OpenIsLive'
  BY <1>11 DEF SetListenerDone, OpenIsLive, Root
<1>12. ASSUME NEW x \in Entities,
             CloneHandle(x)
      PROVE  OpenIsLive'
  BY <1>12 DEF CloneHandle, OpenIsLive, Root
<1>13. ASSUME NEW l \in Buffers, NEW b \in Builtins,
             ReadBuiltin(l, b)
      PROVE  OpenIsLive'
  BY <1>13 DEF ReadBuiltin, OpenIsLive, Root
<1>14. ASSUME NEW l \in Buffers,
             ReturnLoan(l)
      PROVE  OpenIsLive'
  BY <1>14 DEF ReturnLoan, OpenIsLive, Root
<1> QED
  BY <1>1, <1>2, <1>3, <1>4, <1>5, <1>6, <1>7, <1>8, <1>9, <1>10, <1>11, <1>12, <1>13, <1>14, Makes
  DEF Drops, Calls, Loans, Entities, TreeTypeOK

(* A buffer keeps the reader it has to return its samples to *)
LEMMA LoanStep ==
  ASSUME TreeTypeOK, LifeInv, LoanInv, TreeNext
  PROVE  LoanInv'
<1>1. ASSUME NEW x \in Entities, NEW parent \in Entities \cup {Nil},
             NEW t \in Topics \cup {Nil}, NEW k \in MaybeListener,
             Making(x, parent, t, k)
      PROVE  LoanInv'
  <2>1. /\ value' = [value EXCEPT ![x] = "open"] /\ UNCHANGED << lent, loan >>
    BY <1>1 DEF Making, Created
  <2>2. \A y \in Entities : value[y] = "open" => value'[y] = "open"
    BY <2>1 DEF TreeTypeOK
  <2> QED BY <2>1, <2>2 DEF LoanInv, TreeTypeOK, Entities
<1>2. ASSUME NEW t \in Topics, NEW k \in MaybeListener,
             CreateEndpointFails(t, k)
      PROVE  LoanInv'
  BY <1>2 DEF CreateEndpointFails, LoanInv
<1>3. ASSUME NEW x \in Entities,
             DropHandle(x)
      PROVE  LoanInv'
  BY <1>3 DEF DropHandle, LoanInv
<1>4. ASSUME NEW x \in Entities,
             Delete(x)
      PROVE  LoanInv'
  <2>1. /\ value' = [value EXCEPT ![x] = "deleted"] /\ UNCHANGED << lent, loan >>
        /\ \A l \in Buffers : loan[l] # x
    BY <1>4 DEF Delete, Unheld
  <2> QED BY <2>1 DEF LoanInv, TreeTypeOK
<1>5. ASSUME NEW x \in Entities,
             ReleaseParents(x)
      PROVE  LoanInv'
  <2>1. /\ value[x] = "deleted" /\ value' = [value EXCEPT ![x] = "released"]
        /\ UNCHANGED << lent, loan >>
    BY <1>5 DEF ReleaseParents
  <2> QED BY <2>1 DEF LoanInv, TreeTypeOK
<1>6. ASSUME NEW x \in Entities,
             FreeListener(x)
      PROVE  LoanInv'
  <2>1. /\ value[x] = "released" /\ value' = [value EXCEPT ![x] = "gone"]
        /\ UNCHANGED << lent, loan >>
    BY <1>6 DEF FreeListener
  <2> QED BY <2>1 DEF LoanInv, TreeTypeOK
<1>7. ASSUME NEW x \in Entities, NEW k \in Listeners,
             CallbackBegins(x, k)
      PROVE  LoanInv'
  BY <1>7 DEF CallbackBegins, LoanInv
<1>8. ASSUME NEW x \in Entities, NEW k \in Listeners,
             CallbackEnds(x, k)
      PROVE  LoanInv'
  BY <1>8 DEF CallbackEnds, LoanInv
<1>9. ASSUME NEW e \in Endpoints, NEW k \in Listeners,
             SetListener(e, k)
      PROVE  LoanInv'
  BY <1>9 DEF SetListener, LoanInv
<1>10. ASSUME NEW e \in Endpoints, NEW k \in Listeners,
             SetListenerFails(e, k)
      PROVE  LoanInv'
  BY <1>10 DEF SetListenerFails, LoanInv
<1>11. ASSUME NEW e \in Endpoints,
             SetListenerDone(e)
      PROVE  LoanInv'
  BY <1>11 DEF SetListenerDone, LoanInv
<1>12. ASSUME NEW x \in Entities,
             CloneHandle(x)
      PROVE  LoanInv'
  BY <1>12 DEF CloneHandle, LoanInv
<1>13. ASSUME NEW l \in Buffers, NEW b \in Builtins,
             ReadBuiltin(l, b)
      PROVE  LoanInv'
  <2>1. PICK r \in {b, Nil} : /\ lent' = [lent EXCEPT ![l] = r]
                               /\ loan' = [loan EXCEPT ![l] = r]
    BY <1>13 DEF ReadBuiltin
  <2>2. handles[b] > 0 /\ UNCHANGED value /\ b \in Entities
    BY <1>13 DEF ReadBuiltin, Entities
  <2>3. value[b] = "open"
    BY <2>2 DEF LifeInv
  <2> QED BY <2>1, <2>2, <2>3 DEF LoanInv, TreeTypeOK
<1>14. ASSUME NEW l \in Buffers,
             ReturnLoan(l)
      PROVE  LoanInv'
  BY <1>14 DEF ReturnLoan, LoanInv, TreeTypeOK
<1> QED
  BY <1>1, <1>2, <1>3, <1>4, <1>5, <1>6, <1>7, <1>8, <1>9, <1>10, <1>11, <1>12, <1>13, <1>14, Makes
  DEF Drops, Calls, Loans, Entities, TreeTypeOK

(* The invariant holds at first *)
LEMMA EntityInvInit == TreeInit => EntityInv
<1> SUFFICES ASSUME TreeInit PROVE EntityInv
  OBVIOUS
<1>1. TreeTypeOK
  BY EntityTreeAssumption DEF TreeInit, TreeTypeOK
<1>2. TreeInv
  BY DEF TreeInit, TreeInv, Entities, Middles
<1>3. LifeInv
  BY DEF TreeInit, LifeInv
<1>4. BoxInv
  BY EntityTreeAssumption DEF TreeInit, BoxInv, Has
<1>5. ArgsInv
  BY DEF TreeInit, ArgsInv
<1>6. OpenIsLive
  BY DEF TreeInit, OpenIsLive
<1>7. LoanInv
  BY DEF TreeInit, LoanInv
<1> QED BY <1>1, <1>2, <1>3, <1>4, <1>5, <1>6, <1>7 DEF EntityInv

(* Every step preserves it *)
LEMMA IInvStep == EntityInv /\ [TreeNext]_treeVars => EntityInv'
<1>1. ASSUME EntityInv, TreeNext PROVE EntityInv'
  <2>1. TreeTypeOK /\ TreeInv /\ LifeInv /\ BoxInv /\ ArgsInv /\ OpenIsLive /\ LoanInv
    BY <1>1 DEF EntityInv
  <2>2. TreeTypeOK' /\ TreeInv' /\ LifeInv'
    BY <1>1, <2>1, TypeStep, TreeStep, LifeStep
  <2>3. BoxInv' /\ ArgsInv'
    BY <1>1, <2>1, BoxStep, CallbackArgsStep
  <2>4. OpenIsLive' /\ LoanInv'
    BY <1>1, <2>1, KeepStep, LoanStep
  <2> QED BY <2>2, <2>3, <2>4 DEF EntityInv
<1>2. ASSUME EntityInv, UNCHANGED treeVars PROVE EntityInv'
  <2>1. TreeTypeOK' /\ TreeInv' /\ LifeInv'
    BY <1>2 DEF EntityInv, treeVars, TreeTypeOK, TreeInv, LifeInv
  <2>2. BoxInv' /\ ArgsInv'
    BY <1>2 DEF EntityInv, treeVars, BoxInv, ArgsInv, Has, Given
  <2>3. OpenIsLive' /\ LoanInv'
    BY <1>2 DEF EntityInv, treeVars, OpenIsLive, Root, LoanInv
  <2> QED BY <2>1, <2>2, <2>3 DEF EntityInv
<1> QED BY <1>1, <1>2

(* It holds in every state *)
LEMMA EntityInvHolds == TreeSpec => []EntityInv
BY EntityInvInit, IInvStep, PTL DEF TreeSpec

(* Entities, values, listeners and loans stay well typed; in particular no  *)
(* path of a create drops a topic handle that its caller did not give.      *)
THEOREM TreeTyped == TreeSpec => []TreeTypeOK
<1>1. EntityInv => TreeTypeOK
  BY DEF EntityInv
<1> QED BY <1>1, EntityInvHolds, PTL

(* No C entity can call, and no running callback uses, a box that was       *)
(* freed, through any chain of inherited listeners and any set_listener.    *)
THEOREM NoFreedCallbacks == TreeSpec => []ArgsLive
<1>1. ASSUME EntityInv PROVE ArgsLive
  <2>1. ASSUME NEW x \in Entities, NEW k \in Listeners, Given[x] = k
        PROVE  box[k] = "live"
    <3>1. own[x] = k \/ next[x] = k
      BY <2>1 DEF Given
    <3> QED BY <1>1, <3>1 DEF EntityInv, BoxInv, Has
  <2>2. ASSUME NEW x \in Entities, NEW k \in Listeners,
               entity[x] = "live", k \in args[x]
        PROVE  box[k] = "live"
    <3>1. \/ k = Given[x]
          \/ up[x] # Nil /\ k = Given[up[x]]
          \/ up[x] # Nil /\ up[up[x]] # Nil /\ k = Given[up[up[x]]]
      BY <1>1, <2>2 DEF EntityInv, ArgsInv
    <3>2. up[x] # Nil => up[x] \in Entities
      BY <1>1 DEF EntityInv, TreeTypeOK
    <3>3. up[x] # Nil /\ up[up[x]] # Nil => up[up[x]] \in Entities
      BY <1>1, <3>2 DEF EntityInv, TreeTypeOK
    <3> QED BY <2>1, <3>1, <3>2, <3>3
  <2>3. \A x \in Entities : \A k \in args[x] : k \in Listeners
    BY <1>1 DEF EntityInv, TreeTypeOK
  <2>4. \A c \in running : box[c[2]] = "live"
    <3> TAKE c \in running
    <3>1. c[1] \in Entities /\ c[2] \in Listeners
      BY <1>1 DEF EntityInv, TreeTypeOK
    <3>2. entity[c[1]] = "live" /\ c[2] \in args[c[1]]
      BY <1>1 DEF EntityInv, ArgsInv
    <3> QED BY <2>2, <3>1, <3>2
  <2> QED BY <2>2, <2>3, <2>4 DEF ArgsLive
<1> QED BY <1>1, EntityInvHolds, PTL

(* While the participant has not been dropped, an open value has its        *)
(* entity, and an endpoint its topic, whatever else was dropped.            *)
THEOREM ChildrenKeep == TreeSpec => []OpenIsLive
<1>1. EntityInv => OpenIsLive
  BY DEF EntityInv
<1> QED BY <1>1, EntityInvHolds, PTL

(* A box in use has one owner that will free it, a C entity one that will   *)
(* delete it.                                                               *)
THEOREM OneOwner == TreeSpec => []OwnedOnce
<1>1. ASSUME EntityInv PROVE OwnedOnce
  <2>1. ASSUME NEW k \in Listeners, box[k] = "live"
        PROVE  Cardinality({ x \in Entities : own[x] = k \/ next[x] = k }) = 1
    <3>1. PICK y \in Entities : Has(y, k)
      BY <1>1, <2>1 DEF EntityInv, BoxInv
    <3>2. \A x \in Entities : Has(x, k) => x = y
      BY <1>1, <3>1 DEF EntityInv, BoxInv
    <3>3. { x \in Entities : own[x] = k \/ next[x] = k } = {y}
      BY <3>1, <3>2 DEF Has
    <3> QED BY <3>3, FS_Singleton
  <2>2. \A x \in Entities : entity[x] = "live" => value[x] = "open"
    BY <1>1 DEF EntityInv, LifeInv
  <2> QED BY <2>1, <2>2 DEF OwnedOnce
<1> QED BY <1>1, EntityInvHolds, PTL

(* Samples on loan have the buffer that returns them to the reader that     *)
(* lent them, and that reader has not been dropped.                         *)
THEOREM LoansReturn == TreeSpec => []LoansReturnable
<1>1. ASSUME EntityInv PROVE LoansReturnable
  <2>1. \A l \in Buffers : lent[l] = loan[l] /\
          (loan[l] # Nil => value[loan[l]] = "open")
    BY <1>1 DEF EntityInv, LoanInv
  <2> QED BY <2>1 DEF LoansReturnable
<1> QED BY <1>1, EntityInvHolds, PTL

(* Callbacks boxes outlive their users and have an owner.                   *)
THEOREM BoxesAreSound == TreeSpec => []BoxesSound
<1>1. ArgsLive /\ OwnedOnce => BoxesSound
  BY DEF BoxesSound
<1> QED BY <1>1, NoFreedCallbacks, OneOwner, PTL

(* Whatever is dropped in whatever order, what an open value needs is there. *)
THEOREM AnyOrder == TreeSpec => []DropsInAnyOrder
<1>1. OpenIsLive /\ LoansReturnable => DropsInAnyOrder
  BY DEF DropsInAnyOrder
<1> QED BY <1>1, ChildrenKeep, LoansReturn, PTL
=============================================================================
