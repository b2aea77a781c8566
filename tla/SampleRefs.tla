---------------------------- MODULE SampleRefs ----------------------------
(***************************************************************************)
(* Who holds a serdata (cyclonedds/src/serdata.rs, serdes.rs and the reads *)
(* of dds_reader.rs).                                                      *)
(*                                                                         *)
(* A serdata is a Rust box that Cyclone DDS counts references to: the last *)
(* ddsi_serdata_removeref calls serdata_free, which drops the box.  A      *)
(* reference is held by                                                    *)
(*   - the C core (the write or receive call that made it, and later the   *)
(*     history of the writer), the fragments it lends to the network with  *)
(*     to_ser_ref, and the cache of each reader it was delivered to;       *)
(*   - the slots of the SampleBuffers the application reads into;          *)
(*   - the pointers dds_readcdr and dds_takecdr have returned, until       *)
(*     set_serdata has taken a reference of its own.                       *)
(* Holders(s) is that set; the code only knows the number refc[s].  A step *)
(* takes or gives up one reference.  Buffers belong to different threads;  *)
(* a read holds the C lock of its reader.  That, and who owns which        *)
(* reference inside C, is the contract this crate relies on, not code of   *)
(* the repository.                                                         *)
(*                                                                         *)
(* Two histories say where the code departs from this discipline.  lost[s] *)
(* counts the returned pointers that were dropped after set_serdata, whose *)
(* reference nobody gives up any more.  torn says that set_serdata dropped *)
(* the box of an old sample others still refer to; what memory holds after *)
(* that is not modelled.                                                   *)
(***************************************************************************)
EXTENDS Integers, Sequences, FiniteSets

CONSTANTS Serdatas, Readers, SampleBuffers,
          Fragments,     \* what to_ser_ref may have lent of one serdata
          Capacity,      \* the longest SampleBuffer
          Lengths,       \* the lengths the buffers may be made with
          Nothing

ASSUME SampleRefsAssumption ==
  /\ IsFiniteSet(Serdatas) /\ IsFiniteSet(Readers) /\ IsFiniteSet(SampleBuffers)
  /\ IsFiniteSet(Fragments)
  /\ Capacity \in Nat
  /\ Lengths \subseteq [SampleBuffers -> 0..Capacity]
  /\ Nothing \notin Serdatas

VARIABLES
  mem,       \* mem[s]: its Rust allocation
  refc,      \* refc[s]: ddsi_serdata.refc
  sample,    \* sample[s]: SerData.sample, the number of the Arc it holds
  incoming,  \* serdatas a receiving call of C is delivering
  sent,      \* serdatas a writer is sending or keeps in its history
  wire,      \* << s, f >>: fragments between to_ser_ref and to_ser_unref
  cache,     \* cache[r]: the reader's history cache
  len,       \* len[b]: SampleBuffer::len
  slot,      \* slot[b][i]: Sample.serdata of the i-th sample of a buffer
  size,      \* size[b]: SampleBuffer.size
  handed,    \* handed[b]: the pointers a CDR read under way has collected
  op,        \* op[b]: the read or clear under way
  lost,      \* history: lost[s] returned pointers to s were dropped
  torn       \* history: a box was dropped under another holder

coreVars == << incoming, sent, wire >>
history == << lost, torn >>
refsVars == << mem, refc, sample, coreVars, cache, len, slot, size, handed, op,
           history >>

Slots == 1..Capacity

(* SampleData: Uninitialized (0, or Corrupt if its CDR does not decode) or  *)
(* SdkData with its n-th Arc.                                               *)
Corrupt == -1
Uninitialized == 0
IsDecoded(s) == sample[s] > 0

OpStep ==
  { "idle",
    "copying",     \* in dds_read or dds_take
    "taking",      \* converted, C removes the sample from the cache
    "pending",     \* a read_async or take_async found nothing and waits
    "collecting",  \* in dds_readcdr or dds_takecdr
    "binding",     \* back in Rust, set_serdata for each pointer
    "clearing" }   \* in SampleBuffer::clear or its drop

Op == [ pc : OpStep, reader : Readers \cup {Nothing}, take : BOOLEAN,
        n : 0..Capacity,         \* samples done so far
        bound : 0..Capacity,     \* pointers bound so far
        invalidFirst : BOOLEAN,  \* the first sample carries no data
        decoding : Serdatas \cup {Nothing} ]

Idle == [ pc |-> "idle", reader |-> Nothing, take |-> FALSE, n |-> 0, bound |-> 0,
          invalidFirst |-> FALSE, decoding |-> Nothing ]

RefsTypeOK ==
  /\ mem \in [Serdatas -> {"none", "live", "freed"}]
  /\ refc \in [Serdatas -> Int]
  /\ sample \in [Serdatas -> Int]
  /\ incoming \in SUBSET Serdatas
  /\ sent \in SUBSET Serdatas
  /\ wire \in SUBSET (Serdatas \X Fragments)
  /\ cache \in [Readers -> SUBSET Serdatas]
  /\ len \in [SampleBuffers -> 0..Capacity]
  /\ slot \in [SampleBuffers -> [Slots -> Serdatas \cup {Nothing}]]
  /\ size \in [SampleBuffers -> 0..Capacity]
  /\ handed \in [SampleBuffers -> Seq(Serdatas)]
  /\ op \in [SampleBuffers -> Op]
  /\ lost \in [Serdatas -> Nat]
  /\ torn \in BOOLEAN

(* Everything that holds a reference to s *)
InCore(s) ==
  { h \in {<< "incoming", Nothing, 0 >>} : s \in incoming }
    \cup { h \in {<< "sent", Nothing, 0 >>} : s \in sent }
OnWire(s) ==
  { << "wire", f, 0 >> : f \in { g \in Fragments : << s, g >> \in wire } }
Cached(s) ==
  { << "cache", r, 0 >> : r \in { q \in Readers : s \in cache[q] } }
InSlots(s) ==
  UNION { { << "slot", b, i >> : i \in { j \in Slots : slot[b][j] = s } }
            : b \in SampleBuffers }
HandedOut(s) ==
  UNION { { << "handed", b, k >> : k \in
              { j \in op[b].bound + 1..Len(handed[b]) : handed[b][j] = s } }
            : b \in SampleBuffers }

Holders(s) ==
  InCore(s) \cup OnWire(s) \cup Cached(s) \cup InSlots(s) \cup HandedOut(s)

RefsInit ==
  /\ mem = [s \in Serdatas |-> "none"]
  /\ refc = [s \in Serdatas |-> 0]
  /\ sample = [s \in Serdatas |-> Uninitialized]
  /\ incoming = {} /\ sent = {} /\ wire = {}
  /\ cache = [r \in Readers |-> {}]
  /\ len \in Lengths
  /\ slot = [b \in SampleBuffers |-> [i \in Slots |-> Nothing]]
  /\ size = [b \in SampleBuffers |-> 0]
  /\ handed = [b \in SampleBuffers |-> << >>]
  /\ op = [b \in SampleBuffers |-> Idle]
  /\ lost = [s \in Serdatas |-> 0] /\ torn = FALSE

---------------------------------------------------------------------------
(* References *)

Addref(s) ==
  /\ refc' = [refc EXCEPT ![s] = @ + 1]
  /\ UNCHANGED mem

(* ddsi_serdata_removeref, and serdata_free for the last reference *)
Removeref(s) ==
  /\ refc' = [refc EXCEPT ![s] = @ - 1]
  /\ mem' = [mem EXCEPT ![s] = IF refc[s] = 1 THEN "freed" ELSE @]

(* Somebody else refers to what the slot holds *)
Shared(b, i) == slot[b][i] # Nothing /\ Holders(slot[b][i]) # {<< "slot", b, i >>}

(* Sample::set_serdata.  What the slot held is not released: its box is     *)
(* dropped, whoever else refers to it.                                      *)
SetSerdata(b, i, s) ==
  /\ slot' = [slot EXCEPT ![b][i] = s]
  /\ torn' = (torn \/ Shared(b, i))
  /\ mem' = IF slot[b][i] = Nothing THEN mem
            ELSE [mem EXCEPT ![slot[b][i]] = "freed"]
  /\ refc' = [refc EXCEPT ![s] = @ + 1]

---------------------------------------------------------------------------
(* The C core *)

Made(s, content) ==
  /\ mem[s] = "none"
  /\ mem' = [mem EXCEPT ![s] = "live"]
  /\ refc' = [refc EXCEPT ![s] = 1]
  /\ sample' = [sample EXCEPT ![s] = content]
  /\ UNCHANGED << len, wire, cache, slot, size, handed, op, history >>

(* dds_write calls serdata_from_sample: the serdata shares the sample *)
Write(s) ==
  /\ Made(s, 1)
  /\ sent' = sent \cup {s}
  /\ UNCHANGED incoming

(* serdata_from_fragchain, serdata_from_ser_iov, serdata_from_psmx: CDR     *)
(* only, decoded on demand                                                  *)
Receive(s) ==
  /\ \E content \in {Uninitialized, Corrupt} : Made(s, content)
  /\ incoming' = incoming \cup {s}
  /\ UNCHANGED sent

(* The reader's cache is locked while C converts its samples *)
CacheFree(r) ==
  \A b \in SampleBuffers :
    op[b].reader = r => op[b].pc \notin {"copying", "taking", "collecting"}

Deliver(s, r) ==
  /\ s \in incoming \cup sent /\ s \notin cache[r] /\ CacheFree(r)
  /\ cache' = [cache EXCEPT ![r] = @ \cup {s}]
  /\ Addref(s)
  /\ UNCHANGED << len, sample, coreVars, slot, size, handed, op, history >>

(* Keep-last history, lifespan, an instance that goes away *)
Evict(s, r) ==
  /\ s \in cache[r] /\ CacheFree(r)
  /\ cache' = [cache EXCEPT ![r] = @ \ {s}]
  /\ Removeref(s)
  /\ UNCHANGED << len, sample, coreVars, slot, size, handed, op, history >>

(* The receiving call returns *)
Delivered(s) ==
  /\ s \in incoming
  /\ incoming' = incoming \ {s}
  /\ Removeref(s)
  /\ UNCHANGED << len, sample, sent, wire, cache, slot, size, handed, op, history >>

(* The sample is acknowledged, or falls out of the writer's history *)
Acknowledged(s) ==
  /\ s \in sent
  /\ sent' = sent \ {s}
  /\ Removeref(s)
  /\ UNCHANGED << len, sample, incoming, wire, cache, slot, size, handed, op, history >>

(* serdata_to_ser_ref; what it lends is in CdrTransfer *)
ToSerRef(s, f) ==
  /\ s \in sent /\ << s, f >> \notin wire
  /\ wire' = wire \cup {<< s, f >>}
  /\ Addref(s)
  /\ UNCHANGED << len, sample, incoming, sent, cache, slot, size, handed, op, history >>

(* serdata_to_ser_unref *)
ToSerUnref(s, f) ==
  /\ << s, f >> \in wire
  /\ wire' = wire \ {<< s, f >>}
  /\ Removeref(s)
  /\ UNCHANGED << len, sample, incoming, sent, cache, slot, size, handed, op, history >>

---------------------------------------------------------------------------
(* read_now, take_now and their asynchronous forms *)

Begin(b, r, step, take) ==
  /\ op[b].pc = "idle" /\ len[b] > 0
  /\ CacheFree(r)
  /\ op' = [op EXCEPT ![b] =
              [Idle EXCEPT !.pc = step, !.reader = r, !.take = take]]
  /\ size' = [size EXCEPT ![b] = 0]
  /\ UNCHANGED << len, mem, refc, sample, coreVars, cache, slot, handed, history >>

(* readn_from_entity_now up to dds_read or dds_take *)
ReadBegin(b, r) == \E take \in BOOLEAN : Begin(b, r, "copying", take)

Converted(b) == { slot[b][i] : i \in 1..op[b].n }

(* A sample the C call under way may look at next *)
Next1(b, s) ==
  /\ op[b].n < len[b]
  /\ s \in cache[op[b].reader] \ Converted(b)

(* serdata_to_sample: the serdata is not decoded yet *)
DecodeBegin(b, s) ==
  /\ op[b].pc = "copying" /\ op[b].decoding = Nothing /\ Next1(b, s)
  /\ sample[s] = Uninitialized
  /\ op' = [op EXCEPT ![b].decoding = s]
  /\ UNCHANGED << len, mem, refc, sample, coreVars, cache, slot, size, handed, history >>

(* serdata.sample = SdkData: an Arc that was there is dropped *)
DecodeEnd(b) ==
  /\ op[b].pc = "copying" /\ op[b].decoding # Nothing
  /\ sample' = [sample EXCEPT ![op[b].decoding] = @ + 1]
  /\ op' = [op EXCEPT ![b].decoding = Nothing]
  /\ UNCHANGED << len, mem, refc, coreVars, cache, slot, size, handed, history >>

(* Mutant of Convert: every read decodes again *)
ConvertAnew(b, s) ==
  /\ op[b].pc = "copying" /\ op[b].decoding = Nothing /\ Next1(b, s)
  /\ IsDecoded(s)
  /\ SetSerdata(b, op[b].n + 1, s)
  /\ sample' = [sample EXCEPT ![s] = @ + 1]
  /\ op' = [op EXCEPT ![b].n = @ + 1,
                      ![b].pc = IF op[b].take THEN "taking" ELSE @]
  /\ UNCHANGED << len, coreVars, cache, size, handed, lost >>

(* The decoded sample goes into the next slot *)
Convert(b, s) ==
  /\ op[b].pc = "copying" /\ op[b].decoding = Nothing /\ Next1(b, s)
  /\ IsDecoded(s)
  /\ SetSerdata(b, op[b].n + 1, s)
  /\ op' = [op EXCEPT ![b].n = @ + 1,
                      ![b].pc = IF op[b].take THEN "taking" ELSE @]
  /\ UNCHANGED << len, sample, coreVars, cache, size, handed, lost >>

(* dds_take: what the slot now refers to leaves the cache *)
Taken(b) ==
  LET s == slot[b][op[b].n] IN
  /\ op[b].pc = "taking"
  /\ cache' = [cache EXCEPT ![op[b].reader] = @ \ {s}]
  /\ Removeref(s)
  /\ op' = [op EXCEPT ![b].pc = "copying"]
  /\ UNCHANGED << len, sample, coreVars, slot, size, handed, history >>

(* untyped_to_sample: a dispose or unregister has no data, the slot is      *)
(* emptied                                                                  *)
ConvertInvalid(b) ==
  LET i == op[b].n + 1 IN
  /\ op[b].pc = "copying" /\ op[b].decoding = Nothing /\ i <= len[b]
  /\ IF slot[b][i] = Nothing THEN UNCHANGED << mem, refc >>
                          ELSE Removeref(slot[b][i])
  /\ slot' = [slot EXCEPT ![b][i] = Nothing]
  /\ op' = [op EXCEPT ![b].n = i, ![b].invalidFirst = @ \/ i = 1]
  /\ UNCHANGED << len, sample, coreVars, cache, size, handed, history >>

(* The call returns the number of samples *)
ReadEnd(b) ==
  /\ op[b].pc = "copying" /\ op[b].decoding = Nothing
  /\ op[b].n > 0 /\ ~op[b].invalidFirst
  /\ size' = [size EXCEPT ![b] = op[b].n]
  /\ op' = [op EXCEPT ![b] = Idle]
  /\ UNCHANGED << len, mem, refc, sample, coreVars, cache, slot, handed, history >>

(* None, or a first one without data, is NoData.  The future of an          *)
(* asynchronous read is then Pending and keeps the buffer.                  *)
NoData(b) ==
  /\ op[b].pc = "copying" /\ op[b].decoding = Nothing
  /\ op[b].n = 0 \/ op[b].invalidFirst
  /\ \E o \in { Idle, [Idle EXCEPT !.pc = "pending", !.reader = op[b].reader,
                                   !.take = op[b].take] } :
       op' = [op EXCEPT ![b] = o]
  /\ UNCHANGED << len, mem, refc, sample, coreVars, cache, slot, size, handed, history >>

(* Its next poll reads into the same buffer, which nobody clears *)
Poll(b) ==
  /\ op[b].pc = "pending" /\ CacheFree(op[b].reader)
  /\ op' = [op EXCEPT ![b].pc = "copying"]
  /\ UNCHANGED << len, mem, refc, sample, coreVars, cache, slot, size, handed, history >>

Cancel(b) ==
  /\ op[b].pc = "pending"
  /\ op' = [op EXCEPT ![b] = Idle]
  /\ UNCHANGED << len, mem, refc, sample, coreVars, cache, slot, size, handed, history >>

(* A sample whose CDR does not decode: to_sample is false, the call fails *)
ReadFails(b, s) ==
  /\ op[b].pc = "copying" /\ op[b].decoding = Nothing /\ Next1(b, s)
  /\ sample[s] = Corrupt
  /\ op' = [op EXCEPT ![b] = Idle]
  /\ UNCHANGED << len, mem, refc, sample, coreVars, cache, slot, size, handed, history >>

---------------------------------------------------------------------------
(* readcdr_now, takecdr_now and their asynchronous forms *)

ReadCdrBegin(b, r) == \E take \in BOOLEAN : Begin(b, r, "collecting", take)

(* C returns a pointer with a reference of its own; taking moves the one of *)
(* the cache.                                                               *)
Collect(b, s) ==
  LET r == op[b].reader IN
  /\ op[b].pc = "collecting" /\ Len(handed[b]) < len[b]
  /\ s \in cache[r] \ { handed[b][k] : k \in 1..Len(handed[b]) }
  /\ handed' = [handed EXCEPT ![b] = Append(@, s)]
  /\ IF op[b].take
     THEN cache' = [cache EXCEPT ![r] = @ \ {s}] /\ UNCHANGED << mem, refc >>
     ELSE Addref(s) /\ UNCHANGED cache
  /\ UNCHANGED << len, sample, coreVars, slot, size, op, history >>

(* Nothing to read is NoData.  Otherwise C unlocks the reader. *)
CollectEnd(b) ==
  /\ op[b].pc = "collecting"
  /\ op' = [op EXCEPT ![b] = IF handed[b] = << >> THEN Idle
                               ELSE [Idle EXCEPT !.pc = "binding"]]
  /\ UNCHANGED << len, mem, refc, sample, coreVars, cache, slot, size, handed,
                  history >>

(* An iteration of the loop over the returned pointers: the slot takes a    *)
(* reference of its own, the pointer goes out of scope with the one it came *)
(* with.  The last one sets the size.                                       *)
Bind(b) ==
  LET i == op[b].bound + 1
      s == handed[b][i] IN
  /\ op[b].pc = "binding"
  /\ SetSerdata(b, i, s)
  /\ lost' = [lost EXCEPT ![s] = @ + 1]
  /\ IF i = Len(handed[b])
     THEN /\ size' = [size EXCEPT ![b] = i]
          /\ handed' = [handed EXCEPT ![b] = << >>]
          /\ op' = [op EXCEPT ![b] = Idle]
     ELSE op' = [op EXCEPT ![b].bound = i] /\ UNCHANGED << size, handed >>
  /\ UNCHANGED << len, sample, coreVars, cache >>

---------------------------------------------------------------------------
(* The application *)

(* SampleBuffer::clear; a dropped buffer gives up its samples the same way *)
ClearBegin(b) ==
  /\ op[b].pc = "idle"
  /\ \E i \in Slots : slot[b][i] # Nothing
  /\ size' = [size EXCEPT ![b] = 0]
  /\ op' = [op EXCEPT ![b].pc = "clearing"]
  /\ UNCHANGED << len, mem, refc, sample, coreVars, cache, slot, handed, history >>

(* Mutant of FreeContents: the pointer is forgotten, not released *)
FreeContentsLeaks(b) ==
  LET i == op[b].n + 1 IN
  /\ op[b].pc = "clearing"
  /\ slot' = [slot EXCEPT ![b][i] = Nothing]
  /\ op' = [op EXCEPT ![b] = IF i = len[b] THEN Idle ELSE [@ EXCEPT !.n = i]]
  /\ UNCHANGED << len, mem, refc, sample, coreVars, cache, size, handed, history >>

(* Sample::free_contents *)
FreeContents(b) ==
  LET i == op[b].n + 1 IN
  /\ op[b].pc = "clearing"
  /\ IF slot[b][i] = Nothing THEN UNCHANGED << mem, refc >>
                          ELSE Removeref(slot[b][i])
  /\ slot' = [slot EXCEPT ![b][i] = Nothing]
  /\ op' = [op EXCEPT ![b] = IF i = len[b] THEN Idle ELSE [@ EXCEPT !.n = i]]
  /\ UNCHANGED << len, sample, coreVars, cache, size, handed, history >>

(* DdsWriter::forward: C sends the serdata of a sample *)
Forward(b, i) ==
  /\ op[b].pc = "idle" /\ i <= size[b]
  /\ slot[b][i] # Nothing /\ slot[b][i] \notin sent
  /\ sent' = sent \cup {slot[b][i]}
  /\ Addref(slot[b][i])
  /\ UNCHANGED << len, sample, incoming, wire, cache, slot, size, handed, op, history >>

---------------------------------------------------------------------------
Core(s) ==
  \/ Write(s) \/ Receive(s) \/ Delivered(s) \/ Acknowledged(s)
  \/ \E r \in Readers : Deliver(s, r) \/ Evict(s, r)
  \/ \E f \in Fragments : ToSerRef(s, f) \/ ToSerUnref(s, f)

Read(b) ==
  \/ \E r \in Readers : ReadBegin(b, r) \/ ReadCdrBegin(b, r)
  \/ \E s \in Serdatas : DecodeBegin(b, s) \/ Convert(b, s) \/ ReadFails(b, s)
                         \/ Collect(b, s)
  \/ DecodeEnd(b) \/ Taken(b) \/ ConvertInvalid(b) \/ ReadEnd(b)
  \/ NoData(b) \/ Poll(b) \/ Cancel(b)
  \/ CollectEnd(b) \/ Bind(b)

Use(b) ==
  \/ ClearBegin(b) \/ FreeContents(b)
  \/ \E i \in Slots : Forward(b, i)

RefsNext == (\E s \in Serdatas : Core(s)) \/ (\E b \in SampleBuffers : Read(b) \/ Use(b))

RefsSpec == RefsInit /\ [][RefsNext]_refsVars

---------------------------------------------------------------------------
(* The count C keeps in ddsi_serdata is the number of holders, and of the   *)
(* references that were lost.  It is what set_serdata, free_contents, Drop  *)
(* for Sample, to_ser_ref and to_ser_unref have to agree about, each in     *)
(* another thread and none seeing the others.                               *)
RefsCounted ==
  ~torn => \A s \in Serdatas :
    mem[s] # "freed" => refc[s] = Cardinality(Holders(s)) + lost[s]

(* A serdata that anyone refers to is allocated: serdes.rs promises that a  *)
(* Sample's pointer is kept alive by the count.                             *)
HeldIsLive == \A s \in Serdatas : Holders(s) # {} => mem[s] = "live"

(* It is, as long as no buffer is read into while one of its old samples is *)
(* referred to from elsewhere.                                              *)
HeldIsLiveUntilTorn == ~torn => HeldIsLive

(* And one that nobody refers to is not: what was read is released with the *)
(* last of its holders (serdes.rs, free_contents and Drop for Sample).      *)
NothingLeaks == \A s \in Serdatas : mem[s] = "live" => Holders(s) # {}

(* It is, unless it was read with readcdr or takecdr: failing, empty,       *)
(* invalid or half done reads lose no reference.                            *)
OnlyCdrLeaks ==
  ~torn => \A s \in Serdatas :
    mem[s] = "live" /\ lost[s] = 0 => Holders(s) # {}

(* Until a reused buffer has torn a serdata from another holder, every      *)
(* count is right, nothing is freed under a holder, and nothing stays but   *)
(* what CDR reads have lost.                                                *)
RefsSound == RefsCounted /\ HeldIsLiveUntilTorn /\ OnlyCdrLeaks

(* SampleBuffer::iter and Sample::try_deref: the slots that show a sample,  *)
(* which serdata and which of its Arcs                                      *)
Shown(b) ==
  { << i, slot[b][i], sample[slot[b][i]] >> : i \in
      { j \in 1..size[b] : /\ slot[b][j] # Nothing
                           /\ mem[slot[b][j]] = "live"
                           /\ IsDecoded(slot[b][j]) } }

(* The buffer is at rest, with the &T its iterators returned: Rust's borrow *)
(* rules keep it from being read into or cleared                            *)
Borrowed(b) == op[b].pc = "idle" /\ op'[b].pc = "idle" /\ ~torn'

(* What an iterator over a buffer returned stays the decoded sample it was, *)
(* whatever the other buffers, the readers and the core do meanwhile        *)
(* (serdes.rs: a serdata may be accessed by several threads).               *)
ShownStays ==
  [][\A b \in SampleBuffers : Borrowed(b) => Shown(b) \subseteq Shown(b)']_refsVars

(* It does, except for the moment another thread ends a decode of the same  *)
(* serdata that it began before the sample was there: serdata_to_sample     *)
(* then replaces the Arc.  Nothing else takes a sample away or decodes it   *)
(* again.                                                                   *)
ShownStaysUnlessRaced ==
  [][\A b \in SampleBuffers : Borrowed(b) =>
       \A shown \in Shown(b) \ Shown(b)' : \E c \in SampleBuffers :
         op[c].decoding = shown[2] /\ op'[c].decoding = Nothing]_refsVars
=============================================================================
