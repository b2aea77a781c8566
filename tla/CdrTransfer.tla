---------------------------- MODULE CdrTransfer ----------------------------
(***************************************************************************)
(* The serialised form of a sample on its way from writer to reader        *)
(* (serdata.rs and the SGReader of util.rs).  The C library asks a serdata *)
(* for its bytes piece by piece and hands what arrives to a constructor:   *)
(* the pieces themselves to a reader of another type in this process, a    *)
(* chain of fragments that the network may have lost, repeated, cut anew   *)
(* or reordered, or a buffer in shared memory.  What was received may be   *)
(* forwarded by another writer.                                            *)
(*                                                                         *)
(* A byte is its position in the sample as it was first written, so that   *)
(* a byte in a wrong place shows; Zero is padding.                         *)
(***************************************************************************)
EXTENDS Integers, Sequences, FiniteSetsExt, SequencesExt

CONSTANTS Length,        \* bytes of the serialised sample
          MaxFragments,  \* bound: fragments in a chain
          MaxHops,       \* bound: how often the sample is forwarded
          NoCdr          \* a serdata without serialised form

ASSUME CdrTransferAssumption ==
  /\ Length \in Nat \ {0} /\ MaxFragments \in Nat /\ MaxHops \in Nat

VARIABLES
  stage,      \* where the sample is
  serdata,    \* the serdata the C library holds
  route,      \* the constructor that was called last
  size,       \* the size it was given
  asked,      \* bytes asked for with to_ser_ref
  wire,       \* the bytes under way, one slice per piece asked for
  chain,      \* the fragments from_fragchain was given
  next,       \* the one its loop looks at
  off,        \* its off
  sgList,     \* the slices of the SGReader
  cursor,     \* SGReader.slice_cursor
  offset,     \* SGReader.slice_offset
  buf,        \* the part of into_vec's vector that is filled
  hops,       \* times forwarded
  copied      \* what to_ser wrote, by distance from the pointer C passed

readerVars == << sgList, cursor, offset, buf >>
chainVars == << chain, next, off >>
transferVars == << stage, serdata, route, size, asked, wire, chainVars,
                   readerVars, hops, copied >>

Payload == [i \in 1..Length |-> i]

ASSUME NoCdrAssumption == NoCdr # Payload

Zero == 0

(* The tables of operations: a topic of a Rust type, which can serialise, *)
(* or an untyped one, which only passes on what it received               *)
Ops == {"typed", "forward"}

(* What the network delivers: bytes min..maxp1-1, perhaps beyond the end *)
Fragment == { f \in [min : 0..Length, maxp1 : 0..Length + 1] : f.min <= f.maxp1 }

(* DdsWriter::write: from_sample shares the sample, nothing is serialised *)
TransferInit ==
  /\ stage = "held"
  /\ serdata = [ops |-> "typed", sample |-> "data", cdr |-> NoCdr]
  /\ route = "none" /\ size = 0 /\ asked = 0 /\ wire = << >>
  /\ chain = << >> /\ next = 1 /\ off = 0
  /\ sgList = << >> /\ cursor = 1 /\ offset = 0 /\ buf = << >>
  /\ hops = 0 /\ copied = NoCdr

---------------------------------------------------------------------------
(* Sending *)

(* serdata_get_size and forward_serdata_get_size *)
GetSize(s) ==
  IF s.cdr # NoCdr /\ (s.ops = "forward" \/ s.sample = "data") THEN Len(s.cdr)
  ELSE IF s.ops = "typed" /\ s.sample = "data" THEN Length ELSE 0

(* Bytes first..first+n-1 of a CDR as far as it has them *)
Clip(cdr, first, n) ==
  IF first < Len(cdr) THEN SubSeq(cdr, first + 1, Min({first + n, Len(cdr)}))
  ELSE << >>

(* serialize_sample; the forwarding operations have nothing to serialise *)
Serialised(s) ==
  IF s.cdr = NoCdr /\ s.sample = "data" THEN [s EXCEPT !.cdr = Payload] ELSE s

Begin ==
  /\ stage = "held"
  /\ stage' = "lending"
  /\ size' = GetSize(serdata)
  /\ asked' = 0 /\ wire' = << >>
  /\ UNCHANGED << serdata, route, chainVars, readerVars, hops, copied >>

(* to_ser_ref for the next n bytes, which C rounds up at the end.  That of  *)
(* a typed topic panics if there is no sample to serialise.                 *)
Lend(n) ==
  /\ stage = "lending"
  /\ asked < size \/ wire = << >>
  /\ IF serdata.ops = "typed" /\ serdata.sample = "uninitialized"
     THEN stage' = "panicked" /\ UNCHANGED << serdata, asked, wire >>
     ELSE /\ serdata' = Serialised(serdata)
          /\ wire' = Append(wire, Clip(serdata'.cdr, asked, n))
          /\ asked' = asked + n
          /\ UNCHANGED stage
  /\ UNCHANGED << route, size, chainVars, readerVars, hops, copied >>

Lent == stage = "lending" /\ wire # << >> /\ asked >= size

---------------------------------------------------------------------------
(* serdata_from_fragchain *)

(* What the first fragment must be; maxp1 < off cannot be *)
BadStart(c) == c[1].min # 0

(* The fragments are cut out of what was lent *)
FromFragchain ==
  /\ Lent
  /\ route' = "fragchain"
  /\ chain' \in UNION { [1..m -> Fragment] : m \in 1..MaxFragments }
  /\ wire' = << FlattenSeq(wire) >>
  /\ next' = 1 /\ off' = 0
  /\ UNCHANGED readerVars
  /\ stage' = IF BadStart(chain') THEN "discarded" ELSE "chain"
  /\ UNCHANGED << serdata, size, asked, hops, copied >>

FragmentBytes(f) ==
  [ i \in 1..(f.maxp1 - f.min) |->
      IF f.min + i <= Len(wire[1]) THEN wire[1][f.min + i] ELSE Zero ]

(* Bytes off..maxp1-1 of the fragment, as the loop finds them *)
Source(f) == SubSeq(FragmentBytes(f), off - f.min + 1, f.maxp1 - f.min)

(* Mutant of ChainStep: a chain that just fills the size is discarded *)
ChainStepStrict ==
  LET f == chain[next] IN
  /\ stage = "chain" /\ next <= Len(chain)
  /\ \/ /\ off < f.min
        /\ stage' = "discarded"
        /\ UNCHANGED << next, off, sgList >>
     \/ /\ off >= f.min /\ f.maxp1 <= off
        /\ next' = next + 1
        /\ UNCHANGED << stage, off, sgList >>
     \/ /\ off >= f.min /\ f.maxp1 > off
        /\ sgList' = Append(sgList, Source(f))
        /\ off' = f.maxp1
        /\ next' = next + 1
        /\ stage' = IF off' >= size THEN "discarded" ELSE stage
  /\ UNCHANGED << serdata, route, size, asked, wire, chain, cursor, offset,
                  buf, hops, copied >>

(* One fragment of the loop *)
ChainStep ==
  LET f == chain[next] IN
  /\ stage = "chain" /\ next <= Len(chain)
  /\ \/ /\ off < f.min                    \* off.checked_sub(min) fails
        /\ stage' = "discarded"
        /\ UNCHANGED << next, off, sgList >>
     \/ /\ off >= f.min /\ f.maxp1 <= off  \* nothing new
        /\ next' = next + 1
        /\ UNCHANGED << stage, off, sgList >>
     \/ /\ off >= f.min /\ f.maxp1 > off
        /\ sgList' = Append(sgList, Source(f))
        /\ off' = f.maxp1
        /\ next' = next + 1
        /\ stage' = IF off' > size THEN "discarded" ELSE stage
  /\ UNCHANGED << serdata, route, size, asked, wire, chain, cursor, offset,
                  buf, hops, copied >>

ChainEnd ==
  /\ stage = "chain" /\ next > Len(chain)
  /\ stage' = "reading"
  /\ UNCHANGED << serdata, route, size, asked, wire, chainVars, readerVars,
                  hops, copied >>

---------------------------------------------------------------------------
(* serdata_from_ser_iov: the reader reads the pieces *)
FromSerIov ==
  /\ Lent
  /\ route' = "iov"
  /\ sgList' = wire
  /\ stage' = "reading"
  /\ UNCHANGED << serdata, size, asked, wire, chainVars, cursor, offset, buf,
                  hops, copied >>

(* A serdata just constructed *)
Constructed(cdr) ==
  /\ stage' = "received"
  /\ \E ops \in Ops :
       serdata' = [ops |-> ops, sample |-> "uninitialized", cdr |-> cdr]

(* serdata_from_psmx: the loan is copied if it is marked as serialised by   *)
(* this crate's encoding                                                    *)
FromPsmx ==
  /\ Lent
  /\ route' = "psmx"
  /\ \E serialised, encoded \in BOOLEAN :
       IF serialised /\ encoded THEN Constructed(FlattenSeq(wire))
       ELSE stage' = "discarded" /\ UNCHANGED serdata
  /\ UNCHANGED << size, asked, wire, chainVars, readerVars, hops, copied >>

(* SGReader::read into what is left of the vector.  read_exact takes a      *)
(* read of no bytes for the end of the data.                                *)
ReadSlice ==
  LET left == size - Len(buf)
      slice == sgList[cursor]
      rem == Len(slice) - offset
      n == Min({rem, left}) IN
  /\ stage = "reading" /\ left > 0 /\ cursor <= Len(sgList)
  /\ buf' = buf \o SubSeq(slice, offset + 1, offset + n)
  /\ IF n = rem THEN cursor' = cursor + 1 /\ offset' = 0
                ELSE cursor' = cursor /\ offset' = offset + n
  /\ stage' = IF n = 0 THEN "discarded" ELSE stage
  /\ UNCHANGED << serdata, route, size, asked, wire, chainVars, sgList, hops,
                  copied >>

(* No slice is left: UnexpectedEof *)
ReadEof ==
  /\ stage = "reading" /\ Len(buf) < size /\ cursor > Len(sgList)
  /\ stage' = "discarded"
  /\ UNCHANGED << serdata, route, size, asked, wire, chainVars, readerVars,
                  hops, copied >>

ReadDone ==
  /\ stage = "reading" /\ Len(buf) = size
  /\ Constructed(buf)
  /\ UNCHANGED << route, size, asked, wire, chainVars, readerVars, hops, copied >>

---------------------------------------------------------------------------
(* serdata_to_sample; only typed topics have it *)
Decode ==
  /\ stage = "received" /\ serdata.ops = "typed"
  /\ serdata' = [serdata EXCEPT !.sample = "data"]
  /\ UNCHANGED << stage, route, size, asked, wire, chainVars, readerVars, hops,
                  copied >>

(* DdsWriter::forward, by a writer of the same type *)
Forward ==
  /\ stage = "received" /\ hops < MaxHops
  /\ stage' = "held" /\ hops' = hops + 1
  /\ route' = "none" /\ size' = 0 /\ asked' = 0 /\ wire' = << >>
  /\ chain' = << >> /\ next' = 1 /\ off' = 0
  /\ sgList' = << >> /\ cursor' = 1 /\ offset' = 0 /\ buf' = << >>
  /\ UNCHANGED << serdata, copied >>

Padded(cdr, i) == IF i < Len(cdr) THEN cdr[i + 1] ELSE Zero

(* serdata_to_ser, forward_serdata_to_ser: the parameters in their order,   *)
(* and what is written where                                                *)
ToSer(s, n, first) ==
  IF n = 0 THEN << >>
  ELSE [ i \in first..(first + n - 1) |-> Padded(s.cdr, i) ]

(* C calls to_ser with an offset and a size, in this order (generated.rs,   *)
(* ddsi_serdata_to_ser_t)                                                   *)
CopyOut(first, n) ==
  /\ stage = "received"
  /\ stage' = "copied"
  /\ copied' = [first |-> first, size |-> n, bytes |-> ToSer(serdata, first, n)]
  /\ UNCHANGED << serdata, route, size, asked, wire, chainVars, readerVars, hops
                  >>

---------------------------------------------------------------------------
TransferNext ==
  \/ Begin \/ (\E n \in 1..Length + 1 : Lend(n))
  \/ FromFragchain \/ ChainStep \/ ChainEnd
  \/ FromSerIov \/ FromPsmx
  \/ ReadSlice \/ ReadEof \/ ReadDone
  \/ Decode \/ Forward
  \/ \E first \in 0..Length - 1 : \E n \in 1..Length - first : CopyOut(first, n)

TransferSpec == TransferInit /\ [][TransferNext]_transferVars

---------------------------------------------------------------------------
(* No byte is lost, moved, repeated or padded on the way: whatever pieces C *)
(* asks for, whatever fragments arrive, however they overlap, and however   *)
(* often the sample is forwarded, the CDR of a serdata is that of the       *)
(* sample that was written.                                                 *)
Unscrambled == serdata.cdr \in {NoCdr, Payload}

(* The bytes the first k fragments cover from the start *)
Reach(k) == Max({0} \cup { chain[i].maxp1 : i \in 1..k })

(* A chain from which the sample can be restored: no hole, and it ends      *)
(* where the sample ends                                                    *)
Complete == /\ \A k \in DOMAIN chain : chain[k].min <= Reach(k - 1)
            /\ Reach(Len(chain)) = size

(* The two early exits of the loop, the one after it and SGReader together  *)
(* discard a chain exactly if it is incomplete; pieces are never discarded. *)
DiscardedIfIncomplete ==
  /\ route = "fragchain" /\ stage = "received" => Complete
  /\ route = "fragchain" /\ stage = "discarded" => ~Complete
  /\ route = "iov" => stage # "discarded"

(* A sample arrives as it was written, or not at all.                       *)
AssemblySound == Unscrambled /\ DiscardedIfIncomplete

(* to_ser's comment: it fills the buffer with size bytes of the serialised  *)
(* data starting at off.                                                    *)
ToSerFills ==
  stage = "copied" =>
    copied.bytes = [ i \in 0..copied.size - 1 |->
                       Padded(serdata.cdr, copied.first + i) ]
=============================================================================
