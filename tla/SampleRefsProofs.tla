------------------------- MODULE SampleRefsProofs -------------------------
(***************************************************************************)
(* The reference counts of SampleRefs are right for every number of        *)
(* serdatas, readers, buffers and samples per buffer, until a buffer is    *)
(* read into while one of its old samples is referred to from elsewhere    *)
(* (torn), and but for the references that CDR reads lose (lost).          *)
(***************************************************************************)
EXTENDS SampleRefs, TLAPS, FiniteSetTheorems

Locked == {"copying", "taking", "collecting"}

(* The strengthening of the three count invariants, for a state in which   *)
(* nothing is torn: what is held is live, and the count of a live serdata   *)
(* is right.                                                                *)
Counted ==
  \A s \in Serdatas :
    /\ IsFiniteSet(Holders(s))
    /\ mem[s] = "live" => refc[s] = Cardinality(Holders(s)) + lost[s]
    /\ mem[s] = "live" /\ lost[s] = 0 => Holders(s) # {}
    /\ mem[s] # "live" => Holders(s) = {}
    /\ mem[s] = "none" => refc[s] = 0 /\ lost[s] = 0

(* What an operation under way knows of its buffer *)
OpOK(b) ==
  /\ \A i \in Slots : i > len[b] => slot[b][i] = Nothing
  /\ op[b].pc \in {"idle", "pending"} => op[b].n = 0
  /\ op[b].pc = "clearing" => op[b].n < len[b]
  /\ op[b].pc \in {"copying", "taking"} => op[b].n <= len[b]
  /\ op[b].pc = "taking" =>
       /\ op[b].n > 0
       /\ slot[b][op[b].n] # Nothing
       /\ slot[b][op[b].n] \in cache[op[b].reader]
  /\ op[b].pc = "binding" => op[b].bound < Len(handed[b])
  /\ op[b].pc # "binding" => op[b].bound = 0
  /\ op[b].pc \in {"collecting", "binding"} => Len(handed[b]) <= len[b]
  /\ op[b].pc \notin {"collecting", "binding"} => handed[b] = << >>
  /\ op[b].pc \in Locked \cup {"pending"} => op[b].reader \in Readers
  /\ op[b].decoding # Nothing => op[b].pc = "copying"

OpsOK == \A b \in SampleBuffers : OpOK(b)

(* One operation at a time holds the lock of a reader *)
Exclusive ==
  \A b, c \in SampleBuffers :
    b # c /\ op[b].pc \in Locked /\ op[c].pc \in Locked
      => op[b].reader # op[c].reader

IInv == RefsTypeOK /\ (~torn => Counted) /\ OpsOK /\ Exclusive

---------------------------------------------------------------------------
(* Types *)

LEMMA IdleTyped == Idle \in Op
  BY SampleRefsAssumption DEF Op, OpStep, Idle

LEMMA IdleFields ==
  /\ Idle.pc = "idle" /\ Idle.reader = Nothing /\ Idle.n = 0 /\ Idle.bound = 0
  /\ Idle.invalidFirst = FALSE /\ Idle.decoding = Nothing
  BY DEF Idle

(* The pointer set_serdata binds next is one of those handed out, and there *)
(* is a slot for it.                                                        *)
LEMMA Handing ==
  ASSUME NEW b \in SampleBuffers, OpOK(b), op[b] \in Op, len[b] \in 0..Capacity,
         handed[b] \in Seq(Serdatas), op[b].pc = "binding"
  PROVE  /\ op[b].bound + 1 \in 1..Len(handed[b])
         /\ op[b].bound + 1 \in Slots
         /\ op[b].bound + 1 <= len[b]
         /\ handed[b][op[b].bound + 1] \in Serdatas
<1>1. op[b].bound < Len(handed[b]) /\ Len(handed[b]) <= len[b]
  BY DEF OpOK
<1>2. op[b].bound \in Nat /\ Len(handed[b]) \in Nat
  BY SampleRefsAssumption DEF Op
<1>3. op[b].bound + 1 \in 1..Len(handed[b]) /\ op[b].bound + 1 <= len[b]
  BY <1>1, <1>2
<1> QED BY <1>2, <1>3, SampleRefsAssumption DEF Slots

(* Counting up or down keeps counts integers and boxes boxes. *)
LEMMA AddrefTyped ==
  ASSUME RefsTypeOK, NEW s \in Serdatas, Addref(s)
  PROVE  /\ mem' \in [Serdatas -> {"none", "live", "freed"}]
         /\ refc' \in [Serdatas -> Int]
  BY DEF RefsTypeOK, Addref

LEMMA RemoverefTyped ==
  ASSUME RefsTypeOK, NEW s \in Serdatas, Removeref(s)
  PROVE  /\ mem' \in [Serdatas -> {"none", "live", "freed"}]
         /\ refc' \in [Serdatas -> Int]
  BY DEF RefsTypeOK, Removeref

LEMMA SetSerdataTyped ==
  ASSUME RefsTypeOK, NEW b \in SampleBuffers, NEW i \in Slots, NEW s \in Serdatas,
         SetSerdata(b, i, s)
  PROVE  /\ mem' \in [Serdatas -> {"none", "live", "freed"}]
         /\ refc' \in [Serdatas -> Int]
         /\ slot' \in [SampleBuffers -> [Slots -> Serdatas \cup {Nothing}]]
         /\ torn' \in BOOLEAN
<1>1. torn' \in BOOLEAN
  BY DEF SetSerdata, Shared
<1>2. slot[b][i] # Nothing => slot[b][i] \in Serdatas
  BY DEF RefsTypeOK
<1> QED BY <1>1, <1>2 DEF RefsTypeOK, SetSerdata

(* Every step leaves a well formed operation on every buffer. *)
LEMMA OpTyped ==
  ASSUME op \in [SampleBuffers -> Op], len \in [SampleBuffers -> 0..Capacity],
         handed \in [SampleBuffers -> Seq(Serdatas)], OpsOK, [RefsNext]_refsVars
  PROVE  op' \in [SampleBuffers -> Op]
<1>1. ASSUME NEW s \in Serdatas, Write(s) PROVE op' \in [SampleBuffers -> Op]
  BY <1>1 DEF Write, Made
<1>2. ASSUME NEW s \in Serdatas, Receive(s) PROVE op' \in [SampleBuffers -> Op]
  BY <1>2 DEF Receive, Made, Corrupt, Uninitialized
<1>3. ASSUME NEW s \in Serdatas, Delivered(s) PROVE op' \in [SampleBuffers -> Op]
  BY <1>3 DEF Delivered
<1>4. ASSUME NEW s \in Serdatas, Acknowledged(s) PROVE op' \in [SampleBuffers ->
      Op]
  BY <1>4 DEF Acknowledged
<1>5. ASSUME NEW s \in Serdatas, NEW r \in Readers, Deliver(s, r) PROVE op'
      \in [SampleBuffers -> Op]
  BY <1>5 DEF Deliver
<1>6. ASSUME NEW s \in Serdatas, NEW r \in Readers, Evict(s, r) PROVE op' \in
      [SampleBuffers -> Op]
  BY <1>6 DEF Evict
<1>7. ASSUME NEW s \in Serdatas, NEW f \in Fragments, ToSerRef(s, f) PROVE
      op' \in [SampleBuffers -> Op]
  BY <1>7 DEF ToSerRef
<1>8. ASSUME NEW s \in Serdatas, NEW f \in Fragments, ToSerUnref(s, f) PROVE
      op' \in [SampleBuffers -> Op]
  BY <1>8 DEF ToSerUnref
<1>9. ASSUME NEW b \in SampleBuffers, NEW r \in Readers, ReadBegin(b, r) PROVE op'
      \in [SampleBuffers -> Op]
  <2>1. PICK take \in BOOLEAN : Begin(b, r, "copying", take)
    BY <1>9 DEF ReadBegin
  <2>2. [Idle EXCEPT !.pc = "copying", !.reader = r, !.take = take] \in Op
    BY IdleTyped DEF Op, OpStep
  <2> QED BY <2>1, <2>2 DEF Begin
<1>10. ASSUME NEW b \in SampleBuffers, NEW r \in Readers, ReadCdrBegin(b, r) PROVE
      op' \in [SampleBuffers -> Op]
  <2>1. PICK take \in BOOLEAN : Begin(b, r, "collecting", take)
    BY <1>10 DEF ReadCdrBegin
  <2>2. [Idle EXCEPT !.pc = "collecting", !.reader = r, !.take = take] \in Op
    BY IdleTyped DEF Op, OpStep
  <2> QED BY <2>1, <2>2 DEF Begin
<1>11. ASSUME NEW b \in SampleBuffers, NEW s \in Serdatas, DecodeBegin(b, s) PROVE
      op' \in [SampleBuffers -> Op]
  <2>1. [op[b] EXCEPT !.decoding = s] \in Op
    BY DEF Op, OpStep
  <2> QED BY <1>11, <2>1 DEF DecodeBegin
<1>12. ASSUME NEW b \in SampleBuffers, NEW s \in Serdatas, Convert(b, s) PROVE op'
      \in [SampleBuffers -> Op]
  <2>1. op[b].n + 1 \in 0..Capacity
    BY <1>12, SampleRefsAssumption DEF Convert, Op, Next1
  <2>2. [op[b] EXCEPT !.n = @ + 1, !.pc = IF op[b].take THEN "taking" ELSE @] \in Op
    BY <2>1 DEF Op, OpStep
  <2> QED BY <1>12, <2>2 DEF Convert
<1>13. ASSUME NEW b \in SampleBuffers, NEW s \in Serdatas, ReadFails(b, s) PROVE
      op' \in [SampleBuffers -> Op]
  BY <1>13, IdleTyped DEF ReadFails
<1>14. ASSUME NEW b \in SampleBuffers, NEW s \in Serdatas, Collect(b, s) PROVE op'
      \in [SampleBuffers -> Op]
  BY <1>14 DEF Collect
<1>15. ASSUME NEW b \in SampleBuffers, DecodeEnd(b) PROVE op' \in [SampleBuffers -> Op]
  <2>1. [op[b] EXCEPT !.decoding = Nothing] \in Op
    BY DEF Op, OpStep, Idle
  <2> QED BY <1>15, <2>1 DEF DecodeEnd
<1>16. ASSUME NEW b \in SampleBuffers, Taken(b) PROVE op' \in [SampleBuffers -> Op]
  <2>1. [op[b] EXCEPT !.pc = "copying"] \in Op
    BY DEF Op, OpStep
  <2> QED BY <1>16, <2>1 DEF Taken
<1>17. ASSUME NEW b \in SampleBuffers, ConvertInvalid(b) PROVE op' \in [SampleBuffers ->
      Op]
  <2>1. op[b].n + 1 \in 0..Capacity
    BY <1>17, SampleRefsAssumption DEF ConvertInvalid, Op
  <2>2. [op[b] EXCEPT !.n = op[b].n + 1, !.invalidFirst = @ \/ op[b].n + 1 = 1] \in Op
    BY <2>1 DEF Op, OpStep
  <2> QED BY <1>17, <2>2 DEF ConvertInvalid
<1>18. ASSUME NEW b \in SampleBuffers, ReadEnd(b) PROVE op' \in [SampleBuffers -> Op]
  BY <1>18, IdleTyped DEF ReadEnd
<1>19. ASSUME NEW b \in SampleBuffers, NoData(b) PROVE op' \in [SampleBuffers -> Op]
  <2>1. [Idle EXCEPT !.pc = "pending", !.reader = op[b].reader,
                     !.take = op[b].take] \in Op
    BY IdleTyped DEF Op, OpStep
  <2> QED BY <1>19, <2>1, IdleTyped DEF NoData
<1>20. ASSUME NEW b \in SampleBuffers, Poll(b) PROVE op' \in [SampleBuffers -> Op]
  <2>1. [op[b] EXCEPT !.pc = "copying"] \in Op
    BY DEF Op, OpStep
  <2> QED BY <1>20, <2>1 DEF Poll
<1>21. ASSUME NEW b \in SampleBuffers, Cancel(b) PROVE op' \in [SampleBuffers -> Op]
  BY <1>21, IdleTyped DEF Cancel
<1>22. ASSUME NEW b \in SampleBuffers, CollectEnd(b) PROVE op' \in [SampleBuffers -> Op]
  <2>1. [Idle EXCEPT !.pc = "binding"] \in Op
    BY IdleTyped DEF Op, OpStep
  <2> QED BY <1>22, <2>1, IdleTyped DEF CollectEnd
<1>23. ASSUME NEW b \in SampleBuffers, Bind(b) PROVE op' \in [SampleBuffers -> Op]
  <2>1. op[b].bound + 1 \in Slots
    BY <1>23, Handing DEF Bind, OpsOK
  <2>2. op[b].bound + 1 \in 0..Capacity
    BY <2>1, SampleRefsAssumption DEF Slots
  <2>3. [op[b] EXCEPT !.bound = op[b].bound + 1] \in Op
    BY <2>2 DEF Op
  <2> QED BY <1>23, <2>3, IdleTyped DEF Bind
<1>24. ASSUME NEW b \in SampleBuffers, ClearBegin(b) PROVE op' \in [SampleBuffers -> Op]
  <2>1. [op[b] EXCEPT !.pc = "clearing"] \in Op
    BY DEF Op, OpStep
  <2> QED BY <1>24, <2>1 DEF ClearBegin
<1>25. ASSUME NEW b \in SampleBuffers, FreeContents(b) PROVE op' \in [SampleBuffers ->
      Op]
  <2>1. op[b].n + 1 \in 0..Capacity
    BY <1>25, SampleRefsAssumption DEF OpsOK, OpOK, FreeContents, Op
  <2>2. [op[b] EXCEPT !.n = op[b].n + 1] \in Op
    BY <2>1 DEF Op
  <2> QED BY <1>25, <2>2, IdleTyped DEF FreeContents
<1>26. ASSUME NEW b \in SampleBuffers, NEW i \in Slots, Forward(b, i) PROVE op' \in
      [SampleBuffers -> Op]
  BY <1>26 DEF Forward
<1>27. CASE UNCHANGED refsVars
  BY <1>27 DEF refsVars
<1> QED BY <1>1, <1>2, <1>3, <1>4, <1>5, <1>6, <1>7, <1>8, <1>9, <1>10,
         <1>11, <1>12, <1>13, <1>14, <1>15, <1>16, <1>17, <1>18, <1>19,
         <1>20, <1>21, <1>22, <1>23, <1>24, <1>25, <1>26, <1>27 DEF RefsNext,
         Core, Read, Use

(* Every step keeps the types. *)
LEMMA TypeStep ==
  ASSUME RefsTypeOK, OpsOK, [RefsNext]_refsVars
  PROVE  RefsTypeOK'
<1>0. op' \in [SampleBuffers -> Op]
  BY OpTyped DEF RefsTypeOK
<1>1. ASSUME NEW s \in Serdatas, Write(s) PROVE RefsTypeOK'
  BY <1>1, <1>0 DEF RefsTypeOK, Write, Made, history
<1>2. ASSUME NEW s \in Serdatas, Receive(s) PROVE RefsTypeOK'
  BY <1>2, <1>0 DEF RefsTypeOK, Receive, Made, history, Corrupt, Uninitialized
<1>3. ASSUME NEW s \in Serdatas, Delivered(s) PROVE RefsTypeOK'
  <2>1. Removeref(s)
    BY <1>3 DEF Delivered
  <2> QED BY <1>3, <1>0, <2>1, RemoverefTyped DEF RefsTypeOK, coreVars, history, Delivered
<1>4. ASSUME NEW s \in Serdatas, Acknowledged(s) PROVE RefsTypeOK'
  <2>1. Removeref(s)
    BY <1>4 DEF Acknowledged
  <2> QED BY <1>4, <1>0, <2>1, RemoverefTyped DEF RefsTypeOK, coreVars, history, Acknowledged
<1>5. ASSUME NEW s \in Serdatas, NEW r \in Readers, Deliver(s, r) PROVE
      RefsTypeOK'
  <2>1. Addref(s)
    BY <1>5 DEF Deliver
  <2> QED BY <1>5, <1>0, <2>1, AddrefTyped DEF RefsTypeOK, coreVars, history, Deliver
<1>6. ASSUME NEW s \in Serdatas, NEW r \in Readers, Evict(s, r) PROVE RefsTypeOK'
  <2>1. Removeref(s)
    BY <1>6 DEF Evict
  <2> QED BY <1>6, <1>0, <2>1, RemoverefTyped DEF RefsTypeOK, coreVars, history, Evict
<1>7. ASSUME NEW s \in Serdatas, NEW f \in Fragments, ToSerRef(s, f) PROVE
      RefsTypeOK'
  <2>1. Addref(s)
    BY <1>7 DEF ToSerRef
  <2> QED BY <1>7, <1>0, <2>1, AddrefTyped DEF RefsTypeOK, coreVars, history, ToSerRef
<1>8. ASSUME NEW s \in Serdatas, NEW f \in Fragments, ToSerUnref(s, f) PROVE
      RefsTypeOK'
  <2>1. Removeref(s)
    BY <1>8 DEF ToSerUnref
  <2> QED BY <1>8, <1>0, <2>1, RemoverefTyped DEF RefsTypeOK, coreVars, history, ToSerUnref
<1>9. ASSUME NEW b \in SampleBuffers, NEW r \in Readers, ReadBegin(b, r) PROVE
      RefsTypeOK'
  BY <1>9, <1>0, SampleRefsAssumption DEF RefsTypeOK, coreVars, history, ReadBegin, Begin
<1>10. ASSUME NEW b \in SampleBuffers, NEW r \in Readers, ReadCdrBegin(b, r) PROVE
      RefsTypeOK'
  BY <1>10, <1>0, SampleRefsAssumption DEF RefsTypeOK, coreVars, history, ReadCdrBegin,
     Begin
<1>11. ASSUME NEW b \in SampleBuffers, NEW s \in Serdatas, DecodeBegin(b, s) PROVE
      RefsTypeOK'
  BY <1>11, <1>0 DEF RefsTypeOK, coreVars, history, DecodeBegin
<1>12. ASSUME NEW b \in SampleBuffers, NEW s \in Serdatas, Convert(b, s) PROVE
      RefsTypeOK'
  <2>1. op[b].n + 1 \in Slots /\ SetSerdata(b, op[b].n + 1, s)
    BY <1>12, SampleRefsAssumption DEF RefsTypeOK, Convert, Next1, Slots, Op
  <2> QED BY <1>12, <1>0, <2>1, SetSerdataTyped DEF RefsTypeOK, coreVars, history, Convert
<1>13. ASSUME NEW b \in SampleBuffers, NEW s \in Serdatas, ReadFails(b, s) PROVE
      RefsTypeOK'
  BY <1>13, <1>0 DEF RefsTypeOK, coreVars, history, ReadFails
<1>14. ASSUME NEW b \in SampleBuffers, NEW s \in Serdatas, Collect(b, s) PROVE
      RefsTypeOK'
  <2>1. op[b].reader \in Readers
    BY <1>14 DEF OpsOK, OpOK, Collect, Locked
  <2>2. /\ mem' \in [Serdatas -> {"none", "live", "freed"}]
        /\ refc' \in [Serdatas -> Int]
        /\ cache' \in [Readers -> SUBSET Serdatas]
    <3>1. CASE /\ cache' = [cache EXCEPT ![op[b].reader] = @ \ {s}]
               /\ UNCHANGED << mem, refc >>
      BY <3>1, <2>1 DEF RefsTypeOK
    <3>2. CASE Addref(s) /\ UNCHANGED cache
      BY <3>2, AddrefTyped DEF RefsTypeOK
    <3> QED BY <1>14, <3>1, <3>2 DEF Collect
  <2>3. handed' \in [SampleBuffers -> Seq(Serdatas)]
    BY <1>14 DEF Collect, RefsTypeOK
  <2>4. UNCHANGED << sample, incoming, sent, wire, len, slot, size, lost, torn >>
    BY <1>14 DEF Collect, coreVars, history
  <2> QED BY <1>0, <2>2, <2>3, <2>4 DEF RefsTypeOK
<1>15. ASSUME NEW b \in SampleBuffers, DecodeEnd(b) PROVE RefsTypeOK'
  <2>1. op[b].decoding \in Serdatas
    BY <1>15 DEF RefsTypeOK, Op, DecodeEnd
  <2> QED BY SMTT(30), <1>15, <1>0, <2>1 DEF RefsTypeOK, coreVars, history, DecodeEnd
<1>16. ASSUME NEW b \in SampleBuffers, Taken(b) PROVE RefsTypeOK'
  <2>1. op[b].n \in Slots /\ op[b].reader \in Readers
    BY <1>16, SampleRefsAssumption DEF RefsTypeOK, OpsOK, OpOK, Taken, Locked, Slots, Op
  <2>2. slot[b][op[b].n] \in Serdatas
    BY <1>16, <2>1 DEF RefsTypeOK, OpsOK, OpOK, Taken
  <2>3. Removeref(slot[b][op[b].n])
    BY <1>16 DEF Taken
  <2> QED BY <1>16, <1>0, <2>1, <2>2, <2>3, RemoverefTyped DEF RefsTypeOK, coreVars, history, Taken
<1>17. ASSUME NEW b \in SampleBuffers, ConvertInvalid(b) PROVE RefsTypeOK'
  <2>1. op[b].n + 1 \in Slots
    BY <1>17, SampleRefsAssumption DEF RefsTypeOK, OpsOK, OpOK, ConvertInvalid, Slots, Op
  <2>2. /\ mem' \in [Serdatas -> {"none", "live", "freed"}]
        /\ refc' \in [Serdatas -> Int]
    <3>1. CASE slot[b][op[b].n + 1] = Nothing
      BY <1>17, <3>1 DEF ConvertInvalid, RefsTypeOK
    <3>2. CASE slot[b][op[b].n + 1] # Nothing
      <4>1. slot[b][op[b].n + 1] \in Serdatas
        BY <2>1, <3>2 DEF RefsTypeOK
      <4> QED BY <1>17, <3>2, <4>1, RemoverefTyped DEF ConvertInvalid
    <3> QED BY <3>1, <3>2
  <2>3. slot' \in [SampleBuffers -> [Slots -> Serdatas \cup {Nothing}]]
    BY <1>17, <2>1 DEF ConvertInvalid, RefsTypeOK
  <2> QED BY <1>17, <1>0, <2>2, <2>3 DEF RefsTypeOK, coreVars, history, ConvertInvalid
<1>18. ASSUME NEW b \in SampleBuffers, ReadEnd(b) PROVE RefsTypeOK'
  <2>1. op[b].n \in 0..Capacity
    BY <1>18 DEF RefsTypeOK, Op
  <2> QED BY <1>18, <1>0, <2>1 DEF RefsTypeOK, coreVars, history, ReadEnd
<1>19. ASSUME NEW b \in SampleBuffers, NoData(b) PROVE RefsTypeOK'
  BY <1>19, <1>0 DEF RefsTypeOK, coreVars, history, NoData
<1>20. ASSUME NEW b \in SampleBuffers, Poll(b) PROVE RefsTypeOK'
  BY <1>20, <1>0 DEF RefsTypeOK, coreVars, history, Poll
<1>21. ASSUME NEW b \in SampleBuffers, Cancel(b) PROVE RefsTypeOK'
  BY <1>21, <1>0 DEF RefsTypeOK, coreVars, history, Cancel
<1>22. ASSUME NEW b \in SampleBuffers, CollectEnd(b) PROVE RefsTypeOK'
  BY <1>22, <1>0 DEF RefsTypeOK, coreVars, history, CollectEnd
<1>23. ASSUME NEW b \in SampleBuffers, Bind(b) PROVE RefsTypeOK'
  <2> DEFINE i == op[b].bound + 1
             s == handed[b][i]
  <2>1. i \in Slots /\ i \in 0..Capacity /\ s \in Serdatas
    <3>1. /\ OpOK(b) /\ op[b] \in Op /\ op[b].pc = "binding"
          /\ len[b] \in 0..Capacity /\ handed[b] \in Seq(Serdatas)
      BY <1>23 DEF OpsOK, RefsTypeOK, Bind
    <3>2. i \in Slots /\ s \in Serdatas
      BY <3>1, Handing
    <3> QED BY <3>2, SampleRefsAssumption DEF Slots
  <2>2. SetSerdata(b, i, s) /\ lost' = [lost EXCEPT ![s] = @ + 1]
    BY <1>23 DEF Bind
  <2>3. /\ mem' \in [Serdatas -> {"none", "live", "freed"}]
        /\ refc' \in [Serdatas -> Int]
        /\ slot' \in [SampleBuffers -> [Slots -> Serdatas \cup {Nothing}]]
        /\ torn' \in BOOLEAN
    BY <2>1, <2>2, SetSerdataTyped
  <2>4. lost' \in [Serdatas -> Nat]
    <3>1. PICK d \in Serdatas : d = s
      BY <2>1
    <3>2. lost' = [lost EXCEPT ![d] = @ + 1] /\ lost \in [Serdatas -> Nat]
      BY <2>2, <3>1 DEF RefsTypeOK
    <3> QED BY <3>2
  <2>5. size' = size \/ size' = [size EXCEPT ![b] = i]
    BY <1>23 DEF Bind
  <2>6. handed' = handed \/ handed' = [handed EXCEPT ![b] = << >>]
    BY <1>23 DEF Bind
  <2>7. handed' \in [SampleBuffers -> Seq(Serdatas)]
    <3>1. handed \in [SampleBuffers -> Seq(Serdatas)] /\ << >> \in Seq(Serdatas)
      BY DEF RefsTypeOK
    <3> QED BY <2>6, <3>1
  <2>8. UNCHANGED << sample, incoming, sent, wire, cache, len >>
    BY <1>23 DEF Bind, coreVars
  <2> QED BY <1>0, <2>1, <2>3, <2>4, <2>5, <2>7, <2>8 DEF RefsTypeOK
<1>24. ASSUME NEW b \in SampleBuffers, ClearBegin(b) PROVE RefsTypeOK'
  BY <1>24, <1>0, SampleRefsAssumption DEF RefsTypeOK, coreVars, history, ClearBegin
<1>25. ASSUME NEW b \in SampleBuffers, FreeContents(b) PROVE RefsTypeOK'
  <2>1. op[b].n + 1 \in Slots
    BY <1>25, SampleRefsAssumption DEF RefsTypeOK, OpsOK, OpOK, FreeContents, Slots, Op
  <2>2. /\ mem' \in [Serdatas -> {"none", "live", "freed"}]
        /\ refc' \in [Serdatas -> Int]
    <3>1. CASE slot[b][op[b].n + 1] = Nothing
      BY <1>25, <3>1 DEF FreeContents, RefsTypeOK
    <3>2. CASE slot[b][op[b].n + 1] # Nothing
      <4>1. slot[b][op[b].n + 1] \in Serdatas
        BY <2>1, <3>2 DEF RefsTypeOK
      <4> QED BY <1>25, <3>2, <4>1, RemoverefTyped DEF FreeContents
    <3> QED BY <3>1, <3>2
  <2>3. slot' \in [SampleBuffers -> [Slots -> Serdatas \cup {Nothing}]]
    BY <1>25, <2>1 DEF FreeContents, RefsTypeOK
  <2> QED BY <1>25, <1>0, <2>2, <2>3 DEF RefsTypeOK, coreVars, history, FreeContents
<1>26. ASSUME NEW b \in SampleBuffers, NEW i \in Slots, Forward(b, i) PROVE RefsTypeOK'
  <2>1. slot[b][i] \in Serdatas /\ Addref(slot[b][i])
    BY <1>26 DEF RefsTypeOK, Forward
  <2> QED BY <1>26, <1>0, <2>1, AddrefTyped DEF RefsTypeOK, Forward, history
<1>27. CASE UNCHANGED refsVars
  BY <1>27 DEF RefsTypeOK, refsVars, coreVars, history
<1> QED BY <1>1, <1>2, <1>3, <1>4, <1>5, <1>6, <1>7, <1>8, <1>9, <1>10,
         <1>11, <1>12, <1>13, <1>14, <1>15, <1>16, <1>17, <1>18, <1>19,
         <1>20, <1>21, <1>22, <1>23, <1>24, <1>25, <1>26, <1>27 DEF RefsNext,
         Core, Read, Use

---------------------------------------------------------------------------
(* Operations and their buffers *)

(* What a buffer's operation knows survives every step of somebody else. *)
LEMMA OpFrame ==
  ASSUME NEW c \in SampleBuffers, OpOK(c),
         UNCHANGED << slot[c], op[c], len[c], handed[c] >>,
         op[c].pc = "taking" => cache[op[c].reader] \subseteq cache'[op[c].reader]
  PROVE  OpOK(c)'
  BY DEF OpOK, Locked

(* Every step keeps what the operations know of their buffers. *)
LEMMA OpsStep ==
  ASSUME RefsTypeOK, OpsOK, Exclusive, [RefsNext]_refsVars
  PROVE  OpsOK'
<1>1. ASSUME NEW s \in Serdatas, Write(s) PROVE OpsOK'
  BY <1>1, OpFrame DEF OpsOK, Write, Made
<1>2. ASSUME NEW s \in Serdatas, Receive(s) PROVE OpsOK'
  BY <1>2, OpFrame DEF OpsOK, Receive, Made, Corrupt, Uninitialized
<1>3. ASSUME NEW s \in Serdatas, Delivered(s) PROVE OpsOK'
  BY <1>3, OpFrame DEF OpsOK, Delivered
<1>4. ASSUME NEW s \in Serdatas, Acknowledged(s) PROVE OpsOK'
  BY <1>4, OpFrame DEF OpsOK, Acknowledged
<1>5. ASSUME NEW s \in Serdatas, NEW r \in Readers, Deliver(s, r) PROVE
      OpsOK'
  <2>1. \A q \in Readers : cache[q] \subseteq cache'[q]
    BY <1>5 DEF RefsTypeOK, Deliver
  <2> QED BY <1>5, <2>1, OpFrame DEF OpsOK, OpOK, Locked, Deliver
<1>6. ASSUME NEW s \in Serdatas, NEW r \in Readers, Evict(s, r) PROVE OpsOK'
  <2>1. ASSUME NEW c \in SampleBuffers PROVE OpOK(c)'
    <3>1. op[c].pc = "taking" => cache'[op[c].reader] = cache[op[c].reader]
      BY <1>6 DEF OpsOK, OpOK, Locked, RefsTypeOK, Evict, CacheFree
    <3> QED BY <1>6, <3>1, OpFrame DEF OpsOK, Evict
  <2> QED BY <2>1 DEF OpsOK
<1>7. ASSUME NEW s \in Serdatas, NEW f \in Fragments, ToSerRef(s, f) PROVE
      OpsOK'
  BY <1>7, OpFrame DEF OpsOK, ToSerRef
<1>8. ASSUME NEW s \in Serdatas, NEW f \in Fragments, ToSerUnref(s, f) PROVE
      OpsOK'
  BY <1>8, OpFrame DEF OpsOK, ToSerUnref
<1>9. ASSUME NEW b \in SampleBuffers, NEW r \in Readers, ReadBegin(b, r) PROVE
      OpsOK'
  <2>0. OpOK(b) /\ op[b] \in Op /\ len[b] \in 0..Capacity
    BY DEF OpsOK, RefsTypeOK
  <2>1. ASSUME NEW c \in SampleBuffers, c # b PROVE OpOK(c)'
    <3>1. UNCHANGED << slot[c], op[c], len[c], handed[c] >>
      BY <1>9, <2>1 DEF RefsTypeOK, ReadBegin, Begin
    <3>2. UNCHANGED cache
      BY <1>9 DEF ReadBegin, Begin
    <3> QED BY <3>1, <3>2, OpFrame DEF OpsOK
  <2>2. PICK take \in BOOLEAN : Begin(b, r, "copying", take)
    BY <1>9 DEF ReadBegin
  <2>3. op'[b] = [Idle EXCEPT !.pc = "copying", !.reader = r, !.take = take]
    BY <2>2 DEF RefsTypeOK, Begin
  <2>4. /\ op'[b].pc = "copying" /\ op'[b].n = 0 /\ op'[b].reader = r
        /\ op'[b].decoding = Nothing /\ op'[b].bound = 0
    BY <2>3 DEF Idle
  <2>5. op[b].pc = "idle" /\ UNCHANGED << len, slot, handed >>
    BY <2>2 DEF Begin
  <2>6. OpOK(b)'
    BY <2>0, <2>4, <2>5, SampleRefsAssumption DEF OpOK, Locked
  <2> QED BY <2>1, <2>6 DEF OpsOK
<1>10. ASSUME NEW b \in SampleBuffers, NEW r \in Readers, ReadCdrBegin(b, r) PROVE
      OpsOK'
  <2>0. OpOK(b) /\ op[b] \in Op /\ len[b] \in 0..Capacity
    BY DEF OpsOK, RefsTypeOK
  <2>1. ASSUME NEW c \in SampleBuffers, c # b PROVE OpOK(c)'
    <3>1. UNCHANGED << slot[c], op[c], len[c], handed[c] >>
      BY <1>10, <2>1 DEF RefsTypeOK, ReadCdrBegin, Begin
    <3>2. UNCHANGED cache
      BY <1>10 DEF ReadCdrBegin, Begin
    <3> QED BY <3>1, <3>2, OpFrame DEF OpsOK
  <2>2. PICK take \in BOOLEAN : Begin(b, r, "collecting", take)
    BY <1>10 DEF ReadCdrBegin
  <2>3. op'[b] = [Idle EXCEPT !.pc = "collecting", !.reader = r, !.take = take]
    BY <2>2 DEF RefsTypeOK, Begin
  <2>4. /\ op'[b].pc = "collecting" /\ op'[b].n = 0 /\ op'[b].reader = r
        /\ op'[b].decoding = Nothing /\ op'[b].bound = 0
    BY <2>3 DEF Idle
  <2>5. op[b].pc = "idle" /\ UNCHANGED << len, slot, handed >>
    BY <2>2 DEF Begin
  <2>6. OpOK(b)'
    BY <2>0, <2>4, <2>5, SampleRefsAssumption DEF OpOK, Locked
  <2> QED BY <2>1, <2>6 DEF OpsOK
<1>11. ASSUME NEW b \in SampleBuffers, NEW s \in Serdatas, DecodeBegin(b, s) PROVE
      OpsOK'
  <2>0. OpOK(b) /\ op[b] \in Op /\ len[b] \in 0..Capacity
    BY DEF OpsOK, RefsTypeOK
  <2>1. ASSUME NEW c \in SampleBuffers, c # b PROVE OpOK(c)'
    <3>1. UNCHANGED << slot[c], op[c], len[c], handed[c] >>
      BY <1>11, <2>1 DEF RefsTypeOK, DecodeBegin
    <3>2. UNCHANGED cache
      BY <1>11 DEF DecodeBegin
    <3> QED BY <3>1, <3>2, OpFrame DEF OpsOK
  <2>2. op'[b] = [op[b] EXCEPT !.decoding = s]
    BY <1>11 DEF RefsTypeOK, DecodeBegin
  <2>3. /\ op'[b].pc = op[b].pc
        /\ op'[b].n = op[b].n
        /\ op'[b].bound = op[b].bound
        /\ op'[b].invalidFirst = op[b].invalidFirst
        /\ op'[b].reader = op[b].reader
        /\ op'[b].decoding = s
    BY <1>11, <2>2 DEF RefsTypeOK, Op, DecodeBegin
  <2>4. OpOK(b)'
    BY <1>11, <2>0, <2>3, SampleRefsAssumption DEF OpOK, Op, Locked, Slots, DecodeBegin
  <2> QED BY <2>1, <2>4 DEF OpsOK
<1>12. ASSUME NEW b \in SampleBuffers, NEW s \in Serdatas, Convert(b, s) PROVE
      OpsOK'
  <2>0. OpOK(b) /\ op[b] \in Op /\ len[b] \in 0..Capacity
    BY DEF OpsOK, RefsTypeOK
  <2>1. ASSUME NEW c \in SampleBuffers, c # b PROVE OpOK(c)'
    <3>1. UNCHANGED << slot[c], op[c], len[c], handed[c] >>
      BY <1>12, <2>1 DEF RefsTypeOK, Convert, SetSerdata
    <3>2. UNCHANGED cache
      BY <1>12 DEF Convert
    <3> QED BY <3>1, <3>2, OpFrame DEF OpsOK
  <2>2. op'[b] = [op[b] EXCEPT !.n = op[b].n + 1, !.pc = IF op[b].take THEN "taking" ELSE @]
    BY <1>12 DEF RefsTypeOK, Convert
  <2>3. /\ op'[b].n = op[b].n + 1
        /\ op'[b].bound = op[b].bound
        /\ op'[b].invalidFirst = op[b].invalidFirst
        /\ op'[b].reader = op[b].reader
        /\ op'[b].decoding = op[b].decoding
        /\ op'[b].pc \in {"copying", "taking"}
    BY <1>12, <2>2 DEF RefsTypeOK, Op, Convert
  <2>4. op[b].n + 1 \in Slots /\ s \in cache[op[b].reader] /\ s # Nothing
    BY <1>12, SampleRefsAssumption DEF RefsTypeOK, Op, Slots, Convert, Next1
  <2>5. slot'[b] = [slot[b] EXCEPT ![op[b].n + 1] = s]
    BY <1>12, <2>4 DEF RefsTypeOK, Convert, SetSerdata
  <2>6. OpOK(b)'
    BY <1>12, <2>3, <2>4, <2>5, SampleRefsAssumption
       DEF OpsOK, OpOK, RefsTypeOK, Op, Locked, Slots, Convert, Next1
  <2> QED BY <2>1, <2>6 DEF OpsOK
<1>13. ASSUME NEW b \in SampleBuffers, NEW s \in Serdatas, ReadFails(b, s) PROVE
      OpsOK'
  <2>0. OpOK(b) /\ op[b] \in Op /\ len[b] \in 0..Capacity
    BY DEF OpsOK, RefsTypeOK
  <2>1. ASSUME NEW c \in SampleBuffers, c # b PROVE OpOK(c)'
    <3>1. UNCHANGED << slot[c], op[c], len[c], handed[c] >>
      BY <1>13, <2>1 DEF RefsTypeOK, ReadFails
    <3>2. UNCHANGED cache
      BY <1>13 DEF ReadFails
    <3> QED BY <3>1, <3>2, OpFrame DEF OpsOK
  <2>2. /\ op'[b] = Idle /\ UNCHANGED << len, slot, handed >>
        /\ op[b].pc \in {"copying", "pending"}
    BY <1>13 DEF RefsTypeOK, ReadFails
  <2>3. OpOK(b)'
    BY <2>0, <2>2 DEF OpOK, Idle, Locked
  <2> QED BY <2>1, <2>3 DEF OpsOK
<1>14. ASSUME NEW b \in SampleBuffers, NEW s \in Serdatas, Collect(b, s) PROVE
      OpsOK'
  <2>0. OpOK(b) /\ op[b] \in Op /\ len[b] \in 0..Capacity
    BY DEF OpsOK, RefsTypeOK
  <2>1. ASSUME NEW c \in SampleBuffers, c # b PROVE OpOK(c)'
    <3>1. UNCHANGED << slot[c], op[c], len[c], handed[c] >>
      BY <1>14, <2>1 DEF RefsTypeOK, Collect
    <3>2. op[c].pc = "taking" => cache'[op[c].reader] = cache[op[c].reader]
      BY <1>14, <2>1 DEF OpsOK, OpOK, Exclusive, Locked, RefsTypeOK, Collect
    <3> QED BY <3>1, <3>2, OpFrame DEF OpsOK
  <2>2. UNCHANGED << op, slot, len >>
    BY <1>14 DEF Collect
  <2>3. Len(handed'[b]) = Len(handed[b]) + 1 /\ Len(handed[b]) \in Nat
    BY <1>14 DEF RefsTypeOK, Collect
  <2>4. op[b].pc = "collecting" /\ Len(handed[b]) < len[b] /\ len[b] \in Nat
    BY <1>14, <2>0, SampleRefsAssumption DEF Collect
  <2>5. Len(handed'[b]) <= len[b]
    BY <2>3, <2>4
  <2>6. OpOK(b)'
    BY <2>0, <2>2, <2>4, <2>5 DEF OpOK, Locked
  <2> QED BY <2>1, <2>6 DEF OpsOK
<1>15. ASSUME NEW b \in SampleBuffers, DecodeEnd(b) PROVE OpsOK'
  <2>0. OpOK(b) /\ op[b] \in Op /\ len[b] \in 0..Capacity
    BY DEF OpsOK, RefsTypeOK
  <2>1. ASSUME NEW c \in SampleBuffers, c # b PROVE OpOK(c)'
    <3>1. UNCHANGED << slot[c], op[c], len[c], handed[c] >>
      BY <1>15, <2>1 DEF RefsTypeOK, DecodeEnd
    <3>2. UNCHANGED cache
      BY <1>15 DEF DecodeEnd
    <3> QED BY <3>1, <3>2, OpFrame DEF OpsOK
  <2>2. op'[b] = [op[b] EXCEPT !.decoding = Nothing]
    BY <1>15 DEF RefsTypeOK, DecodeEnd
  <2>3. /\ op'[b].pc = op[b].pc
        /\ op'[b].n = op[b].n
        /\ op'[b].bound = op[b].bound
        /\ op'[b].invalidFirst = op[b].invalidFirst
        /\ op'[b].reader = op[b].reader
        /\ op'[b].decoding = Nothing
    BY <1>15, <2>2 DEF RefsTypeOK, Op, DecodeEnd
  <2>4. OpOK(b)'
    BY <1>15, <2>0, <2>3, SampleRefsAssumption DEF OpOK, Op, Locked, Slots, DecodeEnd
  <2> QED BY <2>1, <2>4 DEF OpsOK
<1>16. ASSUME NEW b \in SampleBuffers, Taken(b) PROVE OpsOK'
  <2>0. OpOK(b) /\ op[b] \in Op /\ len[b] \in 0..Capacity
    BY DEF OpsOK, RefsTypeOK
  <2>1. ASSUME NEW c \in SampleBuffers, c # b PROVE OpOK(c)'
    <3>1. UNCHANGED << slot[c], op[c], len[c], handed[c] >>
      BY <1>16, <2>1 DEF RefsTypeOK, Taken
    <3>2. op[c].pc = "taking" => cache'[op[c].reader] = cache[op[c].reader]
      BY <1>16, <2>1 DEF OpsOK, OpOK, Exclusive, Locked, RefsTypeOK, Taken
    <3> QED BY <3>1, <3>2, OpFrame DEF OpsOK
  <2>2. op'[b] = [op[b] EXCEPT !.pc = "copying"]
    BY <1>16 DEF RefsTypeOK, Taken
  <2>3. /\ op'[b].pc = "copying"
        /\ op'[b].n = op[b].n
        /\ op'[b].bound = op[b].bound
        /\ op'[b].invalidFirst = op[b].invalidFirst
        /\ op'[b].reader = op[b].reader
        /\ op'[b].decoding = op[b].decoding
    BY <1>16, <2>2 DEF RefsTypeOK, Op, Taken
  <2>4. OpOK(b)'
    BY <1>16, <2>0, <2>3, SampleRefsAssumption DEF OpOK, Op, Locked, Slots, Taken
  <2> QED BY <2>1, <2>4 DEF OpsOK
<1>17. ASSUME NEW b \in SampleBuffers, ConvertInvalid(b) PROVE OpsOK'
  <2>0. OpOK(b) /\ op[b] \in Op /\ len[b] \in 0..Capacity
    BY DEF OpsOK, RefsTypeOK
  <2>1. ASSUME NEW c \in SampleBuffers, c # b PROVE OpOK(c)'
    <3>1. UNCHANGED << slot[c], op[c], len[c], handed[c] >>
      BY <1>17, <2>1 DEF RefsTypeOK, ConvertInvalid
    <3>2. UNCHANGED cache
      BY <1>17 DEF ConvertInvalid
    <3> QED BY <3>1, <3>2, OpFrame DEF OpsOK
  <2>2. op'[b] = [op[b] EXCEPT !.n = op[b].n + 1, !.invalidFirst = @ \/ op[b].n + 1 = 1]
    BY <1>17 DEF RefsTypeOK, ConvertInvalid
  <2>3. /\ op'[b].pc = op[b].pc
        /\ op'[b].n = op[b].n + 1
        /\ op'[b].bound = op[b].bound
        /\ op'[b].reader = op[b].reader
        /\ op'[b].decoding = op[b].decoding
    BY <1>17, <2>2 DEF RefsTypeOK, Op, ConvertInvalid
  <2>4. op[b].n + 1 \in Slots
    BY <1>17, SampleRefsAssumption DEF RefsTypeOK, Op, Slots, ConvertInvalid
  <2>5. slot'[b] = [slot[b] EXCEPT ![op[b].n + 1] = Nothing]
    BY <1>17, <2>4 DEF RefsTypeOK, ConvertInvalid
  <2>6. OpOK(b)'
    BY SMTT(30), <1>17, <2>3, <2>4, <2>5, SampleRefsAssumption
       DEF OpsOK, OpOK, RefsTypeOK, Op, Locked, Slots, ConvertInvalid
  <2> QED BY <2>1, <2>6 DEF OpsOK
<1>18. ASSUME NEW b \in SampleBuffers, ReadEnd(b) PROVE OpsOK'
  <2>0. OpOK(b) /\ op[b] \in Op /\ len[b] \in 0..Capacity
    BY DEF OpsOK, RefsTypeOK
  <2>1. ASSUME NEW c \in SampleBuffers, c # b PROVE OpOK(c)'
    <3>1. UNCHANGED << slot[c], op[c], len[c], handed[c] >>
      BY <1>18, <2>1 DEF RefsTypeOK, ReadEnd
    <3>2. UNCHANGED cache
      BY <1>18 DEF ReadEnd
    <3> QED BY <3>1, <3>2, OpFrame DEF OpsOK
  <2>2. /\ op'[b] = Idle /\ UNCHANGED << len, slot, handed >>
        /\ op[b].pc \in {"copying", "pending"}
    BY <1>18 DEF RefsTypeOK, ReadEnd
  <2>3. OpOK(b)'
    BY <2>0, <2>2 DEF OpOK, Idle, Locked
  <2> QED BY <2>1, <2>3 DEF OpsOK
<1>19. ASSUME NEW b \in SampleBuffers, NoData(b) PROVE OpsOK'
  <2>0. OpOK(b) /\ op[b] \in Op /\ len[b] \in 0..Capacity
    BY DEF OpsOK, RefsTypeOK
  <2>1. ASSUME NEW c \in SampleBuffers, c # b PROVE OpOK(c)'
    <3>1. UNCHANGED << slot[c], op[c], len[c], handed[c] >>
      BY <1>19, <2>1 DEF RefsTypeOK, NoData
    <3>2. UNCHANGED cache
      BY <1>19 DEF NoData
    <3> QED BY <3>1, <3>2, OpFrame DEF OpsOK
  <2>2. \/ op'[b] = Idle
        \/ op'[b] = [Idle EXCEPT !.pc = "pending", !.reader = op[b].reader,
                                !.take = op[b].take]
    BY <1>19 DEF RefsTypeOK, NoData
  <2>3. /\ op'[b].pc \in {"idle", "pending"}
        /\ op'[b].n = 0 /\ op'[b].decoding = Nothing /\ op'[b].bound = 0
        /\ op'[b].pc = "pending" => op'[b].reader = op[b].reader
    BY <2>2, IdleTyped, IdleFields DEF Op
  <2>4. OpOK(b)'
    BY <1>19, <2>0, <2>3 DEF OpOK, Locked, NoData
  <2> QED BY <2>1, <2>4 DEF OpsOK
<1>20. ASSUME NEW b \in SampleBuffers, Poll(b) PROVE OpsOK'
  <2>0. OpOK(b) /\ op[b] \in Op /\ len[b] \in 0..Capacity
    BY DEF OpsOK, RefsTypeOK
  <2>1. ASSUME NEW c \in SampleBuffers, c # b PROVE OpOK(c)'
    <3>1. UNCHANGED << slot[c], op[c], len[c], handed[c] >>
      BY <1>20, <2>1 DEF RefsTypeOK, Poll
    <3>2. UNCHANGED cache
      BY <1>20 DEF Poll
    <3> QED BY <3>1, <3>2, OpFrame DEF OpsOK
  <2>2. op'[b] = [op[b] EXCEPT !.pc = "copying"]
    BY <1>20 DEF RefsTypeOK, Poll
  <2>3. /\ op'[b].pc = "copying"
        /\ op'[b].n = op[b].n
        /\ op'[b].bound = op[b].bound
        /\ op'[b].invalidFirst = op[b].invalidFirst
        /\ op'[b].reader = op[b].reader
        /\ op'[b].decoding = op[b].decoding
    BY <1>20, <2>2 DEF RefsTypeOK, Op, Poll
  <2>4. OpOK(b)'
    BY <1>20, <2>0, <2>3, SampleRefsAssumption DEF OpOK, Op, Locked, Slots, Poll
  <2> QED BY <2>1, <2>4 DEF OpsOK
<1>21. ASSUME NEW b \in SampleBuffers, Cancel(b) PROVE OpsOK'
  <2>0. OpOK(b) /\ op[b] \in Op /\ len[b] \in 0..Capacity
    BY DEF OpsOK, RefsTypeOK
  <2>1. ASSUME NEW c \in SampleBuffers, c # b PROVE OpOK(c)'
    <3>1. UNCHANGED << slot[c], op[c], len[c], handed[c] >>
      BY <1>21, <2>1 DEF RefsTypeOK, Cancel
    <3>2. UNCHANGED cache
      BY <1>21 DEF Cancel
    <3> QED BY <3>1, <3>2, OpFrame DEF OpsOK
  <2>2. /\ op'[b] = Idle /\ UNCHANGED << len, slot, handed >>
        /\ op[b].pc \in {"copying", "pending"}
    BY <1>21 DEF RefsTypeOK, Cancel
  <2>3. OpOK(b)'
    BY <2>0, <2>2 DEF OpOK, Idle, Locked
  <2> QED BY <2>1, <2>3 DEF OpsOK
<1>22. ASSUME NEW b \in SampleBuffers, CollectEnd(b) PROVE OpsOK'
  <2>0. OpOK(b) /\ op[b] \in Op /\ len[b] \in 0..Capacity
    BY DEF OpsOK, RefsTypeOK
  <2>1. ASSUME NEW c \in SampleBuffers, c # b PROVE OpOK(c)'
    <3>1. UNCHANGED << slot[c], op[c], len[c], handed[c] >>
      BY <1>22, <2>1 DEF RefsTypeOK, CollectEnd
    <3>2. UNCHANGED cache
      BY <1>22 DEF CollectEnd
    <3> QED BY <3>1, <3>2, OpFrame DEF OpsOK
  <2>2. UNCHANGED << len, slot, handed >> /\ op[b].pc = "collecting"
    BY <1>22 DEF CollectEnd
  <2>3. CASE handed[b] = << >>
    <3>1. op'[b] = Idle
      BY <1>22, <2>3 DEF RefsTypeOK, CollectEnd
    <3>2. OpOK(b)'
      BY <2>0, <2>2, <2>3, <3>1 DEF OpOK, Idle, Locked
    <3> QED BY <3>2, <2>1 DEF OpsOK
  <2>4. CASE handed[b] # << >>
    <3>1. op'[b] = [Idle EXCEPT !.pc = "binding"]
      BY <1>22, <2>4 DEF RefsTypeOK, CollectEnd
    <3>2. op'[b].pc = "binding" /\ op'[b].bound = 0 /\ op'[b].decoding = Nothing
      BY <3>1 DEF Idle
    <3>3. 0 < Len(handed[b])
      BY <2>4 DEF RefsTypeOK
    <3>4. OpOK(b)'
      BY <2>0, <2>2, <3>2, <3>3 DEF OpOK, Locked
    <3> QED BY <3>4, <2>1 DEF OpsOK
  <2> QED BY <2>3, <2>4
<1>23. ASSUME NEW b \in SampleBuffers, Bind(b) PROVE OpsOK'
  <2>0. OpOK(b) /\ op[b] \in Op /\ len[b] \in 0..Capacity
    BY DEF OpsOK, RefsTypeOK
  <2>1. ASSUME NEW c \in SampleBuffers, c # b PROVE OpOK(c)'
    <3>1. UNCHANGED << slot[c], op[c], len[c], handed[c] >>
      BY <1>23, <2>1 DEF RefsTypeOK, Bind, SetSerdata
    <3>2. UNCHANGED cache
      BY <1>23 DEF Bind
    <3> QED BY <3>1, <3>2, OpFrame DEF OpsOK
  <2> DEFINE i == op[b].bound + 1
             s == handed[b][i]
  <2>2. /\ i \in 1..Len(handed[b]) /\ i \in Slots /\ i <= len[b]
        /\ s \in Serdatas /\ op[b].decoding = Nothing /\ op[b].pc = "binding"
        /\ Len(handed[b]) <= len[b] /\ Len(handed[b]) \in Nat
    <3>1. op[b].pc = "binding" /\ handed[b] \in Seq(Serdatas)
      BY <1>23 DEF Bind, RefsTypeOK
    <3> QED BY <2>0, <3>1, Handing DEF OpOK
  <2>3. slot'[b] = [slot[b] EXCEPT ![i] = s] /\ UNCHANGED len
    BY <1>23, <2>2 DEF RefsTypeOK, Bind, SetSerdata
  <2>4. \A j \in Slots : j > len[b] => slot'[b][j] = Nothing
    BY <2>0, <2>2, <2>3 DEF OpOK, Slots, RefsTypeOK
  <2>5. CASE i = Len(handed[b])
    <3>1. op'[b] = Idle /\ handed'[b] = << >>
      BY <1>23, <2>5 DEF RefsTypeOK, Bind
    <3>2. OpOK(b)'
      BY <2>3, <2>4, <3>1 DEF OpOK, Idle, Locked
    <3> QED BY <3>2, <2>1 DEF OpsOK
  <2>6. CASE i # Len(handed[b])
    <3>1. op'[b] = [op[b] EXCEPT !.bound = i] /\ UNCHANGED handed
      BY <1>23, <2>6 DEF RefsTypeOK, Bind
    <3>2. op'[b].pc = "binding" /\ op'[b].bound = i /\ op'[b].decoding = Nothing
      BY <2>0, <2>2, <3>1 DEF Op
    <3>3. i < Len(handed[b])
      BY <2>2, <2>6
    <3>4. OpOK(b)'
      BY <2>2, <2>3, <2>4, <3>1, <3>2, <3>3 DEF OpOK, Locked
    <3> QED BY <3>4, <2>1 DEF OpsOK
  <2> QED BY <2>5, <2>6
<1>24. ASSUME NEW b \in SampleBuffers, ClearBegin(b) PROVE OpsOK'
  <2>0. OpOK(b) /\ op[b] \in Op /\ len[b] \in 0..Capacity
    BY DEF OpsOK, RefsTypeOK
  <2>1. ASSUME NEW c \in SampleBuffers, c # b PROVE OpOK(c)'
    <3>1. UNCHANGED << slot[c], op[c], len[c], handed[c] >>
      BY <1>24, <2>1 DEF RefsTypeOK, ClearBegin
    <3>2. UNCHANGED cache
      BY <1>24 DEF ClearBegin
    <3> QED BY <3>1, <3>2, OpFrame DEF OpsOK
  <2>2. op'[b] = [op[b] EXCEPT !.pc = "clearing"]
    BY <1>24 DEF RefsTypeOK, ClearBegin
  <2>3. /\ op'[b].pc = "clearing"
        /\ op'[b].n = op[b].n
        /\ op'[b].bound = op[b].bound
        /\ op'[b].invalidFirst = op[b].invalidFirst
        /\ op'[b].reader = op[b].reader
        /\ op'[b].decoding = op[b].decoding
    BY <1>24, <2>2 DEF RefsTypeOK, Op, ClearBegin
  <2>4. OpOK(b)'
    BY <1>24, <2>0, <2>3, SampleRefsAssumption DEF OpOK, Op, Locked, Slots, ClearBegin
  <2> QED BY <2>1, <2>4 DEF OpsOK
<1>25. ASSUME NEW b \in SampleBuffers, FreeContents(b) PROVE OpsOK'
  <2>0. OpOK(b) /\ op[b] \in Op /\ len[b] \in 0..Capacity
    BY DEF OpsOK, RefsTypeOK
  <2>1. ASSUME NEW c \in SampleBuffers, c # b PROVE OpOK(c)'
    <3>1. UNCHANGED << slot[c], op[c], len[c], handed[c] >>
      BY <1>25, <2>1 DEF RefsTypeOK, FreeContents
    <3>2. UNCHANGED cache
      BY <1>25 DEF FreeContents
    <3> QED BY <3>1, <3>2, OpFrame DEF OpsOK
  <2> DEFINE i == op[b].n + 1
  <2>2. /\ i \in Slots /\ i <= len[b] /\ op[b].decoding = Nothing
        /\ op[b].bound = 0 /\ handed[b] = << >> /\ len[b] \in 0..Capacity
    BY <1>25, <2>0, SampleRefsAssumption DEF OpOK, Op, Slots, FreeContents
  <2>3. slot'[b] = [slot[b] EXCEPT ![i] = Nothing] /\ UNCHANGED << len, handed >>
    BY <1>25, <2>2 DEF RefsTypeOK, FreeContents
  <2>4. \A j \in Slots : j > len[b] => slot'[b][j] = Nothing
    BY <2>2, <2>3 DEF OpsOK, OpOK, RefsTypeOK
  <2>5. CASE i = len[b]
    <3>1. op'[b] = Idle
      BY <1>25, <2>5 DEF RefsTypeOK, FreeContents
    <3>2. OpOK(b)'
      BY <3>1, <2>2, <2>3, <2>4 DEF OpOK, Idle, Locked
    <3> QED BY <3>2, <2>1 DEF OpsOK
  <2>6. CASE i # len[b]
    <3>1. op'[b] = [op[b] EXCEPT !.n = i]
      BY <1>25, <2>6 DEF RefsTypeOK, FreeContents
    <3>2. /\ op'[b].pc = "clearing" /\ op'[b].n = i /\ op'[b].decoding = Nothing
          /\ op'[b].bound = 0
      BY <1>25, <2>2, <3>1 DEF RefsTypeOK, Op, FreeContents
    <3>3. OpOK(b)'
      BY <2>2, <2>3, <2>4, <2>6, <3>2 DEF OpOK, Locked, Slots
    <3> QED BY <3>3, <2>1 DEF OpsOK
  <2> QED BY <2>5, <2>6
<1>26. ASSUME NEW b \in SampleBuffers, NEW i \in Slots, Forward(b, i) PROVE OpsOK'
  BY <1>26, OpFrame DEF OpsOK, Forward
<1>27. CASE UNCHANGED refsVars
  BY <1>27, OpFrame DEF refsVars, coreVars, OpsOK
<1> QED BY <1>1, <1>2, <1>3, <1>4, <1>5, <1>6, <1>7, <1>8, <1>9, <1>10,
         <1>11, <1>12, <1>13, <1>14, <1>15, <1>16, <1>17, <1>18, <1>19,
         <1>20, <1>21, <1>22, <1>23, <1>24, <1>25, <1>26, <1>27 DEF RefsNext,
         Core, Read, Use

(* A lock is only taken when nobody holds it. *)
LEMMA ExclusiveStep ==
  ASSUME RefsTypeOK, Exclusive, [RefsNext]_refsVars
  PROVE  Exclusive'
<1>1. ASSUME NEW s \in Serdatas, Write(s) PROVE Exclusive'
  BY <1>1 DEF Exclusive, Write, Made
<1>2. ASSUME NEW s \in Serdatas, Receive(s) PROVE Exclusive'
  BY <1>2 DEF Exclusive, Receive, Made, Corrupt, Uninitialized
<1>3. ASSUME NEW s \in Serdatas, Delivered(s) PROVE Exclusive'
  BY <1>3 DEF Exclusive, Delivered
<1>4. ASSUME NEW s \in Serdatas, Acknowledged(s) PROVE Exclusive'
  BY <1>4 DEF Exclusive, Acknowledged
<1>5. ASSUME NEW s \in Serdatas, NEW r \in Readers, Deliver(s, r) PROVE
      Exclusive'
  BY <1>5 DEF Exclusive, Deliver
<1>6. ASSUME NEW s \in Serdatas, NEW r \in Readers, Evict(s, r) PROVE
      Exclusive'
  BY <1>6 DEF Exclusive, Evict
<1>7. ASSUME NEW s \in Serdatas, NEW f \in Fragments, ToSerRef(s, f) PROVE
      Exclusive'
  BY <1>7 DEF Exclusive, ToSerRef
<1>8. ASSUME NEW s \in Serdatas, NEW f \in Fragments, ToSerUnref(s, f) PROVE
      Exclusive'
  BY <1>8 DEF Exclusive, ToSerUnref
<1>9. ASSUME NEW b \in SampleBuffers, NEW r \in Readers, ReadBegin(b, r) PROVE
      Exclusive'
  <2>1. \A c \in SampleBuffers : c # b => op'[c] = op[c]
    BY <1>9 DEF RefsTypeOK, ReadBegin, Begin
  <2>2. op'[b].reader = r /\ CacheFree(r)
    BY <1>9 DEF RefsTypeOK, Idle, ReadBegin, Begin
  <2> QED BY <2>1, <2>2 DEF Exclusive, CacheFree, Locked
<1>10. ASSUME NEW b \in SampleBuffers, NEW r \in Readers, ReadCdrBegin(b, r) PROVE
      Exclusive'
  <2>1. \A c \in SampleBuffers : c # b => op'[c] = op[c]
    BY <1>10 DEF RefsTypeOK, ReadCdrBegin, Begin
  <2>2. op'[b].reader = r /\ CacheFree(r)
    BY <1>10 DEF RefsTypeOK, Idle, ReadCdrBegin, Begin
  <2> QED BY <2>1, <2>2 DEF Exclusive, CacheFree, Locked
<1>11. ASSUME NEW b \in SampleBuffers, NEW s \in Serdatas, DecodeBegin(b, s) PROVE
      Exclusive'
  <2>1. \A c \in SampleBuffers : c # b => op'[c] = op[c]
    BY <1>11 DEF RefsTypeOK, DecodeBegin
  <2>2. op'[b].pc \in Locked => op[b].pc \in Locked /\ op'[b].reader = op[b].reader
    BY <1>11 DEF RefsTypeOK, Op, Idle, Locked, DecodeBegin
  <2> QED BY <2>1, <2>2 DEF Exclusive
<1>12. ASSUME NEW b \in SampleBuffers, NEW s \in Serdatas, Convert(b, s) PROVE
      Exclusive'
  <2>1. \A c \in SampleBuffers : c # b => op'[c] = op[c]
    BY <1>12 DEF RefsTypeOK, Convert
  <2>2. op'[b].pc \in Locked => op[b].pc \in Locked /\ op'[b].reader = op[b].reader
    BY <1>12 DEF RefsTypeOK, Op, Idle, Locked, Convert
  <2> QED BY <2>1, <2>2 DEF Exclusive
<1>13. ASSUME NEW b \in SampleBuffers, NEW s \in Serdatas, ReadFails(b, s) PROVE
      Exclusive'
  <2>1. \A c \in SampleBuffers : c # b => op'[c] = op[c]
    BY <1>13 DEF RefsTypeOK, ReadFails
  <2>2. op'[b].pc \in Locked => op[b].pc \in Locked /\ op'[b].reader = op[b].reader
    BY <1>13 DEF RefsTypeOK, Op, Idle, Locked, ReadFails
  <2> QED BY <2>1, <2>2 DEF Exclusive
<1>14. ASSUME NEW b \in SampleBuffers, NEW s \in Serdatas, Collect(b, s) PROVE
      Exclusive'
  <2>1. \A c \in SampleBuffers : c # b => op'[c] = op[c]
    BY <1>14 DEF RefsTypeOK, Collect
  <2>2. op'[b].pc \in Locked => op[b].pc \in Locked /\ op'[b].reader = op[b].reader
    BY <1>14 DEF RefsTypeOK, Op, Idle, Locked, Collect
  <2> QED BY <2>1, <2>2 DEF Exclusive
<1>15. ASSUME NEW b \in SampleBuffers, DecodeEnd(b) PROVE Exclusive'
  <2>1. \A c \in SampleBuffers : c # b => op'[c] = op[c]
    BY <1>15 DEF RefsTypeOK, DecodeEnd
  <2>2. op'[b].pc \in Locked => op[b].pc \in Locked /\ op'[b].reader = op[b].reader
    BY <1>15 DEF RefsTypeOK, Op, Idle, Locked, DecodeEnd
  <2> QED BY <2>1, <2>2 DEF Exclusive
<1>16. ASSUME NEW b \in SampleBuffers, Taken(b) PROVE Exclusive'
  <2>1. \A c \in SampleBuffers : c # b => op'[c] = op[c]
    BY <1>16 DEF RefsTypeOK, Taken
  <2>2. op'[b].pc \in Locked => op[b].pc \in Locked /\ op'[b].reader = op[b].reader
    BY <1>16 DEF RefsTypeOK, Op, Idle, Locked, Taken
  <2> QED BY <2>1, <2>2 DEF Exclusive
<1>17. ASSUME NEW b \in SampleBuffers, ConvertInvalid(b) PROVE Exclusive'
  <2>1. \A c \in SampleBuffers : c # b => op'[c] = op[c]
    BY <1>17 DEF RefsTypeOK, ConvertInvalid
  <2>2. op'[b].pc \in Locked => op[b].pc \in Locked /\ op'[b].reader = op[b].reader
    BY <1>17 DEF RefsTypeOK, Op, Idle, Locked, ConvertInvalid
  <2> QED BY <2>1, <2>2 DEF Exclusive
<1>18. ASSUME NEW b \in SampleBuffers, ReadEnd(b) PROVE Exclusive'
  <2>1. \A c \in SampleBuffers : c # b => op'[c] = op[c]
    BY <1>18 DEF RefsTypeOK, ReadEnd
  <2>2. op'[b].pc \in Locked => op[b].pc \in Locked /\ op'[b].reader = op[b].reader
    BY <1>18 DEF RefsTypeOK, Op, Idle, Locked, ReadEnd
  <2> QED BY <2>1, <2>2 DEF Exclusive
<1>19. ASSUME NEW b \in SampleBuffers, NoData(b) PROVE Exclusive'
  <2>1. \A c \in SampleBuffers : c # b => op'[c] = op[c]
    BY <1>19 DEF RefsTypeOK, NoData
  <2>2. \/ op'[b] = Idle
        \/ op'[b] = [Idle EXCEPT !.pc = "pending", !.reader = op[b].reader,
                                !.take = op[b].take]
    BY <1>19 DEF RefsTypeOK, NoData
  <2>3. op'[b].pc \notin Locked
    BY ZenonT(40), <1>19, <2>2, IdleTyped, IdleFields DEF RefsTypeOK, Op, Locked, NoData
  <2> QED BY <2>1, <2>3 DEF Exclusive
<1>20. ASSUME NEW b \in SampleBuffers, Poll(b) PROVE Exclusive'
  <2>1. \A c \in SampleBuffers : c # b => op'[c] = op[c]
    BY <1>20 DEF RefsTypeOK, Poll
  <2>2. op'[b].reader = op[b].reader /\ CacheFree(op[b].reader)
    BY <1>20 DEF RefsTypeOK, Op, Poll
  <2> QED BY <2>1, <2>2 DEF Exclusive, CacheFree, Locked
<1>21. ASSUME NEW b \in SampleBuffers, Cancel(b) PROVE Exclusive'
  <2>1. \A c \in SampleBuffers : c # b => op'[c] = op[c]
    BY <1>21 DEF RefsTypeOK, Cancel
  <2>2. op'[b].pc \in Locked => op[b].pc \in Locked /\ op'[b].reader = op[b].reader
    BY <1>21 DEF RefsTypeOK, Op, Idle, Locked, Cancel
  <2> QED BY <2>1, <2>2 DEF Exclusive
<1>22. ASSUME NEW b \in SampleBuffers, CollectEnd(b) PROVE Exclusive'
  <2>1. \A c \in SampleBuffers : c # b => op'[c] = op[c]
    BY <1>22 DEF RefsTypeOK, CollectEnd
  <2>2. op'[b].pc \in Locked => op[b].pc \in Locked /\ op'[b].reader = op[b].reader
    BY <1>22 DEF RefsTypeOK, Op, Idle, Locked, CollectEnd
  <2> QED BY <2>1, <2>2 DEF Exclusive
<1>23. ASSUME NEW b \in SampleBuffers, Bind(b) PROVE Exclusive'
  <2>1. \A c \in SampleBuffers : c # b => op'[c] = op[c]
    BY <1>23 DEF RefsTypeOK, Bind
  <2>2. \/ op'[b] = Idle
        \/ op'[b] = [op[b] EXCEPT !.bound = op[b].bound + 1]
    BY <1>23 DEF RefsTypeOK, Bind
  <2>3. op'[b].pc \notin Locked
    BY <1>23, <2>2, IdleTyped, IdleFields DEF RefsTypeOK, Op, Locked, Bind
  <2> QED BY <2>1, <2>3 DEF Exclusive
<1>24. ASSUME NEW b \in SampleBuffers, ClearBegin(b) PROVE Exclusive'
  <2>1. \A c \in SampleBuffers : c # b => op'[c] = op[c]
    BY <1>24 DEF RefsTypeOK, ClearBegin
  <2>2. op'[b].pc \in Locked => op[b].pc \in Locked /\ op'[b].reader = op[b].reader
    BY <1>24 DEF RefsTypeOK, Op, Idle, Locked, ClearBegin
  <2> QED BY <2>1, <2>2 DEF Exclusive
<1>25. ASSUME NEW b \in SampleBuffers, FreeContents(b) PROVE Exclusive'
  <2>1. \A c \in SampleBuffers : c # b => op'[c] = op[c]
    BY <1>25 DEF RefsTypeOK, FreeContents
  <2>2. op'[b].pc \in Locked => op[b].pc \in Locked /\ op'[b].reader = op[b].reader
    BY <1>25 DEF RefsTypeOK, Op, Idle, Locked, FreeContents
  <2> QED BY <2>1, <2>2 DEF Exclusive
<1>26. ASSUME NEW b \in SampleBuffers, NEW i \in Slots, Forward(b, i) PROVE
      Exclusive'
  BY <1>26 DEF Exclusive, Forward
<1>27. CASE UNCHANGED refsVars
  BY <1>27 DEF refsVars, Exclusive
<1> QED BY <1>1, <1>2, <1>3, <1>4, <1>5, <1>6, <1>7, <1>8, <1>9, <1>10,
         <1>11, <1>12, <1>13, <1>14, <1>15, <1>16, <1>17, <1>18, <1>19,
         <1>20, <1>21, <1>22, <1>23, <1>24, <1>25, <1>26, <1>27 DEF RefsNext,
         Core, Read, Use

---------------------------------------------------------------------------
(* Counting: a step gives one serdata a holder or takes one from it *)

LEMMA Gain ==
  ASSUME Counted, RefsTypeOK, NEW s \in Serdatas, NEW h,
         Holders(s)' = Holders(s) \cup {h}, h \notin Holders(s),
         \A t \in Serdatas \ {s} : Holders(t)' = Holders(t),
         mem[s] = "live", refc' = [refc EXCEPT ![s] = @ + 1],
         UNCHANGED << mem, lost >>
  PROVE  Counted'
<1>1. /\ IsFiniteSet(Holders(s)) /\ refc[s] = Cardinality(Holders(s)) + lost[s]
      /\ lost[s] \in Nat
  BY DEF Counted, RefsTypeOK
<1>2. /\ IsFiniteSet(Holders(s)') /\ Holders(s)' # {}
      /\ Cardinality(Holders(s)') = Cardinality(Holders(s)) + 1
      /\ Cardinality(Holders(s)) \in Nat
  BY <1>1, FS_AddElement, FS_CardinalityType
<1>3. refc'[s] = refc[s] + 1 /\ \A t \in Serdatas \ {s} : refc'[t] = refc[t]
  BY DEF RefsTypeOK
<1>4. refc'[s] = Cardinality(Holders(s)') + lost[s]
  BY <1>1, <1>2, <1>3
<1> QED BY <1>2, <1>3, <1>4 DEF Counted

LEMMA FirstHolder ==
  ASSUME Counted, RefsTypeOK, NEW s \in Serdatas, NEW h,
         Holders(s)' = Holders(s) \cup {h},
         \A t \in Serdatas \ {s} : Holders(t)' = Holders(t),
         mem[s] = "none", mem' = [mem EXCEPT ![s] = "live"],
         refc' = [refc EXCEPT ![s] = 1], UNCHANGED lost
  PROVE  Counted'
<1>1. Holders(s) = {} /\ lost[s] = 0
  BY DEF Counted
<1>2. IsFiniteSet({h}) /\ Cardinality({h}) = 1
  BY FS_Singleton
<1>3. Holders(s)' = {h}
  BY <1>1
<1>4. /\ refc'[s] = 1 /\ mem'[s] = "live"
      /\ \A t \in Serdatas \ {s} : refc'[t] = refc[t] /\ mem'[t] = mem[t]
  BY DEF RefsTypeOK
<1>5. refc'[s] = Cardinality(Holders(s)') + lost'[s]
  BY <1>1, <1>2, <1>3, <1>4
<1> QED BY <1>2, <1>3, <1>4, <1>5 DEF Counted

LEMMA Loss ==
  ASSUME Counted, RefsTypeOK, NEW s \in Serdatas, NEW h,
         Holders(s)' = Holders(s) \ {h}, h \in Holders(s),
         \A t \in Serdatas \ {s} : Holders(t)' = Holders(t),
         Removeref(s), UNCHANGED lost
  PROVE  Counted'
<1>1. /\ mem[s] = "live" /\ IsFiniteSet(Holders(s))
      /\ refc[s] = Cardinality(Holders(s)) + lost[s]
      /\ lost[s] \in Nat
  BY DEF Counted, RefsTypeOK
<1>2. /\ IsFiniteSet(Holders(s)')
      /\ Cardinality(Holders(s)') = Cardinality(Holders(s)) - 1
      /\ Cardinality(Holders(s)') \in Nat /\ Cardinality(Holders(s)) \in Nat
  BY <1>1, FS_RemoveElement, FS_CardinalityType
<1>3. /\ refc'[s] = refc[s] - 1
      /\ mem'[s] = IF refc[s] = 1 THEN "freed" ELSE "live"
      /\ \A t \in Serdatas \ {s} : refc'[t] = refc[t] /\ mem'[t] = mem[t]
  BY <1>1 DEF RefsTypeOK, Removeref
<1>4. refc'[s] = Cardinality(Holders(s)') + lost'[s]
  BY <1>1, <1>2, <1>3
<1>5. refc[s] = 1 => Holders(s)' = {}
  <2>1. refc[s] = 1 => Cardinality(Holders(s)') = 0
    BY <1>1, <1>2
  <2> QED BY <1>2, <2>1, FS_EmptySet
<1>6. refc[s] # 1 /\ lost'[s] = 0 => Holders(s)' # {}
  <2>1. refc[s] # 1 /\ lost'[s] = 0 => Cardinality(Holders(s)') # 0
    BY <1>1, <1>2
  <2> QED BY <2>1, FS_EmptySet
<1>7. ASSUME NEW t \in Serdatas \ {s}
      PROVE  /\ Holders(t)' = Holders(t) /\ refc'[t] = refc[t]
             /\ mem'[t] = mem[t] /\ lost'[t] = lost[t]
  BY <1>3
<1> QED BY ZenonT(40), <1>2, <1>3, <1>4, <1>5, <1>6, <1>7 DEF Counted

LEMMA NoChange ==
  ASSUME Counted, \A t \in Serdatas : Holders(t)' = Holders(t),
         UNCHANGED << mem, refc, lost >>
  PROVE  Counted'
BY DEF Counted

(* Moving a holder from one place to another counts nothing. *)
LEMMA Moved ==
  ASSUME Counted, RefsTypeOK, NEW s \in Serdatas, NEW g, NEW h,
         Holders(s)' = (Holders(s) \ {g}) \cup {h},
         g \in Holders(s), h \notin Holders(s)
  PROVE  /\ IsFiniteSet(Holders(s)') /\ Holders(s)' # {}
         /\ Cardinality(Holders(s)') + lost[s] = refc[s]
         /\ refc[s] \in Int /\ lost[s] \in Nat
         /\ Cardinality(Holders(s)') \in Nat
<1>1. /\ mem[s] = "live" /\ IsFiniteSet(Holders(s)) /\ lost[s] \in Nat
      /\ refc[s] = Cardinality(Holders(s)) + lost[s] /\ refc[s] \in Int
  BY DEF Counted, RefsTypeOK
<1>2. /\ IsFiniteSet(Holders(s) \ {g}) /\ Cardinality(Holders(s)) \in Nat
      /\ Cardinality(Holders(s) \ {g}) = Cardinality(Holders(s)) - 1
  BY <1>1, FS_RemoveElement, FS_CardinalityType
<1>3. /\ IsFiniteSet(Holders(s)')
      /\ Cardinality(Holders(s)') = Cardinality(Holders(s) \ {g}) + 1
  BY <1>2, FS_AddElement
<1>4. Cardinality(Holders(s)') = Cardinality(Holders(s))
  BY <1>2, <1>3
<1> QED BY <1>1, <1>2, <1>3, <1>4

(* set_serdata gives s a holder; the box of an old sample that nobody else  *)
(* refers to goes.                                                          *)
LEMMA Exchanged ==
  ASSUME Counted, NEW s \in Serdatas,
         IsFiniteSet(Holders(s)'), Holders(s)' # {}, mem'[s] = "live",
         refc'[s] = Cardinality(Holders(s)') + lost'[s],
         \A t \in Serdatas \ {s} :
           /\ refc'[t] = refc[t] /\ lost'[t] = lost[t]
           /\ \/ Holders(t)' = Holders(t) /\ mem'[t] = mem[t]
              \/ Holders(t)' = {} /\ mem'[t] = "freed"
  PROVE  Counted'
<1>1. ASSUME NEW t \in Serdatas \ {s}
      PROVE  /\ IsFiniteSet(Holders(t)')
             /\ mem'[t] = "live" => refc'[t] = Cardinality(Holders(t)') + lost'[t]
             /\ mem'[t] = "live" /\ lost'[t] = 0 => Holders(t)' # {}
             /\ mem'[t] # "live" => Holders(t)' = {}
             /\ mem'[t] = "none" => refc'[t] = 0 /\ lost'[t] = 0
  <2>1. CASE Holders(t)' = Holders(t) /\ mem'[t] = mem[t]
    BY <2>1 DEF Counted
  <2>2. CASE Holders(t)' = {} /\ mem'[t] = "freed"
    BY <2>2, FS_EmptySet
  <2> QED BY <2>1, <2>2
<1> QED BY <1>1 DEF Counted

---------------------------------------------------------------------------
(* The holders are of five kinds, which nothing mistakes for each other *)

LEMMA Kinds ==
  ASSUME NEW s
  PROVE  /\ \A h : h \in InCore(s) <=>
              \/ s \in incoming /\ h = << "incoming", Nothing, 0 >>
              \/ s \in sent /\ h = << "sent", Nothing, 0 >>
         /\ \A h : h \in OnWire(s) <=>
              \E f \in Fragments : << s, f >> \in wire /\ h = << "wire", f, 0 >>
         /\ \A h : h \in Cached(s) <=>
              \E r \in Readers : s \in cache[r] /\ h = << "cache", r, 0 >>
         /\ \A h : h \in InSlots(s) <=>
              \E b \in SampleBuffers, i \in Slots :
                slot[b][i] = s /\ h = << "slot", b, i >>
         /\ \A h : h \in HandedOut(s) <=>
              \E b \in SampleBuffers : \E k \in op[b].bound + 1..Len(handed[b]) :
                handed[b][k] = s /\ h = << "handed", b, k >>
BY DEF InCore, OnWire, Cached, InSlots, HandedOut

(* The pointers a CDR read has not bound yet are the same. *)
HandedKept == \A t \in Serdatas : HandedOut(t)' = HandedOut(t)

LEMMA HandedFrame ==
  ASSUME UNCHANGED handed, \A b \in SampleBuffers : op'[b].bound = op[b].bound
  PROVE  HandedKept
BY DEF HandedKept, HandedOut

LEMMA Disjoint ==
  ASSUME NEW s
  PROVE  /\ \A h \in InCore(s) : h[1] \in {"incoming", "sent"}
         /\ \A h \in OnWire(s) : h[1] = "wire"
         /\ \A h \in Cached(s) : h[1] = "cache"
         /\ \A h \in InSlots(s) : h[1] = "slot"
         /\ \A h \in HandedOut(s) : h[1] = "handed"
<1>1. \A h \in InCore(s) : h[1] \in {"incoming", "sent"}
  BY Kinds
<1>2. \A h \in OnWire(s) : h[1] = "wire"
  <2>1. ASSUME NEW h \in OnWire(s) PROVE \E f : h = << "wire", f, 0 >>
    BY DEF OnWire
  <2> QED BY <2>1
<1>3. \A h \in Cached(s) : h[1] = "cache"
  BY Kinds
<1>4. \A h \in InSlots(s) : h[1] = "slot"
  BY Kinds
<1>5. \A h \in HandedOut(s) : h[1] = "handed"
  BY Kinds
<1> QED BY <1>1, <1>2, <1>3, <1>4, <1>5

(* A serdata enters or leaves the core. *)
LEMMA IncomingChange ==
  ASSUME NEW s \in Serdatas, UNCHANGED << sent, wire, cache, slot >>, HandedKept
  PROVE  /\ incoming' = incoming \cup {s} =>
              Holders(s)' = Holders(s) \cup {<< "incoming", Nothing, 0 >>}
         /\ s \in incoming /\ incoming' = incoming \ {s} =>
              /\ << "incoming", Nothing, 0 >> \in Holders(s)
              /\ Holders(s)' = Holders(s) \ {<< "incoming", Nothing, 0 >>}
         /\ incoming' \in {incoming \cup {s}, incoming \ {s}} =>
              \A t \in Serdatas \ {s} : Holders(t)' = Holders(t)
<1> DEFINE h == << "incoming", Nothing, 0 >>
<1>1. /\ \A t : OnWire(t)' = OnWire(t) /\ Cached(t)' = Cached(t)
      /\ \A t : InSlots(t)' = InSlots(t)
      /\ \A t \in Serdatas : HandedOut(t)' = HandedOut(t)
  BY DEF OnWire, Cached, InSlots, HandedKept
<1>2. h \notin OnWire(s) \cup Cached(s) \cup InSlots(s) \cup HandedOut(s)
  BY Disjoint
<1>3. incoming' = incoming \cup {s} => InCore(s)' = InCore(s) \cup {h}
  BY DEF InCore
<1>4. s \in incoming /\ incoming' = incoming \ {s} =>
        h \in InCore(s) /\ InCore(s)' = InCore(s) \ {h}
  <2>1. << "sent", Nothing, 0 >> # h
    OBVIOUS
  <2> QED BY <2>1 DEF InCore
<1>5. incoming' \in {incoming \cup {s}, incoming \ {s}} =>
        \A t \in Serdatas \ {s} : InCore(t)' = InCore(t)
  BY DEF InCore
<1> QED BY <1>1, <1>2, <1>3, <1>4, <1>5 DEF Holders

LEMMA SentChange ==
  ASSUME NEW s \in Serdatas, UNCHANGED << incoming, wire, cache, slot >>, HandedKept
  PROVE  /\ s \notin sent /\ sent' = sent \cup {s} =>
              /\ << "sent", Nothing, 0 >> \notin Holders(s)
              /\ Holders(s)' = Holders(s) \cup {<< "sent", Nothing, 0 >>}
         /\ s \in sent /\ sent' = sent \ {s} =>
              /\ << "sent", Nothing, 0 >> \in Holders(s)
              /\ Holders(s)' = Holders(s) \ {<< "sent", Nothing, 0 >>}
         /\ sent' \in {sent \cup {s}, sent \ {s}} =>
              \A t \in Serdatas \ {s} : Holders(t)' = Holders(t)
<1> DEFINE h == << "sent", Nothing, 0 >>
<1>1. /\ \A t : OnWire(t)' = OnWire(t) /\ Cached(t)' = Cached(t)
      /\ \A t : InSlots(t)' = InSlots(t)
      /\ \A t \in Serdatas : HandedOut(t)' = HandedOut(t)
  BY DEF OnWire, Cached, InSlots, HandedKept
<1>2. h \notin OnWire(s) \cup Cached(s) \cup InSlots(s) \cup HandedOut(s)
  BY Disjoint
<1>3. << "incoming", Nothing, 0 >> # h
  OBVIOUS
<1>4. s \notin sent /\ sent' = sent \cup {s} =>
        h \notin InCore(s) /\ InCore(s)' = InCore(s) \cup {h}
  BY <1>3 DEF InCore
<1>5. s \in sent /\ sent' = sent \ {s} =>
        h \in InCore(s) /\ InCore(s)' = InCore(s) \ {h}
  BY <1>3 DEF InCore
<1>6. sent' \in {sent \cup {s}, sent \ {s}} =>
        \A t \in Serdatas \ {s} : InCore(t)' = InCore(t)
  BY DEF InCore
<1> QED BY <1>1, <1>2, <1>4, <1>5, <1>6 DEF Holders

(* A fragment is lent or comes back. *)
LEMMA WireChange ==
  ASSUME RefsTypeOK, NEW s \in Serdatas, NEW f \in Fragments,
         UNCHANGED << incoming, sent, cache, slot >>, HandedKept
  PROVE  /\ << s, f >> \notin wire /\ wire' = wire \cup {<< s, f >>} =>
              /\ << "wire", f, 0 >> \notin Holders(s)
              /\ Holders(s)' = Holders(s) \cup {<< "wire", f, 0 >>}
         /\ << s, f >> \in wire /\ wire' = wire \ {<< s, f >>} =>
              /\ << "wire", f, 0 >> \in Holders(s)
              /\ Holders(s)' = Holders(s) \ {<< "wire", f, 0 >>}
         /\ wire' \in {wire \cup {<< s, f >>}, wire \ {<< s, f >>}} =>
              \A t \in Serdatas \ {s} : Holders(t)' = Holders(t)
<1> DEFINE h == << "wire", f, 0 >>
<1>1. /\ \A t : InCore(t)' = InCore(t) /\ Cached(t)' = Cached(t)
      /\ \A t : InSlots(t)' = InSlots(t)
      /\ \A t \in Serdatas : HandedOut(t)' = HandedOut(t)
  BY DEF InCore, Cached, InSlots, HandedKept
<1>2. h \notin InCore(s) \cup Cached(s) \cup InSlots(s) \cup HandedOut(s)
  BY Disjoint
<1>3. << s, f >> \notin wire /\ wire' = wire \cup {<< s, f >>} =>
        h \notin OnWire(s) /\ OnWire(s)' = OnWire(s) \cup {h}
  BY DEF OnWire
<1>4. << s, f >> \in wire /\ wire' = wire \ {<< s, f >>} =>
        h \in OnWire(s) /\ OnWire(s)' = OnWire(s) \ {h}
  <2>1. SUFFICES ASSUME << s, f >> \in wire, wire' = wire \ {<< s, f >>}
                 PROVE  h \in OnWire(s) /\ OnWire(s)' = OnWire(s) \ {h}
    OBVIOUS
  <2>2. \A g \in Fragments : << s, g >> \in wire' <=> << s, g >> \in wire /\ g # f
    BY <2>1
  <2>3. OnWire(s)' = OnWire(s) \ {h}
    <3>1. \A g \in Fragments : << "wire", g, 0 >> = h <=> g = f
      OBVIOUS
    <3> QED BY <2>2, <3>1 DEF OnWire
  <2> QED BY <2>1, <2>3 DEF OnWire
<1>5. wire' \in {wire \cup {<< s, f >>}, wire \ {<< s, f >>}} =>
        \A t \in Serdatas \ {s} : OnWire(t)' = OnWire(t)
  BY DEF OnWire
<1> QED BY <1>1, <1>2, <1>3, <1>4, <1>5 DEF Holders

(* A cache takes a serdata in or gives it up. *)
LEMMA CachedChange ==
  ASSUME RefsTypeOK, NEW s \in Serdatas, NEW r \in Readers
  PROVE  /\ s \notin cache[r] /\ cache' = [cache EXCEPT ![r] = @ \cup {s}] =>
              /\ << "cache", r, 0 >> \notin Cached(s)
              /\ Cached(s)' = Cached(s) \cup {<< "cache", r, 0 >>}
              /\ \A t \in Serdatas \ {s} : Cached(t)' = Cached(t)
         /\ s \in cache[r] /\ cache' = [cache EXCEPT ![r] = @ \ {s}] =>
              /\ << "cache", r, 0 >> \in Cached(s)
              /\ Cached(s)' = Cached(s) \ {<< "cache", r, 0 >>}
              /\ \A t \in Serdatas \ {s} : Cached(t)' = Cached(t)
<1>1. ASSUME s \notin cache[r], cache' = [cache EXCEPT ![r] = @ \cup {s}]
      PROVE  /\ << "cache", r, 0 >> \notin Cached(s)
             /\ Cached(s)' = Cached(s) \cup {<< "cache", r, 0 >>}
             /\ \A t \in Serdatas \ {s} : Cached(t)' = Cached(t)
  <2>1. /\ cache'[r] = cache[r] \cup {s}
        /\ \A q \in Readers : q # r => cache'[q] = cache[q]
    BY <1>1 DEF RefsTypeOK
  <2>2. << "cache", r, 0 >> \notin Cached(s)
    BY <1>1 DEF Cached
  <2>3. Cached(s)' = Cached(s) \cup {<< "cache", r, 0 >>}
    BY <2>1 DEF Cached
  <2>4. \A t \in Serdatas \ {s} : Cached(t)' = Cached(t)
    BY <2>1 DEF Cached
  <2> QED BY <2>2, <2>3, <2>4
<1>2. ASSUME s \in cache[r], cache' = [cache EXCEPT ![r] = @ \ {s}]
      PROVE  /\ << "cache", r, 0 >> \in Cached(s)
             /\ Cached(s)' = Cached(s) \ {<< "cache", r, 0 >>}
             /\ \A t \in Serdatas \ {s} : Cached(t)' = Cached(t)
  <2>1. /\ cache'[r] = cache[r] \ {s}
        /\ \A q \in Readers : q # r => cache'[q] = cache[q]
    BY <1>2 DEF RefsTypeOK
  <2>2. << "cache", r, 0 >> \in Cached(s)
    BY <1>2 DEF Cached
  <2>3. Cached(s)' = Cached(s) \ {<< "cache", r, 0 >>}
    BY <2>1 DEF Cached
  <2>4. \A t \in Serdatas \ {s} : Cached(t)' = Cached(t)
    BY <2>1 DEF Cached
  <2> QED BY <2>2, <2>3, <2>4
<1> QED BY <1>1, <1>2

LEMMA CacheChange ==
  ASSUME RefsTypeOK, NEW s \in Serdatas, NEW r \in Readers,
         UNCHANGED << incoming, sent, wire, slot >>, HandedKept
  PROVE  /\ s \notin cache[r] /\ cache' = [cache EXCEPT ![r] = @ \cup {s}] =>
              /\ << "cache", r, 0 >> \notin Holders(s)
              /\ Holders(s)' = Holders(s) \cup {<< "cache", r, 0 >>}
              /\ \A t \in Serdatas \ {s} : Holders(t)' = Holders(t)
         /\ s \in cache[r] /\ cache' = [cache EXCEPT ![r] = @ \ {s}] =>
              /\ << "cache", r, 0 >> \in Holders(s)
              /\ Holders(s)' = Holders(s) \ {<< "cache", r, 0 >>}
              /\ \A t \in Serdatas \ {s} : Holders(t)' = Holders(t)
<1>1. /\ \A t : InCore(t)' = InCore(t) /\ OnWire(t)' = OnWire(t)
      /\ \A t : InSlots(t)' = InSlots(t)
      /\ \A t \in Serdatas : HandedOut(t)' = HandedOut(t)
  BY DEF InCore, OnWire, InSlots, HandedKept
<1>2. << "cache", r, 0 >> \notin
        InCore(s) \cup OnWire(s) \cup InSlots(s) \cup HandedOut(s)
  BY Disjoint
<1> QED BY <1>1, <1>2, CachedChange DEF Holders

(* A slot is filled or emptied. *)
LEMMA SlotChange ==
  ASSUME RefsTypeOK, NEW b \in SampleBuffers, NEW i \in Slots,
         NEW x \in Serdatas \cup {Nothing}, slot' = [slot EXCEPT ![b][i] = x],
         NEW t \in Serdatas
  PROVE  /\ << "slot", b, i >> \in InSlots(t) <=> slot[b][i] = t
         /\ InSlots(t)' = IF x = t THEN InSlots(t) \cup {<< "slot", b, i >>}
                                    ELSE InSlots(t) \ {<< "slot", b, i >>}
<1> DEFINE h == << "slot", b, i >>
<1>1. /\ slot'[b][i] = x
      /\ \A c \in SampleBuffers, j \in Slots :
           c # b \/ j # i => slot'[c][j] = slot[c][j]
  BY DEF RefsTypeOK
<1>2. h \in InSlots(t) <=> slot[b][i] = t
  BY Kinds
<1>3. \A g : g \in InSlots(t)' <=> \E c \in SampleBuffers, j \in Slots :
                                     slot'[c][j] = t /\ g = << "slot", c, j >>
  BY DEF InSlots
<1>4. \A g : g \in InSlots(t) <=> \E c \in SampleBuffers, j \in Slots :
                                    slot[c][j] = t /\ g = << "slot", c, j >>
  BY Kinds
<1>5. h \in InSlots(t)' <=> x = t
  BY <1>1, <1>3
<1>6. ASSUME NEW g, g # h PROVE g \in InSlots(t)' <=> g \in InSlots(t)
  <2>1. ASSUME g \in InSlots(t)' PROVE g \in InSlots(t)
    <3>1. PICK c \in SampleBuffers, j \in Slots :
            slot'[c][j] = t /\ g = << "slot", c, j >>
      BY <1>3, <2>1
    <3>2. c # b \/ j # i
      BY <1>6, <3>1
    <3> QED BY <1>1, <1>4, <3>1, <3>2
  <2>2. ASSUME g \in InSlots(t) PROVE g \in InSlots(t)'
    <3>1. PICK c \in SampleBuffers, j \in Slots :
            slot[c][j] = t /\ g = << "slot", c, j >>
      BY <1>4, <2>2
    <3>2. c # b \/ j # i
      BY <1>6, <3>1
    <3> QED BY <1>1, <1>3, <3>1, <3>2
  <2> QED BY <2>1, <2>2
<1> HIDE DEF h
<1>7. InSlots(t)' = IF x = t THEN InSlots(t) \cup {h} ELSE InSlots(t) \ {h}
  BY <1>5, <1>6
<1> QED BY <1>2, <1>7 DEF h

(* A CDR read collects one more pointer. *)
LEMMA OneMoreHanded ==
  ASSUME RefsTypeOK, NEW s \in Serdatas, NEW b \in SampleBuffers,
         op[b].bound = 0, UNCHANGED op,
         handed' = [handed EXCEPT ![b] = Append(@, s)]
  PROVE  LET h == << "handed", b, Len(handed[b]) + 1 >> IN
         /\ h \notin HandedOut(s)
         /\ HandedOut(s)' = HandedOut(s) \cup {h}
         /\ \A t \in Serdatas \ {s} : HandedOut(t)' = HandedOut(t)
<1> DEFINE k == Len(handed[b]) + 1
           h == << "handed", b, k >>
<1>1. handed[b] \in Seq(Serdatas) /\ handed'[b] = Append(handed[b], s)
  BY DEF RefsTypeOK
<1>2. /\ Len(handed[b]) \in Nat
      /\ Len(handed'[b]) = k /\ handed'[b][k] = s
      /\ \A j \in 1..Len(handed[b]) : handed'[b][j] = handed[b][j]
  BY <1>1
<1>3. \A c \in SampleBuffers : c # b => handed'[c] = handed[c]
  BY DEF RefsTypeOK
<1>4. h \notin HandedOut(s)
  BY <1>2, Kinds
<1>5. ASSUME NEW t \in Serdatas
      PROVE  HandedOut(t)' = IF t = s THEN HandedOut(s) \cup {h} ELSE HandedOut(t)
  <2>1. ASSUME NEW g
        PROVE  g \in HandedOut(t)' <=> g \in HandedOut(t) \/ (t = s /\ g = h)
    <3>1. g \in HandedOut(t)' <=>
            \E c \in SampleBuffers : \E j \in op'[c].bound + 1..Len(handed'[c]) :
              handed'[c][j] = t /\ g = << "handed", c, j >>
      BY DEF HandedOut
    <3>2. g \in HandedOut(t) <=>
            \E c \in SampleBuffers : \E j \in op[c].bound + 1..Len(handed[c]) :
              handed[c][j] = t /\ g = << "handed", c, j >>
      BY Kinds
    <3>3. op[b].bound + 1 = 1 /\ op'[b].bound + 1 = 1
      OBVIOUS
    <3>10. 1..Len(handed'[b]) = 1..Len(handed[b]) \cup {k}
      BY <1>2
    <3>4. (\E j \in 1..Len(handed'[b]) :
             handed'[b][j] = t /\ g = << "handed", b, j >>)
          <=> \/ \E j \in 1..Len(handed[b]) :
                   handed[b][j] = t /\ g = << "handed", b, j >>
              \/ (t = s /\ g = h)
      BY <1>2, <3>10
    <3>5. ASSUME NEW c \in SampleBuffers, c # b
          PROVE  (\E j \in op'[c].bound + 1..Len(handed'[c]) :
                    handed'[c][j] = t /\ g = << "handed", c, j >>)
                 <=> \E j \in op[c].bound + 1..Len(handed[c]) :
                       handed[c][j] = t /\ g = << "handed", c, j >>
      BY <1>3, <3>5
    <3>6. (\E c \in SampleBuffers : \E j \in op'[c].bound + 1..Len(handed'[c]) :
             handed'[c][j] = t /\ g = << "handed", c, j >>)
          <=> \/ \E c \in SampleBuffers : \E j \in op[c].bound + 1..Len(handed[c]) :
                   handed[c][j] = t /\ g = << "handed", c, j >>
              \/ (t = s /\ g = h)
      BY <3>3, <3>4, <3>5, Zenon
    <3> DEFINE New == \E c \in SampleBuffers : \E j \in op'[c].bound + 1..Len(handed'[c]) :
                        handed'[c][j] = t /\ g = << "handed", c, j >>
               Old == \E c \in SampleBuffers : \E j \in op[c].bound + 1..Len(handed[c]) :
                        handed[c][j] = t /\ g = << "handed", c, j >>
    <3>7. g \in HandedOut(t)' <=> New
      BY <3>1
    <3>8. g \in HandedOut(t) <=> Old
      BY <3>2
    <3>9. New <=> Old \/ (t = s /\ g = h)
      BY <3>6
    <3> HIDE DEF New, Old
    <3> QED BY <3>7, <3>8, <3>9
  <2>2. CASE t = s
    <3>1. \A g : g \in HandedOut(t)' <=> g \in HandedOut(s) \/ g = h
      BY <2>1, <2>2
    <3> HIDE DEF h
    <3> QED BY <2>2, <3>1
  <2>3. CASE t # s
    BY <2>1, <2>3
  <2> QED BY <2>2, <2>3
<1> QED BY <1>4, <1>5

(* Binding one takes it from those collected. *)
LEMMA OneLessHanded ==
  ASSUME RefsTypeOK, NEW b \in SampleBuffers, op[b].bound + 1 \in 1..Len(handed[b]),
         NEW s \in Serdatas, s = handed[b][op[b].bound + 1],
         \A c \in SampleBuffers : c # b => op'[c] = op[c] /\ handed'[c] = handed[c],
         \/ /\ op[b].bound + 1 = Len(handed[b])
            /\ handed'[b] = << >> /\ op'[b].bound = 0
         \/ handed'[b] = handed[b] /\ op'[b].bound = op[b].bound + 1
  PROVE  LET g == << "handed", b, op[b].bound + 1 >> IN
         /\ g \in HandedOut(s)
         /\ HandedOut(s)' = HandedOut(s) \ {g}
         /\ \A t \in Serdatas \ {s} : HandedOut(t)' = HandedOut(t)
<1> DEFINE k == op[b].bound + 1
           g == << "handed", b, k >>
           Left(c) == op[c].bound + 1..Len(handed[c])
           LeftNow(c) == op'[c].bound + 1..Len(handed'[c])
<1>1. op[b].bound \in Nat /\ Len(handed[b]) \in Nat
  BY SampleRefsAssumption DEF RefsTypeOK, Op
<1>2. /\ k \in Left(b) /\ LeftNow(b) = Left(b) \ {k}
      /\ \A j \in LeftNow(b) : handed'[b][j] = handed[b][j]
  <2>1. CASE /\ k = Len(handed[b])
             /\ handed'[b] = << >> /\ op'[b].bound = 0
    <3>1. LeftNow(b) = {} /\ Left(b) = {k}
      BY <1>1, <2>1
    <3> QED BY <3>1
  <2>2. CASE handed'[b] = handed[b] /\ op'[b].bound = k
    BY <1>1, <2>2
  <2> QED BY <2>1, <2>2
<1>3. \A c \in SampleBuffers : c # b =>
        LeftNow(c) = Left(c) /\ handed'[c] = handed[c]
  OBVIOUS
<1> DEFINE Was(t, h) == \E c \in SampleBuffers : \E j \in Left(c) :
                          handed[c][j] = t /\ h = << "handed", c, j >>
           Is(t, h) == \E c \in SampleBuffers : \E j \in LeftNow(c) :
                         handed'[c][j] = t /\ h = << "handed", c, j >>
<1>4. ASSUME NEW t, NEW h
      PROVE  /\ h \in HandedOut(t) <=> Was(t, h)
             /\ h \in HandedOut(t)' <=> Is(t, h)
  <2>1. h \in HandedOut(t) <=> Was(t, h)
    BY Kinds
  <2>2. h \in HandedOut(t)' <=> Is(t, h)
    BY DEF HandedOut
  <2> QED BY <2>1, <2>2
<1> HIDE DEF Left, LeftNow, k
<1>5. ASSUME NEW t \in Serdatas PROVE HandedOut(t)' = HandedOut(t) \ {g}
  <2>1. ASSUME NEW h, h \in HandedOut(t)' PROVE h \in HandedOut(t) /\ h # g
    <3>0. Is(t, h)
      BY <1>4, <2>1
    <3>1. PICK c \in SampleBuffers : \E j \in LeftNow(c) :
            handed'[c][j] = t /\ h = << "handed", c, j >>
      BY <3>0
    <3>2. PICK j \in LeftNow(c) : handed'[c][j] = t /\ h = << "handed", c, j >>
      BY <3>1
    <3>3. /\ j \in Left(c) /\ handed[c][j] = t
          /\ c = b => j # k
      BY <1>2, <1>3, <3>2
    <3>4. Was(t, h)
      BY <3>2, <3>3
    <3> QED BY <1>4, <3>4, <3>2, <3>3
  <2>2. ASSUME NEW h, h \in HandedOut(t), h # g PROVE h \in HandedOut(t)'
    <3>0. Was(t, h)
      BY <1>4, <2>2
    <3>1. PICK c \in SampleBuffers : \E j \in Left(c) :
            handed[c][j] = t /\ h = << "handed", c, j >>
      BY <3>0
    <3>2. PICK j \in Left(c) : handed[c][j] = t /\ h = << "handed", c, j >>
      BY <3>1
    <3>3. c = b => j # k
      BY <2>2, <3>2
    <3>4. j \in LeftNow(c) /\ handed'[c][j] = t
      BY <1>2, <1>3, <3>2, <3>3
    <3>5. Is(t, h)
      BY <3>2, <3>4
    <3> QED BY <1>4, <3>5
  <2> QED BY <2>1, <2>2, Zenon
<1>6. ASSUME NEW t \in Serdatas PROVE g \in HandedOut(t) <=> t = s
  <2>1. handed[b][k] = s
    BY DEF k
  <2>2. g \in HandedOut(t) => handed[b][k] = t
    <3>1. SUFFICES ASSUME g \in HandedOut(t) PROVE handed[b][k] = t
      OBVIOUS
    <3>20. Was(t, g)
      BY <1>4, <3>1
    <3>2. PICK c \in SampleBuffers : \E j \in Left(c) :
            handed[c][j] = t /\ g = << "handed", c, j >>
      BY <3>20
    <3>3. PICK j \in Left(c) : handed[c][j] = t /\ g = << "handed", c, j >>
      BY <3>2
    <3> QED BY <3>3
  <2>3. handed[b][k] = t => g \in HandedOut(t)
    BY <1>2, <1>4
  <2> QED BY <2>1, <2>2, <2>3
<1> HIDE DEF g, Was, Is
<1>7. HandedOut(s)' = HandedOut(s) \ {g} /\ g \in HandedOut(s)
  BY <1>5, <1>6
<1>8. ASSUME NEW t \in Serdatas \ {s} PROVE HandedOut(t)' = HandedOut(t)
  <2>1. g \notin HandedOut(t)
    BY <1>6
  <2>2. HandedOut(t)' = HandedOut(t) \ {g}
    BY <1>5
  <2> QED BY <2>1, <2>2
<1> QED BY <1>7, <1>8 DEF g, k

LEMMA SlotRange ==
  ASSUME RefsTypeOK, NEW b \in SampleBuffers, NEW i \in Slots, slot[b][i] # Nothing
  PROVE  slot[b][i] \in Serdatas
BY DEF RefsTypeOK

(* set_serdata, in a step that tears nothing: the old sample had no holder  *)
(* but the slot, so it is another one.                                      *)
LEMMA SetSerdataEffect ==
  ASSUME RefsTypeOK, Counted, NEW b \in SampleBuffers, NEW i \in Slots, NEW s \in Serdatas,
         SetSerdata(b, i, s), ~torn', NEW g \in Holders(s),
         g # << "slot", b, i >>
  PROVE  /\ << "slot", b, i >> \notin InSlots(s)
         /\ InSlots(s)' = InSlots(s) \cup {<< "slot", b, i >>}
         /\ mem'[s] = "live" /\ refc'[s] = refc[s] + 1
         /\ \A t \in Serdatas \ {s} :
              /\ refc'[t] = refc[t]
              /\ \/ InSlots(t)' = InSlots(t) /\ mem'[t] = mem[t]
                 \/ /\ Holders(t) = {<< "slot", b, i >>}
                    /\ InSlots(t)' = {} /\ mem'[t] = "freed"
<1> DEFINE h == << "slot", b, i >>
           old == slot[b][i]
<1>1. /\ slot' = [slot EXCEPT ![b][i] = s]
      /\ refc' = [refc EXCEPT ![s] = @ + 1]
      /\ ~Shared(b, i)
      /\ mem' = IF old = Nothing THEN mem ELSE [mem EXCEPT ![old] = "freed"]
  BY DEF SetSerdata
<1>2. old # Nothing => Holders(old) = {h}
  BY <1>1 DEF Shared
<1>3. old # s
  BY <1>2, SampleRefsAssumption
<1>4. ASSUME NEW t \in Serdatas
      PROVE  /\ h \in InSlots(t) <=> old = t
             /\ InSlots(t)' = IF s = t THEN InSlots(t) \cup {h} ELSE InSlots(t) \ {h}
  BY <1>1, SlotChange
<1>5. mem'[s] = "live"
  <2>1. mem[s] = "live"
    BY DEF Counted
  <2> QED BY <1>1, <1>3, <2>1 DEF RefsTypeOK
<1>6. refc'[s] = refc[s] + 1 /\ \A t \in Serdatas \ {s} : refc'[t] = refc[t]
  BY <1>1 DEF RefsTypeOK
<1>7. ASSUME NEW t \in Serdatas \ {s}
      PROVE  \/ InSlots(t)' = InSlots(t) /\ mem'[t] = mem[t]
             \/ Holders(t) = {h} /\ InSlots(t)' = {} /\ mem'[t] = "freed"
  <2>1. CASE old = t
    <3>1. old # Nothing
      BY <2>1, SampleRefsAssumption
    <3>2. Holders(t) = {h} /\ mem' = [mem EXCEPT ![t] = "freed"]
      BY <1>1, <1>2, <2>1, <3>1
    <3>3. InSlots(t)' = InSlots(t) \ {h} /\ InSlots(t) \subseteq {h}
      BY <1>4, <3>2 DEF Holders
    <3>4. InSlots(t)' = {}
      BY <3>3
    <3> QED BY <3>2, <3>4 DEF RefsTypeOK
  <2>2. CASE old # t
    <3>1. h \notin InSlots(t) /\ InSlots(t)' = InSlots(t) \ {h}
      BY <1>4, <2>2
    <3>2. InSlots(t)' = InSlots(t)
      BY <3>1
    <3>3. mem'[t] = mem[t]
      BY <1>1, <2>2 DEF RefsTypeOK
    <3> QED BY <3>2, <3>3
  <2> QED BY <2>1, <2>2
<1>8. h \notin InSlots(s) /\ InSlots(s)' = InSlots(s) \cup {h}
  BY <1>3, <1>4
<1> QED BY <1>5, <1>6, <1>7, <1>8

(* Converting a cached sample only counts. *)
LEMMA ConvertCounts ==
  ASSUME Counted, RefsTypeOK, NEW b \in SampleBuffers, NEW i \in Slots, NEW s \in Serdatas,
         NEW r \in Readers, s \in cache[r], SetSerdata(b, i, s), ~torn',
         UNCHANGED << incoming, sent, wire, cache, lost >>, HandedKept
  PROVE  Counted'
<1> DEFINE h == << "slot", b, i >>
           g == << "cache", r, 0 >>
<1>1. g \in Holders(s) /\ g # h
  BY Kinds DEF Holders
<1>2. /\ h \notin InSlots(s) /\ InSlots(s)' = InSlots(s) \cup {h}
      /\ mem'[s] = "live" /\ refc'[s] = refc[s] + 1
      /\ \A t \in Serdatas \ {s} :
           /\ refc'[t] = refc[t]
           /\ \/ InSlots(t)' = InSlots(t) /\ mem'[t] = mem[t]
              \/ Holders(t) = {h} /\ InSlots(t)' = {} /\ mem'[t] = "freed"
  BY <1>1, SetSerdataEffect
<1>3. \A t \in Serdatas : /\ InCore(t)' = InCore(t) /\ OnWire(t)' = OnWire(t)
                          /\ Cached(t)' = Cached(t) /\ HandedOut(t)' = HandedOut(t)
  BY DEF InCore, OnWire, Cached, HandedKept
<1>4. \A t : h \notin InCore(t) \cup OnWire(t) \cup Cached(t) \cup HandedOut(t)
  BY Disjoint
<1> HIDE DEF h, g
<1>5. Holders(s)' = Holders(s) \cup {h} /\ h \notin Holders(s)
  BY <1>2, <1>3, <1>4 DEF Holders
<1>6. /\ IsFiniteSet(Holders(s)) /\ refc[s] = Cardinality(Holders(s)) + lost[s]
      /\ lost[s] \in Nat
  BY <1>1 DEF Counted, RefsTypeOK
<1>7. /\ IsFiniteSet(Holders(s)') /\ Holders(s)' # {}
      /\ Cardinality(Holders(s)') = Cardinality(Holders(s)) + 1
      /\ Cardinality(Holders(s)) \in Nat
  BY <1>5, <1>6, FS_AddElement, FS_CardinalityType
<1>8. refc'[s] = Cardinality(Holders(s)') + lost'[s]
  BY <1>2, <1>6, <1>7
<1>9. ASSUME NEW t \in Serdatas \ {s}
      PROVE  \/ Holders(t)' = Holders(t) /\ mem'[t] = mem[t]
             \/ Holders(t)' = {} /\ mem'[t] = "freed"
  <2>1. CASE InSlots(t)' = InSlots(t) /\ mem'[t] = mem[t]
    BY <1>3, <2>1 DEF Holders
  <2>2. CASE Holders(t) = {h} /\ InSlots(t)' = {} /\ mem'[t] = "freed"
    BY <1>3, <1>4, <2>2 DEF Holders
  <2> QED BY <1>2, <2>1, <2>2
<1> QED BY <1>2, <1>7, <1>8, <1>9, Exchanged

(* Binding a collected pointer moves it to a slot, and loses the reference  *)
(* it came with.                                                            *)
LEMMA BindCounts ==
  ASSUME Counted, RefsTypeOK, NEW b \in SampleBuffers, NEW i \in Slots, NEW s \in Serdatas,
         NEW g, g \in HandedOut(s), HandedOut(s)' = HandedOut(s) \ {g},
         \A t \in Serdatas \ {s} : HandedOut(t)' = HandedOut(t),
         SetSerdata(b, i, s), ~torn', lost' = [lost EXCEPT ![s] = @ + 1],
         UNCHANGED << incoming, sent, wire, cache >>
  PROVE  Counted'
<1> DEFINE h == << "slot", b, i >>
<1>1. g \in Holders(s) /\ g # h
  BY Disjoint DEF Holders
<1>2. /\ h \notin InSlots(s) /\ InSlots(s)' = InSlots(s) \cup {h}
      /\ mem'[s] = "live" /\ refc'[s] = refc[s] + 1
      /\ \A t \in Serdatas \ {s} :
           /\ refc'[t] = refc[t]
           /\ \/ InSlots(t)' = InSlots(t) /\ mem'[t] = mem[t]
              \/ Holders(t) = {h} /\ InSlots(t)' = {} /\ mem'[t] = "freed"
  BY <1>1, SetSerdataEffect
<1>3. \A t \in Serdatas : /\ InCore(t)' = InCore(t) /\ OnWire(t)' = OnWire(t)
                          /\ Cached(t)' = Cached(t)
  BY DEF InCore, OnWire, Cached
<1>4. /\ \A t : h \notin InCore(t) \cup OnWire(t) \cup Cached(t) \cup HandedOut(t)
      /\ g \notin InCore(s) \cup OnWire(s) \cup Cached(s) \cup InSlots(s)
  BY Disjoint
<1> HIDE DEF h
<1>5. Holders(s)' = (Holders(s) \ {g}) \cup {h} /\ h \notin Holders(s)
  BY <1>1, <1>2, <1>3, <1>4 DEF Holders
<1>6. /\ IsFiniteSet(Holders(s)') /\ Holders(s)' # {}
      /\ Cardinality(Holders(s)') + lost[s] = refc[s]
      /\ refc[s] \in Int /\ lost[s] \in Nat /\ Cardinality(Holders(s)') \in Nat
  BY <1>1, <1>5, Moved
<1>7. lost'[s] = lost[s] + 1 /\ \A t \in Serdatas \ {s} : lost'[t] = lost[t]
  BY DEF RefsTypeOK
<1>8. refc'[s] = Cardinality(Holders(s)') + lost'[s]
  BY <1>2, <1>6, <1>7
<1>9. ASSUME NEW t \in Serdatas \ {s}
      PROVE  \/ Holders(t)' = Holders(t) /\ mem'[t] = mem[t]
             \/ Holders(t)' = {} /\ mem'[t] = "freed"
  <2>1. CASE InSlots(t)' = InSlots(t) /\ mem'[t] = mem[t]
    BY <1>3, <2>1 DEF Holders
  <2>2. CASE Holders(t) = {h} /\ InSlots(t)' = {} /\ mem'[t] = "freed"
    BY <1>3, <1>4, <2>2 DEF Holders
  <2> QED BY <1>2, <2>1, <2>2
<1> QED BY <1>2, <1>6, <1>7, <1>8, <1>9, Exchanged

(* A step that moves no holder counts nothing. *)
LEMMA CountedFrame ==
  ASSUME Counted, HandedKept,
         UNCHANGED << mem, refc, lost, incoming, sent, wire, cache, slot >>
  PROVE  Counted'
<1>1. \A t : /\ InCore(t)' = InCore(t) /\ OnWire(t)' = OnWire(t)
             /\ Cached(t)' = Cached(t) /\ InSlots(t)' = InSlots(t)
  BY DEF InCore, OnWire, Cached, InSlots
<1>2. \A t \in Serdatas : Holders(t)' = Holders(t)
  BY <1>1 DEF Holders, HandedKept
<1> QED BY <1>2, NoChange

(* free_contents and untyped_to_sample give back the reference of a slot. *)
LEMMA SlotReleased ==
  ASSUME Counted, RefsTypeOK, NEW b \in SampleBuffers, NEW i \in Slots,
         IF slot[b][i] = Nothing THEN UNCHANGED << mem, refc >>
                              ELSE Removeref(slot[b][i]),
         slot' = [slot EXCEPT ![b][i] = Nothing],
         UNCHANGED << incoming, sent, wire, cache, lost >>, HandedKept
  PROVE  Counted'
<1>1. CASE slot[b][i] = Nothing
  <2>1. slot' = slot /\ UNCHANGED << mem, refc >>
    BY <1>1 DEF RefsTypeOK
  <2> QED BY <2>1, CountedFrame
<1>2. CASE slot[b][i] # Nothing
  <2>1. PICK s \in Serdatas : s = slot[b][i] /\ Removeref(s)
    BY <1>2, SlotRange
  <2> DEFINE h == << "slot", b, i >>
  <2>2. ASSUME NEW t \in Serdatas
        PROVE  (h \in InSlots(t) <=> t = s) /\ InSlots(t)' = InSlots(t) \ {h}
    BY <2>1, SlotChange, SampleRefsAssumption
  <2>3. \A t \in Serdatas : /\ InCore(t)' = InCore(t) /\ OnWire(t)' = OnWire(t)
                            /\ Cached(t)' = Cached(t) /\ HandedOut(t)' = HandedOut(t)
    BY DEF InCore, OnWire, Cached, HandedKept
  <2>4. \A t : h \notin InCore(t) \cup OnWire(t) \cup Cached(t) \cup HandedOut(t)
    BY Disjoint
  <2> HIDE DEF h
  <2>5. h \in Holders(s) /\ Holders(s)' = Holders(s) \ {h}
    BY <2>2, <2>3, <2>4 DEF Holders
  <2>6. ASSUME NEW t \in Serdatas \ {s} PROVE Holders(t)' = Holders(t)
    <3>1. InSlots(t)' = InSlots(t) \ {h} /\ h \notin InSlots(t)
      BY <2>2
    <3>2. InSlots(t)' = InSlots(t)
      BY <3>1
    <3> QED BY <2>3, <3>2 DEF Holders
  <2> QED BY <2>1, <2>5, <2>6, Loss
<1> QED BY <1>1, <1>2

(* takecdr: the reference of the cache becomes the one handed out. *)
LEMMA CollectTakes ==
  ASSUME Counted, RefsTypeOK, NEW s \in Serdatas, NEW b \in SampleBuffers,
         NEW r \in Readers, s \in cache[r],
         cache' = [cache EXCEPT ![r] = @ \ {s}],
         handed' = [handed EXCEPT ![b] = Append(@, s)],
         op[b].bound = 0, UNCHANGED << op, lost >>,
         UNCHANGED << mem, refc, incoming, sent, wire, slot >>
  PROVE  Counted'
<1> DEFINE g == << "cache", r, 0 >>
           h == << "handed", b, Len(handed[b]) + 1 >>
<1>1. \A t : /\ InCore(t)' = InCore(t) /\ OnWire(t)' = OnWire(t)
             /\ InSlots(t)' = InSlots(t)
  BY DEF InCore, OnWire, InSlots
<1>2. /\ g \in Cached(s) /\ Cached(s)' = Cached(s) \ {g}
      /\ \A t \in Serdatas \ {s} : Cached(t)' = Cached(t)
  BY CachedChange
<1>3. /\ h \notin HandedOut(s) /\ HandedOut(s)' = HandedOut(s) \cup {h}
      /\ \A t \in Serdatas \ {s} : HandedOut(t)' = HandedOut(t)
  BY OneMoreHanded
<1>4. /\ g \notin InCore(s) \cup OnWire(s) \cup InSlots(s) \cup HandedOut(s)
      /\ h \notin InCore(s) \cup OnWire(s) \cup InSlots(s) \cup Cached(s)
      /\ g # h
  BY Disjoint
<1> HIDE DEF g, h
<1>5. /\ Holders(s)' = (Holders(s) \ {g}) \cup {h}
      /\ g \in Holders(s) /\ h \notin Holders(s)
  BY <1>1, <1>2, <1>3, <1>4 DEF Holders
<1>6. \A t \in Serdatas \ {s} : Holders(t)' = Holders(t)
  BY <1>1, <1>2, <1>3 DEF Holders
<1>7. /\ IsFiniteSet(Holders(s)') /\ Holders(s)' # {}
      /\ Cardinality(Holders(s)') + lost[s] = refc[s]
  BY <1>5, Moved
<1>8. mem[s] = "live"
  BY <1>5 DEF Counted
<1> QED BY <1>6, <1>7, <1>8, Exchanged

(* readcdr: a new one is handed out. *)
LEMMA CollectReads ==
  ASSUME Counted, RefsTypeOK, NEW s \in Serdatas, NEW b \in SampleBuffers,
         NEW r \in Readers, s \in cache[r], Addref(s),
         handed' = [handed EXCEPT ![b] = Append(@, s)],
         op[b].bound = 0, UNCHANGED << op, lost >>,
         UNCHANGED << incoming, sent, wire, cache, slot >>
  PROVE  Counted'
<1> DEFINE h == << "handed", b, Len(handed[b]) + 1 >>
<1>1. \A t : /\ InCore(t)' = InCore(t) /\ OnWire(t)' = OnWire(t)
             /\ InSlots(t)' = InSlots(t) /\ Cached(t)' = Cached(t)
  BY DEF InCore, OnWire, InSlots, Cached
<1>2. /\ h \notin HandedOut(s) /\ HandedOut(s)' = HandedOut(s) \cup {h}
      /\ \A t \in Serdatas \ {s} : HandedOut(t)' = HandedOut(t)
  BY OneMoreHanded
<1>3. h \notin InCore(s) \cup OnWire(s) \cup InSlots(s) \cup Cached(s)
  BY Disjoint
<1>4. << "cache", r, 0 >> \in Holders(s)
  BY Kinds DEF Holders
<1>5. mem[s] = "live"
  BY <1>4 DEF Counted
<1> HIDE DEF h
<1>6. Holders(s)' = Holders(s) \cup {h} /\ h \notin Holders(s)
  BY <1>1, <1>2, <1>3 DEF Holders
<1>7. \A t \in Serdatas \ {s} : Holders(t)' = Holders(t)
  BY <1>1, <1>2 DEF Holders
<1> QED BY <1>5, <1>6, <1>7, Gain DEF Addref

(* Only Bind moves the bound of a read. *)
LEMMA BoundKept ==
  ASSUME op \in [SampleBuffers -> Op], OpsOK, NEW b \in SampleBuffers,
         \/ \E r \in Readers : ReadBegin(b, r) \/ ReadCdrBegin(b, r)
         \/ \E s \in Serdatas : \/ DecodeBegin(b, s) \/ Convert(b, s)
                               \/ ReadFails(b, s)
         \/ DecodeEnd(b) \/ Taken(b) \/ ConvertInvalid(b) \/ ReadEnd(b)
         \/ NoData(b) \/ Poll(b) \/ Cancel(b) \/ CollectEnd(b)
         \/ ClearBegin(b) \/ FreeContents(b)
  PROVE  \A c \in SampleBuffers : op'[c].bound = op[c].bound
<1> DEFINE Kept == \A c \in SampleBuffers : op'[c].bound = op[c].bound
<1>0. ASSUME NEW x, op' = [op EXCEPT ![b] = x], x.bound = op[b].bound PROVE Kept
  BY <1>0
<1>a. op[b] \in Op /\ (op[b].pc # "binding" => op[b].bound = 0)
  BY DEF OpsOK, OpOK
<1>1. ASSUME NEW r \in Readers, ReadBegin(b, r) PROVE Kept
  <2>1. PICK take \in BOOLEAN : Begin(b, r, "copying", take)
    BY <1>1 DEF ReadBegin
  <2> DEFINE x == [Idle EXCEPT !.pc = "copying", !.reader = r, !.take = take]
  <2>2. op' = [op EXCEPT ![b] = x] /\ op[b].pc = "idle"
    BY <2>1 DEF Begin
  <2>3. x.bound = 0
    BY DEF Idle
  <2> QED BY <1>0, <1>a, <2>2, <2>3
<1>2. ASSUME NEW r \in Readers, ReadCdrBegin(b, r) PROVE Kept
  <2>1. PICK take \in BOOLEAN : Begin(b, r, "collecting", take)
    BY <1>2 DEF ReadCdrBegin
  <2> DEFINE x == [Idle EXCEPT !.pc = "collecting", !.reader = r, !.take = take]
  <2>2. op' = [op EXCEPT ![b] = x] /\ op[b].pc = "idle"
    BY <2>1 DEF Begin
  <2>3. x.bound = 0
    BY DEF Idle
  <2> QED BY <1>0, <1>a, <2>2, <2>3
<1>3. ASSUME NEW s \in Serdatas, DecodeBegin(b, s) PROVE Kept
  <2> DEFINE x == [op[b] EXCEPT !.decoding = s]
  <2>1. op' = [op EXCEPT ![b] = x] /\ op[b].pc # "binding"
    BY <1>3 DEF DecodeBegin
  <2>2. x.bound = op[b].bound
    BY <1>a, <2>1, IdleFields DEF Op
  <2> QED BY <1>0, <2>1, <2>2
<1>4. ASSUME NEW s \in Serdatas, Convert(b, s) PROVE Kept
  <2> DEFINE x == [op[b] EXCEPT !.n = @ + 1, !.pc = IF op[b].take THEN "taking" ELSE @]
  <2>1. op' = [op EXCEPT ![b] = x] /\ op[b].pc # "binding"
    BY <1>4 DEF Convert
  <2>2. x.bound = op[b].bound
    BY <1>a, <2>1, IdleFields DEF Op
  <2> QED BY <1>0, <2>1, <2>2
<1>5. ASSUME NEW s \in Serdatas, ReadFails(b, s) PROVE Kept
  <2> DEFINE x == Idle
  <2>1. op' = [op EXCEPT ![b] = x] /\ op[b].pc # "binding"
    BY <1>5 DEF ReadFails
  <2>2. x.bound = op[b].bound
    BY <1>a, <2>1, IdleFields DEF Op
  <2> QED BY <1>0, <2>1, <2>2
<1>6. ASSUME DecodeEnd(b) PROVE Kept
  <2> DEFINE x == [op[b] EXCEPT !.decoding = Nothing]
  <2>1. op' = [op EXCEPT ![b] = x] /\ op[b].pc # "binding"
    BY <1>6 DEF DecodeEnd
  <2>2. x.bound = op[b].bound
    BY <1>a, <2>1, IdleFields DEF Op
  <2> QED BY <1>0, <2>1, <2>2
<1>7. ASSUME Taken(b) PROVE Kept
  <2> DEFINE x == [op[b] EXCEPT !.pc = "copying"]
  <2>1. op' = [op EXCEPT ![b] = x] /\ op[b].pc # "binding"
    BY <1>7 DEF Taken
  <2>2. x.bound = op[b].bound
    BY <1>a, <2>1, IdleFields DEF Op
  <2> QED BY <1>0, <2>1, <2>2
<1>8. ASSUME ConvertInvalid(b) PROVE Kept
  <2> DEFINE x == [op[b] EXCEPT !.n = op[b].n + 1, !.invalidFirst = @ \/ op[b].n + 1 = 1]
  <2>1. op' = [op EXCEPT ![b] = x] /\ op[b].pc # "binding"
    BY <1>8 DEF ConvertInvalid
  <2>2. x.bound = op[b].bound
    BY <1>a, <2>1, IdleFields DEF Op
  <2> QED BY <1>0, <2>1, <2>2
<1>9. ASSUME ReadEnd(b) PROVE Kept
  <2> DEFINE x == Idle
  <2>1. op' = [op EXCEPT ![b] = x] /\ op[b].pc # "binding"
    BY <1>9 DEF ReadEnd
  <2>2. x.bound = op[b].bound
    BY <1>a, <2>1, IdleFields DEF Op
  <2> QED BY <1>0, <2>1, <2>2
<1>10. ASSUME NoData(b) PROVE Kept
  <2> DEFINE x == [Idle EXCEPT !.pc = "pending", !.reader = op[b].reader,
                               !.take = op[b].take]
  <2>1. /\ op' = [op EXCEPT ![b] = Idle] \/ op' = [op EXCEPT ![b] = x]
        /\ op[b].pc # "binding"
    BY <1>10 DEF NoData
  <2>2. x.bound = 0
    BY DEF Idle
  <2>3. CASE op' = [op EXCEPT ![b] = Idle]
    BY <1>0, <1>a, <2>1, <2>3, IdleFields
  <2>4. CASE op' = [op EXCEPT ![b] = x]
    BY <1>0, <1>a, <2>1, <2>2, <2>4
  <2> QED BY <2>1, <2>3, <2>4
<1>11. ASSUME Poll(b) PROVE Kept
  <2> DEFINE x == [op[b] EXCEPT !.pc = "copying"]
  <2>1. op' = [op EXCEPT ![b] = x] /\ op[b].pc # "binding"
    BY <1>11 DEF Poll
  <2>2. x.bound = op[b].bound
    BY <1>a, <2>1, IdleFields DEF Op
  <2> QED BY <1>0, <2>1, <2>2
<1>12. ASSUME Cancel(b) PROVE Kept
  <2> DEFINE x == Idle
  <2>1. op' = [op EXCEPT ![b] = x] /\ op[b].pc # "binding"
    BY <1>12 DEF Cancel
  <2>2. x.bound = op[b].bound
    BY <1>a, <2>1, IdleFields DEF Op
  <2> QED BY <1>0, <2>1, <2>2
<1>13. ASSUME CollectEnd(b) PROVE Kept
  <2> DEFINE x == IF handed[b] = << >> THEN Idle ELSE [Idle EXCEPT !.pc = "binding"]
  <2>1. op' = [op EXCEPT ![b] = x] /\ op[b].pc # "binding"
    BY <1>13 DEF CollectEnd
  <2>2. x.bound = 0
    BY DEF Idle
  <2> QED BY <1>0, <1>a, <2>1, <2>2
<1>14. ASSUME ClearBegin(b) PROVE Kept
  <2> DEFINE x == [op[b] EXCEPT !.pc = "clearing"]
  <2>1. op' = [op EXCEPT ![b] = x] /\ op[b].pc # "binding"
    BY <1>14 DEF ClearBegin
  <2>2. x.bound = op[b].bound
    BY <1>a, <2>1, IdleFields DEF Op
  <2> QED BY <1>0, <2>1, <2>2
<1>15. ASSUME FreeContents(b) PROVE Kept
  <2> DEFINE x == IF op[b].n + 1 = len[b] THEN Idle ELSE [op[b] EXCEPT !.n = op[b].n + 1]
  <2>1. op' = [op EXCEPT ![b] = x] /\ op[b].pc # "binding"
    BY <1>15 DEF FreeContents
  <2>2. x.bound = op[b].bound
    BY <1>a, <2>1, IdleFields DEF Op
  <2> QED BY <1>0, <2>1, <2>2
<1> QED BY <1>1, <1>2, <1>3, <1>4, <1>5, <1>6, <1>7, <1>8, <1>9, <1>10, <1>11, <1>12, <1>13, <1>14, <1>15

(* Every step keeps the counts right. *)
LEMMA CountedStep ==
  ASSUME RefsTypeOK, Counted, OpsOK, ~torn', [RefsNext]_refsVars
  PROVE  Counted'
<1>1. ASSUME NEW s \in Serdatas, Write(s) PROVE Counted'
  <2>1. /\ mem[s] = "none" /\ mem' = [mem EXCEPT ![s] = "live"]
        /\ refc' = [refc EXCEPT ![s] = 1]
        /\ UNCHANGED << wire, cache, slot, lost >>
    BY <1>1 DEF Write, Made, history
  <2>2. sent' = sent \cup {s} /\ UNCHANGED incoming
    BY <1>1 DEF Write
  <2>3. s \notin sent
    BY <2>1, Kinds DEF Counted, Holders
  <2>9. HandedKept
    BY <1>1, HandedFrame DEF Write, Made
  <2> QED BY <2>9, <2>1, <2>2, <2>3, SentChange, FirstHolder
<1>2. ASSUME NEW s \in Serdatas, Receive(s) PROVE Counted'
  <2>1. /\ mem[s] = "none" /\ mem' = [mem EXCEPT ![s] = "live"]
        /\ refc' = [refc EXCEPT ![s] = 1]
        /\ UNCHANGED << wire, cache, slot, lost >>
    BY <1>2 DEF Receive, Made, history
  <2>2. incoming' = incoming \cup {s} /\ UNCHANGED sent
    BY <1>2 DEF Receive
  <2>9. HandedKept
    BY <1>2, HandedFrame DEF Receive, Made
  <2> QED BY <2>9, <2>1, <2>2, IncomingChange, FirstHolder
<1>3. ASSUME NEW s \in Serdatas, Delivered(s) PROVE Counted'
  <2>1. s \in incoming /\ incoming' = incoming \ {s} /\ Removeref(s)
    BY <1>3 DEF Delivered, history
  <2>2. UNCHANGED << sent, wire, cache, slot, lost >>
    BY <1>3 DEF Delivered, history
  <2>9. HandedKept
    BY <1>3, HandedFrame DEF Delivered
  <2> QED BY <2>9, <2>1, <2>2, IncomingChange, Loss
<1>4. ASSUME NEW s \in Serdatas, Acknowledged(s) PROVE Counted'
  <2>1. s \in sent /\ sent' = sent \ {s} /\ Removeref(s)
    BY <1>4 DEF Acknowledged, history
  <2>2. UNCHANGED << incoming, wire, cache, slot, lost >>
    BY <1>4 DEF Acknowledged, history
  <2>9. HandedKept
    BY <1>4, HandedFrame DEF Acknowledged
  <2> QED BY <2>9, <2>1, <2>2, SentChange, Loss
<1>5. ASSUME NEW s \in Serdatas, NEW r \in Readers, Deliver(s, r) PROVE
      Counted'
  <2>1. /\ s \in incoming \cup sent /\ s \notin cache[r]
        /\ cache' = [cache EXCEPT ![r] = @ \cup {s}]
        /\ Addref(s) /\ UNCHANGED << incoming, sent, wire, slot, lost >>
    BY <1>5 DEF Deliver, coreVars, history
  <2>2. mem[s] = "live"
    BY <2>1, Kinds DEF Counted, Holders
  <2>9. HandedKept
    BY <1>5, HandedFrame DEF Deliver
  <2> QED BY <2>9, <2>1, <2>2, CacheChange, Gain DEF Addref
<1>6. ASSUME NEW s \in Serdatas, NEW r \in Readers, Evict(s, r) PROVE
      Counted'
  <2>1. /\ s \in cache[r] /\ cache' = [cache EXCEPT ![r] = @ \ {s}]
        /\ Removeref(s) /\ UNCHANGED << incoming, sent, wire, slot, lost >>
    BY <1>6 DEF Evict, coreVars, history
  <2>9. HandedKept
    BY <1>6, HandedFrame DEF Evict
  <2> QED BY <2>9, <2>1, CacheChange, Loss
<1>7. ASSUME NEW s \in Serdatas, NEW f \in Fragments, ToSerRef(s, f) PROVE
      Counted'
  <2>1. /\ s \in sent /\ << s, f >> \notin wire
        /\ wire' = wire \cup {<< s, f >>}
        /\ Addref(s) /\ UNCHANGED << incoming, sent, cache, slot, lost >>
    BY <1>7 DEF ToSerRef, history
  <2>2. mem[s] = "live"
    BY <2>1, Kinds DEF Counted, Holders
  <2>9. HandedKept
    BY <1>7, HandedFrame DEF ToSerRef
  <2> QED BY <2>9, <2>1, <2>2, WireChange, Gain DEF Addref
<1>8. ASSUME NEW s \in Serdatas, NEW f \in Fragments, ToSerUnref(s, f) PROVE
      Counted'
  <2>1. /\ << s, f >> \in wire /\ wire' = wire \ {<< s, f >>}
        /\ Removeref(s) /\ UNCHANGED << incoming, sent, cache, slot, lost >>
    BY <1>8 DEF ToSerUnref, history
  <2>9. HandedKept
    BY <1>8, HandedFrame DEF ToSerUnref
  <2> QED BY <2>9, <2>1, WireChange, Loss
<1>9. ASSUME NEW b \in SampleBuffers, NEW r \in Readers, ReadBegin(b, r) PROVE
      Counted'
  <2>1. \A c \in SampleBuffers : op'[c].bound = op[c].bound
    BY <1>9, BoundKept DEF RefsTypeOK
  <2>2. UNCHANGED handed
    BY <1>9 DEF ReadBegin, Begin
  <2>3. HandedKept
    BY <2>1, <2>2, HandedFrame
  <2> QED BY <1>9, <2>3, CountedFrame DEF ReadBegin, Begin, coreVars, history
<1>10. ASSUME NEW b \in SampleBuffers, NEW r \in Readers, ReadCdrBegin(b, r) PROVE
      Counted'
  <2>1. \A c \in SampleBuffers : op'[c].bound = op[c].bound
    BY <1>10, BoundKept DEF RefsTypeOK
  <2>2. UNCHANGED handed
    BY <1>10 DEF ReadCdrBegin, Begin
  <2>3. HandedKept
    BY <2>1, <2>2, HandedFrame
  <2> QED BY <1>10, <2>3, CountedFrame DEF ReadCdrBegin, Begin, coreVars, history
<1>11. ASSUME NEW b \in SampleBuffers, NEW s \in Serdatas, DecodeBegin(b, s) PROVE
      Counted'
  <2>1. \A c \in SampleBuffers : op'[c].bound = op[c].bound
    BY <1>11, BoundKept DEF RefsTypeOK
  <2>2. UNCHANGED handed
    BY <1>11 DEF DecodeBegin
  <2>3. HandedKept
    BY <2>1, <2>2, HandedFrame
  <2> QED BY <1>11, <2>3, CountedFrame DEF DecodeBegin, coreVars, history
<1>12. ASSUME NEW b \in SampleBuffers, NEW s \in Serdatas, Convert(b, s) PROVE
      Counted'
  <2>0. OpOK(b) /\ op[b] \in Op /\ len[b] \in 0..Capacity
    BY DEF OpsOK, RefsTypeOK
  <2>1. op[b].n + 1 \in Slots /\ op[b].reader \in Readers
    BY <1>12, <2>0, SampleRefsAssumption DEF OpOK, Op, Convert, Next1, Slots, Locked
  <2>2. /\ SetSerdata(b, op[b].n + 1, s) /\ s \in cache[op[b].reader]
        /\ UNCHANGED << incoming, sent, wire, cache, handed, lost >>
    BY <1>12 DEF Convert, Next1, coreVars
  <2>3. HandedKept
    BY <1>12, <2>2, BoundKept, HandedFrame DEF RefsTypeOK
  <2> QED BY <2>1, <2>2, <2>3, ConvertCounts
<1>13. ASSUME NEW b \in SampleBuffers, NEW s \in Serdatas, ReadFails(b, s) PROVE
      Counted'
  <2>1. \A c \in SampleBuffers : op'[c].bound = op[c].bound
    BY <1>13, BoundKept DEF RefsTypeOK
  <2>2. UNCHANGED handed
    BY <1>13 DEF ReadFails
  <2>3. HandedKept
    BY <2>1, <2>2, HandedFrame
  <2> QED BY <1>13, <2>3, CountedFrame DEF ReadFails, coreVars, history
<1>14. ASSUME NEW b \in SampleBuffers, NEW s \in Serdatas, Collect(b, s) PROVE
      Counted'
  <2>1. op[b].reader \in Readers /\ op[b].bound = 0
    BY <1>14 DEF OpsOK, OpOK, Collect, Locked
  <2>2. /\ s \in cache[op[b].reader]
        /\ handed' = [handed EXCEPT ![b] = Append(@, s)]
        /\ UNCHANGED << incoming, sent, wire, slot, op, lost >>
    BY <1>14 DEF Collect, coreVars, history
  <2>3. CASE /\ cache' = [cache EXCEPT ![op[b].reader] = @ \ {s}]
             /\ UNCHANGED << mem, refc >>
    BY <2>1, <2>2, <2>3, CollectTakes
  <2>4. CASE Addref(s) /\ UNCHANGED cache
    BY <2>1, <2>2, <2>4, CollectReads
  <2> QED BY <1>14, <2>3, <2>4 DEF Collect
<1>15. ASSUME NEW b \in SampleBuffers, DecodeEnd(b) PROVE Counted'
  <2>1. \A c \in SampleBuffers : op'[c].bound = op[c].bound
    BY <1>15, BoundKept DEF RefsTypeOK
  <2>2. UNCHANGED handed
    BY <1>15 DEF DecodeEnd
  <2>3. HandedKept
    BY <2>1, <2>2, HandedFrame
  <2> QED BY <1>15, <2>3, CountedFrame DEF DecodeEnd, coreVars, history
<1>16. ASSUME NEW b \in SampleBuffers, Taken(b) PROVE Counted'
  <2> DEFINE s == slot[b][op[b].n]
  <2>0. OpOK(b) /\ op[b] \in Op
    BY DEF OpsOK, RefsTypeOK
  <2>1. /\ op[b].n \in Slots /\ op[b].reader \in Readers
        /\ s # Nothing /\ s \in cache[op[b].reader]
    BY <1>16, <2>0, SampleRefsAssumption DEF OpOK, Op, Taken, Slots, Locked
  <2>2. s \in Serdatas
    BY <2>1, SlotRange
  <2>3. /\ cache' = [cache EXCEPT ![op[b].reader] = @ \ {s}]
        /\ Removeref(s) /\ UNCHANGED << incoming, sent, wire, slot, lost >>
    BY <1>16 DEF Taken, coreVars, history
  <2>9. HandedKept
    BY <1>16, BoundKept, HandedFrame DEF RefsTypeOK, Taken
  <2> QED BY <2>9, <2>1, <2>2, <2>3, CacheChange, Loss
<1>17. ASSUME NEW b \in SampleBuffers, ConvertInvalid(b) PROVE Counted'
  <2>0. OpOK(b) /\ op[b] \in Op /\ len[b] \in 0..Capacity
    BY DEF OpsOK, RefsTypeOK
  <2>1. op[b].n + 1 \in Slots
    BY <1>17, <2>0, SampleRefsAssumption DEF OpOK, Op, ConvertInvalid, Slots
  <2>9. HandedKept
    BY <1>17, BoundKept, HandedFrame DEF RefsTypeOK, ConvertInvalid
  <2> QED BY <2>9, <1>17, <2>1, SlotReleased DEF ConvertInvalid, coreVars, history
<1>18. ASSUME NEW b \in SampleBuffers, ReadEnd(b) PROVE Counted'
  <2>1. \A c \in SampleBuffers : op'[c].bound = op[c].bound
    BY <1>18, BoundKept DEF RefsTypeOK
  <2>2. UNCHANGED handed
    BY <1>18 DEF ReadEnd
  <2>3. HandedKept
    BY <2>1, <2>2, HandedFrame
  <2> QED BY <1>18, <2>3, CountedFrame DEF ReadEnd, coreVars, history
<1>19. ASSUME NEW b \in SampleBuffers, NoData(b) PROVE Counted'
  <2>1. \A c \in SampleBuffers : op'[c].bound = op[c].bound
    BY <1>19, BoundKept DEF RefsTypeOK
  <2>2. UNCHANGED handed
    BY <1>19 DEF NoData
  <2>3. HandedKept
    BY <2>1, <2>2, HandedFrame
  <2> QED BY <1>19, <2>3, CountedFrame DEF NoData, coreVars, history
<1>20. ASSUME NEW b \in SampleBuffers, Poll(b) PROVE Counted'
  <2>1. \A c \in SampleBuffers : op'[c].bound = op[c].bound
    BY <1>20, BoundKept DEF RefsTypeOK
  <2>2. UNCHANGED handed
    BY <1>20 DEF Poll
  <2>3. HandedKept
    BY <2>1, <2>2, HandedFrame
  <2> QED BY <1>20, <2>3, CountedFrame DEF Poll, coreVars, history
<1>21. ASSUME NEW b \in SampleBuffers, Cancel(b) PROVE Counted'
  <2>1. \A c \in SampleBuffers : op'[c].bound = op[c].bound
    BY <1>21, BoundKept DEF RefsTypeOK
  <2>2. UNCHANGED handed
    BY <1>21 DEF Cancel
  <2>3. HandedKept
    BY <2>1, <2>2, HandedFrame
  <2> QED BY <1>21, <2>3, CountedFrame DEF Cancel, coreVars, history
<1>22. ASSUME NEW b \in SampleBuffers, CollectEnd(b) PROVE Counted'
  <2>1. \A c \in SampleBuffers : op'[c].bound = op[c].bound
    BY <1>22, BoundKept DEF RefsTypeOK
  <2>2. UNCHANGED handed
    BY <1>22 DEF CollectEnd
  <2>3. HandedKept
    BY <2>1, <2>2, HandedFrame
  <2> QED BY <1>22, <2>3, CountedFrame DEF CollectEnd, coreVars, history
<1>23. ASSUME NEW b \in SampleBuffers, Bind(b) PROVE Counted'
  <2> DEFINE i == op[b].bound + 1
             s == handed[b][i]
             g == << "handed", b, i >>
  <2>1. /\ i \in 1..Len(handed[b]) /\ i \in Slots /\ s \in Serdatas
        /\ op[b] \in Op
    BY <1>23, Handing DEF Bind, OpsOK, RefsTypeOK
  <2>2. /\ SetSerdata(b, i, s) /\ lost' = [lost EXCEPT ![s] = @ + 1]
        /\ UNCHANGED << incoming, sent, wire, cache >>
    BY <1>23 DEF Bind, coreVars
  <2>3. /\ \A c \in SampleBuffers : c # b => op'[c] = op[c] /\ handed'[c] = handed[c]
        /\ \/ i = Len(handed[b]) /\ handed'[b] = << >> /\ op'[b].bound = 0
           \/ handed'[b] = handed[b] /\ op'[b].bound = i
    <3>1. CASE i = Len(handed[b])
      <4>1. op' = [op EXCEPT ![b] = Idle] /\ handed' = [handed EXCEPT ![b] = << >>]
        BY <1>23, <3>1 DEF Bind
      <4> QED BY <3>1, <4>1, IdleFields DEF RefsTypeOK
    <3>2. CASE i # Len(handed[b])
      <4>1. op' = [op EXCEPT ![b].bound = i] /\ handed' = handed
        BY <1>23, <3>2 DEF Bind
      <4> QED BY <2>1, <4>1 DEF RefsTypeOK, Op
    <3> QED BY <3>1, <3>2
  <2>4. PICK d \in Serdatas : d = s
    BY <2>1
  <2> HIDE DEF s
  <2>5. /\ g \in HandedOut(d) /\ HandedOut(d)' = HandedOut(d) \ {g}
        /\ \A t \in Serdatas \ {d} : HandedOut(t)' = HandedOut(t)
    BY <2>1, <2>3, <2>4, OneLessHanded DEF s
  <2> HIDE DEF g, i
  <2> QED BY <2>1, <2>2, <2>4, <2>5, BindCounts
<1>24. ASSUME NEW b \in SampleBuffers, ClearBegin(b) PROVE Counted'
  <2>1. \A c \in SampleBuffers : op'[c].bound = op[c].bound
    BY <1>24, BoundKept DEF RefsTypeOK
  <2>2. UNCHANGED handed
    BY <1>24 DEF ClearBegin
  <2>3. HandedKept
    BY <2>1, <2>2, HandedFrame
  <2> QED BY <1>24, <2>3, CountedFrame DEF ClearBegin, coreVars, history
<1>25. ASSUME NEW b \in SampleBuffers, FreeContents(b) PROVE Counted'
  <2>0. OpOK(b) /\ op[b] \in Op /\ len[b] \in 0..Capacity
    BY DEF OpsOK, RefsTypeOK
  <2>1. op[b].n + 1 \in Slots
    BY <1>25, <2>0, SampleRefsAssumption DEF OpOK, Op, FreeContents, Slots
  <2>9. HandedKept
    BY <1>25, BoundKept, HandedFrame DEF RefsTypeOK, FreeContents
  <2> QED BY <2>9, <1>25, <2>1, SlotReleased DEF FreeContents, coreVars, history
<1>26. ASSUME NEW b \in SampleBuffers, NEW i \in Slots, Forward(b, i) PROVE
      Counted'
  <2> DEFINE s == slot[b][i]
  <2>1. /\ s # Nothing /\ s \notin sent /\ sent' = sent \cup {s}
        /\ Addref(s) /\ UNCHANGED << incoming, wire, cache, slot, lost >>
    BY <1>26 DEF Forward, history
  <2>2. s \in Serdatas
    BY <2>1, SlotRange
  <2>3. << "slot", b, i >> \in Holders(s)
    BY Kinds DEF Holders
  <2>4. mem[s] = "live"
    BY <2>2, <2>3 DEF Counted
  <2>9. HandedKept
    BY <1>26, HandedFrame DEF Forward
  <2> QED BY <2>9, <2>1, <2>2, <2>4, SentChange, Gain DEF Addref
<1>27. CASE UNCHANGED refsVars
  <2>1. HandedKept
    BY <1>27, HandedFrame DEF refsVars
  <2> QED BY <1>27, <2>1, CountedFrame DEF refsVars, coreVars, history
<1> QED BY <1>1, <1>2, <1>3, <1>4, <1>5, <1>6, <1>7, <1>8, <1>9, <1>10,
         <1>11, <1>12, <1>13, <1>14, <1>15, <1>16, <1>17, <1>18, <1>19,
         <1>20, <1>21, <1>22, <1>23, <1>24, <1>25, <1>26, <1>27 DEF RefsNext,
         Core, Read, Use

(* What is torn stays torn. *)
LEMMA TornStays ==
  ASSUME RefsTypeOK, torn, [RefsNext]_refsVars
  PROVE  torn'
<1>1. CASE UNCHANGED torn
  BY <1>1
<1>2. ASSUME NEW b \in SampleBuffers, NEW i, NEW s, SetSerdata(b, i, s) PROVE torn'
  BY <1>2 DEF SetSerdata
<1>3. CASE \E s \in Serdatas : Core(s)
  BY <1>1, <1>3 DEF Core, Write, Receive, Made, Deliver, Evict, Delivered,
     Acknowledged, ToSerRef, ToSerUnref, history
<1>4. ASSUME NEW b \in SampleBuffers, Read(b) PROVE torn'
  <2>1. ASSUME NEW r \in Readers, ReadBegin(b, r) \/ ReadCdrBegin(b, r) PROVE torn'
    BY <1>1, <2>1 DEF ReadBegin, ReadCdrBegin, Begin, history
  <2>2. ASSUME NEW s \in Serdatas,
               DecodeBegin(b, s) \/ ReadFails(b, s) \/ Collect(b, s)
        PROVE  torn'
    BY <1>1, <2>2 DEF DecodeBegin, ReadFails, Collect, history
  <2>3. ASSUME NEW s \in Serdatas, Convert(b, s) PROVE torn'
    BY <1>2, <2>3 DEF Convert
  <2>4. CASE Bind(b)
    BY <1>2, <2>4 DEF Bind
  <2>5. CASE \/ DecodeEnd(b) \/ Taken(b) \/ ConvertInvalid(b) \/ ReadEnd(b)
             \/ NoData(b) \/ Poll(b) \/ Cancel(b) \/ CollectEnd(b)
    BY <1>1, <2>5 DEF DecodeEnd, Taken, ConvertInvalid, ReadEnd, NoData, Poll,
       Cancel, CollectEnd, history
  <2> QED BY <1>4, <2>1, <2>2, <2>3, <2>4, <2>5 DEF Read
<1>5. ASSUME NEW b \in SampleBuffers, Use(b) PROVE torn'
  BY <1>1, <1>5 DEF Use, ClearBegin, FreeContents, Forward, history
<1> QED BY <1>1, <1>3, <1>4, <1>5 DEF RefsNext, refsVars, history

---------------------------------------------------------------------------
(* The theorems *)

LEMMA InitHolds == RefsInit => IInv
<1> SUFFICES ASSUME RefsInit PROVE IInv
  OBVIOUS
<1>1. RefsTypeOK
  <2>1. len \in [SampleBuffers -> 0..Capacity]
    BY SampleRefsAssumption DEF RefsInit
  <2>2. op \in [SampleBuffers -> Op]
    BY IdleTyped DEF RefsInit
  <2>3. size \in [SampleBuffers -> 0..Capacity]
    BY SampleRefsAssumption DEF RefsInit
  <2>4. handed \in [SampleBuffers -> Seq(Serdatas)]
    <3>1. << >> \in Seq(Serdatas)
      OBVIOUS
    <3> QED BY <3>1 DEF RefsInit
  <2>5. slot \in [SampleBuffers -> [Slots -> Serdatas \cup {Nothing}]]
    BY DEF RefsInit
  <2>6. lost \in [Serdatas -> Nat] /\ torn \in BOOLEAN
    BY DEF RefsInit
  <2> QED BY <2>1, <2>2, <2>3, <2>4, <2>5, <2>6 DEF RefsInit, RefsTypeOK, Uninitialized
<1>2. Counted
  <2>1. SUFFICES ASSUME NEW s \in Serdatas PROVE Holders(s) = {}
    BY FS_EmptySet DEF Counted, RefsInit
  <2>2. InCore(s) = {} /\ OnWire(s) = {} /\ Cached(s) = {}
    BY DEF RefsInit, InCore, OnWire, Cached
  <2>3. InSlots(s) = {}
    <3>1. \A b \in SampleBuffers, i \in Slots : slot[b][i] # s
      BY SampleRefsAssumption DEF RefsInit
    <3> QED BY <3>1, Kinds
  <2>4. HandedOut(s) = {}
    <3>1. \A b \in SampleBuffers : op[b].bound + 1..Len(handed[b]) = {}
      BY DEF RefsInit, Idle
    <3> QED BY <3>1, Kinds
  <2> QED BY <2>2, <2>3, <2>4 DEF Holders
<1>3. \A b \in SampleBuffers : op[b] = Idle
  BY DEF RefsInit
<1>4. OpsOK
  BY <1>3, IdleFields DEF OpsOK, OpOK, RefsInit, Locked
<1>5. Exclusive
  BY <1>3, IdleFields DEF Exclusive, Locked
<1> QED BY <1>1, <1>2, <1>4, <1>5 DEF IInv

LEMMA IInvStep ==
  ASSUME IInv, [RefsNext]_refsVars
  PROVE  IInv'
<1>1. RefsTypeOK' /\ OpsOK' /\ Exclusive'
  BY TypeStep, OpsStep, ExclusiveStep DEF IInv
<1>2. ASSUME ~torn' PROVE Counted'
  BY <1>2, TornStays, CountedStep DEF IInv
<1> QED BY <1>1, <1>2 DEF IInv

LEMMA IInvAlways == RefsSpec => []IInv
<1>1. RefsInit => IInv
  BY InitHolds
<1>2. IInv /\ [RefsNext]_refsVars => IInv'
  BY IInvStep
<1> QED BY <1>1, <1>2, PTL DEF RefsSpec

(* Every state of SampleRefs is well typed: no conversion and no loop over  *)
(* collected pointers runs past the end of its buffer.                      *)
THEOREM SamplesTyped == RefsSpec => []RefsTypeOK
<1>1. IInv => RefsTypeOK
  BY DEF IInv
<1> QED BY <1>1, IInvAlways, PTL

(* Until something is torn, refc is the number of holders and of references *)
(* lost to CDR reads, whatever the interleaving of readers, buffers and the *)
(* core.                                                                    *)
THEOREM CountsRight == RefsSpec => []RefsCounted
<1>1. IInv => RefsCounted
  <2> SUFFICES ASSUME IInv, ~torn, NEW s \in Serdatas, mem[s] # "freed"
               PROVE  refc[s] = Cardinality(Holders(s)) + lost[s]
    BY DEF RefsCounted
  <2>1. CASE mem[s] = "live"
    BY <2>1 DEF IInv, Counted
  <2>2. CASE mem[s] = "none"
    <3>1. Holders(s) = {} /\ refc[s] = 0 /\ lost[s] = 0
      BY <2>2 DEF IInv, Counted
    <3> QED BY <3>1, FS_EmptySet
  <2>3. mem[s] \in {"none", "live", "freed"}
    BY DEF IInv, RefsTypeOK
  <2> QED BY <2>1, <2>2, <2>3
<1> QED BY <1>1, IInvAlways, PTL

(* As long as no buffer is read into while one of its old samples is        *)
(* referred to from elsewhere, no pointer that a slot, a cache, to_ser_ref  *)
(* or a CDR read keeps dangles.                                             *)
THEOREM HeldLive == RefsSpec => []HeldIsLiveUntilTorn
<1>1. IInv => HeldIsLiveUntilTorn
  BY DEF IInv, Counted, HeldIsLive, HeldIsLiveUntilTorn
<1> QED BY <1>1, IInvAlways, PTL

(* A serdata nobody refers to has been freed, or a CDR read has lost a      *)
(* reference to it: nothing else leaks.                                     *)
THEOREM NoneLeak == RefsSpec => []OnlyCdrLeaks
<1>1. IInv => OnlyCdrLeaks
  BY DEF IInv, Counted, OnlyCdrLeaks
<1> QED BY <1>1, IInvAlways, PTL

(* The three together: up to what the code gets wrong, the references of    *)
(* every serdata are counted right.                                         *)
THEOREM RefsAreSound == RefsSpec => []RefsSound
<1>1. RefsSpec => []RefsCounted
  BY CountsRight
<1>2. RefsSpec => []HeldIsLiveUntilTorn
  BY HeldLive
<1>3. RefsSpec => []OnlyCdrLeaks
  BY NoneLeak
<1>4. RefsCounted /\ HeldIsLiveUntilTorn /\ OnlyCdrLeaks => RefsSound
  BY DEF RefsSound
<1> QED BY <1>1, <1>2, <1>3, <1>4, PTL

(* A decoded sample changes only at the end of a decode. *)
LEMMA SampleKept ==
  ASSUME RefsTypeOK, [RefsNext]_refsVars, NEW s \in Serdatas, mem[s] = "live",
         sample'[s] # sample[s]
  PROVE  \E c \in SampleBuffers : op[c].decoding = s /\ op'[c].decoding = Nothing
<1>1. ~UNCHANGED sample
  OBVIOUS
<1>2. ASSUME NEW t \in Serdatas, NEW content, Made(t, content)
      PROVE  sample'[s] = sample[s]
  BY <1>2 DEF RefsTypeOK, Made
<1>3. ASSUME NEW b \in SampleBuffers, DecodeEnd(b)
      PROVE  op[b].decoding = s /\ op'[b].decoding = Nothing
  <2>1. sample' = [sample EXCEPT ![op[b].decoding] = @ + 1]
    BY <1>3 DEF DecodeEnd
  <2>2. op[b].decoding = s
    BY <2>1 DEF RefsTypeOK
  <2>3. op' = [op EXCEPT ![b].decoding = Nothing] /\ op[b] \in Op
    BY <1>3 DEF DecodeEnd, RefsTypeOK
  <2> QED BY <2>2, <2>3 DEF RefsTypeOK, Op
<1>4. ASSUME NEW t \in Serdatas, Core(t) PROVE FALSE
  BY ZenonT(40), <1>1, <1>2, <1>4 DEF Core, Write, Receive, Deliver, Evict, Delivered,
     Acknowledged, ToSerRef, ToSerUnref
<1>5. ASSUME NEW b \in SampleBuffers, Read(b) \/ Use(b) PROVE DecodeEnd(b)
  BY ZenonT(40), <1>1, <1>5 DEF Read, Use, ReadBegin, ReadCdrBegin, Begin,
     DecodeBegin, Convert, ReadFails, Collect, Taken, ConvertInvalid, ReadEnd,
     NoData, Poll, Cancel, CollectEnd, Bind, ClearBegin, FreeContents, Forward
<1> QED BY <1>1, <1>3, <1>4, <1>5 DEF RefsNext, refsVars

(* Only an operation on a buffer changes what its slots refer to. *)
LEMMA BufferKept ==
  ASSUME RefsTypeOK, [RefsNext]_refsVars, NEW b \in SampleBuffers,
         op[b].pc = "idle", op'[b].pc = "idle"
  PROVE  slot'[b] = slot[b] /\ size'[b] = size[b]
<1>1. CASE UNCHANGED << slot, size >>
  BY <1>1
<1>2. CASE \E t \in Serdatas : Core(t)
  BY <1>1, <1>2 DEF Core, Write, Receive, Made, Deliver, Evict, Delivered,
     Acknowledged, ToSerRef, ToSerUnref
<1>3. ASSUME NEW c \in SampleBuffers, NEW r \in Readers, NEW step \in OpStep \ {"idle"},
             NEW take, Begin(c, r, step, take)
      PROVE  slot'[b] = slot[b] /\ size'[b] = size[b]
  <2>1. op'[c] = [Idle EXCEPT !.pc = step, !.reader = r, !.take = take]
    BY <1>3 DEF Begin, RefsTypeOK
  <2>2. op'[c].pc = step
    BY <2>1 DEF Idle
  <2>3. c # b
    BY <1>3, <2>2
  <2> QED BY <1>3, <2>3 DEF Begin, RefsTypeOK
<1>4. ASSUME NEW c \in SampleBuffers, ClearBegin(c)
      PROVE  slot'[b] = slot[b] /\ size'[b] = size[b]
  <2>1. op'[c].pc = "clearing"
    BY <1>4 DEF ClearBegin, RefsTypeOK, Op
  <2> QED BY <1>4, <2>1 DEF ClearBegin, RefsTypeOK
<1>5. ASSUME NEW c \in SampleBuffers, c # b, UNCHANGED size,
             NEW i, NEW x, slot' = [slot EXCEPT ![c][i] = x]
      PROVE  slot'[b] = slot[b] /\ size'[b] = size[b]
  BY <1>5 DEF RefsTypeOK
<1>6. ASSUME NEW c \in SampleBuffers, Bind(c)
      PROVE  slot'[b] = slot[b] /\ size'[b] = size[b]
  <2>1. c # b
    BY <1>6 DEF Bind
  <2> QED BY <1>6, <2>1 DEF Bind, SetSerdata, RefsTypeOK
<1>7. ASSUME NEW c \in SampleBuffers, ReadEnd(c)
      PROVE  slot'[b] = slot[b] /\ size'[b] = size[b]
  <2>1. c # b
    BY <1>7 DEF ReadEnd
  <2> QED BY <1>7, <2>1 DEF ReadEnd, RefsTypeOK
<1>8. ASSUME NEW c \in SampleBuffers, NEW s \in Serdatas, Convert(c, s)
      PROVE  slot'[b] = slot[b] /\ size'[b] = size[b]
  <2>1. c # b
    BY <1>8 DEF Convert
  <2> QED BY <1>5, <1>8, <2>1 DEF Convert, SetSerdata
<1>9. ASSUME NEW c \in SampleBuffers, ConvertInvalid(c) \/ FreeContents(c)
      PROVE  slot'[b] = slot[b] /\ size'[b] = size[b]
  <2>1. c # b
    BY <1>9 DEF ConvertInvalid, FreeContents
  <2> QED BY ZenonT(40), <1>5, <1>9, <2>1 DEF ConvertInvalid, FreeContents
<1>10. ASSUME NEW c \in SampleBuffers, Read(c) PROVE slot'[b] = slot[b] /\ size'[b] = size[b]
  <2>1. ASSUME NEW r \in Readers, ReadBegin(c, r) \/ ReadCdrBegin(c, r)
        PROVE  slot'[b] = slot[b] /\ size'[b] = size[b]
    BY <1>3, <2>1 DEF ReadBegin, ReadCdrBegin, OpStep
  <2>2. ASSUME NEW s \in Serdatas,
               DecodeBegin(c, s) \/ ReadFails(c, s) \/ Collect(c, s)
        PROVE  slot'[b] = slot[b] /\ size'[b] = size[b]
    BY <1>1, <2>2 DEF DecodeBegin, ReadFails, Collect
  <2>3. CASE \/ DecodeEnd(c) \/ Taken(c) \/ NoData(c) \/ Poll(c) \/ Cancel(c)
             \/ CollectEnd(c)
    BY <1>1, <2>3 DEF DecodeEnd, Taken, NoData, Poll, Cancel, CollectEnd
  <2> QED BY <1>6, <1>7, <1>8, <1>9, <1>10, <2>1, <2>2, <2>3 DEF Read
<1>11. ASSUME NEW c \in SampleBuffers, Use(c) PROVE slot'[b] = slot[b] /\ size'[b] = size[b]
  <2>1. ASSUME NEW i \in Slots, Forward(c, i)
        PROVE  slot'[b] = slot[b] /\ size'[b] = size[b]
    BY <1>1, <2>1 DEF Forward
  <2> QED BY <1>4, <1>9, <1>11, <2>1 DEF Use
<1> QED BY <1>1, <1>2, <1>10, <1>11 DEF RefsNext, refsVars

(* What an idle buffer shows it keeps showing, the same serdata with the    *)
(* same decoded sample, until another thread ends a decode of that serdata  *)
(* or something is torn.                                                    *)
THEOREM ShownKept == RefsSpec => ShownStaysUnlessRaced
<1>1. ASSUME IInv, IInv', [RefsNext]_refsVars, NEW b \in SampleBuffers, Borrowed(b),
             NEW shown \in Shown(b) \ Shown(b)'
      PROVE  \E c \in SampleBuffers : op[c].decoding = shown[2] /\ op'[c].decoding = Nothing
  <2>1. slot'[b] = slot[b] /\ size'[b] = size[b]
    BY <1>1, BufferKept DEF IInv, Borrowed
  <2>2. PICK i \in 1..size[b] : /\ slot[b][i] # Nothing /\ mem[slot[b][i]] = "live"
                               /\ IsDecoded(slot[b][i])
                               /\ shown = << i, slot[b][i], sample[slot[b][i]] >>
    BY <1>1 DEF Shown
  <2>3. i \in Slots
    BY <1>1, SampleRefsAssumption DEF IInv, RefsTypeOK, Slots
  <2>4. PICK s \in Serdatas : s = slot[b][i]
    BY <1>1, <2>2, <2>3, SlotRange DEF IInv
  <2>5. mem'[s] = "live"
    <3>1. << "slot", b, i >> \in InSlots(s)'
      BY <2>1, <2>3, <2>4 DEF InSlots
    <3>2. Holders(s)' # {} /\ ~torn'
      BY <1>1, <3>1 DEF Holders, Borrowed
    <3> QED BY <1>1, <3>2 DEF IInv, Counted
  <2>6. sample'[s] # sample[s]
    <3>1. SUFFICES ASSUME sample'[s] = sample[s] PROVE shown \in Shown(b)'
      BY <1>1
    <3> QED BY <2>1, <2>2, <2>4, <2>5, <3>1 DEF Shown, IsDecoded
  <2> QED BY <1>1, <2>2, <2>4, <2>6, SampleKept DEF IInv
<1>2. IInv /\ IInv' /\ [RefsNext]_refsVars =>
        [\A b \in SampleBuffers : Borrowed(b) =>
           \A shown \in Shown(b) \ Shown(b)' : \E c \in SampleBuffers :
             op[c].decoding = shown[2] /\ op'[c].decoding = Nothing]_refsVars
  BY <1>1
<1> QED BY <1>2, IInvAlways, PTL DEF RefsSpec, ShownStaysUnlessRaced
=============================================================================
