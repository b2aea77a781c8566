----------------------------- MODULE BenchCases -----------------------------
(***************************************************************************)
(* What the benchmark computes (bench/src/lib.rs, bin/runner.rs): payloads *)
(* on either side of a size on the wire, the summary of latencies, and a   *)
(* CDR case with its record.  A process case is BenchProtocol.             *)
(***************************************************************************)
EXTENDS Integers, Sequences, FiniteSets, SequencesExt

CONSTANTS WireBytes,     \* sizes on the wire that cases may name
          UsizeMax,
          Nanos,         \* latencies
          MaxLatencies,  \* bound: latencies measured
          Warmup, Measured

ASSUME BenchCasesAssumption ==
  /\ UsizeMax \in Nat /\ WireBytes \subseteq 0..UsizeMax /\ Nanos \subseteq Nat
  /\ MaxLatencies \in Nat /\ Warmup \in Nat /\ Measured \in Nat

(* CDR of a BenchmarkMessage: header, two u64, a length, the payload *)
size_at(payload) == 24 + payload

VARIABLES
  relation, wire_bytes,  \* of the boundary that is searched
  step,       \* "bisect", "align", then "found" or "overflow"
  low, high,  \* of the bisection; while aligning, low is the payload
  latencies,  \* measured so far
  sequence,   \* message of the CDR case
  broken,     \* messages that did not come back as they were
  cdr_outcome,    \* of the CDR case: "running", "record", "error", or its exit
  lines       \* results.jsonl: the status of each record

boundaryVars == << relation, wire_bytes, step, low, high >>
cdrVars == << sequence, broken, cdr_outcome, lines >>
casesVars == << boundaryVars, latencies, cdrVars >>

CasesInit ==
  /\ relation \in {"above", "below"} /\ wire_bytes \in WireBytes
  /\ step = "bisect" /\ low = 0 /\ high = IF wire_bytes > 1 THEN wire_bytes ELSE 1
  /\ latencies = << >>
  /\ sequence = 0 /\ broken = {} /\ cdr_outcome = "running" /\ lines = << >>

---------------------------------------------------------------------------
(* find_boundary_payload.  The loop that doubles high ends at once, because *)
(* a message is larger than its payload.                                    *)

(* The first payload above, or the one before it *)
Bisected ==
  /\ low >= high
  /\ \/ relation = "above" /\ step' = "align" /\ UNCHANGED low
     \/ relation = "below" /\ low > 0 /\ step' = "align" /\ low' = low - 1
     \/ relation = "below" /\ low = 0 /\ step' = "overflow" /\ UNCHANGED low
  /\ UNCHANGED high

Halve ==
  /\ low < high
  /\ LET middle == low + (high - low) \div 2 IN
     IF size_at(middle) <= wire_bytes
     THEN low' = middle + 1 /\ UNCHANGED high
     ELSE high' = middle /\ UNCHANGED low
  /\ UNCHANGED step

Bisect ==
  /\ step = "bisect"
  /\ Bisected \/ Halve
  /\ UNCHANGED << relation, wire_bytes >>

(* Mutant of Aligned: aligned to eight, like its numbers *)
AlignedToEight == size_at(low) % 8 = 0

Aligned ==
  /\ size_at(low) % 4 = 0
  /\ (relation = "above") <=> (size_at(low) > wire_bytes)

(* aligned_boundary_payload *)
Align ==
  /\ step = "align"
  /\ \/ Aligned /\ step' = "found" /\ UNCHANGED low
     \/ /\ ~Aligned
        /\ LET next == IF relation = "above" THEN low + 1 ELSE low - 1 IN
           IF next \in 0..UsizeMax THEN low' = next /\ UNCHANGED step
           ELSE step' = "overflow" /\ UNCHANGED low
  /\ UNCHANGED << relation, wire_bytes, high >>

FindBoundary == (Bisect \/ Align) /\ UNCHANGED << latencies, cdrVars >>

---------------------------------------------------------------------------
(* A latency is measured *)
Measure ==
  /\ Len(latencies) < MaxLatencies
  /\ \E ns \in Nanos : latencies' = Append(latencies, ns)
  /\ UNCHANGED << boundaryVars, cdrVars >>

(* Of the sorted values; the index is rounded up *)
percentile(sorted, p) == sorted[1 + ((Len(sorted) - 1) * p + 99) \div 100]

(* sort_unstable: the values in an order in which none is less than the one *)
(* before it                                                                *)
Sorted(values) ==
  LET order == CHOOSE p \in Injection(DOMAIN values, DOMAIN values) :
                 \A i, j \in DOMAIN values : i < j => values[p[i]] <= values[p[j]]
  IN [i \in DOMAIN values |-> values[order[i]]]

latency_summary(values) ==
  LET sorted == Sorted(values) IN
  [ count |-> Len(values), min |-> sorted[1], max |-> sorted[Len(sorted)],
    mean |-> FoldLeft(LAMBDA a, b : a + b, 0, values) \div Len(values),
    p50 |-> percentile(sorted, 50), p95 |-> percentile(sorted, 95),
    p99 |-> percentile(sorted, 99) ]

---------------------------------------------------------------------------
(* run_cdr: a message is encoded and decoded; warm-up counts for nothing,   *)
(* unless one of the two fails                                              *)
Roundtrip ==
  /\ cdr_outcome = "running" /\ sequence < Warmup + Measured
  /\ \/ /\ sequence' = sequence + 1
        /\ \/ UNCHANGED broken
           \/ broken' = broken \cup {sequence}
        /\ UNCHANGED cdr_outcome
     \/ cdr_outcome' = "error" /\ UNCHANGED << sequence, broken >>
  /\ UNCHANGED lines

MeasuredMessages == Warmup..(Warmup + Measured - 1)
roundtrip_ok == broken \cap MeasuredMessages = {}

Finished ==
  /\ cdr_outcome = "running" /\ sequence = Warmup + Measured
  /\ cdr_outcome' = "record"
  /\ UNCHANGED << sequence, broken, lines >>

RecordStatus == IF cdr_outcome = "record" /\ roundtrip_ok THEN "ok" ELSE "error"

(* main: failed_record for an error, write_json_line, the exit status *)
Exit ==
  /\ cdr_outcome \in {"record", "error"}
  /\ \/ /\ lines' = Append(lines, RecordStatus)
        /\ cdr_outcome' = IF RecordStatus = "ok" THEN "exit ok" ELSE "exit error"
     \/ cdr_outcome' = "unwritten" /\ UNCHANGED lines
  /\ UNCHANGED << sequence, broken >>

RunCdr == (Roundtrip \/ Finished \/ Exit) /\ UNCHANGED << boundaryVars, latencies >>

CasesNext == FindBoundary \/ Measure \/ RunCdr
CasesSpec == CasesInit /\ [][CasesNext]_casesVars

---------------------------------------------------------------------------
(* The boundary cases get the payload next to the boundary on their side    *)
(* whose size is a multiple of four, or an error if there is none           *)
(* (bench/src/lib.rs:709).                                                  *)
OnSide(n) ==
  /\ size_at(n) % 4 = 0
  /\ (relation = "above") <=> (size_at(n) > wire_bytes)

BoundaryRight ==
  /\ step = "found" =>
       /\ OnSide(low)
       /\ \A n \in 0..(wire_bytes + 4) :
            OnSide(n) => IF relation = "above" THEN n >= low ELSE n <= low
  /\ step = "overflow" => \A n \in 0..UsizeMax : ~OnSide(n)

(* A percentile is a measured value that at least that share of the values  *)
(* does not exceed, in the order the summary promises.                      *)
Share(x) == Cardinality({ i \in DOMAIN latencies : latencies[i] <= x }) * 100
SummarySound ==
  latencies # << >> =>
    LET s == latency_summary(latencies) IN
    /\ s.min <= s.p50 /\ s.p50 <= s.p95 /\ s.p95 <= s.p99 /\ s.p99 <= s.max
    /\ s.min <= s.mean /\ s.mean <= s.max
    /\ {s.p50, s.p95, s.p99} \subseteq ToSet(latencies)
    /\ Share(s.p50) >= 50 * s.count /\ Share(s.p95) >= 95 * s.count
    /\ Share(s.p99) >= 99 * s.count

(* A case that ran leaves one line, an error as well, and the exit status   *)
(* and the line agree; it is ok only if every measured message came back.   *)
CdrRecorded ==
  cdr_outcome \in {"exit ok", "exit error"} =>
    /\ lines = << IF cdr_outcome = "exit ok" THEN "ok" ELSE "error" >>
    /\ cdr_outcome = "exit ok" =>
         broken \cap MeasuredMessages = {} /\ sequence = Warmup + Measured

(* What a report of the benchmark rests on (bench/README.md:39, 46).        *)
ReportSound == BoundaryRight /\ SummarySound /\ CdrRecorded
=============================================================================
