--------------------------- MODULE ReadContract ---------------------------
(***************************************************************************)
(* What an asynchronous read promises its caller, without threads, wakers, *)
(* deadlines or instants: README.md ("stop_when_no_writer"), the doc       *)
(* comments of ReaderBuilder::stop_when_no_writer and DdsReader::          *)
(* read_async, and the "reported once" comment on pending_error.           *)
(***************************************************************************)
EXTENDS Naturals

CONSTANTS Readers, Timeout, Tasks, ReaderOf

VARIABLES
  counting,   \* counting[r]: no writer is matched, silence is measured
  silence,    \* silence[r]: for how long there has been no writer
  owed,       \* owed[r]: a missed deadline nobody was told about yet
  status      \* status[t]: "waiting", or how the last read of t ended

contractVars == << counting, silence, owed, status >>

ContractInit ==
  /\ counting = [r \in Readers |-> FALSE]
  /\ silence = [r \in Readers |-> 0]
  /\ owed = [r \in Readers |-> FALSE]
  /\ status = [t \in Tasks |-> "idle"]

TimePasses ==
  /\ silence' = [r \in Readers |-> IF counting[r] THEN silence[r] + 1 ELSE 0]
  /\ UNCHANGED << counting, owed, status >>

(* The reader is created or its last writer goes *)
WriterGone(r) ==
  /\ ~ counting[r]
  /\ counting' = [counting EXCEPT ![r] = TRUE]
  /\ UNCHANGED << silence, owed, status >>

WriterMatched(r) ==
  /\ counting' = [counting EXCEPT ![r] = FALSE]
  /\ silence' = [silence EXCEPT ![r] = 0]
  /\ UNCHANGED << owed, status >>

DeadlineMissed(r) ==
  /\ owed' = [owed EXCEPT ![r] = TRUE]
  /\ UNCHANGED << counting, silence, status >>

BeginRead(t) ==
  /\ status[t] # "waiting"
  /\ status' = [status EXCEPT ![t] = "waiting"]
  /\ UNCHANGED << counting, silence, owed >>

End(t, outcome) ==
  /\ status[t] = "waiting"
  /\ status' = [status EXCEPT ![t] = outcome]
  /\ UNCHANGED << counting, silence >>

(* Samples, an error of the C library, or the future goes away *)
EndPlainly(t) ==
  /\ \E outcome \in {"ok", "ddsError", "cancelled", "panicked"} :
       End(t, outcome)
  /\ UNCHANGED owed

(* A missed deadline is reported to one read *)
EndMissed(t) ==
  /\ owed[ReaderOf[t]]
  /\ End(t, "missed")
  /\ owed' = [owed EXCEPT ![ReaderOf[t]] = FALSE]

(* NoMatchedWriter: the silence lasted the whole timeout, without a break *)
EndNoWriter(t) ==
  /\ counting[ReaderOf[t]]
  /\ silence[ReaderOf[t]] >= Timeout[ReaderOf[t]]
  /\ End(t, "noWriter")
  /\ UNCHANGED owed

ContractNext ==
  \/ TimePasses
  \/ \E r \in Readers : WriterGone(r) \/ WriterMatched(r) \/ DeadlineMissed(r)
  \/ \E t \in Tasks : \/ BeginRead(t) \/ EndPlainly(t) \/ EndMissed(t)
                      \/ EndNoWriter(t)

ContractSpec == ContractInit /\ [][ContractNext]_contractVars

===========================================================================
