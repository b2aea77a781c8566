---------------------------- MODULE MCComponents ----------------------------
(***************************************************************************)
(* Models that share no state, for one run of TLC: the initial state       *)
(* chooses which one moves; the others stay in one initial state.  The     *)
(* properties of a model that does not move hold of that state.            *)
(***************************************************************************)
EXTENDS CdrTransfer, QosHandles, Builders, MCInterfaceDefs, MCDeriveMacros,
        MCTypeSupport, Listeners, MCIdlModules, SampleArrays, Waitset, BenchCases,
        BenchSite, StatusCounters

(* Depths around the least, the widths and the products with               *)
(* SupportInstances; limits; durations beyond infinity and below zero       *)
SmallDepths == {-1, 0, 1, 8}
SmallBounds == {-1, 4}
SmallForeign == {-1, 0, 3}

(* What participants announce of themselves: less than property() asks for,  *)
(* a pid twice, something that is no UTF-8                                   *)
FullProperties ==
  << << "process_name", "text" >>, << "pid", "7" >>, << "host_name", "text" >>,
     << "network_addresses", "text" >> >>
SmallProperties ==
  { Append(Tail(FullProperties), << "other", NotUtf8 >>),
    Append(FullProperties, << "pid", "text" >>),
    Append(FullProperties, << "host_name", NotUtf8 >>) }

(* Two readers, one of them with a read condition                           *)
SmallReaderOf == [c \in {"k"} |-> "r1"]

(* Two run ids over one file name, and an id that is no name.  One run has   *)
(* no figure for udp but one for shared memory.                              *)
SmallPathComponent == [id \in {0, 1, 2, 12, 13} |-> IF id = 13 THEN 12 ELSE id]
OfRun(transport, value) == [transport |-> transport, value |-> value]
SmallResults ==
  { << OfRun("udp", 5) >>, << OfRun("udp", NoMetric), OfRun("shm", 3) >> }

VARIABLE part

allVars ==
  << part, transferVars, qosVars, handleVars, builderVars, defsVars, deriveVars,
     typeVars, listenerVars, idlVars, arrayVars, waitsetVars, casesVars,
     siteVars, statusVars >>

Chosen(p) == part = p

(* The benchmark's three computations move apart from each other *)
CasesParts == {"boundary", "latencies", "cdr"}

ComponentsInit ==
  /\ part \in {"transfer", "qos", "handles", "builders", "defs", "derive", "types",
               "listeners", "idl", "arrays", "waitset", "site", "statuses"} \cup CasesParts
  /\ TransferInit /\ QosInit /\ HandlesInit /\ TypeSupportInit
  /\ ListenersInit /\ ArraysInit /\ WaitsetInit /\ SiteInit
  /\ IF Chosen("builders") THEN BuildersInit
     ELSE kind = "reader" /\ BuildersInit
  /\ IF Chosen("derive") THEN DeriveInit
     ELSE structs = << Plain, Plain >> /\ DeriveInit
  /\ IF Chosen("idl") THEN IdlInit
     ELSE mode = Raw /\ defs = OneStruct /\ IdlInit
  /\ IF Chosen("boundary") THEN CasesInit
     ELSE relation = "above" /\ wire_bytes = 31 /\ CasesInit
  /\ IF Chosen("defs") THEN DefsInit
     ELSE program = AProgram /\ registry = "idl" /\ DefsInit
  /\ IF Chosen("statuses") THEN StatusInit
     ELSE endpoint = "reader" /\ user_hooks = {} /\ StatusInit

(* Everything but p stays as it is *)
OthersStay(p) ==
  /\ UNCHANGED part
  /\ IF p = "transfer" THEN TRUE ELSE UNCHANGED transferVars
  /\ IF p = "qos" THEN TRUE ELSE UNCHANGED qosVars
  /\ IF p = "handles" THEN TRUE ELSE UNCHANGED handleVars
  /\ IF p = "builders" THEN TRUE ELSE UNCHANGED builderVars
  /\ IF p = "defs" THEN TRUE ELSE UNCHANGED defsVars
  /\ IF p = "derive" THEN TRUE ELSE UNCHANGED deriveVars
  /\ IF p = "types" THEN TRUE ELSE UNCHANGED typeVars
  /\ IF p = "listeners" THEN TRUE ELSE UNCHANGED listenerVars
  /\ IF p = "idl" THEN TRUE ELSE UNCHANGED idlVars
  /\ IF p = "arrays" THEN TRUE ELSE UNCHANGED arrayVars
  /\ IF p = "waitset" THEN TRUE ELSE UNCHANGED waitsetVars
  /\ IF p \in CasesParts THEN TRUE ELSE UNCHANGED casesVars
  /\ IF p = "site" THEN TRUE ELSE UNCHANGED siteVars
  /\ IF p = "statuses" THEN TRUE ELSE UNCHANGED statusVars

ComponentsNext ==
  /\ OthersStay(part)
  /\ \/ Chosen("transfer") /\ TransferNext
     \/ Chosen("qos") /\ QosNext
     \/ Chosen("handles") /\ HandlesNext
     \/ Chosen("builders") /\ BuildersNext
     \/ Chosen("defs") /\ DefsNext
     \/ Chosen("derive") /\ DeriveNext
     \/ Chosen("types") /\ TypeSupportNext
     \/ Chosen("listeners") /\ ListenersNext
     \/ Chosen("idl") /\ IdlNext
     \/ Chosen("arrays") /\ ArraysNext
     \/ Chosen("waitset") /\ WaitsetNext
     \/ Chosen("boundary") /\ FindBoundary
     \/ Chosen("latencies") /\ Measure
     \/ Chosen("cdr") /\ RunCdr
     \/ Chosen("site") /\ SiteNext
     \/ Chosen("statuses") /\ StatusNext

ComponentsSpec == ComponentsInit /\ [][ComponentsNext]_allVars
=============================================================================
