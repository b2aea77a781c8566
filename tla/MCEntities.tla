----------------------------- MODULE MCEntities -----------------------------
(***************************************************************************)
(* Three models that share no state, of who owns what: the life cycle of   *)
(* domains and shared participants, the tree of entities with their        *)
(* listeners, and the serdatas.  The initial state chooses which one       *)
(* moves; the others stay where they begin.                                *)
(***************************************************************************)
EXTENDS DomainLifecycle, EntityTree, MCSampleRefs
LOCAL Seqs == INSTANCE SequencesExt

VARIABLE part

entitiesVars == << part, vars, treeVars, refsVars >>

(* Handles, serdatas, buffers and boxes of callbacks are only compared, so   *)
(* TLC takes them into use in one order, and makes the buffers in the order *)
(* of their lengths: a symmetry reduction                                   *)
HandleOrder == Seqs!SetToSeq(Handles)
ListenerOrder == Seqs!SetToSeq(Listeners)
SerdataOrder == Seqs!SetToSeq(Serdatas)
BufferOrder == Seqs!SetToSeq(SampleBuffers)

TakenInOrder(order, taken) ==
  \A i \in 2..Len(order) : order[i] \in taken => order[i - 1] \in taken

LongestFirst ==
  \A i \in 2..Len(BufferOrder) : len[BufferOrder[i]] <= len[BufferOrder[i - 1]]

EntitiesInit ==
  /\ part \in {"lifecycle", "tree", "serdatas"}
  /\ Init /\ TreeInit
  /\ IF part = "serdatas" THEN RefsInit /\ LongestFirst
     ELSE len = [b \in SampleBuffers |-> 1] /\ RefsInit

EntitiesNext ==
  /\ UNCHANGED part
  /\ \/ /\ part = "lifecycle" /\ Next /\ UNCHANGED << treeVars, refsVars >>
        /\ TakenInOrder(HandleOrder, used')
     \/ /\ part = "tree" /\ TreeNext /\ UNCHANGED << vars, refsVars >>
        /\ TakenInOrder(ListenerOrder, { k \in Listeners : box'[k] # "none" })
     \/ /\ part = "serdatas" /\ RefsNext /\ FewReferences'
        /\ UNCHANGED << vars, treeVars >>
        /\ TakenInOrder(SerdataOrder, { s \in Serdatas : mem'[s] # "none" })

EntitiesSpec == EntitiesInit /\ [][EntitiesNext]_entitiesVars
=============================================================================
