--------------------------- MODULE MCPreparation ---------------------------
(* All small blocks under the plans with a consumer, and all controls for  *)
(* one block.                                                              *)
EXTENDS Preparation

Omitted ==
  [mode |-> "", source |-> "", representation |-> "", builder |-> "", wait |-> "",
   injection |-> "", estimateRead |-> "", idleWait |-> "", dispatch |-> ""]

OrOmitted(values) == values \cup {"", "unknown"}

\* The dependency controls, with the kernel left to its defaults.
DependencyControls ==
  {[Omitted EXCEPT !.mode = m, !.source = s, !.representation = r, !.builder = b, !.wait = w,
                   !.injection = i] :
     m \in OrOmitted(Modes), s \in OrOmitted(Sources), r \in OrOmitted(Representations),
     b \in OrOmitted(Builders), w \in OrOmitted(WaitPolicies), i \in OrOmitted(Injections)}

\* The four legacy modes, which name their source.
Legacy ==
  {[Omitted EXCEPT !.mode = m, !.source = "static_program"] : m \in Modes}

\* The kernel controls with each of them.
KernelControls ==
  {[c EXCEPT !.estimateRead = e, !.idleWait = i, !.dispatch = d] :
     c \in Legacy, e \in OrOmitted(EstimateReads), i \in OrOmitted(IdleWaits), d \in OrOmitted(Dispatches)}

\* Every set of reads and of writes, a deletion for a write of both keys.
Programs ==
  {{<<"read", k>> : k \in r} \cup {<<"write", k>> : k \in w} : r \in SUBSET Keys, w \in SUBSET Keys}
    \cup {{<<"read", k>>, <<"delete", k>>, <<"compute", k>>} : k \in Keys}

Blocks == [Txns -> Programs]

OneBlock == [t \in Txns |-> {<<"read", k>> : k \in Keys} \cup {<<"write", k>> : k \in Keys}]

Waiting ==
  {c \in Legacy : c.mode # "mvcc_runtime"}
    \cup {[Omitted EXCEPT !.mode = "full_graph", !.source = "static_program", !.builder = "indexed_by_key"]}

AllInputs ==
  {[config |-> c, block |-> b] : c \in Waiting, b \in Blocks}
    \cup {[config |-> c, block |-> OneBlock] : c \in DependencyControls \cup KernelControls}
=============================================================================
