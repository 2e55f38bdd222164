---------------------------- MODULE ElasticCompiler ----------------------------
(***************************************************************************)
(* The pipeline of elastic_pass.sh, one pass or one round of a pass to an  *)
(* action: analysis of the function (LLVM's analyses, data hazards,        *)
(* hoisting until nothing moves, poisons, processing elements), the report *)
(* of rewrite rules, the transformation of each kernel, and the pass over  *)
(* the pipes of all of them.                                               *)
(***************************************************************************)
EXTENDS PipeDeduplication

CONSTANT Functions  \* the functions to compile, a sequence

VARIABLES
  phase,
  f, li, cdg,                           \* the function, its loops, its control dependences
  hazards, lod, decoupled, speculated,  \* accesses to queues, branches that wait for them
  requestMap, poison,                   \* requests in each block; poison edges of each
  cddd,                                 \* blocks and loops to decouple
  report, kernels

analyses == <<f, li, cdg>>
hazardAnalysis == <<hazards, lod, decoupled, speculated, requestMap, poison>>
compiler == <<phase, analyses, hazardAnalysis, cddd, report, kernels>>

CompilerInit ==
  /\ phase = "source"
  /\ \E n \in DOMAIN Functions : f = Functions[n]
  /\ li = <<>> /\ cdg = {}
  /\ hazards = <<>> /\ lod = {} /\ decoupled = <<>> /\ speculated = <<>>
  /\ requestMap = <<>> /\ poison = <<>>
  /\ cddd = <<>> /\ report = <<>> /\ kernels = <<>>

Analyse ==
  /\ phase = "source"
  /\ phase' = "hazards"
  /\ li' = LoopInfo(f)
  /\ cdg' = ControlDependenceGraph(f)
  /\ UNCHANGED <<f, hazardAnalysis, cddd, report, kernels>>

FindHazards ==
  /\ phase = "hazards"
  /\ phase' = "hoist"
  /\ hazards' = HazardInstrs(f, li, cdg)
  /\ lod' = LodBranches(f, hazards')
  /\ decoupled' = DecouplingDecisions(f, hazards')
  /\ speculated' = SpeculationDecisions(f, li, cdg, lod', hazards', decoupled')
  /\ requestMap' = RequestMap(f, li, cdg, lod', hazards', speculated')
  /\ UNCHANGED <<analyses, poison, cddd, report, kernels>>

\* One turn of the loop of hoistSpeculativeRequests, or its end.
HoistRequests ==
  /\ phase = "hoist"
  /\ IF HoistingDone(f, li, cdg, lod, requestMap)
     THEN /\ phase' = "poison"
          /\ requestMap' = WithoutUnmoved(f, requestMap)
     ELSE /\ requestMap' = HoistRound(f, li, cdg, lod, requestMap)
          /\ UNCHANGED phase
  /\ UNCHANGED <<analyses, hazards, lod, decoupled, speculated, poison, cddd, report, kernels>>

PlacePoisons ==
  /\ phase = "poison"
  /\ phase' = "decouple"
  /\ poison' = PoisonEdges(f, li, hazards, requestMap)
  /\ UNCHANGED <<analyses, hazards, lod, decoupled, speculated, requestMap, cddd, report, kernels>>

FindRecurrences ==
  /\ phase = "decouple"
  /\ phase' = "report"
  /\ cddd' = ControlDependentDataDependencies(f, li, cdg)
  /\ UNCHANGED <<analyses, hazardAnalysis, report, kernels>>

GenerateInfo ==
  /\ phase = "report"
  /\ phase' = "compose"
  /\ report' = LET all == UNION {ToSet(hazards[q]) : q \in DOMAIN hazards}
                   dha == [hazards   |-> hazards, decoupled |-> decoupled, poison |-> poison,
                           queueSize |-> [q \in DOMAIN hazards |->
                                            StoreQueueSize(f, li, hazards[q], speculated[q])],
                           specBlock |-> [i \in all |-> SpeculationBlock(f, requestMap, i)]]
               IN  Unvisited(GeneratedInfo(f, li, dha, cddd))
  /\ UNCHANGED <<analyses, hazardAnalysis, cddd, kernels>>

\* composeDecoupledKernels, one rule after the other. The report keeps the rules in
\* the order they were pushed (toJSON, deserializeAnalysis).
ComposeNextRule ==
  /\ phase = "compose"
  /\ ~ AllVisited(report)
  /\ report' = Visited(f, li, cdg, report)
  /\ UNCHANGED <<phase, analyses, hazardAnalysis, cddd, kernels>>

WriteReport ==
  /\ phase = "compose"
  /\ AllVisited(report)
  /\ phase' = "transform"
  /\ report' = Composed(report)
  /\ UNCHANGED <<analyses, hazardAnalysis, cddd, kernels>>

\* One kernel after the other. No transformation sees another, so their order
\* does not matter; a null pointer ends the compiler.
TransformKernel ==
  /\ phase = "transform"
  /\ LET x == CHOOSE y \in Kernels(report) : y \notin DOMAIN kernels
     IN  kernels' = (x :> TransformedKernel(f, li, report, x)) @@ kernels
  /\ phase' = IF \E x \in DOMAIN kernels' : kernels'[x].crashed THEN "crashed"
              ELSE IF DOMAIN kernels' = Kernels(report) THEN "pipes" ELSE phase
  /\ UNCHANGED <<analyses, hazardAnalysis, cddd, report>>

DeduplicatePipes ==
  /\ phase = "pipes"
  /\ phase' = "compiled"
  /\ \E order \in KernelOrders(f, DOMAIN kernels) :
       kernels' = DeduplicatedPipes(f, kernels, order)
  /\ UNCHANGED <<analyses, hazardAnalysis, cddd, report>>
=============================================================================
