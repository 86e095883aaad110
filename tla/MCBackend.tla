----------------------------- MODULE MCBackend ------------------------------
(* Model-checking instance of three modules that share no state: the life  *)
(* of one token (TokenLifecycle), what an event becomes on its way         *)
(* (EventPipeline) and the monitor page (DockerMonitor).  `focus` chooses  *)
(* which of them runs; the others stay in their initial state.             *)
EXTENDS TokenLifecycle, EventPipeline, DockerMonitor, TLC

VARIABLE focus

(* A token's life, its creation of the pool after the migration.           *)
Life == <<"create", "trade", "migrate", "createPool">>

BackendSymmetry == Permutations(Requests)

MCInit ==
  /\ focus \in {"lifecycle", "pipeline", "monitor"}
  /\ Init /\ PipelineInit /\ MonitorInit

MCNext ==
  \/ focus = "lifecycle" /\ Next /\ UNCHANGED <<pipelineVars, monitorVars, focus>>
  \/ focus = "pipeline" /\ PipelineNext /\ UNCHANGED <<vars, monitorVars, focus>>
  \/ focus = "monitor" /\ MonitorNext /\ UNCHANGED <<vars, pipelineVars, focus>>

MCSpec == MCInit /\ [][MCNext]_<<vars, pipelineVars, monitorVars, focus>>
=============================================================================
