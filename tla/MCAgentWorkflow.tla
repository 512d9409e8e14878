--------------------------- MODULE MCAgentWorkflow ---------------------------
(***************************************************************************)
(* The agents in the checkout that README.md:17-18 makes, `git clone ...    *)
(* adam-chip`: no directory `chip` of a repository around it.              *)
(***************************************************************************)
EXTENDS AgentWorkflow
AgentWorkflowSpec == WorkflowInit /\ [][WorkflowNext]_wfVars
=============================================================================
