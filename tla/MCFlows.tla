------------------------------- MODULE MCFlows -------------------------------
(***************************************************************************)
(* MCPanel where TLC also evaluates what Flows assumes of the handlers of  *)
(* HostHive, which FlowProofs rests on: all of their scripts are followed, *)
(* whatever kinds the run is about.                                        *)
(***************************************************************************)
EXTENDS MCPanel, Flows
=============================================================================
