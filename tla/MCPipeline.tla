------------------------------ MODULE MCPipeline ------------------------------
(* A small instance of DeepEyePipeline for TLC.                                  *)
EXTENDS DeepEyePipeline

CampaignOnly == {"unfinished_only"}
=============================================================================
