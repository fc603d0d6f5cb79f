-------------------------- MODULE MCReportedCampaign --------------------------
(* One task and repetition under both Workflows.                           *)
EXTENDS ReportedCampaign

OneBlockWorkflows == << "staged", "one_shot" >>
OneBlock == << 1, 1 >>
=============================================================================
