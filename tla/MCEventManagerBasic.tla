------------------------- MODULE MCEventManagerBasic -------------------------
(* The kinds EventManagerBasic creates, for TLC.                           *)
EXTENDS EventManagerBasic

BankedAndSampling == <<"sis_3316", "sis_3350">>
TwoSampling == <<"sis_3302", "sis_3350">>
=============================================================================
