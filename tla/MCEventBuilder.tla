---------------------------- MODULE MCEventBuilder ----------------------------
(* Two workers for TLC; the configurations name the kinds.                 *)
EXTENDS EventBuilder

TwoBuffering == <<"sis_3316", "caen_1785">>
OneBuffering == <<"caen_1742">>
TwoSampling == <<"sis_3302", "sis_3350">>
=============================================================================
