------------------------- MODULE MCEventManagerTrgSeq -------------------------
(* One or two digitizers that see the probes of two rounds.                *)
EXTENDS EventManagerTrgSeq

OneBanked == <<"sis_3316">>
BankedAndSampling == <<"sis_3316", "sis_3350">>
BothFirst == <<1, 1>>
InTurn == <<1, 2>>
=============================================================================
