------------------------------ MODULE MCSis3316 ------------------------------
(* An instance of Sis3316: one other thread shares the bus, and, the worst *)
(* case, the static variables of the calls.                                *)
EXTENDS Sis3316

MCThread == {"digitizer", "other"}
MCClass == [t \in MCThread |-> "sis_3316"]
=============================================================================
