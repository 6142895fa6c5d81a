------------------------------ MODULE MCWriters ------------------------------
(* Writers with small configurations.                                      *)
EXTENDS Writers

Devices(n3350, nFake, n3302, n3316, n1785, n6742, n1742, nDrs4) ==
    [k \in Kind \cup {"fake"} |->
        CASE k = "sis_3350" -> n3350 [] k = "fake" -> nFake [] k = "sis_3302" -> n3302
          [] k = "sis_3316" -> n3316 [] k = "caen_1785" -> n1785
          [] k = "caen_6742" -> n6742 [] k = "caen_1742" -> n1742 [] k = "drs4" -> nDrs4]

(* Without SIS 3316, and with one CAEN 1742 at most.                       *)
MCSound == {Devices(2, 1, 2, 0, 1, 1, 1, 1), Devices(0, 2, 0, 0, 2, 0, 1, 2)}

(* One SIS 3316; two CAEN 1742.                                            *)
MCUnsound == {Devices(1, 0, 1, 1, 0, 0, 0, 0), Devices(1, 0, 0, 0, 1, 0, 2, 0)}
=============================================================================
