------------------------------ MODULE EventData ------------------------------
(***************************************************************************)
(* What the writers are handed: event_data, a bundle of the workers' data  *)
(* in one vector per kind of device.  There is none for the fake worker's, *)
(* though a configuration may name fake devices.                           *)
(*                                                                         *)
(* A bundle is named by the run it is of and its place in that run; what   *)
(* device i of a kind measured is named by the kind and i.                 *)
(***************************************************************************)
EXTENDS Naturals, Sequences, SequencesExt

CONSTANT BatchSize      \* batch_size_

ASSUME BatchAssumption == BatchSize \in Nat \ {0}

Kinds == <<"sis_3350", "sis_3302", "sis_3316", "caen_1785", "caen_6742",
           "caen_1742", "drs4">>
Kind == Range(Kinds)

VARIABLE devices        \* the configuration: how many devices of each kind

Configuration == [Kind \cup {"fake"} -> Nat]

Datum(kind, i) == [kind |-> kind, i |-> i]

Event(run, n) == <<run, n>>
Later(e, f) == e[1] > f[1] \/ (e[1] = f[1] /\ e[2] > f[2])
=============================================================================
