------------------------------ MODULE WriterRoot ------------------------------
(***************************************************************************)
(* WriterRoot: a tree with a branch for every configured device.  A branch *)
(* holds the address of the element of root_data_'s vectors it is filled   *)
(* from; PushData copies an event into the vectors and fills the tree.     *)
(*                                                                         *)
(* A vector is its size, its capacity and how often it was reallocated,    *)
(* which is what tells an address from one that dangles.                   *)
(***************************************************************************)
EXTENDS EventData

CONSTANT NeedSync       \* need_sync_

ASSUME RootAssumption == NeedSync \in BOOLEAN

VARIABLES
    root_data,      \* root_data_: its vectors
    branches,       \* the branches of pt_
    baskets,        \* the tree's entries that are not in the file yet
    file            \* the entries in the file

rootVars == <<root_data, branches, baskets, file>>

RootInit ==
    /\ root_data = [k \in Kind |-> [size |-> 0, capacity |-> 0, allocation |-> 0]]
    /\ branches = <<>> /\ baskets = <<>> /\ file = <<>>

-----------------------------------------------------------------------------
(* std::vector.                                                            *)

Reserve(vecs, kind, n) ==
    IF n <= vecs[kind].capacity THEN vecs
    ELSE [vecs EXCEPT ![kind].capacity = n, ![kind].allocation = @ + 1]

Resize(vecs, kind, n) ==
    LET v == vecs[kind]
        needed == IF n > 2 * v.size THEN n ELSE 2 * v.size
    IN  IF n <= v.capacity THEN [vecs EXCEPT ![kind].size = n]
        ELSE [vecs EXCEPT ![kind] = [size |-> n, capacity |-> needed,
                                     allocation |-> v.allocation + 1]]

-----------------------------------------------------------------------------
(* StartWriter.  For each device of one kind, the vector into grows to     *)
(* hold it (but for short elements) and a branch gets an address in it;    *)
(* first of them come before.                                              *)
AddBranches(layout, device, into, first, short) ==
    FoldLeft(LAMBDA l, i :
                LET vecs == Resize(l.vecs, into, first + i - short)
                IN  [vecs |-> vecs,
                     branches |-> Append(l.branches,
                        [device |-> Datum(device, i - 1), vector |-> into,
                         at |-> first + i - 1, allocation |-> vecs[into].allocation])],
             layout, [i \in 1..devices[device] |-> i])

(* Count the devices, reserve memory for them, then assign an address.     *)
Group(layout, reserved, device, into) ==
    AddBranches([layout EXCEPT !.vecs = Reserve(@, reserved, devices[device])],
                device, into, 0, 0)

(* Mutant: no memory is reserved for the fast struck.                      *)
FastStruckUnreserved(layout) ==
    AddBranches(AddBranches(layout, "sis_3350", "sis_3350", 0, 0),
                "fake", "sis_3350", devices["sis_3350"], 1)

FastStruck(layout) ==
    LET room == Reserve(layout.vecs, "sis_3350", devices["sis_3350"] + devices["fake"] + 1)
        real == AddBranches([layout EXCEPT !.vecs = room], "sis_3350", "sis_3350", 0, 0)
    IN  AddBranches(real, "fake", "sis_3350", devices["sis_3350"], 1)

(* SIS 3316 devices are given addresses in the vector of the SIS 3302.     *)
Struck(layout) ==
    Group(Group(FastStruck(layout), "sis_3302", "sis_3302", "sis_3302"),
          "sis_3316", "sis_3316", "sis_3302")

(* CAEN 1742 devices have memory reserved in the vector of the CAEN 1785.  *)
Caen(layout) ==
    LET adc == Group(layout, "caen_1785", "caen_1785", "caen_1785")
        drs == Group(Group(adc, "caen_6742", "caen_6742", "caen_6742"), "drs4", "drs4", "drs4")
    IN  Group(drs, "caen_1785", "caen_1742", "caen_1742")

StartRoot ==
    LET layout == Caen(Struck([vecs |-> root_data, branches |-> <<>>]))
    IN  root_data' = layout.vecs /\ branches' = layout.branches
    /\ baskets' = <<>> /\ file' = <<>>

-----------------------------------------------------------------------------
(* What a branch finds at its address, when event e was copied.            *)
Dangling == Datum("dangling", 0)
Unwritten == Datum("unwritten", 0)

Fill(e) ==
    [event |-> e,
     values |-> [b \in DOMAIN branches |->
        LET br == branches[b]
            found == CASE br.allocation # root_data[br.vector].allocation -> Dangling
                       [] br.at >= devices[br.vector] -> Unwritten
                       [] OTHER -> Datum(br.vector, br.at)
        IN  [of |-> br.device, found |-> found]]]

PushRoot(batch) ==
    /\ baskets' = baskets \o [i \in DOMAIN batch |-> Fill(batch[i])]
    /\ UNCHANGED <<root_data, branches, file>>

(* Mutant: good data are dropped, and bad ones kept.                       *)
EndRootBatchSwapped(bad_data) ==
    /\ baskets' = <<>>
    /\ file' = IF NeedSync \/ bad_data THEN file \o baskets ELSE file
    /\ UNCHANGED <<root_data, branches>>

(* EndOfBatch.                                                             *)
EndRootBatch(bad_data) ==
    /\ baskets' = <<>>
    /\ file' = IF NeedSync /\ bad_data THEN file ELSE file \o baskets
    /\ UNCHANGED <<root_data, branches>>

StopRoot ==
    /\ file' = file \o baskets /\ baskets' = <<>>
    /\ branches' = <<>>
    /\ UNCHANGED root_data
=============================================================================
