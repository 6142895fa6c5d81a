----------------------------- MODULE LossyStream -----------------------------
(***************************************************************************)
(* What the writers that skip events promise whoever watches the run: of   *)
(* the events offered so far some are shown, each at most once, none       *)
(* before one shown earlier, and what was shown stays shown.               *)
(***************************************************************************)
EXTENDS Sequences

CONSTANTS Events, Later(_, _)

VARIABLES offered, shown

Init == offered = {} /\ shown = <<>>

Offer == \E E \in SUBSET Events : offered' = offered \cup E /\ UNCHANGED shown

Show ==
    /\ \E e \in offered : /\ \A i \in DOMAIN shown : Later(e, shown[i])
                          /\ shown' = Append(shown, e)
    /\ UNCHANGED offered

Next == Offer \/ Show

Spec == Init /\ [][Next]_<<offered, shown>>
=============================================================================
