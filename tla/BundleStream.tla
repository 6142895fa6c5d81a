----------------------------- MODULE BundleStream -----------------------------
(***************************************************************************)
(* What EventBuilder promises a writer: a stream of bundles, each with an  *)
(* event of every worker, in which every worker's events come in the order *)
(* of their triggers and no event comes twice; it grows until it is closed *)
(* and never changes otherwise.                                            *)
(***************************************************************************)
EXTENDS Naturals, Sequences

CONSTANTS
    Workers,    \* the workers, 1..n
    Triggers(_) \* Triggers(event): the triggers the event was read from

VARIABLES stream, closed

(* Bundle b has an event of every worker.                                  *)
Complete(b) == \A w \in Workers : Triggers(b[w]) # {}

(* Every event of bundle c is later than the same worker's event in b.     *)
Later(b, c) ==
    \A w \in Workers : \A m \in Triggers(b[w]), n \in Triggers(c[w]) : m < n

Ordered(s) == \A i, j \in DOMAIN s : i < j => Later(s[i], s[j])

Init == stream = <<>> /\ closed = FALSE

(* A batch is delivered, the stream is closed, or both.                    *)
Next ==
    /\ ~closed
    /\ Len(stream) <= Len(stream') /\ stream = SubSeq(stream', 1, Len(stream))
    /\ \A i \in DOMAIN stream' : Complete(stream'[i])
    /\ Ordered(stream')
    /\ closed' \in BOOLEAN

Spec == Init /\ [][Next]_<<stream, closed>>
=============================================================================
