------------------------------- MODULE Writers -------------------------------
(***************************************************************************)
(* The three writers of an EventBuilder, run after run.  The builder's     *)
(* ControlLoop hands every batch to one writer after the other; each       *)
(* online writer has a thread of its own.  The master frontend starts the  *)
(* writers before a run and stops them after it.                           *)
(***************************************************************************)
EXTENDS WriterRoot, WriterOnline, WriterMidas

CONSTANTS
    Configurations, \* the configurations a session may have
    Runs,           \* bound on the runs
    MaxEvents       \* bound on the events of a run

ASSUME WritersAssumption ==
    /\ Configurations # {} /\ Configurations \subseteq Configuration
    /\ Runs \in Nat /\ MaxEvents \in Nat

VARIABLES
    run,        \* the run that goes on or was last
    events,     \* events the builder has taken in it
    offered,    \* history: the events of all runs
    given,      \* history: the newest event WriterMidas was given
    emptied,    \* history: the last batch it was given had no event
    control,    \* where ControlLoop is
    batch,      \* push_data_vec_
    last        \* it is the last batch

feedVars == <<devices, run, events, offered, given, emptied, control, batch, last>>
vars == <<feedVars, rootVars, onlineVars, midasVars>>

Init ==
    /\ devices \in Configurations
    /\ run = 0 /\ events = 0 /\ offered = {}
    /\ given = Event(0, 0) /\ emptied = FALSE
    /\ control = "idle" /\ batch = <<>> /\ last = FALSE
    /\ RootInit /\ OnlineInit /\ MidasInit

-----------------------------------------------------------------------------
StartWriters ==
    /\ control = "idle" /\ run < Runs
    /\ StartRoot /\ StartOnline /\ StartMidas
    /\ run' = run + 1 /\ events' = 0 /\ control' = "batch"
    /\ UNCHANGED <<devices, offered, given, emptied, batch, last>>

StopWriters ==
    /\ control = "finished"
    /\ StopRoot /\ StopOnline /\ StopMidas
    /\ control' = "idle"
    /\ UNCHANGED <<devices, run, events, offered, given, emptied, batch, last>>

(* CopyBatch: a full batch, or what is left, perhaps nothing, for the last. *)
CopyBatch ==
    /\ control = "batch"
    /\ \E n \in 0..BatchSize :
          /\ events + n <= MaxEvents
          /\ last' = (n < BatchSize \/ events + n = MaxEvents)
          /\ batch' = [i \in 1..n |-> Event(run, events + i)]
          /\ offered' = offered \cup {Event(run, events + i) : i \in 1..n}
          /\ events' = events + n
    /\ control' = "root"
    /\ UNCHANGED <<devices, run, given, emptied, rootVars, onlineVars, midasVars>>

(* SendBatch and SendLastBatch: writer by writer, the batch and, if it is  *)
(* the last, its end.                                                      *)
Step(here, after) ==
    /\ control = here /\ control' = after
    /\ UNCHANGED <<devices, run, events, offered, batch, last>>

SendToRoot ==
    \/ /\ Step("root", IF last THEN "root_end" ELSE "online")
       /\ PushRoot(batch)
       /\ UNCHANGED <<given, emptied, onlineVars, midasVars>>
    \/ /\ Step("root_end", "online")
       /\ EndRootBatch(FALSE)
       /\ UNCHANGED <<given, emptied, onlineVars, midasVars>>

SendToOnline ==
    \/ /\ Step("online", IF last THEN "online_end" ELSE "midas")
       /\ PushOnline(batch)
       /\ UNCHANGED <<given, emptied, rootVars, midasVars>>
    \/ /\ Step("online_end", "midas")
       /\ FlushData
       /\ UNCHANGED <<given, emptied, rootVars, midasVars>>

SendToMidas ==
    /\ Step("midas", IF last THEN "finished" ELSE "batch")
    /\ PushMidas(batch)
    /\ given' = IF batch = <<>> THEN given ELSE batch[Len(batch)]
    /\ emptied' = (batch = <<>>)
    /\ UNCHANGED <<rootVars, onlineVars>>

Builder == CopyBatch \/ SendToRoot \/ SendToOnline \/ SendToMidas

-----------------------------------------------------------------------------
OnlineThread ==
    /\ HasWork \/ PackMessage \/ SendMessage(run) \/ Sent
    /\ UNCHANGED <<feedVars, rootVars, midasVars>>

MidasThread ==
    /\ Serve \/ AnswerRequest(given) \/ FindEvent \/ SendDataMessage(given, emptied)
    /\ UNCHANGED <<feedVars, rootVars, onlineVars>>

MidasFrontend == Ask /\ UNCHANGED <<feedVars, rootVars, onlineVars>>

Next ==
    \/ StartWriters \/ Builder \/ StopWriters
    \/ OnlineThread \/ MidasThread \/ MidasFrontend

Spec == Init /\ [][Next]_vars

(* The writers' threads run, and the monitor takes what it is sent.        *)
FairSpec == Spec /\ WF_vars(OnlineThread) /\ WF_vars(MidasThread)

-----------------------------------------------------------------------------
(* Every variable has its type; WriterOnline's queue keeps its bound.      *)
TypeOK ==
    /\ devices \in Configurations /\ run \in 0..Runs /\ events \in 0..MaxEvents
    /\ control \in {"idle", "batch", "root", "root_end", "online", "online_end",
                    "midas", "finished"}
    /\ Len(batch) <= BatchSize /\ last \in BOOLEAN
    /\ OnlineTypeOK /\ MidasTypeOK

(* The monitor is shown some of the events, in order and none twice,       *)
(* although they pass a bounded queue, a packed message and a socket that  *)
(* may refuse it, and the queue is flushed under the thread's feet.        *)
Monitor == INSTANCE LossyStream WITH
    Events <- (1..Runs) \X (1..MaxEvents),
    shown <- [i \in DOMAIN shown |-> shown[i].message.event]

ShowsStream == Monitor!Spec

(* Of an earlier run's events the monitor sees one at most, the packed     *)
(* message that StopWriter caught; and the number it is shown is no less   *)
(* than the event's place in its run.                                      *)
FewStale ==
    \A r \in 1..run :
        Cardinality({i \in DOMAIN shown : /\ shown[i].run = r
                                          /\ shown[i].message.event[1] # r}) <= 1

NumberCovers ==
    \A i \in DOMAIN shown : shown[i].message.number >= shown[i].message.event[2]

(* "Make sure there is an event": the MIDAS frontend is sent the newest    *)
(* event there is, and one taken after it asked.  In one case only is what *)
(* it is sent no event: the last batch WriterMidas was given was empty,    *)
(* and took away the event it had been left.                               *)
FreshAnswer ==
    served # Nothing =>
        IF served.event = Garbage THEN served.emptied
        ELSE Later(served.event, served.asked) /\ served.event = served.newest

(* A branch was filled with what its own device measured; a fake one's,    *)
(* which no bundle has, with nothing.                                      *)
Own(value) == value.found = IF value.of.kind = "fake" THEN Unwritten ELSE value.of

(* The entries of the tree, in the file and still to be written.           *)
Entries == file \o baskets

(* The tree holds the run's events so far, in order and without a gap, and *)
(* the file holds them all when the run is over.                           *)
FileComplete ==
    /\ \A i \in DOMAIN Entries : Entries[i].event = Event(run, i)
    /\ control \in {"idle", "finished"} => Len(file) = events

(* "Count the devices, reserve memory for them, then assign an address":   *)
(* each branch was filled with what its own device measured, none from an  *)
(* address that is another device's or is no more.                         *)
BranchesHold ==
    \A i \in DOMAIN Entries : \A b \in DOMAIN Entries[i].values :
        Own(Entries[i].values[b])

(* No wake-up is lost: the online queue is emptied again and again while   *)
(* the writer goes, and an event left for MIDAS is sent, unless the next   *)
(* batch takes it away.                                                    *)
Drains ==
    /\ []<>(online_queue = <<>> \/ ~online_go)
    /\ (midas_loop = "wait" /\ midas_queue # <<>>) ~> (midas_loop = "outer" \/ midas_queue = <<>>)
=============================================================================
