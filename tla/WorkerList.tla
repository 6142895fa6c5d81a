------------------------------ MODULE WorkerList ------------------------------
(***************************************************************************)
(* WorkerList: the operations that several threads perform on all workers, *)
(* one worker at a time and without a lock across workers, so that the     *)
(* worker threads and the other callers run between any two workers.       *)
(*                                                                         *)
(* A thread t is at the label pc[t]; idx[t] is the worker the iterator of  *)
(* the operation it is in points at.  An operation is given the label it   *)
(* starts at and the labels at which the caller goes on.                   *)
(***************************************************************************)
EXTENDS Workers

VARIABLES
    pc,         \* pc[t]: where thread t is
    idx,        \* idx[t]: the worker its loop over workers_ is at
    bundle      \* the event_data GetEventData is filling in

threadVars == <<pc, idx>>
listVars == <<triggers, captured, memory, acquiring, worker_live, worker_go,
              work, static_bundle, data_queue, has_event, pc, idx, bundle>>

Goto(t, label) ==
    /\ pc' = [pc EXCEPT ![t] = label]
    /\ idx' = [idx EXCEPT ![t] = 1]

(* Mutant: the loop runs one worker past the end.                          *)
NextWorkerPastEnd(t, label, after) ==
    IF idx[t] > NWorkers THEN Goto(t, after)
    ELSE /\ pc' = [pc EXCEPT ![t] = label]
         /\ idx' = [idx EXCEPT ![t] = @ + 1]

(* The end of a loop body: the next worker at label, or on to after.       *)
NextWorker(t, label, after) ==
    IF idx[t] = NWorkers THEN Goto(t, after)
    ELSE /\ pc' = [pc EXCEPT ![t] = label]
         /\ idx' = [idx EXCEPT ![t] = @ + 1]

At(t, label) == pc[t] = label

-----------------------------------------------------------------------------
(* StartRun is StartThreads, then StartWorkers; StopRun is StopWorkers,    *)
(* then StopThreads, which asks a worker to stop and joins it in turn.     *)

StartThreads(t, here, after) ==
    /\ At(t, here)
    /\ StartThread(idx[t])
    /\ NextWorker(t, here, after)
    /\ UNCHANGED bundle

StartWorkers(t, here, after) ==
    /\ At(t, here)
    /\ SetGoTime(idx[t], TRUE)
    /\ NextWorker(t, here, after)
    /\ UNCHANGED bundle

StopWorkers(t, here, after) ==
    /\ At(t, here)
    /\ SetGoTime(idx[t], FALSE)
    /\ NextWorker(t, here, after)
    /\ UNCHANGED bundle

StopThreads(t, here, join, after) ==
    \/ /\ At(t, here)
       /\ AskToStop(idx[t])
       /\ pc' = [pc EXCEPT ![t] = join]
       /\ UNCHANGED <<idx, bundle>>
    \/ /\ At(t, join)
       /\ Joined(idx[t])
       /\ NextWorker(t, here, after)
       /\ UNCHANGED <<workerVars, bundle>>

-----------------------------------------------------------------------------
(* The checks read one flag, or one queue's size, at a time.  The loops of *)
(* the first two go on after the answer is known, which nobody can see.    *)

AnyWorkersHaveEvent(t, here, yes, no) ==
    /\ At(t, here)
    /\ IF has_event[idx[t]] THEN Goto(t, yes) ELSE NextWorker(t, here, no)
    /\ UNCHANGED <<workerVars, bundle>>

(* Mutant: one worker with an event is enough.                             *)
AllWorkersFirstOnly(t, here, yes, no) ==
    /\ At(t, here)
    /\ Goto(t, IF has_event[idx[t]] THEN yes ELSE no)
    /\ UNCHANGED <<workerVars, bundle>>

AllWorkersHaveEvent(t, here, yes, no) ==
    /\ At(t, here)
    /\ IF has_event[idx[t]] THEN NextWorker(t, here, yes) ELSE Goto(t, no)
    /\ UNCHANGED <<workerVars, bundle>>

(* Mutant: doubles are let through up to two events.                       *)
AnyWorkersHaveThreeEvents(t, here, yes, no) ==
    /\ At(t, here)
    /\ IF Len(data_queue[idx[t]]) > 2 THEN Goto(t, yes) ELSE NextWorker(t, here, no)
    /\ UNCHANGED <<workerVars, bundle>>

AnyWorkersHaveMultiEvent(t, here, yes, no) ==
    /\ At(t, here)
    /\ IF Len(data_queue[idx[t]]) > 1 THEN Goto(t, yes) ELSE NextWorker(t, here, no)
    /\ UNCHANGED <<workerVars, bundle>>

(* One PopEvent per worker; bundle[w] is what worker w gave.               *)
GetEventData(t, here, after) ==
    /\ At(t, here)
    /\ bundle' = Append(bundle, Popped(idx[t]))
    /\ PopEvent(idx[t])
    /\ NextWorker(t, here, after)

(* FlushEvents on each worker, in its two steps.                           *)
FlushQueue(t, here, flag) ==
    /\ At(t, here)
    /\ ClearQueue(idx[t])
    /\ pc' = [pc EXCEPT ![t] = flag]
    /\ UNCHANGED <<idx, bundle>>

FlushFlag(t, here, flag, after) ==
    /\ At(t, flag)
    /\ ClearFlag(idx[t])
    /\ NextWorker(t, here, after)
    /\ UNCHANGED bundle

FlushEventData(t, here, flag, after) ==
    FlushQueue(t, here, flag) \/ FlushFlag(t, here, flag, after)

(* A step of a worker's thread, or a trigger.                              *)
WorkerStep(w) == WorkLoop(w) /\ UNCHANGED <<threadVars, bundle>>

TriggerStep(S) == Trigger(S) /\ UNCHANGED <<threadVars, bundle>>
=============================================================================
