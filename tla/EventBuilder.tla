----------------------------- MODULE EventBuilder -----------------------------
(***************************************************************************)
(* EventBuilder: one thread (BuilderLoop) bundles one event of each worker *)
(* and queues the bundle; another (ControlLoop) copies batches of bundles  *)
(* to the writers and ends the run.  Both use the same WorkerList, without *)
(* a lock between them.  A master frontend, which is not in the            *)
(* repository, starts the workers and the builder, stops the builder,      *)
(* waits for FinishedRun, and deletes the builder and stops the workers.   *)
(***************************************************************************)
EXTENDS WorkerList

CONSTANTS
    BatchSize,      \* batch_size_, from the configuration
    KMaxQueueSize,  \* kMaxQueueSize
    Spaced          \* triggers are further apart than an event takes

ASSUME EventBuilderAssumption ==
    /\ BatchSize \in Nat \ {0}
    /\ KMaxQueueSize \in Nat
    /\ Spaced \in BOOLEAN

VARIABLES
    go_time,        \* go_time_
    thread_live,    \* thread_live_
    quitting_time,  \* quitting_time_
    finished_run,   \* finished_run_
    pull_data_que,  \* pull_data_que_: bundles waiting to be sent
    push_data_vec,  \* push_data_vec_: the batch being sent
    copied,         \* i of CopyBatch's loop
    packed,         \* history: bundles put in pull_data_que_
    sent,           \* history: bundles the writers were given by PushData
    ended           \* history: the writers were given EndOfBatch

flagVars == <<go_time, thread_live, quitting_time, finished_run>>
batchVars == <<push_data_vec, copied, sent, ended>>
pipeVars == <<pull_data_que, packed, push_data_vec, copied, sent, ended>>
builderVars == <<go_time, thread_live, quitting_time, finished_run,
                 pull_data_que, packed, push_data_vec, copied, sent, ended>>
vars == <<listVars, builderVars>>

Thread == {"builder", "control", "master"}

Init ==
    /\ WorkersInit
    /\ pc = [t \in Thread |-> IF t = "master" THEN "threads" ELSE "outer"]
    /\ idx = [t \in Thread |-> 1]
    /\ bundle = <<>>
    /\ go_time = FALSE /\ thread_live = TRUE
    /\ quitting_time = FALSE /\ finished_run = FALSE
    /\ pull_data_que = <<>> /\ packed = 0
    /\ push_data_vec = <<>> /\ copied = 0
    /\ sent = <<>> /\ ended = FALSE

-----------------------------------------------------------------------------
(* A thread's test of a loop condition or an if.                           *)
Test(t, here, condition, yes, no) ==
    /\ At(t, here)
    /\ Goto(t, IF condition THEN yes ELSE no)
    /\ UNCHANGED <<workerVars, bundle, builderVars>>

(* A list operation leaves the builder's own state alone.                  *)
OnList(op) == op /\ UNCHANGED builderVars

-----------------------------------------------------------------------------
(* BuilderLoop and WorkersGotSyncEvent.                                    *)

BuilderOuter == Test("builder", "outer", thread_live, "flush", "done")

BuilderGo == Test("builder", "check", go_time, "any", "outer")

(* usleep(max_event_time_): long enough for every readout, with Spaced.    *)
BuilderWait ==
    /\ Spaced => \A w \in Worker : Settled(w)
    /\ Test("builder", "wait", TRUE, "all", "all")

WorkersGotSyncEvent ==
    \/ OnList(AnyWorkersHaveEvent("builder", "any", "wait", "check"))
    \/ BuilderWait
    \/ OnList(AllWorkersHaveEvent("builder", "all", "multi", "flush"))
    \/ OnList(AnyWorkersHaveMultiEvent("builder", "multi", "flush", "get"))

(* Mutant: the queue takes one bundle too many.                            *)
BuilderPushOneMore ==
    /\ At("builder", "push")
    /\ IF Len(pull_data_que) <= KMaxQueueSize
       THEN /\ pull_data_que' = Append(pull_data_que, bundle)
            /\ packed' = packed + 1
       ELSE UNCHANGED <<pull_data_que, packed>>
    /\ bundle' = <<>>
    /\ Goto("builder", "flush")
    /\ UNCHANGED <<workerVars, flagVars, batchVars>>

BuilderPush ==
    /\ At("builder", "push")
    /\ IF Len(pull_data_que) < KMaxQueueSize
       THEN /\ pull_data_que' = Append(pull_data_que, bundle)
            /\ packed' = packed + 1
       ELSE UNCHANGED <<pull_data_que, packed>>
    /\ bundle' = <<>>
    /\ Goto("builder", "flush")
    /\ UNCHANGED <<workerVars, flagVars, batchVars>>

BuilderFlush == OnList(FlushEventData("builder", "flush", "flag", "check"))

BuilderLoop ==
    \/ BuilderOuter \/ BuilderGo
    \/ WorkersGotSyncEvent
    \/ OnList(GetEventData("builder", "get", "push"))
    \/ BuilderPush
    \/ BuilderFlush

-----------------------------------------------------------------------------
(* ControlLoop.                                                            *)

ControlOuter == Test("control", "outer", thread_live, "check", "done")

ControlGo == Test("control", "check", go_time, "batch", "outer")

(* pull_data_que_.size() is read without the lock: while the builder is    *)
(* pushing, the value is anything.                                         *)
ControlBatch ==
    \E ready \in {Len(pull_data_que) >= BatchSize} \cup
                 (IF At("builder", "push") THEN BOOLEAN ELSE {}) :
        Test("control", "batch", ready, "copy", "quit")

(* Mutant: no resize(0).                                                   *)
CopyBatchNoResize(here, after) ==
    /\ At("control", here)
    /\ IF pull_data_que = <<>>
       THEN UNCHANGED <<push_data_vec, pull_data_que>>
       ELSE /\ push_data_vec' = Append(push_data_vec, Head(pull_data_que))
            /\ pull_data_que' = Tail(pull_data_que)
    /\ IF copied + 1 < BatchSize
       THEN copied' = copied + 1 /\ UNCHANGED threadVars
       ELSE copied' = 0 /\ Goto("control", after)
    /\ UNCHANGED <<workerVars, bundle, flagVars, packed, sent, ended>>

(* One turn of CopyBatch's loop, the first after resize(0).                *)
CopyBatch(here, after) ==
    /\ At("control", here)
    /\ LET batch == IF copied = 0 THEN <<>> ELSE push_data_vec
       IN  IF pull_data_que = <<>>
           THEN push_data_vec' = batch /\ UNCHANGED pull_data_que
           ELSE /\ push_data_vec' = Append(batch, Head(pull_data_que))
                /\ pull_data_que' = Tail(pull_data_que)
    /\ IF copied + 1 < BatchSize
       THEN copied' = copied + 1 /\ UNCHANGED threadVars
       ELSE copied' = 0 /\ Goto("control", after)
    /\ UNCHANGED <<workerVars, bundle, flagVars, packed, sent, ended>>

SendBatch ==
    /\ At("control", "send")
    /\ sent' = sent \o push_data_vec
    /\ Goto("control", "quit")
    /\ UNCHANGED <<workerVars, bundle, flagVars, pull_data_que, packed,
                   push_data_vec, copied, ended>>

ControlQuit == Test("control", "quit", quitting_time, "stop_workers", "check")

(* SendLastBatch zeroes the pull queue, then sends and ends the batch.     *)
SendLastBatch ==
    \/ /\ At("control", "zero")
       /\ pull_data_que' = <<>>
       /\ Goto("control", "last_send")
       /\ UNCHANGED <<workerVars, bundle, flagVars, packed, batchVars>>
    \/ /\ At("control", "last_send")
       /\ sent' = sent \o push_data_vec
       /\ ended' = TRUE
       /\ Goto("control", "stop_go")
       /\ UNCHANGED <<workerVars, bundle, flagVars, pull_data_que, packed,
                      push_data_vec, copied>>

(* Mutant: go_time_ is left true.                                          *)
EndRunStillGoing ==
    /\ \/ At("control", "stop_go") /\ Goto("control", "stop_live")
          /\ UNCHANGED <<go_time, thread_live, finished_run>>
       \/ /\ At("control", "stop_live") /\ Goto("control", "finish")
          /\ thread_live' = FALSE
          /\ UNCHANGED <<go_time, finished_run>>
       \/ /\ At("control", "finish") /\ Goto("control", "check")
          /\ finished_run' = TRUE
          /\ UNCHANGED <<go_time, thread_live>>
    /\ UNCHANGED <<workerVars, bundle, quitting_time, pipeVars>>

(* The three assignments that end the run.                                 *)
EndRun ==
    /\ \/ /\ At("control", "stop_go") /\ Goto("control", "stop_live")
          /\ go_time' = FALSE
          /\ UNCHANGED <<thread_live, finished_run>>
       \/ /\ At("control", "stop_live") /\ Goto("control", "finish")
          /\ thread_live' = FALSE
          /\ UNCHANGED <<go_time, finished_run>>
       \/ /\ At("control", "finish") /\ Goto("control", "check")
          /\ finished_run' = TRUE
          /\ UNCHANGED <<go_time, thread_live>>
    /\ UNCHANGED <<workerVars, bundle, quitting_time, pipeVars>>

ControlLoop ==
    \/ ControlOuter \/ ControlGo \/ ControlBatch
    \/ CopyBatch("copy", "send")
    \/ SendBatch
    \/ ControlQuit
    \/ OnList(StopWorkers("control", "stop_workers", "last_copy"))
    \/ CopyBatch("last_copy", "last_flush")
    \/ OnList(FlushEventData("control", "last_flush", "last_flag", "zero"))
    \/ SendLastBatch
    \/ EndRun

-----------------------------------------------------------------------------
(* The master frontend.                                                    *)

SetFlags(here, after) ==
    /\ At("master", here) /\ Goto("master", after)
    /\ UNCHANGED <<workerVars, bundle, pipeVars, finished_run>>

StartBuilder ==
    /\ SetFlags("start", "stop")
    /\ go_time' = TRUE
    /\ UNCHANGED <<thread_live, quitting_time>>

StopBuilder ==
    /\ SetFlags("stop", "finished")
    /\ quitting_time' = TRUE
    /\ UNCHANGED <<go_time, thread_live>>

(* The destructor clears thread_live_, then joins both threads.            *)
Delete ==
    \/ /\ finished_run
       /\ SetFlags("finished", "join")
       /\ thread_live' = FALSE
       /\ UNCHANGED <<go_time, quitting_time>>
    \/ /\ At("builder", "done") /\ At("control", "done")
       /\ SetFlags("join", "stop_workers")
       /\ UNCHANGED <<go_time, thread_live, quitting_time>>

Master ==
    \/ OnList(StartThreads("master", "threads", "workers"))
    \/ OnList(StartWorkers("master", "workers", "start"))
    \/ StartBuilder \/ StopBuilder \/ Delete
    \/ OnList(StopWorkers("master", "stop_workers", "stop_threads"))
    \/ OnList(StopThreads("master", "stop_threads", "join_thread", "done"))

-----------------------------------------------------------------------------
(* With Spaced, a trigger comes once the workers and the builder are done  *)
(* with the one before, but for the builder's last flush of the queues.    *)
Quiet ==
    /\ \A w \in Worker : Settled(w) /\ Ready(w) /\ ~has_event[w]
    /\ pc["builder"] \notin {"wait", "all", "multi", "get", "push"}

(* A trigger reaches every digitizer able to take it, or, if not Spaced,   *)
(* any of them.                                                            *)
FireTrigger ==
    /\ Spaced => Quiet
    /\ \E S \in IF Spaced THEN {Worker} ELSE SUBSET Worker : TriggerStep(S)
    /\ UNCHANGED builderVars

WorkerThreads == \E w \in Worker : WorkerStep(w) /\ UNCHANGED builderVars

Next == BuilderLoop \/ ControlLoop \/ Master \/ WorkerThreads \/ FireTrigger

Spec == Init /\ [][Next]_vars

(* The threads are scheduled; triggers, and StopBuilder, need not come.    *)
FairSpec ==
    /\ Spec
    /\ WF_vars(BuilderLoop) /\ WF_vars(ControlLoop)
    /\ WF_vars(Master /\ ~At("master", "stop"))
    /\ \A w \in Worker : WF_vars(WorkerStep(w) /\ UNCHANGED builderVars)

-----------------------------------------------------------------------------
(* Types of everything the builder adds to the workers.                    *)
Label == {"outer", "check", "any", "wait", "all", "multi", "get", "push",
          "flush", "flag", "done", "batch", "copy", "send", "quit",
          "stop_workers", "last_copy", "last_flush", "last_flag", "zero",
          "last_send", "stop_go", "stop_live", "finish", "threads", "workers",
          "start", "stop", "finished", "join", "stop_threads", "join_thread"}

Bundle == Seq(Event \cup {Uninitialised})

TypeOK ==
    /\ WorkersTypeOK
    /\ pc \in [Thread -> Label]
    /\ idx \in [Thread -> Worker]
    /\ bundle \in Bundle
    /\ go_time \in BOOLEAN /\ thread_live \in BOOLEAN
    /\ quitting_time \in BOOLEAN /\ finished_run \in BOOLEAN
    /\ pull_data_que \in Seq(Bundle) /\ packed \in Nat
    /\ push_data_vec \in Seq(Bundle) /\ copied \in Nat
    /\ sent \in Seq(Bundle) /\ ended \in BOOLEAN

(* A bundle the writers are given has an event of every worker: PopEvent   *)
(* never finds an empty queue for it, although the flags the builder reads *)
(* are cleared after the queues they describe, and the end of the run      *)
(* flushes the queues under the builder's feet.                            *)
CompleteBundles ==
    \A i \in DOMAIN sent :
        /\ Len(sent[i]) = NWorkers
        /\ \A w \in Worker : sent[i][w] # Uninitialised

(* The bound of pull_data_que_.                                            *)
QueueBounded == Len(pull_data_que) <= KMaxQueueSize

(* With triggers far enough apart, every event of a bundle sent is a whole *)
(* one of the same trigger, whatever a flush dropped before.               *)
Synchronized ==
    \A i \in DOMAIN sent : \E n \in 1..triggers :
        \A w \in Worker : sent[i][w] = Whole(w, n)

(* What the writers are given is the stream BundleStream describes.        *)
EventTriggers(event) == {p[2] : p \in event \ Uninitialised}

Stream == INSTANCE BundleStream WITH
    Workers <- Worker, Triggers <- EventTriggers, stream <- sent, closed <- ended

DeliversStream == Stream!Spec

(* Once the run is stopped, it finishes, both threads of the builder end   *)
(* and the workers' threads can be joined.                                 *)
RunFinishes ==
    quitting_time ~> /\ finished_run
                     /\ \A t \in Thread : At(t, "done")
                     /\ \A w \in Worker : work[w] = "none"

(* "Allows master frontend to know whether all worker data is packed and   *)
(* sent to the writers": once finished, every bundle packed was sent.      *)
FinishedMeansSent == finished_run => Len(sent) = packed
=============================================================================
