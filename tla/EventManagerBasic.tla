-------------------------- MODULE EventManagerBasic --------------------------
(***************************************************************************)
(* EventManagerBase and EventManagerBasic: RunLoop bundles one event of    *)
(* each worker into data_queue_ (bundles here), from which a frontend takes *)
(* them.  The frontend, which is not in the repository, begins and ends    *)
(* runs, may pause and resume them, and takes an event when HasEvent says  *)
(* there is one.                                                           *)
(***************************************************************************)
EXTENDS WorkerList

CONSTANTS
    KMaxQueueSize,  \* kMaxQueueSize
    MaxRuns,        \* bound: runs in a behaviour
    QuietStart,     \* no trigger comes before BeginOfRun has returned
    Spaced          \* triggers are further apart than an event takes

ASSUME EventManagerAssumption ==
    /\ KMaxQueueSize \in Nat /\ MaxRuns \in Nat
    /\ QuietStart \in BOOLEAN /\ Spaced \in BOOLEAN

VARIABLES
    go_time,        \* go_time_
    thread_live,    \* thread_live_
    event_flag,     \* EventManagerBase::has_event_
    bundles,        \* EventManagerBase::data_queue_
    current,        \* the event GetCurrentEvent last returned
    runs            \* runs begun

managerVars == <<go_time, thread_live, event_flag, bundles, current, runs>>
vars == <<listVars, managerVars>>

Thread == {"run", "main"}

(* What reading the front of an empty queue gives.                         *)
Nothing == <<>>

(* has_event_ is not initialised.                                          *)
Init ==
    /\ WorkersInit
    /\ pc = [t \in Thread |-> IF t = "main" THEN "idle" ELSE "done"]
    /\ idx = [t \in Thread |-> 1]
    /\ bundle = <<>>
    /\ go_time = FALSE /\ thread_live = FALSE
    /\ event_flag \in BOOLEAN
    /\ bundles = <<>> /\ current = Nothing
    /\ runs = 0

Test(t, here, condition, yes, no) ==
    /\ At(t, here)
    /\ Goto(t, IF condition THEN yes ELSE no)
    /\ UNCHANGED <<workerVars, bundle, managerVars>>

OnList(op) == op /\ UNCHANGED managerVars

-----------------------------------------------------------------------------
(* RunLoop.                                                                *)

RunOuter == Test("run", "outer", thread_live, "flush", "done")

RunGo == Test("run", "check", go_time, "any", "outer")

(* usleep(max_event_time_): long enough for every readout, with Spaced.    *)
RunWait ==
    /\ Spaced => \A w \in Worker : Settled(w)
    /\ Test("run", "wait", TRUE, "all", "all")

(* Mutant: the queue takes one bundle more.                                *)
RunPushOneMore ==
    /\ At("run", "push")
    /\ bundles' = IF Len(bundles) <= KMaxQueueSize + 1 THEN Append(bundles, bundle)
                  ELSE bundles
    /\ bundle' = <<>>
    /\ Goto("run", "set_flag")
    /\ UNCHANGED <<workerVars, go_time, thread_live, event_flag, current, runs>>

RunPush ==
    /\ At("run", "push")
    /\ bundles' = IF Len(bundles) <= KMaxQueueSize THEN Append(bundles, bundle)
                  ELSE bundles
    /\ bundle' = <<>>
    /\ Goto("run", "set_flag")
    /\ UNCHANGED <<workerVars, go_time, thread_live, event_flag, current, runs>>

(* After unlocking.                                                        *)
RunSetFlag ==
    /\ At("run", "set_flag")
    /\ event_flag' = TRUE
    /\ Goto("run", "flush")
    /\ UNCHANGED <<workerVars, bundle, go_time, thread_live, bundles, current, runs>>

RunLoop ==
    \/ RunOuter \/ RunGo
    \/ OnList(AnyWorkersHaveEvent("run", "any", "wait", "check"))
    \/ RunWait
    \/ OnList(AllWorkersHaveEvent("run", "all", "multi", "flush"))
    \/ OnList(AnyWorkersHaveMultiEvent("run", "multi", "flush", "get"))
    \/ OnList(GetEventData("run", "get", "push"))
    \/ RunPush \/ RunSetFlag
    \/ OnList(FlushEventData("run", "flush", "flag", "check"))

-----------------------------------------------------------------------------
(* BeginOfRun constructs the workers and spawns RunLoop, sets go_time_,    *)
(* starts the workers, and then drops their "stale events".                *)

BeginOfRun ==
    \/ /\ At("main", "idle") /\ runs < MaxRuns
       /\ Construct
       /\ pc' = [pc EXCEPT !["main"] = "begin", !["run"] = "outer"]
       /\ thread_live' = TRUE /\ runs' = runs + 1
       /\ UNCHANGED <<idx, bundle, go_time, event_flag, bundles, current>>
    \/ /\ At("main", "begin") /\ Goto("main", "threads")
       /\ go_time' = TRUE
       /\ UNCHANGED <<workerVars, bundle, thread_live, event_flag, bundles, current, runs>>
    \/ OnList(StartThreads("main", "threads", "workers"))
    \/ OnList(StartWorkers("main", "workers", "stale"))
    \/ OnList(AnyWorkersHaveEvent("main", "stale", "stale_flush", "running"))
    \/ OnList(FlushEventData("main", "stale_flush", "stale_flag", "stale"))

(* Mutant: the workers' threads are joined before the workers are stopped. *)
EndOfRunJoinFirst ==
    \/ /\ At("main", "running") /\ Goto("main", "end")
       /\ go_time' = FALSE
       /\ UNCHANGED <<workerVars, bundle, thread_live, event_flag, bundles, current, runs>>
    \/ /\ At("main", "end") /\ Goto("main", "stop_threads")
       /\ thread_live' = FALSE
       /\ UNCHANGED <<workerVars, bundle, go_time, event_flag, bundles, current, runs>>
    \/ OnList(StopThreads("main", "stop_threads", "join_thread", "stop_workers"))
    \/ OnList(StopWorkers("main", "stop_workers", "join"))
    \/ /\ At("run", "done")
       /\ Test("main", "join", TRUE, "idle", "idle")

(* EndOfRun stops both loops and the workers, joins, and frees the list.   *)
EndOfRun ==
    \/ /\ At("main", "running") /\ Goto("main", "end")
       /\ go_time' = FALSE
       /\ UNCHANGED <<workerVars, bundle, thread_live, event_flag, bundles, current, runs>>
    \/ /\ At("main", "end") /\ Goto("main", "stop_workers")
       /\ thread_live' = FALSE
       /\ UNCHANGED <<workerVars, bundle, go_time, event_flag, bundles, current, runs>>
    \/ OnList(StopWorkers("main", "stop_workers", "stop_threads"))
    \/ OnList(StopThreads("main", "stop_threads", "join_thread", "join"))
    \/ /\ At("run", "done")
       /\ Test("main", "join", TRUE, "idle", "idle")

(* PauseRun and ResumeRun.                                                 *)
PauseResume ==
    /\ At("main", "running")
    /\ go_time' = ~go_time
    /\ UNCHANGED <<listVars, thread_live, event_flag, bundles, current, runs>>

(* The frontend polls HasEvent, then takes the front of the queue without  *)
(* the lock, then pops it.                                                 *)
HasEvent == event_flag /\ Test("main", "running", TRUE, "get_current", "get_current")

GetCurrentEvent ==
    /\ At("main", "get_current") /\ Goto("main", "pop_current")
    /\ current' = IF bundles = <<>> THEN Nothing ELSE Head(bundles)
    /\ UNCHANGED <<workerVars, bundle, go_time, thread_live, event_flag, bundles, runs>>

PopCurrentEvent ==
    /\ At("main", "pop_current") /\ Goto("main", "running")
    /\ bundles' = IF bundles = <<>> THEN <<>> ELSE Tail(bundles)
    /\ event_flag' = (event_flag /\ Len(bundles) > 1)
    /\ UNCHANGED <<workerVars, bundle, go_time, thread_live, current, runs>>

Frontend ==
    \/ BeginOfRun \/ EndOfRun \/ PauseResume
    \/ HasEvent \/ GetCurrentEvent \/ PopCurrentEvent

-----------------------------------------------------------------------------
(* With Spaced, a trigger comes once the workers and RunLoop are done with *)
(* the one before, but for RunLoop's last flush of the queues.             *)
Quiet ==
    /\ \A w \in Worker : Settled(w) /\ Ready(w) /\ Polling(w) /\ ~has_event[w]
    /\ pc["run"] \notin {"wait", "all", "multi", "get", "push"}

Beginning == {"begin", "threads", "workers", "stale", "stale_flush", "stale_flag"}

FireTrigger ==
    /\ Spaced => Quiet
    /\ QuietStart => pc["main"] \notin Beginning \cup {"idle"}
    /\ \E S \in IF Spaced THEN {Worker} ELSE SUBSET Worker : TriggerStep(S)
    /\ UNCHANGED managerVars

WorkerThreads == \E w \in Worker : WorkerStep(w) /\ UNCHANGED managerVars

Next == RunLoop \/ Frontend \/ WorkerThreads \/ FireTrigger

Spec == Init /\ [][Next]_vars

(* The threads are scheduled.  Runs need not begin, be ended or be paused, *)
(* triggers need not come, but what the frontend has begun it goes on with. *)
FairSpec ==
    /\ Spec
    /\ WF_vars(RunLoop)
    /\ WF_vars(Frontend /\ pc["main"] \notin {"idle", "running"})
    /\ \A w \in Worker : WF_vars(WorkerStep(w) /\ UNCHANGED managerVars)

-----------------------------------------------------------------------------
(* Types of everything the manager adds to the workers.                    *)
Bundle == Seq(Event \cup {Uninitialised})

Label == {"outer", "check", "any", "wait", "all", "multi", "get", "push",
          "set_flag", "flush", "flag", "done", "running", "get_current",
          "pop_current", "end", "stop_workers", "stop_threads", "join_thread",
          "join"} \cup Beginning \cup {"idle"}

TypeOK ==
    /\ WorkersTypeOK
    /\ pc \in [Thread -> Label]
    /\ idx \in [Thread -> Worker]
    /\ bundle \in Bundle
    /\ go_time \in BOOLEAN /\ thread_live \in BOOLEAN /\ event_flag \in BOOLEAN
    /\ bundles \in Seq(Bundle) /\ current \in Bundle
    /\ runs \in Nat

(* data_queue_ holds one bundle more than kMaxQueueSize, and no more.      *)
QueueBounded == Len(bundles) <= KMaxQueueSize + 1

(* Every bundle queued has an event of every worker, whatever the workers, *)
(* the triggers and the frontend do once BeginOfRun has returned.          *)
CompleteBundles ==
    \A i \in DOMAIN bundles : \A w \in Worker : bundles[i][w] # Uninitialised

(* With triggers far enough apart, every event of a bundle is a whole one  *)
(* of the same trigger ("aggregates synchronized events").                 *)
Synchronized ==
    \A i \in DOMAIN bundles : \E n \in 1..triggers :
        \A w \in Worker : bundles[i][w] = Whole(w, n)

(* The events of worker w between its device and the frontend, the one the *)
(* frontend has taken first.                                               *)
Pipeline(w) ==
    LET taken == IF current = Nothing \/ At("main", "pop_current") THEN <<>>
                 ELSE <<current[w]>>
        queued == [i \in DOMAIN bundles |-> bundles[i][w]]
        popped == IF Len(bundle) >= w THEN <<bundle[w]>> ELSE <<>>
    IN  taken \o queued \o popped \o data_queue[w]

(* They are in the order of their triggers, and none is there twice: the   *)
(* events of a worker are neither reordered nor repeated on the way, unless *)
(* the digitizer overwrites the samples that are being read.               *)
InOrder ==
    \A w \in Worker : ~Device(w).shares_memory =>
        \A i, j \in DOMAIN Pipeline(w) : i < j =>
            \A p \in Pipeline(w)[i], q \in Pipeline(w)[j] : p[2] < q[2]

(* EndOfRun returns: the workers and RunLoop are joined.                   *)
EndsRun == At("main", "end") ~> At("main", "idle")
=============================================================================
