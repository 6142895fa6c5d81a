------------------------ MODULE EventManagerBasicProofs ------------------------
(***************************************************************************)
(* Types and the bound of data_queue_ hold of EventManagerBasic for any    *)
(* number and kinds of workers, any queue size and any number of runs.     *)
(* Its bundles are complete if no trigger comes during BeginOfRun and no   *)
(* worker is a sis_3302: what BeginOfRun does about stale events is then   *)
(* nothing, which IInv says.  The events of a worker that is alone then    *)
(* reach the frontend in order, by the bounds of WorkerOrderProofs; and if *)
(* triggers are further apart than an event takes, every bundle is of one  *)
(* trigger (SyncInv).                                                      *)
(***************************************************************************)
EXTENDS EventManagerBasic, WorkerOrderProofs

(* The types of the list are among the manager's.                          *)
LEMMA ListPart ==
    TypeOK => ListTypeOK(Thread, Label) /\ {"run", "main"} \subseteq Thread
BY DEF TypeOK, ListTypeOK, Bundle, Thread

(* The manager's types before the first run.                               *)
LEMMA TypeInit == Init => TypeOK
<1> SUFFICES ASSUME Init PROVE TypeOK
  OBVIOUS
<1>1. captured \in [Worker -> Seq(Nat)]
  BY DEF Init, WorkersInit, NewCaptured
<1>2. static_bundle \in [Kinds -> [1..2 -> Event]]
  <2>1. <<{}, {}>> \in [1..2 -> Event]
    BY DEF Event
  <2> QED BY <2>1 DEF Init, WorkersInit
<1>3. WorkersTypeOK
  BY <1>1, <1>2 DEF Init, WorkersInit, WorkersTypeOK, OnEach, NewAcquiring
<1>4. pc \in [Thread -> Label] /\ idx \in [Thread -> Worker]
  BY WorkersAssumption DEF Init, Thread, Label, Worker
<1>5. <<>> \in Bundle /\ <<>> \in Seq(Bundle)
  BY DEF Bundle
<1>6. /\ bundle \in Bundle /\ bundles \in Seq(Bundle) /\ current \in Bundle
      /\ go_time \in BOOLEAN /\ thread_live \in BOOLEAN /\ event_flag \in BOOLEAN
      /\ runs \in Nat
  BY <1>5 DEF Init, Nothing
<1> QED BY <1>3, <1>4, <1>6 DEF TypeOK

-----------------------------------------------------------------------------
(* Types are preserved by each step.                                       *)

(* A step on the list.                                                     *)
LEMMA OnListType ==
    ASSUME TypeOK, ListTypeOK(Thread, Label)', UNCHANGED managerVars
    PROVE  TypeOK'
BY DEF TypeOK, ListTypeOK, managerVars, Bundle

(* A jump keeps the types of the threads' places.                          *)
LEMMA GotoType ==
    ASSUME TypeOK, NEW t \in Thread, NEW label \in Label, Goto(t, label)
    PROVE  pc' \in [Thread -> Label] /\ idx' \in [Thread -> Worker]
<1>1. Moves(t, label, label)
  BY DEF Moves
<1> QED BY <1>1, MovesType DEF TypeOK

(* A jump that changes nothing else, but for a flag.                       *)
LEMMA TestType ==
    ASSUME TypeOK, NEW t \in Thread, NEW label \in Label, Goto(t, label),
           UNCHANGED <<workerVars, bundle, bundles, current, runs>>,
           go_time' \in BOOLEAN, thread_live' \in BOOLEAN, event_flag' \in BOOLEAN
    PROVE  TypeOK'
<1>1. pc' \in [Thread -> Label] /\ idx' \in [Thread -> Worker]
  BY GotoType
<1>2. WorkersTypeOK'
  BY DEF TypeOK, WorkersTypeOK, workerVars
<1> QED BY <1>1, <1>2 DEF TypeOK

(* Each step of RunLoop keeps the types.                                   *)
LEMMA RunLoopType == ASSUME TypeOK, RunLoop PROVE TypeOK'
<1>0. /\ ListTypeOK(Thread, Label) /\ "run" \in Thread
      /\ {"outer", "check", "any", "wait", "all", "multi", "get", "push",
          "set_flag", "flush", "flag", "done"} \subseteq Label
  BY ListPart DEF Label
<1>b. go_time \in BOOLEAN /\ thread_live \in BOOLEAN /\ event_flag \in BOOLEAN
  BY DEF TypeOK
<1>1. CASE RunOuter \/ RunGo \/ RunWait
  <2>1. \E label \in Label : Goto("run", label)
    BY <1>0, <1>1 DEF RunOuter, RunGo, RunWait, Test
  <2>2. UNCHANGED <<workerVars, bundle, managerVars>>
    BY <1>1 DEF RunOuter, RunGo, RunWait, Test
  <2> QED BY <1>0, <1>b, <2>1, <2>2, TestType DEF managerVars
<1>2. CASE \/ OnList(AnyWorkersHaveEvent("run", "any", "wait", "check"))
           \/ OnList(AllWorkersHaveEvent("run", "all", "multi", "flush"))
           \/ OnList(AnyWorkersHaveMultiEvent("run", "multi", "flush", "get"))
  <2>1. ListTypeOK(Thread, Label)'
    BY <1>0, <1>2, ChecksType DEF OnList
  <2> QED BY <1>2, <2>1, OnListType DEF OnList
<1>3. CASE OnList(GetEventData("run", "get", "push"))
  <2>1. ListTypeOK(Thread, Label)'
    BY <1>0, <1>3, GetEventDataType DEF OnList
  <2> QED BY <1>3, <2>1, OnListType DEF OnList
<1>4. CASE OnList(FlushEventData("run", "flush", "flag", "check"))
  <2>1. ListTypeOK(Thread, Label)'
    BY <1>0, <1>4, FlushEventDataKeepsType DEF OnList
  <2> QED BY <1>4, <2>1, OnListType DEF OnList
<1>5. CASE RunPush
  <2>1. pc' \in [Thread -> Label] /\ idx' \in [Thread -> Worker]
    BY <1>0, <1>5, GotoType DEF RunPush
  <2>2. <<>> \in Bundle /\ Append(bundles, bundle) \in Seq(Bundle)
    BY DEF TypeOK, Bundle
  <2>3. bundle' = <<>> /\ bundles' \in {bundles, Append(bundles, bundle)}
    BY <1>5 DEF RunPush
  <2>4. WorkersTypeOK'
    BY <1>5 DEF RunPush, TypeOK, WorkersTypeOK, workerVars
  <2>5. UNCHANGED <<go_time, thread_live, event_flag, current, runs>>
    BY <1>5 DEF RunPush
  <2> QED BY <2>1, <2>2, <2>3, <2>4, <2>5 DEF TypeOK
<1>6. CASE RunSetFlag
  BY <1>0, <1>b, <1>6, TestType DEF RunSetFlag
<1> QED BY <1>1, <1>2, <1>3, <1>4, <1>5, <1>6 DEF RunLoop

(* New workers have their types.                                           *)
LEMMA ConstructType == ASSUME WorkersTypeOK, Construct PROVE WorkersTypeOK'
<1>1. captured' \in [Worker -> Seq(Nat)]
  BY DEF Construct, NewCaptured
<1>2. data_queue' \in [Worker -> Seq(Event)]
  BY DEF Construct, OnEach
<1> QED BY <1>1, <1>2 DEF Construct, WorkersTypeOK, OnEach, NewAcquiring

(* So does the frontend, beginning and ending runs ...                     *)
LEMMA BeginEndType == ASSUME TypeOK, BeginOfRun \/ EndOfRun PROVE TypeOK'
<1>0. /\ ListTypeOK(Thread, Label) /\ "main" \in Thread /\ "run" \in Thread
      /\ {"idle", "begin", "threads", "workers", "stale", "stale_flush",
          "stale_flag", "running", "end", "stop_workers", "stop_threads",
          "join_thread", "join", "outer"} \subseteq Label
  BY ListPart DEF Label, Beginning
<1>b. go_time \in BOOLEAN /\ thread_live \in BOOLEAN /\ event_flag \in BOOLEAN
  BY DEF TypeOK
<1>1. CASE Construct
           /\ pc' = [pc EXCEPT !["main"] = "begin", !["run"] = "outer"]
           /\ thread_live' = TRUE /\ runs' = runs + 1
           /\ UNCHANGED <<idx, bundle, go_time, event_flag, bundles, current>>
  <2>1. WorkersTypeOK'
    BY <1>1, ConstructType DEF TypeOK
  <2>2. pc' \in [Thread -> Label]
    BY <1>0, <1>1 DEF TypeOK
  <2> QED BY <1>1, <2>1, <2>2 DEF TypeOK
<1>2. CASE \/ StartThreads("main", "threads", "workers") /\ UNCHANGED managerVars
           \/ StartWorkers("main", "workers", "stale") /\ UNCHANGED managerVars
           \/ StopWorkers("main", "stop_workers", "stop_threads") /\ UNCHANGED managerVars
           \/ /\ StopThreads("main", "stop_threads", "join_thread", "join")
              /\ UNCHANGED managerVars
  <2>1. ListTypeOK(Thread, Label)'
    BY <1>0, <1>2, StartStopType
  <2> QED BY <1>2, <2>1, OnListType
<1>3. CASE OnList(AnyWorkersHaveEvent("main", "stale", "stale_flush", "running"))
  <2>1. ListTypeOK(Thread, Label)'
    BY <1>0, <1>3, ChecksType DEF OnList
  <2> QED BY <1>3, <2>1, OnListType DEF OnList
<1>4. CASE OnList(FlushEventData("main", "stale_flush", "stale_flag", "stale"))
  <2>1. ListTypeOK(Thread, Label)'
    BY <1>0, <1>4, FlushEventDataKeepsType DEF OnList
  <2> QED BY <1>4, <2>1, OnListType DEF OnList
<1>5. CASE \E label \in Label :
             /\ Goto("main", label)
             /\ UNCHANGED <<workerVars, bundle, event_flag, bundles, current, runs>>
             /\ go_time' \in BOOLEAN /\ thread_live' \in BOOLEAN
  BY <1>0, <1>b, <1>5, TestType
<1> QED BY <1>0, <1>b, <1>1, <1>2, <1>3, <1>4, <1>5
        DEF BeginOfRun, EndOfRun, OnList, Test, managerVars

(* ... and taking events.                                                  *)
LEMMA TakeType ==
    ASSUME TypeOK, PauseResume \/ HasEvent \/ GetCurrentEvent \/ PopCurrentEvent
    PROVE  TypeOK'
<1>0. "main" \in Thread /\ {"running", "get_current", "pop_current"} \subseteq Label
  BY ListPart DEF Label
<1>b. go_time \in BOOLEAN /\ thread_live \in BOOLEAN /\ event_flag \in BOOLEAN
  BY DEF TypeOK
<1>w. WorkersTypeOK'
  <2>1. UNCHANGED workerVars
    BY DEF PauseResume, HasEvent, GetCurrentEvent, PopCurrentEvent, Test, listVars,
           workerVars
  <2> QED BY <2>1 DEF TypeOK, WorkersTypeOK, workerVars
<1>1. CASE PauseResume
  <2>1. go_time' \in BOOLEAN
    BY <1>1 DEF PauseResume
  <2>2. UNCHANGED <<pc, idx, bundle, thread_live, event_flag, bundles, current, runs>>
    BY <1>1 DEF PauseResume, listVars
  <2> QED BY <1>w, <2>1, <2>2 DEF TypeOK
<1>2. CASE HasEvent
  BY <1>0, <1>b, <1>2, TestType DEF HasEvent, Test, managerVars
<1>3. CASE GetCurrentEvent
  <2>1. pc' \in [Thread -> Label] /\ idx' \in [Thread -> Worker]
    BY <1>0, <1>3, GotoType DEF GetCurrentEvent
  <2>2. current' \in Bundle
    <3>1. bundles # <<>> => Head(bundles) \in Bundle
      BY DEF TypeOK
    <3>2. Nothing \in Bundle
      BY DEF Nothing, Bundle
    <3> QED BY <1>3, <3>1, <3>2 DEF GetCurrentEvent
  <2>3. UNCHANGED <<bundle, go_time, thread_live, event_flag, bundles, runs>>
    BY <1>3 DEF GetCurrentEvent
  <2> QED BY <1>w, <2>1, <2>2, <2>3 DEF TypeOK
<1>4. CASE PopCurrentEvent
  <2>1. pc' \in [Thread -> Label] /\ idx' \in [Thread -> Worker]
    BY <1>0, <1>4, GotoType DEF PopCurrentEvent
  <2>2. bundles' \in Seq(Bundle)
    <3>1. bundles # <<>> => Tail(bundles) \in Seq(Bundle)
      BY DEF TypeOK
    <3>2. <<>> \in Seq(Bundle)
      OBVIOUS
    <3> QED BY <1>4, <3>1, <3>2 DEF PopCurrentEvent
  <2>3. event_flag' \in BOOLEAN
    BY <1>4 DEF PopCurrentEvent
  <2>4. UNCHANGED <<bundle, go_time, thread_live, current, runs>>
    BY <1>4 DEF PopCurrentEvent
  <2> QED BY <1>w, <2>1, <2>2, <2>3, <2>4 DEF TypeOK
<1> QED BY <1>1, <1>2, <1>3, <1>4

(* Every step keeps the types.                                             *)
LEMMA TypeStep == TypeOK /\ [Next]_vars => TypeOK'
<1> SUFFICES ASSUME TypeOK, [Next]_vars PROVE TypeOK'
  OBVIOUS
<1>1. CASE RunLoop
  BY <1>1, RunLoopType
<1>2. CASE Frontend
  BY <1>2, BeginEndType, TakeType DEF Frontend
<1>3. CASE WorkerThreads
  <2>1. PICK w \in Worker : WorkerStep(w) /\ UNCHANGED managerVars
    BY <1>3 DEF WorkerThreads
  <2>2. WorkersTypeOK'
    BY <2>1, WorkLoopStep DEF WorkerStep, TypeOK
  <2> QED BY <2>1, <2>2 DEF WorkerStep, TypeOK, threadVars, managerVars
<1>4. CASE FireTrigger
  <2>1. PICK S \in SUBSET Worker : TriggerStep(S)
    BY <1>4 DEF FireTrigger
  <2>2. WorkersTypeOK'
    BY <2>1, TriggerStepType DEF TriggerStep, TypeOK
  <2> QED BY <1>4, <2>1, <2>2 DEF FireTrigger, TriggerStep, TypeOK, threadVars, managerVars
<1>5. CASE UNCHANGED vars
  BY <1>5 DEF vars, listVars, managerVars, TypeOK, WorkersTypeOK
<1> QED BY <1>1, <1>2, <1>3, <1>4, <1>5 DEF Next

(* Every variable of the manager keeps its type, however many workers of   *)
(* whatever kinds there are, however often runs begin, and whatever        *)
(* has_event_ was before the first.                                        *)
THEOREM BasicTypeCorrect == Spec => []TypeOK
BY TypeInit, TypeStep, PTL DEF Spec

-----------------------------------------------------------------------------
(* RunLoop queues a bundle if there are not already more than              *)
(* kMaxQueueSize, nothing else makes the queue longer: it never has more   *)
(* than one over.                                                          *)
THEOREM BasicQueueBounded == Spec => []QueueBounded
<1>1. Init => QueueBounded
  BY EventManagerAssumption DEF Init, QueueBounded
<1>2. TypeOK /\ QueueBounded /\ [Next]_vars => QueueBounded'
  <2> SUFFICES ASSUME TypeOK, QueueBounded, [Next]_vars PROVE QueueBounded'
    OBVIOUS
  <2>0. bundles \in Seq(Bundle) /\ KMaxQueueSize \in Nat
    BY EventManagerAssumption DEF TypeOK
  <2>1. \/ UNCHANGED bundles
        \/ Len(bundles) <= KMaxQueueSize /\ bundles' = Append(bundles, bundle)
        \/ bundles # <<>> /\ bundles' = Tail(bundles)
    <3>1. CASE RunLoop
      <4>1. CASE RunPush
        BY <4>1 DEF RunPush
      <4>2. CASE ~RunPush
        BY <3>1, <4>2 DEF RunLoop, RunOuter, RunGo, RunWait, RunSetFlag, Test, OnList,
               managerVars
      <4> QED BY <4>1, <4>2
    <3>2. CASE Frontend
      <4>1. CASE PopCurrentEvent
        BY <4>1 DEF PopCurrentEvent
      <4>2. CASE ~PopCurrentEvent
        BY <3>2, <4>2 DEF Frontend, BeginOfRun, EndOfRun, PauseResume, HasEvent,
               GetCurrentEvent, Test, OnList, managerVars
      <4> QED BY <4>1, <4>2
    <3>3. CASE WorkerThreads \/ FireTrigger \/ UNCHANGED vars
      BY <3>3 DEF WorkerThreads, FireTrigger, vars, managerVars
    <3> QED BY <3>1, <3>2, <3>3 DEF Next
  <2>2. Len(Append(bundles, bundle)) = Len(bundles) + 1
    BY <2>0
  <2>3. bundles # <<>> => Len(Tail(bundles)) = Len(bundles) - 1
    BY <2>0
  <2> QED BY <2>0, <2>1, <2>2, <2>3 DEF QueueBounded
<1> QED BY <1>1, <1>2, BasicTypeCorrect, PTL DEF Spec

-----------------------------------------------------------------------------
(* The inductive invariant of CompleteBundles.                             *)

(* Nothing has been triggered since the workers were constructed.          *)
Untriggered ==
    \A w \in Worker : /\ captured[w] = <<>> /\ data_queue[w] = <<>>
                      /\ ~has_event[w] /\ work[w] \in {"none", "poll"}

(* BeginOfRun runs with RunLoop ended, and finds no stale event to drop.   *)
QuietBeginning ==
    /\ At("main", "idle") => At("run", "done")
    /\ pc["main"] \in Beginning => Untriggered
    /\ pc["main"] \notin {"stale_flush", "stale_flag"}

(* What RunLoop knows of the queues, and that what it queues is complete.  *)
IInv == TypeOK /\ Informed("run") /\ bundles \in Seq(Complete) /\ QuietBeginning

(* The hypotheses: the run's assumption on triggers, and no worker whose   *)
(* device shows an event before the first trigger.                         *)
NoneDumps == \A w \in Worker : ~Device(w).dumps_first

-----------------------------------------------------------------------------
(* RunLoop's steps on the queues only take from them.                      *)
TakesOnly ==
    /\ UNCHANGED <<captured, work>>
    /\ \A w \in Worker : /\ data_queue[w] = <<>> => data_queue'[w] = <<>>
                         /\ has_event'[w] => has_event[w]

LEMMA RunTakes ==
    ASSUME TypeOK, RunLoop
    PROVE  TakesOnly /\ ~At("run", "done") /\ pc'["main"] = pc["main"]
<1>0. /\ ListTypeOK(Thread, Label) /\ {"run", "main"} \subseteq Thread
      /\ "main" \in Thread \ {"run"}
      /\ data_queue \in [Worker -> Seq(Event)] /\ has_event \in [Worker -> BOOLEAN]
      /\ idx["run"] \in Worker
      /\ pc \in [Thread -> Label] /\ idx \in [Thread -> Worker]
  BY ListPart DEF TypeOK, WorkersTypeOK
<1>1. CASE OnList(GetEventData("run", "get", "push"))
  <2>1. PopEvent(idx["run"]) /\ At("run", "get")
    BY <1>1 DEF OnList, GetEventData
  <2>2. TakesOnly
    BY <1>0, <2>1 DEF PopEvent, TakesOnly, deviceVars
  <2>3. Moves("run", "get", "push")
    BY <1>1 DEF OnList, GetEventData, Moves
  <2> QED BY <1>0, <2>1, <2>2, <2>3, MovesNoOther DEF At
<1>2. CASE OnList(FlushEventData("run", "flush", "flag", "check"))
  <2>1. \/ ClearQueue(idx["run"]) /\ At("run", "flush")
        \/ ClearFlag(idx["run"]) /\ At("run", "flag")
    BY <1>2 DEF OnList, FlushEventData, FlushQueue, FlushFlag
  <2>2. TakesOnly
    BY <1>0, <2>1 DEF ClearQueue, ClearFlag, TakesOnly, deviceVars
  <2>3. \E here, after \in Label : Moves("run", here, after)
    BY <1>2 DEF OnList, FlushEventData, FlushQueue, FlushFlag, Moves, Label
  <2> QED BY <1>0, <2>1, <2>2, <2>3, MovesNoOther DEF At
<1>3. CASE /\ ~OnList(GetEventData("run", "get", "push"))
           /\ ~OnList(FlushEventData("run", "flush", "flag", "check"))
  <2>1. UNCHANGED workerVars /\ ~At("run", "done")
    BY <1>3 DEF RunLoop, RunOuter, RunGo, RunWait, RunPush, RunSetFlag, Test, OnList,
           AnyWorkersHaveEvent, AllWorkersHaveEvent, AnyWorkersHaveMultiEvent, At
  <2>2. TakesOnly
    BY <2>1 DEF TakesOnly, workerVars
  <2>3. \E here, after \in Label : Moves("run", here, after)
    BY <1>3 DEF RunLoop, RunOuter, RunGo, RunWait, RunPush, RunSetFlag, Test, OnList,
           AnyWorkersHaveEvent, AllWorkersHaveEvent, AnyWorkersHaveMultiEvent, Moves, Label
  <2> QED BY <1>0, <2>1, <2>2, <2>3, MovesNoOther
<1> QED BY <1>1, <1>2, <1>3

(* RunLoop keeps the invariant.                                            *)
LEMMA RunStep ==
    ASSUME IInv, RunLoop
    PROVE  Informed("run")' /\ bundles' \in Seq(Complete) /\ QuietBeginning'
<1>0. /\ TypeOK /\ ListTypeOK(Thread, Label) /\ "run" \in Thread /\ Informed("run")
      /\ bundles \in Seq(Complete)
  BY ListPart DEF IInv
<1>1. QuietBeginning'
  BY <1>0, RunTakes DEF IInv, QuietBeginning, Untriggered, TakesOnly, At
<1>2. Informed("run")'
  <2>1. CASE RunOuter \/ RunGo \/ RunWait \/ RunSetFlag
    <3>1. /\ UNCHANGED <<queueVars, bundle>>
          /\ pc["run"] \in {"outer", "check", "wait", "set_flag"}
          /\ \E label \in {"flush", "done", "any", "outer", "all"} : Goto("run", label)
      BY <2>1 DEF RunOuter, RunGo, RunWait, RunSetFlag, Test, At, workerVars, queueVars
    <3> QED BY <1>0, <3>1, GotoInformed
  <2>2. CASE \/ OnList(AnyWorkersHaveEvent("run", "any", "wait", "check"))
             \/ OnList(AllWorkersHaveEvent("run", "all", "multi", "flush"))
             \/ OnList(AnyWorkersHaveMultiEvent("run", "multi", "flush", "get"))
    BY <1>0, <2>2, ChecksInformed DEF OnList
  <2>3. CASE OnList(GetEventData("run", "get", "push"))
    BY <1>0, <2>3, GetEventDataInformed DEF OnList
  <2>4. CASE OnList(FlushEventData("run", "flush", "flag", "check"))
    BY <1>0, <2>4, FlushInformed DEF OnList
  <2>5. CASE RunPush
    <3>1. UNCHANGED queueVars /\ At("run", "push") /\ bundle' = <<>>
          /\ Goto("run", "set_flag")
      BY <2>5 DEF RunPush, workerVars, queueVars
    <3> QED BY <1>0, <3>1, PushInformed
  <2> QED BY <2>1, <2>2, <2>3, <2>4, <2>5 DEF RunLoop
<1>3. bundles' \in Seq(Complete)
  <2>1. CASE RunPush
    <3>1. UNCHANGED queueVars /\ At("run", "push") /\ bundle' = <<>>
          /\ Goto("run", "set_flag")
      BY <2>1 DEF RunPush, workerVars, queueVars
    <3>2. bundle \in Complete
      BY <1>0, <3>1, PushInformed DEF Complete
    <3>3. Append(bundles, bundle) \in Seq(Complete)
      BY <1>0, <3>2
    <3> QED BY <1>0, <2>1, <3>3 DEF RunPush
  <2>2. CASE ~RunPush
    BY <1>0, <2>2 DEF RunLoop, RunOuter, RunGo, RunWait, RunSetFlag, Test, OnList,
           managerVars
  <2> QED BY <2>1, <2>2
<1> QED BY <1>1, <1>2, <1>3

-----------------------------------------------------------------------------
(* The frontend's steps.                                                   *)

(* A step that leaves RunLoop and the queues alone, and begins no run.     *)
LEMMA MainMoves ==
    ASSUME IInv, UNCHANGED <<data_queue, has_event, bundle>>,
           pc'["run"] = pc["run"], idx'["run"] = idx["run"]
    PROVE  Informed("run")'
<1>1. KeepsEvents
  BY DEF KeepsEvents
<1> QED BY <1>1, ListPart, OthersKeepInformed DEF IInv

(* A run begins: RunLoop and the workers are new.                          *)
LEMMA FirstStep ==
    ASSUME IInv, NoneDumps, At("main", "idle"), Construct, UNCHANGED bundle,
           pc' = [pc EXCEPT !["main"] = "begin", !["run"] = "outer"]
    PROVE  Informed("run")' /\ QuietBeginning'
<1>1. pc'["run"] = "outer" /\ pc'["main"] = "begin"
  BY ListPart DEF IInv, TypeOK, Thread
<1>2. Untriggered'
  BY DEF Construct, NewCaptured, OnEach, NoneDumps, Untriggered
<1>3. pc["run"] = "done"
  BY DEF IInv, QuietBeginning, At
<1>4. bundle' = <<>>
  BY <1>3 DEF IInv, Informed, SeesEvents, CountsEvents, At
<1>5. SeesEvents("run")'
  BY <1>1, <1>4 DEF SeesEvents, CountsEvents, At
<1>6. FlagsTell("run")'
  BY <1>2 DEF FlagsTell, Untriggered
<1>7. QuietBeginning'
  BY <1>1, <1>2 DEF QuietBeginning, At
<1> QED BY <1>5, <1>6, <1>7 DEF Informed

(* BeginOfRun goes on: it starts the workers, and finds no event of theirs. *)
LEMMA BeginStep ==
    ASSUME IInv, NoneDumps, BeginOfRun, ~At("main", "idle")
    PROVE  Informed("run")' /\ bundles' \in Seq(Complete) /\ QuietBeginning'
<1> DEFINE m == "main"
<1>0. /\ m \in Thread /\ "run" \in Thread \ {m} /\ idx[m] \in Worker
      /\ pc \in [Thread -> Label] /\ idx \in [Thread -> Worker]
      /\ bundles \in Seq(Complete)
      /\ work \in [Worker -> {"none", "dump", "poll", "read", "finish", "push"}]
  BY ListPart DEF IInv, TypeOK, WorkersTypeOK, Thread
<1>1. Untriggered /\ At(m, "stale_flush") = FALSE /\ At(m, "stale_flag") = FALSE
  BY DEF IInv, QuietBeginning, BeginOfRun, Beginning, At, OnList, StartThreads,
         StartWorkers, AnyWorkersHaveEvent, FlushEventData, FlushQueue, FlushFlag
<1>2. CASE At(m, "begin") /\ Goto(m, "threads") /\ UNCHANGED <<workerVars, bundle, bundles>>
  <2>1. pc'[m] = "threads" /\ Moves(m, "threads", "threads")
    BY <1>0, <1>2 DEF Goto, Moves
  <2>2. Informed("run")'
    BY <1>0, <1>2, <2>1, MainMoves, MovesNoOther DEF workerVars
  <2>3. QuietBeginning'
    BY <1>1, <1>2, <2>1 DEF QuietBeginning, Untriggered, At, workerVars
  <2> QED BY <1>0, <1>2, <2>2, <2>3
<1>3. CASE StartThreads(m, "threads", "workers") /\ UNCHANGED managerVars
  <2>1. /\ pc'[m] \in {"threads", "workers"} /\ Moves(m, "threads", "workers")
        /\ StartThread(idx[m]) /\ UNCHANGED <<bundle, bundles>>
    BY <1>0, <1>3 DEF StartThreads, NextWorker, Goto, Moves, managerVars
  <2>2. Informed("run")'
    <3>1. UNCHANGED <<data_queue, has_event, bundle>>
      BY <2>1 DEF StartThread, queueVars
    <3>2. pc'["run"] = pc["run"] /\ idx'["run"] = idx["run"]
      BY <1>0, <2>1, MovesNoOther
    <3> QED BY <3>1, <3>2, MainMoves
  <2>3. work' = [work EXCEPT ![idx[m]] = "poll"]
    BY <1>0, <2>1 DEF StartThread, NoneDumps
  <2>4. Untriggered'
    BY <1>0, <1>1, <2>1, <2>3 DEF Untriggered, StartThread, queueVars
  <2> QED BY <1>0, <2>1, <2>2, <2>4 DEF QuietBeginning, At
<1>4. CASE StartWorkers(m, "workers", "stale") /\ UNCHANGED managerVars
  <2>1. /\ pc'[m] \in {"workers", "stale"} /\ Moves(m, "workers", "stale")
        /\ SetGoTime(idx[m], TRUE) /\ UNCHANGED <<bundle, bundles>>
    BY <1>0, <1>4 DEF StartWorkers, NextWorker, Goto, Moves, managerVars
  <2>2. Informed("run")'
    BY <1>0, <2>1, MainMoves, MovesNoOther DEF SetGoTime, queueVars
  <2>3. Untriggered'
    BY <1>1, <2>1 DEF Untriggered, SetGoTime, queueVars, deviceVars
  <2> QED BY <1>0, <2>1, <2>2, <2>3 DEF QuietBeginning, At
<1>5. CASE AnyWorkersHaveEvent(m, "stale", "stale_flush", "running")
           /\ UNCHANGED managerVars
  <2>1. ~has_event[idx[m]]
    BY <1>0, <1>1 DEF Untriggered
  <2>2. /\ pc'[m] \in {"stale", "running"} /\ Moves(m, "stale", "running")
        /\ UNCHANGED <<workerVars, bundle, bundles>>
    BY <1>0, <1>5, <2>1 DEF AnyWorkersHaveEvent, NextWorker, Goto, Moves, managerVars
  <2>3. Informed("run")'
    BY <1>0, <2>2, MainMoves, MovesNoOther DEF workerVars
  <2>4. Untriggered'
    BY <1>1, <2>2 DEF Untriggered, workerVars
  <2> QED BY <1>0, <2>2, <2>3, <2>4 DEF QuietBeginning, At
<1> QED BY <1>1, <1>2, <1>3, <1>4, <1>5
        DEF BeginOfRun, OnList, FlushEventData, FlushQueue, FlushFlag

(* Once it has returned, the frontend leaves the queues alone until it     *)
(* begins another run, when RunLoop has ended.                             *)
LEMMA RestStep ==
    ASSUME IInv, Frontend, ~BeginOfRun
    PROVE  Informed("run")' /\ bundles' \in Seq(Complete) /\ QuietBeginning'
<1> DEFINE m == "main"
<1>0. /\ m \in Thread /\ "run" \in Thread \ {m} /\ idx[m] \in Worker
      /\ pc \in [Thread -> Label] /\ idx \in [Thread -> Worker]
      /\ bundles \in Seq(Complete) /\ ListTypeOK(Thread, Label)
  BY ListPart DEF IInv, TypeOK, Thread
<1>1. CASE \/ StopWorkers(m, "stop_workers", "stop_threads") /\ UNCHANGED managerVars
           \/ /\ StopThreads(m, "stop_threads", "join_thread", "join")
              /\ UNCHANGED managerVars
  <2>1. UNCHANGED <<data_queue, has_event, bundle>>
    <3>1. {"stop_workers", "stop_threads", "join_thread", "join"} \subseteq Label
      BY DEF Label
    <3> QED BY <1>0, <1>1, <3>1, StartStopType
  <2>2. \E here, after \in Label : Moves(m, here, after)
    BY <1>1 DEF StopWorkers, StopThreads, Moves, Label
  <2>3. Informed("run")'
    BY <1>0, <2>1, <2>2, MainMoves, MovesNoOther
  <2>4. pc'[m] \in {"stop_workers", "stop_threads", "join_thread", "join"}
    BY <1>0, <1>1 DEF StopWorkers, StopThreads, NextWorker, Goto
  <2>5. QuietBeginning'
    BY <2>4 DEF QuietBeginning, At, Beginning
  <2> QED BY <1>0, <1>1, <2>3, <2>5 DEF managerVars
<1>2. CASE /\ \E label \in {"running", "end", "stop_workers", "idle", "get_current",
                            "pop_current"} :
                  Goto(m, label) /\ (label = "idle" => At("run", "done"))
           /\ UNCHANGED <<workerVars, bundle>>
           /\ \/ UNCHANGED bundles
              \/ bundles # <<>> /\ bundles' = Tail(bundles)
  <2>1. PICK label \in {"running", "end", "stop_workers", "idle", "get_current",
                        "pop_current"} :
                 Goto(m, label) /\ (label = "idle" => At("run", "done"))
    BY <1>2
  <2>2. Moves(m, label, label) /\ pc'[m] = label
    BY <1>0, <2>1 DEF Moves, Goto
  <2>3. pc'["run"] = pc["run"] /\ idx'["run"] = idx["run"]
    BY <1>0, <2>2, MovesNoOther
  <2>4. Informed("run")'
    BY <1>2, <2>3, MainMoves DEF workerVars
  <2>5. QuietBeginning'
    BY <2>1, <2>2, <2>3 DEF QuietBeginning, At, Beginning
  <2>6. bundles # <<>> => Tail(bundles) \in Seq(Complete)
    BY <1>0
  <2> QED BY <1>0, <1>2, <2>4, <2>5, <2>6
<1>3. CASE PauseResume
  <2>1. UNCHANGED <<listVars, bundles>> /\ pc[m] = "running"
    BY <1>3 DEF PauseResume, At
  <2>2. Informed("run")'
    BY <2>1, MainMoves DEF listVars
  <2>3. QuietBeginning'
    BY <2>1 DEF QuietBeginning, At, Beginning, listVars
  <2> QED BY <1>0, <2>1, <2>2, <2>3
<1>4. CASE EndOfRun
  BY <1>1, <1>2, <1>4 DEF EndOfRun, Test, OnList, managerVars
<1>5. CASE HasEvent \/ GetCurrentEvent
  BY <1>2, <1>5 DEF HasEvent, GetCurrentEvent, Test, managerVars
<1>6. CASE PopCurrentEvent
  <2>1. UNCHANGED bundles \/ (bundles # <<>> /\ bundles' = Tail(bundles))
    BY <1>6 DEF PopCurrentEvent
  <2> QED BY <1>2, <1>6, <2>1 DEF PopCurrentEvent
<1> QED BY <1>3, <1>4, <1>5, <1>6 DEF Frontend

-----------------------------------------------------------------------------
(* The workers and the triggers.                                           *)

(* A worker that has not been triggered finds nothing to read.             *)
LEMMA WorkerIdles ==
    ASSUME TypeOK, Untriggered, NEW w \in Worker, WorkLoop(w)
    PROVE  Untriggered'
<1>1. work[w] \in {"none", "poll"} /\ \A v \in Worker : captured[v] = <<>>
  BY DEF Untriggered
<1>2. ~Poll(w)
  <2>1. Statuses(w) \subseteq {FALSE}
    BY <1>1 DEF Statuses
  <2> QED BY <2>1 DEF Poll
<1>3. Exit(w)
  BY <1>1, <1>2 DEF WorkLoop, Dump, Read, Finish, Push
<1> QED BY <1>3 DEF Exit, Untriggered, TypeOK, WorkersTypeOK, queueVars

(* Neither moves RunLoop or the frontend, and neither takes an event.      *)
LEMMA OutsideStep ==
    ASSUME IInv, KeepsEvents, UNCHANGED <<threadVars, bundle, managerVars>>,
           pc["main"] \in Beginning => Untriggered'
    PROVE  Informed("run")' /\ bundles' \in Seq(Complete) /\ QuietBeginning'
<1>1. Informed("run")'
  BY ListPart, OthersKeepInformed DEF IInv, threadVars
<1>2. QuietBeginning'
  BY DEF IInv, QuietBeginning, At, threadVars
<1> QED BY <1>1, <1>2 DEF IInv, managerVars

-----------------------------------------------------------------------------
(* The invariant, and what it gives.                                       *)

(* Before the first run, RunLoop has not begun and nothing is queued.      *)
LEMMA IInvInit == Init => IInv
<1> SUFFICES ASSUME Init PROVE IInv
  OBVIOUS
<1>1. pc["run"] = "done" /\ pc["main"] = "idle"
  BY DEF Init, Thread
<1>2. Informed("run")
  <2>1. FlagsTell("run")
    BY DEF Init, FlagsTell, WorkersInit, OnEach
  <2>2. SeesEvents("run")
    BY <1>1 DEF Init, SeesEvents, CountsEvents, At
  <2> QED BY <2>1, <2>2 DEF Informed
<1>3. QuietBeginning
  BY <1>1 DEF QuietBeginning, At, Beginning
<1>4. bundles \in Seq(Complete)
  BY DEF Init
<1> QED BY <1>2, <1>3, <1>4, TypeInit DEF IInv

(* With the two hypotheses, the invariant is inductive.                    *)
LEMMA IInvStep == ASSUME QuietStart, NoneDumps PROVE IInv /\ [Next]_vars => IInv'
<1> SUFFICES ASSUME IInv, [Next]_vars PROVE IInv'
  OBVIOUS
<1>0. TypeOK' /\ TypeOK
  BY TypeStep DEF IInv
<1>1. CASE RunLoop
  BY <1>0, <1>1, RunStep DEF IInv
<1>2. CASE Frontend
  <2>1. CASE BeginOfRun /\ At("main", "idle")
    <3>1. /\ Construct /\ UNCHANGED <<bundle, bundles>>
          /\ pc' = [pc EXCEPT !["main"] = "begin", !["run"] = "outer"]
      BY <2>1 DEF BeginOfRun, At, OnList, StartThreads, StartWorkers,
                  AnyWorkersHaveEvent, FlushEventData, FlushQueue, FlushFlag
    <3> QED BY <1>0, <2>1, <3>1, FirstStep DEF IInv
  <2>2. CASE BeginOfRun /\ ~At("main", "idle")
    BY <1>0, <2>2, BeginStep DEF IInv
  <2>3. CASE ~BeginOfRun
    BY <1>0, <1>2, <2>3, RestStep DEF IInv
  <2> QED BY <2>1, <2>2, <2>3
<1>3. CASE WorkerThreads
  <2>1. PICK w \in Worker : WorkerStep(w) /\ UNCHANGED managerVars
    BY <1>3 DEF WorkerThreads
  <2>2. WorkLoop(w) /\ KeepsEvents /\ UNCHANGED <<threadVars, bundle>>
    BY <1>0, <2>1, WorkLoopStep DEF WorkerStep, TypeOK
  <2>3. pc["main"] \in Beginning => Untriggered'
    BY <1>0, <2>2, WorkerIdles DEF IInv, QuietBeginning
  <2> QED BY <1>0, <2>1, <2>2, <2>3, OutsideStep DEF IInv
<1>4. CASE FireTrigger
  <2>1. PICK S \in SUBSET Worker : TriggerStep(S)
    BY <1>4 DEF FireTrigger
  <2>2. KeepsEvents /\ UNCHANGED <<threadVars, bundle>>
    BY <1>0, <2>1, TriggerStepType DEF TriggerStep, TypeOK
  <2>3. pc["main"] \notin Beginning /\ UNCHANGED managerVars
    BY <1>4 DEF FireTrigger
  <2> QED BY <1>0, <2>2, <2>3, OutsideStep DEF IInv
<1>5. CASE UNCHANGED vars
  <2>1. KeepsEvents /\ UNCHANGED <<threadVars, bundle, managerVars, listVars>>
    BY <1>5 DEF vars, listVars, threadVars, KeepsEvents
  <2>2. pc["main"] \in Beginning => Untriggered'
    BY <2>1 DEF IInv, QuietBeginning, Untriggered, listVars
  <2> QED BY <1>0, <2>1, <2>2, OutsideStep DEF IInv
<1> QED BY <1>1, <1>2, <1>3, <1>4, <1>5 DEF Next

(* If no trigger comes during BeginOfRun, and no worker shows an event     *)
(* before its first trigger as the SIS 3302 does, every bundle the         *)
(* frontend can take has an event of each worker, whatever the workers do, *)
(* whenever runs are paused and ended and however late the frontend takes  *)
(* the bundles.  Without the second hypothesis BeginOfRun's own flush of   *)
(* "stale events" takes one that RunLoop has already seen.                 *)
THEOREM BasicBundlesComplete ==
    ASSUME QuietStart, NoneDumps
    PROVE  Spec => []CompleteBundles
<1>1. IInv => CompleteBundles
  <2> SUFFICES ASSUME IInv, NEW i \in DOMAIN bundles, NEW w \in Worker
               PROVE  bundles[i][w] # Uninitialised
    BY DEF CompleteBundles
  <2>1. bundles \in Seq(Complete)
    BY DEF IInv
  <2>2. bundles[i] \in Complete
    BY <2>1
  <2>3. bundles[i] \in Seq(Event) /\ Len(bundles[i]) = NWorkers
    BY <2>2 DEF Complete
  <2>4. bundles[i][w] \in Event
    BY <2>3 DEF Worker
  <2> QED BY <2>4, UninitialisedIsNoEvent
<1>2. IInv /\ [Next]_vars => IInv'
  BY IInvStep
<1> QED BY <1>1, <1>2, IInvInit, PTL DEF Spec

-----------------------------------------------------------------------------
(* The order of the events of a worker that is alone, up to the frontend.  *)

(* The frontend has taken the event of an earlier bundle than the first.   *)
Taken == current # Nothing /\ ~At("main", "pop_current")

CurrentPast(w) ==
    \E n \in 0..triggers : /\ Taken => In(current[w], w, 0, n)
                           /\ QueuedPast(bundles, w, n)

EventsOrdered(w) == DeviceOrdered(w) /\ CurrentPast(w)

(* What it copies from the front of the queue is what it pops.             *)
TakesFirst ==
    /\ current \in Complete \cup {Nothing}
    /\ Taken \/ current = Nothing \/ (bundles # <<>> /\ current = Head(bundles))

OrderInv == TakesFirst /\ \A w \in Worker : Alone(w) => EventsOrdered(w)

LEMMA NothingIsNotComplete == Nothing \notin Complete
<1>1. Len(Nothing) = 0
  BY DEF Nothing
<1> QED BY <1>1, WorkersAssumption DEF Complete

(* A step that leaves the bundles and what the frontend has as they are.   *)
LEMMA CurrentKept ==
    ASSUME NEW w \in Worker, triggers \in Nat, triggers' \in Nat, triggers <= triggers',
           UNCHANGED <<bundle, bundles>>, Taken' => Taken /\ current' = current,
           \A n \in Nat : WorkerPast(w, n) => WorkerPast(w, n)', CurrentPast(w)
    PROVE  CurrentPast(w)'
<1>1. PICK n \in 0..triggers : /\ Taken => In(current[w], w, 0, n)
                               /\ QueuedPast(bundles, w, n)
  BY DEF CurrentPast
<1>2. n \in Nat /\ n \in 0..triggers'
  OBVIOUS
<1>3. \A m \in Nat : BundlePast(w, m) => BundlePast(w, m)'
  BY BundleKept
<1>4. QueuedPast(bundles, w, n)'
  BY <1>1, <1>2, <1>3, QueuedKept DEF QueuedPast
<1>5. Taken' => In(current'[w], w, 0, n)
  BY <1>1
<1> QED BY <1>2, <1>4, <1>5 DEF CurrentPast

(* A step of RunLoop that moves an event nearer to the frontend.           *)
LEMMA CurrentMoves ==
    ASSUME NEW w \in Worker, triggers \in Nat, triggers' = triggers, Taken' = Taken,
           current' = current, CurrentPast(w),
           \A n \in Nat : QueuedPast(bundles, w, n) => QueuedPast(bundles, w, n)'
    PROVE  CurrentPast(w)'
<1>1. PICK n \in 0..triggers : /\ Taken => In(current[w], w, 0, n)
                               /\ QueuedPast(bundles, w, n)
  BY DEF CurrentPast
<1>2. QueuedPast(bundles, w, n)'
  BY <1>1
<1> QED BY <1>1, <1>2 DEF CurrentPast

(* RunLoop takes nothing from the queue of bundles, and adds at its end.   *)
LEMMA RunOrdered ==
    ASSUME IInv, OrderInv, RunLoop
    PROVE  OrderInv'
<1> DEFINE r == "run"
<1>0. /\ TypeOK /\ ListTypeOK(Thread, Label) /\ r \in Thread /\ Informed(r)
      /\ bundles \in Seq(Complete) /\ triggers \in Nat /\ WorkersTypeOK /\ idx[r] \in Worker
  BY ListPart DEF IInv, TypeOK, WorkersTypeOK
<1>1. pc'["main"] = pc["main"] /\ current' = current
  BY <1>0, RunTakes DEF RunLoop, RunOuter, RunGo, RunWait, RunPush, RunSetFlag, Test, OnList,
     managerVars
<1>2. Taken' = Taken
  BY <1>1 DEF Taken, At
<1>3. bundles' = bundles \/ (RunPush /\ bundles' \in {bundles, Append(bundles, bundle)})
  BY DEF RunLoop, RunOuter, RunGo, RunWait, RunPush, RunSetFlag, Test, OnList, managerVars
<1>4. TakesFirst'
  <2>1. bundles # <<>> => /\ bundles' # <<>>
                          /\ Head(bundles') = Head(bundles)
    <3>1. ASSUME NEW s \in Seq(Complete), s # <<>>, NEW b
          PROVE  Append(s, b) # <<>> /\ Head(Append(s, b)) = Head(s)
      BY <3>1
    <3> QED BY <1>0, <1>3, <3>1
  <2> QED BY <1>1, <1>2, <2>1 DEF OrderInv, TakesFirst
<1>5. ASSUME NEW w \in Worker, Alone(w) PROVE EventsOrdered(w)'
  <2>0. DeviceOrdered(w) /\ CurrentPast(w)
    BY <1>5 DEF OrderInv, EventsOrdered
  <2>1. CASE OnList(GetEventData(r, "get", "push"))
    <3>1. /\ triggers' = triggers /\ DeviceOrdered(w)' /\ bundles' = bundles
          /\ \A n \in Nat : BundlePast(w, n) => BundlePast(w, n)'
      BY <1>0, <2>0, <2>1, GetOrdered DEF OnList, managerVars
    <3>2. \A n \in Nat : QueuedPast(bundles, w, n) => QueuedPast(bundles, w, n)'
      BY <1>0, <3>1, QueuedKept DEF QueuedPast
    <3> QED BY <1>0, <1>1, <1>2, <2>0, <3>1, <3>2, CurrentMoves DEF EventsOrdered
  <2>2. CASE RunPush
    <3>1. /\ At(r, "push") /\ UNCHANGED workerVars /\ bundle' = <<>>
          /\ bundles' \in {bundles, Append(bundles, bundle)}
      BY <2>2 DEF RunPush
    <3>2. PICK q \in {bundles, Append(bundles, bundle)} : bundles' = q
      BY <3>1
    <3>3. /\ triggers' = triggers /\ DeviceOrdered(w)'
          /\ \A n \in Nat : QueuedPast(bundles, w, n) => QueuedPast(q, w, n)'
      BY <1>0, <2>0, <3>1, PushedOrdered
    <3>4. \A n \in Nat : QueuedPast(bundles, w, n) => QueuedPast(bundles, w, n)'
      BY <3>2, <3>3 DEF QueuedPast
    <3> QED BY <1>0, <1>1, <1>2, <2>0, <3>3, <3>4, CurrentMoves DEF EventsOrdered
  <2>3. CASE OnList(FlushEventData(r, "flush", "flag", "check"))
    <3>1. /\ triggers' = triggers /\ bundle' = bundle /\ DeviceOrdered(w)'
          /\ bundles' = bundles
          /\ \A n \in Nat : WorkerPast(w, n) => WorkerPast(w, n)'
      BY <1>0, <1>5, <2>0, <2>3, FlushOrdered DEF OnList, managerVars
    <3> QED BY <1>0, <1>1, <1>2, <2>0, <3>1, CurrentKept DEF EventsOrdered
  <2>4. CASE /\ ~RunPush /\ ~OnList(GetEventData(r, "get", "push"))
             /\ ~OnList(FlushEventData(r, "flush", "flag", "check"))
    <3>1. UNCHANGED <<workerVars, bundle, bundles>>
      BY <2>4 DEF RunLoop, RunOuter, RunGo, RunWait, RunSetFlag, Test, OnList, managerVars,
                  AnyWorkersHaveEvent, AllWorkersHaveEvent, AnyWorkersHaveMultiEvent
    <3>2. UNCHANGED <<triggers, captured, memory, work, static_bundle, data_queue>>
      BY <3>1 DEF workerVars
    <3>3. DeviceOrdered(w)' /\ \A n \in Nat : WorkerPast(w, n) => WorkerPast(w, n)'
      BY <2>0, <3>2 DEF DeviceOrdered, InProgress, Handed, WorkerPast, DevicePast
    <3> QED BY <1>0, <1>1, <1>2, <2>0, <3>1, <3>2, <3>3, CurrentKept DEF EventsOrdered
  <2> QED BY <2>1, <2>2, <2>3, <2>4
<1> QED BY <1>4, <1>5 DEF OrderInv

(* The frontend pops the bundle whose events it has taken.                 *)
LEMMA PopKeepsOrder ==
    ASSUME IInv, OrderInv, PopCurrentEvent
    PROVE  OrderInv'
<1>0. bundles \in Seq(Complete) /\ triggers \in Nat /\ pc["main"] = "pop_current" /\ ~Taken
  BY DEF IInv, TypeOK, WorkersTypeOK, PopCurrentEvent, At, Taken
<1>1. /\ pc'["main"] = "running" /\ current' = current
      /\ bundles' = IF bundles = <<>> THEN <<>> ELSE Tail(bundles)
      /\ UNCHANGED <<workerVars, bundle>>
  BY ListPart DEF IInv, TypeOK, PopCurrentEvent, Goto
<1>2. UNCHANGED <<triggers, captured, memory, work, static_bundle, data_queue>>
  BY <1>1 DEF workerVars
<1>3. Taken' = (current # Nothing)
  BY <1>1 DEF Taken, At
<1>4. TakesFirst'
  BY <1>1, <1>3 DEF OrderInv, TakesFirst
<1>5. ASSUME NEW w \in Worker, Alone(w) PROVE EventsOrdered(w)'
  <2>0. DeviceOrdered(w) /\ CurrentPast(w)
    BY <1>5 DEF OrderInv, EventsOrdered
  <2>1. DeviceOrdered(w)' /\ \A n \in Nat : WorkerPast(w, n) => WorkerPast(w, n)'
    BY <1>2, <2>0 DEF DeviceOrdered, InProgress, Handed, WorkerPast, DevicePast
  <2>2. \A n \in Nat : BundlePast(w, n) => BundlePast(w, n)'
    BY <1>0, <1>1, <1>2, <2>1, BundleKept
  <2>3. PICK n \in 0..triggers : QueuedPast(bundles, w, n)
    BY <2>0 DEF CurrentPast
  <2>4. n \in Nat
    OBVIOUS
  <2>5. CASE bundles = <<>>
    <3>1. bundles' = bundles /\ ~Taken'
      BY <1>0, <1>1, <1>3, <2>5 DEF OrderInv, TakesFirst
    <3> QED BY <1>0, <1>1, <1>2, <2>0, <2>1, <3>1, CurrentKept DEF EventsOrdered
  <2>6. CASE bundles # <<>>
    <3>1. PICK m \in n + 1 .. triggers :
             Head(bundles)[w] = Whole(w, m) /\ QueuedPast(Tail(bundles), w, m)
      BY <1>0, <2>3, <2>4, <2>6, FirstQueued
    <3>2. m \in Nat /\ m \in 0..triggers' /\ m \in 0 + 1 .. m
      BY <1>0, <1>2, <2>4
    <3>3. QueuedPast(bundles, w, m)'
      <4>1. PICK q : q = Tail(bundles)
        OBVIOUS
      <4>2. QueuedPast(q, w, m)
        BY <3>1, <4>1
      <4>3. triggers' \in Nat /\ triggers <= triggers'
        BY <1>0, <1>2
      <4>4. QueuedPast(q, w, m)'
        BY <1>0, <2>2, <3>2, <4>2, <4>3, QueuedKept
      <4> QED BY <1>1, <2>6, <4>1, <4>4 DEF QueuedPast
    <3>4. Taken' => In(current'[w], w, 0, m)
      BY <1>0, <1>1, <1>3, <3>1, <3>2 DEF OrderInv, TakesFirst, In
    <3>5. CurrentPast(w)'
      BY <3>2, <3>3, <3>4 DEF CurrentPast
    <3> QED BY <2>1, <3>5 DEF EventsOrdered
  <2> QED BY <2>5, <2>6
<1> QED BY <1>4, <1>5 DEF OrderInv

(* The workers of a new run start with nothing, after all that came before. *)
LEMMA ConstructOrdered ==
    ASSUME IInv, NoneDumps, At("main", "idle"), Construct, NEW w \in Worker
    PROVE  /\ triggers' = triggers /\ DeviceOrdered(w)'
           /\ \A n \in 0..triggers : WorkerPast(w, n)'
<1>0. triggers \in Nat
  BY DEF IInv, TypeOK, WorkersTypeOK
<1>1. /\ triggers' = triggers /\ captured'[w] = <<>> /\ data_queue'[w] = <<>>
      /\ work'[w] = "none"
  BY DEF Construct, NewCaptured, OnEach, NoneDumps
<1>2. DeviceOrdered(w)'
  BY <1>1 DEF DeviceOrdered, InProgress
<1>3. ASSUME NEW n \in 0..triggers PROVE WorkerPast(w, n)'
  <2>1. DevicePast(w, n)'
    BY <1>1 DEF DevicePast, InProgress
  <2>2. Run(data_queue'[w], w, n, n)
    BY <1>1, RunEmpty
  <2>3. n \in n..triggers'
    BY <1>0, <1>1
  <2> QED BY <2>1, <2>2, <2>3 DEF WorkerPast
<1> QED BY <1>1, <1>2, <1>3

LEMMA FirstKeepsOrder ==
    ASSUME IInv, OrderInv, NoneDumps, BeginOfRun, At("main", "idle")
    PROVE  OrderInv'
<1>0. /\ Construct /\ UNCHANGED <<bundle, bundles, current>> /\ triggers \in Nat
      /\ pc' = [pc EXCEPT !["main"] = "begin", !["run"] = "outer"]
      /\ pc["main"] = "idle"
  BY DEF BeginOfRun, At, OnList, StartThreads, StartWorkers, AnyWorkersHaveEvent,
         FlushEventData, FlushQueue, FlushFlag, IInv, TypeOK, WorkersTypeOK
<1>1. pc'["main"] = "begin"
  BY <1>0, ListPart DEF IInv, TypeOK, Thread
<1>2. Taken' = Taken
  BY <1>0, <1>1 DEF Taken, At
<1>3. TakesFirst'
  BY <1>0, <1>2 DEF OrderInv, TakesFirst
<1>4. ASSUME NEW w \in Worker, Alone(w) PROVE EventsOrdered(w)'
  <2>1. /\ triggers' = triggers /\ DeviceOrdered(w)'
        /\ \A n \in 0..triggers : WorkerPast(w, n)'
    BY <1>0, ConstructOrdered
  <2>2. CurrentPast(w)
    BY <1>4 DEF OrderInv, EventsOrdered
  <2>3. \A n \in Nat : WorkerPast(w, n) => n \in 0..triggers
    BY <1>0 DEF WorkerPast
  <2>4. \A n \in Nat : WorkerPast(w, n) => WorkerPast(w, n)'
    BY <2>1, <2>3
  <2> QED BY <1>0, <1>2, <2>1, <2>2, <2>4, CurrentKept DEF EventsOrdered
<1> QED BY <1>3, <1>4 DEF OrderInv

(* The other steps of the frontend, on the list or on its own variables.   *)
LEMMA FrontendLeaves ==
    ASSUME IInv, Frontend, ~PopCurrentEvent, ~(BeginOfRun /\ At("main", "idle"))
    PROVE  /\ UNCHANGED <<bundle, bundles>>
           /\ \/ UNCHANGED workerVars
              \/ FlushEventData("main", "stale_flush", "stale_flag", "stale")
              \/ \E here, join, after \in Label :
                   \/ StartThreads("main", here, after) \/ StartWorkers("main", here, after)
                   \/ StopWorkers("main", here, after)
                   \/ StopThreads("main", here, join, after)
           /\ \/ GetCurrentEvent
              \/ /\ current' = current
                 /\ pc["main"] # "pop_current" /\ pc'["main"] # "pop_current"
<1> DEFINE m == "main"
<1>0. /\ m \in Thread /\ pc \in [Thread -> Label] /\ idx \in [Thread -> Worker]
  BY ListPart DEF IInv, TypeOK, Thread
<1>1. CASE BeginOfRun
  <2>1. CASE OnList(StartThreads(m, "threads", "workers"))
    BY <1>0, <2>1 DEF OnList, managerVars, StartThreads, NextWorker, Goto, At, Label, Beginning
  <2>2. CASE OnList(StartWorkers(m, "workers", "stale"))
    BY <1>0, <2>2 DEF OnList, managerVars, StartWorkers, NextWorker, Goto, At, Label, Beginning
  <2>3. CASE OnList(AnyWorkersHaveEvent(m, "stale", "stale_flush", "running"))
    BY <1>0, <2>3 DEF OnList, managerVars, AnyWorkersHaveEvent, NextWorker, Goto, At
  <2>4. CASE OnList(FlushEventData(m, "stale_flush", "stale_flag", "stale"))
    BY <1>0, <2>4 DEF OnList, managerVars, FlushEventData, FlushQueue, FlushFlag, NextWorker,
                      Goto, At
  <2>5. CASE At(m, "begin") /\ Goto(m, "threads")
             /\ UNCHANGED <<workerVars, bundle, bundles, current>>
    BY <1>0, <2>5 DEF Goto, At
  <2> QED BY <1>1, <2>1, <2>2, <2>3, <2>4, <2>5 DEF BeginOfRun
<1>2. CASE EndOfRun
  <2>1. CASE OnList(StopWorkers(m, "stop_workers", "stop_threads"))
    BY <1>0, <2>1 DEF OnList, managerVars, StopWorkers, NextWorker, Goto, At, Label
  <2>2. CASE OnList(StopThreads(m, "stop_threads", "join_thread", "join"))
    BY <1>0, <2>2 DEF OnList, managerVars, StopThreads, NextWorker, Goto, At, Label
  <2>3. CASE /\ pc[m] \in {"running", "end", "join"}
             /\ \E label \in {"end", "stop_workers", "idle"} : Goto(m, label)
             /\ UNCHANGED <<workerVars, bundle, bundles, current>>
    BY <1>0, <2>3 DEF Goto
  <2> QED BY <1>2, <2>1, <2>2, <2>3 DEF EndOfRun, Test, At, managerVars
<1>3. CASE PauseResume
  BY <1>3 DEF PauseResume, listVars, workerVars, At
<1>4. CASE HasEvent
  BY <1>0, <1>4 DEF HasEvent, Test, Goto, At, managerVars
<1>5. CASE GetCurrentEvent
  BY <1>5 DEF GetCurrentEvent
<1> QED BY <1>1, <1>2, <1>3, <1>4, <1>5 DEF Frontend

LEMMA FrontendKeepsOrder ==
    ASSUME IInv, OrderInv, Frontend, ~PopCurrentEvent, ~(BeginOfRun /\ At("main", "idle"))
    PROVE  OrderInv'
<1>0. /\ ListTypeOK(Thread, Label) /\ "main" \in Thread /\ triggers \in Nat
      /\ pc \in [Thread -> Label] /\ bundles \in Seq(Complete)
  BY ListPart DEF IInv, TypeOK, WorkersTypeOK
<1>1. UNCHANGED <<bundle, bundles>>
  BY FrontendLeaves
<1>2. TakesFirst' /\ (Taken' => Taken /\ current' = current)
  <2>1. CASE GetCurrentEvent
    <3>1. /\ pc'["main"] = "pop_current"
          /\ current' = IF bundles = <<>> THEN Nothing ELSE Head(bundles)
      BY <1>0, <2>1 DEF GetCurrentEvent, Goto
    <3>2. ~Taken'
      BY <3>1 DEF Taken, At
    <3>3. bundles # <<>> => Head(bundles) \in Complete
      BY <1>0
    <3> QED BY <1>1, <3>1, <3>2, <3>3 DEF TakesFirst
  <2>2. CASE ~GetCurrentEvent
    <3>1. current' = current /\ pc["main"] # "pop_current" /\ pc'["main"] # "pop_current"
      BY <2>2, FrontendLeaves
    <3>2. Taken' = Taken
      BY <3>1 DEF Taken, At
    <3> QED BY <1>1, <3>1, <3>2 DEF OrderInv, TakesFirst
  <2> QED BY <2>1, <2>2
<1>3. ASSUME NEW w \in Worker, Alone(w) PROVE EventsOrdered(w)'
  <2>0. DeviceOrdered(w) /\ CurrentPast(w)
    BY <1>3 DEF OrderInv, EventsOrdered
  <2>1. /\ triggers' = triggers /\ DeviceOrdered(w)'
        /\ \A n \in Nat : WorkerPast(w, n) => WorkerPast(w, n)'
    <3>1. CASE UNCHANGED workerVars
      <4>1. UNCHANGED <<triggers, captured, memory, work, static_bundle, data_queue>>
        BY <3>1 DEF workerVars
      <4> QED BY <2>0, <4>1 DEF DeviceOrdered, InProgress, Handed, WorkerPast, DevicePast
    <3>2. CASE FlushEventData("main", "stale_flush", "stale_flag", "stale")
      BY <1>0, <1>3, <2>0, <3>2, FlushOrdered
    <3>3. CASE \E here, join, after \in Label :
                   \/ StartThreads("main", here, after) \/ StartWorkers("main", here, after)
                   \/ StopWorkers("main", here, after)
                   \/ StopThreads("main", here, join, after)
      BY <1>0, <1>3, <2>0, <3>3, StartStopOrdered
    <3> QED BY <3>1, <3>2, <3>3, FrontendLeaves
  <2> QED BY <1>0, <1>1, <1>2, <2>0, <2>1, CurrentKept DEF EventsOrdered
<1> QED BY <1>2, <1>3 DEF OrderInv

(* The workers' threads and the triggers.                                  *)
LEMMA OthersKeepOrder ==
    ASSUME IInv, OrderInv, WorkersTypeOK', UNCHANGED <<threadVars, bundle, managerVars>>,
           \/ \E v \in Worker : WorkLoop(v)
           \/ \E S \in SUBSET Worker : Trigger(S)
           \/ UNCHANGED workerVars
    PROVE  OrderInv'
<1>0. WorkersTypeOK /\ triggers \in Nat /\ triggers' \in Nat
  BY DEF IInv, TypeOK, WorkersTypeOK
<1>1. Taken' = Taken /\ UNCHANGED <<bundles, current>>
  BY DEF Taken, At, threadVars, managerVars
<1>2. TakesFirst'
  BY <1>1 DEF OrderInv, TakesFirst
<1>3. ASSUME NEW w \in Worker, Alone(w) PROVE EventsOrdered(w)'
  <2>0. DeviceOrdered(w) /\ CurrentPast(w)
    BY <1>3 DEF OrderInv, EventsOrdered
  <2>1. /\ triggers <= triggers' /\ DeviceOrdered(w)'
        /\ \A n \in Nat : WorkerPast(w, n) => WorkerPast(w, n)'
    <3>1. CASE \E v \in Worker : WorkLoop(v)
      <4>1. triggers' = triggers
        BY <3>1 DEF WorkLoop, Dump, Poll, Read, Finish, Push, Exit, deviceVars
      <4> QED BY <1>0, <1>3, <2>0, <3>1, <4>1, WorkLoopOrdered
    <3>2. CASE \E S \in SUBSET Worker : Trigger(S)
      <4>1. triggers' = triggers + 1
        BY <3>2 DEF Trigger
      <4> QED BY <1>0, <1>3, <2>0, <3>2, <4>1, TriggerOrdered
    <3>3. CASE UNCHANGED workerVars
      <4>1. UNCHANGED <<triggers, captured, memory, work, static_bundle, data_queue>>
        BY <3>3 DEF workerVars
      <4> QED BY <1>0, <2>0, <4>1 DEF DeviceOrdered, InProgress, Handed, WorkerPast, DevicePast
    <3> QED BY <3>1, <3>2, <3>3
  <2> QED BY <1>0, <1>1, <2>0, <2>1, CurrentKept DEF EventsOrdered
<1> QED BY <1>2, <1>3 DEF OrderInv

LEMMA OrderStep ==
    ASSUME NoneDumps PROVE IInv /\ OrderInv /\ [Next]_vars => OrderInv'
<1> SUFFICES ASSUME IInv, OrderInv, [Next]_vars PROVE OrderInv'
  OBVIOUS
<1>0. WorkersTypeOK'
  BY TypeStep DEF IInv, TypeOK
<1>1. CASE RunLoop
  BY <1>1, RunOrdered
<1>2. CASE Frontend
  BY <1>2, PopKeepsOrder, FirstKeepsOrder, FrontendKeepsOrder
<1>3. CASE WorkerThreads
  BY <1>0, <1>3, OthersKeepOrder DEF WorkerThreads, WorkerStep
<1>4. CASE FireTrigger
  <2>1. UNCHANGED managerVars /\ \E S \in SUBSET Worker : TriggerStep(S)
    BY <1>4 DEF FireTrigger
  <2> QED BY <1>0, <2>1, OthersKeepOrder DEF TriggerStep
<1>5. CASE UNCHANGED vars
  BY <1>0, <1>5, OthersKeepOrder DEF vars, listVars, threadVars, workerVars, managerVars
<1> QED BY <1>1, <1>2, <1>3, <1>4, <1>5 DEF Next

LEMMA OrderInit == ASSUME NoneDumps PROVE Init => OrderInv
<1> SUFFICES ASSUME Init PROVE OrderInv
  OBVIOUS
<1>1. /\ triggers = 0 /\ bundles = <<>> /\ bundle = <<>> /\ current = Nothing
  BY DEF Init, WorkersInit
<1>2. ASSUME NEW w \in Worker
      PROVE  captured[w] = <<>> /\ data_queue[w] = <<>> /\ work[w] = "none"
  BY DEF Init, WorkersInit, OnEach, NewCaptured, NoneDumps
<1>3. ASSUME NEW w \in Worker PROVE EventsOrdered(w)
  <2>1. DeviceOrdered(w)
    BY <1>2 DEF DeviceOrdered, InProgress
  <2>2. WorkerPast(w, 0)
    BY <1>1, <1>2, RunEmpty DEF WorkerPast, DevicePast, InProgress
  <2>3. BundlePast(w, 0)
    <3>1. ~(Len(bundle) >= w)
      BY <1>1, WorkersAssumption DEF Worker
    <3> QED BY <1>1, <2>2, <3>1 DEF BundlePast
  <2>4. QueuedPast(bundles, w, 0)
    BY <1>1, <2>3, ColumnEmpty, RunEmpty DEF QueuedPast
  <2>5. CurrentPast(w)
    BY <1>1, <2>4 DEF CurrentPast, Taken
  <2> QED BY <2>1, <2>5 DEF EventsOrdered
<1> QED BY <1>1, <1>3 DEF OrderInv, TakesFirst, Taken

(* What is on the way of a worker's events, as one run.                    *)
LEMMA PipelineRuns ==
    ASSUME IInv, NEW w \in Worker, CurrentPast(w), current \in Complete \cup {Nothing}
    PROVE  /\ Pipeline(w) \in Seq(Event)
           /\ Run(Pipeline(w), w, 0, triggers)
<1> DEFINE taken == IF current = Nothing \/ At("main", "pop_current") THEN <<>>
                    ELSE <<current[w]>>
           queued == [i \in DOMAIN bundles |-> bundles[i][w]]
           popped == IF Len(bundle) >= w THEN <<bundle[w]>> ELSE <<>>
           data == data_queue[w]
<1>0. /\ bundles \in Seq(Complete) /\ data \in Seq(Event) /\ triggers \in Nat
      /\ bundle \in Seq(Event)
      /\ \A b \in Complete : b[w] \in Event
  <2>1. \A b \in Complete : b[w] \in Event
    BY DEF Complete, Worker
  <2>2. bundle \in Seq(Event)
    BY DEF IInv, Informed, SeesEvents
  <2> QED BY <2>1, <2>2 DEF IInv, TypeOK, WorkersTypeOK
<1>1. PICK n \in 0..triggers : /\ Taken => In(current[w], w, 0, n)
                               /\ QueuedPast(bundles, w, n)
  BY DEF CurrentPast
<1>2. PICK m \in n..triggers : Run(Column(bundles, w), w, n, m) /\ BundlePast(w, m)
  BY <1>1 DEF QueuedPast
<1>3. PICK k \in m..triggers : (Len(bundle) >= w => In(bundle[w], w, m, k)) /\ WorkerPast(w, k)
  BY <1>2 DEF BundlePast
<1>4. PICK l \in k..triggers : Run(data, w, k, l)
  BY <1>3 DEF WorkerPast
<1>5. /\ n \in Nat /\ m \in Nat /\ k \in Nat /\ l \in Nat
      /\ 0 <= n /\ n <= m /\ m <= k /\ k <= l /\ l <= triggers /\ 0 <= m /\ 0 <= k /\ 0 <= l
      /\ 0 <= 0
  BY <1>0
<1>6. taken \in Seq(Event) /\ Run(taken, w, 0, n)
  <2>1. CASE Taken
    BY <1>0, <1>1, <2>1, RunOne DEF Taken
  <2>2. CASE ~Taken
    BY <2>2, RunEmpty DEF Taken
  <2> QED BY <2>1, <2>2
<1>7. queued \in Seq(Event) /\ Run(queued, w, n, m)
  <2>1. DOMAIN bundles = 1..Len(bundles)
    BY <1>0
  <2>2. queued = Column(bundles, w)
    BY <2>1 DEF Column
  <2> QED BY <1>0, <1>2, <2>2, ColumnType
<1>8. popped \in Seq(Event) /\ Run(popped, w, m, k)
  <2>1. CASE Len(bundle) >= w
    <3>1. bundle[w] \in Event
      BY <1>0, <2>1, WorkersAssumption DEF Worker
    <3> QED BY <1>3, <2>1, <3>1, RunOne
  <2>2. CASE ~(Len(bundle) >= w)
    BY <2>2, RunEmpty
  <2> QED BY <2>1, <2>2
<1>9. Pipeline(w) = taken \o queued \o popped \o data
  BY DEF Pipeline
<1> HIDE DEF taken, queued, popped, data
<1>10. taken \o queued \in Seq(Event) /\ Run(taken \o queued, w, 0, m)
  BY <1>5, <1>6, <1>7, RunJoins
<1>11. taken \o queued \o popped \in Seq(Event) /\ Run(taken \o queued \o popped, w, 0, k)
  <2> DEFINE s == taken \o queued
  <2>1. s \in Seq(Event) /\ Run(s, w, 0, m)
    BY <1>10
  <2> HIDE DEF s
  <2>2. s \o popped \in Seq(Event) /\ Run(s \o popped, w, 0, k)
    BY <1>5, <1>8, <2>1, RunJoins
  <2> QED BY <2>2 DEF s
<1> DEFINE s == taken \o queued \o popped
<1>12. s \in Seq(Event) /\ Run(s, w, 0, k)
  BY <1>11
<1> HIDE DEF s
<1>13. s \o data \in Seq(Event) /\ Run(s \o data, w, 0, l)
  BY <1>0, <1>4, <1>5, <1>12, RunJoins
<1>14. Run(s \o data, w, 0, triggers)
  BY <1>0, <1>5, <1>13, RunWidens
<1> QED BY <1>9, <1>13, <1>14 DEF s

(* Between the digitizer and the frontend, the events of a worker that     *)
(* shares neither its memory nor its static variables with anything stay   *)
(* in the order of their triggers and are not repeated, over any number of *)
(* runs and flushes, if no bundle is incomplete (BasicBundlesComplete).    *)
THEOREM BasicInOrder ==
    ASSUME QuietStart, NoneDumps,
           \A w \in Worker : ~Device(w).shares_memory => Alone(w)
    PROVE  Spec => []InOrder
<1>1. IInv /\ OrderInv => InOrder
  <2> SUFFICES ASSUME IInv, OrderInv, NEW w \in Worker, ~Device(w).shares_memory,
                      NEW i \in DOMAIN Pipeline(w), NEW j \in DOMAIN Pipeline(w), i < j,
                      NEW p \in Pipeline(w)[i], NEW q \in Pipeline(w)[j]
               PROVE  p[2] < q[2]
    BY DEF InOrder
  <2>1. CurrentPast(w) /\ current \in Complete \cup {Nothing}
    BY DEF OrderInv, EventsOrdered, TakesFirst
  <2> DEFINE s == Pipeline(w)
  <2>2. s \in Seq(Event) /\ Run(s, w, 0, triggers) /\ triggers \in Nat
    BY <2>1, PipelineRuns DEF IInv, TypeOK, WorkersTypeOK
  <2>3. i \in DOMAIN s /\ j \in DOMAIN s /\ p \in s[i] /\ q \in s[j]
    OBVIOUS
  <2> HIDE DEF s
  <2>4. i \in 1..Len(s) /\ j \in 1..Len(s)
    BY <2>2, <2>3
  <2>5. PICK m \in 1..triggers : s[i] = Whole(w, m)
    BY <2>2, <2>4 DEF Run, In
  <2>6. PICK n \in 1..triggers : s[j] = Whole(w, n)
    BY <2>2, <2>4 DEF Run, In
  <2>7. m < n
    BY <2>2, <2>4, <2>5, <2>6 DEF Run
  <2>8. p[2] = m /\ q[2] = n
    BY <2>3, <2>5, <2>6 DEF Whole
  <2> QED BY <2>7, <2>8
<1>2. IInv /\ [Next]_vars => IInv'
  BY IInvStep
<1>3. Init => OrderInv
  BY OrderInit
<1>4. IInv /\ OrderInv /\ [Next]_vars => OrderInv'
  BY OrderStep
<1> QED BY <1>1, <1>2, <1>3, <1>4, IInvInit, PTL DEF Spec

-----------------------------------------------------------------------------
(* Triggers further apart than an event takes.                             *)

SyncInv == Together("run") /\ Synchronized

(* RunLoop's steps.                                                        *)
LEMMA RunTogether ==
    ASSUME IInv, Together("run"), RunLoop, Spaced
    PROVE  Together("run")'
<1>0. /\ ListTypeOK(Thread, Label) /\ "run" \in Thread /\ CountsEvents("run")
  BY ListPart DEF IInv, Informed, SeesEvents
<1>1. CASE RunOuter \/ RunGo \/ RunPush \/ RunSetFlag
  <2>1. /\ UNCHANGED workerVars /\ pc["run"] # "flag"
        /\ \E label \in {"flush", "done", "any", "outer", "set_flag"} : Goto("run", label)
    BY <1>1 DEF RunOuter, RunGo, RunPush, RunSetFlag, Test, At
  <2> QED BY <1>0, <2>1, GotoTogether
<1>2. CASE RunWait
  <2>1. /\ UNCHANGED workerVars /\ pc["run"] # "flag" /\ Goto("run", "all")
        /\ \A w \in Worker : Settled(w)
    BY <1>2 DEF RunWait, Test, At
  <2> QED BY <1>0, <2>1, GotoTogether
<1>3. CASE \/ OnList(AnyWorkersHaveEvent("run", "any", "wait", "check"))
           \/ OnList(AllWorkersHaveEvent("run", "all", "multi", "flush"))
           \/ OnList(AnyWorkersHaveMultiEvent("run", "multi", "flush", "get"))
  BY <1>0, <1>3, ChecksTogether DEF OnList
<1>4. CASE OnList(GetEventData("run", "get", "push"))
  BY <1>0, <1>4, GetTogether DEF OnList
<1>5. CASE OnList(FlushEventData("run", "flush", "flag", "check"))
  BY <1>0, <1>5, FlushTogether DEF OnList
<1> QED BY <1>1, <1>2, <1>3, <1>4, <1>5 DEF RunLoop

(* A run begins with new workers: none holds or shows anything.            *)
LEMMA FirstTogether ==
    ASSUME IInv, NoneDumps, At("main", "idle"), Construct, UNCHANGED bundle,
           pc' = [pc EXCEPT !["main"] = "begin", !["run"] = "outer"]
    PROVE  Together("run")'
<1>1. pc'["run"] = "outer"
  BY ListPart DEF IInv, TypeOK, Thread
<1>2. \A w \in Worker : captured'[w] = <<>> /\ ~has_event'[w] /\ work'[w] = "none"
  BY DEF Construct, NewCaptured, OnEach, NoneDumps
<1>3. AllFresh'
  BY <1>2 DEF AllFresh, Fresh, InProgress
<1>4. WorkersWait("run")' /\ FlagsNew("run")' /\ GathersNew("run")'
  BY <1>1, <1>2 DEF WorkersWait, FlagsNew, GathersNew
<1> QED BY <1>3, <1>4 DEF Together

(* The frontend's steps but the first.                                     *)
LEMMA FrontendTogether ==
    ASSUME IInv, IInv', Together("run"), Frontend,
           ~(At("main", "idle") /\ Construct)
    PROVE  Together("run")'
<1> DEFINE m == "main"
<1>0. /\ ListTypeOK(Thread, Label) /\ "run" \in Thread \ {m} /\ m \in Thread
      /\ pc \in [Thread -> Label] /\ idx \in [Thread -> Worker]
      /\ "run" \in Thread
  BY ListPart DEF IInv, TypeOK, Thread
<1>1. CASE \/ StopWorkers(m, "stop_workers", "stop_threads")
           \/ StopThreads(m, "stop_threads", "join_thread", "join")
  <2>1. /\ m \in Thread \ {"run"}
        /\ {"stop_workers", "stop_threads", "join_thread", "join"} \subseteq Label
    BY DEF Thread, Label
  <2> QED BY <1>0, <1>1, <2>1, StartStopTogether
<1>2. CASE StartThreads(m, "threads", "workers") \/ StartWorkers(m, "workers", "stale")
  <2>1. /\ m \in Thread \ {"run"}
        /\ {"threads", "workers", "stale", "join"} \subseteq Label
    BY DEF Thread, Label, Beginning
  <2>2. pc'[m] \in Beginning
    BY <1>0, <1>2 DEF StartThreads, StartWorkers, NextWorker, Goto, Beginning
  <2>3. \A w \in Worker : Settled(w)'
    BY <2>2 DEF IInv, QuietBeginning, Untriggered, Settled
  <2>4. WorkersWait("run")'
    BY <2>3 DEF WorkersWait
  <2> QED BY <1>0, <1>2, <2>1, <2>4, StartStopTogether
<1>3. CASE /\ UNCHANGED <<workerVars, bundle>>
           /\ pc'["run"] = pc["run"] /\ idx'["run"] = idx["run"]
  BY <1>0, <1>3, ElsewhereTogether
<1>4. CASE UNCHANGED <<workerVars, bundle>> /\ ~UNCHANGED <<pc, idx>>
  <2>1. \E here, after \in Label : Moves(m, here, after)
    <3>1. CASE EndOfRun
      BY <1>4, <3>1 DEF EndOfRun, Test, OnList, StopWorkers, StopThreads, Moves, Label
    <3>2. CASE BeginOfRun
      BY <1>4, <3>2 DEF BeginOfRun, OnList, StartThreads, StartWorkers,
             AnyWorkersHaveEvent, FlushEventData, FlushQueue, FlushFlag, Moves, Label, Beginning
    <3>3. CASE HasEvent \/ GetCurrentEvent \/ PopCurrentEvent
      BY <3>3 DEF HasEvent, GetCurrentEvent, PopCurrentEvent, Test, Moves, Label
    <3>4. CASE PauseResume
      BY <1>4, <3>4 DEF PauseResume, listVars
    <3> QED BY <3>1, <3>2, <3>3, <3>4 DEF Frontend
  <2> QED BY <1>0, <1>3, <1>4, <2>1, MovesNoOther
<1>5. UNCHANGED <<workerVars, bundle>> \/ BeginOfRun \/ EndOfRun
  BY DEF Frontend, PauseResume, HasEvent, GetCurrentEvent, PopCurrentEvent, Test,
         listVars, workerVars
<1>6. ~FlushEventData(m, "stale_flush", "stale_flag", "stale")
  BY DEF IInv, QuietBeginning, FlushEventData, FlushQueue, FlushFlag, At
<1> QED BY <1>1, <1>2, <1>3, <1>4, <1>5, <1>6
        DEF BeginOfRun, EndOfRun, OnList, Test, AnyWorkersHaveEvent

(* Nothing else counts triggers.                                           *)
LEMMA OnlyTriggersCount ==
    ASSUME TypeOK, [Next]_vars
    PROVE  triggers' \in Nat /\ triggers <= triggers'
<1>0. triggers \in Nat
  BY DEF TypeOK, WorkersTypeOK
<1>1. CASE RunLoop
  <2>1. UNCHANGED triggers
    BY <1>1 DEF RunLoop, RunOuter, RunGo, RunWait, RunPush, RunSetFlag, Test, OnList,
           AnyWorkersHaveEvent, AllWorkersHaveEvent, AnyWorkersHaveMultiEvent,
           GetEventData, FlushEventData, FlushQueue, FlushFlag, PopEvent, ClearQueue,
           ClearFlag, workerVars, deviceVars
  <2> QED BY <1>0, <2>1
<1>2. CASE Frontend
  <2>1. UNCHANGED triggers
    BY <1>2 DEF Frontend, BeginOfRun, EndOfRun, PauseResume, HasEvent, GetCurrentEvent,
           PopCurrentEvent, Test, OnList, Construct, StartThreads, StartWorkers,
           StopWorkers, StopThreads, AnyWorkersHaveEvent, FlushEventData, FlushQueue,
           FlushFlag, StartThread, SetGoTime, AskToStop, ClearQueue, ClearFlag,
           workerVars, deviceVars, listVars
  <2> QED BY <1>0, <2>1
<1>3. CASE WorkerThreads
  <2>1. UNCHANGED triggers
    BY <1>3 DEF WorkerThreads, WorkerStep, WorkLoop, Dump, Poll, Read, Finish, Push, Exit,
           deviceVars
  <2> QED BY <1>0, <2>1
<1>4. CASE FireTrigger
  <2>1. triggers' = triggers + 1
    BY <1>4 DEF FireTrigger, TriggerStep, Trigger
  <2> QED BY <1>0, <2>1
<1>5. CASE UNCHANGED vars
  BY <1>0, <1>5 DEF vars, listVars
<1> QED BY <1>1, <1>2, <1>3, <1>4, <1>5 DEF Next

(* What RunLoop queues is of one trigger.                                  *)
LEMMA BundlesOfOne ==
    ASSUME IInv, SyncInv, NoneDumps, [Next]_vars
    PROVE  Synchronized'
<1>0. /\ bundles \in Seq(Bundle) /\ AllOfOne(bundles) /\ WorkersTypeOK
      /\ triggers \in Nat /\ bundle \in Bundle
  BY DEF IInv, TypeOK, WorkersTypeOK, SyncInv, Synchronized, AllOfOne, OfOneTrigger
<1>1. \/ UNCHANGED bundles
      \/ At("run", "push") /\ bundles' = Append(bundles, bundle)
      \/ bundles # <<>> /\ bundles' = Tail(bundles)
  <2>1. CASE RunLoop
    BY <2>1 DEF RunLoop, RunOuter, RunGo, RunWait, RunPush, RunSetFlag, Test, OnList,
           managerVars
  <2>2. CASE Frontend
    BY <2>2 DEF Frontend, BeginOfRun, EndOfRun, PauseResume, HasEvent, GetCurrentEvent,
           PopCurrentEvent, Test, OnList, managerVars
  <2>3. CASE WorkerThreads \/ FireTrigger \/ UNCHANGED vars
    BY <2>3 DEF WorkerThreads, FireTrigger, vars, managerVars
  <2> QED BY <2>1, <2>2, <2>3 DEF Next
<1>2. AllOfOne(bundles')
  <2>1. CASE UNCHANGED bundles
    BY <1>0, <2>1
  <2>2. CASE At("run", "push") /\ bundles' = Append(bundles, bundle)
    <3>1. 1 \in Worker
      BY WorkersAssumption DEF Worker
    <3>2. OfOneTrigger(bundle)
      BY <1>0, <2>2, <3>1, PushedOfOne DEF SyncInv, NoneDumps
    <3>3. AllOfOne(Append(bundles, bundle))
      BY <1>0, <3>2, OfOneSequences
    <3> QED BY <2>2, <3>3
  <2>3. CASE bundles # <<>> /\ bundles' = Tail(bundles)
    <3>1. AllOfOne(Tail(bundles))
      BY <1>0, <2>3, OfOneSequences
    <3> QED BY <2>3, <3>1
  <2> QED BY <1>1, <2>1, <2>2, <2>3
<1>3. \A i \in DOMAIN bundles' : OfOneTrigger(bundles'[i])
  BY <1>2 DEF AllOfOne
<1>4. triggers' \in Nat /\ triggers <= triggers'
  BY OnlyTriggersCount DEF IInv
<1> QED BY <1>0, <1>3, <1>4, OfOneLater DEF Synchronized, Whole

(* Nothing is read, shown or queued before the first run.                  *)
LEMMA SyncInit == Init => SyncInv
<1> SUFFICES ASSUME Init PROVE SyncInv
  OBVIOUS
<1>1. pc["run"] = "done"
  BY DEF Init, Thread
<1>2. /\ \A w \in Worker : work[w] = "none" /\ ~has_event[w] /\ captured[w] \in {<<>>, <<0>>}
      /\ \A w \in Worker : captured[w] # <<>> => Device(w).dumps_first
      /\ triggers = 0
  BY DEF Init, WorkersInit, OnEach, NewCaptured
<1>3. AllFresh
  BY <1>2 DEF AllFresh, Fresh, InProgress, Begun
<1>4. WorkersWait("run") /\ FlagsNew("run") /\ GathersNew("run")
  BY <1>1, <1>2 DEF WorkersWait, FlagsNew, GathersNew
<1>5. Synchronized
  BY DEF Init, Synchronized
<1> QED BY <1>3, <1>4, <1>5 DEF Together, SyncInv

(* Each step keeps it.                                                     *)
LEMMA SyncStep ==
    ASSUME QuietStart, NoneDumps, Spaced, Apart
    PROVE  IInv /\ IInv' /\ SyncInv /\ [Next]_vars => SyncInv'
<1> SUFFICES ASSUME IInv, IInv', SyncInv, [Next]_vars PROVE SyncInv'
  OBVIOUS
<1>0. /\ ListTypeOK(Thread, Label) /\ "run" \in Thread /\ Together("run")
      /\ triggers \in Nat /\ triggers' \in Nat
  BY ListPart DEF IInv, SyncInv, TypeOK, WorkersTypeOK
<1>1. Together("run")'
  <2>1. CASE RunLoop
    BY <1>0, <2>1, RunTogether
  <2>2. CASE Frontend
    <3>1. CASE At("main", "idle") /\ Construct
      <4>1. /\ UNCHANGED bundle
            /\ pc' = [pc EXCEPT !["main"] = "begin", !["run"] = "outer"]
        BY <2>2, <3>1 DEF Frontend, BeginOfRun, EndOfRun, PauseResume, HasEvent,
               GetCurrentEvent, PopCurrentEvent, Test, At, OnList, StartThreads, StartWorkers,
               AnyWorkersHaveEvent, FlushEventData, FlushQueue, FlushFlag, StopWorkers,
               StopThreads
      <4> QED BY <3>1, <4>1, FirstTogether
    <3>2. CASE ~(At("main", "idle") /\ Construct)
      BY <1>0, <2>2, <3>2, FrontendTogether
    <3> QED BY <3>1, <3>2
  <2>3. CASE WorkerThreads
    BY <1>0, <2>3, WorkerKeepsTogether DEF WorkerThreads
  <2>4. CASE FireTrigger
    <3>1. Quiet /\ TriggerStep(Worker)
      BY <2>4 DEF FireTrigger
    <3>2. /\ \A w \in Worker : Settled(w) /\ captured[w] = <<>> /\ ~has_event[w]
          /\ pc["run"] \notin {"all", "multi", "get", "push"}
      BY <3>1 DEF Quiet, Settled
    <3> QED BY <1>0, <3>1, <3>2, TriggerKeepsTogether
  <2>5. CASE UNCHANGED vars
    BY <1>0, <2>5, ElsewhereTogether DEF vars, listVars, workerVars
  <2> QED BY <2>1, <2>2, <2>3, <2>4, <2>5 DEF Next
<1> QED BY <1>1, BundlesOfOne DEF SyncInv

(* Triggers further apart than an event takes, and from workers that share *)
(* no static variables and show no event before the first, are built into  *)
(* bundles in step: whatever a flush drops, whenever runs are paused, ended *)
(* and begun, every bundle queued has the whole event of one trigger from  *)
(* each worker.                                                            *)
THEOREM BasicSynchronized ==
    ASSUME QuietStart, NoneDumps, Spaced, Apart
    PROVE  Spec => []Synchronized
<1>1. IInv /\ [Next]_vars => IInv'
  BY IInvStep
<1>2. IInv /\ IInv' /\ SyncInv /\ [Next]_vars => SyncInv'
  BY SyncStep
<1>3. SyncInv => Synchronized
  BY DEF SyncInv
<1> QED BY <1>1, <1>2, <1>3, IInvInit, SyncInit, PTL DEF Spec
=============================================================================
