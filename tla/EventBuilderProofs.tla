-------------------------- MODULE EventBuilderProofs --------------------------
(***************************************************************************)
(* Types, the bound of the pull queue and the completeness of what is sent *)
(* hold of EventBuilder for any number and kinds of workers and any sizes. *)
(* Types and the bound are inductive.  For CompleteBundles, IInv says what *)
(* the builder has seen of the queues at each point of its loops.  If no   *)
(* worker's events can be mixed with another's, the builder implements     *)
(* BundleStream: OrderInv bounds what is at each place of their way.  If   *)
(* triggers are further apart than an event takes, every bundle sent is of *)
(* one trigger (SyncInv).                                                  *)
(***************************************************************************)
EXTENDS EventBuilder, WorkerOrderProofs

(* The types of the list are among the builder's.                          *)
LEMMA ListPart ==
    TypeOK => ListTypeOK(Thread, Label) /\ {"builder", "control", "master"} \subseteq Thread
BY DEF TypeOK, ListTypeOK, Bundle, Thread

(* A jump to a label keeps the types of the threads' places.               *)
LEMMA GotoType ==
    ASSUME TypeOK, NEW t \in Thread, NEW label \in Label, Goto(t, label)
    PROVE  pc' \in [Thread -> Label] /\ idx' \in [Thread -> Worker]
<1>1. Moves(t, label, label)
  BY DEF Moves
<1> QED BY <1>1, MovesType DEF TypeOK

(* The constructed builder has its types.                                  *)
LEMMA TypeInit == Init => TypeOK
<1> SUFFICES ASSUME Init PROVE TypeOK
  OBVIOUS
<1>1. captured \in [Worker -> Seq(Nat)]
  BY DEF Init, WorkersInit, NewCaptured
<1>2. static_bundle \in [Kinds -> [1..2 -> Event]]
  <2>1. <<{}, {}>> \in [1..2 -> Event]
    BY DEF Event
  <2> QED BY <2>1 DEF Init, WorkersInit
<1>3. WorkersTypeOK
  BY <1>1, <1>2 DEF Init, WorkersInit, WorkersTypeOK, OnEach, NewAcquiring
<1>4. pc \in [Thread -> Label] /\ idx \in [Thread -> Worker]
  BY WorkersAssumption DEF Init, Thread, Label, Worker
<1>5. bundle \in Bundle /\ <<>> \in Seq(Bundle)
  BY DEF Init, Bundle
<1> QED BY <1>3, <1>4, <1>5 DEF Init, TypeOK

-----------------------------------------------------------------------------
(* Types are preserved by each thread's steps.                             *)
(* A test of a flag changes nothing but where the thread is.               *)
LEMMA TestType ==
    ASSUME TypeOK, NEW t \in Thread, NEW label \in Label, Goto(t, label),
           UNCHANGED <<workerVars, bundle, builderVars>>
    PROVE  TypeOK'
<1>1. pc' \in [Thread -> Label] /\ idx' \in [Thread -> Worker]
  BY GotoType
<1> QED BY <1>1 DEF TypeOK, WorkersTypeOK, workerVars, builderVars

(* A step on the list.                                                     *)
LEMMA OnListType ==
    ASSUME TypeOK, ListTypeOK(Thread, Label)', UNCHANGED builderVars
    PROVE  TypeOK'
BY DEF TypeOK, ListTypeOK, builderVars, Bundle

(* CopyBatch moves bundles, each of which stays a bundle.                  *)
LEMMA CopyBatchType ==
    ASSUME TypeOK, NEW here \in Label, NEW after \in Label, CopyBatch(here, after)
    PROVE  TypeOK'
<1> DEFINE batch == IF copied = 0 THEN <<>> ELSE push_data_vec
<1>1. "control" \in Thread /\ batch \in Seq(Bundle)
  BY DEF TypeOK, Thread, Bundle
<1>2. pc' \in [Thread -> Label] /\ idx' \in [Thread -> Worker]
  BY <1>1, GotoType DEF CopyBatch, TypeOK, threadVars
<1>3. copied' \in Nat
  BY DEF CopyBatch, TypeOK
<1>4. pull_data_que' \in Seq(Bundle) /\ push_data_vec' \in Seq(Bundle)
  <2>1. CASE pull_data_que = <<>>
    BY <1>1, <2>1 DEF CopyBatch, TypeOK
  <2>2. CASE pull_data_que # <<>>
    <3> HIDE DEF batch
    <3>1. Head(pull_data_que) \in Bundle /\ Tail(pull_data_que) \in Seq(Bundle)
      BY <2>2 DEF TypeOK
    <3>2. Append(batch, Head(pull_data_que)) \in Seq(Bundle)
      BY <1>1, <3>1
    <3> QED BY <2>2, <3>1, <3>2 DEF CopyBatch, batch
  <2> QED BY <2>1, <2>2
<1> QED BY <1>2, <1>3, <1>4
        DEF CopyBatch, TypeOK, WorkersTypeOK, workerVars, flagVars

(* Each step of BuilderLoop keeps the types.                               *)
LEMMA BuilderLoopType == TypeOK /\ BuilderLoop => TypeOK'
<1> SUFFICES ASSUME TypeOK, BuilderLoop PROVE TypeOK'
  OBVIOUS
<1> DEFINE b == "builder"
<1>0. /\ b \in Thread /\ ListTypeOK(Thread, Label)
      /\ {"outer", "check", "any", "wait", "all", "multi", "get", "push",
          "flush", "flag", "done"} \subseteq Label
  BY ListPart DEF Label
<1>1. CASE BuilderOuter \/ BuilderGo \/ BuilderWait
  <2>1. UNCHANGED <<workerVars, bundle, builderVars>> /\ \E label \in Label : Goto(b, label)
    BY <1>0, <1>1 DEF BuilderOuter, BuilderGo, BuilderWait, Test
  <2> QED BY <1>0, <2>1, TestType
<1>2. CASE \/ OnList(AnyWorkersHaveEvent(b, "any", "wait", "check"))
           \/ OnList(AllWorkersHaveEvent(b, "all", "multi", "flush"))
           \/ OnList(AnyWorkersHaveMultiEvent(b, "multi", "flush", "get"))
  <2>1. ListTypeOK(Thread, Label)'
    BY <1>0, <1>2, ChecksType DEF OnList
  <2> QED BY <1>2, <2>1, OnListType DEF OnList
<1>3. CASE OnList(GetEventData(b, "get", "push"))
  <2>1. ListTypeOK(Thread, Label)'
    BY <1>0, <1>3, GetEventDataType DEF OnList
  <2> QED BY <1>3, <2>1, OnListType DEF OnList
<1>4. CASE BuilderPush
  <2>1. pc' \in [Thread -> Label] /\ idx' \in [Thread -> Worker]
    <3>1. Goto(b, "flush") BY <1>4 DEF BuilderPush
    <3> QED BY <1>0, <3>1, GotoType
  <2>2. <<>> \in Bundle /\ Append(pull_data_que, bundle) \in Seq(Bundle)
    BY DEF TypeOK, Bundle
  <2>3. \/ /\ pull_data_que' = Append(pull_data_que, bundle)
           /\ packed' = packed + 1
        \/ UNCHANGED <<pull_data_que, packed>>
    BY <1>4 DEF BuilderPush
  <2>4. pull_data_que' \in Seq(Bundle) /\ packed' \in Nat
    <3>1. pull_data_que \in Seq(Bundle) /\ packed \in Nat
      BY DEF TypeOK
    <3> QED BY <2>2, <2>3, <3>1
  <2> QED BY <1>4, <2>1, <2>2, <2>4
          DEF BuilderPush, TypeOK, WorkersTypeOK, workerVars, flagVars, batchVars
<1>5. CASE BuilderFlush
  <2>1. ListTypeOK(Thread, Label)'
    BY <1>0, <1>5, FlushEventDataKeepsType DEF BuilderFlush, OnList
  <2> QED BY <1>5, <2>1, OnListType DEF BuilderFlush, OnList
<1> QED BY <1>1, <1>2, <1>3, <1>4, <1>5 DEF BuilderLoop, WorkersGotSyncEvent

(* Each step of ControlLoop keeps the types.                               *)
LEMMA ControlLoopType == TypeOK /\ ControlLoop => TypeOK'
<1> SUFFICES ASSUME TypeOK, ControlLoop PROVE TypeOK'
  OBVIOUS
<1> DEFINE c == "control"
<1>0. /\ c \in Thread /\ ListTypeOK(Thread, Label)
      /\ {"outer", "check", "batch", "copy", "send", "quit", "stop_workers",
          "last_copy", "last_flush", "last_flag", "zero", "last_send",
          "stop_go", "stop_live", "finish", "done"} \subseteq Label
  BY ListPart DEF Label
<1>1. CASE ControlOuter
  BY <1>0, <1>1, TestType DEF ControlOuter, Test
<1>2. CASE ControlGo
  BY <1>0, <1>2, TestType DEF ControlGo, Test
<1>3. CASE ControlBatch
  BY <1>0, <1>3, TestType DEF ControlBatch, Test
<1>4. CASE CopyBatch("copy", "send")
  BY <1>0, <1>4, CopyBatchType
<1>5. CASE SendBatch
  <2>1. pc' \in [Thread -> Label] /\ idx' \in [Thread -> Worker]
    BY <1>0, <1>5, GotoType DEF SendBatch
  <2>2. sent' \in Seq(Bundle)
    BY <1>5 DEF SendBatch, TypeOK
  <2> QED BY <1>5, <2>1, <2>2
          DEF SendBatch, TypeOK, WorkersTypeOK, workerVars, flagVars
<1>6. CASE ControlQuit
  BY <1>0, <1>6, TestType DEF ControlQuit, Test
<1>7. CASE OnList(StopWorkers(c, "stop_workers", "last_copy"))
  <2>1. ListTypeOK(Thread, Label)'
    BY <1>0, <1>7, StartStopType DEF OnList
  <2> QED BY <1>7, <2>1, OnListType DEF OnList
<1>8. CASE CopyBatch("last_copy", "last_flush")
  BY <1>0, <1>8, CopyBatchType
<1>9. CASE OnList(FlushEventData(c, "last_flush", "last_flag", "zero"))
  <2>1. ListTypeOK(Thread, Label)'
    BY <1>0, <1>9, FlushEventDataKeepsType DEF OnList
  <2> QED BY <1>9, <2>1, OnListType DEF OnList
<1>10. CASE SendLastBatch
  <2>1. pc' \in [Thread -> Label] /\ idx' \in [Thread -> Worker]
    BY <1>0, <1>10, GotoType DEF SendLastBatch
  <2>2. /\ sent' \in {sent, sent \o push_data_vec}
        /\ pull_data_que' \in {pull_data_que, <<>>} /\ ended' \in {ended, TRUE}
    BY <1>10 DEF SendLastBatch, batchVars
  <2>3. sent \o push_data_vec \in Seq(Bundle) /\ <<>> \in Seq(Bundle)
    BY DEF TypeOK
  <2>4. /\ sent' \in Seq(Bundle) /\ pull_data_que' \in Seq(Bundle)
        /\ ended' \in BOOLEAN
    BY <2>2, <2>3 DEF TypeOK
  <2> QED BY <1>10, <2>1, <2>4
          DEF SendLastBatch, TypeOK, WorkersTypeOK, workerVars, flagVars, batchVars
<1>11. CASE EndRun
  <2>1. pc' \in [Thread -> Label] /\ idx' \in [Thread -> Worker]
    BY <1>0, <1>11, GotoType DEF EndRun
  <2> QED BY <1>11, <2>1
          DEF EndRun, TypeOK, WorkersTypeOK, workerVars, pipeVars
<1> QED BY <1>1, <1>2, <1>3, <1>4, <1>5, <1>6, <1>7, <1>8, <1>9, <1>10, <1>11
        DEF ControlLoop

(* The master keeps the types, and leaves the queues alone.                *)
LEMMA MasterType ==
    ASSUME TypeOK, Master
    PROVE  TypeOK' /\ UNCHANGED <<data_queue, has_event, bundle>>
<1> DEFINE m == "master"
<1>0. /\ m \in Thread /\ ListTypeOK(Thread, Label)
      /\ {"threads", "workers", "start", "stop", "finished", "join", "stop_workers",
          "stop_threads", "join_thread", "done"} \subseteq Label
  BY ListPart DEF Label
<1>1. CASE /\ \/ StartThreads(m, "threads", "workers")
              \/ StartWorkers(m, "workers", "start")
              \/ StopWorkers(m, "stop_workers", "stop_threads")
              \/ StopThreads(m, "stop_threads", "join_thread", "done")
           /\ UNCHANGED builderVars
  <2>1. ListTypeOK(Thread, Label)' /\ UNCHANGED <<data_queue, has_event, bundle>>
    BY <1>0, <1>1, StartStopType
  <2> QED BY <1>1, <2>1, OnListType
<1>2. CASE StartBuilder \/ StopBuilder \/ Delete
  <2>1. pc' \in [Thread -> Label] /\ idx' \in [Thread -> Worker]
    BY <1>0, <1>2, GotoType DEF StartBuilder, StopBuilder, Delete, SetFlags
  <2> QED BY <1>2, <2>1 DEF StartBuilder, StopBuilder, Delete, SetFlags, TypeOK,
              WorkersTypeOK, workerVars, pipeVars
<1> QED BY <1>1, <1>2 DEF Master, OnList

(* Every step keeps the types.                                             *)
LEMMA TypeStep == TypeOK /\ [Next]_vars => TypeOK'
<1> SUFFICES ASSUME TypeOK, [Next]_vars PROVE TypeOK'
  OBVIOUS
<1>1. CASE BuilderLoop
  BY <1>1, BuilderLoopType
<1>2. CASE ControlLoop
  BY <1>2, ControlLoopType
<1>3. CASE Master
  BY <1>3, MasterType
<1>4. CASE WorkerThreads
  <2>1. PICK w \in Worker : WorkerStep(w) /\ UNCHANGED builderVars
    BY <1>4 DEF WorkerThreads
  <2>2. WorkersTypeOK'
    BY <2>1, WorkLoopStep DEF WorkerStep, TypeOK
  <2> QED BY <2>1, <2>2 DEF WorkerStep, TypeOK, threadVars, builderVars
<1>5. CASE FireTrigger
  <2>1. PICK S \in SUBSET Worker : TriggerStep(S)
    BY <1>5 DEF FireTrigger
  <2>2. WorkersTypeOK'
    BY <2>1, TriggerStepType DEF TriggerStep, TypeOK
  <2> QED BY <1>5, <2>1, <2>2 DEF FireTrigger, TriggerStep, TypeOK, threadVars, builderVars
<1>6. CASE UNCHANGED vars
  BY <1>6 DEF vars, listVars, builderVars, TypeOK, WorkersTypeOK
<1> QED BY <1>1, <1>2, <1>3, <1>4, <1>5, <1>6 DEF Next

(* Every variable of the program keeps its type, however many workers of   *)
(* whatever kinds there are and however large the queues and batches.      *)
THEOREM TypeCorrect == Spec => []TypeOK
BY TypeInit, TypeStep, PTL DEF Spec
-----------------------------------------------------------------------------
(* The inductive invariant.  The run is being ended from the moment the    *)
(* control thread, having copied the last batch, starts to flush the       *)
(* workers under the builder; from then on a bundle may be incomplete, but *)
(* none is copied any more.                                                *)

Flushing == At("control", "last_flush") \/ At("control", "last_flag")

Ending == Flushing \/ At("control", "zero") \/ At("control", "last_send") \/ ended

(* The master stops the builder once, after it started it; the control     *)
(* thread ends the run once, after it was stopped, and with go_time_ down  *)
(* it never comes to copy a batch again.                                   *)
EndsOnce ==
    /\ quitting_time => pc["master"] \notin {"threads", "workers", "start", "stop"}
    /\ \/ Ending \/ At("control", "stop_workers") \/ At("control", "last_copy")
       => quitting_time
    /\ At("control", "stop_go") => ended
    /\ ended => pc["control"] \in {"stop_go", "stop_live", "finish", "check",
                                   "outer", "done"}
    /\ ended /\ ~At("control", "stop_go") => ~go_time

(* Until then the builder's loop keeps track of the events it has seen.    *)
BuilderInformed == ~Ending => Informed("builder")

(* Whatever is queued before the end, and whatever is sent, is complete.   *)
BundlesComplete ==
    /\ ~Ending => pull_data_que \in Seq(Complete)
    /\ push_data_vec \in Seq(Complete)
    /\ sent \in Seq(Complete)

IInv == TypeOK /\ EndsOnce /\ BuilderInformed /\ BundlesComplete

-----------------------------------------------------------------------------
(* What a step that is not the builder's leaves of the builder's work.     *)
BuilderWaits ==
    /\ pc'["builder"] = pc["builder"] /\ idx'["builder"] = idx["builder"]
    /\ bundle' = bundle

(* Such a step keeps what the builder knows, if it keeps the events.       *)
LEMMA OthersKeepBuilderInformed ==
    ASSUME TypeOK, BuilderInformed, Ending => Ending', KeepsEvents, BuilderWaits
    PROVE  BuilderInformed'
<1>1. CASE Ending
  BY <1>1 DEF BuilderInformed
<1>2. CASE ~Ending
  <2>1. Informed("builder")'
    BY <1>2, ListPart, OthersKeepInformed DEF BuilderInformed, BuilderWaits
  <2> QED BY <2>1 DEF BuilderInformed
<1> QED BY <1>1, <1>2

(* A step of the builder leaves the end of the run alone.                  *)
LEMMA BuilderKeepsEnd ==
    ASSUME EndsOnce, UNCHANGED <<flagVars, ended>>,
           pc'["control"] = pc["control"], pc'["master"] = pc["master"]
    PROVE  EndsOnce' /\ Ending' = Ending
<1>1. Ending' = Ending
  BY DEF Ending, Flushing, At
<1>2. EndsOnce'
  BY <1>1 DEF EndsOnce, At, flagVars
<1> QED BY <1>1, <1>2

-----------------------------------------------------------------------------
(* The builder's steps.                                                    *)

(* A bundle pushed before the end is complete.                             *)
LEMMA BuilderPushes ==
    ASSUME IInv, ~Ending, BuilderPush
    PROVE  Informed("builder")' /\ pull_data_que' \in Seq(Complete)
<1>1. /\ UNCHANGED queueVars /\ At("builder", "push") /\ bundle' = <<>>
      /\ Goto("builder", "flush")
  BY DEF BuilderPush, workerVars, queueVars
<1>2. Informed("builder")' /\ bundle \in Complete
  BY <1>1, ListPart, PushInformed DEF IInv, BuilderInformed, Complete
<1>3. pull_data_que \in Seq(Complete)
  BY DEF IInv, BundlesComplete
<1>4. Append(pull_data_que, bundle) \in Seq(Complete)
  BY <1>2, <1>3
<1>5. pull_data_que' \in {pull_data_que, Append(pull_data_que, bundle)}
  BY DEF BuilderPush
<1> QED BY <1>2, <1>3, <1>4, <1>5

(* The builder's thread moves, and only its push touches the pull queue.   *)
LEMMA BuilderLeavesRest ==
    ASSUME IInv, BuilderLoop
    PROVE  /\ UNCHANGED <<flagVars, batchVars>>
           /\ ~BuilderPush => UNCHANGED pull_data_que
           /\ pc'["control"] = pc["control"] /\ pc'["master"] = pc["master"]
<1> DEFINE b == "builder"
<1>t. /\ b \in Thread /\ pc \in [Thread -> Label] /\ idx \in [Thread -> Worker]
  BY ListPart DEF IInv, TypeOK
<1>0. {"control", "master"} \subseteq Thread \ {b}
  BY DEF Thread
<1>1. CASE BuilderPush
  BY <1>t, <1>0, <1>1, MovesNoOther DEF BuilderPush, Moves
<1>2. CASE ~BuilderPush
  <2>1. UNCHANGED builderVars
    BY <1>2 DEF BuilderLoop, WorkersGotSyncEvent, BuilderOuter, BuilderGo, BuilderWait,
                BuilderFlush, Test, OnList
  <2>2. \E here, after \in Label : Moves(b, here, after)
    <3> USE DEF Label, Moves
    <3>1. CASE BuilderOuter \/ BuilderGo \/ BuilderWait
      BY <3>1 DEF BuilderOuter, BuilderGo, BuilderWait, Test
    <3>2. CASE OnList(AnyWorkersHaveEvent(b, "any", "wait", "check"))
      BY <3>2 DEF OnList, AnyWorkersHaveEvent
    <3>3. CASE OnList(AllWorkersHaveEvent(b, "all", "multi", "flush"))
      BY <3>3 DEF OnList, AllWorkersHaveEvent
    <3>4. CASE OnList(AnyWorkersHaveMultiEvent(b, "multi", "flush", "get"))
      BY <3>4 DEF OnList, AnyWorkersHaveMultiEvent
    <3>5. CASE OnList(GetEventData(b, "get", "push"))
      BY <3>5 DEF OnList, GetEventData
    <3>6. CASE BuilderFlush
      BY <3>6 DEF BuilderFlush, OnList, FlushEventData, FlushQueue, FlushFlag
    <3> QED BY <1>2, <3>1, <3>2, <3>3, <3>4, <3>5, <3>6
            DEF BuilderLoop, WorkersGotSyncEvent
  <2>3. pc'["control"] = pc["control"] /\ pc'["master"] = pc["master"]
    BY <1>t, <1>0, <2>2, MovesNoOther
  <2> QED BY <1>2, <2>1, <2>3 DEF builderVars, flagVars, batchVars
<1> QED BY <1>1, <1>2

(* The builder keeps the invariant, before the run is ending and after.    *)
LEMMA BuilderStep ==
    ASSUME IInv, BuilderLoop
    PROVE  EndsOnce' /\ BuilderInformed' /\ BundlesComplete'
<1> DEFINE b == "builder"
<1>0. /\ b \in Thread /\ TypeOK /\ ListTypeOK(Thread, Label)
      /\ pc \in [Thread -> Label] /\ idx \in [Thread -> Worker]
  BY ListPart DEF IInv, TypeOK
<1>1. /\ UNCHANGED <<flagVars, batchVars>>
      /\ ~BuilderPush => UNCHANGED pull_data_que
      /\ pc'["control"] = pc["control"] /\ pc'["master"] = pc["master"]
  BY BuilderLeavesRest
<1>2. EndsOnce' /\ Ending' = Ending
  BY <1>1, BuilderKeepsEnd DEF IInv, batchVars
<1>3. CASE Ending
  <2>1. BuilderInformed'
    BY <1>2, <1>3 DEF BuilderInformed
  <2>2. BundlesComplete'
    BY <1>1, <1>2, <1>3 DEF IInv, BundlesComplete, batchVars
  <2> QED BY <1>2, <2>1, <2>2
<1>4. CASE ~Ending
  <2>0. Informed(b)
    BY <1>4 DEF IInv, BuilderInformed
  <2>1. Informed(b)'
    <3>1. CASE BuilderOuter \/ BuilderGo \/ BuilderWait
      <4>1. /\ pc[b] \in {"outer", "check", "wait"} /\ UNCHANGED <<queueVars, bundle>>
            /\ \E label \in {"flush", "done", "any", "outer", "all"} : Goto(b, label)
        BY <3>1 DEF BuilderOuter, BuilderGo, BuilderWait, Test, At, workerVars, queueVars
      <4> QED BY <1>0, <2>0, <4>1, GotoInformed
    <3>2. CASE \/ OnList(AnyWorkersHaveEvent(b, "any", "wait", "check"))
               \/ OnList(AllWorkersHaveEvent(b, "all", "multi", "flush"))
               \/ OnList(AnyWorkersHaveMultiEvent(b, "multi", "flush", "get"))
      BY <1>0, <2>0, <3>2, ChecksInformed DEF OnList
    <3>3. CASE OnList(GetEventData(b, "get", "push"))
      BY <1>0, <2>0, <3>3, GetEventDataInformed DEF OnList
    <3>4. CASE BuilderPush
      BY <1>4, <3>4, BuilderPushes
    <3>5. CASE BuilderFlush
      BY <1>0, <2>0, <3>5, FlushInformed DEF BuilderFlush, OnList
    <3> QED BY <3>1, <3>2, <3>3, <3>4, <3>5 DEF BuilderLoop, WorkersGotSyncEvent
  <2>2. pull_data_que' \in Seq(Complete)
    <3>1. CASE BuilderPush
      BY <1>4, <3>1, BuilderPushes
    <3>2. CASE ~BuilderPush
      BY <1>1, <1>4, <3>2 DEF IInv, BundlesComplete
    <3> QED BY <3>1, <3>2
  <2>3. BundlesComplete'
    BY <1>1, <2>2 DEF IInv, BundlesComplete, batchVars
  <2> QED BY <1>2, <2>1, <2>3 DEF BuilderInformed
<1> QED BY <1>3, <1>4

-----------------------------------------------------------------------------
(* The control thread's steps.                                             *)

(* CopyBatch moves bundles from the queue to the batch.                    *)
LEMMA CopyBatchComplete ==
    ASSUME IInv, ~Ending, NEW here, NEW after, CopyBatch(here, after)
    PROVE  pull_data_que' \in Seq(Complete) /\ push_data_vec' \in Seq(Complete)
<1> DEFINE batch == IF copied = 0 THEN <<>> ELSE push_data_vec
<1>1. batch \in Seq(Complete) /\ pull_data_que \in Seq(Complete)
  BY DEF IInv, BundlesComplete
<1>2. \/ pull_data_que = <<>> /\ push_data_vec' = batch /\ UNCHANGED pull_data_que
      \/ /\ pull_data_que # <<>>
         /\ push_data_vec' = Append(batch, Head(pull_data_que))
         /\ pull_data_que' = Tail(pull_data_que)
  BY DEF CopyBatch
<1> HIDE DEF batch
<1>3. CASE pull_data_que = <<>>
  BY <1>1, <1>2, <1>3
<1>4. CASE pull_data_que # <<>>
  <2>1. Head(pull_data_que) \in Complete /\ Tail(pull_data_que) \in Seq(Complete)
    BY <1>1, <1>4
  <2>2. Append(batch, Head(pull_data_que)) \in Seq(Complete)
    BY <1>1, <2>1
  <2> QED BY <1>2, <1>4, <2>1, <2>2
<1> QED BY <1>3, <1>4

(* The end of the run is reached once, with what is sent complete.         *)
LEMMA ControlEnds ==
    ASSUME IInv, ControlLoop
    PROVE  EndsOnce' /\ (Ending => Ending') /\ BundlesComplete'
<1> DEFINE c == "control"
<1>0. c \in Thread /\ c # "master" /\ pc \in [Thread -> Label] /\ "master" \in Thread
  BY DEF IInv, TypeOK, Thread
<1>1. CASE ControlOuter \/ ControlGo \/ ControlBatch \/ ControlQuit
  <2>1. /\ \/ pc[c] = "outer" /\ pc'[c] \in {"check", "done"}
           \/ pc[c] = "check" /\ pc'[c] \in {"batch", "outer"}
                              /\ (pc'[c] = "batch" => go_time)
           \/ pc[c] = "batch" /\ pc'[c] \in {"copy", "quit"}
           \/ pc[c] = "quit" /\ pc'[c] \in {"stop_workers", "check"}
                             /\ (pc'[c] = "stop_workers" => quitting_time)
        /\ UNCHANGED builderVars /\ pc'["master"] = pc["master"]
    BY <1>0, <1>1 DEF ControlOuter, ControlGo, ControlBatch, ControlQuit, Test, Goto, At
  <2>2. (Ending => Ending') /\ EndsOnce' /\ (~Ending' => ~Ending)
    BY <2>1 DEF IInv, EndsOnce, Ending, Flushing, At, builderVars
  <2> QED BY <2>1, <2>2 DEF IInv, BundlesComplete, builderVars
<1>2. CASE CopyBatch("copy", "send") \/ CopyBatch("last_copy", "last_flush")
  <2>1. /\ \/ pc[c] = "copy" /\ pc'[c] \in {"copy", "send"}
           \/ pc[c] = "last_copy" /\ pc'[c] \in {"last_copy", "last_flush"}
        /\ UNCHANGED <<flagVars, ended, sent>> /\ pc'["master"] = pc["master"]
    BY <1>0, <1>2 DEF CopyBatch, Goto, At, threadVars
  <2>2. ~Ending
    BY <2>1 DEF IInv, EndsOnce, Ending, Flushing, At
  <2>3. EndsOnce'
    BY <2>1, <2>2 DEF IInv, EndsOnce, Ending, Flushing, At, flagVars
  <2>4. pull_data_que' \in Seq(Complete) /\ push_data_vec' \in Seq(Complete)
    BY <1>2, <2>2, CopyBatchComplete
  <2> QED BY <2>1, <2>2, <2>3, <2>4 DEF IInv, BundlesComplete
<1>3. CASE SendBatch
  <2>1. /\ pc[c] = "send" /\ pc'[c] = "quit" /\ pc'["master"] = pc["master"]
        /\ UNCHANGED <<flagVars, ended, pull_data_que, push_data_vec>>
        /\ sent' = sent \o push_data_vec
    BY <1>0, <1>3 DEF SendBatch, Goto, At
  <2>2. EndsOnce' /\ Ending' = Ending
    BY <2>1 DEF IInv, EndsOnce, Ending, Flushing, At, flagVars
  <2>3. sent' \in Seq(Complete)
    BY <2>1 DEF IInv, BundlesComplete
  <2> QED BY <2>1, <2>2, <2>3 DEF IInv, BundlesComplete
<1>4. CASE OnList(StopWorkers(c, "stop_workers", "last_copy"))
  <2>1. /\ pc[c] = "stop_workers" /\ pc'[c] \in {"stop_workers", "last_copy"}
        /\ UNCHANGED builderVars /\ pc'["master"] = pc["master"]
    BY <1>0, <1>4 DEF OnList, StopWorkers, NextWorker, Goto, At
  <2>2. EndsOnce' /\ Ending' = Ending
    BY <2>1 DEF IInv, EndsOnce, Ending, Flushing, At, builderVars
  <2> QED BY <2>1, <2>2 DEF IInv, BundlesComplete, builderVars
<1>5. CASE OnList(FlushEventData(c, "last_flush", "last_flag", "zero"))
  <2>1. /\ pc[c] \in {"last_flush", "last_flag"}
        /\ pc'[c] \in {"last_flush", "last_flag", "zero"}
        /\ UNCHANGED builderVars /\ pc'["master"] = pc["master"]
    BY <1>0, <1>5 DEF OnList, FlushEventData, FlushQueue, FlushFlag, NextWorker, Goto, At
  <2>2. EndsOnce' /\ Ending /\ Ending'
    BY <2>1 DEF IInv, EndsOnce, Ending, Flushing, At, builderVars
  <2> QED BY <2>1, <2>2 DEF IInv, BundlesComplete, builderVars
<1>6. CASE SendLastBatch
  <2>1. /\ \/ pc[c] = "zero" /\ pc'[c] = "last_send" /\ UNCHANGED ended
           \/ pc[c] = "last_send" /\ pc'[c] = "stop_go" /\ ended'
        /\ UNCHANGED <<flagVars, push_data_vec>> /\ pc'["master"] = pc["master"]
        /\ sent' \in {sent, sent \o push_data_vec}
    BY <1>0, <1>6 DEF SendLastBatch, batchVars, Goto, At
  <2>2. EndsOnce' /\ Ending /\ Ending'
    BY <2>1 DEF IInv, EndsOnce, Ending, Flushing, At, flagVars
  <2>3. sent \o push_data_vec \in Seq(Complete)
    BY DEF IInv, BundlesComplete
  <2> QED BY <2>1, <2>2, <2>3 DEF IInv, BundlesComplete
<1>7. CASE EndRun
  <2>1. /\ \/ pc[c] = "stop_go" /\ pc'[c] = "stop_live" /\ ~go_time'
           \/ pc[c] = "stop_live" /\ pc'[c] = "finish" /\ UNCHANGED go_time
           \/ pc[c] = "finish" /\ pc'[c] = "check" /\ UNCHANGED go_time
        /\ UNCHANGED <<quitting_time, pipeVars>> /\ pc'["master"] = pc["master"]
    BY <1>0, <1>7 DEF EndRun, Goto, At
  <2>2. EndsOnce' /\ Ending' = Ending
    BY <2>1 DEF IInv, EndsOnce, Ending, Flushing, At, pipeVars
  <2> QED BY <2>1, <2>2 DEF IInv, BundlesComplete, pipeVars
<1> QED BY <1>1, <1>2, <1>3, <1>4, <1>5, <1>6, <1>7 DEF ControlLoop

(* Only its last flush touches the workers' queues, once the run is ending. *)
LEMMA ControlStep ==
    ASSUME IInv, ControlLoop
    PROVE  EndsOnce' /\ BuilderInformed' /\ BundlesComplete'
<1> DEFINE c == "control"
<1>0. /\ TypeOK /\ BuilderInformed /\ {c, "builder"} \subseteq Thread /\ c # "builder"
      /\ pc \in [Thread -> Label] /\ idx \in [Thread -> Worker]
      /\ ListTypeOK(Thread, Label) /\ {"stop_workers", "last_copy"} \subseteq Label
  BY ListPart DEF IInv, TypeOK, Label
<1>1. EndsOnce' /\ (Ending => Ending') /\ BundlesComplete'
  BY ControlEnds
<1>2. CASE OnList(FlushEventData(c, "last_flush", "last_flag", "zero"))
  <2>1. Ending
    BY <1>2 DEF OnList, FlushEventData, FlushQueue, FlushFlag, Ending, Flushing
  <2> QED BY <1>1, <2>1 DEF BuilderInformed
<1>3. CASE ~OnList(FlushEventData(c, "last_flush", "last_flag", "zero"))
  <2>1. UNCHANGED <<queueVars, bundle>>
    <3>1. CASE OnList(StopWorkers(c, "stop_workers", "last_copy"))
      BY <1>0, <3>1, StartStopType DEF OnList, queueVars
    <3>2. CASE ~OnList(StopWorkers(c, "stop_workers", "last_copy"))
      BY <1>3, <3>2 DEF ControlLoop, ControlOuter, ControlGo, ControlBatch, ControlQuit,
             Test, CopyBatch, SendBatch, SendLastBatch, EndRun, workerVars, queueVars
    <3> QED BY <3>1, <3>2
  <2>2. pc'["builder"] = pc["builder"] /\ idx'["builder"] = idx["builder"]
    <3>1. \E here, after \in Label :
             Moves(c, here, after) \/ (pc' = pc /\ idx' = idx)
      BY <1>3 DEF ControlLoop, ControlOuter, ControlGo, ControlBatch, ControlQuit, Test,
             CopyBatch, SendBatch, SendLastBatch, EndRun, OnList, StopWorkers,
             threadVars, Label, Moves
    <3> QED BY <1>0, <3>1, MovesNoOther
  <2>3. KeepsEvents /\ BuilderWaits
    BY <2>1, <2>2 DEF KeepsEvents, BuilderWaits, queueVars
  <2> QED BY <1>0, <1>1, <2>3, OthersKeepBuilderInformed
<1> QED BY <1>2, <1>3

-----------------------------------------------------------------------------
(* The steps of the master, of the workers and of the triggers.            *)

(* The master starts and stops the builder once each.                      *)
LEMMA MasterStep ==
    ASSUME IInv, Master
    PROVE  EndsOnce' /\ BuilderInformed' /\ BundlesComplete'
<1> DEFINE m == "master"
<1>0. /\ TypeOK /\ BuilderInformed
      /\ pc \in [Thread -> Label] /\ idx \in [Thread -> Worker]
      /\ m \in Thread /\ {"control", "builder"} \subseteq Thread \ {m}
  BY DEF IInv, TypeOK, Thread
<1>1. \E here, after \in Label : Moves(m, here, after)
  BY DEF Master, OnList, StartThreads, StartWorkers, StartBuilder, StopBuilder, Delete,
         SetFlags, StopWorkers, StopThreads, Moves, Label
<1>2. /\ pc'["builder"] = pc["builder"] /\ idx'["builder"] = idx["builder"]
      /\ pc'["control"] = pc["control"]
  BY <1>0, <1>1, MovesNoOther
<1>3. UNCHANGED <<bundle, pipeVars>>
  BY DEF Master, OnList, StartThreads, StartWorkers, StartBuilder, StopBuilder, Delete,
         SetFlags, StopWorkers, StopThreads, builderVars, pipeVars
<1>4. Ending' = Ending
  BY <1>2, <1>3 DEF Ending, Flushing, At, pipeVars
<1>5. /\ \/ UNCHANGED <<go_time, quitting_time>>
             /\ (pc'[m] \in {"threads", "workers", "start", "stop"}
                    => pc[m] \in {"threads", "workers", "start", "stop"})
         \/ pc[m] = "start" /\ UNCHANGED quitting_time
         \/ quitting_time' /\ UNCHANGED go_time /\ pc'[m] = "finished"
  <2>1. CASE StartBuilder
    BY <2>1 DEF StartBuilder, SetFlags, At
  <2>2. CASE StopBuilder
    BY <1>0, <2>2 DEF StopBuilder, SetFlags, Goto
  <2>3. CASE Delete
    BY <1>0, <2>3 DEF Delete, SetFlags, Goto
  <2>4. CASE OnList(StartThreads(m, "threads", "workers"))
    BY <2>4 DEF OnList, StartThreads, At, builderVars
  <2>5. CASE OnList(StartWorkers(m, "workers", "start"))
    BY <2>5 DEF OnList, StartWorkers, At, builderVars
  <2>6. CASE OnList(StopWorkers(m, "stop_workers", "stop_threads"))
    BY <1>0, <2>6 DEF OnList, StopWorkers, NextWorker, Goto, builderVars
  <2>7. CASE OnList(StopThreads(m, "stop_threads", "join_thread", "done"))
    BY <1>0, <2>7 DEF OnList, StopThreads, NextWorker, Goto, builderVars
  <2> QED BY <2>1, <2>2, <2>3, <2>4, <2>5, <2>6, <2>7 DEF Master
<1>6. EndsOnce'
  <2>0. EndsOnce /\ UNCHANGED ended
    BY <1>3 DEF IInv, pipeVars
  <2>1. CASE UNCHANGED <<go_time, quitting_time>>
    BY <1>2, <1>4, <1>5, <2>0, <2>1 DEF EndsOnce, At
  <2>2. CASE pc[m] = "start" /\ UNCHANGED quitting_time
    <3>1. ~quitting_time /\ ~Ending /\ ~ended
      BY <2>0, <2>2 DEF EndsOnce, Ending
    <3> QED BY <1>2, <1>4, <2>0, <2>2, <3>1 DEF EndsOnce, At
  <2>3. CASE quitting_time' /\ UNCHANGED go_time /\ pc'[m] = "finished"
    BY <1>2, <1>4, <2>0, <2>3 DEF EndsOnce, At
  <2> QED BY <1>5, <2>1, <2>2, <2>3
<1>7. BuilderInformed'
  <2>1. UNCHANGED <<data_queue, has_event, bundle>>
    BY <1>0, MasterType
  <2>2. KeepsEvents /\ BuilderWaits
    BY <1>2, <2>1 DEF KeepsEvents, BuilderWaits
  <2> QED BY <1>0, <1>4, <2>2, OthersKeepBuilderInformed
<1>8. BundlesComplete'
  BY <1>3, <1>4 DEF IInv, BundlesComplete, pipeVars
<1> QED BY <1>6, <1>7, <1>8

(* Whatever moves no thread of the builder and keeps the workers' events.  *)
LEMMA OutsideStep ==
    ASSUME IInv, KeepsEvents, UNCHANGED <<threadVars, bundle, builderVars>>
    PROVE  EndsOnce' /\ BuilderInformed' /\ BundlesComplete'
<1>1. Ending' = Ending /\ EndsOnce'
  BY DEF IInv, EndsOnce, Ending, Flushing, At, threadVars, builderVars
<1>2. BundlesComplete'
  BY <1>1 DEF IInv, BundlesComplete, builderVars
<1>3. BuilderWaits
  BY DEF BuilderWaits, threadVars
<1> QED BY <1>1, <1>2, <1>3, OthersKeepBuilderInformed DEF IInv

-----------------------------------------------------------------------------
(* The invariant, and what it gives.                                       *)

(* The invariant holds of the constructed builder.                         *)
LEMMA IInvInit == Init => IInv
<1> SUFFICES ASSUME Init PROVE IInv
  OBVIOUS
<1>1. EndsOnce
  BY DEF Init, EndsOnce, Ending, Flushing, At, Thread
<1>2. BuilderInformed
  <2>1. FlagsTell("builder")
    BY DEF Init, FlagsTell, WorkersInit, OnEach
  <2>2. SeesEvents("builder")
    BY DEF Init, SeesEvents, CountsEvents, At, Thread
  <2> QED BY <2>1, <2>2 DEF BuilderInformed, Informed
<1>3. BundlesComplete
  BY DEF Init, BundlesComplete
<1> QED BY <1>1, <1>2, <1>3, TypeInit DEF IInv

(* The invariant is inductive.                                             *)
LEMMA IInvStep == IInv /\ [Next]_vars => IInv'
<1> SUFFICES ASSUME IInv, [Next]_vars PROVE IInv'
  OBVIOUS
<1>0. TypeOK'
  BY TypeStep DEF IInv
<1>1. CASE BuilderLoop
  BY <1>0, <1>1, BuilderStep DEF IInv
<1>2. CASE ControlLoop
  BY <1>0, <1>2, ControlStep DEF IInv
<1>3. CASE Master
  BY <1>0, <1>3, MasterStep DEF IInv
<1>4. CASE WorkerThreads
  <2>1. PICK w \in Worker : WorkerStep(w) /\ UNCHANGED builderVars
    BY <1>4 DEF WorkerThreads
  <2>2. KeepsEvents /\ UNCHANGED <<threadVars, bundle>>
    BY <2>1, WorkLoopStep DEF WorkerStep, IInv, TypeOK
  <2> QED BY <1>0, <2>1, <2>2, OutsideStep DEF IInv
<1>5. CASE FireTrigger
  <2>1. PICK S \in SUBSET Worker : TriggerStep(S)
    BY <1>5 DEF FireTrigger
  <2>2. KeepsEvents /\ UNCHANGED <<threadVars, bundle>>
    BY <2>1, TriggerStepType DEF TriggerStep, IInv, TypeOK
  <2> QED BY <1>0, <1>5, <2>2, OutsideStep DEF IInv, FireTrigger
<1>6. CASE UNCHANGED vars
  <2>1. KeepsEvents /\ UNCHANGED <<threadVars, bundle, builderVars>>
    BY <1>6 DEF vars, listVars, threadVars, KeepsEvents
  <2> QED BY <1>0, <2>1, OutsideStep DEF IInv
<1> QED BY <1>1, <1>2, <1>3, <1>4, <1>5, <1>6 DEF Next

(* Whatever the workers, the triggers and the master do, and wherever the  *)
(* end of the run meets the builder, every bundle the writers are given    *)
(* has an event of each worker: GetEventData never pops an empty queue for *)
(* a bundle that is sent, although FlushEvents clears has_event_ after the *)
(* queue and the control thread flushes without asking the builder.        *)
THEOREM SentBundlesComplete == Spec => []CompleteBundles
<1>1. IInv => CompleteBundles
  <2> SUFFICES ASSUME IInv, NEW i \in DOMAIN sent
               PROVE  /\ Len(sent[i]) = NWorkers
                      /\ \A w \in Worker : sent[i][w] # Uninitialised
    BY DEF CompleteBundles
  <2>1. sent \in Seq(Complete)
    BY DEF IInv, BundlesComplete
  <2>2. sent[i] \in Complete
    BY <2>1
  <2>3. sent[i] \in Seq(Event) /\ Len(sent[i]) = NWorkers
    BY <2>2 DEF Complete
  <2>4. \A w \in Worker : sent[i][w] \in Event
    BY <2>3 DEF Worker
  <2> QED BY <2>3, <2>4, UninitialisedIsNoEvent
<1> QED BY <1>1, IInvInit, IInvStep, PTL DEF Spec

(* The builder never lets pull_data_que_ grow past kMaxQueueSize.          *)
THEOREM PullQueueBounded == Spec => []QueueBounded
<1>1. Init => QueueBounded
  BY EventBuilderAssumption DEF Init, QueueBounded
<1>2. TypeOK /\ QueueBounded /\ [Next]_vars => QueueBounded'
  <2> SUFFICES ASSUME TypeOK, QueueBounded, [Next]_vars PROVE QueueBounded'
    OBVIOUS
  <2>0. pull_data_que \in Seq(Bundle) /\ KMaxQueueSize \in Nat
    BY EventBuilderAssumption DEF TypeOK
  <2>1. CASE BuilderPush
    <3>1. \/ UNCHANGED pull_data_que
          \/ /\ Len(pull_data_que) < KMaxQueueSize
             /\ pull_data_que' = Append(pull_data_que, bundle)
      BY <2>1 DEF BuilderPush
    <3>2. Len(Append(pull_data_que, bundle)) = Len(pull_data_que) + 1
      BY <2>0
    <3> QED BY <2>0, <3>1, <3>2 DEF QueueBounded
  <2>2. CASE ~BuilderPush
    <3>1. \/ UNCHANGED pull_data_que \/ pull_data_que' = <<>>
          \/ pull_data_que # <<>> /\ pull_data_que' = Tail(pull_data_que)
      <4>1. CASE BuilderLoop
        BY <2>2, <4>1 DEF BuilderLoop, WorkersGotSyncEvent, BuilderOuter, BuilderGo,
               BuilderWait, BuilderFlush, Test, OnList, builderVars
      <4>2. CASE ControlLoop
        BY <4>2 DEF ControlLoop, ControlOuter, ControlGo, ControlBatch, ControlQuit, Test,
               CopyBatch, SendBatch, SendLastBatch, EndRun, OnList, builderVars, pipeVars
      <4>3. CASE Master
        BY <4>3 DEF Master, StartBuilder, StopBuilder, Delete, SetFlags, OnList,
               builderVars, pipeVars
      <4>4. CASE WorkerThreads \/ FireTrigger \/ UNCHANGED vars
        BY <4>4 DEF WorkerThreads, FireTrigger, vars, builderVars
      <4> QED BY <4>1, <4>2, <4>3, <4>4 DEF Next
    <3>2. pull_data_que # <<>> => Len(Tail(pull_data_que)) = Len(pull_data_que) - 1
      BY <2>0
    <3> QED BY <2>0, <3>1, <3>2 DEF QueueBounded
  <2> QED BY <2>1, <2>2
<1> QED BY <1>1, <1>2, TypeCorrect, PTL DEF Spec

-----------------------------------------------------------------------------
(* The order of the stream.  For a worker that is alone, its events are    *)
(* followed from what is sent back to the digitizer: each place holds      *)
(* triggers after those of the places before it, and once the run is       *)
(* ending only what is sent and the last batch still matter.               *)

(* The batch counts from the first bundle copied until it is sent.         *)
BatchLive ==
    copied # 0 \/ pc["control"] \in {"send", "last_flush", "last_flag", "zero", "last_send"}

Copying == copied # 0 => At("control", "copy") \/ At("control", "last_copy")

BatchPast(w, low) ==
    \E n \in low..triggers :
        /\ BatchLive => Run(Column(push_data_vec, w), w, low, n)
        /\ ~Ending => QueuedPast(pull_data_que, w, n)

SentPast(w) ==
    \E n \in 0..triggers : Run(Column(sent, w), w, 0, n) /\ BatchPast(w, n)

EventsOrdered(w) == DeviceOrdered(w) /\ SentPast(w)

OrderInv == Copying /\ \A w \in Worker : Alone(w) => EventsOrdered(w)

(* What a step leaves as it is keeps its bounds.                           *)
LEMMA SentKept ==
    ASSUME NEW w \in Worker, triggers \in Nat, triggers' \in Nat, triggers <= triggers',
           UNCHANGED <<sent, push_data_vec>>, BatchLive' => BatchLive,
           ~Ending' => /\ ~Ending
                       /\ \A n \in Nat : QueuedPast(pull_data_que, w, n)
                             => QueuedPast(pull_data_que, w, n)',
           SentPast(w)
    PROVE  SentPast(w)'
<1>1. PICK n \in 0..triggers : Run(Column(sent, w), w, 0, n) /\ BatchPast(w, n)
  BY DEF SentPast
<1>2. PICK m \in n..triggers : /\ BatchLive => Run(Column(push_data_vec, w), w, n, m)
                               /\ ~Ending => QueuedPast(pull_data_que, w, m)
  BY <1>1 DEF BatchPast
<1>3. n \in 0..triggers' /\ m \in n..triggers' /\ m \in Nat
  OBVIOUS
<1>4. BatchLive' => Run(Column(push_data_vec', w), w, n, m)
  BY <1>2
<1>5. ~Ending' => QueuedPast(pull_data_que, w, m)'
  BY <1>2, <1>3
<1>6. BatchPast(w, n)'
  BY <1>3, <1>4, <1>5 DEF BatchPast
<1>7. Run(Column(sent', w), w, 0, n)
  BY <1>1
<1> QED BY <1>3, <1>6, <1>7 DEF SentPast

(* A queue that is left alone keeps its bounds with the bundle.            *)
LEMMA PullQueueKept ==
    ASSUME NEW w \in Worker, triggers \in Nat, triggers' \in Nat, triggers <= triggers',
           pull_data_que' = pull_data_que,
           \A n \in Nat : BundlePast(w, n) => BundlePast(w, n)'
    PROVE  \A n \in Nat : QueuedPast(pull_data_que, w, n) => QueuedPast(pull_data_que, w, n)'
<1> SUFFICES ASSUME NEW n \in Nat, QueuedPast(pull_data_que, w, n)
             PROVE  QueuedPast(pull_data_que, w, n)'
  OBVIOUS
<1> QED BY QueuedKept DEF QueuedPast

(* A step that moves no bundle, and no event of the worker but within it.  *)
LEMMA BundlesRest ==
    ASSUME NEW w \in Worker, triggers \in Nat, triggers' \in Nat, triggers <= triggers',
           UNCHANGED <<bundle, pull_data_que, push_data_vec, sent>>,
           BatchLive' => BatchLive, ~Ending' => ~Ending,
           \A n \in Nat : WorkerPast(w, n) => WorkerPast(w, n)', SentPast(w)
    PROVE  SentPast(w)'
<1>1. \A n \in Nat : BundlePast(w, n) => BundlePast(w, n)'
  BY BundleKept
<1> QED BY <1>1, PullQueueKept, SentKept

-----------------------------------------------------------------------------
(* The builder moves events into the bundle, and the bundle to the queue.  *)

LEMMA BuilderGetOrdered ==
    ASSUME IInv, ~Ending, OnList(GetEventData("builder", "get", "push")),
           UNCHANGED <<pull_data_que, push_data_vec, sent>>,
           BatchLive' = BatchLive, Ending' = Ending,
           NEW w \in Worker, EventsOrdered(w)
    PROVE  EventsOrdered(w)'
<1>1. /\ ListTypeOK(Thread, Label) /\ "builder" \in Thread /\ Informed("builder")
      /\ triggers \in Nat
  BY ListPart DEF IInv, TypeOK, WorkersTypeOK, BuilderInformed
<1>2. /\ triggers' = triggers /\ DeviceOrdered(w)'
      /\ \A n \in Nat : BundlePast(w, n) => BundlePast(w, n)'
  BY <1>1, GetOrdered DEF OnList, EventsOrdered
<1>3. triggers' \in Nat /\ triggers <= triggers'
  BY <1>1, <1>2
<1>4. SentPast(w)'
  BY <1>1, <1>2, <1>3, PullQueueKept, SentKept DEF EventsOrdered
<1> QED BY <1>2, <1>4 DEF EventsOrdered

LEMMA BuilderPushOrdered ==
    ASSUME IInv, ~Ending, BuilderPush, BatchLive' = BatchLive, Ending' = Ending,
           NEW w \in Worker, EventsOrdered(w)
    PROVE  EventsOrdered(w)'
<1>1. /\ ListTypeOK(Thread, Label) /\ "builder" \in Thread /\ Informed("builder")
      /\ triggers \in Nat /\ pull_data_que \in Seq(Complete) /\ DeviceOrdered(w)
  BY ListPart DEF IInv, TypeOK, WorkersTypeOK, BuilderInformed, BundlesComplete, EventsOrdered
<1>2. /\ At("builder", "push") /\ UNCHANGED workerVars /\ bundle' = <<>>
      /\ UNCHANGED <<push_data_vec, sent>>
      /\ pull_data_que' \in {pull_data_que, Append(pull_data_que, bundle)}
  BY DEF BuilderPush, batchVars
<1>3. /\ triggers' = triggers /\ DeviceOrdered(w)'
      /\ \A n \in Nat : QueuedPast(pull_data_que, w, n) => QueuedPast(pull_data_que, w, n)'
  BY <1>1, <1>2, PushedOrdered DEF QueuedPast
<1>4. triggers' \in Nat /\ triggers <= triggers'
  BY <1>1, <1>3
<1>5. SentPast(w)'
  BY <1>1, <1>2, <1>3, <1>4, SentKept DEF EventsOrdered
<1> QED BY <1>3, <1>5 DEF EventsOrdered

-----------------------------------------------------------------------------
(* The control thread moves the queue's first bundle to the batch, and the *)
(* batch to the writers.                                                   *)

LEMMA CopyOrdered ==
    ASSUME IInv, ~Ending, NEW here, NEW after, CopyBatch(here, after),
           NEW w \in Worker, EventsOrdered(w)
    PROVE  EventsOrdered(w)'
<1> DEFINE batch == IF copied = 0 THEN <<>> ELSE push_data_vec
           q == pull_data_que
<1>0. triggers \in Nat /\ q \in Seq(Complete) /\ batch \in Seq(Complete)
  BY DEF IInv, TypeOK, WorkersTypeOK, BundlesComplete
<1>1. /\ UNCHANGED <<triggers, captured, memory, work, static_bundle, data_queue, bundle, sent>>
      /\ \/ q = <<>> /\ push_data_vec' = batch /\ q' = q
         \/ q # <<>> /\ push_data_vec' = Append(batch, Head(q)) /\ q' = Tail(q)
  BY DEF CopyBatch, workerVars
<1>2. DeviceOrdered(w)' /\ \A n \in Nat : WorkerPast(w, n) => WorkerPast(w, n)'
  BY <1>1 DEF EventsOrdered, DeviceOrdered, InProgress, Handed, WorkerPast, DevicePast
<1>3. triggers' \in Nat /\ triggers <= triggers'
  BY <1>0, <1>1
<1>4. \A n \in Nat : BundlePast(w, n) => BundlePast(w, n)'
  BY <1>0, <1>1, <1>2, <1>3, BundleKept
<1>5. PICK a \in 0..triggers : Run(Column(sent, w), w, 0, a) /\ BatchPast(w, a)
  BY DEF EventsOrdered, SentPast
<1>6. PICK b \in a..triggers : /\ BatchLive => Run(Column(push_data_vec, w), w, a, b)
                               /\ QueuedPast(q, w, b)
  BY <1>5 DEF BatchPast
<1>7. a \in Nat /\ b \in Nat /\ a <= b
  OBVIOUS
<1>8. Run(Column(batch, w), w, a, b)
  <2>1. CASE copied = 0
    BY <2>1, ColumnEmpty, RunEmpty
  <2>2. CASE copied # 0
    BY <1>6, <2>2 DEF BatchLive
  <2> QED BY <2>1, <2>2
<1> HIDE DEF batch, q
<1>9. \E n \in b..triggers : Run(Column(push_data_vec', w), w, a, n) /\ QueuedPast(q', w, n)
  <2>1. CASE q = <<>>
    <3>1. b \in b..triggers
      BY <1>0
    <3> QED BY <1>1, <1>6, <1>8, <2>1, <3>1
  <2>2. CASE q # <<>>
    <3>1. PICK n \in b + 1 .. triggers :
             Head(q)[w] = Whole(w, n) /\ QueuedPast(Tail(q), w, n)
      BY <1>0, <1>6, <1>7, <2>2, FirstQueued
    <3>2. n \in Nat /\ b <= n /\ n \in b..triggers /\ n \in b + 1 .. n
      BY <1>7
    <3>3. Head(q) \in Complete /\ In(Head(q)[w], w, b, n)
      BY <1>0, <2>2, <3>1, <3>2 DEF In
    <3>4. Run(Column(Append(batch, Head(q)), w), w, a, n)
      BY <1>0, <1>7, <1>8, <3>2, <3>3, ColumnRunAppends
    <3> QED BY <1>1, <2>2, <3>1, <3>2, <3>4
  <2> QED BY <2>1, <2>2
<1>10. PICK n \in b..triggers : Run(Column(push_data_vec', w), w, a, n) /\ QueuedPast(q', w, n)
  BY <1>9
<1>11. n \in Nat /\ n \in a..triggers' /\ a \in 0..triggers'
  BY <1>1, <1>7
<1>12. QueuedPast(pull_data_que, w, n)'
  BY <1>0, <1>3, <1>4, <1>10, <1>11, QueuedKept DEF QueuedPast, q
<1>13. BatchPast(w, a)'
  BY <1>10, <1>11, <1>12 DEF BatchPast
<1>14. SentPast(w)'
  BY <1>1, <1>5, <1>11, <1>13 DEF SentPast
<1> QED BY <1>2, <1>14 DEF EventsOrdered

LEMMA SentOrdered ==
    ASSUME IInv, BatchLive, ~BatchLive', sent' = sent \o push_data_vec,
           UNCHANGED <<workerVars, bundle, pull_data_que>>, Ending' = Ending,
           NEW w \in Worker, EventsOrdered(w)
    PROVE  EventsOrdered(w)'
<1>0. /\ triggers \in Nat /\ sent \in Seq(Complete) /\ push_data_vec \in Seq(Complete)
  BY DEF IInv, TypeOK, WorkersTypeOK, BundlesComplete
<1>1. /\ UNCHANGED <<triggers, captured, memory, work, static_bundle, data_queue, bundle>>
      /\ triggers' \in Nat /\ triggers <= triggers'
  BY <1>0 DEF workerVars
<1>2. DeviceOrdered(w)' /\ \A n \in Nat : WorkerPast(w, n) => WorkerPast(w, n)'
  BY <1>1 DEF EventsOrdered, DeviceOrdered, InProgress, Handed, WorkerPast, DevicePast
<1>3. \A n \in Nat : BundlePast(w, n) => BundlePast(w, n)'
  BY <1>0, <1>1, <1>2, BundleKept
<1>4. \A n \in Nat : QueuedPast(pull_data_que, w, n) => QueuedPast(pull_data_que, w, n)'
  BY <1>0, <1>1, <1>3, PullQueueKept
<1>5. PICK a \in 0..triggers : Run(Column(sent, w), w, 0, a) /\ BatchPast(w, a)
  BY DEF EventsOrdered, SentPast
<1>6. PICK b \in a..triggers : /\ Run(Column(push_data_vec, w), w, a, b)
                               /\ ~Ending => QueuedPast(pull_data_que, w, b)
  BY <1>5 DEF BatchPast
<1>7. 0 \in Nat /\ a \in Nat /\ b \in Nat /\ 0 <= a /\ a <= b /\ b \in 0..triggers'
      /\ b \in b..triggers'
  BY <1>1
<1>8. Run(Column(sent', w), w, 0, b)
  BY <1>0, <1>5, <1>6, <1>7, ColumnRunJoins
<1>9. ~Ending' => QueuedPast(pull_data_que, w, b)'
  BY <1>4, <1>6, <1>7
<1>10. BatchPast(w, b)'
  BY <1>7, <1>9 DEF BatchPast
<1>11. SentPast(w)'
  BY <1>7, <1>8, <1>10 DEF SentPast
<1> QED BY <1>2, <1>11 DEF EventsOrdered

-----------------------------------------------------------------------------
(* Every step keeps the order.                                             *)

(* A step that leaves workers and bundles alone.                           *)
LEMMA OthersKeepOrder ==
    ASSUME IInv, UNCHANGED <<workerVars, bundle, pull_data_que, push_data_vec, sent>>,
           BatchLive' => BatchLive, ~Ending' => ~Ending,
           NEW w \in Worker, EventsOrdered(w)
    PROVE  EventsOrdered(w)'
<1>0. triggers \in Nat
  BY DEF IInv, TypeOK, WorkersTypeOK
<1>1. /\ UNCHANGED <<triggers, captured, memory, work, static_bundle, data_queue>>
      /\ triggers' \in Nat /\ triggers <= triggers'
  BY <1>0 DEF workerVars
<1>2. DeviceOrdered(w)' /\ \A n \in Nat : WorkerPast(w, n) => WorkerPast(w, n)'
  BY <1>1 DEF EventsOrdered, DeviceOrdered, InProgress, Handed, WorkerPast, DevicePast
<1>3. SentPast(w)'
  BY <1>0, <1>1, <1>2, BundlesRest DEF EventsOrdered
<1> QED BY <1>2, <1>3 DEF EventsOrdered

(* Once the run is ending, the queues no longer matter.                    *)
LEMMA EndingKeepsOrder ==
    ASSUME IInv, triggers' = triggers, UNCHANGED <<sent, push_data_vec>>,
           BatchLive' => BatchLive, Ending',
           NEW w \in Worker, EventsOrdered(w), DeviceOrdered(w)'
    PROVE  EventsOrdered(w)'
<1>1. triggers \in Nat /\ triggers' \in Nat /\ triggers <= triggers'
  BY DEF IInv, TypeOK, WorkersTypeOK
<1>2. SentPast(w)'
  BY <1>1, SentKept DEF EventsOrdered
<1> QED BY <1>2 DEF EventsOrdered

(* A flush of the queues, or a start or stop of the workers.               *)
LEMMA ListKeepsOrder ==
    ASSUME IInv, NEW t \in Thread, NEW here, NEW join, NEW after,
           \/ FlushEventData(t, here, join, after)
           \/ StartThreads(t, here, after) \/ StartWorkers(t, here, after)
           \/ StopWorkers(t, here, after) \/ StopThreads(t, here, join, after),
           UNCHANGED builderVars, BatchLive' => BatchLive, ~Ending' => ~Ending,
           NEW w \in Worker, Alone(w), EventsOrdered(w)
    PROVE  EventsOrdered(w)'
<1>0. triggers \in Nat /\ ListTypeOK(Thread, Label)
  BY ListPart DEF IInv, TypeOK, WorkersTypeOK
<1>1. /\ triggers' = triggers /\ bundle' = bundle /\ DeviceOrdered(w)'
      /\ \A n \in Nat : WorkerPast(w, n) => WorkerPast(w, n)'
  BY <1>0, FlushOrdered, StartStopOrdered DEF EventsOrdered
<1>2. triggers' \in Nat /\ triggers <= triggers'
  BY <1>0, <1>1
<1>3. SentPast(w)'
  BY <1>0, <1>1, <1>2, BundlesRest DEF EventsOrdered, builderVars
<1> QED BY <1>1, <1>3 DEF EventsOrdered

LEMMA BuilderKeepsOrder ==
    ASSUME IInv, OrderInv, BuilderLoop
    PROVE  OrderInv'
<1> DEFINE b == "builder"
<1>0. b \in Thread /\ WorkersTypeOK /\ idx[b] \in Worker
  BY DEF IInv, TypeOK, Thread
<1>1. /\ UNCHANGED <<push_data_vec, sent, copied, ended>>
      /\ ~BuilderPush => UNCHANGED pull_data_que
      /\ pc'["control"] = pc["control"]
  BY BuilderLeavesRest DEF batchVars
<1>2. Copying' /\ BatchLive' = BatchLive /\ Ending' = Ending
  BY <1>1 DEF OrderInv, Copying, BatchLive, Ending, Flushing, At
<1>3. ASSUME NEW w \in Worker, Alone(w) PROVE EventsOrdered(w)'
  <2>0. EventsOrdered(w)
    BY <1>3 DEF OrderInv
  <2>1. CASE OnList(GetEventData(b, "get", "push"))
    <3>1. CASE ~Ending
      BY <1>1, <1>2, <1>3, <2>0, <2>1, <3>1, BuilderGetOrdered DEF OnList, builderVars
    <3>2. CASE Ending
      <4>1. triggers' = triggers /\ DeviceOrdered(w)'
        BY <1>0, <2>0, <2>1, TakenOrdered DEF OnList, GetEventData, EventsOrdered
      <4> QED BY <1>1, <1>2, <2>0, <3>2, <4>1, EndingKeepsOrder
    <3> QED BY <3>1, <3>2
  <2>2. CASE BuilderPush
    <3>1. CASE ~Ending
      BY <1>2, <1>3, <2>0, <2>2, <3>1, BuilderPushOrdered
    <3>2. CASE Ending
      <4>1. triggers' = triggers /\ DeviceOrdered(w)'
        BY <2>0, <2>2 DEF BuilderPush, workerVars, EventsOrdered, DeviceOrdered,
                          InProgress, Handed
      <4> QED BY <1>1, <1>2, <2>0, <3>2, <4>1, EndingKeepsOrder
    <3> QED BY <3>1, <3>2
  <2>3. CASE BuilderFlush
    BY <1>0, <1>2, <1>3, <2>0, <2>3, ListKeepsOrder DEF BuilderFlush, OnList
  <2>4. CASE \/ BuilderOuter \/ BuilderGo \/ BuilderWait
             \/ OnList(AnyWorkersHaveEvent(b, "any", "wait", "check"))
             \/ OnList(AllWorkersHaveEvent(b, "all", "multi", "flush"))
             \/ OnList(AnyWorkersHaveMultiEvent(b, "multi", "flush", "get"))
    <3>1. UNCHANGED <<workerVars, bundle, builderVars>>
      BY <2>4 DEF BuilderOuter, BuilderGo, BuilderWait, Test, OnList, AnyWorkersHaveEvent,
                  AllWorkersHaveEvent, AnyWorkersHaveMultiEvent
    <3>2. UNCHANGED <<pull_data_que, push_data_vec, sent>>
      BY <3>1 DEF builderVars
    <3> QED BY <1>2, <2>0, <3>1, <3>2, OthersKeepOrder
  <2> QED BY <2>1, <2>2, <2>3, <2>4 DEF BuilderLoop, WorkersGotSyncEvent
<1> QED BY <1>2, <1>3 DEF OrderInv

LEMMA ControlKeepsOrder ==
    ASSUME IInv, OrderInv, ControlLoop
    PROVE  OrderInv'
<1> DEFINE c == "control"
<1>0. c \in Thread /\ pc \in [Thread -> Label] /\ WorkersTypeOK /\ idx[c] \in Worker
      /\ (~Ending' => ~Ending) /\ Copying /\ copied \in Nat
  BY ControlEnds DEF IInv, TypeOK, Thread, OrderInv
<1>s. SUFFICES /\ Copying'
               /\ \A w \in Worker : Alone(w) /\ EventsOrdered(w) => EventsOrdered(w)'
  BY DEF OrderInv
<1>1. CASE ControlOuter \/ ControlGo \/ ControlBatch \/ ControlQuit
  <2>1. /\ pc[c] \in {"outer", "check", "batch", "quit"}
        /\ pc'[c] \in {"check", "done", "batch", "outer", "copy", "quit", "stop_workers"}
        /\ UNCHANGED <<workerVars, bundle, builderVars>>
    BY <1>0, <1>1 DEF ControlOuter, ControlGo, ControlBatch, ControlQuit, Test, Goto, At
  <2>2. UNCHANGED <<pull_data_que, push_data_vec, sent, copied>>
    BY <2>1 DEF builderVars
  <2>3. Copying' /\ (BatchLive' => BatchLive)
    BY <1>0, <2>1, <2>2 DEF Copying, BatchLive, At
  <2> QED BY <1>0, <2>1, <2>2, <2>3, OthersKeepOrder
<1>2. CASE CopyBatch("copy", "send") \/ CopyBatch("last_copy", "last_flush")
  <2>1. pc[c] \in {"copy", "last_copy"} /\ (pc'[c] = pc[c] \/ copied' = 0)
    BY <1>0, <1>2 DEF CopyBatch, At, threadVars
  <2>2. Copying' /\ ~Ending
    BY <2>1 DEF Copying, At, IInv, EndsOnce, Ending, Flushing
  <2> QED BY <1>2, <2>2, CopyOrdered
<1>3. CASE SendBatch
  <2>1. /\ pc[c] = "send" /\ pc'[c] = "quit" /\ sent' = sent \o push_data_vec
        /\ UNCHANGED <<workerVars, bundle, pull_data_que, copied, ended>>
    BY <1>0, <1>3 DEF SendBatch, Goto, At
  <2>2. Copying' /\ BatchLive /\ ~BatchLive' /\ Ending' = Ending
    BY <1>0, <2>1 DEF Copying, BatchLive, Ending, Flushing, At
  <2> QED BY <2>1, <2>2, SentOrdered
<1>4. CASE OnList(StopWorkers(c, "stop_workers", "last_copy"))
  <2>1. /\ pc[c] = "stop_workers" /\ pc'[c] \in {"stop_workers", "last_copy"}
        /\ UNCHANGED builderVars
    BY <1>0, <1>4 DEF OnList, StopWorkers, NextWorker, Goto, At
  <2>2. Copying' /\ (BatchLive' => BatchLive)
    BY <1>0, <2>1 DEF Copying, BatchLive, At, builderVars
  <2> QED BY <1>0, <1>4, <2>1, <2>2, ListKeepsOrder DEF OnList
<1>5. CASE OnList(FlushEventData(c, "last_flush", "last_flag", "zero"))
  <2>1. /\ pc[c] \in {"last_flush", "last_flag"}
        /\ pc'[c] \in {"last_flush", "last_flag", "zero"}
        /\ UNCHANGED builderVars
    BY <1>0, <1>5 DEF OnList, FlushEventData, FlushQueue, FlushFlag, NextWorker, Goto, At
  <2>2. Copying' /\ BatchLive
    BY <1>0, <2>1 DEF Copying, BatchLive, At, builderVars
  <2> QED BY <1>0, <1>5, <2>2, ListKeepsOrder DEF OnList
<1>6. CASE SendLastBatch
  <2>1. CASE pc[c] = "zero"
    <3>1. /\ pc'[c] = "last_send" /\ UNCHANGED <<workerVars, sent, push_data_vec, copied, ended>>
      BY <1>0, <1>6, <2>1 DEF SendLastBatch, batchVars, Goto, At
    <3>2. Copying' /\ BatchLive /\ Ending'
      BY <1>0, <2>1, <3>1 DEF Copying, BatchLive, Ending, At
    <3>3. ASSUME NEW w \in Worker, EventsOrdered(w) PROVE EventsOrdered(w)'
      <4>1. triggers' = triggers /\ DeviceOrdered(w)'
        BY <3>1, <3>3 DEF workerVars, EventsOrdered, DeviceOrdered, InProgress, Handed
      <4> QED BY <3>1, <3>2, <3>3, <4>1, EndingKeepsOrder
    <3> QED BY <3>2, <3>3
  <2>2. CASE pc[c] = "last_send"
    <3>1. /\ pc'[c] = "stop_go" /\ sent' = sent \o push_data_vec /\ ended'
          /\ UNCHANGED <<workerVars, bundle, pull_data_que, copied>>
      BY <1>0, <1>6, <2>2 DEF SendLastBatch, Goto, At
    <3>2. Copying' /\ BatchLive /\ ~BatchLive' /\ Ending' = Ending
      BY <1>0, <2>2, <3>1 DEF Copying, BatchLive, Ending, At
    <3> QED BY <3>1, <3>2, SentOrdered
  <2> QED BY <1>6, <2>1, <2>2 DEF SendLastBatch, At
<1>7. CASE EndRun
  <2>1. /\ pc[c] \in {"stop_go", "stop_live", "finish"}
        /\ pc'[c] \in {"stop_live", "finish", "check"}
        /\ UNCHANGED <<workerVars, bundle, pipeVars>>
    BY <1>0, <1>7 DEF EndRun, Goto, At
  <2>2. UNCHANGED <<pull_data_que, push_data_vec, sent, copied>>
    BY <2>1 DEF pipeVars
  <2>3. Copying' /\ (BatchLive' => BatchLive)
    BY <1>0, <2>1, <2>2 DEF Copying, BatchLive, At
  <2> QED BY <1>0, <2>1, <2>2, <2>3, OthersKeepOrder
<1> QED BY <1>1, <1>2, <1>3, <1>4, <1>5, <1>6, <1>7 DEF ControlLoop

LEMMA MasterKeepsOrder ==
    ASSUME IInv, OrderInv, Master
    PROVE  OrderInv'
<1> DEFINE m == "master"
<1>0. /\ m \in Thread /\ "control" \in Thread \ {m}
      /\ pc \in [Thread -> Label] /\ idx \in [Thread -> Worker]
  BY DEF IInv, TypeOK, Thread
<1>1. \E here, after \in Label : Moves(m, here, after)
  BY DEF Master, OnList, StartThreads, StartWorkers, StartBuilder, StopBuilder, Delete,
         SetFlags, StopWorkers, StopThreads, Moves, Label
<1>2. pc'["control"] = pc["control"]
  BY <1>0, <1>1, MovesNoOther
<1>3. UNCHANGED <<pull_data_que, push_data_vec, sent, copied, ended>>
  BY DEF Master, OnList, StartBuilder, StopBuilder, Delete, SetFlags, builderVars, pipeVars
<1>4. Copying' /\ BatchLive' = BatchLive /\ Ending' = Ending
  BY <1>2, <1>3 DEF OrderInv, Copying, BatchLive, Ending, Flushing, At
<1>5. ASSUME NEW w \in Worker, Alone(w) PROVE EventsOrdered(w)'
  <2>0. EventsOrdered(w)
    BY <1>5 DEF OrderInv
  <2>1. CASE /\ \/ StartThreads(m, "threads", "workers")
                \/ StartWorkers(m, "workers", "start")
                \/ StopWorkers(m, "stop_workers", "stop_threads")
                \/ StopThreads(m, "stop_threads", "join_thread", "done")
             /\ UNCHANGED builderVars
    BY <1>0, <1>4, <1>5, <2>0, <2>1, ListKeepsOrder
  <2>2. CASE StartBuilder \/ StopBuilder \/ Delete
    <3>1. UNCHANGED <<workerVars, bundle>>
      BY <2>2 DEF StartBuilder, StopBuilder, Delete, SetFlags
    <3> QED BY <1>3, <1>4, <2>0, <3>1, OthersKeepOrder
  <2> QED BY <2>1, <2>2 DEF Master, OnList
<1> QED BY <1>4, <1>5 DEF OrderInv

LEMMA OrderInit == Init => OrderInv
<1> SUFFICES ASSUME Init PROVE OrderInv
  OBVIOUS
<1>1. Copying
  BY DEF Init, Copying
<1>2. ASSUME NEW w \in Worker, Alone(w) PROVE EventsOrdered(w)
  <2>1. captured[w] = <<>> /\ work[w] = "none" /\ data_queue[w] = <<>> /\ triggers = 0
    BY <1>2, AloneDumpsNothing DEF Init, WorkersInit, NewCaptured, OnEach
  <2>2. DeviceOrdered(w)
    BY <2>1 DEF DeviceOrdered, InProgress
  <2>3. DevicePast(w, 0) /\ Run(data_queue[w], w, 0, 0)
    BY <2>1, RunEmpty DEF DevicePast, InProgress
  <2>4. 0 \in 0..triggers
    BY <2>1
  <2>5. WorkerPast(w, 0)
    BY <2>3, <2>4 DEF WorkerPast
  <2>6. /\ bundle = <<>> /\ pull_data_que = <<>> /\ push_data_vec = <<>> /\ sent = <<>>
        /\ w \in Nat \ {0}
    BY DEF Init, Worker
  <2>7. BundlePast(w, 0)
    BY <2>4, <2>5, <2>6 DEF BundlePast
  <2>8. QueuedPast(pull_data_que, w, 0)
    BY <2>4, <2>6, <2>7, ColumnEmpty, RunEmpty DEF QueuedPast
  <2>9. BatchPast(w, 0)
    BY <2>4, <2>6, <2>8, ColumnEmpty, RunEmpty DEF BatchPast
  <2>10. SentPast(w)
    BY <2>4, <2>6, <2>9, ColumnEmpty, RunEmpty DEF SentPast
  <2> QED BY <2>2, <2>10 DEF EventsOrdered
<1> QED BY <1>1, <1>2 DEF OrderInv

LEMMA OrderStep == IInv /\ OrderInv /\ [Next]_vars => OrderInv'
<1> SUFFICES ASSUME IInv, OrderInv, [Next]_vars PROVE OrderInv'
  OBVIOUS
<1>0. triggers \in Nat /\ WorkersTypeOK
  BY DEF IInv, TypeOK, WorkersTypeOK
<1>1. ASSUME UNCHANGED <<threadVars, bundle, builderVars>>,
             triggers' \in Nat, triggers <= triggers',
             \A w \in Worker : Alone(w) /\ DeviceOrdered(w) =>
                /\ DeviceOrdered(w)'
                /\ \A n \in Nat : WorkerPast(w, n) => WorkerPast(w, n)'
      PROVE  OrderInv'
  <2>1. /\ UNCHANGED <<bundle, pull_data_que, push_data_vec, sent>>
        /\ Copying' /\ BatchLive' = BatchLive /\ Ending' = Ending
    BY <1>1 DEF OrderInv, Copying, BatchLive, Ending, Flushing, At, threadVars, builderVars
  <2>2. ASSUME NEW w \in Worker, Alone(w) PROVE EventsOrdered(w)'
    <3>1. EventsOrdered(w)
      BY <2>2 DEF OrderInv
    <3>2. DeviceOrdered(w)' /\ \A n \in Nat : WorkerPast(w, n) => WorkerPast(w, n)'
      BY <1>1, <2>2, <3>1 DEF EventsOrdered
    <3>3. SentPast(w)'
      BY <1>0, <1>1, <2>1, <3>1, <3>2, BundlesRest DEF EventsOrdered
    <3> QED BY <3>2, <3>3 DEF EventsOrdered
  <2> QED BY <2>1, <2>2 DEF OrderInv
<1>2. CASE BuilderLoop
  BY <1>2, BuilderKeepsOrder
<1>3. CASE ControlLoop
  BY <1>3, ControlKeepsOrder
<1>4. CASE Master
  BY <1>4, MasterKeepsOrder
<1>5. CASE WorkerThreads
  <2>1. PICK v \in Worker : WorkLoop(v) /\ UNCHANGED <<threadVars, bundle, builderVars>>
    BY <1>5 DEF WorkerThreads, WorkerStep
  <2>2. triggers' = triggers
    BY <2>1 DEF WorkLoop, Dump, Poll, Read, Finish, Push, Exit, deviceVars
  <2>3. triggers' \in Nat /\ triggers <= triggers'
    BY <1>0, <2>2
  <2> QED BY <1>0, <1>1, <2>1, <2>3, WorkLoopOrdered
<1>6. CASE FireTrigger
  <2>1. PICK S \in SUBSET Worker :
           Trigger(S) /\ UNCHANGED <<threadVars, bundle, builderVars>>
    BY <1>6 DEF FireTrigger, TriggerStep
  <2>2. triggers' \in Nat /\ triggers <= triggers'
    BY <1>0, <2>1 DEF Trigger
  <2> QED BY <1>0, <1>1, <2>1, <2>2, TriggerOrdered
<1>7. CASE UNCHANGED vars
  <2>1. UNCHANGED <<workerVars, threadVars, bundle, builderVars>>
    BY <1>7 DEF vars, listVars, workerVars, threadVars
  <2>2. UNCHANGED <<pull_data_que, push_data_vec, sent, copied, ended>>
    BY <2>1 DEF builderVars
  <2>3. Copying' /\ BatchLive' = BatchLive /\ Ending' = Ending
    BY <2>1, <2>2 DEF OrderInv, Copying, BatchLive, Ending, Flushing, At, threadVars
  <2>4. \A w \in Worker : Alone(w) => EventsOrdered(w)'
    BY <2>1, <2>2, <2>3, OthersKeepOrder DEF OrderInv
  <2> QED BY <2>3, <2>4 DEF OrderInv
<1> QED BY <1>2, <1>3, <1>4, <1>5, <1>6, <1>7 DEF Next

-----------------------------------------------------------------------------
(* What the invariant says of the stream.                                  *)

LEMMA TriggersOfWhole ==
    ASSUME NEW w \in Worker, NEW n
    PROVE  EventTriggers(Whole(w, n)) = {n}
<1>1. Whole(w, n) \ Uninitialised = {<<w, n>>}
  BY DEF Whole, Uninitialised, Worker
<1>2. <<w, n>>[2] = n
  OBVIOUS
<1>3. {p[2] : p \in {<<w, n>>}} = {<<w, n>>[2]}
  OBVIOUS
<1> QED BY <1>1, <1>2, <1>3 DEF EventTriggers

(* The events of a worker that is alone in what is sent.                   *)
LEMMA SentRuns ==
    ASSUME IInv, NEW w \in Worker, SentPast(w)
    PROVE  /\ \A i \in 1..Len(sent) :
                 \E n \in 1..triggers : sent[i][w] = Whole(w, n)
           /\ \A i, j \in 1..Len(sent) : \A m, n \in 1..triggers :
                 i < j /\ sent[i][w] = Whole(w, m) /\ sent[j][w] = Whole(w, n) => m < n
<1>0. sent \in Seq(Complete) /\ triggers \in Nat
  BY DEF IInv, BundlesComplete, TypeOK, WorkersTypeOK
<1> DEFINE s == Column(sent, w)
<1>1. s \in Seq(Event) /\ Len(s) = Len(sent)
  BY <1>0, ColumnType
<1>2. \A i \in 1..Len(sent) : s[i] = sent[i][w]
  BY DEF Column
<1>3. PICK k \in 0..triggers : Run(s, w, 0, k)
  BY DEF SentPast
<1> HIDE DEF s
<1>4. 0 \in Nat /\ k \in Nat /\ 0 <= 0 /\ k <= triggers
  BY <1>0
<1>5. Run(s, w, 0, triggers)
  BY <1>0, <1>1, <1>3, <1>4, RunWidens
<1>6. ASSUME NEW i \in 1..Len(sent) PROVE \E n \in 1..triggers : sent[i][w] = Whole(w, n)
  <2>1. In(s[i], w, 0, triggers)
    BY <1>1, <1>5 DEF Run
  <2> QED BY <1>2, <2>1 DEF In
<1>7. ASSUME NEW i \in 1..Len(sent), NEW j \in 1..Len(sent),
             NEW m \in 1..triggers, NEW n \in 1..triggers,
             i < j, sent[i][w] = Whole(w, m), sent[j][w] = Whole(w, n)
      PROVE  m < n
  <2>1. s[i] = Whole(w, m) /\ s[j] = Whole(w, n) /\ i \in 1..Len(s) /\ j \in 1..Len(s)
    BY <1>1, <1>2, <1>7
  <2> QED BY <1>5, <1>7, <2>1 DEF Run
<1> QED BY <1>6, <1>7

LEMMA StreamIsProper ==
    ASSUME IInv, OrderInv, \A w \in Worker : Alone(w)
    PROVE  /\ \A i \in DOMAIN sent : Stream!Complete(sent[i])
           /\ Stream!Ordered(sent)
<1>0. DOMAIN sent = 1..Len(sent)
  BY DEF IInv, BundlesComplete
<1>1. \A w \in Worker : SentPast(w)
  BY DEF OrderInv, EventsOrdered
<1>2. ASSUME NEW i \in 1..Len(sent), NEW w \in Worker
      PROVE  EventTriggers(sent[i][w]) # {}
  <2>1. PICK n \in 1..triggers : sent[i][w] = Whole(w, n)
    BY <1>1, SentRuns
  <2> QED BY <2>1, TriggersOfWhole
<1>3. ASSUME NEW i \in 1..Len(sent), NEW j \in 1..Len(sent), i < j, NEW w \in Worker,
             NEW m \in EventTriggers(sent[i][w]), NEW n \in EventTriggers(sent[j][w])
      PROVE  m < n
  <2>1. PICK k \in 1..triggers : sent[i][w] = Whole(w, k)
    BY <1>1, SentRuns
  <2>2. PICK l \in 1..triggers : sent[j][w] = Whole(w, l)
    BY <1>1, SentRuns
  <2>3. m = k /\ n = l
    BY <2>1, <2>2, TriggersOfWhole
  <2>4. k < l
    BY <1>1, <1>3, <2>1, <2>2, SentRuns
  <2> QED BY <2>3, <2>4
<1> QED BY <1>0, <1>2, <1>3 DEF Stream!Complete, Stream!Ordered, Stream!Later

(* Only the control thread sends, and only until it has ended the batch.   *)
LEMMA OnlyBatchesAreSent ==
    ASSUME IInv, [Next]_vars
    PROVE  \/ UNCHANGED <<sent, ended>>
           \/ ~ended /\ sent' = sent \o push_data_vec /\ ended' \in BOOLEAN
<1>1. CASE BuilderLoop
  BY <1>1, BuilderLeavesRest DEF batchVars
<1>2. CASE ControlLoop
  <2>1. CASE SendBatch
    BY <2>1 DEF SendBatch, IInv, EndsOnce, TypeOK, At
  <2>2. CASE SendLastBatch
    BY <2>2 DEF SendLastBatch, IInv, EndsOnce, TypeOK, At, batchVars
  <2>3. CASE ~SendBatch /\ ~SendLastBatch
    BY <1>2, <2>3 DEF ControlLoop, ControlOuter, ControlGo, ControlBatch, ControlQuit, Test,
           CopyBatch, EndRun, OnList, builderVars, pipeVars
  <2> QED BY <2>1, <2>2, <2>3
<1>3. CASE Master
  BY <1>3 DEF Master, StartBuilder, StopBuilder, Delete, SetFlags, OnList, builderVars, pipeVars
<1>4. CASE WorkerThreads \/ FireTrigger \/ UNCHANGED vars
  BY <1>4 DEF WorkerThreads, FireTrigger, vars, builderVars
<1> QED BY <1>1, <1>2, <1>3, <1>4 DEF Next

(* EventBuilder implements the stream it promises its writers, if no two   *)
(* workers share a class's static variables and no digitizer is sampled    *)
(* into while it is read: whatever a full pull queue or a flush drops, and *)
(* however the end of the run cuts into the builder's work, the writers    *)
(* get bundles with an event of every worker, each worker's in the order   *)
(* of its triggers and none twice, batch after batch until the EndOfBatch, *)
(* after which PushData is not called again.                               *)
THEOREM BuilderDeliversStream ==
    ASSUME \A w \in Worker : Alone(w)
    PROVE  Spec => DeliversStream
<1>1. Init => Stream!Init
  BY DEF Init, Stream!Init
<1>2. IInv /\ OrderInv /\ [Next]_vars => [Stream!Next]_<<sent, ended>>
  <2> SUFFICES ASSUME IInv, OrderInv, [Next]_vars, ~UNCHANGED <<sent, ended>>
               PROVE  Stream!Next
    OBVIOUS
  <2>1. ~ended /\ sent' = sent \o push_data_vec /\ ended' \in BOOLEAN
    BY OnlyBatchesAreSent
  <2>2. IInv' /\ OrderInv'
    BY IInvStep, OrderStep
  <2>3. (\A i \in DOMAIN sent : Stream!Complete(sent[i]))' /\ Stream!Ordered(sent)'
    BY <2>2, StreamIsProper, PTL
  <2>4. Len(sent) <= Len(sent') /\ sent = SubSeq(sent', 1, Len(sent))
    <3>1. sent \in Seq(Complete) /\ push_data_vec \in Seq(Complete)
      BY DEF IInv, BundlesComplete
    <3>2. ASSUME NEW s \in Seq(Complete), NEW t \in Seq(Complete)
          PROVE  Len(s) <= Len(s \o t) /\ s = SubSeq(s \o t, 1, Len(s))
      OBVIOUS
    <3> QED BY <2>1, <3>1, <3>2
  <2> QED BY <2>1, <2>3, <2>4 DEF Stream!Next
<1> QED BY <1>1, <1>2, IInvInit, IInvStep, OrderInit, OrderStep, PTL
        DEF Spec, DeliversStream, Stream!Spec

-----------------------------------------------------------------------------
(* Triggers further apart than an event takes.                             *)

(* The hypotheses, besides Spaced and Apart: no device holds more than one *)
(* event, and not every one shows an event before the first trigger.       *)
Unbuffered == \A w \in Worker : Device(w).depth = 1
SomeDoNotDump == \E w \in Worker : ~Device(w).dumps_first

(* Until the master starts the builder, it gathers nothing.                *)
Waiting ==
    pc["master"] \in {"threads", "workers", "start"} =>
        ~go_time /\ pc["builder"] \notin {"any", "wait", "all", "multi", "get", "push"}

(* Until the end of the run, all on its way to the control thread is of    *)
(* one trigger, and so is whatever is sent.                                *)
SyncInv ==
    /\ ~Ending => Together("builder") /\ AllOfOne(pull_data_que)
    /\ AllOfOne(push_data_vec) /\ AllOfOne(sent)
    /\ Waiting

(* The builder's steps.                                                    *)
LEMMA BuilderTogether ==
    ASSUME IInv, ~Ending, Together("builder"), BuilderLoop, Spaced
    PROVE  Together("builder")'
<1> DEFINE b == "builder"
<1>0. /\ ListTypeOK(Thread, Label) /\ b \in Thread /\ CountsEvents(b)
  BY ListPart DEF IInv, BuilderInformed, Informed, SeesEvents
<1>1. CASE BuilderOuter \/ BuilderGo \/ BuilderPush
  <2>1. /\ UNCHANGED workerVars /\ pc[b] # "flag"
        /\ \E label \in {"flush", "done", "any", "outer"} : Goto(b, label)
    BY <1>1 DEF BuilderOuter, BuilderGo, BuilderPush, Test, At
  <2> QED BY <1>0, <2>1, GotoTogether
<1>2. CASE BuilderWait
  <2>1. /\ UNCHANGED workerVars /\ pc[b] # "flag" /\ Goto(b, "all")
        /\ \A w \in Worker : Settled(w)
    BY <1>2 DEF BuilderWait, Test, At
  <2> QED BY <1>0, <2>1, GotoTogether
<1>3. CASE \/ OnList(AnyWorkersHaveEvent(b, "any", "wait", "check"))
           \/ OnList(AllWorkersHaveEvent(b, "all", "multi", "flush"))
           \/ OnList(AnyWorkersHaveMultiEvent(b, "multi", "flush", "get"))
  BY <1>0, <1>3, ChecksTogether DEF OnList
<1>4. CASE OnList(GetEventData(b, "get", "push"))
  BY <1>0, <1>4, GetTogether DEF OnList
<1>5. CASE BuilderFlush
  BY <1>0, <1>5, FlushTogether DEF BuilderFlush, OnList
<1> QED BY <1>1, <1>2, <1>3, <1>4, <1>5 DEF BuilderLoop, WorkersGotSyncEvent

(* The control thread only stops the workers, before it ends the run.      *)
LEMMA ControlTogether ==
    ASSUME IInv, ~Ending, Together("builder"), ControlLoop
    PROVE  Together("builder")'
<1> DEFINE c == "control"
<1>0. /\ ListTypeOK(Thread, Label) /\ "builder" \in Thread \ {c} /\ c \in Thread \ {"builder"}
      /\ pc \in [Thread -> Label] /\ idx \in [Thread -> Worker]
      /\ {"stop_workers", "last_copy"} \subseteq Label
  BY ListPart DEF IInv, TypeOK, Thread, Label
<1>1. CASE OnList(StopWorkers(c, "stop_workers", "last_copy"))
  BY <1>0, <1>1, StartStopTogether DEF OnList
<1>2. CASE ~OnList(StopWorkers(c, "stop_workers", "last_copy"))
  <2>1. ~OnList(FlushEventData(c, "last_flush", "last_flag", "zero"))
    BY DEF Ending, Flushing, OnList, FlushEventData, FlushQueue, FlushFlag
  <2>2. UNCHANGED <<workerVars, bundle>>
    BY <1>2, <2>1 DEF ControlLoop, ControlOuter, ControlGo, ControlBatch, ControlQuit,
           Test, CopyBatch, SendBatch, SendLastBatch, EndRun
  <2>3. \E here, after \in Label : Moves(c, here, after) \/ (pc' = pc /\ idx' = idx)
    BY <1>2, <2>1 DEF ControlLoop, ControlOuter, ControlGo, ControlBatch, ControlQuit, Test,
           CopyBatch, SendBatch, SendLastBatch, EndRun, threadVars, Label, Moves
  <2>4. pc'["builder"] = pc["builder"] /\ idx'["builder"] = idx["builder"]
    BY <1>0, <2>3, MovesNoOther
  <2> QED BY <1>0, <2>2, <2>4, ElsewhereTogether
<1> QED BY <1>1, <1>2

(* The master starts the workers before the builder.                       *)
LEMMA MasterTogether ==
    ASSUME IInv, Waiting, Together("builder"), Master
    PROVE  Together("builder")'
<1> DEFINE m == "master"
<1>0. /\ ListTypeOK(Thread, Label) /\ "builder" \in Thread \ {m} /\ m \in Thread \ {"builder"}
      /\ pc \in [Thread -> Label] /\ idx \in [Thread -> Worker]
      /\ {"threads", "workers", "start", "stop_workers", "stop_threads", "join_thread",
          "done"} \subseteq Label
  BY ListPart DEF IInv, TypeOK, Thread, Label
<1>1. \E here, after \in Label : Moves(m, here, after)
  BY DEF Master, OnList, StartThreads, StartWorkers, StartBuilder, StopBuilder, Delete,
         SetFlags, StopWorkers, StopThreads, Moves, Label
<1>2. pc'["builder"] = pc["builder"] /\ idx'["builder"] = idx["builder"]
  BY <1>0, <1>1, MovesNoOther
<1>3. CASE StartThreads(m, "threads", "workers") \/ StartWorkers(m, "workers", "start")
  <2>1. pc["builder"] \notin {"all", "multi", "get", "push"}
    BY <1>3 DEF Waiting, StartThreads, StartWorkers, At
  <2>2. WorkersWait("builder")'
    BY <1>2, <2>1 DEF WorkersWait
  <2> QED BY <1>0, <1>3, <2>2, StartStopTogether
<1>4. CASE \/ StopWorkers(m, "stop_workers", "stop_threads")
           \/ StopThreads(m, "stop_threads", "join_thread", "done")
  BY <1>0, <1>4, StartStopTogether
<1>5. CASE StartBuilder \/ StopBuilder \/ Delete
  <2>1. UNCHANGED <<workerVars, bundle>>
    BY <1>5 DEF StartBuilder, StopBuilder, Delete, SetFlags
  <2> QED BY <1>0, <1>2, <2>1, ElsewhereTogether
<1> QED BY <1>3, <1>4, <1>5 DEF Master, OnList

(* The master starts the builder after the workers, and once.              *)
LEMMA WaitingStep ==
    ASSUME IInv, Waiting, [Next]_vars
    PROVE  Waiting'
<1> DEFINE b == "builder"  m == "master"
           early == {"threads", "workers", "start"}
           late == {"any", "wait", "all", "multi", "get", "push"}
<1>0. /\ {b, m} \subseteq Thread /\ pc \in [Thread -> Label] /\ idx \in [Thread -> Worker]
  BY DEF IInv, TypeOK, Thread
<1>1. CASE BuilderLoop
  <2>1. UNCHANGED go_time /\ pc'[m] = pc[m]
    BY <1>1, BuilderLeavesRest DEF flagVars
  <2>2. ~go_time /\ pc[b] \notin late => pc'[b] \notin late
    <3> SUFFICES ASSUME ~go_time, pc[b] \notin late
                 PROVE  pc'[b] \in {"flush", "done", "outer", "flag", "check"}
      OBVIOUS
    <3>1. BuilderOuter \/ BuilderGo \/ BuilderFlush
      BY <1>1 DEF BuilderLoop, WorkersGotSyncEvent, OnList, BuilderWait, BuilderPush, Test,
             AnyWorkersHaveEvent, AllWorkersHaveEvent, AnyWorkersHaveMultiEvent,
             GetEventData, At
    <3> QED BY <1>0, <3>1 DEF BuilderOuter, BuilderGo, BuilderFlush, OnList, FlushEventData,
               FlushQueue, FlushFlag, NextWorker, Test, Goto
  <2> QED BY <2>1, <2>2 DEF Waiting
<1>2. CASE ControlLoop
  <2>1. go_time' => go_time
    BY <1>2 DEF ControlLoop, ControlOuter, ControlGo, ControlBatch, ControlQuit, Test,
           CopyBatch, SendBatch, SendLastBatch, EndRun, OnList, builderVars, flagVars
  <2>2. \E here, after \in Label : Moves("control", here, after) \/ (pc' = pc /\ idx' = idx)
    BY <1>2 DEF ControlLoop, ControlOuter, ControlGo, ControlBatch, ControlQuit, Test,
           CopyBatch, SendBatch, SendLastBatch, EndRun, OnList, StopWorkers, FlushEventData,
           FlushQueue, FlushFlag, threadVars, Label, Moves
  <2>3. {b, m} \subseteq Thread \ {"control"} /\ "control" \in Thread
    BY DEF Thread
  <2>4. pc'[b] = pc[b] /\ pc'[m] = pc[m]
    BY <1>0, <2>2, <2>3, MovesNoOther
  <2> QED BY <2>1, <2>4 DEF Waiting
<1>3. CASE Master
  <2>1. /\ pc'[m] \in early => pc[m] \in early /\ UNCHANGED go_time
        /\ pc'[b] = pc[b]
    <3>1. CASE StartBuilder \/ StopBuilder \/ Delete
      BY <1>0, <3>1 DEF StartBuilder, StopBuilder, Delete, SetFlags, Goto, At
    <3>2. CASE \/ OnList(StartThreads(m, "threads", "workers"))
               \/ OnList(StartWorkers(m, "workers", "start"))
      BY <1>0, <3>2 DEF OnList, StartThreads, StartWorkers, NextWorker, Goto, At, builderVars
    <3>3. CASE \/ OnList(StopWorkers(m, "stop_workers", "stop_threads"))
               \/ OnList(StopThreads(m, "stop_threads", "join_thread", "done"))
      BY <1>0, <3>3 DEF OnList, StopWorkers, StopThreads, NextWorker, Goto, At
    <3> QED BY <1>3, <3>1, <3>2, <3>3 DEF Master
  <2> QED BY <2>1 DEF Waiting
<1>4. CASE WorkerThreads \/ FireTrigger \/ UNCHANGED vars
  <2>1. UNCHANGED <<pc, go_time>>
    BY <1>4 DEF WorkerThreads, FireTrigger, WorkerStep, TriggerStep, threadVars, vars,
           listVars, builderVars
  <2> QED BY <2>1 DEF Waiting
<1> QED BY <1>1, <1>2, <1>3, <1>4 DEF Next

(* The end of the run, once begun, is not taken back.                      *)
LEMMA EndingStays ==
    ASSUME IInv, [Next]_vars
    PROVE  Ending => Ending'
<1>1. CASE BuilderLoop
  BY <1>1, BuilderLeavesRest, BuilderKeepsEnd DEF IInv, batchVars
<1>2. CASE ControlLoop
  BY <1>2, ControlEnds
<1>3. CASE Master
  <2>1. \E here, after \in Label : Moves("master", here, after)
    BY <1>3 DEF Master, OnList, StartThreads, StartWorkers, StartBuilder, StopBuilder, Delete,
           SetFlags, StopWorkers, StopThreads, Moves, Label
  <2>2. /\ "master" \in Thread /\ "control" \in Thread \ {"master"}
        /\ pc \in [Thread -> Label] /\ idx \in [Thread -> Worker]
    BY DEF IInv, TypeOK, Thread
  <2>3. pc'["control"] = pc["control"]
    BY <2>1, <2>2, MovesNoOther
  <2>4. UNCHANGED ended
    BY <1>3 DEF Master, OnList, StartBuilder, StopBuilder, Delete, SetFlags, builderVars,
           pipeVars
  <2> QED BY <2>3, <2>4 DEF Ending, Flushing, At
<1>4. CASE WorkerThreads \/ FireTrigger \/ UNCHANGED vars
  <2>1. UNCHANGED <<pc, ended>>
    BY <1>4 DEF WorkerThreads, FireTrigger, WorkerStep, TriggerStep, threadVars, vars,
           listVars, builderVars
  <2> QED BY <2>1 DEF Ending, Flushing, At
<1> QED BY <1>1, <1>2, <1>3, <1>4 DEF Next

(* CopyBatch moves bundles of one trigger each.                            *)
LEMMA CopyOfOne ==
    ASSUME IInv, SyncInv, ~Ending, NEW here, NEW after, CopyBatch(here, after)
    PROVE  AllOfOne(pull_data_que') /\ AllOfOne(push_data_vec')
<1> DEFINE batch == IF copied = 0 THEN <<>> ELSE push_data_vec
<1>1. /\ batch \in Seq(Bundle) /\ AllOfOne(batch)
      /\ pull_data_que \in Seq(Bundle) /\ AllOfOne(pull_data_que)
  <2>1. AllOfOne(<<>>) /\ <<>> \in Seq(Bundle)
    BY DEF AllOfOne
  <2> QED BY <2>1 DEF IInv, TypeOK, SyncInv
<1>2. \/ pull_data_que = <<>> /\ push_data_vec' = batch /\ UNCHANGED pull_data_que
      \/ /\ pull_data_que # <<>>
         /\ push_data_vec' = Append(batch, Head(pull_data_que))
         /\ pull_data_que' = Tail(pull_data_que)
  BY DEF CopyBatch
<1> HIDE DEF batch
<1>3. CASE pull_data_que = <<>>
  BY <1>1, <1>2, <1>3
<1>4. CASE pull_data_que # <<>>
  <2>1. /\ Head(pull_data_que) \in Bundle /\ OfOneTrigger(Head(pull_data_que))
        /\ AllOfOne(Tail(pull_data_que))
    BY <1>1, <1>4, OfOneSequences
  <2>2. AllOfOne(Append(batch, Head(pull_data_que)))
    BY <1>1, <2>1, OfOneSequences
  <2> QED BY <1>2, <1>4, <2>1, <2>2
<1> QED BY <1>3, <1>4

(* What each step leaves queued, in the batch and sent is of one trigger.  *)
LEMMA BundlesOfOne ==
    ASSUME IInv, SyncInv, SomeDoNotDump, [Next]_vars
    PROVE  /\ ~Ending' => AllOfOne(pull_data_que')
           /\ AllOfOne(push_data_vec') /\ AllOfOne(sent')
<1>0. /\ ~Ending' => ~Ending
      /\ pull_data_que \in Seq(Bundle) /\ bundle \in Bundle
      /\ push_data_vec \in Seq(Bundle) /\ sent \in Seq(Bundle)
      /\ AllOfOne(push_data_vec) /\ AllOfOne(sent)
      /\ ~Ending => AllOfOne(pull_data_que)
  BY EndingStays DEF IInv, TypeOK, SyncInv
<1>1. CASE BuilderPush
  <2>1. UNCHANGED <<push_data_vec, sent>>
    BY <1>1 DEF BuilderPush, batchVars
  <2>2. ASSUME ~Ending PROVE AllOfOne(pull_data_que')
    <3>1. OfOneTrigger(bundle)
      BY <1>1, <2>2, PushedOfOne DEF BuilderPush, SyncInv, IInv, TypeOK, SomeDoNotDump
    <3>2. AllOfOne(Append(pull_data_que, bundle))
      BY <1>0, <2>2, <3>1, OfOneSequences
    <3>3. pull_data_que' \in {pull_data_que, Append(pull_data_que, bundle)}
      BY <1>1 DEF BuilderPush
    <3> QED BY <1>0, <2>2, <3>2, <3>3
  <2> QED BY <1>0, <2>1, <2>2
<1>2. CASE CopyBatch("copy", "send") \/ CopyBatch("last_copy", "last_flush")
  <2>1. ~Ending
    BY <1>2 DEF CopyBatch, IInv, EndsOnce, Ending, Flushing, At
  <2>2. UNCHANGED sent
    BY <1>2 DEF CopyBatch
  <2> QED BY <1>0, <1>2, <2>1, <2>2, CopyOfOne
<1>3. CASE SendBatch \/ SendLastBatch
  <2>1. /\ UNCHANGED push_data_vec
        /\ sent' \in {sent, sent \o push_data_vec}
        /\ pull_data_que' \in {pull_data_que, <<>>}
    BY <1>3 DEF SendBatch, SendLastBatch, batchVars
  <2>2. AllOfOne(sent \o push_data_vec)
    BY <1>0, OfOneSequences
  <2>3. AllOfOne(<<>>)
    BY DEF AllOfOne
  <2> QED BY <1>0, <2>1, <2>2, <2>3
<1>4. CASE UNCHANGED <<pull_data_que, push_data_vec, sent>>
  BY <1>0, <1>4
<1>5. \/ BuilderPush
      \/ CopyBatch("copy", "send") \/ CopyBatch("last_copy", "last_flush")
      \/ SendBatch \/ SendLastBatch
      \/ UNCHANGED <<pull_data_que, push_data_vec, sent>>
  <2>1. CASE BuilderLoop
    BY <2>1 DEF BuilderLoop, BuilderOuter, BuilderGo, WorkersGotSyncEvent, BuilderWait,
           BuilderFlush, Test, OnList, builderVars
  <2>2. CASE ControlLoop
    BY <2>2 DEF ControlLoop, ControlOuter, ControlGo, ControlBatch, ControlQuit, Test,
           EndRun, OnList, builderVars, pipeVars
  <2>3. CASE Master
    BY <2>3 DEF Master, StartBuilder, StopBuilder, Delete, SetFlags, OnList, builderVars,
           pipeVars
  <2>4. CASE WorkerThreads \/ FireTrigger \/ UNCHANGED vars
    BY <2>4 DEF WorkerThreads, FireTrigger, vars, builderVars
  <2> QED BY <2>1, <2>2, <2>3, <2>4 DEF Next
<1> QED BY <1>1, <1>2, <1>3, <1>4, <1>5

(* Nothing but a trigger counts triggers.                                  *)
LEMMA OnlyTriggersCount ==
    ASSUME TypeOK, [Next]_vars
    PROVE  triggers' \in Nat /\ triggers <= triggers'
<1>0. triggers \in Nat
  BY DEF TypeOK, WorkersTypeOK
<1>1. CASE BuilderLoop
  <2>1. UNCHANGED triggers
    BY <1>1 DEF BuilderLoop, BuilderOuter, BuilderGo, WorkersGotSyncEvent, BuilderWait,
           BuilderPush, BuilderFlush, Test, OnList,
           AnyWorkersHaveEvent, AllWorkersHaveEvent, AnyWorkersHaveMultiEvent,
           GetEventData, FlushEventData, FlushQueue, FlushFlag, PopEvent, ClearQueue,
           ClearFlag, workerVars, deviceVars
  <2> QED BY <1>0, <2>1
<1>2. CASE ControlLoop \/ Master
  <2>1. UNCHANGED triggers
    BY <1>2 DEF ControlLoop, ControlOuter, ControlGo, ControlBatch, ControlQuit, Test,
           CopyBatch, SendBatch, SendLastBatch, EndRun, OnList, Master, StartBuilder,
           StopBuilder, Delete, SetFlags, StartThreads, StartWorkers,
           StopWorkers, StopThreads, FlushEventData, FlushQueue,
           FlushFlag, StartThread, SetGoTime, AskToStop, ClearQueue, ClearFlag,
           workerVars, deviceVars
  <2> QED BY <1>0, <2>1
<1>3. CASE WorkerThreads
  <2>1. UNCHANGED triggers
    BY <1>3 DEF WorkerThreads, WorkerStep, WorkLoop, Dump, Poll, Read, Finish, Push, Exit,
           deviceVars
  <2> QED BY <1>0, <2>1
<1>4. CASE FireTrigger
  <2>1. triggers' = triggers + 1
    BY <1>4 DEF FireTrigger, TriggerStep, Trigger
  <2> QED BY <1>0, <2>1
<1>5. CASE UNCHANGED vars
  BY <1>0, <1>5 DEF vars, listVars
<1> QED BY <1>1, <1>2, <1>3, <1>4, <1>5 DEF Next

(* Nothing is read, shown or queued by the constructed builder.            *)
LEMMA SyncInit == Init => SyncInv
<1> SUFFICES ASSUME Init PROVE SyncInv
  OBVIOUS
<1>1. pc["builder"] = "outer" /\ ~go_time
  BY DEF Init, Thread
<1>2. /\ \A w \in Worker : /\ work[w] = "none" /\ ~has_event[w]
                           /\ captured[w] \in {<<>>, <<0>>}
      /\ \A w \in Worker : captured[w] # <<>> => Device(w).dumps_first
      /\ triggers = 0
  BY DEF Init, WorkersInit, OnEach, NewCaptured
<1>3. AllFresh
  BY <1>2 DEF AllFresh, Fresh, InProgress, Begun
<1>4. WorkersWait("builder") /\ FlagsNew("builder") /\ GathersNew("builder")
  BY <1>1, <1>2 DEF WorkersWait, FlagsNew, GathersNew
<1>5. AllOfOne(pull_data_que) /\ AllOfOne(push_data_vec) /\ AllOfOne(sent)
  BY DEF Init, AllOfOne
<1>6. Waiting
  BY <1>1 DEF Waiting
<1> QED BY <1>3, <1>4, <1>5, <1>6 DEF Together, SyncInv

(* Each step keeps it.                                                     *)
LEMMA SyncStep ==
    ASSUME Spaced, Apart, Unbuffered, SomeDoNotDump
    PROVE  IInv /\ SyncInv /\ [Next]_vars => SyncInv'
<1> SUFFICES ASSUME IInv, SyncInv, [Next]_vars PROVE SyncInv'
  OBVIOUS
<1>0. /\ ListTypeOK(Thread, Label) /\ "builder" \in Thread
      /\ triggers \in Nat /\ triggers' \in Nat /\ triggers <= triggers'
      /\ WorkersTypeOK
  BY ListPart, OnlyTriggersCount DEF IInv, TypeOK, WorkersTypeOK
<1>1. ASSUME ~Ending' PROVE Together("builder")'
  <2>0. ~Ending /\ Together("builder") /\ Waiting
    BY <1>1, EndingStays DEF SyncInv
  <2>1. CASE BuilderLoop
    BY <2>0, <2>1, BuilderTogether
  <2>2. CASE ControlLoop
    BY <2>0, <2>2, ControlTogether
  <2>3. CASE Master
    BY <2>0, <2>3, MasterTogether
  <2>4. CASE WorkerThreads
    BY <1>0, <2>0, <2>4, WorkerKeepsTogether DEF WorkerThreads
  <2>5. CASE FireTrigger
    <3>1. Quiet /\ TriggerStep(Worker)
      BY <2>5 DEF FireTrigger
    <3>2. \A w \in Worker : captured[w] = <<>>
      <4> SUFFICES ASSUME NEW w \in Worker, captured[w] = <<triggers>> PROVE FALSE
        BY <2>0 DEF Together, AllFresh, Fresh
      <4>1. Len(captured[w]) < 1
        BY <3>1 DEF Quiet, Ready, Unbuffered
      <4> QED BY <1>0, <4>1
    <3>3. /\ \A w \in Worker : Settled(w) /\ ~has_event[w]
          /\ pc["builder"] \notin {"all", "multi", "get", "push"}
      BY <3>1 DEF Quiet
    <3> QED BY <1>0, <2>0, <3>1, <3>2, <3>3, TriggerKeepsTogether
  <2>6. CASE UNCHANGED vars
    BY <1>0, <2>0, <2>6, ElsewhereTogether DEF vars, listVars, workerVars
  <2> QED BY <2>1, <2>2, <2>3, <2>4, <2>5, <2>6 DEF Next
<1>2. Waiting'
  BY WaitingStep DEF SyncInv
<1>3. /\ ~Ending' => AllOfOne(pull_data_que')
      /\ AllOfOne(push_data_vec') /\ AllOfOne(sent')
  BY BundlesOfOne
<1>4. /\ ~Ending' => AllOfOne(pull_data_que)'
      /\ AllOfOne(push_data_vec)' /\ AllOfOne(sent)'
  <2>1. \A s : AllOfOne(s) => \A i \in DOMAIN s :
           \E n \in 1..triggers' : \A w \in Worker : s[i][w] = Whole(w, n)
    BY <1>0, OfOneLater DEF AllOfOne
  <2> QED BY <1>3, <2>1 DEF AllOfOne, OfOneTrigger, Whole
<1> QED BY <1>1, <1>2, <1>4 DEF SyncInv

(* Triggers further apart than an event takes, read by workers that share  *)
(* no static variables from devices that hold one event each, are built    *)
(* into bundles in step: whatever the builder's flushes drop, whatever is  *)
(* triggered before the run is started, and although the end of the run    *)
(* flushes the queues while the builder gathers, every bundle the writers  *)
(* are given has the whole event of one trigger from each worker.          *)
THEOREM BuilderSynchronized ==
    ASSUME Spaced, Apart, Unbuffered, SomeDoNotDump
    PROVE  Spec => []Synchronized
<1>1. IInv /\ SyncInv /\ [Next]_vars => SyncInv'
  BY SyncStep
<1>2. SyncInv => Synchronized
  BY DEF SyncInv, Synchronized, AllOfOne, OfOneTrigger
<1> QED BY <1>1, <1>2, IInvInit, IInvStep, SyncInit, PTL DEF Spec
=============================================================================
