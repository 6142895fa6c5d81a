----------------------- MODULE EventManagerTrgSeqProofs -----------------------
(***************************************************************************)
(* Types hold of EventManagerTrgSeq for any number of rounds and workers;  *)
(* BuilderLoop reads the probe of a round out of a bundle, so this needs   *)
(* that every bundle queued has an entry of each worker.  No sequence      *)
(* begins without a start trigger, or a flag that nobody initialised.      *)
(*                                                                         *)
(* If the rounds are further apart than what they wait for, and no run is  *)
(* paused or ended in a sequence, the events packed are right until a      *)
(* sequence is spoilt at its beginning: the flags are one token that       *)
(* TriggerLoop and BuilderLoop pass to and fro, all that the workers hold  *)
(* is of the last trigger, and the one bundle that RunLoop queues of it is *)
(* taken before the next.                                                  *)
(***************************************************************************)
EXTENDS EventManagerTrgSeq, WorkerOrderProofs

(* The types, by what they are about.                                      *)
FlagsOK ==
    /\ go_time \in BOOLEAN /\ thread_live \in BOOLEAN /\ event_flag \in BOOLEAN
    /\ got_software_trg \in BOOLEAN /\ got_start_trg \in BOOLEAN
    /\ got_round_data \in BOOLEAN /\ builder_has_finished \in BOOLEAN
    /\ sequence_in_progress \in BOOLEAN /\ mux_round_configured \in BOOLEAN

CountersOK ==
    /\ round \in 1..(NRounds + 1) /\ mux \in Round /\ seq_index \in Nat
    /\ runs \in Nat /\ starts \in Nat /\ sequences \in Nat
    /\ aim \in Seq(Nat \X Round)

EventsOK ==
    /\ data \in Seq(Bundle) /\ probes \in Packed
    /\ run_queue \in Seq(Packed) /\ packed \in Seq(Packed)

LEMMA TypeParts ==
    /\ StateOK <=> ListTypeOK(Thread, Label) /\ FlagsOK /\ CountersOK /\ EventsOK
    /\ StateOK' <=> (ListTypeOK(Thread, Label) /\ FlagsOK /\ CountersOK /\ EventsOK)'
<1>1. StateOK <=> ListTypeOK(Thread, Label) /\ FlagsOK /\ CountersOK /\ EventsOK
  <2>1. (\A flag \in {go_time, thread_live, event_flag, got_software_trg, got_start_trg,
                      got_round_data, builder_has_finished, sequence_in_progress,
                      mux_round_configured} : flag \in BOOLEAN) <=> FlagsOK
    BY Zenon DEF FlagsOK
  <2>2. {runs, starts, sequences} \subseteq Nat
           <=> runs \in Nat /\ starts \in Nat /\ sequences \in Nat
    OBVIOUS
  <2> QED BY <2>1, <2>2 DEF StateOK, ListTypeOK, CountersOK, EventsOK, Bundle
<1> QED BY <1>1, PTL

-----------------------------------------------------------------------------
(* The inductive invariant of the types.                                   *)

Full == {b \in Bundle : Len(b) = NWorkers}

(* TriggerLoop is in a round only if trg_seq_ has it.                      *)
InRange == pc["trigger"] \in {"reset", "set_mux", "fire", "configured", "await"}
               => round \in Round

(* Between runs, the loops have ended.                                     *)
IdleMeansDone == At("main", "idle") => \A t \in Loops : At(t, "done")

TypeInv == /\ StateOK /\ CountsEvents("run") /\ data \in Seq(Full)
           /\ InRange /\ IdleMeansDone

LEMMA Threads == /\ {"run", "trigger", "builder", "starter"} = Loops
                 /\ "main" \in Thread \ Loops /\ Loops \subseteq Thread
BY DEF Thread, Loops

LEMMA TypeInit == Init => TypeInv
<1> SUFFICES ASSUME Init PROVE TypeInv
  OBVIOUS
<1>1. captured \in [Worker -> Seq(Nat)]
  BY DEF Init, WorkersInit, NewCaptured
<1>2. static_bundle \in [Kinds -> [1..2 -> Event]]
  <2>1. <<{}, {}>> \in [1..2 -> Event]
    BY DEF Event
  <2> QED BY <2>1 DEF Init, WorkersInit
<1>3. WorkersTypeOK
  BY <1>1, <1>2 DEF Init, WorkersInit, WorkersTypeOK, OnEach, NewAcquiring
<1>4. pc \in [Thread -> Label] /\ idx \in [Thread -> Worker]
  BY WorkersAssumption DEF Init, Thread, Label, Worker
<1>5. ListTypeOK(Thread, Label)
  BY <1>3, <1>4 DEF Init, ListTypeOK
<1>6. FlagsOK
  BY DEF Init, FlagsOK, Initially
<1>7. CountersOK
  BY EventManagerTrgSeqAssumption DEF Init, CountersOK, Round
<1>8. EventsOK /\ data \in Seq(Full)
  <2>1. {} \in Event
    BY DEF Event
  <2> QED BY <2>1 DEF Init, EventsOK, Packed
<1>9. CountsEvents("run") /\ InRange /\ IdleMeansDone
  BY Threads DEF Init, CountsEvents, InRange, IdleMeansDone, At
<1> QED BY <1>5, <1>6, <1>7, <1>8, <1>9, TypeParts DEF TypeInv

-----------------------------------------------------------------------------
(* A step of one of the loops moves that loop only.                        *)
LEMMA LoopMoves ==
    ASSUME TypeInv, NEW t \in Loops, ~At(t, "done"),
           NEW here \in Label, NEW after \in Label, Moves(t, here, after)
    PROVE  /\ IdleMeansDone'
           /\ \A u \in Thread \ {t} : pc'[u] = pc[u] /\ idx'[u] = idx[u]
<1>1. \A u \in Thread \ {t} : pc'[u] = pc[u] /\ idx'[u] = idx[u]
  BY Threads, MovesNoOther DEF TypeInv, StateOK
<1>2. IdleMeansDone'
  BY <1>1, Threads DEF TypeInv, IdleMeansDone, At
<1> QED BY <1>1, <1>2

(* So does a jump, which leaves the list's types alone.                    *)
LEMMA LoopJumps ==
    ASSUME TypeInv, NEW t \in Loops, ~At(t, "done"), NEW label \in Label,
           Goto(t, label), UNCHANGED <<workerVars, bundle>>
    PROVE  /\ IdleMeansDone' /\ ListTypeOK(Thread, Label)' /\ pc'[t] = label
           /\ \A u \in Thread \ {t} : pc'[u] = pc[u] /\ idx'[u] = idx[u]
<1>1. Moves(t, label, label)
  BY DEF Moves
<1>2. ListTypeOK(Thread, Label) /\ t \in Thread
  BY TypeParts, Threads DEF TypeInv
<1>3. ListTypeOK(Thread, Label)'
  BY <1>2, GotoKeepsType DEF ListTypeOK
<1>4. pc'[t] = label
  BY <1>2 DEF Goto, ListTypeOK
<1> QED BY <1>1, <1>3, <1>4, LoopMoves

(* What RunLoop holds is its own.                                          *)
LEMMA OthersKeepCount ==
    ASSUME CountsEvents("run"), pc'["run"] = pc["run"], idx'["run"] = idx["run"],
           bundle' = bundle
    PROVE  CountsEvents("run")'
BY DEF CountsEvents, At

-----------------------------------------------------------------------------
(* RunLoop's steps.                                                        *)
LEMMA RunLoopMoves ==
    ASSUME RunLoop
    PROVE  ~At("run", "done") /\ \E here, after \in Label : Moves("run", here, after)
<1> DEFINE r == "run"
<1>0. {"outer", "check", "any", "wait", "all", "multi", "get", "push", "flush", "flag",
       "done"} \subseteq Label
  BY DEF Label
<1>1. ~At(r, "done") /\ \E here, after \in Label : Moves(r, here, after)
  <2>1. CASE \/ Test(r, "outer", thread_live, "flush", "done") \/ RunWait \/ RunPush
             \/ Test(r, "check", go_time, "any", "outer")
    BY <1>0, <2>1 DEF Test, RunWait, RunPush, At, Moves
  <2>2. CASE \/ AnyWorkersHaveEvent(r, "any", "wait", "check")
             \/ AllWorkersHaveEvent(r, "all", "multi", "flush")
             \/ AnyWorkersHaveMultiEvent(r, "multi", "flush", "get")
             \/ GetEventData(r, "get", "push")
             \/ FlushEventData(r, "flush", "flag", "check")
    BY <1>0, <2>2 DEF AnyWorkersHaveEvent, AllWorkersHaveEvent, AnyWorkersHaveMultiEvent,
           GetEventData, FlushEventData, FlushQueue, FlushFlag, At, Moves
  <2> QED BY <2>1, <2>2 DEF RunLoop, OnList
<1> QED BY <1>1

(* RunLoop queues bundles with an entry of each worker.                    *)
LEMMA RunLoopType == ASSUME TypeInv, RunLoop PROVE TypeInv'
<1> DEFINE r == "run"
<1>0. /\ ListTypeOK(Thread, Label) /\ FlagsOK /\ CountersOK /\ EventsOK
      /\ r \in Loops /\ r \in Thread /\ CountsEvents(r) /\ data \in Seq(Full)
      /\ "trigger" \in Thread \ {r}
      /\ {"outer", "check", "any", "wait", "all", "multi", "get", "push",
          "flush", "flag", "done"} \subseteq Label
  BY TypeParts, Threads DEF TypeInv, Label
<1>1. ~At(r, "done") /\ \E here, after \in Label : Moves(r, here, after)
  BY RunLoopMoves
<1>2. /\ IdleMeansDone'
      /\ pc'["trigger"] = pc["trigger"]
  BY <1>0, <1>1, LoopMoves
<1>3. UNCHANGED <<runVars, startVars, flagVars, roundVars, packVars, outVars>>
  BY DEF RunLoop, RunWait, RunPush, Test, OnList, managerVars
<1>4. FlagsOK' /\ CountersOK' /\ InRange'
  BY <1>0, <1>2, <1>3 DEF FlagsOK, CountersOK, TypeInv, InRange, runVars, startVars,
         flagVars, roundVars, packVars, outVars
<1>5. ListTypeOK(Thread, Label)' /\ CountsEvents(r)' /\ data' \in Seq(Full)
  <2>1. CASE \/ Test(r, "outer", thread_live, "flush", "done")
             \/ Test(r, "check", go_time, "any", "outer") \/ RunWait
    <3>1. \E label \in {"flush", "done", "any", "outer", "all"} : Goto(r, label)
      BY <2>1 DEF Test, RunWait
    <3>2. UNCHANGED <<workerVars, bundle, data>> /\ pc[r] \in {"outer", "check", "wait"}
      BY <2>1 DEF Test, RunWait, At, managerVars
    <3>p. PICK label \in {"flush", "done", "any", "outer", "all"} : Goto(r, label)
      BY <3>1
    <3>3. ListTypeOK(Thread, Label)' /\ pc'[r] = label
      BY <1>0, <1>1, <3>p, <3>2, LoopJumps
    <3>4. CountsEvents(r)'
      BY <1>0, <3>2, <3>3 DEF CountsEvents, At
    <3> QED BY <1>0, <3>2, <3>3, <3>4
  <2>2. CASE RunPush
    <3>1. /\ pc[r] = "push" /\ Goto(r, "flush") /\ UNCHANGED workerVars /\ bundle' = <<>>
          /\ data' \in {data, Append(data, bundle)}
      BY <2>2 DEF RunPush, At
    <3>2. bundle' \in Seq(Event \cup {Uninitialised})
      BY <3>1
    <3>3. ListTypeOK(Thread, Label)'
      BY <1>0, <3>1, <3>2, GotoKeepsType
    <3>4. CountsEvents(r)'
      BY <1>0, <3>1 DEF CountsEvents, At, Goto, ListTypeOK
    <3>5. bundle \in Full
      BY <1>0, <3>1 DEF CountsEvents, At, Full, Bundle, ListTypeOK
    <3>6. Append(data, bundle) \in Seq(Full)
      BY <1>0, <3>5
    <3> QED BY <1>0, <3>1, <3>3, <3>4, <3>6
  <2>3. CASE /\ \/ AnyWorkersHaveEvent(r, "any", "wait", "check")
                \/ AllWorkersHaveEvent(r, "all", "multi", "flush")
                \/ AnyWorkersHaveMultiEvent(r, "multi", "flush", "get")
                \/ GetEventData(r, "get", "push")
                \/ FlushEventData(r, "flush", "flag", "check")
             /\ UNCHANGED managerVars
    <3>1. ListTypeOK(Thread, Label)'
      BY <1>0, <2>3, ChecksType, GetEventDataType, FlushEventDataKeepsType
    <3>2. CountsEvents(r)'
      BY <1>0, <2>3, ListOpsCount
    <3> QED BY <1>0, <2>3, <3>1, <3>2 DEF managerVars
  <2> QED BY <2>1, <2>2, <2>3 DEF RunLoop, OnList
<1>6. EventsOK'
  <2>1. data' \in Seq(Bundle)
    BY <1>5 DEF Full
  <2> QED BY <1>0, <1>3, <2>1 DEF EventsOK, packVars, outVars
<1> QED BY <1>2, <1>4, <1>5, <1>6, TypeParts DEF TypeInv

-----------------------------------------------------------------------------
(* What a loop other than RunLoop has to keep of its own.                  *)
LEMMA OtherLoopType ==
    ASSUME TypeInv, NEW t \in Loops \ {"run"}, ~At(t, "done"), NEW label \in Label,
           Goto(t, label), UNCHANGED <<workerVars, bundle>>,
           FlagsOK', CountersOK', EventsOK', data' \in Seq(Full),
           t = "trigger" => InRange', t # "trigger" => UNCHANGED round
    PROVE  TypeInv'
<1>1. /\ IdleMeansDone' /\ ListTypeOK(Thread, Label)'
      /\ \A u \in Thread \ {t} : pc'[u] = pc[u] /\ idx'[u] = idx[u]
  BY LoopJumps
<1>2. CountsEvents("run")'
  BY <1>1, Threads, OthersKeepCount DEF TypeInv
<1>3. InRange'
  <2>1. CASE t # "trigger"
    <3>1. pc'["trigger"] = pc["trigger"]
      BY <1>1, <2>1, Threads
    <3> QED BY <2>1, <3>1 DEF TypeInv, InRange, Round
  <2>2. CASE t = "trigger"
    BY <2>2
  <2> QED BY <2>1, <2>2
<1> QED BY <1>1, <1>2, <1>3, TypeParts DEF TypeInv

(* Such a loop tests something and jumps.                                  *)
LEMMA LoopTests ==
    ASSUME TypeInv, NEW t \in Loops \ {"run"}, NEW here \in Label \ {"done"},
           NEW after \in Label, At(t, here), Goto(t, after),
           t = "trigger" => after \notin {"set_mux", "fire", "configured", "await"},
           after = "reset" => round \in Round,
           UNCHANGED <<workerVars, bundle, managerVars>>
    PROVE  TypeInv'
<1>0. /\ FlagsOK /\ CountersOK /\ EventsOK /\ data \in Seq(Full) /\ InRange
      /\ pc \in [Thread -> Label] /\ t \in Thread
  BY TypeParts, Threads DEF TypeInv, StateOK
<1>1. FlagsOK' /\ CountersOK' /\ EventsOK' /\ data' \in Seq(Full)
  BY <1>0 DEF FlagsOK, CountersOK, EventsOK, managerVars, runVars, startVars, flagVars,
         roundVars, packVars, outVars
<1>2. t = "trigger" => InRange'
  BY <1>0 DEF InRange, Goto, managerVars, roundVars, Round
<1>3. UNCHANGED round
  BY DEF managerVars, roundVars
<1> QED BY <1>0, <1>1, <1>2, <1>3, OtherLoopType DEF At

(* TriggerLoop sets a flag, and may begin a sequence.                      *)
LEMMA TriggerSetsFlag ==
    ASSUME TypeInv, NEW here \in Label \ {"done"},
           NEW after \in Label \ {"reset", "fire", "configured"},
           NEW progress \in BOOLEAN, NEW finished \in BOOLEAN,
           NEW configured \in BOOLEAN, NEW got \in BOOLEAN,
           SetFlag(here, after, progress, finished, configured, got),
           UNCHANGED <<mux, aim>>,
           \/ UNCHANGED <<round, sequences>>
           \/ round' = 1 /\ sequences' = sequences + 1,
           after \in {"set_mux", "await"} =>
               here \in {"reset", "configured"} /\ UNCHANGED round
    PROVE  TypeInv'
<1> DEFINE t == "trigger"
<1>0. /\ FlagsOK /\ CountersOK /\ EventsOK /\ data \in Seq(Full) /\ InRange
      /\ pc \in [Thread -> Label] /\ t \in Loops \ {"run"} /\ t \in Thread
      /\ NRounds \in Nat \ {0} /\ Round = 1..NRounds
  BY TypeParts, Threads, EventManagerTrgSeqAssumption DEF TypeInv, StateOK, Round
<1>1. /\ pc[t] = here /\ Goto(t, after) /\ UNCHANGED <<workerVars, bundle>>
      /\ UNCHANGED <<runVars, data, startVars, packVars, outVars, mux, aim>>
  BY DEF SetFlag, Step, At
<1>2. FlagsOK'
  BY <1>0, <1>1 DEF SetFlag, FlagsOK, runVars, startVars, outVars
<1>3. CountersOK'
  BY <1>0, <1>1 DEF CountersOK, runVars, startVars, packVars
<1>4. EventsOK' /\ data' \in Seq(Full)
  BY <1>0, <1>1 DEF EventsOK, packVars, outVars
<1>5. InRange'
  BY <1>0, <1>1 DEF InRange, Goto
<1> QED BY <1>0, <1>1, <1>2, <1>3, <1>4, <1>5, OtherLoopType DEF At

(* TriggerLoop's round stays within the sequence, or one past its end.     *)
LEMMA TriggerLoopType == ASSUME TypeInv, TriggerLoop PROVE TypeInv'
<1> DEFINE t == "trigger"
<1>0. /\ ListTypeOK(Thread, Label) /\ FlagsOK /\ CountersOK /\ EventsOK
      /\ t \in Loops \ {"run"} /\ t \in Thread /\ data \in Seq(Full) /\ InRange
      /\ pc \in [Thread -> Label]
      /\ {"outer", "check", "done", "start", "begin", "unfinish", "unconfigure", "round",
          "reset", "set_mux", "fire", "configured", "await", "end", "forget",
          "await_builder"} \subseteq Label
  BY TypeParts, Threads DEF TypeInv, StateOK, Label
<1>n. NRounds \in Nat \ {0} /\ Round = 1..NRounds
  BY EventManagerTrgSeqAssumption DEF Round
<1>e. UNCHANGED <<data, packVars, run_queue, packed>> => EventsOK' /\ data' \in Seq(Full)
  BY <1>0 DEF EventsOK, packVars
<1>3. CASE /\ Step(t, "set_mux", "fire")
           /\ mux' = IF go_time THEN round ELSE mux
           /\ UNCHANGED <<runVars, data, startVars, flagVars, round, sequences, aim,
                          packVars, outVars>>
  <2>1. round \in Round /\ pc[t] = "set_mux"
    BY <1>0, <1>3 DEF InRange, Step, At
  <2>2. FlagsOK' /\ CountersOK'
    BY <1>0, <1>3, <2>1 DEF FlagsOK, CountersOK, runVars, startVars, flagVars, packVars,
           outVars
  <2>3. InRange'
    BY <1>3, <2>1 DEF InRange, Round
  <2> QED BY <1>0, <1>3, <1>e, <2>1, <2>2, <2>3, OtherLoopType DEF Step, At, outVars
<1>4. CASE /\ Step(t, "await", "round") /\ round' = round + 1
           /\ UNCHANGED <<runVars, data, startVars, flagVars, mux, sequences, aim,
                          packVars, outVars>>
  <2>1. round \in Round /\ pc[t] = "await"
    BY <1>0, <1>4 DEF InRange, Step, At
  <2>2. FlagsOK' /\ CountersOK'
    BY <1>0, <1>n, <1>4, <2>1 DEF FlagsOK, CountersOK, runVars, startVars, flagVars,
           packVars, outVars
  <2>3. InRange'
    BY <1>0, <1>4 DEF InRange, Step, Goto
  <2> QED BY <1>0, <1>4, <1>e, <2>1, <2>2, <2>3, OtherLoopType DEF Step, At, outVars
<1>5. CASE /\ Step(t, "forget", "await_builder") /\ got_start_trg' = FALSE
           /\ UNCHANGED <<runVars, data, got_software_trg, starts, flagVars,
                          roundVars, packVars, outVars>>
  <2>1. FlagsOK'
    BY <1>0, <1>5 DEF FlagsOK, runVars, flagVars, outVars
  <2>2. CountersOK'
    BY <1>0, <1>5 DEF CountersOK, runVars, packVars, roundVars
  <2>3. InRange'
    BY <1>0, <1>5 DEF InRange, Step, Goto
  <2> QED BY <1>0, <1>5, <1>e, <2>1, <2>2, <2>3, OtherLoopType DEF Step, At, outVars
<1>6. CASE FireTriggers
  <2>1. /\ pc[t] = "fire" /\ Goto(t, "configured")
        /\ \/ UNCHANGED <<workerVars, aim>>
           \/ /\ \E S \in SUBSET Worker : Trigger(S)
              /\ aim' = Append(aim, <<sequences, mux>>)
        /\ UNCHANGED <<bundle, runVars, data, startVars, flagVars, round, mux, sequences,
                       packVars, outVars>>
    BY <1>6 DEF FireTriggers, At
  <2>2. WorkersTypeOK'
    <3>1. CASE UNCHANGED workerVars
      BY <1>0, <3>1 DEF ListTypeOK, WorkersTypeOK, workerVars
    <3>2. CASE \E S \in SUBSET Worker : Trigger(S)
      BY <1>0, <3>2, TriggerStepType DEF ListTypeOK
    <3> QED BY <2>1, <3>1, <3>2
  <2>3. Moves(t, "configured", "configured")
    BY <2>1 DEF Moves
  <2>4. /\ pc' \in [Thread -> Label] /\ idx' \in [Thread -> Worker]
    BY <1>0, <2>3, MovesType DEF ListTypeOK
  <2>5. /\ IdleMeansDone' /\ pc'["run"] = pc["run"] /\ idx'["run"] = idx["run"]
    BY <1>0, <2>1, <2>3, Threads, LoopMoves DEF At
  <2>6. ListTypeOK(Thread, Label)' /\ CountsEvents("run")'
    BY <1>0, <2>1, <2>2, <2>4, <2>5, OthersKeepCount DEF ListTypeOK, TypeInv
  <2>7. FlagsOK'
    BY <1>0, <2>1 DEF FlagsOK, runVars, startVars, flagVars, outVars
  <2>8. CountersOK'
    <3>1. Append(aim, <<sequences, mux>>) \in Seq(Nat \X Round)
      BY <1>0 DEF CountersOK
    <3>2. aim' \in Seq(Nat \X Round)
      BY <1>0, <2>1, <3>1 DEF CountersOK
    <3> QED BY <1>0, <2>1, <3>2 DEF CountersOK, runVars, startVars, packVars
  <2>9. InRange'
    BY <1>0, <2>1 DEF InRange, Goto, Round
  <2> QED BY <1>e, <2>1, <2>5, <2>6, <2>7, <2>8, <2>9, TypeParts DEF TypeInv, outVars
<1>7. CASE BeginRound
  <2>1. CASE Test(t, "round", round \in Round /\ go_time, "reset", "end")
    BY <1>0, <2>1, LoopTests DEF Test
  <2>2. CASE /\ SetFlag("reset", "set_mux", sequence_in_progress, builder_has_finished,
                        mux_round_configured, FALSE)
             /\ UNCHANGED roundVars
    BY <1>0, <2>2, TriggerSetsFlag DEF FlagsOK, roundVars
  <2> QED BY <1>3, <1>7, <2>1, <2>2 DEF BeginRound
<1>8. CASE BeginSequence
  <2>1. CASE /\ SetFlag("begin", "unfinish", TRUE, builder_has_finished,
                        mux_round_configured, got_round_data)
             /\ sequences' = sequences + 1 /\ round' = 1
             /\ UNCHANGED <<mux, aim>>
    BY <1>0, <2>1, TriggerSetsFlag DEF FlagsOK
  <2>2. CASE /\ SetFlag("unfinish", "unconfigure", sequence_in_progress, FALSE,
                        mux_round_configured, got_round_data)
             /\ UNCHANGED roundVars
    BY <1>0, <2>2, TriggerSetsFlag DEF FlagsOK, roundVars
  <2>3. CASE /\ SetFlag("unconfigure", "round", sequence_in_progress,
                        builder_has_finished, FALSE, got_round_data)
             /\ UNCHANGED roundVars
    BY <1>0, <2>3, TriggerSetsFlag DEF FlagsOK, roundVars
  <2> QED BY <1>8, <2>1, <2>2, <2>3 DEF BeginSequence
<1>9. CASE EndRound
  <2>1. CASE /\ SetFlag("configured", "await", sequence_in_progress,
                        builder_has_finished, TRUE, got_round_data)
             /\ UNCHANGED roundVars
    BY <1>0, <2>1, TriggerSetsFlag DEF FlagsOK, roundVars
  <2> QED BY <1>4, <1>9, <2>1 DEF EndRound
<1>10. CASE EndSequence
  <2>1. CASE /\ SetFlag("end", "forget", FALSE, builder_has_finished,
                        mux_round_configured, got_round_data)
             /\ UNCHANGED roundVars
    BY <1>0, <2>1, TriggerSetsFlag DEF FlagsOK, roundVars
  <2>2. CASE Test(t, "await_builder", TRUE, "check", "check")
    BY <1>0, <2>2, LoopTests DEF Test
  <2> QED BY <1>5, <1>10, <2>1, <2>2 DEF EndSequence, Await
<1>11. CASE \/ Test(t, "outer", thread_live, "check", "done")
            \/ Test(t, "check", go_time, "start", "outer")
            \/ Test(t, "start", got_start_trg, "begin", "check")
  <2>1. CASE Test(t, "outer", thread_live, "check", "done")
    BY <1>0, <2>1, LoopTests DEF Test
  <2>2. CASE Test(t, "check", go_time, "start", "outer")
    BY <1>0, <2>2, LoopTests DEF Test
  <2>3. CASE Test(t, "start", got_start_trg, "begin", "check")
    BY <1>0, <2>3, LoopTests DEF Test
  <2> QED BY <1>11, <2>1, <2>2, <2>3
<1> QED BY <1>6, <1>7, <1>8, <1>9, <1>10, <1>11 DEF TriggerLoop

(* BuilderLoop finds an entry of the round's worker in what RunLoop queued. *)
LEMMA BuilderLoopType == ASSUME TypeInv, BuilderLoop PROVE TypeInv'
<1> DEFINE t == "builder"
<1>0. /\ FlagsOK /\ CountersOK /\ EventsOK
      /\ t \in Loops \ {"run"} /\ t # "trigger" /\ t \in Thread /\ data \in Seq(Full)
      /\ pc \in [Thread -> Label]
      /\ {"outer", "check", "done", "turn", "progress", "going", "is_configured", "over",
          "take", "finished", "push", "round_data", "round_taken"} \subseteq Label
  BY TypeParts, Threads DEF TypeInv, StateOK, Label
<1>1. CASE \E here \in Label \ {"done", "reset"}, after \in Label \ {"reset"} :
             /\ At(t, here) /\ Goto(t, after)
             /\ UNCHANGED <<workerVars, bundle, managerVars>>
  BY <1>0, <1>1, LoopTests
<1>2. CASE NewTurn
  <2>1. FlagsOK' /\ CountersOK' /\ EventsOK' /\ data' \in Seq(Full) /\ UNCHANGED round
    BY <1>0, <1>2 DEF NewTurn, FlagsOK, CountersOK, EventsOK, runVars, startVars,
           flagVars, roundVars, outVars
  <2> QED BY <1>0, <1>2, <2>1, OtherLoopType DEF NewTurn, Step, At
<1>3. CASE TakeRound
  <2>1. PICK label \in {"progress", "round_data"} :
           Goto(t, label) /\ pc[t] = "take" /\ UNCHANGED <<workerVars, bundle>>
    BY <1>3 DEF TakeRound, Step, At
  <2>2. UNCHANGED <<runVars, startVars, flagVars, roundVars, outVars>>
    BY <1>3 DEF TakeRound
  <2>3. seq_index' \in Nat /\ data' \in Seq(Full) /\ probes' \in Packed
    <3>1. CASE data = <<>>
      BY <1>0, <1>3, <3>1 DEF TakeRound, CountersOK, EventsOK, packVars
    <3>2. CASE data # <<>>
      <4>1. Head(data) \in Full /\ Tail(data) \in Seq(Full)
        BY <1>0, <3>2
      <4>2. \A r \in Round : Wfd[r] \in Worker
        BY EventManagerTrgSeqAssumption DEF Round
      <4>3. \A w \in Worker : Head(data)[w] \in Event \cup {Uninitialised}
        BY <4>1, WorkersAssumption DEF Full, Bundle, Worker
      <4>4. \A r \in Round : Head(data)[Wfd[r]] \in Event \cup {Uninitialised}
        BY <4>2, <4>3
      <4>5. probes' \in Packed
        <5>1. \A r \in Round : probes[r] \in Event \cup {Uninitialised}
          BY <1>0 DEF EventsOK, Packed
        <5>2. probes' = [r \in Round |->
                 IF r = seq_index + 1 THEN Head(data)[Wfd[r]] ELSE probes[r]]
          BY <1>3, <3>2 DEF TakeRound
        <5> QED BY <4>4, <5>1, <5>2 DEF Packed
      <4>6. seq_index' = seq_index + 1 /\ data' = Tail(data)
        BY <1>3, <3>2 DEF TakeRound
      <4> QED BY <1>0, <4>1, <4>5, <4>6 DEF CountersOK
    <3> QED BY <3>1, <3>2
  <2>4. EventsOK'
    <3>1. data' \in Seq(Bundle)
      BY <2>3 DEF Full
    <3> QED BY <1>0, <2>2, <2>3, <3>1 DEF EventsOK, outVars, Packed
  <2>5. FlagsOK' /\ CountersOK' /\ UNCHANGED round
    BY <1>0, <2>2, <2>3 DEF FlagsOK, CountersOK, runVars, startVars, flagVars, roundVars,
           outVars
  <2> QED BY <1>0, <2>1, <2>3, <2>4, <2>5, OtherLoopType DEF At
<1>4. CASE RoundTaken
  <2>1. PICK label \in {"round_taken", "progress"} :
           /\ Goto(t, label) /\ pc[t] \in {"round_data", "round_taken"}
           /\ UNCHANGED <<workerVars, bundle>>
    BY <1>4 DEF RoundTaken, Step, At
  <2>2. /\ UNCHANGED <<runVars, data, startVars, builder_has_finished,
                       sequence_in_progress, roundVars, packVars, outVars>>
        /\ \/ got_round_data' = TRUE /\ UNCHANGED mux_round_configured
           \/ mux_round_configured' = FALSE /\ UNCHANGED got_round_data
    BY <1>4 DEF RoundTaken
  <2>3. FlagsOK' /\ CountersOK' /\ EventsOK' /\ data' \in Seq(Full) /\ UNCHANGED round
    BY <1>0, <2>2 DEF FlagsOK, CountersOK, EventsOK, runVars, startVars, roundVars,
           packVars, outVars
  <2> QED BY <1>0, <2>1, <2>3, OtherLoopType DEF At
<1>5. CASE PushEvent
  <2>1. FlagsOK'
    BY <1>0, <1>5 DEF PushEvent, FlagsOK, runVars, startVars
  <2>2. CountersOK' /\ UNCHANGED round
    BY <1>0, <1>5 DEF PushEvent, CountersOK, runVars, startVars, roundVars
  <2>3. EventsOK' /\ data' \in Seq(Full)
    <3>1. Append(run_queue, probes) \in Seq(Packed) /\ Append(packed, probes) \in Seq(Packed)
      BY <1>0 DEF EventsOK
    <3> QED BY <1>0, <1>5, <3>1 DEF PushEvent, EventsOK
  <2> QED BY <1>0, <1>5, <2>1, <2>2, <2>3, OtherLoopType DEF PushEvent, Step, At
<1>6. CASE \E condition \in BOOLEAN :
             \/ Test(t, "outer", condition, "check", "done")
             \/ Test(t, "check", condition, "turn", "outer")
             \/ Test(t, "progress", condition, "going", "over")
             \/ Test(t, "going", condition, "is_configured", "over")
             \/ Test(t, "is_configured", condition, "take", "progress")
             \/ Test(t, "over", condition, "finished", "check")
             \/ Test(t, "finished", condition, "push", "check")
  BY <1>0, <1>1, <1>6 DEF Test
<1> QED BY <1>0, <1>2, <1>3, <1>4, <1>5, <1>6 DEF BuilderLoop, FlagsOK

(* StarterLoop changes the flags of the start triggers only.               *)
LEMMA StarterLoopType == ASSUME TypeInv, StarterLoop PROVE TypeInv'
<1> DEFINE t == "starter"
<1>0. /\ FlagsOK /\ CountersOK /\ EventsOK
      /\ t \in Loops \ {"run"} /\ t # "trigger" /\ t \in Thread /\ data \in Seq(Full)
      /\ pc \in [Thread -> Label]
      /\ {"outer", "check", "done", "receive", "software", "start", "clear"} \subseteq Label
  BY TypeParts, Threads DEF TypeInv, StateOK, Label
<1>1. CASE \/ Test(t, "outer", thread_live, "check", "done")
           \/ Test(t, "check", go_time /\ thread_live, "receive", "outer")
           \/ Test(t, "receive", TRUE, "software", "software")
           \/ Test(t, "software", got_software_trg, "start", "check")
  <2>1. \E here \in Label \ {"done"}, after \in Label \ {"reset"} :
             /\ At(t, here) /\ Goto(t, after)
             /\ UNCHANGED <<workerVars, bundle, managerVars>>
    BY <1>0, <1>1 DEF Test
  <2> QED BY <1>0, <2>1, LoopTests
<1>2. CASE \E here \in {"receive", "start", "clear"}, after \in {"software", "clear", "check"} :
             /\ Step(t, here, after)
             /\ UNCHANGED <<runVars, data, flagVars, roundVars, packVars, outVars>>
             /\ starts' \in {starts, starts + 1}
             /\ got_start_trg' \in BOOLEAN /\ got_software_trg' \in BOOLEAN
  <2>1. PICK label \in {"software", "clear", "check"} :
           /\ Goto(t, label) /\ pc[t] \in {"receive", "start", "clear"}
           /\ UNCHANGED <<workerVars, bundle>>
    BY <1>2 DEF Step, At
  <2>2. FlagsOK'
    BY <1>0, <1>2 DEF FlagsOK, runVars, flagVars, outVars
  <2>3. CountersOK' /\ EventsOK' /\ data' \in Seq(Full) /\ UNCHANGED round
    BY <1>0, <1>2 DEF CountersOK, EventsOK, runVars, roundVars, packVars, outVars
  <2> QED BY <1>0, <2>1, <2>2, <2>3, OtherLoopType DEF At
<1>3. CASE Start("receive", "software") /\ Ask
  BY <1>0, <1>2, <1>3 DEF Start, Ask, FlagsOK
<1>4. CASE Start("start", "clear") /\ UNCHANGED starts
  BY <1>0, <1>2, <1>4 DEF Start, FlagsOK
<1>5. CASE /\ Step(t, "clear", "check") /\ got_software_trg' = FALSE
           /\ UNCHANGED <<got_start_trg, starts, runVars, data, flagVars, roundVars,
                          packVars, outVars>>
  BY <1>0, <1>2, <1>5 DEF FlagsOK
<1> QED BY <1>1, <1>3, <1>4, <1>5 DEF StarterLoop

-----------------------------------------------------------------------------
(* The frontend, and the workers.                                          *)

(* What a step of the frontend has to keep, once the run has begun.        *)
LEMMA MainMoves ==
    ASSUME TypeInv, NEW here \in Label, NEW after \in Label, Moves("main", here, after),
           ListTypeOK(Thread, Label)', UNCHANGED <<bundle, round>>,
           FlagsOK', CountersOK', EventsOK', data' \in Seq(Full),
           {here, after} \intersect {"idle"} # {} => \A t \in Loops : At(t, "done")
    PROVE  TypeInv'
<1>0. pc \in [Thread -> Label] /\ idx \in [Thread -> Worker] /\ "main" \in Thread
  BY Threads DEF TypeInv, StateOK
<1>1. \A u \in Loops : pc'[u] = pc[u] /\ idx'[u] = idx[u]
  BY <1>0, Threads, MovesNoOther
<1>2. pc'["main"] \in {here, after}
  BY <1>0 DEF Moves, NextWorker, Goto
<1>3. IdleMeansDone'
  BY <1>1, <1>2 DEF IdleMeansDone, At
<1>4. InRange' /\ CountsEvents("run")'
  BY <1>1, Threads, OthersKeepCount DEF TypeInv, InRange, Round
<1> QED BY <1>3, <1>4, TypeParts DEF TypeInv

(* A jump of the frontend.                                                 *)
LEMMA MainJumps ==
    ASSUME TypeInv, NEW label \in Label, Goto("main", label),
           UNCHANGED <<workerVars, bundle, round>>,
           FlagsOK', CountersOK', EventsOK', data' \in Seq(Full),
           label = "idle" => \A t \in Loops : At(t, "done")
    PROVE  TypeInv'
<1>1. Moves("main", label, label)
  BY DEF Moves
<1>2. ListTypeOK(Thread, Label)'
  BY TypeParts, Threads, GotoKeepsType DEF TypeInv, ListTypeOK
<1> QED BY <1>1, <1>2, MainMoves

(* A run begins.                                                           *)
LEMMA FirstStepType ==
    ASSUME TypeInv, At("main", "idle"), Construct, thread_live' = TRUE, runs' = runs + 1,
           pc' = [t \in Thread |-> IF t = "main" THEN "begin" ELSE "outer"],
           UNCHANGED <<idx, bundle, go_time, data, startVars, flagVars, roundVars,
                       packVars, outVars>>
    PROVE  TypeInv'
<1>0. /\ ListTypeOK(Thread, Label) /\ FlagsOK /\ CountersOK /\ EventsOK
      /\ data \in Seq(Full) /\ pc["run"] = "done" /\ CountsEvents("run")
  BY TypeParts, Threads DEF TypeInv, IdleMeansDone, At
<1>1. ListTypeOK(Thread, Label)'
  <2>1. WorkersTypeOK'
    <3>1. captured' \in [Worker -> Seq(Nat)] /\ data_queue' \in [Worker -> Seq(Event)]
      BY DEF Construct, NewCaptured, OnEach
    <3> QED BY <1>0, <3>1 DEF ListTypeOK, Construct, WorkersTypeOK, OnEach, NewAcquiring
  <2>2. pc' \in [Thread -> Label]
    BY DEF Label
  <2> QED BY <1>0, <2>1, <2>2 DEF ListTypeOK
<1>2. FlagsOK'
  BY <1>0 DEF FlagsOK, startVars, flagVars, outVars
<1>3. CountersOK'
  BY <1>0 DEF CountersOK, startVars, roundVars, packVars
<1>4. EventsOK' /\ data' \in Seq(Full)
  BY <1>0 DEF EventsOK, packVars, outVars
<1>5. bundle' = <<>>
  BY <1>0 DEF CountsEvents
<1>6. CountsEvents("run")' /\ InRange' /\ IdleMeansDone'
  BY <1>5, Threads DEF CountsEvents, InRange, IdleMeansDone, At
<1> QED BY <1>1, <1>2, <1>3, <1>4, <1>6, TypeParts DEF TypeInv

(* The rest of BeginOfRun, EndOfRun and the frontend's polling.            *)
LEMMA FrontendType == ASSUME TypeInv, Frontend PROVE TypeInv'
<1> DEFINE m == "main"
<1>0. /\ ListTypeOK(Thread, Label) /\ FlagsOK /\ CountersOK /\ EventsOK
      /\ data \in Seq(Full) /\ m \in Thread
      /\ {"begin", "threads", "workers", "stale", "stale_flush", "stale_flag", "running",
          "end", "stop_workers", "stop_threads", "join_thread", "join", "get_current",
          "pop_current"} \subseteq Label \ {"idle"} /\ "idle" \in Label
  BY TypeParts, Threads DEF TypeInv, Label
<1>u. UNCHANGED managerVars =>
         FlagsOK' /\ CountersOK' /\ EventsOK' /\ data' \in Seq(Full) /\ UNCHANGED round
  BY <1>0 DEF FlagsOK, CountersOK, EventsOK, managerVars, runVars, startVars, flagVars,
         roundVars, packVars, outVars
<1>1. CASE /\ \/ StartThreads(m, "threads", "workers")
              \/ StartWorkers(m, "workers", "stale")
              \/ StopWorkers(m, "stop_workers", "stop_threads")
              \/ StopThreads(m, "stop_threads", "join_thread", "join")
           /\ UNCHANGED managerVars
  <2>1. ListTypeOK(Thread, Label)' /\ UNCHANGED bundle
    BY <1>0, <1>1, StartStopType
  <2>2. \E here, after \in Label \ {"idle"} : Moves(m, here, after)
    BY <1>0, <1>1 DEF StartThreads, StartWorkers, StopWorkers, StopThreads, Moves
  <2> QED BY <1>u, <1>1, <2>1, <2>2, MainMoves
<1>2. CASE /\ \/ AnyWorkersHaveEvent(m, "stale", "stale_flush", "running")
              \/ FlushEventData(m, "stale_flush", "stale_flag", "stale")
           /\ UNCHANGED managerVars
  <2>1. ListTypeOK(Thread, Label)' /\ UNCHANGED bundle
    BY <1>0, <1>2, ChecksType, FlushEventDataKeepsType
       DEF AnyWorkersHaveEvent, FlushEventData, FlushQueue, FlushFlag
  <2>2. \E here, after \in Label \ {"idle"} : Moves(m, here, after)
    BY <1>0, <1>2 DEF AnyWorkersHaveEvent, FlushEventData, FlushQueue, FlushFlag, Moves
  <2> QED BY <1>u, <1>2, <2>1, <2>2, MainMoves
<1>3. CASE \E label \in Label \ {"idle"} :
             /\ Goto(m, label) /\ UNCHANGED <<workerVars, bundle, managerVars>>
  BY <1>u, <1>3, MainJumps
<1>4. CASE /\ \E label \in Label \ {"idle"} : Goto(m, label)
           /\ go_time' \in BOOLEAN /\ thread_live' \in BOOLEAN
           /\ UNCHANGED <<workerVars, bundle, runs, data, startVars, flagVars, roundVars,
                          packVars, outVars>>
  <2>1. FlagsOK'
    BY <1>0, <1>4 DEF FlagsOK, startVars, flagVars, outVars
  <2>2. CountersOK' /\ EventsOK' /\ data' \in Seq(Full) /\ UNCHANGED round
    BY <1>0, <1>4 DEF CountersOK, EventsOK, startVars, roundVars, packVars, outVars
  <2> QED BY <1>4, <2>1, <2>2, MainJumps
<1>5. CASE /\ \A t \in Loops : At(t, "done")
           /\ MainStep("join", "idle")
           /\ data' = <<>> /\ run_queue' = <<>>
           /\ UNCHANGED <<workerVars, go_time, thread_live, runs, event_flag>>
  <2>1. FlagsOK' /\ CountersOK' /\ EventsOK' /\ data' \in Seq(Full) /\ UNCHANGED round
    BY <1>0, <1>5 DEF MainStep, FlagsOK, CountersOK, EventsOK, startVars, flagVars,
           roundVars, packVars
  <2> QED BY <1>0, <1>5, <2>1, MainJumps DEF MainStep
<1>6. CASE IssueTrigger
  <2>1. FlagsOK'
    BY <1>0, <1>6 DEF IssueTrigger, FlagsOK, runVars, flagVars, outVars
  <2>2. CountersOK' /\ EventsOK' /\ data' \in Seq(Full) /\ UNCHANGED round
    BY <1>0, <1>6 DEF IssueTrigger, Ask, CountersOK, EventsOK, runVars, roundVars,
           packVars, outVars
  <2> QED BY <1>0, <1>6, <2>1, <2>2, MainJumps DEF IssueTrigger, Step
<1>7. CASE /\ MainStep("pop_current", "running")
           /\ run_queue' = IF run_queue = <<>> THEN <<>> ELSE Tail(run_queue)
           /\ event_flag' = (event_flag /\ Len(run_queue) > 1)
           /\ UNCHANGED <<workerVars, runVars, data>>
  <2>1. FlagsOK'
    BY <1>0, <1>7 DEF MainStep, FlagsOK, runVars, startVars, flagVars
  <2>2. run_queue' \in Seq(Packed)
    <3>1. run_queue # <<>> => Tail(run_queue) \in Seq(Packed)
      BY <1>0 DEF EventsOK
    <3>2. <<>> \in Seq(Packed)
      OBVIOUS
    <3> QED BY <1>7, <3>1, <3>2
  <2>3. CountersOK' /\ EventsOK' /\ data' \in Seq(Full) /\ UNCHANGED round
    BY <1>0, <1>7, <2>2 DEF MainStep, CountersOK, EventsOK, runVars, startVars, roundVars,
           packVars
  <2> QED BY <1>0, <1>7, <2>1, <2>3, MainJumps DEF MainStep
<1>8. CASE BeginOfRun
  <2>1. CASE MainStep("begin", "threads") /\ go_time' = TRUE
             /\ UNCHANGED <<workerVars, thread_live, runs, data, event_flag, run_queue>>
    BY <1>0, <1>4, <2>1 DEF MainStep, FlagsOK, outVars
  <2>2. CASE /\ At(m, "idle") /\ Construct
             /\ pc' = [t \in Thread |-> IF t = m THEN "begin" ELSE "outer"]
             /\ thread_live' = TRUE /\ runs' = runs + 1
             /\ UNCHANGED <<idx, bundle, go_time, data, startVars, flagVars, roundVars,
                            packVars, outVars>>
    BY <2>2, FirstStepType
  <2> QED BY <1>1, <1>2, <1>8, <2>1, <2>2 DEF BeginOfRun, OnList
<1>9. CASE EndOfRun
  <2>1. CASE MainStep("running", "end") /\ go_time' = FALSE
             /\ UNCHANGED <<workerVars, thread_live, runs, data, event_flag, run_queue>>
    BY <1>0, <1>4, <2>1 DEF MainStep, FlagsOK, outVars
  <2>2. CASE MainStep("end", "stop_workers") /\ thread_live' = FALSE
             /\ UNCHANGED <<workerVars, go_time, runs, data, event_flag, run_queue>>
    BY <1>0, <1>4, <2>2 DEF MainStep, FlagsOK, outVars
  <2> QED BY <1>1, <1>5, <1>9, <2>1, <2>2 DEF EndOfRun, OnList
<1>10. CASE PauseResume
  BY <1>0, <1>4, <1>10 DEF PauseResume, MainStep, FlagsOK, outVars
<1>11. CASE TakeEvent
  <2>1. CASE \/ Test(m, "running", TRUE, "get_current", "get_current")
             \/ Test(m, "get_current", TRUE, "pop_current", "pop_current")
    BY <1>0, <1>3, <2>1 DEF Test
  <2> QED BY <1>7, <1>11, <2>1 DEF TakeEvent
<1> QED BY <1>6, <1>8, <1>9, <1>10, <1>11 DEF Frontend

(* The types' invariant is inductive.                                      *)
LEMMA TypeStep == TypeInv /\ [Next]_vars => TypeInv'
<1> SUFFICES ASSUME TypeInv, [Next]_vars PROVE TypeInv'
  OBVIOUS
<1>1. CASE WorkerThreads \/ UNCHANGED vars
  <2>1. UNCHANGED <<pc, idx, bundle, managerVars>>
    BY <1>1 DEF WorkerThreads, WorkerStep, threadVars, vars, listVars
  <2>2. WorkersTypeOK'
    <3>1. CASE WorkerThreads
      BY <3>1, WorkLoopStep DEF WorkerThreads, WorkerStep, TypeInv, StateOK
    <3>2. CASE UNCHANGED vars
      BY <3>2 DEF vars, listVars, TypeInv, StateOK, WorkersTypeOK
    <3> QED BY <1>1, <3>1, <3>2
  <2>3. ListTypeOK(Thread, Label)'
    BY <2>1, <2>2 DEF TypeInv, StateOK, ListTypeOK, Bundle
  <2>4. FlagsOK' /\ CountersOK' /\ EventsOK'
    BY <2>1, TypeParts DEF TypeInv, FlagsOK, CountersOK, EventsOK, managerVars, runVars,
           startVars, flagVars, roundVars, packVars, outVars
  <2>5. CountsEvents("run")' /\ InRange' /\ IdleMeansDone' /\ data' \in Seq(Full)
    BY <2>1 DEF TypeInv, CountsEvents, InRange, IdleMeansDone, At, managerVars, roundVars,
           Round
  <2> QED BY <2>3, <2>4, <2>5, TypeParts DEF TypeInv
<1> QED BY <1>1, RunLoopType, TriggerLoopType, BuilderLoopType, StarterLoopType,
           FrontendType DEF Next

LEMMA SpoiltStep == spoilt \in BOOLEAN /\ [Next]_vars => spoilt' \in BOOLEAN
<1>1. History => spoilt' \in BOOLEAN
  BY Zenon DEF History
<1>2. Next => History
  BY DEF Next
<1>3. UNCHANGED vars => spoilt' = spoilt
  BY DEF vars
<1> QED BY <1>1, <1>2, <1>3

(* Every variable of the manager keeps its type, for any sequence of       *)
(* rounds, whatever the flags held that nobody initialised: TriggerLoop's  *)
(* round stays in trg_seq_ where it is used as an index, and BuilderLoop   *)
(* always finds an entry of the round's digitizer in a queued bundle.      *)
THEOREM TrgSeqTypeCorrect == Spec => []TypeOK
<1> DEFINE Inv == TypeInv /\ spoilt \in BOOLEAN
<1>1. Init => Inv
  BY TypeInit DEF Init
<1>2. Inv /\ [Next]_vars => Inv'
  BY TypeStep, SpoiltStep
<1>3. Inv => TypeOK
  BY DEF TypeInv, TypeOK
<1> QED BY <1>1, <1>2, <1>3, PTL DEF Spec

-----------------------------------------------------------------------------
(* No sequence begins unasked.  A start trigger is spent when its sequence *)
(* begins; got_start_trg_ is cleared only when that sequence has ended.    *)

(* TriggerLoop has begun the sequence and not yet forgotten what began it. *)
InSequence == {"unfinish", "unconfigure", "round", "reset", "set_mux", "fire",
               "configured", "await", "end", "forget"}

(* A start trigger that a sequence will begin for.                         *)
Waiting == IF got_start_trg /\ pc["trigger"] \notin InSequence THEN 1 ELSE 0

(* A trigger that was issued, which StarterLoop has not yet passed on.     *)
Issued == IF got_software_trg /\ ~At("starter", "clear") THEN 1 ELSE 0

(* Those that flags which began TRUE stand for.                            *)
Brought == Early("software_trg") + Early("start_trg")

AskedInv ==
    /\ At("trigger", "begin") => got_start_trg
    /\ At("starter", "start") => got_software_trg
    /\ sequences + Waiting + Issued <= starts + Brought /\ Brought \in Nat

LEMMA AskedInit == ASSUME Init PROVE AskedInv
<1>1. Waiting <= Early("start_trg") /\ Waiting \in Nat /\ Early("start_trg") \in Nat
  BY DEF Init, Initially, Waiting, Early
<1>2. Issued <= Early("software_trg") /\ Issued \in Nat /\ Early("software_trg") \in Nat
  BY DEF Init, Initially, Issued, Early
<1>3. ~At("trigger", "begin") /\ ~At("starter", "start")
  BY Threads DEF Init, At
<1> QED BY <1>1, <1>2, <1>3 DEF Init, AskedInv, Brought

(* What keeps the start triggers, and the two threads that handle them.    *)
LEMMA AskedApart ==
    ASSUME AskedInv, UNCHANGED <<got_start_trg, got_software_trg, starts, sequences>>,
           pc'["trigger"] = pc["trigger"], pc'["starter"] = pc["starter"]
    PROVE  AskedInv'
<1>1. Waiting' = Waiting /\ Issued' = Issued
  BY DEF Waiting, Issued, At
<1> QED BY <1>1 DEF AskedInv, At

LEMMA RunLoopAsked == ASSUME TypeInv, AskedInv, RunLoop PROVE AskedInv'
<1>1. \E here, after \in Label : Moves("run", here, after)
  BY RunLoopMoves
<1>2. UNCHANGED <<startVars, roundVars>>
  BY DEF RunLoop, RunWait, RunPush, Test, OnList, managerVars
<1>3. pc'["trigger"] = pc["trigger"] /\ pc'["starter"] = pc["starter"]
  BY <1>1, Threads, MovesNoOther DEF TypeInv, StateOK, Thread
<1> QED BY <1>2, <1>3, AskedApart DEF startVars, roundVars

LEMMA BuilderLoopAsked == ASSUME TypeInv, AskedInv, BuilderLoop PROVE AskedInv'
<1>1. \E label \in Label : Goto("builder", label)
  BY DEF BuilderLoop, NewTurn, TakeRound, RoundTaken, PushEvent, Test, Step, Label
<1>2. UNCHANGED <<startVars, roundVars>>
  BY DEF BuilderLoop, NewTurn, TakeRound, RoundTaken, PushEvent, Test, managerVars
<1>3. pc'["trigger"] = pc["trigger"] /\ pc'["starter"] = pc["starter"]
  BY <1>1 DEF Goto, TypeInv, StateOK, Thread
<1> QED BY <1>2, <1>3, AskedApart DEF startVars, roundVars

(* TriggerLoop spends a start trigger when it begins a sequence, and not   *)
(* again before it has forgotten it.                                       *)
LEMMA TriggerLoopAsked == ASSUME TypeInv, AskedInv, TriggerLoop PROVE AskedInv'
<1> DEFINE t == "trigger"
<1>0. /\ pc \in [Thread -> Label] /\ t \in Thread /\ "starter" \in Thread \ {t}
      /\ got_start_trg \in BOOLEAN /\ sequences \in Nat /\ starts \in Nat
      /\ Waiting \in {0, 1} /\ Issued \in {0, 1}
  BY TypeParts DEF TypeInv, StateOK, Thread, FlagsOK, CountersOK, Waiting, Issued
<1>1. ASSUME NEW here, NEW after, At(t, here), Goto(t, after),
             UNCHANGED <<got_software_trg, starts>>
      PROVE  /\ pc[t] = here /\ pc'[t] = after /\ pc'["starter"] = pc["starter"]
             /\ Issued' = Issued
  BY <1>0, <1>1 DEF At, Goto, Issued
(* Within a sequence, and out of one, by a step that changes no flag.      *)
<1>2. ASSUME NEW here, NEW after, At(t, here), Goto(t, after),
             UNCHANGED <<got_start_trg, got_software_trg, starts, sequences>>,
             here \in InSequence <=> after \in InSequence,
             after = "begin" => got_start_trg
      PROVE  AskedInv'
  <2>1. Waiting' = Waiting
    BY <1>1, <1>2 DEF Waiting
  <2> QED BY <1>1, <1>2, <2>1 DEF AskedInv, At
<1>3. CASE /\ SetFlag("begin", "unfinish", TRUE, builder_has_finished,
                      mux_round_configured, got_round_data)
           /\ sequences' = sequences + 1
  <2>1. /\ At(t, "begin") /\ Goto(t, "unfinish")
        /\ UNCHANGED <<got_start_trg, got_software_trg, starts>>
    BY <1>3 DEF SetFlag, Step, startVars
  <2>2. Waiting = 1 /\ Waiting' = 0
    BY <1>1, <2>1 DEF AskedInv, Waiting, InSequence, At
  <2> QED BY <1>0, <1>1, <1>3, <2>1, <2>2 DEF AskedInv, At
<1>4. CASE /\ Step(t, "forget", "await_builder") /\ got_start_trg' = FALSE
           /\ UNCHANGED <<got_software_trg, starts, roundVars>>
  <2>1. At(t, "forget") /\ Goto(t, "await_builder")
    BY <1>4 DEF Step
  <2>2. Waiting = 0 /\ Waiting' = 0
    BY <1>1, <1>4, <2>1 DEF Waiting, InSequence
  <2> QED BY <1>0, <1>1, <1>4, <2>1, <2>2 DEF AskedInv, At, roundVars
<1>5. CASE \/ Test(t, "outer", thread_live, "check", "done")
           \/ Test(t, "check", go_time, "start", "outer")
           \/ Test(t, "start", got_start_trg, "begin", "check")
           \/ Test(t, "await_builder", TRUE, "check", "check")
  <2>1. UNCHANGED <<got_start_trg, got_software_trg, starts, sequences>>
    BY <1>5 DEF Test, managerVars, startVars, roundVars
  <2>2. \E here \in {"outer", "check", "start", "await_builder"},
           after \in {"outer", "check", "start", "done", "begin"} :
           At(t, here) /\ Goto(t, after) /\ (after = "begin" => got_start_trg)
    BY <1>5 DEF Test
  <2> QED BY <1>2, <2>1, <2>2 DEF InSequence
<1>6. CASE \E here, after \in InSequence :
             /\ At(t, here) /\ Goto(t, after) /\ UNCHANGED <<startVars, sequences>>
  BY <1>2, <1>6 DEF InSequence, startVars
<1>7. CASE BeginRound \/ FireTriggers \/ EndRound
  BY <1>6, <1>7 DEF BeginRound, FireTriggers, EndRound, Test, Step, SetFlag,
         managerVars, roundVars, InSequence
<1>8. CASE BeginSequence
  BY <1>3, <1>6, <1>8 DEF BeginSequence, Step, SetFlag, roundVars, InSequence
<1>9. CASE EndSequence
  <2>1. CASE /\ SetFlag("end", "forget", FALSE, builder_has_finished,
                        mux_round_configured, got_round_data)
             /\ UNCHANGED roundVars
    BY <1>6, <2>1 DEF Step, SetFlag, roundVars, InSequence
  <2> QED BY <1>4, <1>5, <1>9, <2>1 DEF EndSequence, Await
<1> QED BY <1>5, <1>7, <1>8, <1>9 DEF TriggerLoop

(* StarterLoop passes on a trigger it received, or one that was issued.    *)
LEMMA StarterLoopAsked == ASSUME TypeInv, AskedInv, StarterLoop PROVE AskedInv'
<1> DEFINE t == "starter"
<1>0. /\ pc \in [Thread -> Label] /\ t \in Thread /\ "trigger" \in Thread \ {t}
      /\ got_start_trg \in BOOLEAN /\ got_software_trg \in BOOLEAN
      /\ sequences \in Nat /\ starts \in Nat
      /\ Waiting \in 0..1 /\ Issued \in 0..1
  BY TypeParts DEF TypeInv, StateOK, Thread, FlagsOK, CountersOK, Waiting, Issued
<1>a. /\ sequences \in Nat /\ starts \in Nat /\ Waiting \in 0..1 /\ Issued \in 0..1
      /\ sequences + Waiting + Issued <= starts + Brought /\ Brought \in Nat
  BY <1>0 DEF AskedInv
<1>1. ASSUME NEW here, NEW after, At(t, here), Goto(t, after)
      PROVE  pc[t] = here /\ pc'[t] = after /\ pc'["trigger"] = pc["trigger"]
  BY <1>0, <1>1 DEF At, Goto
<1>2. UNCHANGED sequences
  BY DEF StarterLoop, Start, Test, managerVars, roundVars
<1>3. CASE \/ Test(t, "outer", thread_live, "check", "done")
           \/ Test(t, "check", go_time /\ thread_live, "receive", "outer")
           \/ Test(t, "receive", TRUE, "software", "software")
           \/ Test(t, "software", got_software_trg, "start", "check")
  <2>1. UNCHANGED startVars
    BY <1>3 DEF Test, managerVars
  <2>2. \E here, after \in {"outer", "check", "receive", "software", "start", "done"} :
           At(t, here) /\ Goto(t, after) /\ (after = "start" => got_software_trg)
    BY <1>3 DEF Test
  <2>3. /\ pc'[t] # "clear" /\ pc[t] # "clear" /\ pc'["trigger"] = pc["trigger"]
        /\ pc'[t] = "start" => got_software_trg
    BY <1>1, <2>2
  <2>4. Waiting' = Waiting /\ Issued' = Issued
    BY <2>1, <2>3 DEF Waiting, Issued, At, startVars
  <2> QED BY <1>2, <2>1, <2>3, <2>4 DEF AskedInv, At, startVars
<1>4. CASE Start("receive", "software") /\ Ask
  <2>1. /\ At(t, "receive") /\ Goto(t, "software") /\ got_start_trg' = TRUE
        /\ UNCHANGED got_software_trg /\ starts' = starts + 1
    BY <1>4 DEF Start, Step, Ask
  <2>2. Issued' = Issued
    BY <1>1, <2>1 DEF Issued, At
  <2>3. Waiting' = 0 \/ Waiting' = 1
    BY DEF Waiting
  <2>n. starts' = starts + 1
    BY <2>1
  <2>4. sequences' + Waiting' + Issued' <= starts' + Brought
    BY <1>a, <1>2, <2>n, <2>2, <2>3
  <2> QED BY <1>1, <2>1, <2>4 DEF AskedInv, At
<1>5. CASE Start("start", "clear") /\ UNCHANGED starts
  <2>1. /\ At(t, "start") /\ Goto(t, "clear") /\ got_start_trg' = TRUE
        /\ UNCHANGED <<got_software_trg, starts>>
    BY <1>5 DEF Start, Step
  <2>2. Issued = 1 /\ Issued' = 0
    BY <1>1, <2>1 DEF AskedInv, Issued, At
  <2>3. Waiting' = 0 \/ Waiting' = 1
    BY DEF Waiting
  <2>n. starts' = starts
    BY <2>1
  <2>4. sequences' + Waiting' + Issued' <= starts' + Brought
    BY <1>a, <1>2, <2>n, <2>2, <2>3
  <2> QED BY <1>1, <2>1, <2>4 DEF AskedInv, At
<1>6. CASE /\ Step(t, "clear", "check") /\ got_software_trg' = FALSE
           /\ UNCHANGED <<got_start_trg, starts>>
  <2>1. At(t, "clear") /\ Goto(t, "check")
    BY <1>6 DEF Step
  <2>2. Issued' = 0 /\ Waiting' = Waiting
    BY <1>1, <1>6, <2>1 DEF Issued, Waiting
  <2> QED BY <1>0, <1>1, <1>2, <1>6, <2>1, <2>2 DEF AskedInv, At
<1> QED BY <1>3, <1>4, <1>5, <1>6 DEF StarterLoop

(* The frontend issues triggers, and otherwise leaves them alone; a run    *)
(* begins with TriggerLoop and StarterLoop where they start.               *)
LEMMA FrontendAsked == ASSUME TypeInv, AskedInv, Frontend PROVE AskedInv'
<1> DEFINE m == "main"
<1>0. /\ pc \in [Thread -> Label] /\ idx \in [Thread -> Worker]
      /\ m \in Thread /\ "trigger" \in Thread \ {m} /\ "starter" \in Thread \ {m}
      /\ got_start_trg \in BOOLEAN /\ got_software_trg \in BOOLEAN
      /\ sequences \in Nat /\ starts \in Nat
      /\ Waiting \in 0..1 /\ Issued \in 0..1
  BY TypeParts DEF TypeInv, StateOK, Thread, FlagsOK, CountersOK, Waiting, Issued
<1>a. /\ sequences \in Nat /\ starts \in Nat /\ Waiting \in 0..1 /\ Issued \in 0..1
      /\ sequences + Waiting + Issued <= starts + Brought /\ Brought \in Nat
  BY <1>0 DEF AskedInv
<1>1. CASE UNCHANGED <<startVars, sequences>> /\ \E here, after : Moves(m, here, after)
  <2>1. pc'["trigger"] = pc["trigger"] /\ pc'["starter"] = pc["starter"]
    BY <1>0, <1>1, MovesNoOther
  <2> QED BY <1>1, <2>1, AskedApart DEF startVars
<1>2. CASE IssueTrigger
  <2>1. /\ Goto(m, "running") /\ starts' = starts + 1 /\ got_software_trg' = TRUE
        /\ UNCHANGED <<got_start_trg, sequences>>
    BY <1>2 DEF IssueTrigger, Step, Ask, roundVars
  <2>2. pc'["trigger"] = pc["trigger"] /\ pc'["starter"] = pc["starter"]
    BY <1>0, <2>1 DEF Goto
  <2>3. Waiting' = Waiting
    BY <2>1, <2>2 DEF Waiting
  <2>4. Issued' = 0 \/ Issued' = 1
    BY DEF Issued
  <2>n. starts' = starts + 1 /\ sequences' = sequences
    BY <2>1
  <2>5. sequences' + Waiting' + Issued' <= starts' + Brought
    BY <1>a, <2>n, <2>3, <2>4
  <2> QED BY <2>1, <2>2, <2>5 DEF AskedInv, At
<1>3. CASE /\ At(m, "idle")
           /\ pc' = [t \in Thread |-> IF t = m THEN "begin" ELSE "outer"]
           /\ UNCHANGED <<startVars, sequences>>
  <2>1. pc["trigger"] = "done" /\ pc["starter"] = "done"
    BY <1>3, Threads DEF TypeInv, IdleMeansDone, At
  <2>2. pc'["trigger"] = "outer" /\ pc'["starter"] = "outer"
    BY <1>0, <1>3
  <2>3. Waiting' = Waiting /\ Issued' = Issued
    BY <1>3, <2>1, <2>2 DEF Waiting, Issued, At, InSequence, startVars
  <2> QED BY <1>0, <1>3, <2>2, <2>3 DEF AskedInv, At, startVars
<1>4. CASE /\ \/ StartThreads(m, "threads", "workers")
              \/ StartWorkers(m, "workers", "stale")
              \/ AnyWorkersHaveEvent(m, "stale", "stale_flush", "running")
              \/ FlushEventData(m, "stale_flush", "stale_flag", "stale")
              \/ StopWorkers(m, "stop_workers", "stop_threads")
              \/ StopThreads(m, "stop_threads", "join_thread", "join")
           /\ UNCHANGED managerVars
  <2>1. UNCHANGED <<startVars, sequences>>
    BY <1>4 DEF managerVars, roundVars
  <2>2. \E here, after : Moves(m, here, after)
    BY <1>4 DEF StartThreads, StartWorkers, AnyWorkersHaveEvent, FlushEventData, FlushQueue,
           FlushFlag, StopWorkers, StopThreads, Moves
  <2> QED BY <1>1, <2>1, <2>2
<1>5. CASE (\E label : Goto(m, label)) /\ UNCHANGED <<startVars, sequences>>
  BY <1>1, <1>5 DEF Moves
<1>6. CASE BeginOfRun
  BY <1>3, <1>4, <1>5, <1>6 DEF BeginOfRun, OnList, MainStep, roundVars
<1>7. CASE EndOfRun
  BY <1>4, <1>5, <1>7 DEF EndOfRun, OnList, MainStep, roundVars
<1>8. CASE PauseResume \/ TakeEvent
  BY <1>5, <1>8 DEF PauseResume, TakeEvent, MainStep, Test, managerVars, roundVars
<1> QED BY <1>2, <1>6, <1>7, <1>8 DEF Frontend

LEMMA AskedStep == TypeInv /\ AskedInv /\ [Next]_vars => AskedInv'
<1> SUFFICES ASSUME TypeInv, AskedInv, [Next]_vars PROVE AskedInv'
  OBVIOUS
<1>1. CASE WorkerThreads \/ UNCHANGED vars
  <2>1. UNCHANGED <<pc, startVars, sequences>>
    BY <1>1 DEF WorkerThreads, WorkerStep, threadVars, vars, listVars, managerVars,
           roundVars
  <2> QED BY <2>1, AskedApart DEF startVars
<1> QED BY <1>1, RunLoopAsked, TriggerLoopAsked, BuilderLoopAsked, StarterLoopAsked,
           FrontendAsked DEF Next

(* TriggerLoop begins no more sequences than start triggers came, however  *)
(* the triggers race with the sequences, with pauses, and with the ends of *)
(* runs; each flag that began TRUE, as nobody initialises it, adds one     *)
(* over the whole life of the program.                                     *)
THEOREM SequencesAreAsked == Spec => []SequencesAsked
<1>1. TypeInv /\ AskedInv => SequencesAsked
  <2>1. SUFFICES ASSUME TypeInv, AskedInv PROVE SequencesAsked
    OBVIOUS
  <2>2. sequences \in Nat /\ starts \in Nat /\ Waiting \in Nat /\ Issued \in Nat
    BY <2>1, TypeParts DEF TypeInv, CountersOK, Waiting, Issued
  <2>3. sequences <= starts + Brought
    BY <2>1, <2>2 DEF AskedInv
  <2>4. Early("software_trg") \in Nat /\ Early("start_trg") \in Nat
    BY DEF Early
  <2> QED BY <2>2, <2>3, <2>4 DEF SequencesAsked, Brought
<1>2. Init => AskedInv
  BY AskedInit
<1> QED BY <1>1, <1>2, TypeInit, TypeStep, AskedStep, PTL DEF Spec

-----------------------------------------------------------------------------
(* What each process leaves alone, for the proofs about the sequences.     *)

SequenceVars == <<flagVars, roundVars, packVars, packed>>

(* The step with which a run begins.                                       *)
FirstStep ==
    /\ At("main", "idle") /\ Construct
    /\ pc' = [t \in Thread |-> IF t = "main" THEN "begin" ELSE "outer"]
    /\ UNCHANGED <<idx, bundle, go_time, data, startVars, SequenceVars>>

(* Which places of the other threads a step of thread t keeps.             *)
KeepsOthers(t) == \A u \in Thread \ {t} : pc'[u] = pc[u] /\ idx'[u] = idx[u]

(* RunLoop touches the queues of the workers, and data_queue_.             *)
LEMMA RunLoopKeeps ==
    ASSUME TypeInv, RunLoop
    PROVE  /\ KeepsOthers("run")
           /\ UNCHANGED <<runVars, startVars, SequenceVars, triggers, captured, memory,
                          acquiring, controlVars, work, static_bundle>>
<1>1. PICK here \in Label, after \in Label : Moves("run", here, after)
  BY RunLoopMoves
<1>2. KeepsOthers("run")
  BY <1>1, Threads, MovesNoOther DEF TypeInv, StateOK, KeepsOthers
<1>3. UNCHANGED <<runVars, startVars, SequenceVars>>
  BY DEF RunLoop, RunWait, RunPush, Test, OnList, managerVars, outVars, SequenceVars
<1>4. UNCHANGED <<triggers, captured, memory, acquiring, controlVars, work, static_bundle>>
  BY DEF RunLoop, RunWait, RunPush, Test, OnList, AnyWorkersHaveEvent,
         AllWorkersHaveEvent, AnyWorkersHaveMultiEvent, GetEventData, FlushEventData,
         FlushQueue, FlushFlag, PopEvent, ClearQueue, ClearFlag, workerVars, deviceVars,
         controlVars
<1> QED BY <1>2, <1>3, <1>4

(* StarterLoop does nothing but ask.                                       *)
LEMMA StarterLoopKeeps ==
    ASSUME TypeInv, StarterLoop
    PROVE  /\ KeepsOthers("starter")
           /\ UNCHANGED <<runVars, data, SequenceVars, workerVars, bundle>>
<1>1. \E label : Goto("starter", label)
  BY DEF StarterLoop, Start, Test, Step
<1>2. KeepsOthers("starter")
  BY <1>1 DEF TypeInv, StateOK, KeepsOthers, Goto
<1> QED BY <1>2 DEF StarterLoop, Start, Test, Step, managerVars, outVars, SequenceVars

(* TriggerLoop reaches the workers only to trigger them.                   *)
LEMMA TriggerLoopKeeps ==
    ASSUME TypeInv, TriggerLoop
    PROVE  /\ KeepsOthers("trigger")
           /\ UNCHANGED <<runVars, data, packVars, packed, bundle, got_software_trg, starts>>
           /\ FireTriggers \/ UNCHANGED workerVars
<1>1. \E label : Goto("trigger", label)
  BY DEF TriggerLoop, BeginSequence, BeginRound, FireTriggers, EndRound, EndSequence,
         Await, SetFlag, Test, Step
<1>2. KeepsOthers("trigger")
  BY <1>1 DEF TypeInv, StateOK, KeepsOthers, Goto
<1> QED BY <1>2 DEF TriggerLoop, BeginSequence, BeginRound, FireTriggers, EndRound,
               EndSequence, Await, SetFlag, Test, Step, managerVars, startVars, outVars

(* BuilderLoop leaves the workers and the rounds alone.                    *)
LEMMA BuilderLoopKeeps ==
    ASSUME TypeInv, BuilderLoop
    PROVE  /\ KeepsOthers("builder")
           /\ UNCHANGED <<runVars, startVars, roundVars, sequence_in_progress, workerVars,
                          bundle>>
<1>1. \E label : Goto("builder", label)
  BY DEF BuilderLoop, NewTurn, TakeRound, RoundTaken, PushEvent, Test, Step
<1>2. KeepsOthers("builder")
  BY <1>1 DEF TypeInv, StateOK, KeepsOthers, Goto
<1> QED BY <1>2 DEF BuilderLoop, NewTurn, TakeRound, RoundTaken, PushEvent, Test, Step,
               managerVars, flagVars

(* The workers know nothing of the manager.                                *)
LEMMA WorkersKeep ==
    ASSUME WorkerThreads \/ UNCHANGED vars
    PROVE  UNCHANGED <<pc, idx, bundle, managerVars, triggers, controlVars>>
BY DEF WorkerThreads, WorkerStep, WorkLoop, Dump, Poll, Read, Finish, Push, Exit,
       deviceVars, controlVars, threadVars, vars, listVars

(* The frontend leaves sequences alone.                                    *)
LEMMA FrontendKeeps ==
    ASSUME TypeInv, Frontend
    PROVE  /\ UNCHANGED <<SequenceVars, bundle, triggers, static_bundle>>
           /\ FirstStep \/ KeepsOthers("main")
<1>0. pc \in [Thread -> Label] /\ idx \in [Thread -> Worker] /\ "main" \in Thread
  BY Threads DEF TypeInv, StateOK
<1>1. UNCHANGED <<SequenceVars, bundle, triggers, static_bundle>>
  BY DEF Frontend, BeginOfRun, EndOfRun, PauseResume, IssueTrigger, TakeEvent, MainStep,
         Step, Test, OnList, Construct, StartThreads, StartWorkers, StopWorkers,
         StopThreads, AnyWorkersHaveEvent, FlushEventData, FlushQueue, FlushFlag,
         StartThread, SetGoTime, AskToStop, ClearQueue, ClearFlag, workerVars, deviceVars,
         managerVars, outVars, SequenceVars
<1>2. FirstStep \/ \E here, after : Moves("main", here, after)
  <2>1. CASE BeginOfRun
    BY <2>1, <1>1 DEF BeginOfRun, OnList, MainStep, StartThreads, StartWorkers, FirstStep,
         AnyWorkersHaveEvent, FlushEventData, FlushQueue, FlushFlag, Moves
  <2>2. CASE EndOfRun
    BY <2>2 DEF EndOfRun, OnList, MainStep, StopWorkers, StopThreads, Moves
  <2>3. CASE PauseResume \/ IssueTrigger \/ TakeEvent
    BY <2>3 DEF PauseResume, IssueTrigger, TakeEvent, MainStep, Step, Test, Moves
  <2> QED BY <2>1, <2>2, <2>3 DEF Frontend
<1>3. (\E here, after : Moves("main", here, after)) => KeepsOthers("main")
  BY <1>0, MovesNoOther DEF KeepsOthers
<1> QED BY <1>1, <1>2, <1>3

-----------------------------------------------------------------------------
(* Steady start triggers: from one to the end of its sequence, the run     *)
(* goes on.  A flag that is TRUE before anything assigned it may drive a   *)
(* sequence too: it begins when the run goes on, unless it is spoilt.      *)

Running == {"running", "get_current", "pop_current"}
Opening == {"begin", "threads", "workers", "stale", "stale_flush", "stale_flag"}

Driving ==
    \/ got_start_trg \/ got_software_trg \/ pc["starter"] \in {"start", "clear"}
    \/ pc["trigger"] \notin {"outer", "check", "start", "done"} \/ ~builder_has_finished

(* A sequence has begun, and its event is not packed.                      *)
Sequencing ==
    \/ pc["trigger"] \notin {"outer", "check", "start", "done", "begin"}
    \/ ~builder_has_finished

Driven ==
    Driving =>
        \/ go_time /\ pc["main"] \in Running
        \/ /\ pc["main"] \in Opening \cup {"idle"} /\ ~Sequencing
           /\ pc["main"] \notin {"idle", "begin"} => go_time

(* The run goes on in every sequence.                                      *)
LEMMA SequenceDriven ==
    ASSUME Driven, Sequencing
    PROVE  go_time /\ pc["main"] \in Running
BY DEF Driven, Driving, Sequencing

(* At first no sequence has begun.                                         *)
LEMMA DrivenInit == ASSUME Init PROVE Driven
BY DEF Init, Driven, Sequencing, Thread

(* What begins no sequence and stops no run.                               *)
LEMMA DrivenKept ==
    ASSUME Driven, Driving' => Driving, Sequencing' => Sequencing, UNCHANGED go_time,
           \/ pc'["main"] = pc["main"]
           \/ pc["main"] \in Running /\ pc'["main"] \in Running
    PROVE  Driven'
<1>1. Running \cap (Opening \cup {"idle"}) = {}
  BY DEF Running, Opening
<1> QED BY <1>1 DEF Driven

(* A sequence is begun only by a start trigger that is up, and the run     *)
(* goes on by then.                                                        *)
LEMMA TriggerLoopDriven == ASSUME TypeInv, Driven, TriggerLoop, ~Spoils PROVE Driven'
<1> DEFINE t == "trigger"
<1>0. pc \in [Thread -> Label] /\ t \in Thread
  BY Threads DEF TypeInv, StateOK
<1>1. /\ pc'["main"] = pc["main"] /\ pc'["starter"] = pc["starter"]
      /\ UNCHANGED <<go_time, got_software_trg>>
      /\ got_start_trg' => got_start_trg
  <2>1. KeepsOthers(t) /\ UNCHANGED <<go_time, got_software_trg>>
    BY TriggerLoopKeeps DEF runVars
  <2>2. got_start_trg' => got_start_trg
    BY DEF TriggerLoop, BeginSequence, BeginRound, FireTriggers, EndRound, EndSequence,
           Await, SetFlag, Test, managerVars, startVars
  <2>3. pc'["main"] = pc["main"] /\ pc'["starter"] = pc["starter"]
    BY <2>1 DEF KeepsOthers, Thread
  <2> QED BY <2>1, <2>2, <2>3
<1>2. CASE Driving
  <2>1. CASE go_time /\ pc["main"] \in Running
    BY <1>1, <2>1 DEF Driven
  <2>2. CASE ~(go_time /\ pc["main"] \in Running)
    <3>1. /\ pc["main"] \in Opening \cup {"idle"} /\ ~Sequencing
          /\ pc["main"] \notin {"idle", "begin"} => go_time
      BY <1>2, <2>2 DEF Driven
    <3>2. pc["main"] \notin Running
      BY <3>1 DEF Opening, Running
    <3>3. pc[t] = "begin" => pc'[t] = "begin"
      BY <3>2 DEF Spoils, Running, At
    <3>4. \/ Test(t, "outer", thread_live, "check", "done")
          \/ Test(t, "check", go_time, "start", "outer")
          \/ Test(t, "start", got_start_trg, "begin", "check")
      BY <1>0, <3>1, <3>3 DEF Sequencing, TriggerLoop, BeginSequence, BeginRound,
             FireTriggers, EndRound, EndSequence, Await, SetFlag, Test, Step, At, Goto
    <3>5. /\ pc'[t] \in {"outer", "check", "start", "done", "begin"}
          /\ UNCHANGED builder_has_finished
      BY <1>0, <3>4 DEF Test, Goto, managerVars, flagVars
    <3>6. ~Sequencing'
      BY <3>1, <3>5 DEF Sequencing
    <3> QED BY <1>1, <3>1, <3>6 DEF Driven
  <2> QED BY <2>1, <2>2
<1>3. CASE ~Driving
  <2>1. /\ \/ Test(t, "outer", thread_live, "check", "done")
           \/ Test(t, "check", go_time, "start", "outer")
           \/ Test(t, "start", got_start_trg, "begin", "check")
    BY <1>3 DEF Driving, TriggerLoop, BeginSequence, BeginRound, FireTriggers, EndRound,
           EndSequence, Await, SetFlag, Test, Step, At
  <2>2. /\ pc'[t] \in {"outer", "check", "start", "done"}
        /\ UNCHANGED builder_has_finished
    BY <1>0, <1>3, <2>1 DEF Driving, Test, Goto, managerVars, flagVars
  <2>3. ~Driving'
    <3>1. ~got_start_trg /\ ~got_software_trg /\ builder_has_finished
      BY <1>3 DEF Driving
    <3>2. ~got_start_trg' /\ ~got_software_trg' /\ builder_has_finished'
      BY <1>1, <2>2, <3>1
    <3> QED BY <1>1, <1>3, <2>2, <3>2 DEF Driving
  <2> QED BY <2>3 DEF Driven
<1> QED BY <1>2, <1>3

(* A start trigger comes while the run goes on.                            *)
LEMMA StarterLoopDriven == ASSUME Steady, TypeInv, Driven, StarterLoop PROVE Driven'
<1> DEFINE t == "starter"
<1>0. pc \in [Thread -> Label] /\ t \in Thread
  BY Threads DEF TypeInv, StateOK
<1>1. /\ pc'["main"] = pc["main"] /\ pc'["trigger"] = pc["trigger"]
      /\ UNCHANGED <<go_time, builder_has_finished>>
  BY StarterLoopKeeps DEF KeepsOthers, Thread, runVars, SequenceVars, flagVars
<1>2. CASE Driving
  BY <1>1, <1>2, DrivenKept DEF Sequencing
<1>3. CASE Start(t, "software") /\ Ask
  BY <1>1, <1>3 DEF Start, Ask, Running, Driven
<1>4. CASE ~Driving /\ ~Ask
  <2>1. \/ Test(t, "outer", thread_live, "check", "done")
        \/ Test(t, "check", go_time /\ thread_live, "receive", "outer")
        \/ Test(t, "receive", TRUE, "software", "software")
        \/ Test(t, "software", got_software_trg, "start", "check")
    BY <1>4 DEF Driving, StarterLoop, Start, Step, At
  <2>2. /\ pc'[t] \notin {"start", "clear"}
        /\ UNCHANGED <<got_start_trg, got_software_trg>>
    BY <1>0, <1>4, <2>1 DEF Driving, Test, Goto, managerVars, startVars
  <2>3. ~Driving'
    BY <1>1, <1>4, <2>2 DEF Driving
  <2> QED BY <2>3 DEF Driven
<1>5. CASE Ask
  BY <1>1, <1>5 DEF Ask, Running, Driven
<1> QED BY <1>2, <1>4, <1>5

(* No run is paused or ended in a sequence.                                *)
LEMMA FrontendDriven == ASSUME Steady, TypeInv, Driven, Frontend PROVE Driven'
<1> DEFINE m == "main"
<1>0. /\ pc \in [Thread -> Label] /\ m \in Thread
      /\ UNCHANGED builder_has_finished
  BY Threads, FrontendKeeps DEF TypeInv, StateOK, SequenceVars, flagVars
<1>1. CASE FirstStep
  <2>1. builder_has_finished
    BY <1>1, SequenceDriven DEF Sequencing, FirstStep, At, Running
  <2>2. ~Sequencing' /\ pc'[m] = "begin"
    BY <1>0, <1>1, <2>1 DEF Sequencing, FirstStep, Thread
  <2> QED BY <2>2 DEF Driven, Opening
<1>2. CASE IssueTrigger
  <2>1. pc'[m] = "running" /\ go_time'
    BY <1>0, <1>2 DEF IssueTrigger, Ask, Step, Goto, runVars
  <2> QED BY <2>1 DEF Driven, Running
<1>3. CASE ~FirstStep /\ ~IssueTrigger
  <2>1. KeepsOthers(m) /\ UNCHANGED startVars
    <3>1. UNCHANGED startVars
      BY <1>3 DEF Frontend, BeginOfRun, EndOfRun, PauseResume, TakeEvent, MainStep,
             Test, OnList, managerVars
    <3> QED BY <1>3, <3>1, FrontendKeeps
  <2>2. Driving' => Driving
    BY <1>0, <2>1 DEF Driving, KeepsOthers, Thread, startVars
  <2>3. CASE ~Driving
    BY <2>2, <2>3 DEF Driven
  <2>4. Sequencing' => Sequencing
    BY <1>0, <2>1 DEF Sequencing, KeepsOthers, Thread
  <2>5. CASE Driving /\ pc[m] \in Running
    <3>1. ~BetweenSequences
      BY <2>5 DEF Driving, BetweenSequences
    <3>2. TakeEvent
      BY <1>3, <2>5, <3>1 DEF Running, Frontend, BeginOfRun, EndOfRun, PauseResume, FirstStep,
             MainStep, OnList, StartThreads, StartWorkers, AnyWorkersHaveEvent, StopWorkers,
             StopThreads, FlushEventData, FlushQueue, FlushFlag, At
    <3>3. pc'[m] \in Running /\ UNCHANGED go_time
      BY <1>0, <3>2 DEF TakeEvent, Test, MainStep, Goto, managerVars, runVars, Running
    <3> QED BY <2>2, <2>5, <2>4, <3>3, DrivenKept
  <2>6. CASE Driving /\ pc[m] \notin Running
    <3>1. /\ pc[m] \in Opening \cup {"idle"} /\ ~Sequencing
          /\ pc[m] \notin {"idle", "begin"} => go_time
      BY <2>6 DEF Driven
    <3>2. /\ pc'[m] \in (Opening \ {"begin"}) \cup {"running"}
          /\ go_time' \/ (pc[m] # "begin" /\ UNCHANGED go_time)
          /\ pc[m] # "idle"
      <4>1. BeginOfRun
        BY <1>3, <3>1 DEF Opening, Frontend, EndOfRun, PauseResume, TakeEvent, MainStep,
               OnList, StopWorkers, StopThreads, Test, At
      <4>2. ~(At(m, "idle") /\ Construct)
        BY <1>3, <4>1, FrontendKeeps DEF BeginOfRun, FirstStep, At, MainStep, OnList,
               StartThreads, StartWorkers, AnyWorkersHaveEvent, FlushEventData, FlushQueue,
               FlushFlag, SequenceVars, outVars, managerVars
      <4> QED BY <1>0, <4>1, <4>2 DEF BeginOfRun, MainStep, OnList, StartThreads,
               StartWorkers, AnyWorkersHaveEvent, FlushEventData, FlushQueue, FlushFlag,
               NextWorker, Goto, At, Opening, managerVars, runVars
    <3>3. ~Sequencing'
      BY <2>4, <3>1
    <3> QED BY <3>1, <3>2, <3>3 DEF Driven, Running
  <2> QED BY <2>3, <2>5, <2>6
<1> QED BY <1>1, <1>2, <1>3

(* No step of any thread leaves a sequence without its run.                *)
LEMMA DrivenStep ==
    ASSUME Steady
    PROVE  TypeInv /\ Driven /\ [Next]_vars /\ ~Spoils => Driven'
<1> SUFFICES ASSUME TypeInv, Driven, [Next]_vars, ~Spoils PROVE Driven'
  OBVIOUS
<1>1. CASE RunLoop
  <2>1. /\ KeepsOthers("run") /\ UNCHANGED <<go_time, startVars, builder_has_finished>>
    BY <1>1, RunLoopKeeps DEF runVars, SequenceVars, flagVars
  <2> QED BY <2>1, DrivenKept DEF Driving, Sequencing, KeepsOthers, Thread, startVars
<1>2. CASE BuilderLoop
  <2>1. /\ KeepsOthers("builder") /\ UNCHANGED <<go_time, startVars>>
    BY <1>2, BuilderLoopKeeps DEF runVars
  <2>2. builder_has_finished => builder_has_finished'
    BY <1>2 DEF BuilderLoop, NewTurn, TakeRound, RoundTaken, PushEvent, Test, managerVars,
           flagVars
  <2> QED BY <2>1, <2>2, DrivenKept DEF Driving, Sequencing, KeepsOthers, Thread, startVars
<1>3. CASE WorkerThreads \/ UNCHANGED vars
  <2>1. UNCHANGED <<pc, go_time, startVars, builder_has_finished>>
    BY <1>3, WorkersKeep DEF managerVars, runVars, flagVars
  <2> QED BY <2>1, DrivenKept DEF Driving, Sequencing, startVars
<1> QED BY <1>1, <1>2, <1>3, TriggerLoopDriven, StarterLoopDriven, FrontendDriven DEF Next

-----------------------------------------------------------------------------
(* When BeginOfRun has returned, every digitizer acquires and every worker *)
(* polls.                                                                  *)

(* BeginOfRun has spawned the worker's thread; it has set its go_time_.    *)
Spawned(w) ==
    \/ pc["main"] \in (Opening \cup Running) \ {"begin", "threads"}
    \/ At("main", "threads") /\ w < idx["main"]

Released(w) ==
    \/ pc["main"] \in (Opening \cup Running) \ {"begin", "threads", "workers"}
    \/ At("main", "workers") /\ w < idx["main"]

Started ==
    \A w \in Worker :
        /\ pc["main"] \in Opening \cup Running =>
              worker_live[w] /\ (acquiring[w] \/ Device(w).runs_for = "loop")
        /\ Spawned(w) => acquiring[w]
        /\ Released(w) => worker_go[w]

(* At first there is no run.                                               *)
LEMMA StartedInit == ASSUME Init PROVE Started
BY DEF Init, Started, Spawned, Released, At, Thread, Opening, Running

(* Once the frontend runs, all acquire and poll.                           *)
LEMMA RunningStarted ==
    ASSUME Started, pc["main"] \in Running, NEW w \in Worker
    PROVE  acquiring[w] /\ worker_live[w] /\ worker_go[w] /\ Polling(w)
BY DEF Started, Spawned, Released, Polling, Running, Opening

(* A step that starts and stops nothing.                                   *)
LEMMA StartedKept ==
    ASSUME Started, pc'["main"] = pc["main"], idx'["main"] = idx["main"],
           UNCHANGED <<acquiring, controlVars>>
    PROVE  Started'
BY DEF Started, Spawned, Released, At, controlVars

(* A worker leaves its loop, and stops acquiring, only when asked to.      *)
LEMMA WorkersStarted == ASSUME TypeInv, Started, WorkerThreads PROVE Started'
<1>1. UNCHANGED <<pc, idx, controlVars>>
  BY WorkersKeep
<1>2. PICK v \in Worker : WorkLoop(v)
  BY DEF WorkerThreads, WorkerStep
<1>3. CASE ~Exit(v)
  <2>1. UNCHANGED acquiring
    BY <1>2, <1>3 DEF WorkLoop, Dump, Poll, Read, Finish, Push, deviceVars
  <2> QED BY <1>1, <2>1, StartedKept
<1>4. CASE Exit(v)
  <2>1. ~worker_live[v]
    BY <1>4 DEF Exit, Leaving
  <2>2. pc["main"] \notin Opening \cup Running
    BY <2>1 DEF Started
  <2> QED BY <1>1, <2>2 DEF Started, Spawned, Released, At, Opening
<1> QED BY <1>3, <1>4

(* BeginOfRun starts every worker before it returns.                       *)
LEMMA FrontendStarted == ASSUME TypeInv, Started, Frontend PROVE Started'
<1> DEFINE m == "main"
           v == idx[m]
<1>0. /\ pc \in [Thread -> Label] /\ idx \in [Thread -> Worker] /\ m \in Thread
      /\ v \in 1..NWorkers /\ NWorkers \in Nat \ {0} /\ Worker = 1..NWorkers
      /\ acquiring \in [Worker -> BOOLEAN] /\ worker_go \in [Worker -> BOOLEAN]
      /\ worker_live \in [Worker -> BOOLEAN]
  BY Threads, WorkersAssumption DEF TypeInv, StateOK, WorkersTypeOK, Worker
<1>1. CASE FirstStep
  <2>1. pc'[m] = "begin" /\ \A w \in Worker : worker_live'[w]
        /\ (acquiring'[w] \/ Device(w).runs_for = "loop")
    BY <1>0, <1>1 DEF FirstStep, Construct, OnEach, NewAcquiring
  <2> QED BY <2>1 DEF Started, Spawned, Released, At
<1>2. CASE StartThreads(m, "threads", "workers")
  <2>1. /\ pc[m] = "threads" /\ UNCHANGED worker_go
        /\ \/ v = NWorkers /\ pc'[m] = "workers" /\ idx'[m] = 1
           \/ v # NWorkers /\ pc'[m] = "threads" /\ idx'[m] = v + 1
        /\ \A w \in Worker : /\ worker_live[w] => worker_live'[w]
                             /\ acquiring[w] => acquiring'[w]
        /\ Device(v).runs_for = "loop" => acquiring'[v]
    BY <1>0, <1>2 DEF StartThreads, StartThread, NextWorker, Goto, At
  <2>2. /\ \A w \in Worker : worker_live[w] /\ (acquiring[w] \/ Device(w).runs_for = "loop")
        /\ \A w \in Worker : w < v => acquiring[w]
    BY <2>1 DEF Started, Spawned, Opening, At
  <2>3. acquiring'[v]
    BY <1>0, <2>1, <2>2
  <2>4. \A w \in Worker : Spawned(w)' => w < v \/ w = v
    BY <1>0, <2>1 DEF Spawned, At, Running
  <2>5. \A w \in Worker : ~Released(w)'
    BY <1>0, <2>1 DEF Released, At, Running
  <2>6. \A w \in Worker : Spawned(w)' => acquiring'[w]
    BY <2>1, <2>2, <2>3, <2>4
  <2>7. \A w \in Worker : worker_live'[w] /\ (acquiring'[w] \/ Device(w).runs_for = "loop")
    BY <2>1, <2>2
  <2> QED BY <2>5, <2>6, <2>7 DEF Started
<1>3. CASE StartWorkers(m, "workers", "stale")
  <2>1. /\ pc[m] = "workers" /\ UNCHANGED <<worker_live, acquiring>>
        /\ \/ v = NWorkers /\ pc'[m] = "stale"
           \/ v # NWorkers /\ pc'[m] = "workers" /\ idx'[m] = v + 1
        /\ \A w \in Worker : worker_go[w] \/ w = v => worker_go'[w]
    BY <1>0, <1>3 DEF StartWorkers, SetGoTime, NextWorker, Goto, At, deviceVars
  <2>2. /\ \A w \in Worker : worker_live[w] /\ acquiring[w]
        /\ \A w \in Worker : w < v => worker_go[w]
    BY <2>1 DEF Started, Spawned, Released, Opening, At
  <2>3. \A w \in Worker : Released(w)' => w < v \/ w = v
    BY <1>0, <2>1 DEF Released, At, Running
  <2>4. \A w \in Worker : Released(w)' => worker_go'[w]
    BY <2>1, <2>2, <2>3
  <2> QED BY <2>1, <2>2, <2>4 DEF Started
<1>4. CASE MainStep("begin", "threads") /\ UNCHANGED workerVars
  <2>1. pc[m] = "begin" /\ pc'[m] = "threads" /\ idx'[m] = 1
    BY <1>0, <1>4 DEF MainStep, Goto, At
  <2> QED BY <1>0, <1>4, <2>1 DEF Started, Spawned, Released, At, Opening, workerVars
<1>5. CASE /\ UNCHANGED <<acquiring, controlVars>>
           /\ \/ pc[m] \in {"stale", "stale_flush", "stale_flag"} \cup Running
              \/ pc'[m] \notin Opening \cup Running
           /\ pc'[m] \notin {"begin", "threads", "workers"}
  BY <1>5 DEF Started, Spawned, Released, At, Opening, Running, controlVars
<1>6. CASE \/ AnyWorkersHaveEvent(m, "stale", "stale_flush", "running")
           \/ FlushEventData(m, "stale_flush", "stale_flag", "stale")
  <2>1. /\ UNCHANGED <<acquiring, controlVars>>
        /\ pc[m] \in {"stale", "stale_flush", "stale_flag"}
        /\ pc'[m] \in {"stale", "stale_flush", "stale_flag", "running"}
    BY <1>0, <1>6 DEF AnyWorkersHaveEvent, FlushEventData, FlushQueue, FlushFlag, ClearQueue,
           ClearFlag, NextWorker, Goto, At, workerVars, deviceVars, controlVars
  <2> QED BY <1>5, <2>1
<1>7. CASE EndOfRun
  <2>1. pc'[m] \in {"end", "stop_workers", "stop_threads", "join_thread", "join", "idle"}
    BY <1>0, <1>7 DEF EndOfRun, OnList, MainStep, StopWorkers, StopThreads, NextWorker, Goto
  <2> QED BY <2>1 DEF Started, Spawned, Released, At, Opening, Running
<1>8. CASE PauseResume \/ IssueTrigger \/ TakeEvent
  <2>1. UNCHANGED workerVars /\ pc[m] \in Running /\ pc'[m] \in Running
    BY <1>0, <1>8 DEF PauseResume, IssueTrigger, TakeEvent, MainStep, Step, Test, Goto, At,
           Running
  <2> QED BY <1>5, <2>1 DEF workerVars, controlVars, Running
<1>9. CASE BeginOfRun
  BY <1>1, <1>2, <1>3, <1>4, <1>6, <1>9, FrontendKeeps
     DEF BeginOfRun, OnList, FirstStep, SequenceVars, outVars
<1> QED BY <1>7, <1>8, <1>9 DEF Frontend

(* No other thread stops a worker.                                         *)
LEMMA StartedStep == TypeInv /\ Started /\ [Next]_vars => Started'
<1> SUFFICES ASSUME TypeInv, Started, [Next]_vars PROVE Started'
  OBVIOUS
<1>1. CASE RunLoop
  BY <1>1, RunLoopKeeps, StartedKept DEF KeepsOthers, Thread
<1>2. CASE TriggerLoop
  <2>1. UNCHANGED <<acquiring, controlVars>>
    BY <1>2, TriggerLoopKeeps DEF FireTriggers, Trigger, workerVars, controlVars
  <2> QED BY <1>2, <2>1, TriggerLoopKeeps, StartedKept DEF KeepsOthers, Thread
<1>3. CASE BuilderLoop
  BY <1>3, BuilderLoopKeeps, StartedKept DEF KeepsOthers, Thread, workerVars, controlVars
<1>4. CASE StarterLoop
  BY <1>4, StarterLoopKeeps, StartedKept DEF KeepsOthers, Thread, workerVars, controlVars
<1>5. CASE UNCHANGED vars
  BY <1>5, StartedKept DEF vars, listVars, controlVars
<1> QED BY <1>1, <1>2, <1>3, <1>4, <1>5, WorkersStarted, FrontendStarted DEF Next

-----------------------------------------------------------------------------
(* The history of aims has an entry for each trigger.                      *)
Aimed == Len(aim) = triggers

(* FireTriggers adds to the history what it counts.                        *)
LEMMA AimedStep == TypeInv /\ Aimed /\ [Next]_vars => Aimed'
<1> SUFFICES ASSUME TypeInv, Aimed, [Next]_vars PROVE Aimed'
  OBVIOUS
<1>1. CASE FireTriggers
  <2>1. \/ UNCHANGED <<triggers, aim>>
        \/ triggers' = triggers + 1 /\ aim' = Append(aim, <<sequences, mux>>)
    BY <1>1 DEF FireTriggers, Trigger, workerVars
  <2>2. aim \in Seq(Nat \X Round)
    BY TypeParts DEF TypeInv, CountersOK
  <2>3. Len(Append(aim, <<sequences, mux>>)) = Len(aim) + 1
    BY <2>2
  <2> QED BY <2>1, <2>3 DEF Aimed
<1>2. CASE TriggerLoop /\ ~FireTriggers
  <2>1. UNCHANGED aim
    BY <1>2 DEF TriggerLoop, BeginSequence, BeginRound, EndRound, EndSequence, Await,
           SetFlag, Test, Step, managerVars, roundVars
  <2> QED BY <1>2, <2>1, TriggerLoopKeeps DEF Aimed, workerVars
<1>3. CASE ~TriggerLoop
  <2>1. UNCHANGED <<triggers, aim>>
    BY <1>3, RunLoopKeeps, BuilderLoopKeeps, StarterLoopKeeps, FrontendKeeps, WorkersKeep
       DEF Next, SequenceVars, roundVars, workerVars, managerVars
  <2> QED BY <2>1 DEF Aimed
<1> QED BY <1>1, <1>2, <1>3

-----------------------------------------------------------------------------
(* TriggerLoop and BuilderLoop take turns: the flags between them are one  *)
(* token, which a round passes to BuilderLoop (mux_round_configured_) and  *)
(* gets back (got_round_data_).                                            *)

(* Rounds of this sequence that BuilderLoop has taken.                     *)
Taken == IF pc["builder"] \in {"check", "outer", "done", "turn"} THEN 0 ELSE seq_index

(* No sequence goes on, for either of them.                                *)
Idling ==
    /\ ~sequence_in_progress /\ builder_has_finished
    /\ Taken = 0 /\ ~mux_round_configured
    /\ pc["builder"] \in {"outer", "check", "done", "turn", "progress", "over", "finished"}

(* BuilderLoop has done with n rounds, and waits for another.              *)
Caught(n) ==
    /\ Taken = n /\ pc["builder"] \notin {"take", "round_data"}
    /\ At("builder", "round_taken") \/ ~mux_round_configured

(* The last trigger was for this round of this sequence.                   *)
Shot == Len(aim) > 0 /\ aim[Len(aim)] = <<sequences, round>>

InRound == {"round", "reset", "set_mux", "fire", "configured", "await", "end"}

TakesTurns ==
    LET p == pc["trigger"]  b == pc["builder"]
    IN  /\ p \in {"outer", "check", "start", "done", "begin", "unfinish", "unconfigure",
                  "forget", "await_builder"} \cup InRound
        /\ p \in {"outer", "check", "start", "done", "begin"} => Idling
        /\ p = "unfinish" => sequence_in_progress /\ builder_has_finished
        /\ p = "unconfigure" => sequence_in_progress /\ ~builder_has_finished
        /\ p \in {"unfinish", "unconfigure"} =>
              /\ round = 1 /\ Taken = 0 /\ ~mux_round_configured
              /\ b \in {"outer", "check", "done", "turn", "progress", "going",
                        "is_configured", "over", "finished"}
        /\ p \in InRound => /\ sequence_in_progress /\ ~builder_has_finished
                            /\ b # "push"
                            /\ b \in {"over", "finished"} => Taken = 0
        /\ p \in {"round", "reset", "set_mux", "fire"} => Caught(round - 1)
        /\ p \in {"set_mux", "fire", "configured"} => ~got_round_data
        /\ p = "fire" => mux = round
        /\ p = "configured" => /\ Taken = round - 1 /\ Shot /\ ~mux_round_configured
                               /\ b \notin {"take", "round_data", "round_taken"}
        /\ p = "await" =>
              \/ /\ Taken = round - 1 /\ Shot /\ mux_round_configured /\ ~got_round_data
                 /\ b \notin {"round_data", "round_taken"}
              \/ Taken = round /\ b = "round_data" /\ mux_round_configured /\ ~got_round_data
              \/ Caught(round) /\ got_round_data
        /\ p = "end" => Caught(NRounds)
        /\ p \in {"forget", "await_builder"} =>
              \/ Idling
              \/ Caught(NRounds) /\ ~sequence_in_progress /\ ~builder_has_finished

(* Every digitizer holds at least one event.                               *)
LEMMA DeviceDepth ==
    ASSUME NEW w \in Worker
    PROVE  Device(w).depth \in Nat \ {0}
<1>1. Kind[w] \in {"sis_3350", "sis_3302", "caen_1785", "caen_6742", "drs4", "caen_1742",
                   "sis_3316"}
  BY KindIsKind DEF Kinds, DeviceClass
<1>2. Device(w) \in {Sis3302, Sis3350, Caen1785, Caen6742, Drs4, Caen1742, Sis3316}
  BY <1>1 DEF Device, DeviceClass
<1>3. /\ Sis3302.depth = 1 /\ Sis3350.depth = 1 /\ Sis3316.depth = 1 /\ Drs4.depth = 1
      /\ Caen1785.depth = BufferDepth /\ Caen6742.depth = BufferDepth
      /\ Caen1742.depth = BufferDepth
  BY DEF Sis3302, Sis3350, Caen1785, Caen6742, Drs4, Caen1742, Sis3316, Common
<1> QED BY <1>2, <1>3, WorkersAssumption

(* At first there is no sequence.                                          *)
LEMMA TurnsInit == ASSUME Init PROVE TakesTurns
<1>1. pc["trigger"] = "done" /\ pc["builder"] = "done"
  BY DEF Init, Thread
<1> QED BY <1>1 DEF Init, TakesTurns, Idling, Taken, InRound

(* A step that has no part in it.                                          *)
LEMMA TurnsKept ==
    ASSUME TakesTurns, pc'["trigger"] = pc["trigger"], pc'["builder"] = pc["builder"],
           UNCHANGED <<flagVars, roundVars, seq_index>>
    PROVE  TakesTurns'
BY DEF TakesTurns, Idling, Caught, Taken, Shot, At, flagVars, roundVars

(* What TriggerLoop does before a sequence and after one.                  *)
LEMMA RestTurns ==
    ASSUME Paced, TypeInv, Driven, TakesTurns,
           \/ Test("trigger", "outer", thread_live, "check", "done")
           \/ Test("trigger", "check", go_time, "start", "outer")
           \/ Test("trigger", "start", got_start_trg, "begin", "check")
           \/ EndSequence
    PROVE  TakesTurns'
<1> DEFINE t == "trigger"
<1>0. /\ pc \in [Thread -> Label] /\ t \in Thread /\ "builder" \in Thread \ {t}
  BY DEF TypeInv, StateOK, Thread
<1>1. ASSUME NEW here, NEW after, At(t, here), Goto(t, after)
      PROVE  pc[t] = here /\ pc'[t] = after /\ pc'["builder"] = pc["builder"]
  BY <1>0, <1>1 DEF At, Goto
<1>2. CASE \/ Test(t, "outer", thread_live, "check", "done")
           \/ Test(t, "check", go_time, "start", "outer")
           \/ Test(t, "start", got_start_trg, "begin", "check")
  <2>1. /\ pc[t] \in {"outer", "check", "start"}
        /\ pc'[t] \in {"check", "done", "start", "outer", "begin"}
        /\ pc'["builder"] = pc["builder"] /\ UNCHANGED <<flagVars, seq_index>>
    BY <1>1, <1>2 DEF Test, managerVars, packVars
  <2> QED BY <2>1 DEF TakesTurns, Idling, Taken, InRound, flagVars
<1>3. CASE EndSequence
  <2>1. UNCHANGED <<builder_has_finished, mux_round_configured, seq_index>>
    BY <1>3 DEF EndSequence, SetFlag, Await, Test, managerVars, packVars, flagVars
  <2>3. CASE /\ SetFlag("end", "forget", FALSE, builder_has_finished,
                        mux_round_configured, got_round_data)
             /\ UNCHANGED roundVars
    <3>1. /\ pc[t] = "end" /\ pc'[t] = "forget" /\ pc'["builder"] = pc["builder"]
          /\ ~sequence_in_progress'
      BY <1>1, <2>3 DEF SetFlag, Step
    <3> QED BY <2>1, <3>1 DEF TakesTurns, Caught, Taken, InRound, At
  <2>4. CASE /\ Step(t, "forget", "await_builder") /\ UNCHANGED flagVars
    <3>1. /\ pc[t] = "forget" /\ pc'[t] = "await_builder" /\ pc'["builder"] = pc["builder"]
          /\ UNCHANGED sequence_in_progress
      BY <1>1, <2>4 DEF Step, flagVars
    <3> QED BY <2>1, <3>1 DEF TakesTurns, Idling, Caught, Taken, InRound, At
  <2>5. CASE Await(t, "await_builder", builder_has_finished \/ ~go_time, "check")
    <3>1. /\ pc[t] = "await_builder" /\ pc'[t] = "check" /\ pc'["builder"] = pc["builder"]
          /\ UNCHANGED sequence_in_progress
      BY <1>1, <2>5 DEF Await, Test, managerVars, flagVars
    <3>2. go_time
      BY <3>1, SequenceDriven DEF Sequencing
    <3>3. Idling
      BY <2>5, <3>1, <3>2 DEF TakesTurns, Await
    <3> QED BY <2>1, <3>1, <3>3 DEF TakesTurns, Idling, Taken, InRound
  <2> QED BY <1>3, <2>3, <2>4, <2>5 DEF EndSequence
<1> QED BY <1>2, <1>3

(* What it does within a sequence.                                         *)
LEMMA RoundTurns ==
    ASSUME Paced, TypeInv, Driven, Started, TakesTurns,
           BeginSequence \/ BeginRound \/ FireTriggers \/ EndRound
    PROVE  TakesTurns'
<1> DEFINE t == "trigger"
<1>0. /\ pc \in [Thread -> Label] /\ t \in Thread /\ "builder" \in Thread \ {t}
      /\ round \in 1..(NRounds + 1) /\ NRounds \in Nat \ {0} /\ Round = 1..NRounds
      /\ seq_index \in Nat
  BY TypeParts, EventManagerTrgSeqAssumption DEF TypeInv, StateOK, Thread, CountersOK, Round
<1>1. ASSUME NEW here, NEW after, At(t, here), Goto(t, after)
      PROVE  pc[t] = here /\ pc'[t] = after /\ pc'["builder"] = pc["builder"]
  BY <1>0, <1>1 DEF At, Goto
<1>u. UNCHANGED seq_index
  BY DEF BeginSequence, BeginRound, FireTriggers, EndRound, SetFlag, Test, managerVars,
         packVars
<1>g. pc[t] \notin {"outer", "check", "start", "done", "begin"}
         => go_time /\ pc["main"] \in Running
  BY SequenceDriven DEF Sequencing
<1>2. CASE BeginSequence
  <2>1. CASE /\ SetFlag("begin", "unfinish", TRUE, builder_has_finished,
                        mux_round_configured, got_round_data)
             /\ round' = 1
    <3>1. /\ pc[t] = "begin" /\ pc'[t] = "unfinish" /\ pc'["builder"] = pc["builder"]
          /\ sequence_in_progress' /\ UNCHANGED builder_has_finished /\ round' = 1
      BY <1>1, <2>1 DEF SetFlag, Step
    <3>2. UNCHANGED mux_round_configured
      BY <2>1 DEF SetFlag
    <3> QED BY <1>u, <3>1, <3>2 DEF TakesTurns, Idling, Taken, InRound
  <2>2. CASE /\ SetFlag("unfinish", "unconfigure", sequence_in_progress, FALSE,
                        mux_round_configured, got_round_data)
             /\ UNCHANGED roundVars
    <3>1. /\ pc[t] = "unfinish" /\ pc'[t] = "unconfigure" /\ pc'["builder"] = pc["builder"]
          /\ UNCHANGED <<sequence_in_progress, mux_round_configured, round>>
          /\ ~builder_has_finished'
      BY <1>1, <2>2 DEF SetFlag, Step, roundVars
    <3> QED BY <1>u, <3>1 DEF TakesTurns, Taken, InRound
  <2>3. CASE /\ SetFlag("unconfigure", "round", sequence_in_progress,
                        builder_has_finished, FALSE, got_round_data)
             /\ UNCHANGED roundVars
    <3>1. /\ pc[t] = "unconfigure" /\ pc'[t] = "round" /\ pc'["builder"] = pc["builder"]
          /\ UNCHANGED <<sequence_in_progress, builder_has_finished, round>>
          /\ ~mux_round_configured'
      BY <1>1, <2>3 DEF SetFlag, Step, roundVars
    <3>2. Caught(round - 1)' /\ Taken' = 0 /\ pc'["builder"] # "push"
      BY <1>u, <3>1 DEF TakesTurns, Caught, Taken, At
    <3> QED BY <3>1, <3>2 DEF TakesTurns, InRound
  <2> QED BY <1>2, <2>1, <2>2, <2>3 DEF BeginSequence
<1>3. CASE Test(t, "round", round \in Round /\ go_time, "reset", "end")
  <2>1. /\ pc[t] = "round" /\ pc'["builder"] = pc["builder"]
        /\ pc'[t] = IF round \in Round /\ go_time THEN "reset" ELSE "end"
        /\ UNCHANGED <<flagVars, round>>
    BY <1>1, <1>3 DEF Test, managerVars, roundVars
  <2>2. Caught(round - 1) /\ (Caught(round - 1))'
    BY <1>u, <2>1 DEF TakesTurns, Caught, Taken, At, flagVars
  <2>3. CASE round \in Round
    BY <1>u, <1>g, <2>1, <2>2, <2>3 DEF TakesTurns, Taken, InRound, flagVars, At
  <2>4. CASE round \notin Round
    <3>1. round - 1 = NRounds
      BY <1>0, <2>4
    <3>2. Caught(NRounds)'
      BY <2>1, <2>2, <3>1 DEF Caught
    <3> QED BY <1>u, <2>1, <2>4, <3>2 DEF TakesTurns, Taken, InRound, flagVars
  <2> QED BY <2>3, <2>4
<1>4. CASE /\ SetFlag("reset", "set_mux", sequence_in_progress, builder_has_finished,
                      mux_round_configured, FALSE)
           /\ UNCHANGED roundVars
  <2>1. /\ pc[t] = "reset" /\ pc'[t] = "set_mux" /\ pc'["builder"] = pc["builder"]
        /\ UNCHANGED <<sequence_in_progress, builder_has_finished, mux_round_configured, round>>
        /\ ~got_round_data'
    BY <1>1, <1>4 DEF SetFlag, Step, roundVars
  <2>2. Caught(round - 1)'
    BY <1>u, <2>1 DEF TakesTurns, Caught, Taken, At
  <2> QED BY <1>u, <2>1, <2>2 DEF TakesTurns, Taken, InRound
<1>5. CASE /\ Step(t, "set_mux", "fire")
           /\ mux' = IF go_time THEN round ELSE mux
           /\ UNCHANGED <<flagVars, round>>
  <2>1. /\ pc[t] = "set_mux" /\ pc'[t] = "fire" /\ pc'["builder"] = pc["builder"]
        /\ mux' = round /\ UNCHANGED <<flagVars, round>>
    BY <1>1, <1>5, <1>g DEF Step, At
  <2>2. Caught(round - 1)'
    BY <1>u, <2>1 DEF TakesTurns, Caught, Taken, At, flagVars
  <2> QED BY <1>u, <2>1, <2>2 DEF TakesTurns, Taken, InRound, flagVars
<1>6. CASE FireTriggers
  <2>1. /\ pc[t] = "fire" /\ pc'[t] = "configured" /\ pc'["builder"] = pc["builder"]
        /\ UNCHANGED <<flagVars, round, sequences>>
    BY <1>1, <1>6 DEF FireTriggers
  <2>2. /\ go_time /\ pc["builder"] \notin {"round_data", "round_taken"}
        /\ \A w \in Worker : Settled(w)
    BY <1>6, <1>g, <2>1 DEF FireTriggers, At
  <2>3. 1 \in Worker /\ Ready(1)
    <3>1. 1 \in Worker /\ captured[1] = <<>> /\ acquiring[1]
      BY <1>g, <2>1, <2>2, RunningStarted, WorkersAssumption DEF Settled, Worker
    <3>2. Device(1).depth # 0 /\ Device(1).depth \in Nat
      BY <3>1, DeviceDepth
    <3> QED BY <3>1, <3>2 DEF Ready
  <2>4. aim' = Append(aim, <<sequences, mux>>)
    BY <1>6, <2>3 DEF FireTriggers
  <2>5. aim \in Seq(Nat \X Round) /\ <<sequences, mux>> \in Nat \X Round
    BY TypeParts DEF TypeInv, CountersOK
  <2>6. Len(aim') > 0 /\ aim'[Len(aim')] = <<sequences, mux>>
    BY <2>4, <2>5
  <2>7. Shot'
    BY <2>1, <2>6 DEF Shot, TakesTurns
  <2> QED BY <1>u, <2>1, <2>2, <2>7 DEF TakesTurns, Caught, Taken, InRound, flagVars, At
<1>7. CASE /\ SetFlag("configured", "await", sequence_in_progress,
                      builder_has_finished, TRUE, got_round_data)
           /\ UNCHANGED roundVars
  <2>1. /\ pc[t] = "configured" /\ pc'[t] = "await" /\ pc'["builder"] = pc["builder"]
        /\ UNCHANGED <<sequence_in_progress, builder_has_finished, got_round_data, roundVars>>
        /\ mux_round_configured'
    BY <1>1, <1>7 DEF SetFlag, Step
  <2>2. Taken' = round' - 1 /\ Shot' /\ ~got_round_data'
        /\ pc'["builder"] \notin {"round_data", "round_taken"}
    BY <1>u, <2>1 DEF TakesTurns, Taken, Shot, roundVars
  <2> QED BY <1>u, <2>1, <2>2 DEF TakesTurns, Taken, InRound
<1>8. CASE /\ got_round_data \/ ~go_time
           /\ Step(t, "await", "round")
           /\ round' = round + 1
           /\ UNCHANGED flagVars
  <2>1. /\ pc[t] = "await" /\ pc'[t] = "round" /\ pc'["builder"] = pc["builder"]
        /\ UNCHANGED flagVars /\ round' = round + 1 /\ got_round_data
    BY <1>1, <1>8, <1>g DEF Step, At
  <2>2. Caught(round)
    BY <2>1 DEF TakesTurns
  <2>3. round' - 1 = round
    BY <1>0, <2>1
  <2>4. Caught(round - 1)'
    BY <1>u, <2>1, <2>2, <2>3 DEF Caught, Taken, At, flagVars
  <2> QED BY <1>u, <2>1, <2>4 DEF TakesTurns, Taken, InRound, flagVars
<1> QED BY <1>2, <1>3, <1>4, <1>5, <1>6, <1>7, <1>8 DEF BeginRound, EndRound

-----------------------------------------------------------------------------
(* BuilderLoop keeps to its turn: it takes a round when the token is its   *)
(* own, and pushes the event when the sequence is over.                    *)
LEMMA BuilderTurns ==
    ASSUME TypeInv, Driven, TakesTurns, BuilderLoop, ~Spoils
    PROVE  TakesTurns'
<1> DEFINE t == "builder"
<1>0. /\ pc \in [Thread -> Label] /\ t \in Thread /\ "trigger" \in Thread \ {t}
      /\ round \in Nat /\ seq_index \in Nat
  BY TypeParts, EventManagerTrgSeqAssumption DEF TypeInv, StateOK, Thread, CountersOK
<1>1. ASSUME NEW here, NEW after, At(t, here), Goto(t, after)
      PROVE  pc[t] = here /\ pc'[t] = after /\ pc'["trigger"] = pc["trigger"]
  BY <1>0, <1>1 DEF At, Goto
<1>r. UNCHANGED roundVars
  BY DEF BuilderLoop, NewTurn, TakeRound, RoundTaken, PushEvent, Test, managerVars
<1>g. ~builder_has_finished \/ pc["trigger"] = "unfinish" => go_time
  BY SequenceDriven DEF Sequencing
<1>2. CASE \/ Test(t, "outer", thread_live, "check", "done")
           \/ Test(t, "check", go_time, "turn", "outer")
  <2>1. /\ pc[t] \in {"outer", "check"} /\ pc'[t] \in {"check", "done", "turn", "outer"}
        /\ pc'["trigger"] = pc["trigger"] /\ UNCHANGED <<flagVars, seq_index>>
    BY <1>1, <1>2 DEF Test, managerVars, packVars
  <2> QED BY <1>r, <2>1 DEF TakesTurns, Idling, Caught, Taken, Shot, InRound, At,
                            flagVars, roundVars
<1>3. CASE NewTurn
  <2>1. /\ pc[t] = "turn" /\ pc'[t] = "progress" /\ pc'["trigger"] = pc["trigger"]
        /\ UNCHANGED flagVars /\ seq_index' = 0
    BY <1>1, <1>3 DEF NewTurn, Step
  <2> QED BY <1>r, <2>1 DEF TakesTurns, Idling, Caught, Taken, Shot, InRound, At,
                            flagVars, roundVars
<1>4. CASE Test(t, "progress", sequence_in_progress, "going", "over")
  <2>1. /\ pc[t] = "progress" /\ pc'["trigger"] = pc["trigger"]
        /\ pc'[t] = IF sequence_in_progress THEN "going" ELSE "over"
        /\ UNCHANGED <<flagVars, seq_index>>
    BY <1>1, <1>4 DEF Test, managerVars, packVars
  <2> QED BY <1>r, <2>1 DEF TakesTurns, Idling, Caught, Taken, Shot, InRound, At,
                            flagVars, roundVars
<1>5. CASE Test(t, "going", go_time, "is_configured", "over")
  <2>1. /\ pc[t] = "going" /\ pc'["trigger"] = pc["trigger"]
        /\ pc'[t] = IF go_time THEN "is_configured" ELSE "over"
        /\ UNCHANGED <<flagVars, seq_index>>
    BY <1>1, <1>5 DEF Test, managerVars, packVars
  <2> QED BY <1>r, <1>g, <2>1 DEF TakesTurns, Idling, Caught, Taken, Shot, InRound, At,
                            flagVars, roundVars
<1>6. CASE Test(t, "is_configured", mux_round_configured, "take", "progress")
  <2>1. /\ pc[t] = "is_configured" /\ pc'["trigger"] = pc["trigger"]
        /\ pc'[t] = IF mux_round_configured THEN "take" ELSE "progress"
        /\ UNCHANGED <<flagVars, seq_index>>
    BY <1>1, <1>6 DEF Test, managerVars, packVars
  <2> QED BY <1>r, <2>1 DEF TakesTurns, Idling, Caught, Taken, Shot, InRound, At,
                            flagVars, roundVars
<1>7. CASE TakeRound
  <2>1. /\ pc[t] = "take" /\ pc'["trigger"] = pc["trigger"]
        /\ \/ pc'[t] = "progress" /\ UNCHANGED seq_index
           \/ pc'[t] = "round_data" /\ seq_index' = seq_index + 1
        /\ UNCHANGED flagVars
    BY <1>1, <1>7 DEF TakeRound, Step, packVars
  <2>2. /\ pc["trigger"] = "await" /\ Taken = round - 1
        /\ Shot /\ mux_round_configured /\ ~got_round_data
    BY <2>1 DEF TakesTurns, Idling, Caught, InRound
  <2>3. sequence_in_progress /\ ~builder_has_finished /\ seq_index = round - 1
    BY <2>1, <2>2 DEF TakesTurns, InRound, Taken
  <2>4. /\ pc'["trigger"] = "await" /\ Shot'
        /\ UNCHANGED <<sequence_in_progress, builder_has_finished, mux_round_configured,
                       got_round_data, round>>
    BY <1>r, <2>1, <2>2 DEF Shot, flagVars, roundVars
  <2>5. CASE pc'[t] = "progress" /\ UNCHANGED seq_index
    <3>1. Taken' = round' - 1
      BY <2>3, <2>4, <2>5 DEF Taken
    <3> QED BY <2>2, <2>3, <2>4, <2>5, <3>1 DEF TakesTurns, InRound
  <2>6. CASE pc'[t] = "round_data" /\ seq_index' = seq_index + 1
    <3>1. Taken' = round'
      BY <1>0, <2>3, <2>4, <2>6 DEF Taken
    <3> QED BY <2>2, <2>3, <2>4, <2>6, <3>1 DEF TakesTurns, InRound
  <2> QED BY <2>1, <2>5, <2>6
<1>8. CASE RoundTaken
  <2>1. CASE /\ Step(t, "round_data", "round_taken")
             /\ got_round_data' = TRUE /\ UNCHANGED mux_round_configured
    <3>1. /\ pc[t] = "round_data" /\ pc'[t] = "round_taken" /\ pc'["trigger"] = pc["trigger"]
          /\ got_round_data'
          /\ UNCHANGED <<builder_has_finished, sequence_in_progress, mux_round_configured,
                         seq_index>>
      BY <1>1, <1>8, <2>1 DEF RoundTaken, Step, packVars
    <3>2. pc["trigger"] = "await" /\ Taken = round
      BY <3>1 DEF TakesTurns, Idling, Caught, InRound, At
    <3> QED BY <1>r, <3>1, <3>2 DEF TakesTurns, Caught, Taken, InRound, roundVars, At
  <2>2. CASE /\ Step(t, "round_taken", "progress") /\ mux_round_configured' = FALSE
             /\ UNCHANGED got_round_data
    <3>1. /\ pc[t] = "round_taken" /\ pc'[t] = "progress" /\ pc'["trigger"] = pc["trigger"]
          /\ ~mux_round_configured'
          /\ UNCHANGED <<builder_has_finished, sequence_in_progress, got_round_data, seq_index>>
      BY <1>1, <1>8, <2>2 DEF RoundTaken, Step, packVars
    <3> QED BY <1>r, <3>1 DEF TakesTurns, Idling, Caught, Taken, InRound, roundVars, At
  <2> QED BY <1>8, <2>1, <2>2 DEF RoundTaken
<1>9. CASE Test(t, "over", ~sequence_in_progress, "finished", "check")
  <2>1. /\ pc[t] = "over" /\ pc'["trigger"] = pc["trigger"]
        /\ pc'[t] = IF sequence_in_progress THEN "check" ELSE "finished"
        /\ UNCHANGED <<flagVars, seq_index>>
    BY <1>1, <1>9 DEF Test, managerVars, packVars
  <2>2. Taken' = Taken
    <3>1. sequence_in_progress => Taken = 0
      BY <2>1 DEF TakesTurns, Idling, InRound
    <3> QED BY <2>1, <3>1 DEF Taken
  <2> QED BY <1>r, <2>1, <2>2 DEF TakesTurns, Idling, Caught, Shot, InRound, At, flagVars,
                                 roundVars
<1>10. CASE Test(t, "finished", ~builder_has_finished, "push", "check")
  <2>1. /\ pc[t] = "finished" /\ pc'["trigger"] = pc["trigger"]
        /\ pc'[t] = IF builder_has_finished THEN "check" ELSE "push"
        /\ UNCHANGED <<flagVars, seq_index>>
    BY <1>1, <1>10 DEF Test, managerVars, packVars
  <2>2. sequence_in_progress => pc'[t] = "check"
    BY <2>1 DEF Spoils, At
  <2> QED BY <1>r, <2>1, <2>2 DEF TakesTurns, Idling, Caught, Taken, InRound, At, flagVars, roundVars
<1>11. CASE PushEvent
  <2>1. /\ pc[t] = "push" /\ pc'[t] = "check" /\ pc'["trigger"] = pc["trigger"]
        /\ builder_has_finished'
        /\ UNCHANGED <<sequence_in_progress, got_round_data, mux_round_configured>>
    BY <1>1, <1>11 DEF PushEvent, Step
  <2> QED BY <1>r, <2>1 DEF TakesTurns, Idling, Caught, Taken, InRound, At
<1> QED BY <1>2, <1>3, <1>4, <1>5, <1>6, <1>7, <1>8, <1>9, <1>10, <1>11 DEF BuilderLoop

(* No step of any thread breaks the turns.                                 *)
LEMMA TurnsStep ==
    ASSUME Paced
    PROVE  TypeInv /\ Driven /\ Started /\ TakesTurns /\ [Next]_vars /\ ~Spoils
              => TakesTurns'
<1> SUFFICES ASSUME TypeInv, Driven, Started, TakesTurns, [Next]_vars, ~Spoils
             PROVE  TakesTurns'
  OBVIOUS
<1>1. CASE RunLoop
  BY <1>1, RunLoopKeeps, TurnsKept DEF KeepsOthers, Thread, SequenceVars, packVars
<1>2. CASE TriggerLoop
  BY <1>2, RestTurns, RoundTurns DEF TriggerLoop
<1>3. CASE BuilderLoop
  BY <1>3, BuilderTurns
<1>4. CASE StarterLoop
  BY <1>4, StarterLoopKeeps, TurnsKept DEF KeepsOthers, Thread, SequenceVars, packVars
<1>5. CASE Frontend
  <2>1. UNCHANGED SequenceVars /\ (FirstStep \/ KeepsOthers("main"))
    BY <1>5, FrontendKeeps
  <2>2. CASE KeepsOthers("main")
    BY <2>1, <2>2, TurnsKept DEF KeepsOthers, Thread, SequenceVars, packVars
  <2>3. CASE FirstStep
    <3>1. pc["trigger"] = "done" /\ pc["builder"] = "done"
      BY <2>3 DEF FirstStep, At, TypeInv, IdleMeansDone, Loops, Thread
    <3>2. pc'["trigger"] = "outer" /\ pc'["builder"] = "outer"
      BY <2>3 DEF FirstStep, Thread
    <3>3. UNCHANGED flagVars
      BY <2>3 DEF FirstStep, SequenceVars
    <3> QED BY <3>1, <3>2, <3>3 DEF TakesTurns, Idling, Taken, InRound, flagVars
  <2> QED BY <2>1, <2>2, <2>3
<1>6. CASE WorkerThreads \/ UNCHANGED vars
  BY <1>6, WorkersKeep, TurnsKept DEF managerVars, packVars
<1> QED BY <1>1, <1>2, <1>3, <1>4, <1>5, <1>6 DEF Next

-----------------------------------------------------------------------------
(* What the workers hold, and what RunLoop has bundled of it, in a round.  *)

(* This round's trigger was fired, and BuilderLoop has not its event yet.  *)
Fired == pc["trigger"] \in {"configured", "await"} /\ Taken = round - 1

(* No event is on its way, and RunLoop gathers none.                       *)
Drained ==
    /\ \A w \in Worker : ~has_event[w] /\ captured[w] = <<>> /\ ~InProgress(w)
    /\ pc["run"] \in {"outer", "check", "any", "flush", "flag", "done"}

(* No trigger of this run was fired yet: the workers that dump no event    *)
(* have none, so that RunLoop never finds one of each.                     *)
Untouched ==
    /\ ~Fired /\ data = <<>>
    /\ pc["run"] \notin {"multi", "get", "push"}
    /\ \A w \in Worker : ~Device(w).dumps_first =>
          /\ captured[w] = <<>> /\ work[w] \in {"none", "poll"} /\ ~has_event[w]
          /\ At("run", "all") => idx["run"] <= w

(* RunLoop leaves no flag of a worker up whose event it has popped.        *)
PoppedDown ==
    /\ At("run", "get") => \A w \in 1..(idx["run"] - 1) : ~has_event[w]
    /\ At("run", "push") => \A w \in Worker : ~has_event[w]

(* The one bundle queued is of the last trigger, and all there is of it.   *)
Bundled ==
    /\ Fired /\ Drained /\ Len(data) = 1
    /\ \A w \in Worker : data[1][w] = Whole(w, triggers)

(* Since the first trigger, all on its way is of the last one, and it is   *)
(* gone from the workers before the next round.                            *)
Touched ==
    /\ Together("run") /\ PoppedDown
    /\ pc["main"] \notin Opening
    /\ Drained \/ Fired
    /\ data # <<>> => Bundled

RoundsApart == Untouched \/ Touched

(* A worker that dumps no first event shows none before a trigger.         *)
SomeDoNotDump == \E w \in Worker : ~Device(w).dumps_first

(* At first no trigger was fired.                                          *)
LEMMA ApartInit == ASSUME Init PROVE RoundsApart
<1>1. pc["trigger"] = "done" /\ pc["run"] = "done"
  BY DEF Init, Thread
<1>2. \A w \in Worker : ~Device(w).dumps_first =>
         captured[w] = <<>> /\ work[w] = "none" /\ ~has_event[w]
  BY DEF Init, WorkersInit, NewCaptured, OnEach
<1> QED BY <1>1, <1>2 DEF Init, RoundsApart, Untouched, Fired, At

(* A bundle waits only in a round whose trigger was fired.                 *)
LEMMA QueuedMeansFired == RoundsApart /\ data # <<>> => Fired
BY DEF RoundsApart, Untouched, Touched, Bundled

(* Whether one was fired is for TriggerLoop and BuilderLoop to say.        *)
LEMMA FiredKept ==
    ASSUME pc'["trigger"] = pc["trigger"], pc'["builder"] = pc["builder"],
           UNCHANGED <<round, seq_index>>
    PROVE  Fired' <=> Fired
BY DEF Fired, Taken

(* What takes nothing from workers that hold nothing.                      *)
LEMMA DrainedKept ==
    ASSUME Drained, pc'["run"] = pc["run"], UNCHANGED <<has_event, captured, work>>
    PROVE  Drained'
BY DEF Drained, InProgress

(* A step that leaves the workers, RunLoop and the round as they are.      *)
LEMMA ApartKept ==
    ASSUME TypeInv, RoundsApart, Fired' <=> Fired, pc'["run"] = pc["run"],
           idx'["run"] = idx["run"], UNCHANGED <<workerVars, bundle>>,
           pc["main"] \notin Opening => pc'["main"] \notin Opening,
           data' \in {data, <<>>}
    PROVE  RoundsApart'
<1>0. ListTypeOK(Thread, Label) /\ "run" \in Thread
  BY TypeParts, Threads DEF TypeInv
<1>1. CASE Untouched
  BY <1>1 DEF RoundsApart, Untouched, At, workerVars
<1>2. CASE Touched
  <2>1. Together("run")'
    BY <1>0, <1>2, ElsewhereTogether DEF Touched
  <2>2. PoppedDown'
    BY <1>2 DEF Touched, PoppedDown, At, workerVars
  <2>3. Drained => Drained'
    BY DrainedKept DEF workerVars
  <2>4. data' # <<>> => Bundled'
    BY <1>2, <2>3 DEF Touched, Bundled, workerVars
  <2> QED BY <1>2, <2>1, <2>2, <2>3, <2>4 DEF RoundsApart, Touched
<1> QED BY <1>1, <1>2 DEF RoundsApart

-----------------------------------------------------------------------------
(* RunLoop.                                                                *)

(* Before a trigger it never gets past the workers that have no event.     *)
LEMMA RunUntouched ==
    ASSUME SomeDoNotDump, TypeInv, Untouched, RunLoop
    PROVE  Untouched'
<1> DEFINE r == "run"
           v == idx[r]
<1>0. /\ pc \in [Thread -> Label] /\ idx \in [Thread -> Worker] /\ r \in Thread
      /\ v \in 1..NWorkers /\ NWorkers \in Nat \ {0} /\ Worker = 1..NWorkers
      /\ has_event \in [Worker -> BOOLEAN]
  BY Threads, WorkersAssumption DEF TypeInv, StateOK, WorkersTypeOK, Worker
<1>1. /\ Fired' <=> Fired
      /\ UNCHANGED <<captured, work>>
  BY RunLoopKeeps, FiredKept DEF KeepsOthers, Thread, SequenceVars, roundVars, packVars
<1>2. /\ data' = data /\ \A w \in Worker : has_event'[w] => has_event[w]
  BY <1>0 DEF RunLoop, RunWait, RunPush, Test, OnList, AnyWorkersHaveEvent,
         AllWorkersHaveEvent, AnyWorkersHaveMultiEvent, GetEventData, FlushEventData,
         FlushQueue, FlushFlag, ClearQueue, ClearFlag, workerVars, At, Untouched, managerVars
<1>3. CASE AllWorkersHaveEvent(r, "all", "multi", "flush")
  <2>0. pc[r] = "all" /\ \A w \in Worker : ~Device(w).dumps_first => v <= w /\ ~has_event[w]
    BY <1>3 DEF AllWorkersHaveEvent, Untouched, At
  <2>1. CASE has_event[v]
    <3>1. PICK w \in Worker : ~Device(w).dumps_first
      BY DEF SomeDoNotDump
    <3>2. v # NWorkers
      BY <1>0, <2>0, <2>1, <3>1
    <3>3. pc'[r] = "all" /\ idx'[r] = v + 1
      BY <1>0, <1>3, <2>1, <3>2 DEF AllWorkersHaveEvent, NextWorker
    <3>4. \A u \in Worker : ~Device(u).dumps_first => v + 1 <= u
      BY <1>0, <2>0, <2>1
    <3> QED BY <1>1, <1>2, <3>3, <3>4 DEF Untouched
  <2>2. CASE ~has_event[v]
    <3>1. pc'[r] = "flush"
      BY <1>0, <1>3, <2>2 DEF AllWorkersHaveEvent, Goto
    <3> QED BY <1>1, <1>2, <3>1 DEF Untouched, At
  <2> QED BY <2>1, <2>2
<1>4. CASE RunWait
  <2>1. pc'[r] = "all" /\ idx'[r] = 1
    BY <1>0, <1>4 DEF RunWait, Test, Goto
  <2> QED BY <1>0, <1>1, <1>2, <2>1 DEF Untouched
<1>5. CASE ~AllWorkersHaveEvent(r, "all", "multi", "flush") /\ ~RunWait
  <2>1. pc'[r] \notin {"all", "multi", "get", "push"}
    BY <1>0, <1>5 DEF RunLoop, RunPush, Test, OnList, AnyWorkersHaveEvent,
           AnyWorkersHaveMultiEvent, GetEventData, FlushEventData, FlushQueue, FlushFlag,
           NextWorker, Goto, At, Untouched
  <2> QED BY <1>1, <1>2, <2>1 DEF Untouched, At
<1> QED BY <1>3, <1>4, <1>5

(* RunLoop keeps its workers together, as EventManagerBasic's does.        *)
LEMMA RunLoopTogether ==
    ASSUME Paced, TypeInv, Together("run"), RunLoop
    PROVE  Together("run")'
<1>0. /\ ListTypeOK(Thread, Label) /\ "run" \in Thread /\ CountsEvents("run")
  BY TypeParts, Threads DEF TypeInv
<1>1. CASE \/ Test("run", "outer", thread_live, "flush", "done")
           \/ Test("run", "check", go_time, "any", "outer") \/ RunPush
  <2>1. /\ UNCHANGED workerVars /\ pc["run"] # "flag"
        /\ \E label \in {"flush", "done", "any", "outer"} : Goto("run", label)
    BY <1>1 DEF RunPush, Test, At
  <2> QED BY <1>0, <2>1, GotoTogether
<1>2. CASE RunWait
  <2>1. /\ UNCHANGED workerVars /\ pc["run"] # "flag" /\ Goto("run", "all")
        /\ \A w \in Worker : Settled(w)
    BY <1>2 DEF RunWait, Test, At
  <2> QED BY <1>0, <2>1, GotoTogether
<1>3. CASE \/ OnList(AnyWorkersHaveEvent("run", "any", "wait", "check"))
           \/ OnList(AllWorkersHaveEvent("run", "all", "multi", "flush"))
           \/ OnList(AnyWorkersHaveMultiEvent("run", "multi", "flush", "get"))
  BY <1>0, <1>3, ChecksTogether DEF OnList
<1>4. CASE OnList(GetEventData("run", "get", "push"))
  BY <1>0, <1>4, GetTogether DEF OnList
<1>5. CASE OnList(FlushEventData("run", "flush", "flag", "check"))
  BY <1>0, <1>5, FlushTogether DEF OnList
<1> QED BY <1>1, <1>2, <1>3, <1>4, <1>5 DEF RunLoop

(* Each worker it pops has one event, and lowers its flag.                 *)
LEMMA RunPopsDown ==
    ASSUME TypeInv, Together("run"), PoppedDown, RunLoop
    PROVE  PoppedDown'
<1> DEFINE r == "run"
           v == idx[r]
<1>0. /\ pc \in [Thread -> Label] /\ idx \in [Thread -> Worker] /\ r \in Thread
      /\ v \in 1..NWorkers /\ NWorkers \in Nat \ {0} /\ Worker = 1..NWorkers
      /\ has_event \in [Worker -> BOOLEAN]
  BY Threads, WorkersAssumption DEF TypeInv, StateOK, WorkersTypeOK, Worker
<1>1. CASE GetEventData(r, "get", "push")
  <2>1. pc[r] = "get" /\ data_queue[v] = <<Whole(v, triggers)>>
    BY <1>0, <1>1 DEF GetEventData, Together, GathersNew, At
  <2>2. Len(data_queue[v]) = 1
    BY <2>1
  <2>3. has_event' = [has_event EXCEPT ![v] = FALSE]
    BY <1>0, <1>1, <2>2 DEF GetEventData, PopEvent
  <2>4. \A w \in 1..v : ~has_event'[w]
    BY <1>0, <2>1, <2>3 DEF PoppedDown, At
  <2>5. \/ v = NWorkers /\ pc'[r] = "push"
        \/ v # NWorkers /\ pc'[r] = "get" /\ idx'[r] = v + 1
    BY <1>0, <1>1 DEF GetEventData, NextWorker, Goto
  <2> QED BY <1>0, <2>4, <2>5 DEF PoppedDown, At
<1>2. CASE ~GetEventData(r, "get", "push")
  <2>1. \/ pc'[r] \notin {"get", "push"}
        \/ pc'[r] = "get" /\ idx'[r] = 1
    BY <1>0, <1>2 DEF RunLoop, RunWait, RunPush, Test, OnList, AnyWorkersHaveEvent,
           AllWorkersHaveEvent, AnyWorkersHaveMultiEvent, FlushEventData, FlushQueue,
           FlushFlag, NextWorker, Goto, At
  <2> QED BY <2>1 DEF PoppedDown, At
<1> QED BY <1>1, <1>2

(* RunLoop bundles what a round's trigger brought, once.                   *)
LEMMA RunTouched ==
    ASSUME Paced, TypeInv, Driven, Started, Touched, RunLoop
    PROVE  Touched'
<1> DEFINE r == "run"
<1>0. /\ pc \in [Thread -> Label] /\ idx \in [Thread -> Worker] /\ r \in Thread
      /\ has_event \in [Worker -> BOOLEAN] /\ pc'["main"] = pc["main"]
      /\ data \in Seq(Bundle) /\ bundle \in Bundle
  BY Threads, RunLoopKeeps DEF TypeInv, StateOK, WorkersTypeOK, KeepsOthers, Thread
<1>1. /\ Fired' <=> Fired
      /\ UNCHANGED <<captured, work, triggers>>
  BY RunLoopKeeps, FiredKept DEF KeepsOthers, Thread, SequenceVars, roundVars, packVars
<1>2. Together(r)' /\ PoppedDown'
  BY RunLoopTogether, RunPopsDown DEF Touched
<1>3. ASSUME Drained PROVE Drained' /\ data' = data
  <2>1. /\ pc'[r] \in {"outer", "check", "any", "flush", "flag", "done"} /\ data' = data
        /\ \A w \in Worker : has_event'[w] => has_event[w]
    <3>1. /\ pc[r] \in {"outer", "check", "any", "flush", "flag", "done"}
          /\ \A w \in Worker : ~has_event[w]
      BY <1>3 DEF Drained
    <3>2. idx[r] \in Worker
      BY <1>0
    <3> QED BY <1>0, <3>1, <3>2 DEF RunLoop, RunWait, RunPush, Test, OnList,
             AnyWorkersHaveEvent, AllWorkersHaveEvent, AnyWorkersHaveMultiEvent, GetEventData,
             FlushEventData, FlushQueue, FlushFlag, ClearQueue, ClearFlag, NextWorker, Goto,
             workerVars, At, managerVars
  <2> QED BY <1>1, <1>3, <2>1 DEF Drained, InProgress
<1>4. CASE Drained
  BY <1>0, <1>1, <1>2, <1>3, <1>4 DEF Touched, Bundled
<1>5. CASE ~Drained /\ ~RunPush
  <2>1. data' = data /\ data = <<>>
    BY <1>5 DEF Touched, Bundled, RunLoop, RunWait, Test, OnList, managerVars
  <2> QED BY <1>0, <1>1, <1>2, <1>5, <2>1 DEF Touched
<1>6. CASE ~Drained /\ RunPush
  <2>1. /\ Fired /\ data = <<>> /\ pc[r] = "push" /\ pc'[r] = "flush"
        /\ UNCHANGED has_event
    BY <1>0, <1>6 DEF Touched, Bundled, RunPush, At, Goto, workerVars
  <2>2. data' = <<bundle>>
    <3>1. Len(data) = 0 /\ 0 <= KMaxQueueSize
      BY <2>1, EventManagerTrgSeqAssumption
    <3> QED BY <1>6, <2>1, <3>1 DEF RunPush
  <2>3. \A w \in Worker : bundle[w] = Whole(w, triggers) /\ ~has_event[w] /\ Settled(w)
    BY <2>1 DEF Touched, Together, GathersNew, WorkersWait, PoppedDown, At
  <2>4. \A w \in Worker : Polling(w)
    BY <2>1, RunningStarted, SequenceDriven DEF Fired, Sequencing
  <2>5. Drained'
    BY <1>1, <2>1, <2>3, <2>4 DEF Drained, Settled, InProgress
  <2>6. Len(data') = 1 /\ data'[1] = bundle
    BY <2>2
  <2> QED BY <1>0, <1>1, <1>2, <2>1, <2>3, <2>5, <2>6 DEF Touched, Bundled
<1> QED BY <1>4, <1>5, <1>6

-----------------------------------------------------------------------------
(* TriggerLoop.                                                            *)

(* It fires when all is at rest, and reaches every digitizer.              *)
LEMMA FireTouched ==
    ASSUME Paced, TypeInv, Driven, Started, TakesTurns, RoundsApart, FireTriggers
    PROVE  Touched'
<1> DEFINE t == "trigger"
<1>0. /\ ListTypeOK(Thread, Label) /\ pc \in [Thread -> Label] /\ t \in Thread
      /\ WorkersTypeOK
  BY TypeParts, Threads DEF TypeInv, StateOK
<1>1. /\ pc[t] = "fire" /\ pc'[t] = "configured"
      /\ pc'["builder"] = pc["builder"] /\ pc'["run"] = pc["run"] /\ pc'["main"] = pc["main"]
      /\ UNCHANGED <<round, seq_index, data>>
  BY <1>0 DEF FireTriggers, At, Goto, Thread, packVars
<1>2. go_time /\ pc["main"] \in Running
  BY <1>1, SequenceDriven DEF Sequencing
<1>3. /\ pc["run"] \in {"check", "any"}
      /\ \A w \in Worker : Settled(w) /\ ~has_event[w]
  BY <1>2 DEF FireTriggers
<1>4. \A w \in Worker : captured[w] = <<>> /\ acquiring[w]
  BY <1>2, <1>3, RunningStarted DEF Settled
<1>5. \A w \in Worker : Ready(w)
  <2> TAKE w \in Worker
  <2>1. Device(w).depth \in Nat \ {0}
    BY DeviceDepth
  <2>2. Len(captured[w]) = 0
    BY <1>4
  <2> QED BY <1>4, <2>1, <2>2 DEF Ready
<1>6. Trigger(Worker)
  <2>1. {w \in Worker : Ready(w)} = Worker /\ Worker # {}
    BY <1>5, WorkersAssumption DEF Worker
  <2> QED BY <2>1 DEF FireTriggers
<1>7. Together("run")'
  <2>1. AllFresh'
    BY <1>0, <1>3, <1>4, <1>6, FreshTrigger DEF AllFresh
  <2>2. UNCHANGED has_event
    BY <1>6 DEF Trigger, queueVars
  <2>3. WorkersWait("run")' /\ FlagsNew("run")' /\ GathersNew("run")'
    BY <1>1, <1>3, <2>2 DEF WorkersWait, FlagsNew, GathersNew
  <2> QED BY <2>1, <2>3 DEF Together
<1>8. Fired'
  BY <1>1 DEF Fired, Taken, TakesTurns, Caught
<1>9. data' = <<>>
  BY <1>1, QueuedMeansFired DEF Fired
<1>10. pc'["main"] \notin Opening /\ PoppedDown'
  BY <1>1, <1>2, <1>3 DEF Running, Opening, PoppedDown, At
<1> QED BY <1>7, <1>8, <1>9, <1>10 DEF Touched

(* Its other steps leave the workers and what was fired alone.             *)
LEMMA TriggerLoopApart ==
    ASSUME Paced, TypeInv, Driven, Started, TakesTurns, RoundsApart, TriggerLoop
    PROVE  RoundsApart'
<1> DEFINE t == "trigger"
<1>0. /\ pc \in [Thread -> Label] /\ t \in Thread /\ round \in Nat
      /\ KeepsOthers(t) /\ UNCHANGED <<seq_index, data, bundle>>
  BY TypeParts, Threads, EventManagerTrgSeqAssumption, TriggerLoopKeeps
     DEF TypeInv, StateOK, CountersOK, packVars
<1>1. CASE FireTriggers
  BY <1>1, FireTouched DEF RoundsApart
<1>2. CASE ~FireTriggers
  <2>1. UNCHANGED workerVars
    BY <1>2, TriggerLoopKeeps
  <2>2. Fired' <=> Fired
    <3>0. Taken' = (IF pc'["builder"] \in {"check", "outer", "done", "turn"} THEN 0
                    ELSE seq_index')
          /\ pc'["builder"] = pc["builder"]
      BY <1>0 DEF Taken, KeepsOthers, Thread
    <3>1. CASE pc[t] \notin {"configured", "await"}
      <4>1. pc'[t] \notin {"configured", "await"}
        BY <1>0, <1>2, <3>1 DEF TriggerLoop, BeginSequence, BeginRound, EndRound, EndSequence,
               Await, SetFlag, Test, Step, Goto, At
      <4> QED BY <3>1, <4>1 DEF Fired
    <3>2. CASE pc[t] = "configured"
      <4>1. pc'[t] = "await" /\ UNCHANGED round
        BY <1>0, <1>2, <3>2 DEF TriggerLoop, BeginSequence, BeginRound, EndRound, EndSequence,
               Await, SetFlag, Test, Step, Goto, At, roundVars
      <4> QED BY <1>0, <3>0, <3>2, <4>1 DEF Fired, Taken
    <3>3. CASE pc[t] = "await"
      <4>1. pc'[t] = "round" /\ (got_round_data \/ ~go_time)
        BY <1>0, <1>2, <3>3 DEF TriggerLoop, BeginSequence, BeginRound, EndRound, EndSequence,
               Await, SetFlag, Test, Step, Goto, At
      <4>2. go_time
        BY <3>3, SequenceDriven DEF Sequencing
      <4>3. Taken = round
        BY <3>3, <4>1, <4>2 DEF TakesTurns, Caught
      <4> QED BY <1>0, <4>1, <4>3 DEF Fired
    <3> QED BY <3>1, <3>2, <3>3
  <2> QED BY <1>0, <2>1, <2>2, ApartKept DEF KeepsOthers, Thread
<1> QED BY <1>1, <1>2

-----------------------------------------------------------------------------
(* The other loops, the frontend and the workers.                          *)

(* When it takes the round's event, BuilderLoop takes all there is.        *)
LEMMA BuilderApart ==
    ASSUME TypeInv, TakesTurns, RoundsApart, BuilderLoop
    PROVE  RoundsApart'
<1> DEFINE t == "builder"
<1>0. /\ pc \in [Thread -> Label] /\ t \in Thread /\ round \in Nat /\ seq_index \in Nat
      /\ KeepsOthers(t) /\ UNCHANGED <<round, workerVars, bundle>>
      /\ data \in Seq(Bundle)
  BY TypeParts, Threads, EventManagerTrgSeqAssumption, BuilderLoopKeeps
     DEF TypeInv, StateOK, CountersOK, roundVars
<1>k. /\ pc'["trigger"] = pc["trigger"] /\ pc'["run"] = pc["run"] /\ idx'["run"] = idx["run"]
      /\ pc'["main"] = pc["main"]
  BY <1>0 DEF KeepsOthers, Thread
<1>1. CASE ~(TakeRound /\ data # <<>>)
  <2>1. data' = data
    BY <1>1 DEF BuilderLoop, NewTurn, TakeRound, RoundTaken, PushEvent, Test, managerVars
  <2>2. Fired' <=> Fired
    <3>1. CASE pc["trigger"] \notin {"configured", "await"}
      BY <1>k, <3>1 DEF Fired
    <3>2. CASE pc["trigger"] \in {"configured", "await"}
      <4>1. pc[t] # "push" /\ (pc[t] \in {"over", "finished"} => Taken = 0)
        BY <3>2 DEF TakesTurns, InRound
      <4>2. CASE NewTurn
        <5>1. pc[t] = "turn" /\ pc'[t] = "progress" /\ seq_index' = 0
          BY <1>0, <4>2 DEF NewTurn, Step, Goto, At
        <5>2. Taken' = Taken
          BY <5>1 DEF Taken
        <5> QED BY <1>0, <1>k, <5>2 DEF Fired
      <4>4. CASE pc[t] \in {"over", "finished"}
        <5>1. UNCHANGED seq_index /\ seq_index = 0
          BY <4>1, <4>4 DEF BuilderLoop, NewTurn, TakeRound, RoundTaken, PushEvent, Step, Test,
                 managerVars, packVars, At, Taken
        <5>2. Taken' = Taken
          BY <5>1 DEF Taken
        <5> QED BY <1>0, <1>k, <5>2 DEF Fired
      <4>3. CASE ~NewTurn /\ pc[t] \notin {"over", "finished"}
        <5>1. UNCHANGED seq_index
          BY <1>1, <4>1, <4>3 DEF BuilderLoop, TakeRound, RoundTaken, PushEvent, Step, Test,
                 managerVars, packVars, At
        <5>2. pc[t] \in {"check", "outer", "done", "turn"}
                 <=> pc'[t] \in {"check", "outer", "done", "turn"}
          BY <1>0, <4>1, <4>3 DEF BuilderLoop, TakeRound, RoundTaken, PushEvent, Step, Test,
                 Goto, At
        <5>3. Taken' = Taken
          BY <5>1, <5>2 DEF Taken
        <5> QED BY <1>0, <1>k, <5>3 DEF Fired
      <4> QED BY <4>2, <4>3, <4>4
    <3> QED BY <3>1, <3>2
  <2> QED BY <1>0, <1>k, <2>1, <2>2, ApartKept
<1>2. CASE TakeRound /\ data # <<>>
  <2>1. Touched /\ Bundled
    BY <1>2 DEF RoundsApart, Untouched, Touched
  <2>2. data' = Tail(data) /\ Len(data) = 1
    BY <1>2, <2>1 DEF TakeRound, Bundled
  <2>3. data' = <<>>
    BY <1>0, <2>2
  <2>4. Drained'
    BY <1>0, <1>k, <2>1, DrainedKept DEF Bundled, workerVars
  <2>5. Together("run")'
    <3>1. ListTypeOK(Thread, Label) /\ "run" \in Thread
      BY TypeParts, Threads DEF TypeInv
    <3> QED BY <1>0, <1>k, <2>1, <3>1, ElsewhereTogether DEF Touched
  <2>6. PoppedDown'
    BY <1>0, <1>k, <2>1 DEF Touched, PoppedDown, At, workerVars
  <2> QED BY <1>k, <2>1, <2>3, <2>4, <2>5, <2>6 DEF RoundsApart, Touched
<1> QED BY <1>1, <1>2

(* StarterLoop touches nothing of this.                                    *)
LEMMA StarterLoopApart ==
    ASSUME TypeInv, RoundsApart, StarterLoop
    PROVE  RoundsApart'
<1>1. /\ KeepsOthers("starter") /\ UNCHANGED <<data, SequenceVars, workerVars, bundle>>
  BY StarterLoopKeeps
<1>2. Fired' <=> Fired
  BY <1>1, FiredKept DEF KeepsOthers, Thread, SequenceVars, roundVars, packVars
<1> QED BY <1>1, <1>2, ApartKept DEF KeepsOthers, Thread

(* A run begins with new workers, and no trigger of it was fired.          *)
LEMMA FirstUntouched ==
    ASSUME TypeInv, Driven, RoundsApart, FirstStep
    PROVE  Untouched'
<1>1. pc["trigger"] \notin {"configured", "await"}
  BY SequenceDriven DEF Sequencing, FirstStep, At, Running
<1>2. data' = <<>>
  BY <1>1, QueuedMeansFired DEF FirstStep, Fired
<1>3. pc'["trigger"] = "outer" /\ pc'["run"] = "outer"
  BY DEF FirstStep, Thread
<1>4. \A w \in Worker : ~Device(w).dumps_first =>
         captured'[w] = <<>> /\ work'[w] = "none" /\ ~has_event'[w]
  BY DEF FirstStep, Construct, NewCaptured, OnEach
<1> QED BY <1>2, <1>3, <1>4 DEF Untouched, Fired, At

(* Its other steps start or stop workers, or flush before any trigger.     *)
LEMMA FrontendApart ==
    ASSUME TypeInv, Driven, RoundsApart, Frontend
    PROVE  RoundsApart'
<1> DEFINE m == "main"
           v == idx[m]
<1>0. /\ pc \in [Thread -> Label] /\ idx \in [Thread -> Worker] /\ m \in Thread
      /\ v \in Worker /\ ListTypeOK(Thread, Label) /\ "run" \in Thread
      /\ has_event \in [Worker -> BOOLEAN]
      /\ work \in [Worker -> {"none", "dump", "poll", "read", "finish", "push"}]
  BY TypeParts, Threads DEF TypeInv, StateOK, WorkersTypeOK
<1>1. CASE FirstStep
  BY <1>1, FirstUntouched DEF RoundsApart
<1>2. CASE ~FirstStep
  <2>1. /\ KeepsOthers(m) /\ UNCHANGED <<SequenceVars, bundle>>
        /\ pc'["run"] = pc["run"] /\ idx'["run"] = idx["run"]
    BY <1>2, FrontendKeeps DEF KeepsOthers, Thread
  <2>2. Fired' <=> Fired
    BY <2>1, FiredKept DEF KeepsOthers, Thread, SequenceVars, roundVars, packVars
  <2>3. data' \in {data, <<>>}
    BY <1>2, <2>1 DEF Frontend, BeginOfRun, EndOfRun, PauseResume, IssueTrigger, TakeEvent,
           MainStep, Step, Test, OnList, FirstStep, managerVars
  <2>4. pc[m] \notin Opening => pc'[m] \notin Opening
    BY <1>0, <1>2, <2>1 DEF Frontend, BeginOfRun, EndOfRun, PauseResume, IssueTrigger,
           TakeEvent, MainStep, Step, Test, OnList, FirstStep, StartThreads, StartWorkers,
           StopWorkers, StopThreads, AnyWorkersHaveEvent, FlushEventData, FlushQueue,
           FlushFlag, NextWorker, Goto, At, Opening, SequenceVars
  <2>5. CASE UNCHANGED workerVars
    BY <2>1, <2>2, <2>3, <2>4, <2>5, ApartKept
  <2>6. CASE \/ StartThreads(m, "threads", "workers") \/ StartWorkers(m, "workers", "stale")
             \/ FlushEventData(m, "stale_flush", "stale_flag", "stale")
    <3>1. Untouched
      BY <2>6 DEF RoundsApart, Touched, Opening, StartThreads, StartWorkers, FlushEventData,
             FlushQueue, FlushFlag, At
    <3>2. /\ UNCHANGED captured
          /\ \A w \in Worker : has_event'[w] => has_event[w]
          /\ \A w \in Worker : \/ work'[w] = work[w]
                               \/ work'[w] = IF Device(w).dumps_first THEN "dump" ELSE "poll"
      BY <1>0, <2>6 DEF StartThreads, StartWorkers, FlushEventData, FlushQueue, FlushFlag,
             StartThread, SetGoTime, ClearQueue, ClearFlag, deviceVars, queueVars
    <3>3. Untouched'
      BY <2>1, <2>2, <2>3, <3>1, <3>2 DEF Untouched, At
    <3> QED BY <3>3 DEF RoundsApart
  <2>7. CASE \/ StopWorkers(m, "stop_workers", "stop_threads")
             \/ StopThreads(m, "stop_threads", "join_thread", "join")
    <3>1. UNCHANGED <<captured, work, has_event, triggers>>
      BY <2>7 DEF StopWorkers, StopThreads, SetGoTime, AskToStop, deviceVars, queueVars,
             workerVars
    <3>2. CASE Untouched
      BY <2>1, <2>2, <2>3, <3>1, <3>2 DEF RoundsApart, Untouched, At
    <3>3. CASE Touched
      <4>1. /\ m \in Thread \ {"run"}
            /\ {"stop_workers", "stop_threads", "join_thread", "join"} \subseteq Label
        BY DEF Thread, Label
      <4>2. Together("run")'
        BY <1>0, <2>7, <3>3, <4>1, StartStopTogether DEF Touched
      <4>3. PoppedDown'
        BY <2>1, <3>1, <3>3 DEF Touched, PoppedDown, At
      <4>4. Drained => Drained'
        BY <2>1, <3>1, DrainedKept
      <4>5. data' # <<>> => Bundled'
        BY <2>2, <2>3, <3>1, <3>3, <4>4 DEF Touched, Bundled
      <4> QED BY <2>2, <2>4, <3>3, <4>2, <4>3, <4>4, <4>5 DEF RoundsApart, Touched
    <3> QED BY <3>2, <3>3 DEF RoundsApart
  <2> QED BY <1>2, <2>1, <2>5, <2>6, <2>7 DEF Frontend, BeginOfRun, EndOfRun, PauseResume,
             IssueTrigger, TakeEvent, MainStep, Step, Test, OnList, FirstStep, SequenceVars,
             AnyWorkersHaveEvent
<1> QED BY <1>1, <1>2

(* A worker without an event goes on without one.                          *)
LEMMA WorkersApart ==
    ASSUME Apart, TypeInv, RoundsApart, WorkerThreads
    PROVE  RoundsApart'
<1>0. /\ ListTypeOK(Thread, Label) /\ "run" \in Thread /\ WorkersTypeOK
      /\ UNCHANGED <<pc, idx, bundle, managerVars, triggers>>
  BY TypeParts, Threads, WorkersKeep DEF TypeInv, StateOK
<1>1. PICK u \in Worker : WorkerStep(u) /\ WorkLoop(u)
  BY DEF WorkerThreads, WorkerStep
<1>2. Fired' <=> Fired
  BY <1>0, FiredKept DEF managerVars, roundVars, packVars
<1>3. ASSUME NEW w \in Worker, captured[w] = <<>>, ~InProgress(w), ~has_event[w]
      PROVE  /\ captured'[w] = <<>> /\ ~InProgress(w)' /\ ~has_event'[w]
             /\ work[w] # "dump" => work'[w] \in {work[w], "none"}
  <2>1. CASE u # w
    BY <1>0, <1>1, <1>3, <2>1 DEF WorkLoop, Dump, Poll, Read, Finish, Push, Exit, deviceVars,
           queueVars, WorkersTypeOK, InProgress
  <2>2. CASE u = w
    <3>1. ~Poll(w)
      BY <1>3, AlonePolls DEF Apart
    <3>2. Dump(w) \/ Exit(w)
      BY <1>1, <1>3, <2>2, <3>1 DEF WorkLoop, Read, Finish, Push, InProgress
    <3>3. HandOver(w) = <<>>
      BY <1>3 DEF HandOver
    <3> QED BY <1>0, <1>3, <3>2, <3>3 DEF Dump, Exit, WorkersTypeOK, InProgress, queueVars
  <2> QED BY <2>1, <2>2
<1>4. CASE Untouched
  <2>1. \A w \in Worker : ~Device(w).dumps_first =>
           captured'[w] = <<>> /\ work'[w] \in {"none", "poll"} /\ ~has_event'[w]
    BY <1>3, <1>4 DEF Untouched, InProgress
  <2> QED BY <1>0, <1>2, <1>4, <2>1 DEF RoundsApart, Untouched, At, managerVars
<1>5. CASE Touched
  <2>1. Together("run")'
    BY <1>0, <1>1, <1>5, WorkerKeepsTogether DEF Touched
  <2>2. Drained => Drained'
    BY <1>0, <1>3 DEF Drained
  <2>3. PoppedDown'
    <3>1. CASE pc["run"] \notin {"get", "push"}
      BY <1>0, <3>1 DEF PoppedDown, At
    <3>2. CASE pc["run"] \in {"get", "push"}
      <4>1. UNCHANGED queueVars
        BY <1>0, <1>1, <1>5, <3>2, SettledStays DEF Touched, Together, WorkersWait, Apart
      <4> QED BY <1>0, <1>5, <4>1 DEF Touched, PoppedDown, At, queueVars
    <3> QED BY <3>1, <3>2
  <2>4. data' # <<>> => Bundled'
    BY <1>0, <1>2, <1>5, <2>2 DEF Touched, Bundled, managerVars
  <2> QED BY <1>0, <1>2, <1>5, <2>1, <2>2, <2>3, <2>4 DEF RoundsApart, Touched
<1> QED BY <1>4, <1>5 DEF RoundsApart

(* No step of any thread mixes two rounds.                                 *)
LEMMA ApartStep ==
    ASSUME Paced, Apart, SomeDoNotDump
    PROVE  TypeInv /\ Driven /\ Started /\ TakesTurns /\ RoundsApart /\ [Next]_vars
              => RoundsApart'
<1> SUFFICES ASSUME TypeInv, Driven, Started, TakesTurns, RoundsApart, [Next]_vars
             PROVE  RoundsApart'
  OBVIOUS
<1>1. CASE RunLoop
  BY <1>1, RunUntouched, RunTouched DEF RoundsApart
<1>2. CASE UNCHANGED vars
  BY <1>2, ApartKept DEF vars, listVars, managerVars, workerVars, Fired, Taken, roundVars,
         packVars
<1> QED BY <1>1, <1>2, TriggerLoopApart, BuilderApart, StarterLoopApart, FrontendApart,
           WorkersApart DEF Next

-----------------------------------------------------------------------------
(* The events packed.                                                      *)

(* Every sequence begun is packed, but for the one that goes on.           *)
Counted ==
    sequences = Len(packed) + (IF At("trigger", "unfinish") \/ ~builder_has_finished
                               THEN 1 ELSE 0)

(* BuilderLoop has the probes of the rounds it has taken.                  *)
Probed ==
    ~builder_has_finished =>
        \A r \in 1..Taken : \E n \in DOMAIN aim :
            aim[n] = <<sequences, r>> /\ probes[r] = Whole(Wfd[r], n)

PackInv == Counted /\ Probed /\ EventsProper

(* Triggers are added to the history of aims, at its end.                  *)
AimGrows == \A n \in DOMAIN aim : n \in DOMAIN aim' /\ aim'[n] = aim[n]

(* At first nothing is packed.                                             *)
LEMMA PackInit == ASSUME Init PROVE PackInv
<1>1. pc["trigger"] = "done" /\ packed = <<>>
  BY DEF Init, Thread
<1>2. Len(packed) = 0 /\ DOMAIN packed = {}
  BY <1>1
<1> QED BY <1>1, <1>2 DEF Init, PackInv, Counted, Probed, EventsProper, At

(* No step takes an entry from the history of aims.                        *)
LEMMA AimIsKept == ASSUME TypeInv, [Next]_vars PROVE AimGrows
<1>0. aim \in Seq(Nat \X Round) /\ <<sequences, mux>> \in Nat \X Round
  BY TypeParts DEF TypeInv, CountersOK
<1>1. aim' = aim \/ aim' = Append(aim, <<sequences, mux>>)
  <2>1. CASE TriggerLoop
    BY <2>1 DEF TriggerLoop, BeginSequence, BeginRound, FireTriggers, EndRound, EndSequence,
           Await, SetFlag, Test, Step, managerVars, roundVars
  <2>2. CASE ~TriggerLoop
    BY <2>2, RunLoopKeeps, BuilderLoopKeeps, StarterLoopKeeps, FrontendKeeps, WorkersKeep
       DEF Next, SequenceVars, roundVars, managerVars
  <2> QED BY <2>1, <2>2
<1>2. CASE aim' = aim
  BY <1>2 DEF AimGrows
<1>3. CASE aim' = Append(aim, <<sequences, mux>>)
  <2>1. /\ Len(aim') = Len(aim) + 1 /\ DOMAIN aim' = 1..(Len(aim) + 1)
        /\ DOMAIN aim = 1..Len(aim) /\ Len(aim) \in Nat
        /\ \A n \in 1..Len(aim) : aim'[n] = aim[n]
    BY <1>0, <1>3
  <2> QED BY <2>1 DEF AimGrows
<1> QED BY <1>1, <1>2, <1>3

(* What packs no event, begins no sequence and takes no round.             *)
LEMMA PackKept ==
    ASSUME TypeInv, PackInv, AimGrows, UNCHANGED <<sequences, probes, packed>>,
           Taken' \in {0, Taken},
           ~builder_has_finished' => ~builder_has_finished \/ Taken' = 0,
           At("trigger", "unfinish")' \/ ~builder_has_finished'
              <=> At("trigger", "unfinish") \/ ~builder_has_finished
    PROVE  PackInv'
<1>1. Counted'
  BY DEF PackInv, Counted
<1>2. Probed'
  <2>1. CASE Taken' = 0
    BY <2>1 DEF Probed
  <2>2. CASE Taken' = Taken /\ Taken' # 0
    BY <2>2 DEF PackInv, Probed, AimGrows, Whole
  <2> QED BY <2>1, <2>2
<1>3. EventsProper'
  BY DEF PackInv, EventsProper, AimGrows, Whole
<1> QED BY <1>1, <1>2, <1>3 DEF PackInv

(* Beginning one counts it, and the rest of TriggerLoop does not.          *)
LEMMA TriggerLoopPacks ==
    ASSUME TypeInv, TakesTurns, PackInv, AimGrows, TriggerLoop
    PROVE  PackInv'
<1> DEFINE t == "trigger"
<1>0. /\ pc \in [Thread -> Label] /\ t \in Thread
      /\ KeepsOthers(t) /\ UNCHANGED <<seq_index, probes, packed>>
      /\ sequences \in Nat /\ packed \in Seq(Packed)
  BY TypeParts, Threads, TriggerLoopKeeps DEF TypeInv, StateOK, CountersOK, packVars, EventsOK
<1>1. Taken' = Taken
  BY <1>0 DEF Taken, KeepsOthers, Thread
<1>2. CASE At(t, "begin")
  <2>1. /\ pc[t] = "begin" /\ pc'[t] = "unfinish" /\ sequences' = sequences + 1
        /\ UNCHANGED builder_has_finished
    BY <1>0, <1>2 DEF TriggerLoop, BeginSequence, BeginRound, FireTriggers, EndRound,
           EndSequence, Await, SetFlag, Test, Step, Goto, At
  <2>2. builder_has_finished
    BY <2>1 DEF TakesTurns, Idling
  <2>3. Counted'
    <3>1. sequences = Len(packed) + 0
      BY <2>1, <2>2 DEF PackInv, Counted, At
    <3> QED BY <1>0, <2>1, <3>1 DEF Counted, At
  <2>4. Probed'
    BY <2>1, <2>2 DEF Probed
  <2>5. EventsProper'
    BY <1>0 DEF PackInv, EventsProper, AimGrows, Whole
  <2> QED BY <2>3, <2>4, <2>5 DEF PackInv
<1>3. CASE At(t, "unfinish")
  <2>1. /\ pc[t] = "unfinish" /\ UNCHANGED sequences /\ ~builder_has_finished'
    BY <1>0, <1>3 DEF TriggerLoop, BeginSequence, BeginRound, FireTriggers, EndRound,
           EndSequence, Await, SetFlag, Test, Step, Goto, At, roundVars
  <2>2. Taken = 0
    BY <2>1 DEF TakesTurns
  <2> QED BY <1>0, <1>1, <1>3, <2>1, <2>2, PackKept
<1>4. CASE ~At(t, "begin") /\ ~At(t, "unfinish")
  <2>1. UNCHANGED <<sequences, builder_has_finished>> /\ pc'[t] # "unfinish"
    BY <1>0, <1>4 DEF TriggerLoop, BeginSequence, BeginRound, FireTriggers, EndRound,
           EndSequence, Await, SetFlag, Test, Step, Goto, At, roundVars, flagVars, managerVars
  <2> QED BY <1>0, <1>1, <1>4, <2>1, PackKept DEF At
<1> QED BY <1>2, <1>3, <1>4

(* The probe BuilderLoop takes is what the round's digitizer saw of the    *)
(* round's pulse.                                                          *)
LEMMA TakeRoundPacks ==
    ASSUME TypeInv, Aimed, TakesTurns, RoundsApart, PackInv, AimGrows,
           TakeRound, data # <<>>
    PROVE  PackInv'
<1> DEFINE t == "builder"
<1>b. BuilderLoop /\ UNCHANGED packed
  BY DEF BuilderLoop, TakeRound, outVars
<1>k. KeepsOthers(t) /\ UNCHANGED <<sequences, aim, round>>
  BY <1>b, BuilderLoopKeeps DEF roundVars
<1>c. CountersOK /\ NRounds \in Nat /\ Wfd \in [Round -> Worker] /\ Round = 1..NRounds
  BY TypeParts, EventManagerTrgSeqAssumption DEF TypeInv, Round
<1>0. /\ pc \in [Thread -> Label] /\ t \in Thread /\ seq_index \in Nat /\ triggers \in Nat
      /\ Round = 1..NRounds /\ NRounds \in Nat /\ Wfd \in [Round -> Worker]
      /\ aim \in Seq(Nat \X Round) /\ data \in Seq(Bundle) /\ round \in Nat
      /\ KeepsOthers(t) /\ UNCHANGED <<sequences, packed, aim, round>>
  BY <1>b, <1>k, <1>c DEF TypeInv, StateOK, CountersOK, WorkersTypeOK, Thread
<1>1. /\ pc[t] = "take" /\ pc'[t] = "round_data" /\ seq_index' = seq_index + 1
      /\ UNCHANGED builder_has_finished
      /\ probes' = [r \in Round |-> IF r = seq_index + 1 THEN Head(data)[Wfd[r]] ELSE probes[r]]
      /\ pc'["trigger"] = pc["trigger"]
  BY <1>0 DEF TakeRound, Step, Goto, At, KeepsOthers, Thread, flagVars
<1>2. Bundled /\ Fired
  BY DEF RoundsApart, Untouched, Touched, Bundled
<1>3. pc["trigger"] = "await" /\ Shot /\ seq_index + 1 = round /\ round \in Round
  <2>1. pc["trigger"] \in {"configured", "await"} /\ Taken = seq_index
        /\ seq_index = round - 1
    BY <1>1, <1>2 DEF Fired, Taken
  <2>2. pc["trigger"] = "await"
    BY <1>1, <2>1 DEF TakesTurns
  <2>3. Shot
    BY <1>0, <1>1, <2>1, <2>2 DEF TakesTurns, Caught
  <2>4. round \in Round
    BY <2>2 DEF TypeInv, InRange
  <2> QED BY <1>0, <2>1, <2>2, <2>3, <2>4
<1>4. Counted' /\ EventsProper'
  BY <1>0, <1>1 DEF PackInv, Counted, EventsProper, At
<1>5. probes'[round] = Whole(Wfd[round], triggers)
  <2>1. Len(data) = 1 /\ Head(data) = data[1]
    BY <1>0, <1>2 DEF Bundled
  <2>2. Wfd[round] \in Worker
    BY <1>0, <1>3
  <2> QED BY <1>1, <1>2, <1>3, <2>1, <2>2 DEF Bundled
<1>6. triggers \in DOMAIN aim /\ aim[triggers] = <<sequences, round>>
  BY <1>0, <1>3 DEF Aimed, Shot
<1>7. Taken = seq_index /\ Taken' = round
  BY <1>1, <1>3 DEF Taken
<1>8. ASSUME ~builder_has_finished, NEW r \in 1..round
      PROVE  \E n \in DOMAIN aim : aim[n] = <<sequences, r>> /\ probes'[r] = Whole(Wfd[r], n)
  <2>1. CASE r = round
    BY <1>5, <1>6, <2>1
  <2>2. CASE r # round
    <3>1. r \in 1..Taken /\ r \in Round /\ r # seq_index + 1
      BY <1>0, <1>3, <1>7, <2>2
    <3>2. probes'[r] = probes[r]
      BY <1>1, <3>1
    <3> QED BY <1>8, <3>1, <3>2 DEF PackInv, Probed
  <2> QED BY <2>1, <2>2
<1>9. Probed'
  BY <1>0, <1>1, <1>7, <1>8 DEF Probed, Whole
<1> QED BY <1>4, <1>9 DEF PackInv

(* The event it pushes has all the probes of the sequence that goes on.    *)
LEMMA PushPacks ==
    ASSUME TypeInv, TakesTurns, PackInv, PushEvent
    PROVE  PackInv'
<1> DEFINE t == "builder"
<1>0. /\ pc \in [Thread -> Label] /\ t \in Thread
      /\ packed \in Seq(Packed) /\ probes \in Packed
      /\ BuilderLoop /\ KeepsOthers(t) /\ UNCHANGED <<sequences, aim>>
      /\ Round = 1..NRounds
  BY TypeParts, Threads, BuilderLoopKeeps
     DEF TypeInv, StateOK, EventsOK, Round, roundVars, BuilderLoop
<1>1. /\ pc[t] = "push" /\ builder_has_finished' /\ packed' = Append(packed, probes)
      /\ pc'["trigger"] = pc["trigger"]
  BY <1>0 DEF PushEvent, Step, At, KeepsOthers, Thread
<1>2. /\ pc["trigger"] \in {"forget", "await_builder"}
      /\ Taken = NRounds /\ ~builder_has_finished
  BY <1>1 DEF TakesTurns, Idling, Caught
<1>3. /\ DOMAIN packed = 1..Len(packed) /\ DOMAIN packed' = 1..(Len(packed) + 1)
      /\ Len(packed') = Len(packed) + 1 /\ Len(packed) \in Nat
      /\ \A i \in 1..Len(packed) : packed'[i] = packed[i]
      /\ packed'[Len(packed) + 1] = probes
  BY <1>0, <1>1
<1>4. sequences = Len(packed) + 1
  BY <1>2 DEF PackInv, Counted
<1>5. Counted'
  BY <1>0, <1>1, <1>2, <1>3, <1>4 DEF Counted, At
<1>6. Probed'
  BY <1>1 DEF Probed
<1>7. EventsProper'
  <2> SUFFICES ASSUME NEW i \in DOMAIN packed', NEW r \in Round
               PROVE  \E n \in DOMAIN aim' :
                         aim'[n] = <<i, r>> /\ packed'[i][r] = Whole(Wfd[r], n)'
    BY DEF EventsProper
  <2>1. CASE i \in DOMAIN packed
    BY <1>0, <1>3, <2>1 DEF PackInv, EventsProper, Whole
  <2>2. CASE i = Len(packed) + 1
    BY <1>0, <1>2, <1>3, <1>4, <2>2 DEF PackInv, Probed, Whole
  <2> QED BY <1>3, <2>1, <2>2
<1> QED BY <1>5, <1>6, <1>7 DEF PackInv

(* So far BuilderLoop's other steps.                                       *)
LEMMA BuilderPacks ==
    ASSUME TypeInv, Aimed, TakesTurns, RoundsApart, PackInv, AimGrows, BuilderLoop
    PROVE  PackInv'
<1> DEFINE t == "builder"
<1>0. /\ pc \in [Thread -> Label] /\ t \in Thread
      /\ KeepsOthers(t) /\ UNCHANGED sequences /\ pc'["trigger"] = pc["trigger"]
  BY Threads, BuilderLoopKeeps DEF TypeInv, StateOK, roundVars, KeepsOthers, Thread
<1>1. CASE ~PushEvent /\ ~(TakeRound /\ data # <<>>)
  <2>1. UNCHANGED <<probes, packed, builder_has_finished>>
    BY <1>1 DEF BuilderLoop, NewTurn, TakeRound, RoundTaken, Test, managerVars, packVars,
           outVars, flagVars
  <2>2. Taken' \in {0, Taken}
    BY <1>0, <1>1 DEF Taken, BuilderLoop, NewTurn, TakeRound, RoundTaken, Step, Test, Goto,
           At, managerVars, packVars
  <2> QED BY <1>0, <2>1, <2>2, PackKept DEF At
<1> QED BY <1>1, PushPacks, TakeRoundPacks

(* No step of any thread packs a wrong event.                              *)
LEMMA PackStep ==
    TypeInv /\ Driven /\ Aimed /\ TakesTurns /\ RoundsApart /\ PackInv /\ [Next]_vars
       => PackInv'
<1> SUFFICES ASSUME TypeInv, Driven, Aimed, TakesTurns, RoundsApart, PackInv, [Next]_vars
             PROVE  PackInv'
  OBVIOUS
<1>0. AimGrows
  BY AimIsKept
<1>1. CASE /\ UNCHANGED SequenceVars /\ pc'["trigger"] = pc["trigger"]
           /\ pc'["builder"] = pc["builder"]
  <2>1. UNCHANGED <<sequences, probes, packed, builder_has_finished>> /\ Taken' = Taken
    BY <1>1 DEF SequenceVars, roundVars, packVars, flagVars, Taken
  <2> QED BY <1>0, <1>1, <2>1, PackKept DEF At
<1>2. CASE RunLoop
  BY <1>1, <1>2, RunLoopKeeps DEF KeepsOthers, Thread
<1>3. CASE StarterLoop
  BY <1>1, <1>3, StarterLoopKeeps DEF KeepsOthers, Thread
<1>4. CASE WorkerThreads \/ UNCHANGED vars
  BY <1>1, <1>4, WorkersKeep DEF SequenceVars, managerVars, outVars
<1>5. CASE Frontend
  <2>1. UNCHANGED SequenceVars /\ (FirstStep \/ KeepsOthers("main"))
    BY <1>5, FrontendKeeps
  <2>2. CASE KeepsOthers("main")
    BY <1>1, <2>1, <2>2 DEF KeepsOthers, Thread
  <2>3. CASE FirstStep
    <3>1. builder_has_finished /\ pc["trigger"] = "done" /\ pc["builder"] = "done"
      BY <2>3, SequenceDriven DEF FirstStep, At, TypeInv, IdleMeansDone, Loops, Thread,
             Sequencing, Running
    <3>2. pc'["trigger"] = "outer" /\ pc'["builder"] = "outer"
      BY <2>3 DEF FirstStep, Thread
    <3>3. UNCHANGED <<sequences, probes, packed, builder_has_finished>> /\ Taken' = Taken
      BY <2>1, <3>1, <3>2 DEF SequenceVars, roundVars, packVars, flagVars, Taken
    <3> QED BY <1>0, <3>1, <3>2, <3>3, PackKept DEF At
  <2> QED BY <2>1, <2>2, <2>3
<1> QED BY <1>0, <1>2, <1>3, <1>4, <1>5, TriggerLoopPacks, BuilderPacks DEF Next

(* What holds of the sequences until one is spoilt.                        *)
Unspoilt == Driven /\ TakesTurns /\ RoundsApart /\ PackInv

(* The history tells of every spoilt sequence.                             *)
LEMMA SpoiltIsKept ==
    ASSUME TypeOK, [Next]_vars, ~spoilt'
    PROVE  ~spoilt /\ ~Spoils
<1>1. CASE UNCHANGED vars
  BY <1>1 DEF vars, listVars, Spoils, At
<1>2. CASE Next
  BY <1>2 DEF Next, History
<1> QED BY <1>1, <1>2

(* The i-th event packed is that of the i-th sequence, probe by probe, as  *)
(* long as BuilderLoop's two tests were not split by a sequence that began *)
(* and none began before BeginOfRun was over: for any number of rounds and *)
(* workers, with no two workers of one kind and one that dumps no first    *)
(* event, whatever the flags begin with, if rounds are further apart than  *)
(* what they wait for and no run is paused or ended in a sequence.         *)
THEOREM SequencesProper ==
    ASSUME Paced, Steady, Apart, SomeDoNotDump
    PROVE  Spec => []EventsUnspoilt
<1> DEFINE Inv == /\ TypeInv /\ spoilt \in BOOLEAN /\ Started /\ Aimed
                  /\ ~spoilt => Unspoilt
<1>1. Init => Inv
  <2>1. Init => Aimed /\ spoilt \in BOOLEAN
    BY DEF Init, WorkersInit, Aimed
  <2> QED BY <2>1, TypeInit, DrivenInit, StartedInit, TurnsInit, ApartInit, PackInit
          DEF Unspoilt
<1>2. Inv => EventsUnspoilt
  BY DEF Unspoilt, PackInv, EventsUnspoilt
<1>3. Inv /\ [Next]_vars => Inv'
  <2> SUFFICES ASSUME Inv, [Next]_vars PROVE Inv'
    OBVIOUS
  <2>1. TypeInv' /\ Started' /\ Aimed'
    BY TypeStep, StartedStep, AimedStep
  <2>2. spoilt' \in BOOLEAN
    BY SpoiltStep
  <2>3. ASSUME ~spoilt' PROVE Unspoilt'
    <3>1. ~spoilt /\ ~Spoils
      BY <2>3, SpoiltIsKept DEF TypeOK, TypeInv
    <3>2. Driven /\ TakesTurns /\ RoundsApart /\ PackInv
      BY <3>1 DEF Unspoilt
    <3>3. Driven'
      BY <3>1, <3>2, DrivenStep
    <3>4. TakesTurns'
      BY <3>1, <3>2, TurnsStep
    <3>5. RoundsApart'
      BY <3>2, ApartStep
    <3>6. PackInv'
      BY <3>2, PackStep
    <3> QED BY <3>3, <3>4, <3>5, <3>6 DEF Unspoilt
  <2> QED BY <2>1, <2>2, <2>3
<1> QED BY <1>1, <1>2, <1>3, PTL DEF Spec
=============================================================================
