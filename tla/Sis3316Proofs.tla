---------------------------- MODULE Sis3316Proofs ----------------------------
(***************************************************************************)
(* Proofs about the SIS 3316's readout, for any threads and classes, any   *)
(* number of channels, events and faults and any limits on the attempts.   *)
(*                                                                         *)
(* TypeOK is inductive.  OwnAnswer is not: it holds because a thread that  *)
(* has the device open holds the mutex (Guarded), so that no other call    *)
(* can touch the static result between the transfer and the return         *)
(* (Kept).  BadEventsLogged needs ReadoutInv: what has been logged and     *)
(* which bank is armed at each place of the readout.  No bound on the      *)
(* failures is assumed.                                                    *)
(***************************************************************************)
EXTENDS Sis3316, TLAPS

(* The steps of a call.                                                    *)
CallStep(t) ==
    \/ Begin(t) \/ Forget(t) \/ Lock(t) \/ Open(t) \/ OpenAgain(t) \/ NoDevice(t)
    \/ (\E rc \in Answer : Transfer(t, rc)) \/ Return(t)

Holding == {"open", "transfer", "close"}

(* The device is opened, used and closed under the mutex.                  *)
Guarded == \A t \in Thread : call[t].step \in Holding => vme_mutex = t

(* The static result of a call that is about to return is its own.         *)
Kept == \A t \in Thread : At(t, "close") => statics[Class[t]].retval = call[t].own

BusInv == BusTypeOK /\ Guarded /\ Kept /\ OwnAnswer

(* Every step of the system is a step of one call or leaves the bus alone. *)
LEMMA NextIsCallStep ==
    ASSUME [Next]_vars
    PROVE  (\E t \in Thread : CallStep(t)) \/ UNCHANGED busVars
<1> USE Sis3316Assumption
<1>1. ASSUME Trigger \/ Latch \/ SetGoTime \/ UNCHANGED vars
      PROVE  UNCHANGED busVars
  BY <1>1 DEF Trigger, Latch, SetGoTime, vars, busVars
<1>2. ASSUME BusCall PROVE CallStep(Digitizer)
  BY <1>2 DEF BusCall, TransferOk, TransferFails, CallStep, Answer
<1>3. ASSUME WorkLoop PROVE CallStep(Digitizer) \/ UNCHANGED busVars
  BY <1>3 DEF WorkLoop, Poll, AcqAgain, Available, ArmAgain, Swapped, AddressAnswered,
     GiveUp, StartAnswered, TraceAnswered, ResetAnswered, Push, Call, CallStep
<1>4. ASSUME NEW t \in Others, OtherCall(t) PROVE t \in Thread /\ CallStep(t)
  BY <1>4 DEF OtherCall, Others, CallStep
<1> QED BY <1>1, <1>2, <1>3, <1>4 DEF Next, Sis3316Assumption

LEMMA BusInitially == Init => BusInv
<1> SUFFICES ASSUME Init PROVE BusInv
  OBVIOUS
<1> USE VmeBusAssumption DEF Init, BusInit, VmeBusAssumption
<1>1. \A t \in Thread : call[t] = [step |-> "none", rc |-> 0, own |-> 0]
  BY DEF NoCall, Ok
<1>2. vme_mutex \in Thread \cup {Nobody}
  OBVIOUS
<1>3. call \in [Thread -> [step : {"none", "lock", "open", "transfer", "close", "done"},
                          rc : Answer, own : Answer]]
  BY DEF NoCall, Answer, Ok, Failed
<1>4. statics \in [Classes -> [retval : Answer, count : 0..MaxCount]]
  <2>1. [retval |-> Ok, count |-> 0] \in [retval : Answer, count : 0..MaxCount]
    BY DEF Answer, Ok, Failed
  <2> QED BY <2>1
<1> QED BY <1>1, <1>2, <1>3, <1>4
     DEF BusInv, BusTypeOK, Guarded, Kept, OwnAnswer, Holding, At, Finished

LEMMA CallKeepsTypes ==
    ASSUME BusTypeOK, NEW t \in Thread, CallStep(t)
    PROVE  BusTypeOK'
<1> USE VmeBusAssumption DEF BusTypeOK, Classes, Answer, Ok, Failed, NoCall
<1> DEFINE Calling == [step : {"none", "lock", "open", "transfer", "close", "done"},
                       rc : Answer, own : Answer]
<1>1. call[t] \in Calling /\ Class[t] \in Classes /\ statics[Class[t]] \in
         [retval : Answer, count : 0..MaxCount]
  OBVIOUS
<1>2. MaxCount \in Nat
  BY DEF VmeBusAssumption
<1>3. CASE Begin(t) \/ Forget(t)
  <2>1. NoCall \in Calling /\ [NoCall EXCEPT !.step = "lock"] \in Calling
    OBVIOUS
  <2>2. PICK c \in Calling : call' = [call EXCEPT ![t] = c]
    BY <1>3, <2>1 DEF Begin, Forget
  <2>3. call' \in [Thread -> Calling]
    BY <2>2
  <2> QED BY <1>3, <2>3 DEF Begin, Forget
<1>4. CASE Lock(t)
  <2>1. [statics[Class[t]] EXCEPT !.count = 0] \in [retval : Answer, count : 0..MaxCount]
    BY <1>1, <1>2
  <2>2. statics' = [statics EXCEPT ![Class[t]] = [@ EXCEPT !.count = 0]]
    BY <1>4 DEF Lock
  <2>3. statics' \in [Classes -> [retval : Answer, count : 0..MaxCount]]
    BY <1>1, <2>1, <2>2
  <2> QED BY <1>1, <1>4, <2>3 DEF Lock
<1>5. CASE Open(t)
  BY <1>1, <1>5 DEF Open
<1>6. CASE OpenAgain(t)
  BY <1>1, <1>2, <1>6 DEF OpenAgain
<1>7. CASE NoDevice(t)
  BY <1>7 DEF NoDevice
<1>8. CASE \E rc \in Answer : Transfer(t, rc)
  <2> PICK rc \in Answer : Transfer(t, rc)
    BY <1>8
  <2>1. [statics[Class[t]] EXCEPT !.retval = rc] \in [retval : Answer, count : 0..MaxCount]
    BY <1>1
  <2>2. statics' = [statics EXCEPT ![Class[t]] = [@ EXCEPT !.retval = rc]]
    BY DEF Transfer
  <2>3. statics' \in [Classes -> [retval : Answer, count : 0..MaxCount]]
    BY <1>1, <2>1, <2>2
  <2> QED BY <1>1, <2>3 DEF Transfer
<1>9. CASE Return(t)
  BY <1>1, <1>9 DEF Return
<1> QED BY <1>3, <1>4, <1>5, <1>6, <1>7, <1>8, <1>9 DEF CallStep

(* One step of one call, for each thread u that may notice it.             *)
LEMMA CallKeepsAnswers ==
    ASSUME BusInv, NEW t \in Thread, CallStep(t)
    PROVE  (Guarded /\ Kept /\ OwnAnswer)'
<1>1. BusTypeOK'
  BY CallKeepsTypes DEF BusInv
<1> SUFFICES ASSUME NEW u \in Thread
             PROVE  /\ call'[u].step \in Holding => vme_mutex' = u
                    /\ call'[u].step = "close" =>
                          statics'[Class[u]].retval = call'[u].own
                    /\ call'[u].step = "done" => call'[u].rc = call'[u].own
  BY DEF Guarded, Kept, OwnAnswer, At, Finished
<1> USE VmeBusAssumption
    DEF BusInv, BusTypeOK, Guarded, Kept, OwnAnswer, At, Finished, Holding, Classes,
        NoCall, VmeBusAssumption
<1>3. CASE Begin(t) \/ Forget(t)
  BY <1>3 DEF Begin, Forget
<1>4. CASE Lock(t)
  BY <1>4 DEF Lock
<1>5. CASE Open(t)
  BY <1>5 DEF Open
<1>6. CASE OpenAgain(t)
  BY <1>6 DEF OpenAgain
<1>7. CASE NoDevice(t)
  BY <1>7 DEF NoDevice
<1>8. ASSUME NEW rc \in Answer, Transfer(t, rc)
      PROVE  /\ call'[u].step \in Holding => vme_mutex' = u
             /\ call'[u].step = "close" => statics'[Class[u]].retval = call'[u].own
             /\ call'[u].step = "done" => call'[u].rc = call'[u].own
  BY <1>8 DEF Transfer
<1>9. CASE Return(t)
  BY <1>9 DEF Return
<1> QED BY <1>3, <1>4, <1>5, <1>6, <1>7, <1>8, <1>9 DEF CallStep

LEMMA BusInvariant == Spec => []BusInv
<1>1. Init => BusInv
  BY BusInitially
<1>2. BusInv /\ [Next]_vars => BusInv'
  <2> SUFFICES ASSUME BusInv, [Next]_vars PROVE BusInv'
    OBVIOUS
  <2>1. CASE \E t \in Thread : CallStep(t)
    BY <2>1, CallKeepsTypes, CallKeepsAnswers DEF BusInv
  <2>2. CASE UNCHANGED busVars
    BY <2>2 DEF busVars, BusInv, BusTypeOK, Guarded, Kept, OwnAnswer, At, Finished
  <2> QED BY <2>1, <2>2, NextIsCallStep
<1> QED BY <1>1, <1>2, PTL DEF Spec

(* Every thread gets the answer of its own transfer: the static result of  *)
(* WorkerVme's calls is safe under vme_mutex, whoever shares it.           *)
THEOREM AnswersOwn == Spec => []OwnAnswer
<1>1. BusInv => OwnAnswer
  BY DEF BusInv
<1> QED BY <1>1, BusInvariant, PTL

-----------------------------------------------------------------------------
(* TypeOK, action by action.                                               *)

Readouts == [event : Nat, logged : BOOLEAN, swapped : BOOLEAN, before : BOOLEAN]

(* The variables of the worker's thread.                                   *)
ThreadTypeOK ==
    /\ at \in Calls \cup {"poll", "push"}
    /\ bank2_armed_flag \in BOOLEAN /\ status \in BOOLEAN
    /\ count \in 0..(MaxPoll + 1) /\ ch \in Channel /\ msg \in Word
    /\ data \in [Channel -> Nat] /\ bundle \in [Channel -> Nat]
    /\ readout \in Readouts
    /\ pushed \in [bundle : [Channel -> Nat], event : Nat, logged : BOOLEAN,
                   before : BOOLEAN]

LEMMA LogKeepsTypes ==
    ASSUME readout \in Readouts, Log \/ UNCHANGED readout
    PROVE  readout' \in Readouts
BY DEF Log, Readouts

LEMMA ThreadTypes ==
    ASSUME ThreadTypeOK, board \in BoardType, WorkLoop
    PROVE  ThreadTypeOK'
<1> USE Sis3316Assumption DEF ThreadTypeOK, Calls, Call, Answered
<1>0. MaxPoll \in Nat /\ NumCh \in Nat \ {0} /\ count \in Nat
  BY DEF Sis3316Assumption
<1>1. CASE Poll
  <2>1. status' = FALSE /\ count' \in 0..(MaxPoll + 1)
    BY <1>0, <1>1 DEF Poll
  <2>2. status' \in BOOLEAN
    BY <2>1
  <2> QED BY <1>1, <2>1, <2>2 DEF Poll
<1>2. CASE AcqAgain
  BY <1>0, <1>2 DEF AcqAgain, Retry
<1>3. CASE Available
  <2>1. board.memory[board.armed][1] \in Nat
    BY <1>0 DEF BoardType, Bank, Channel
  <2>2. readout' \in Readouts
    <3>1. CASE readout' = [event |-> board.memory[board.armed][1], logged |-> FALSE,
                           swapped |-> TRUE, before |-> readout.logged /\ ~readout.swapped]
      <4>1. (readout.logged /\ ~readout.swapped) \in BOOLEAN
        OBVIOUS
      <4> QED BY <2>1, <3>1, <4>1 DEF Readouts
    <3>2. CASE UNCHANGED readout
      BY <3>2
    <3> QED BY <1>3, <3>1, <3>2 DEF Available
  <2>3. at' \in Calls \cup {"poll", "push"} /\ count' \in 0..(MaxPoll + 1)
    BY <1>0, <1>3 DEF Available
  <2> QED BY <1>3, <2>2, <2>3 DEF Available
<1>4. CASE ArmAgain
  BY <1>0, <1>4 DEF ArmAgain, Retry
<1>5. CASE Swapped
  <2>1. readout' \in Readouts
    <3> DEFINE logged == readout.logged \/ (~bank2_armed_flag /\ (Rc # Ok \/ count >= MaxPoll))
               swapped == (Rc = Ok)
    <3>1. readout' = [readout EXCEPT !.swapped = swapped, !.logged = logged]
      BY <1>5 DEF Swapped, Readouts
    <3>2. logged \in BOOLEAN /\ swapped \in BOOLEAN
      OBVIOUS
    <3> HIDE DEF logged, swapped
    <3> QED BY <3>1, <3>2 DEF Readouts
  <2>2. ch' \in Channel /\ count' \in 0..(MaxPoll + 1)
    BY <1>0, <1>5 DEF Swapped, Channel
  <2> QED BY <1>5, <2>1, <2>2 DEF Swapped
<1>6. CASE AddressAnswered
  <2>1. readout' \in Readouts
    BY <1>6, LogKeepsTypes DEF AddressAnswered, GiveUp, LogIf
  <2>2. Command \in Word
    BY DEF Command, Word, FreeBank, Bank
  <2>3. msg' \in Word
    BY <1>6, <2>2 DEF AddressAnswered, GiveUp
  <2>4. count' \in 0..(MaxPoll + 1)
    BY <1>0, <1>6 DEF AddressAnswered, GiveUp, TimedOut
  <2>5. at' \in Calls \cup {"poll", "push"}
    BY <1>6 DEF AddressAnswered, GiveUp
  <2> QED BY <1>6, <2>1, <2>3, <2>4, <2>5 DEF AddressAnswered
<1>7. CASE StartAnswered
  <2>1. readout' \in Readouts
    BY <1>7, LogKeepsTypes DEF StartAnswered, LogIf
  <2> QED BY <1>0, <1>7, <2>1 DEF StartAnswered
<1>8. CASE TraceAnswered
  <2>1. readout' \in Readouts
    BY <1>8, LogKeepsTypes DEF TraceAnswered, LogIf
  <2>2. count' \in 0..(MaxPoll + 1)
    BY <1>0, <1>8 DEF TraceAnswered, Retry
  <2> QED BY <1>8, <2>1, <2>2 DEF TraceAnswered
<1>9. CASE ResetAnswered
  <2>1. readout' \in Readouts
    BY <1>9, LogKeepsTypes DEF ResetAnswered, LogIf
  <2>2. ch' \in Channel
    BY <1>0, <1>9 DEF ResetAnswered, Channel
  <2>3. count' \in 0..(MaxPoll + 1) /\ bundle' \in [Channel -> Nat]
    BY <1>0, <1>9 DEF ResetAnswered
  <2>4. at' \in Calls \cup {"poll", "push"}
    BY <1>9 DEF ResetAnswered
  <2> QED BY <1>9, <2>1, <2>2, <2>3, <2>4 DEF ResetAnswered
<1>10. CASE Push
  BY <1>10 DEF Push, Readouts
<1> QED BY <1>1, <1>2, <1>3, <1>4, <1>5, <1>6, <1>7, <1>8, <1>9, <1>10 DEF WorkLoop

(* What the environment of the readout does to the board.                  *)
LEMMA BoardTypes ==
    ASSUME TypeOK, Trigger \/ Latch
    PROVE  board' \in BoardType /\ taken' \in 0..MaxEvents
<1> USE Sis3316Assumption DEF TypeOK, Bank, Other, Event
<1>1. taken \in Nat /\ MaxEvents \in Nat
  BY DEF Sis3316Assumption
<1>2. CASE Trigger
  <2>1. Event(taken + 1) \in [Channel -> Nat]
    BY <1>1
  <2>2. board' = [board EXCEPT !.full = TRUE, !.memory[board.armed] = Event(taken + 1)]
    BY <1>2 DEF Trigger
  <2>3. taken' \in 0..MaxEvents
    BY <1>1, <1>2 DEF Trigger
  <2>4. board' \in BoardType
    BY <2>1, <2>2 DEF BoardType
  <2> QED BY <2>3, <2>4
<1>3. CASE Latch
  <2> DEFINE word == [bank |-> Other(board.armed),
                      some |-> board.memory[Other(board.armed)] # Event(0)]
  <2>1. board' = [board EXCEPT !.previous = word]
    BY <1>3 DEF Latch
  <2>2. word \in Word
    BY DEF Word, BoardType
  <2> HIDE DEF word
  <2>3. board' \in BoardType
    BY <2>1, <2>2 DEF BoardType
  <2> QED BY <1>3, <2>3 DEF Latch
<1> QED BY <1>2, <1>3

(* A transfer that succeeds.                                               *)
LEMMA TransferTypes ==
    ASSUME TypeOK, TransferOk
    PROVE  /\ board' \in BoardType /\ status' \in BOOLEAN /\ msg' \in Word
           /\ data' \in [Channel -> Nat]
<1> USE Sis3316Assumption DEF TypeOK, Bank
<1>1. board' \in BoardType
  <2>1. CASE at = "arm"
    <3>1. NextBank \in Bank /\ Event(0) \in [Channel -> Nat]
      BY DEF NextBank, FreeBank, Event
    <3>2. board' = [board EXCEPT !.armed = NextBank, !.full = FALSE,
                                 !.memory[NextBank] = Event(0)]
      BY <2>1 DEF TransferOk, Armed
    <3> QED BY <3>1, <3>2 DEF BoardType
  <2>2. CASE at = "start"
    <3> DEFINE transfer == [bank |-> msg.bank, channel |-> ch]
    <3>1. board' = [board EXCEPT !.fsm = transfer]
      BY <2>2 DEF TransferOk
    <3>2. transfer \in [bank : Bank, channel : Channel]
      BY DEF Word
    <3> HIDE DEF transfer
    <3> QED BY <3>1, <3>2 DEF BoardType
  <2>3. CASE at = "reset"
    <3>1. board' = [board EXCEPT !.fsm = Idle]
      BY <2>3 DEF TransferOk
    <3> QED BY <3>1 DEF BoardType
  <2>4. CASE at \notin {"arm", "start", "reset"}
    <3>1. board' = board
      BY <2>4 DEF TransferOk
    <3> QED BY <3>1
  <2> QED BY <2>1, <2>2, <2>3, <2>4
<1>2. status' \in BOOLEAN
  <2>1. board.full \in BOOLEAN
    BY DEF BoardType
  <2>2. status' = board.full \/ status' = status
    BY DEF TransferOk
  <2> QED BY <2>1, <2>2
<1>3. msg' \in Word
  <2>1. board.previous \in Word
    BY DEF BoardType
  <2>2. msg' = board.previous \/ msg' = msg
    BY DEF TransferOk
  <2> QED BY <2>1, <2>2
<1>4. data' \in [Channel -> Nat]
  <2>1. CASE at = "trace"
    <3>1. board.fsm # Idle
      BY <2>1 DEF TransferOk
    <3>2. board.fsm \in [bank : Bank, channel : Channel]
      BY <3>1 DEF BoardType
    <3>3. board.memory[board.fsm.bank][board.fsm.channel] \in Nat
      BY <3>2 DEF BoardType
    <3>4. data' = [data EXCEPT ![ch] =
                      board.memory[board.fsm.bank][board.fsm.channel]]
      BY <2>1 DEF TransferOk
    <3> QED BY <3>3, <3>4
  <2>2. CASE at # "trace"
    BY <2>2 DEF TransferOk
  <2> QED BY <2>1, <2>2
<1> QED BY <1>1, <1>2, <1>3, <1>4

LEMMA BusCallTypes ==
    ASSUME TypeOK, BusCall
    PROVE  /\ board' \in BoardType /\ status' \in BOOLEAN /\ msg' \in Word
           /\ data' \in [Channel -> Nat] /\ faults' \in 0..MaxFaults
           /\ readout' \in Readouts
<1> USE Sis3316Assumption DEF TypeOK
<1>0. readout \in Readouts
  BY DEF Readouts
<1>1. ASSUME Fail PROVE faults' \in 0..MaxFaults
  BY <1>1 DEF Fail, Sis3316Assumption
<1>2. CASE UNCHANGED <<board, status, msg, data, faults, readout>>
  BY <1>0, <1>2
<1>3. CASE Fail /\ LogIf(at # "acq") /\ UNCHANGED <<board, status, msg, data>>
  BY <1>0, <1>1, <1>3, LogKeepsTypes DEF LogIf
<1>4. CASE TransferOk
  BY <1>0, <1>4, TransferTypes DEF TransferOk
<1>5. CASE TransferFails
  <2>1. faults' \in 0..MaxFaults
    BY <1>1, <1>5 DEF TransferFails
  <2>2. data' \in [Channel -> Nat]
    BY <1>5 DEF TransferFails
  <2>3. readout' \in Readouts
    BY <1>0, <1>5, LogKeepsTypes DEF TransferFails, LogIf
  <2> QED BY <1>5, <2>1, <2>2, <2>3 DEF TransferFails
<1> QED BY <1>2, <1>3, <1>4, <1>5 DEF BusCall

LEMMA TypesInitially == Init => TypeOK
<1> SUFFICES ASSUME Init PROVE TypeOK
  OBVIOUS
<1> USE Sis3316Assumption DEF Sis3316Assumption, Init
<1>1. BusTypeOK
  BY BusInitially DEF BusInv
<1>2. Event(0) \in [Channel -> Nat]
  BY DEF Event
<1>3. board \in BoardType
  <2>1. [k \in Bank |-> Event(0)] \in [Bank -> [Channel -> Nat]]
    BY <1>2
  <2>2. [bank |-> 2, some |-> FALSE] \in Word
    BY DEF Word, Bank
  <2> QED BY <2>1, <2>2 DEF BoardType, Bank
<1>4. ch \in Channel /\ count \in 0..(MaxPoll + 1)
  BY DEF Channel
<1>5. pushed \in [bundle : [Channel -> Nat], event : Nat, logged : BOOLEAN,
                  before : BOOLEAN]
  BY <1>2
<1>6. readout \in [event : Nat, logged : BOOLEAN, swapped : BOOLEAN, before : BOOLEAN]
  OBVIOUS
<1>7. taken \in 0..MaxEvents /\ faults \in 0..MaxFaults
  OBVIOUS
<1>8. data \in [Channel -> Nat] /\ bundle \in [Channel -> Nat]
  BY <1>2
<1>9. msg \in Word
  OBVIOUS
<1>10. go_time_ \in BOOLEAN /\ bank2_armed_flag \in BOOLEAN /\ status \in BOOLEAN
  OBVIOUS
<1> QED BY <1>1, <1>3, <1>4, <1>5, <1>6, <1>7, <1>8, <1>9, <1>10 DEF TypeOK

(* The readout's variables keep their types; among them, a loop of the     *)
(* readout makes at most kMaxPoll + 2 attempts, and opening the device at  *)
(* most maxcount_ + 1, whatever the bus answers.                           *)
THEOREM ReadoutTypeCorrect == Spec => []TypeOK
<1>1. Init => TypeOK
  BY TypesInitially
<1>2. TypeOK /\ [Next]_vars => TypeOK'
  <2> SUFFICES ASSUME TypeOK, [Next]_vars PROVE TypeOK'
    OBVIOUS
  <2>1. BusTypeOK'
    <3>1. CASE \E t \in Thread : CallStep(t)
      BY <3>1, CallKeepsTypes DEF TypeOK
    <3>2. CASE UNCHANGED busVars
      BY <3>2 DEF busVars, TypeOK, BusTypeOK
    <3> QED BY <3>1, <3>2, NextIsCallStep
  <2>2. CASE Trigger \/ Latch
    BY <2>1, <2>2, BoardTypes DEF TypeOK, Trigger, Latch, threadVars
  <2>3. CASE SetGoTime
    <3>1. go_time_' \in BOOLEAN
      BY <2>3 DEF SetGoTime
    <3> QED BY <2>1, <2>3, <3>1 DEF TypeOK, SetGoTime, boardVars, threadVars
  <2>4. CASE BusCall
    BY <2>1, <2>4, BusCallTypes DEF TypeOK, BusCall, Readouts
  <2>5. CASE WorkLoop
    <3>1. ThreadTypeOK'
      BY <2>5, ThreadTypes DEF TypeOK, ThreadTypeOK, Readouts
    <3>2. UNCHANGED <<boardVars, faults, go_time_>>
      BY <2>5 DEF WorkLoop, Poll, AcqAgain, Available, ArmAgain, Swapped,
         AddressAnswered, StartAnswered, TraceAnswered, ResetAnswered, Push
    <3> QED BY <2>1, <3>1, <3>2 DEF TypeOK, ThreadTypeOK, Readouts, boardVars
  <2>6. CASE \E t \in Others : OtherCall(t)
    BY <2>1, <2>6 DEF TypeOK, OtherCall, boardVars, threadVars
  <2>7. CASE UNCHANGED vars
    BY <2>1, <2>7 DEF TypeOK, vars, boardVars, threadVars
  <2> QED BY <2>2, <2>3, <2>4, <2>5, <2>6, <2>7 DEF Next
<1> QED BY <1>1, <1>2, PTL DEF Spec

-----------------------------------------------------------------------------
(* BadEventsLogged.  Once the banks are swapped the thread knows which is  *)
(* which; the bank being read keeps its event, and each channel is read    *)
(* from it or an error is logged.  If they are not, that is logged.        *)

(* The answer of the digitizer's call is known; it is that it worked.      *)
Over == call[Digitizer].step \in {"close", "done"}
Own == call[Digitizer].own
Worked == Over /\ Own = Ok

Reading == {"address", "start", "trace", "reset"}

(* bank2_armed_flag tells which bank the board samples into, if the last   *)
(* swap succeeded; if it did not, an error was logged.                     *)
FlagTells ==
    /\ at = "arm" /\ Worked => board.armed = FreeBank
    /\ at # "arm" /\ readout.swapped => board.armed = Other(FreeBank)

SwapLogged ==
    /\ at = "arm" /\ Over /\ Own # Ok => readout.logged
    /\ at # "arm" => readout.swapped \/ readout.logged

(* A bank holds one event.  The board takes none while a swap is pending.  *)
BoardWaits ==
    /\ \A k \in Bank : board.memory[k] = Event(board.memory[k][1])
    /\ at = "acq" /\ status => board.full
    /\ at = "arm" /\ ~Worked => board.full

Announced == readout.logged \/ readout.before

(* The bank being read keeps its event.                                    *)
EventKept ==
    /\ at = "arm" => board.memory[Other(FreeBank)] = Event(readout.event)
    /\ at \in Reading => board.memory[FreeBank] = Event(readout.event)

(* The channels read hold that event.                                      *)
ReadSoFar ==
    /\ at \in Reading => \A c \in Channel : c < ch => data[c] = readout.event
    /\ at = "start" => /\ msg.bank = FreeBank
                       /\ Worked => board.fsm = [bank |-> FreeBank, channel |-> ch]
    /\ at = "trace" => /\ board.fsm = [bank |-> FreeBank, channel |-> ch]
                       /\ Worked => data[ch] = readout.event
    /\ at = "reset" => data[ch] = readout.event
    /\ at = "push" => bundle = Event(readout.event)

ReadoutInv == /\ FlagTells /\ SwapLogged /\ BoardWaits
              /\ Announced \/ (EventKept /\ ReadSoFar)

(* A step of the digitizer's call: it goes on, it fails, or its transfer   *)
(* takes effect.                                                           *)
GoesOn ==
    Over' = Over /\ Own' = Own /\ UNCHANGED <<board, status, msg, data, faults, readout>>

Fails ==
    /\ ~Over /\ Over'
    /\ Own' # Ok \/ (at = "trace" /\ board.fsm = Idle)
    /\ Log \/ (at # "arm" /\ UNCHANGED readout)
    /\ \/ UNCHANGED data
       \/ at = "trace" /\ data' = [data EXCEPT ![ch] = 0]
    /\ UNCHANGED <<board, status, msg>>

LEMMA BusCallMoves ==
    ASSUME TypeOK, BusCall
    PROVE  \/ GoesOn \/ Fails
           \/ TransferOk /\ ~Over /\ Worked'
<1> USE Sis3316Assumption DEF Sis3316Assumption, TypeOK, BusTypeOK, At, Over, Own, Worked
<1>1. CASE /\ Lock(Digitizer) \/ Open(Digitizer) \/ OpenAgain(Digitizer) \/ Return(Digitizer)
           /\ UNCHANGED <<board, status, msg, data, faults, readout>>
  <2>1. Over' = Over /\ Own' = Own
    BY <1>1 DEF Lock, Open, OpenAgain, Return
  <2> QED BY <1>1, <2>1 DEF GoesOn
<1>2. CASE /\ NoDevice(Digitizer) /\ Fail /\ LogIf(at # "acq")
           /\ UNCHANGED <<board, status, msg, data>>
  <2>1. Log \/ (at # "arm" /\ UNCHANGED readout)
    BY <1>2 DEF LogIf
  <2> QED BY <1>2, <2>1 DEF NoDevice, Fails, Ok, Failed
<1>3. CASE TransferOk
  BY <1>3 DEF TransferOk, Transfer
<1>4. CASE TransferFails
  <2>1. PICK rc \in Answer :
            /\ Transfer(Digitizer, rc)
            /\ rc = Failed \/ (at = "trace" /\ board.fsm = Idle)
            /\ LogIf(rc = Failed /\ at \in Telling)
    BY <1>4 DEF TransferFails
  <2>2. ~Over /\ Over' /\ Own' = rc
    BY <2>1 DEF Transfer
  <2>3. Log \/ (at # "arm" /\ UNCHANGED readout)
    BY <2>1 DEF LogIf, Telling
  <2> QED BY <1>4, <2>1, <2>2, <2>3 DEF TransferFails, Fails, Ok, Failed
<1> HIDE DEF Over, Own, Worked, At, TypeOK, BusTypeOK
<1> QED BY <1>1, <1>2, <1>3, <1>4 DEF BusCall

(* The bookkeeping of the banks.                                           *)
LEMMA Banks ==
    /\ FreeBank \in Bank /\ Other(FreeBank) \in Bank
    /\ Other(FreeBank) # FreeBank /\ Other(Other(FreeBank)) = FreeBank
BY DEF FreeBank, Other, Bank

LEMMA EventIsUniform ==
    ASSUME NEW n \in Nat
    PROVE  Event(n) \in [Channel -> Nat] /\ Event(n)[1] = n
BY Sis3316Assumption DEF Sis3316Assumption, Event, Channel

LEMMA ReadoutInitially == Init => ReadoutInv
<1> SUFFICES ASSUME Init PROVE ReadoutInv
  OBVIOUS
<1>1. /\ at = "poll" /\ bank2_armed_flag = FALSE /\ board.armed = 1
      /\ board.memory = [k \in Bank |-> Event(0)] /\ readout.swapped
  BY DEF Init
<1>2. FlagTells /\ SwapLogged
  BY <1>1 DEF FlagTells, SwapLogged, FreeBank, Other
<1>3. BoardWaits
  BY <1>1, EventIsUniform DEF BoardWaits
<1>4. EventKept /\ ReadSoFar
  BY <1>1 DEF EventKept, ReadSoFar, Reading
<1> QED BY <1>2, <1>3, <1>4 DEF ReadoutInv

(* What another thread, or the board, does meanwhile.                      *)
LEMMA CallUntouched ==
    ASSUME BusTypeOK, \/ UNCHANGED busVars
                      \/ \E t \in Others : OtherCall(t)
    PROVE  Over' = Over /\ Own' = Own
<1> USE Sis3316Assumption DEF Sis3316Assumption, Over, Own
<1>1. CASE UNCHANGED busVars
  BY <1>1 DEF busVars
<1>2. ASSUME NEW t \in Others, OtherCall(t) PROVE call'[Digitizer] = call[Digitizer]
  BY <1>2 DEF OtherCall, Others, BusTypeOK, Begin, Lock, Open, OpenAgain, NoDevice, Transfer,
     Return, Forget
<1> QED BY <1>1, <1>2

LEMMA OutsideReads ==
    ASSUME TypeOK, ReadoutInv,
           \/ SetGoTime \/ UNCHANGED vars
           \/ \E t \in Others : OtherCall(t)
    PROVE  ReadoutInv'
<1>1. Over' = Over /\ Own' = Own
  BY CallUntouched DEF TypeOK, SetGoTime, vars
<1>2. UNCHANGED <<board, at, bank2_armed_flag, status, ch, msg, data, bundle, readout>>
  BY DEF SetGoTime, OtherCall, vars, boardVars, threadVars
<1>3. Worked' = Worked /\ FreeBank' = FreeBank
  BY <1>1, <1>2 DEF Worked, FreeBank
<1>4. FlagTells' /\ SwapLogged' /\ BoardWaits'
  BY <1>1, <1>2, <1>3 DEF ReadoutInv, FlagTells, SwapLogged, BoardWaits
<1>5. EventKept' = EventKept /\ ReadSoFar' = ReadSoFar /\ Announced' = Announced
  BY <1>2, <1>3 DEF EventKept, ReadSoFar, Announced
<1> QED BY <1>4, <1>5 DEF ReadoutInv

LEMMA BoardReads ==
    ASSUME TypeOK, ReadoutInv, Trigger \/ Latch
    PROVE  ReadoutInv'
<1>1. Over' = Over /\ Own' = Own
  BY CallUntouched DEF TypeOK, Trigger, Latch
<1>2. UNCHANGED <<at, bank2_armed_flag, status, ch, msg, data, bundle, readout>>
  BY DEF Trigger, Latch, threadVars
<1>3. Worked' = Worked /\ FreeBank' = FreeBank /\ Announced' = Announced
  BY <1>1, <1>2 DEF Worked, FreeBank, Announced
<1>4. board \in BoardType /\ taken \in Nat /\ at \in Calls \cup {"poll", "push"}
  BY Sis3316Assumption DEF TypeOK, Sis3316Assumption
<1>5. board'.armed = board.armed /\ board'.fsm = board.fsm
  BY <1>4 DEF BoardType, Trigger, Latch
<1>6. FlagTells' /\ SwapLogged'
  BY <1>1, <1>2, <1>3, <1>5 DEF ReadoutInv, FlagTells, SwapLogged
<1>7. ReadSoFar' = ReadSoFar
  BY <1>2, <1>3, <1>5 DEF ReadSoFar
<1>8. BoardWaits' /\ (~Announced => EventKept')
  <2>1. CASE Trigger
    <3>1. /\ ~board.full /\ board'.full = TRUE
          /\ board'.memory = [board.memory EXCEPT ![board.armed] = Event(taken + 1)]
      BY <1>4, <2>1 DEF Trigger, BoardType
    <3>2. \A k \in Bank : board'.memory[k] = Event(board'.memory[k][1])
      BY <1>4, <3>1, EventIsUniform DEF BoardType, ReadoutInv, BoardWaits
    <3>3. at = "arm" => board.armed = FreeBank
      BY <3>1 DEF ReadoutInv, BoardWaits, FlagTells
    <3>4. at = "arm" => board'.memory[Other(FreeBank)] = board.memory[Other(FreeBank)]
      BY <1>4, <3>1, <3>3, Banks DEF BoardType
    <3>5. ~Announced /\ at \in Reading => board'.memory[FreeBank] = board.memory[FreeBank]
      BY <1>4, <3>1, Banks
         DEF BoardType, ReadoutInv, FlagTells, SwapLogged, Announced, Reading
    <3>6. BoardWaits'
      BY <3>1, <3>2 DEF BoardWaits
    <3>7. ~Announced => EventKept'
      BY <1>2, <1>3, <3>4, <3>5 DEF ReadoutInv, EventKept
    <3> QED BY <3>6, <3>7
  <2>2. CASE Latch
    <3>1. board'.full = board.full /\ board'.memory = board.memory
      BY <1>4, <2>2 DEF Latch, BoardType
    <3> QED BY <1>2, <1>3, <3>1 DEF ReadoutInv, BoardWaits, EventKept
  <2> QED BY <2>1, <2>2
<1> QED BY <1>3, <1>6, <1>7, <1>8 DEF ReadoutInv

(* Once an error has been logged it stays so for the readout.              *)
LEMMA LogKeeps ==
    ASSUME readout \in Readouts, Log \/ UNCHANGED readout
    PROVE  /\ readout'.event = readout.event /\ readout'.swapped = readout.swapped
           /\ readout'.before = readout.before
           /\ readout.logged \/ Log => readout'.logged
           /\ ~Announced' => ~Announced /\ UNCHANGED readout
BY DEF Log, Readouts, Announced

(* The digitizer's own call.                                               *)
LEMMA CallReads ==
    ASSUME TypeOK, ReadoutInv, BusCall
    PROVE  ReadoutInv'
<1>1. UNCHANGED <<at, bank2_armed_flag, count, ch, bundle>>
  BY DEF BusCall
<1>2. FreeBank' = FreeBank
  BY <1>1 DEF FreeBank
<1>3. /\ board \in BoardType /\ ch \in Channel /\ data \in [Channel -> Nat]
      /\ at \in Calls \cup {"poll", "push"} /\ readout \in Readouts
  BY DEF TypeOK, Readouts
<1>4. CASE GoesOn
  <2>1. /\ UNCHANGED <<board, status, msg, data, readout>>
        /\ Worked' = Worked /\ Over' = Over /\ Own' = Own
    BY <1>4 DEF GoesOn, Worked
  <2>2. FlagTells' /\ SwapLogged' /\ BoardWaits'
    BY <1>1, <1>2, <2>1 DEF ReadoutInv, FlagTells, SwapLogged, BoardWaits
  <2>3. ReadSoFar' = ReadSoFar /\ EventKept' = EventKept /\ Announced' = Announced
    BY <1>1, <1>2, <2>1 DEF ReadSoFar, EventKept, Announced
  <2> QED BY <2>2, <2>3 DEF ReadoutInv
<1>5. CASE Fails
  <2>1. UNCHANGED <<board, status, msg>> /\ ~Worked /\ ~Over
    BY <1>5 DEF Fails, Worked
  <2>2. Worked' => at = "trace" /\ board.fsm = Idle
    BY <1>5 DEF Fails, Worked
  <2>3. /\ readout'.swapped = readout.swapped
        /\ readout.logged => readout'.logged
        /\ at = "arm" => readout'.logged
        /\ ~Announced' => ~Announced /\ UNCHANGED readout
    BY <1>3, <1>5, LogKeeps DEF Fails
  <2>4. FlagTells' /\ SwapLogged'
    BY <1>1, <1>2, <2>1, <2>2, <2>3 DEF ReadoutInv, FlagTells, SwapLogged
  <2>5. BoardWaits'
    BY <1>1, <2>1, <2>2 DEF ReadoutInv, BoardWaits
  <2>6. ~Announced' => EventKept'
    BY <1>1, <1>2, <2>1, <2>3 DEF ReadoutInv, EventKept
  <2>7. ~Announced' => ReadSoFar'
    <3> SUFFICES ASSUME ~Announced' PROVE ReadSoFar'
      OBVIOUS
    <3>0. ReadSoFar /\ UNCHANGED readout
      BY <2>3 DEF ReadoutInv
    <3>1. ~Worked'
      BY <2>2, <3>0, Banks DEF ReadSoFar, Idle, Bank
    <3>2. \/ UNCHANGED data
          \/ at = "trace" /\ data' = [data EXCEPT ![ch] = 0]
      BY <1>5 DEF Fails
    <3>3. \A c \in Channel : c < ch => data'[c] = data[c]
      <4>1. \A c \in Channel : c < ch => c # ch
        BY DEF Channel
      <4>2. CASE data' = [data EXCEPT ![ch] = 0]
        BY <1>3, <4>1, <4>2
      <4> QED BY <3>2, <4>2
    <3>4. at # "trace" => UNCHANGED data
      BY <3>2
    <3> QED BY <1>1, <1>2, <2>1, <3>0, <3>1, <3>3, <3>4 DEF ReadSoFar
  <2> QED BY <2>4, <2>5, <2>6, <2>7 DEF ReadoutInv
<1>6. CASE TransferOk /\ ~Over /\ Worked'
  <2>1. ~Worked /\ Over' /\ Own' = Ok /\ UNCHANGED readout /\ Announced' = Announced
    BY <1>6 DEF Worked, TransferOk, Announced
  <2>2. SwapLogged'
    BY <1>1, <2>1 DEF ReadoutInv, SwapLogged
  <2>3. CASE at = "arm"
    <3>1. board' = [board EXCEPT !.armed = FreeBank, !.full = FALSE,
                                 !.memory[FreeBank] = Event(0)]
      BY <1>6, <2>3 DEF TransferOk, Armed, NextBank
    <3>2. /\ board'.armed = FreeBank /\ board'.fsm = board.fsm
          /\ board'.memory = [board.memory EXCEPT ![FreeBank] = Event(0)]
      BY <1>3, <3>1 DEF BoardType
    <3>3. FlagTells'
      BY <1>1, <1>2, <2>3, <3>2 DEF FlagTells
    <3>4. \A k \in Bank : board'.memory[k] = Event(board'.memory[k][1])
      BY <1>3, <3>2, EventIsUniform DEF BoardType, ReadoutInv, BoardWaits
    <3>5. BoardWaits'
      BY <1>1, <1>6, <2>3, <3>4 DEF BoardWaits
    <3>6. board'.memory[Other(FreeBank)] = board.memory[Other(FreeBank)]
      BY <1>3, <3>2, Banks DEF BoardType
    <3>7. EventKept => EventKept'
      BY <1>1, <1>2, <2>1, <2>3, <3>6 DEF EventKept, Reading
    <3>8. ReadSoFar'
      BY <1>1, <2>3 DEF ReadSoFar, Reading
    <3> QED BY <2>1, <2>2, <3>3, <3>5, <3>7, <3>8 DEF ReadoutInv
  <2>4. CASE at # "arm"
    <3>1. /\ board'.armed = board.armed /\ board'.full = board.full
          /\ board'.memory = board.memory
      BY <1>3, <1>6, <2>4 DEF TransferOk, BoardType
    <3>2. FlagTells'
      BY <1>1, <1>2, <2>1, <2>4, <3>1 DEF ReadoutInv, FlagTells
    <3>3. at = "acq" /\ status' => board.full
      BY <1>6 DEF TransferOk
    <3>4. BoardWaits'
      BY <1>1, <2>4, <3>1, <3>3 DEF ReadoutInv, BoardWaits
    <3>5. EventKept => EventKept'
      BY <1>1, <1>2, <2>1, <2>4, <3>1 DEF EventKept
    <3>6. EventKept /\ ReadSoFar => ReadSoFar'
      <4> SUFFICES ASSUME EventKept, ReadSoFar PROVE ReadSoFar'
        OBVIOUS
      <4>1. CASE at = "start"
        <5>1. /\ board' = [board EXCEPT !.fsm = [bank |-> msg.bank, channel |-> ch]]
              /\ UNCHANGED <<msg, data>>
          BY <1>6, <4>1 DEF TransferOk
        <5>2. board'.fsm = [bank |-> FreeBank, channel |-> ch]
          BY <1>3, <4>1, <5>1 DEF BoardType, ReadSoFar
        <5> QED BY <1>1, <1>2, <2>1, <4>1, <5>1, <5>2 DEF ReadSoFar
      <4>2. CASE at = "trace"
        <5>1. /\ board.fsm = [bank |-> FreeBank, channel |-> ch]
              /\ board.memory[FreeBank] = Event(readout.event)
          BY <4>2 DEF ReadSoFar, EventKept, Reading
        <5>2. board' = board /\ data' = [data EXCEPT ![ch] = board.memory[FreeBank][ch]]
          <6>1. board' = board
            BY <1>6, <4>2 DEF TransferOk
          <6>2. data' = [data EXCEPT ![ch] = board.memory[board.fsm.bank][board.fsm.channel]]
            BY <1>6, <4>2 DEF TransferOk
          <6>3. board.fsm.bank = FreeBank /\ board.fsm.channel = ch
            BY <5>1
          <6> QED BY <6>1, <6>2, <6>3
        <5>3. board.memory[FreeBank][ch] = readout.event
          BY <1>3, <5>1 DEF Event
        <5>4. data'[ch] = readout.event /\ \A c \in Channel : c < ch => data'[c] = data[c]
          BY <1>3, <5>2, <5>3 DEF Channel
        <5> QED BY <1>1, <1>2, <2>1, <4>2, <5>1, <5>2, <5>4 DEF ReadSoFar
      <4>3. CASE at \notin {"start", "trace"}
        <5>1. UNCHANGED data
          BY <1>6, <4>3 DEF TransferOk
        <5> QED BY <1>1, <2>1, <4>3, <5>1 DEF ReadSoFar
      <4> QED BY <4>1, <4>2, <4>3
    <3> QED BY <2>1, <2>2, <3>2, <3>4, <3>5, <3>6 DEF ReadoutInv
  <2> QED BY <2>3, <2>4
<1> QED BY <1>4, <1>5, <1>6, BusCallMoves

(* The thread goes from one call to the next.                              *)
LEMMA CallBegins ==
    ASSUME BusTypeOK, Begin(Digitizer) \/ Forget(Digitizer)
    PROVE  ~Over' /\ ~Worked'
BY Sis3316Assumption DEF Sis3316Assumption, BusTypeOK, Begin, Forget, NoCall, Over, Worked

LEMMA CallAnswers ==
    ASSUME OwnAnswer, NEW step \in Calls, Answered(step)
    PROVE  at = step /\ Over /\ Rc = Own /\ (Worked <=> Rc = Ok)
BY Sis3316Assumption
   DEF Sis3316Assumption, OwnAnswer, Answered, Finished, At, Rc, Own, Over, Worked

(* A step of GetEvent, by what it does to the readout: the next call is    *)
(* made, or the bundle is ready to be pushed.                              *)
LEMMA ReadingOn ==
    ASSUME TypeOK, ReadoutInv, at \in Reading, at' \in Reading \cup {"push"}, ~Over',
           UNCHANGED <<boardVars, bank2_armed_flag>>,
           Log \/ UNCHANGED readout, readout'.logged \/ ~ReadSoFar \/ ReadSoFar'
    PROVE  ReadoutInv'
<1>0. readout \in Readouts
  BY DEF TypeOK, Readouts
<1>1. FreeBank' = FreeBank /\ ~Worked' /\ board' = board
  BY DEF FreeBank, Worked, boardVars
<1>2. /\ readout'.swapped = readout.swapped /\ (readout.logged => readout'.logged)
      /\ ~Announced' => ~Announced /\ UNCHANGED readout /\ ~readout'.logged
  BY <1>0, LogKeeps DEF Announced
<1>3. FlagTells' /\ SwapLogged'
  BY <1>1, <1>2 DEF ReadoutInv, FlagTells, SwapLogged, Reading
<1>4. BoardWaits'
  BY <1>1 DEF ReadoutInv, BoardWaits, Reading
<1>5. ~Announced' => EventKept' /\ ReadSoFar'
  BY <1>1, <1>2 DEF ReadoutInv, EventKept, Reading
<1> QED BY <1>3, <1>4, <1>5 DEF ReadoutInv

LEMMA GetEventReads ==
    ASSUME TypeOK, ReadoutInv, OwnAnswer,
           AddressAnswered \/ StartAnswered \/ TraceAnswered \/ ResetAnswered
    PROVE  ReadoutInv'
<1>0. /\ readout \in Readouts /\ ch \in Nat /\ NumCh \in Nat
      /\ data \in [Channel -> Nat]
  BY Sis3316Assumption DEF TypeOK, Readouts, Channel, Sis3316Assumption
<1>1. /\ UNCHANGED <<boardVars, bank2_armed_flag, data>> /\ FreeBank' = FreeBank
      /\ Begin(Digitizer) \/ Forget(Digitizer)
  BY DEF AddressAnswered, GiveUp, StartAnswered, TraceAnswered, ResetAnswered, Call, FreeBank
<1>2. ~Over' /\ ~Worked'
  BY <1>1, CallBegins DEF TypeOK
<1>3. Log \/ UNCHANGED readout
  BY DEF AddressAnswered, GiveUp, StartAnswered, TraceAnswered, ResetAnswered, LogIf
<1>4. /\ readout'.event = readout.event
      /\ Log => readout'.logged
  BY <1>0, <1>3, LogKeeps
<1>5. CASE AddressAnswered
  <2>1. at = "address" /\ UNCHANGED ch
    BY <1>5 DEF AddressAnswered, Answered
  <2>2. CASE at' = "push" /\ Log
    BY <1>1, <1>2, <1>3, <1>4, <2>1, <2>2, ReadingOn DEF Reading
  <2>3. CASE at' = "address"
    <3>1. ReadSoFar => ReadSoFar'
      BY <1>1, <1>4, <2>1, <2>3 DEF ReadSoFar, Reading
    <3> QED BY <1>1, <1>2, <1>3, <2>1, <2>3, <3>1, ReadingOn DEF Reading
  <2>4. CASE at' = "start" /\ msg' = Command
    <3>1. msg'.bank = FreeBank
      BY <2>4 DEF Command
    <3>2. ReadSoFar => ReadSoFar'
      BY <1>1, <1>2, <1>4, <2>1, <2>4, <3>1 DEF ReadSoFar, Reading
    <3> QED BY <1>1, <1>2, <1>3, <2>1, <2>4, <3>2, ReadingOn DEF Reading
  <2> QED BY <1>5, <2>2, <2>3, <2>4 DEF AddressAnswered, GiveUp, Call
<1>6. CASE StartAnswered
  <2>1. at = "start" /\ at' = "trace" /\ UNCHANGED ch /\ (Worked <=> Rc = Ok)
    BY <1>6, CallAnswers DEF StartAnswered, Answered, Call, Calls
  <2>2. Rc # Ok => readout'.logged
    BY <1>4, <1>6 DEF StartAnswered, LogIf
  <2>3. Rc = Ok /\ ReadSoFar => ReadSoFar'
    BY <1>1, <1>2, <1>4, <2>1 DEF ReadSoFar, Reading, boardVars
  <2> QED BY <1>1, <1>2, <1>3, <2>1, <2>2, <2>3, ReadingOn DEF Reading
<1>7. CASE TraceAnswered
  <2>1. at = "trace" /\ UNCHANGED ch /\ (Worked <=> Rc = Ok)
    BY <1>7, CallAnswers DEF TraceAnswered, Answered, Calls
  <2>2. at' \in {"trace", "reset"} /\ (at' = "trace" => Rc # Ok)
    BY <1>7 DEF TraceAnswered, Call, Retry
  <2>3. Rc # Ok => readout'.logged
    BY <1>4, <1>7 DEF TraceAnswered, LogIf
  <2>4. Rc = Ok /\ ReadSoFar => ReadSoFar'
    BY <1>1, <1>2, <1>4, <2>1, <2>2 DEF ReadSoFar, Reading
  <2> QED BY <1>1, <1>2, <1>3, <2>1, <2>2, <2>3, <2>4, ReadingOn DEF Reading
<1>8. CASE ResetAnswered
  <2>1. at = "reset"
    BY <1>8 DEF ResetAnswered, Answered
  <2>2. CASE ch < NumCh /\ ch' = ch + 1 /\ at' = "address"
    <3>1. ReadSoFar => ReadSoFar'
      <4> SUFFICES ASSUME ReadSoFar, NEW c \in Channel, c < ch' PROVE data'[c] = readout'.event
        BY <2>2 DEF ReadSoFar
      <4>1. c < ch \/ c = ch
        BY <1>0, <2>2 DEF Channel
      <4> QED BY <1>1, <1>4, <2>1, <4>1 DEF ReadSoFar, Reading
    <3> QED BY <1>1, <1>2, <1>3, <2>1, <2>2, <3>1, ReadingOn DEF Reading
  <2>3. CASE ~(ch < NumCh) /\ at' = "push" /\ bundle' = data
    <3>1. ReadSoFar => ReadSoFar'
      <4> SUFFICES ASSUME ReadSoFar PROVE bundle' = Event(readout'.event)
        BY <2>3 DEF ReadSoFar, Reading
      <4>1. \A c \in Channel : c < ch \/ c = ch
        BY <1>0, <2>3 DEF Channel
      <4>2. \A c \in Channel : data[c] = readout.event
        BY <2>1, <4>1 DEF ReadSoFar, Reading
      <4> QED BY <1>0, <1>4, <2>3, <4>2 DEF Event
    <3> QED BY <1>1, <1>2, <1>3, <2>1, <2>3, <3>1, ReadingOn DEF Reading
  <2> QED BY <1>8, <2>2, <2>3 DEF ResetAnswered, Call
<1> QED BY <1>5, <1>6, <1>7, <1>8

(* The banks are swapped, or it is logged that they are not.               *)
LEMMA SwapReads ==
    ASSUME TypeOK, ReadoutInv, OwnAnswer,
           Poll \/ AcqAgain \/ Available \/ ArmAgain \/ Swapped
    PROVE  ReadoutInv'
<1>0. readout \in Readouts /\ board \in BoardType
  BY DEF TypeOK, Readouts
<1>1. UNCHANGED boardVars /\ (Begin(Digitizer) \/ Forget(Digitizer))
  BY DEF Poll, AcqAgain, Available, ArmAgain, Swapped, Call
<1>2. ~Over' /\ ~Worked' /\ board' = board
  BY <1>1, CallBegins DEF TypeOK, boardVars
<1>3. CASE Poll \/ AcqAgain
  <2>1. /\ UNCHANGED <<bank2_armed_flag, readout>> /\ at' = "acq" /\ at # "arm"
        /\ status' => at = "acq" /\ status
    <3>1. CASE Poll
      BY <3>1 DEF Poll, Call
    <3>2. CASE AcqAgain
      BY <3>2 DEF AcqAgain, Answered, Call
    <3> QED BY <1>3, <3>1, <3>2
  <2>2. FreeBank' = FreeBank
    BY <2>1 DEF FreeBank
  <2>3. FlagTells' /\ SwapLogged'
    BY <1>2, <2>1, <2>2 DEF ReadoutInv, FlagTells, SwapLogged
  <2>4. BoardWaits'
    BY <1>2, <2>1 DEF ReadoutInv, BoardWaits
  <2>5. EventKept' /\ ReadSoFar'
    BY <2>1 DEF EventKept, ReadSoFar, Reading
  <2> QED BY <2>3, <2>4, <2>5 DEF ReadoutInv
<1>4. CASE Available
  <2>0. at = "acq" /\ FreeBank' = FreeBank /\ UNCHANGED status
    BY <1>4 DEF Available, Answered, FreeBank
  <2>1. CASE /\ status /\ at' = "arm"
             /\ readout' = [event |-> board.memory[board.armed][1], logged |-> FALSE,
                            swapped |-> TRUE,
                            before |-> readout.logged /\ ~readout.swapped]
    <3>1. /\ readout'.event = board.memory[board.armed][1]
          /\ readout'.before = (readout.logged /\ ~readout.swapped)
      BY <2>1
    <3>2. FlagTells' /\ SwapLogged'
      BY <1>2, <2>1 DEF FlagTells, SwapLogged
    <3>3. BoardWaits'
      BY <1>2, <2>0, <2>1 DEF ReadoutInv, BoardWaits
    <3>4. ReadSoFar'
      BY <2>1 DEF ReadSoFar, Reading
    <3>5. ~Announced' => EventKept'
      <4> SUFFICES ASSUME ~Announced' PROVE EventKept'
        OBVIOUS
      <4>1. readout.swapped
        BY <2>0, <3>1 DEF Announced, ReadoutInv, SwapLogged
      <4>2. board.armed = Other(FreeBank)
        BY <2>0, <4>1 DEF ReadoutInv, FlagTells
      <4> QED BY <1>2, <2>0, <2>1, <3>1, <4>2, Banks
           DEF ReadoutInv, BoardWaits, EventKept, Reading
    <3> QED BY <3>2, <3>3, <3>4, <3>5 DEF ReadoutInv
  <2>2. CASE at' = "poll" /\ UNCHANGED readout
    <3>1. FlagTells' /\ SwapLogged'
      BY <1>2, <2>0, <2>2 DEF ReadoutInv, FlagTells, SwapLogged
    <3>2. BoardWaits'
      BY <1>2, <2>2 DEF ReadoutInv, BoardWaits
    <3>3. EventKept' /\ ReadSoFar'
      BY <2>2 DEF EventKept, ReadSoFar, Reading
    <3> QED BY <3>1, <3>2, <3>3 DEF ReadoutInv
  <2> QED BY <1>4, <2>1, <2>2 DEF Available, Call
<1>5. CASE ArmAgain
  <2>1. at = "arm" /\ at' = "arm" /\ UNCHANGED <<bank2_armed_flag, readout>> /\ Rc # Ok
    BY <1>5 DEF ArmAgain, Answered, Retry, Call
  <2>2. ~Worked /\ FreeBank' = FreeBank /\ Announced' = Announced
    BY <1>5, <2>1, CallAnswers DEF ArmAgain, Calls, FreeBank, Announced
  <2>3. FlagTells' /\ SwapLogged'
    BY <1>2, <2>1 DEF FlagTells, SwapLogged
  <2>4. BoardWaits'
    BY <1>2, <2>1, <2>2 DEF ReadoutInv, BoardWaits
  <2>5. ReadSoFar' /\ (EventKept => EventKept')
    BY <1>2, <2>1, <2>2 DEF ReadSoFar, EventKept, Reading
  <2> QED BY <2>2, <2>3, <2>4, <2>5 DEF ReadoutInv
<1>6. CASE Swapped
  <2>1. /\ at = "arm" /\ at' = "address" /\ ch' = 1
        /\ bank2_armed_flag' = ~bank2_armed_flag
    BY <1>6 DEF Swapped, Answered, Call
  <2>2. Over /\ Rc = Own /\ (Worked <=> Rc = Ok)
    BY <1>6, CallAnswers DEF Swapped, Calls
  <2>3. FreeBank' = Other(FreeBank)
    <3>1. CASE bank2_armed_flag
      <4>1. ~bank2_armed_flag'
        BY <2>1, <3>1
      <4>2. FreeBank = 1 /\ FreeBank' = 2
        BY <3>1, <4>1 DEF FreeBank
      <4> QED BY <4>2 DEF Other
    <3>2. CASE ~bank2_armed_flag
      <4>1. bank2_armed_flag'
        BY <2>1, <3>2
      <4>2. FreeBank = 2 /\ FreeBank' = 1
        BY <3>2, <4>1 DEF FreeBank
      <4> QED BY <4>2 DEF Other
    <3> QED BY <3>1, <3>2
  <2>4. /\ readout'.event = readout.event /\ readout'.before = readout.before
        /\ readout'.swapped = (Rc = Ok) /\ (readout.logged => readout'.logged)
    BY <1>0, <1>6 DEF Swapped, Readouts
  <2>5. ~Announced' => ~Announced
    BY <2>4 DEF Announced
  <2>6. FlagTells'
    BY <1>2, <2>1, <2>2, <2>3, <2>4, Banks DEF ReadoutInv, FlagTells
  <2>7. SwapLogged'
    BY <2>1, <2>2, <2>4 DEF ReadoutInv, SwapLogged
  <2>8. BoardWaits'
    BY <1>2, <2>1 DEF ReadoutInv, BoardWaits
  <2>9. ReadSoFar' /\ (EventKept => EventKept')
    BY <1>2, <2>1, <2>3, <2>4 DEF ReadSoFar, EventKept, Reading, Channel
  <2> QED BY <2>5, <2>6, <2>7, <2>8, <2>9 DEF ReadoutInv
<1> QED BY <1>3, <1>4, <1>5, <1>6

(* The bundle is pushed, with the log of its readout.                      *)
LEMMA PushReads ==
    ASSUME TypeOK, ReadoutInv, Push
    PROVE  ReadoutInv' /\ BadEventsLogged'
<1>1. /\ at = "push" /\ at' = "poll"
      /\ UNCHANGED <<busVars, boardVars, bank2_armed_flag, status, readout>>
      /\ pushed' = [bundle |-> bundle, event |-> readout.event,
                    logged |-> readout.logged, before |-> readout.before]
  BY DEF Push
<1>2. board' = board /\ FreeBank' = FreeBank
  BY <1>1 DEF boardVars, FreeBank
<1>3. FlagTells' /\ SwapLogged'
  BY <1>1, <1>2 DEF ReadoutInv, FlagTells, SwapLogged
<1>4. BoardWaits' /\ EventKept' /\ ReadSoFar'
  BY <1>1, <1>2 DEF ReadoutInv, BoardWaits, EventKept, ReadSoFar, Reading
<1>5. Announced \/ bundle = Event(readout.event)
  BY <1>1 DEF ReadoutInv, ReadSoFar
<1>6. BadEventsLogged'
  BY <1>1, <1>5 DEF BadEventsLogged, Announced
<1> QED BY <1>3, <1>4, <1>6 DEF ReadoutInv

(* What is pushed is the event the board had recorded, in every channel,   *)
(* or an error was logged while it was read, or the readout before logged  *)
(* that the banks could not be swapped (worker_sis3316.cxx: WorkLoop,      *)
(* EventAvailable, GetEvent; worker_vme.hh: Write, ReadTraceFifo), for any *)
(* number of channels, whatever the other threads do to the bus, and       *)
(* whichever of the transfers fail and how often.                          *)
THEOREM BadReadoutsLogged == Spec => []BadEventsLogged
<1>1. Init => ReadoutInv /\ BadEventsLogged
  BY ReadoutInitially DEF Init, BadEventsLogged
<1>2. TypeOK /\ OwnAnswer /\ ReadoutInv /\ BadEventsLogged /\ [Next]_vars
         => (ReadoutInv /\ BadEventsLogged)'
  <2> SUFFICES ASSUME TypeOK, OwnAnswer, ReadoutInv, BadEventsLogged, [Next]_vars
               PROVE  ReadoutInv' /\ BadEventsLogged'
    OBVIOUS
  <2>1. CASE Push
    BY <2>1, PushReads
  <2>2. ASSUME ~Push PROVE UNCHANGED pushed
    BY <2>2 DEF Next, WorkLoop, Trigger, Latch, SetGoTime, BusCall, OtherCall, threadVars, vars,
       Poll, AcqAgain, Available, ArmAgain, Swapped, AddressAnswered, StartAnswered,
       TraceAnswered, ResetAnswered
  <2>3. ASSUME ~Push PROVE ReadoutInv'
    BY <2>3, OutsideReads, BoardReads, CallReads, SwapReads, GetEventReads
       DEF Next, WorkLoop
  <2> QED BY <2>1, <2>2, <2>3 DEF BadEventsLogged
<1> QED BY <1>1, <1>2, ReadoutTypeCorrect, AnswersOwn, PTL DEF Spec
=============================================================================
