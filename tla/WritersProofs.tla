---------------------------- MODULE WritersProofs ----------------------------
(***************************************************************************)
(* Proofs about Writers, for every configuration, batch size, queue bound  *)
(* and number of runs and events: its types, what the MIDAS frontend is    *)
(* sent, and what the online monitor is shown: a stream of the events,     *)
(* its numbers, and what is left in it of an earlier run.                  *)
(***************************************************************************)
EXTENDS Writers, FiniteSetTheorems, TLAPS

(* A sequence of whatever.                                                 *)
IsSeq(s) == \E S : s \in Seq(S)

Sending == {"root", "root_end", "online", "online_end", "midas"}

FeedTypes ==
    /\ batch \in Seq(Nat \X Nat) /\ given \in Nat \X Nat
    /\ message.number \in Nat
    /\ IsSeq(shown)

(* The events of a batch that is being sent follow on what was sent.       *)
FeedInOrder ==
    /\ given[1] <= run
    /\ given[1] = run => given[2] <= events
    /\ control \in Sending =>
          /\ Len(batch) <= events
          /\ \A i \in 1..Len(batch) : batch[i] = Event(run, events - Len(batch) + i)
          /\ given[1] = run => given[2] <= events - Len(batch)

(* What is queued for MIDAS is the newest event, and newer than its answer *)
(* to the request; without a request nothing is queued.  The flag says so: *)
(* while a request waits it is up only if the newest event is there, or    *)
(* the last batch was empty and took it away.                              *)
QueueFresh ==
    /\ ~Later(asked, given)
    /\ midas_queue # <<>> => /\ midas_queue = <<given>>
                             /\ get_next_event
                             /\ Later(given, asked)
    /\ midas_loop \in {"outer", "receive"} => ~get_next_event /\ ~midas_has_data
    /\ midas_loop \in {"wait", "copy"} => get_next_event
    /\ midas_loop = "copy" => midas_has_data
    /\ midas_loop # "undefined" /\ midas_has_data => midas_queue # <<>> \/ emptied

(* number_of_events_ keeps up with the builder, and the queue is empty     *)
(* when a run is over.                                                     *)
NumberFollows ==
    /\ control \in {"batch", "online_end", "midas", "finished"} => number_of_events = events
    /\ control \in {"root", "root_end", "online"} =>
          number_of_events = events - Len(batch)
    /\ (control \in {"finished", "idle"} \/ (control = "midas" /\ last))
          => online_queue = <<>>
    /\ \A i \in 1..Len(online_queue) : online_queue[i][2] <= number_of_events
    /\ message.event[2] <= message.number

TypeInv == TypeOK /\ FeedTypes

IInv == TypeInv /\ FeedInOrder /\ QueueFresh /\ NumberFollows
        /\ FreshAnswer /\ NumberCovers

-----------------------------------------------------------------------------
(* The queue takes a prefix: nothing but what it is given, up to its bound. *)
LEMMA CutPrefix ==
    ASSUME NEW q \in Seq(Nat \X Nat)
    PROVE  /\ Cut(q) \in Seq(Nat \X Nat)
           /\ Len(Cut(q)) <= KMaxQueueSize
           /\ Len(Cut(q)) <= Len(q)
           /\ \A i \in 1..Len(Cut(q)) : Cut(q)[i] = q[i]
<1> DEFINE S == {Len(q), KMaxQueueSize}
           n == Min(S)
<1>1. n \in S /\ n <= Len(q) /\ n <= KMaxQueueSize /\ n \in Nat
  <2>1. KMaxQueueSize \in Nat /\ Len(q) \in Nat
    BY OnlineAssumption
  <2>2. \E x \in S : \A y \in S : x <= y
    BY <2>1
  <2>3. Min(S) \in S /\ \A y \in S : Min(S) <= y
    BY <2>2 DEF Min
  <2> QED  BY <2>1, <2>3
<1>2. Cut(q) = SubSeq(q, 1, n)
  BY DEF Cut
<1> HIDE DEF n
<1> QED  BY <1>1, <1>2

(* A sequence stays one when something is appended, and what was in it     *)
(* stays where it was.                                                     *)
LEMMA AppendSeq ==
    ASSUME NEW s, NEW x, IsSeq(s)
    PROVE  /\ IsSeq(Append(s, x))
           /\ Len(s) \in Nat /\ DOMAIN s = 1..Len(s)
           /\ DOMAIN Append(s, x) = 1..Len(s) + 1
           /\ \A i \in 1..Len(s) : Append(s, x)[i] = s[i]
           /\ Append(s, x)[Len(s) + 1] = x
<1>1. PICK S : s \in Seq(S)
  BY DEF IsSeq
<1>2. s \in Seq(S \cup {x})
  BY <1>1
<1>3. Append(s, x) \in Seq(S \cup {x})
  BY <1>2
<1> QED  BY <1>2, <1>3 DEF IsSeq

(* A newer event than the newest is newer than what was asked after.       *)
LEMMA LaterStill ==
    ASSUME NEW e \in Nat \X Nat, NEW g \in Nat \X Nat, NEW a \in Nat \X Nat,
           ~Later(a, g), Later(e, g)
    PROVE  Later(e, a) /\ ~Later(a, e)
BY DEF Later
-----------------------------------------------------------------------------
(* The types: by the actions of the two threads and of the builder.        *)

LEMMA TypesBuilder ==
    ASSUME TypeInv, StartWriters \/ Builder \/ StopWriters
    PROVE  TypeInv'
<1> USE DEF TypeInv
<1>1. CASE StartWriters
  BY <1>1, WritersAssumption DEF StartWriters, StartOnline, StartMidas, TypeOK, FeedTypes,
     OnlineTypeOK, MidasTypeOK
<1>2. CASE StopWriters
  BY <1>2 DEF StopWriters, StopOnline, StopMidas, TypeOK, FeedTypes, OnlineTypeOK, MidasTypeOK
<1>3. CASE CopyBatch
  <2>1. PICK n \in 0..BatchSize :
            /\ events + n <= MaxEvents
            /\ last' = (n < BatchSize \/ events + n = MaxEvents)
            /\ batch' = [i \in 1..n |-> Event(run, events + i)]
            /\ events' = events + n
    BY <1>3 DEF CopyBatch
  <2>2. run \in Nat /\ events \in Nat /\ n \in Nat
    BY <2>1, BatchAssumption, WritersAssumption DEF TypeOK
  <2>3. batch' \in Seq(Nat \X Nat) /\ Len(batch') = n
    BY <2>1, <2>2 DEF Event
  <2>4. events' \in 0..MaxEvents /\ Len(batch') <= BatchSize
    BY <2>1, <2>2, <2>3, BatchAssumption, WritersAssumption
  <2> QED
    BY <1>3, <2>1, <2>3, <2>4 DEF CopyBatch, TypeOK, FeedTypes, OnlineTypeOK, MidasTypeOK,
       onlineVars, midasVars
<1>4. CASE SendToRoot
  <2>1. /\ control' \in {"root_end", "online"}
        /\ UNCHANGED <<devices, run, events, batch, last, given, onlineVars, midasVars>>
    BY <1>4 DEF SendToRoot, Step
  <2> QED
    BY <2>1 DEF TypeOK, FeedTypes, OnlineTypeOK, MidasTypeOK, onlineVars, midasVars
<1>5. CASE SendToOnline
  <2>1. /\ control' \in {"online_end", "midas"}
        /\ UNCHANGED <<devices, run, events, batch, last, given, midasVars>>
    BY <1>5 DEF SendToOnline, Step
  <2>2. CASE PushOnline(batch)
    <3>1. online_queue \o batch \in Seq(Nat \X Nat) /\ Len(batch) \in Nat
      BY DEF TypeOK, FeedTypes, OnlineTypeOK
    <3>2. online_queue' \in Seq(Nat \X Nat) /\ Len(online_queue') <= KMaxQueueSize
      BY <2>2, <3>1, CutPrefix DEF PushOnline
    <3>3. number_of_events' \in Nat
      BY <2>2, <3>1 DEF PushOnline, TypeOK, OnlineTypeOK
    <3> QED
      BY <2>1, <2>2, <3>2, <3>3 DEF PushOnline, TypeOK, FeedTypes,
         OnlineTypeOK, MidasTypeOK, midasVars
  <2>3. CASE FlushData
    <3>1. online_queue' \in Seq(Nat \X Nat) /\ Len(online_queue') <= KMaxQueueSize
      <4>1. online_queue' = <<>>
        BY <2>3 DEF FlushData
      <4> QED  BY <4>1, OnlineAssumption
    <3> QED
      BY <2>1, <2>3, <3>1 DEF FlushData, TypeOK, FeedTypes,
         OnlineTypeOK, MidasTypeOK, midasVars
  <2> QED  BY <1>5, <2>2, <2>3 DEF SendToOnline
<1>6. CASE SendToMidas
  <2>1. batch # <<>> => batch[Len(batch)] \in Nat \X Nat
    BY DEF FeedTypes
  <2>2. midas_queue' \in Seq(Nat \X Nat) /\ midas_has_data' \in BOOLEAN
    <3>1. CASE batch # <<>> /\ get_next_event
      <4>1. midas_queue' = <<batch[Len(batch)]>> /\ midas_has_data' = TRUE
        BY <1>6, <3>1 DEF SendToMidas, PushMidas
      <4> QED  BY <2>1, <3>1, <4>1
    <3>2. CASE ~(batch # <<>> /\ get_next_event)
      <4>1. midas_queue' = <<>> /\ midas_has_data' = midas_has_data
        BY <1>6, <3>2 DEF SendToMidas, PushMidas
      <4> QED  BY <4>1 DEF TypeOK, MidasTypeOK
    <3> QED  BY <3>1, <3>2
  <2>3. given' \in Nat \X Nat
    BY <1>6, <2>1 DEF SendToMidas, FeedTypes
  <2>4. /\ control' \in {"finished", "batch"}
        /\ UNCHANGED <<devices, run, events, batch, last, onlineVars>>
        /\ UNCHANGED <<midas_go, get_next_event, midas_loop, request, asked>>
    BY <1>6 DEF SendToMidas, Step, PushMidas
  <2> QED
    BY <2>2, <2>3, <2>4 DEF TypeOK, FeedTypes, OnlineTypeOK, MidasTypeOK, onlineVars
<1> QED  BY <1>1, <1>2, <1>3, <1>4, <1>5, <1>6 DEF Builder

LEMMA TypesThreads ==
    ASSUME TypeInv, OnlineThread \/ MidasThread \/ MidasFrontend
    PROVE  TypeInv'
<1> USE DEF TypeInv
<1>1. CASE OnlineThread
  <2>1. TypeOK' <=> OnlineTypeOK'
    BY <1>1 DEF OnlineThread, feedVars, midasVars, TypeOK, MidasTypeOK
  <2>2. FeedTypes' <=> message'.number \in Nat /\ IsSeq(shown')
    BY <1>1 DEF OnlineThread, feedVars, FeedTypes
  <2>3. CASE HasWork
    BY <2>1, <2>2, <2>3 DEF HasWork, TypeOK, FeedTypes, OnlineTypeOK
  <2>4. CASE PackMessage
    <3>1. CASE online_queue = <<>>
      BY <2>1, <2>2, <2>4, <3>1 DEF PackMessage, TypeOK, FeedTypes, OnlineTypeOK
    <3>2. CASE online_queue # <<>>
      <4>1. /\ Head(online_queue) \in Nat \X Nat
            /\ Tail(online_queue) \in Seq(Nat \X Nat)
            /\ Len(Tail(online_queue)) <= KMaxQueueSize
        BY <3>2, OnlineAssumption DEF TypeOK, OnlineTypeOK
      <4>2. message'.event = Head(online_queue) /\ message'.number = number_of_events
        BY <2>4, <3>2 DEF PackMessage
      <4> QED
        BY <2>1, <2>2, <2>4, <3>2, <4>1, <4>2
           DEF PackMessage, TypeOK, FeedTypes, OnlineTypeOK
    <3> QED  BY <3>1, <3>2
  <2>5. CASE SendMessage(run)
    <3>1. message'.event \in Nat \X Nat /\ message'.number \in Nat
      BY <2>5 DEF SendMessage, Empty, Event
    <3>2. IsSeq(shown')
      BY <2>5, AppendSeq DEF SendMessage, FeedTypes
    <3> QED
      BY <2>1, <2>2, <2>5, <3>1, <3>2 DEF SendMessage, TypeOK, OnlineTypeOK
  <2>6. CASE Sent
    BY <2>1, <2>2, <2>6 DEF Sent, TypeOK, FeedTypes, OnlineTypeOK
  <2> QED  BY <1>1, <2>3, <2>4, <2>5, <2>6 DEF OnlineThread
<1>2. CASE MidasThread
  <2>1. /\ TypeOK' <=> MidasTypeOK'
        /\ FeedTypes'
    BY <1>2 DEF MidasThread, feedVars, onlineVars, TypeOK, OnlineTypeOK, FeedTypes
  <2>2. CASE Serve \/ AnswerRequest(given) \/ FindEvent
    BY <2>1, <2>2 DEF Serve, AnswerRequest, FindEvent, TypeOK, FeedTypes, MidasTypeOK
  <2>3. CASE SendDataMessage(given, emptied)
    <3>1. midas_queue # <<>> => Tail(midas_queue) \in Seq(Nat \X Nat)
      BY DEF TypeOK, MidasTypeOK
    <3> QED
      BY <2>1, <2>3, <3>1 DEF SendDataMessage, TypeOK, MidasTypeOK
  <2> QED  BY <1>2, <2>2, <2>3 DEF MidasThread
<1>3. CASE MidasFrontend
  BY <1>3 DEF MidasFrontend, Ask, feedVars, onlineVars, TypeOK, OnlineTypeOK,
     FeedTypes, MidasTypeOK
<1> QED  BY <1>1, <1>2, <1>3

LEMMA TypesStep ==
    ASSUME TypeInv, [Next]_vars
    PROVE  TypeInv'
<1>1. CASE UNCHANGED vars
  BY <1>1 DEF vars, feedVars, onlineVars, midasVars, TypeInv, TypeOK, FeedTypes,
     OnlineTypeOK, MidasTypeOK
<1> QED  BY <1>1, TypesBuilder, TypesThreads DEF Next

-----------------------------------------------------------------------------
(* The order of the feed: only the builder's own actions touch it.         *)

LEMMA FeedNumbers ==
    ASSUME TypeInv
    PROVE  /\ run \in Nat /\ events \in Nat /\ Len(batch) \in Nat
           /\ \A i \in 1..Len(batch) : batch[i] \in Nat \X Nat
           /\ batch # <<>> => Len(batch) \in 1..Len(batch)
BY WritersAssumption DEF TypeInv, TypeOK, FeedTypes

LEMMA FeedStep ==
    ASSUME TypeInv, FeedInOrder, [Next]_vars
    PROVE  FeedInOrder'
<1>0. /\ run \in Nat /\ events \in Nat /\ Len(batch) \in Nat
      /\ batch # <<>> => Len(batch) \in 1..Len(batch)
      /\ given[1] \in Nat /\ given[2] \in Nat
  BY FeedNumbers DEF TypeInv, FeedTypes
<1>1. CASE StartWriters
  BY <1>0, <1>1 DEF StartWriters, FeedInOrder, Sending
<1>2. CASE CopyBatch
  <2>1. PICK n \in 0..BatchSize :
            /\ batch' = [i \in 1..n |-> Event(run, events + i)]
            /\ events' = events + n
    BY <1>2 DEF CopyBatch
  <2>2. run' = run /\ given' = given /\ control = "batch"
    BY <1>2 DEF CopyBatch
  <2>3. n \in Nat /\ Len(batch') = n /\ events' - Len(batch') = events
    BY <1>0, <2>1, BatchAssumption
  <2>4. \A i \in 1..Len(batch') : batch'[i] = Event(run', events' - Len(batch') + i)
    BY <2>1, <2>2, <2>3
  <2>5. given[1] = run => given[2] <= events
    BY DEF FeedInOrder
  <2> QED
    BY <1>0, <2>1, <2>2, <2>3, <2>4, <2>5 DEF FeedInOrder
<1>3. CASE SendToRoot \/ SendToOnline
  <2>1. control \in Sending /\ UNCHANGED <<run, events, batch, given>>
    BY <1>3 DEF SendToRoot, SendToOnline, Step, Sending
  <2> QED  BY <2>1 DEF FeedInOrder
<1>4. CASE SendToMidas
  <2>1. /\ control = "midas" /\ control' \in {"finished", "batch"}
        /\ UNCHANGED <<run, events, batch>>
        /\ given' = IF batch = <<>> THEN given ELSE batch[Len(batch)]
    BY <1>4 DEF SendToMidas, Step
  <2>2. batch # <<>> => batch[Len(batch)] = <<run, events>>
    BY <1>0, <2>1 DEF FeedInOrder, Sending, Event
  <2> QED  BY <1>0, <2>1, <2>2 DEF FeedInOrder, Sending
<1>5. CASE StopWriters
  BY <1>5 DEF StopWriters, FeedInOrder, Sending
<1>6. CASE OnlineThread \/ MidasThread \/ MidasFrontend \/ UNCHANGED vars
  BY <1>6 DEF OnlineThread, MidasThread, MidasFrontend, vars, feedVars, FeedInOrder
<1> QED  BY <1>1, <1>2, <1>3, <1>4, <1>5, <1>6 DEF Next, Builder

-----------------------------------------------------------------------------
(* What MIDAS is sent.                                                     *)

LEMMA FreshStep ==
    ASSUME TypeInv, FeedInOrder, QueueFresh, FreshAnswer, [Next]_vars
    PROVE  QueueFresh' /\ FreshAnswer'
<1>0. /\ given \in Nat \X Nat /\ asked \in Nat \X Nat
      /\ midas_queue \in Seq(Nat \X Nat)
      /\ midas_loop \in {"outer", "receive", "wait", "copy", "undefined"}
      /\ midas_has_data \in BOOLEAN /\ get_next_event \in BOOLEAN
  BY DEF TypeInv, TypeOK, FeedTypes, MidasTypeOK
<1>1. CASE StartWriters \/ StopWriters
  BY <1>1 DEF StartWriters, StopWriters, StartMidas, StopMidas, QueueFresh, FreshAnswer
<1>2. CASE \/ CopyBatch \/ SendToRoot \/ SendToOnline \/ OnlineThread
           \/ MidasFrontend \/ UNCHANGED vars
  <2>1. UNCHANGED <<given, emptied, asked, midas_queue, midas_has_data, get_next_event,
                    midas_loop, served>>
    BY <1>2 DEF CopyBatch, SendToRoot, SendToOnline, OnlineThread, MidasFrontend, Ask,
       vars, feedVars, midasVars, Step
  <2> QED  BY <2>1 DEF QueueFresh, FreshAnswer
<1>3. CASE SendToMidas
  <2>1. /\ control = "midas" /\ UNCHANGED <<get_next_event, midas_loop, asked, served>>
        /\ emptied' = (batch = <<>>)
    BY <1>3 DEF SendToMidas, Step, PushMidas
  <2>2. CASE batch = <<>>
    <3>1. midas_queue' = <<>> /\ midas_has_data' = midas_has_data /\ given' = given
      BY <1>3, <2>2 DEF SendToMidas, PushMidas
    <3>2. emptied' = TRUE
      BY <2>1, <2>2
    <3> QED  BY <2>1, <3>1, <3>2 DEF QueueFresh, FreshAnswer
  <2>3. CASE batch # <<>>
    <3>1. batch[Len(batch)] = <<run, events>> /\ run \in Nat /\ events \in Nat
          /\ Len(batch) \in Nat /\ Len(batch) > 0
      BY <2>1, <2>3, FeedNumbers DEF FeedInOrder, Sending, Event
    <3>2. given' = <<run, events>>
      BY <1>3, <2>3, <3>1 DEF SendToMidas
    <3>3. given[1] <= run /\ (given[1] = run => given[2] <= events - Len(batch))
      BY <2>1 DEF FeedInOrder, Sending
    <3>4. Later(given', given) /\ given' \in Nat \X Nat
      BY <1>0, <3>1, <3>2, <3>3 DEF Later
    <3>5. Later(given', asked) /\ ~Later(asked, given')
      BY <1>0, <3>4, LaterStill DEF QueueFresh
    <3>6. CASE get_next_event
      <4>1. midas_queue' = <<given'>> /\ midas_has_data' = TRUE
        BY <1>3, <2>3, <3>6 DEF SendToMidas, PushMidas
      <4>2. midas_loop \notin {"outer", "receive"}
        BY <3>6 DEF QueueFresh
      <4>3. midas_queue' # <<>>
        BY <4>1
      <4> QED  BY <2>1, <3>5, <3>6, <4>1, <4>2, <4>3 DEF QueueFresh, FreshAnswer
    <3>7. CASE ~get_next_event
      <4>1. midas_queue' = <<>> /\ midas_has_data' = midas_has_data
        BY <1>3, <2>3, <3>7 DEF SendToMidas, PushMidas
      <4>2. midas_loop # "undefined" => midas_loop \in {"outer", "receive"}
        BY <1>0, <3>7 DEF QueueFresh
      <4> QED  BY <2>1, <3>5, <3>7, <4>1, <4>2 DEF QueueFresh, FreshAnswer
    <3> QED  BY <3>6, <3>7
  <2> QED  BY <2>2, <2>3
<1>4. CASE MidasThread
  <2>1. given' = given /\ emptied' = emptied
    BY <1>4 DEF MidasThread, feedVars
  <2>2. CASE Serve \/ FindEvent
    BY <2>1, <2>2 DEF Serve, FindEvent, QueueFresh, FreshAnswer
  <2>3. CASE AnswerRequest(given)
    <3>1. ~Later(given, given)
      BY <1>0 DEF Later
    <3>2. midas_queue = <<>> /\ ~midas_has_data
      BY <2>3 DEF AnswerRequest, QueueFresh
    <3> QED  BY <2>1, <2>3, <3>1, <3>2 DEF AnswerRequest, QueueFresh, FreshAnswer
  <2>4. CASE SendDataMessage(given, emptied)
    <3>0. midas_loop = "copy" /\ midas_has_data /\ asked' = asked /\ get_next_event' = FALSE
      BY <2>4 DEF SendDataMessage, QueueFresh
    <3>1. CASE midas_queue = <<>>
      <4>1. emptied
        BY <3>0, <3>1 DEF QueueFresh
      <4>2. /\ served'.event = Garbage /\ served'.emptied = emptied
            /\ midas_loop' = "undefined" /\ midas_queue' = <<>>
        BY <2>4, <3>1 DEF SendDataMessage
      <4> QED  BY <2>1, <3>0, <4>1, <4>2 DEF QueueFresh, FreshAnswer
    <3>2. CASE midas_queue # <<>>
      <4>1. midas_queue = <<given>> /\ Later(given, asked)
        BY <3>2 DEF QueueFresh
      <4>2. Head(midas_queue) = given /\ Tail(midas_queue) = <<>> /\ Len(midas_queue) = 1
        BY <4>1
      <4>3. /\ served'.event = given /\ served'.asked = asked /\ served'.newest = given
            /\ midas_queue' = <<>> /\ midas_has_data' = FALSE /\ midas_loop' = "outer"
        BY <2>4, <3>2, <4>2 DEF SendDataMessage
      <4>4. given # Garbage
        BY <1>0, <4>1 DEF Garbage, Event, Later
      <4> QED  BY <2>1, <3>0, <4>1, <4>3, <4>4 DEF QueueFresh, FreshAnswer
    <3> QED  BY <3>1, <3>2
  <2> QED  BY <1>4, <2>2, <2>3, <2>4 DEF MidasThread
<1> QED  BY <1>1, <1>2, <1>3, <1>4 DEF Next, Builder

-----------------------------------------------------------------------------
(* The number the monitor is shown.                                        *)

LEMMA NumberBuilder ==
    ASSUME TypeInv, FeedInOrder, NumberFollows, StartWriters \/ Builder \/ StopWriters
    PROVE  NumberFollows'
<1>0. /\ run \in Nat /\ events \in Nat /\ Len(batch) \in Nat /\ number_of_events \in Nat
      /\ online_queue \in Seq(Nat \X Nat) /\ batch \in Seq(Nat \X Nat)
      /\ last \in BOOLEAN
  BY FeedNumbers DEF TypeInv, TypeOK, FeedTypes, OnlineTypeOK
<1>1. CASE StartWriters
  <2>1. /\ control' = "batch" /\ events' = 0 /\ number_of_events' = 0
        /\ message' = message /\ online_queue' = <<>>
    BY <1>1 DEF StartWriters, StartOnline, NumberFollows
  <2> QED  BY <2>1 DEF NumberFollows
<1>2. CASE StopWriters
  <2>1. /\ control' = "idle" /\ number_of_events' = number_of_events
        /\ message' = message /\ online_queue' = <<>>
    BY <1>2 DEF StopWriters, StopOnline, NumberFollows
  <2> QED  BY <2>1 DEF NumberFollows
<1>3. CASE CopyBatch
  <2>1. PICK n \in 0..BatchSize :
            /\ batch' = [i \in 1..n |-> Event(run, events + i)]
            /\ events' = events + n
    BY <1>3 DEF CopyBatch
  <2>2. /\ control = "batch" /\ control' = "root"
        /\ UNCHANGED <<number_of_events, message, online_queue>>
    BY <1>3 DEF CopyBatch, onlineVars
  <2>3. events' - Len(batch') = events
    BY <1>0, <2>1, BatchAssumption
  <2> QED  BY <2>2, <2>3 DEF NumberFollows
<1>4. CASE SendToRoot
  <2>1. /\ control \in {"root", "root_end"} /\ control' \in {"root_end", "online"}
        /\ UNCHANGED <<events, batch, last, number_of_events, message, online_queue>>
    BY <1>4 DEF SendToRoot, Step, onlineVars
  <2> QED  BY <2>1 DEF NumberFollows
<1>5. CASE SendToMidas
  <2>1. /\ control = "midas" /\ control' = IF last THEN "finished" ELSE "batch"
        /\ UNCHANGED <<events, batch, last, number_of_events, message, online_queue>>
    BY <1>5 DEF SendToMidas, Step, onlineVars
  <2> QED  BY <2>1 DEF NumberFollows
<1>6. CASE SendToOnline
  <2>0. UNCHANGED <<events, batch, last>>
    BY <1>6 DEF SendToOnline, Step
  <2>1. CASE control = "online" /\ PushOnline(batch)
    <3> DEFINE q == online_queue \o batch
    <3>1. /\ control' = IF last THEN "online_end" ELSE "midas"
          /\ message' = message /\ online_queue' = Cut(q)
          /\ number_of_events' = number_of_events + Len(batch)
      BY <1>6, <2>1 DEF SendToOnline, Step, PushOnline
    <3>2. /\ number_of_events = events - Len(batch)
          /\ Len(batch) <= events
          /\ \A i \in 1..Len(batch) : batch[i] = Event(run, events - Len(batch) + i)
      BY <2>1 DEF NumberFollows, FeedInOrder, Sending
    <3>3. number_of_events' = events
      BY <1>0, <3>1, <3>2
    <3>4. \A i \in 1..Len(batch) : batch[i][2] <= events
      BY <1>0, <3>2 DEF Event
    <3>5. \A i \in 1..Len(online_queue) : online_queue[i][2] <= events
      <4>1. \A i \in 1..Len(online_queue) :
                online_queue[i][2] \in Nat /\ online_queue[i][2] <= number_of_events
        BY <1>0 DEF NumberFollows
      <4> QED  BY <1>0, <3>2, <4>1
    <3>6. \A i \in 1..Len(q) : q[i][2] <= events
      <4>1. /\ Len(q) = Len(online_queue) + Len(batch) /\ Len(online_queue) \in Nat
            /\ \A i \in 1..Len(q) : q[i] = IF i <= Len(online_queue) THEN online_queue[i]
                                           ELSE batch[i - Len(online_queue)]
        BY <1>0
      <4> HIDE DEF q
      <4>2. SUFFICES ASSUME NEW i \in 1..Len(q)  PROVE q[i][2] <= events
        OBVIOUS
      <4>3. CASE i \in 1..Len(online_queue)
        BY <3>5, <4>1, <4>3
      <4>4. CASE i - Len(online_queue) \in 1..Len(batch)
        <5>1. q[i] = batch[i - Len(online_queue)]
          BY <4>1, <4>4
        <5> QED  BY <3>4, <4>4, <5>1
      <4> QED  BY <1>0, <4>1, <4>3, <4>4
    <3>7. \A i \in 1..Len(online_queue') : online_queue'[i][2] <= events
      <4>1. q \in Seq(Nat \X Nat)
        BY <1>0
      <4> HIDE DEF q
      <4>2. /\ Len(Cut(q)) \in Nat /\ Len(q) \in Nat /\ Len(Cut(q)) <= Len(q)
            /\ \A i \in 1..Len(Cut(q)) : Cut(q)[i] = q[i]
        BY <4>1, CutPrefix
      <4> QED  BY <3>1, <3>6, <4>2
    <3>8. message'.event[2] <= message'.number
      BY <3>1 DEF NumberFollows
    <3> QED  BY <2>0, <3>1, <3>3, <3>7, <3>8 DEF NumberFollows
  <2>2. CASE control = "online_end" /\ FlushData
    <3>1. /\ control' = "midas" /\ online_queue' = <<>>
          /\ UNCHANGED <<number_of_events, message>>
      BY <1>6, <2>2 DEF SendToOnline, Step, FlushData
    <3> QED  BY <2>0, <2>2, <3>1 DEF NumberFollows
  <2> QED  BY <1>6, <2>1, <2>2 DEF SendToOnline, Step
<1> QED  BY <1>1, <1>2, <1>3, <1>4, <1>5, <1>6 DEF Builder

LEMMA NumberThread ==
    ASSUME TypeInv, NumberFollows, NumberCovers, OnlineThread
    PROVE  NumberFollows' /\ NumberCovers'
<1>1. UNCHANGED <<control, events, batch, last>>
  BY DEF OnlineThread, feedVars
<1>2. /\ online_queue \in Seq(Nat \X Nat) /\ number_of_events \in Nat
      /\ message.event \in Nat \X Nat /\ message.number \in Nat
      /\ IsSeq(shown)
  BY DEF TypeInv, TypeOK, FeedTypes, OnlineTypeOK
<1>3. CASE HasWork \/ Sent
  <2>1. UNCHANGED <<number_of_events, message, online_queue, shown>>
    BY <1>3 DEF HasWork, Sent
  <2> QED  BY <1>1, <2>1 DEF NumberFollows, NumberCovers
<1>4. CASE PackMessage
  <2>1. UNCHANGED <<number_of_events, shown>>
    BY <1>4 DEF PackMessage
  <2>2. CASE online_queue = <<>>
    <3>1. UNCHANGED <<message, online_queue>>
      BY <1>4, <2>2 DEF PackMessage
    <3> QED  BY <1>1, <2>1, <3>1 DEF NumberFollows, NumberCovers
  <2>3. CASE online_queue # <<>>
    <3>1. /\ online_queue' = Tail(online_queue)
          /\ message'.event = Head(online_queue) /\ message'.number = number_of_events
      BY <1>4, <2>3 DEF PackMessage
    <3>2. /\ Len(online_queue) \in Nat \ {0} /\ Head(online_queue) = online_queue[1]
          /\ Len(online_queue') = Len(online_queue) - 1
          /\ \A i \in 1..Len(online_queue') : online_queue'[i] = online_queue[i + 1]
      BY <1>2, <2>3, <3>1
    <3>3. \A i \in 1..Len(online_queue) : online_queue[i][2] <= number_of_events
      BY DEF NumberFollows
    <3>4. message'.event[2] <= message'.number
      BY <3>1, <3>2, <3>3
    <3>5. \A i \in 1..Len(online_queue') : online_queue'[i][2] <= number_of_events'
      BY <2>1, <3>2, <3>3
    <3> QED  BY <1>1, <2>1, <2>3, <3>4, <3>5 DEF NumberFollows, NumberCovers
  <2> QED  BY <2>2, <2>3
<1>5. CASE SendMessage(run)
  <2>1. /\ message' = Empty /\ UNCHANGED <<number_of_events, online_queue>>
        /\ \/ shown' = shown
           \/ shown' = Append(shown, [message |-> message, run |-> run])
    BY <1>5 DEF SendMessage
  <2>2. message'.event[2] <= message'.number
    BY <2>1 DEF Empty, Event
  <2>3. NumberCovers'
    <3>1. CASE shown' = shown
      BY <3>1 DEF NumberCovers
    <3>2. CASE shown' = Append(shown, [message |-> message, run |-> run])
      <4> DEFINE new == [message |-> message, run |-> run]
      <4>1. /\ Len(shown) \in Nat /\ DOMAIN shown = 1..Len(shown)
            /\ DOMAIN shown' = 1..Len(shown) + 1
            /\ \A i \in 1..Len(shown) : shown'[i] = shown[i]
            /\ shown'[Len(shown) + 1] = new
        BY <1>2, <3>2, AppendSeq
      <4>2. new.message.number >= new.message.event[2]
        BY <1>2 DEF NumberFollows
      <4> QED  BY <4>1, <4>2 DEF NumberCovers
    <3> QED  BY <2>1, <3>1, <3>2
  <2> QED  BY <1>1, <2>1, <2>2, <2>3 DEF NumberFollows
<1> QED  BY <1>3, <1>4, <1>5 DEF OnlineThread

LEMMA NumberStep ==
    ASSUME TypeInv, FeedInOrder, NumberFollows, NumberCovers, [Next]_vars
    PROVE  NumberFollows' /\ NumberCovers'
<1>1. CASE StartWriters \/ Builder \/ StopWriters
  <2>1. shown' = shown
    BY <1>1 DEF StartWriters, StartOnline, Builder, CopyBatch, SendToRoot, SendToOnline,
       PushOnline, FlushData, SendToMidas, StopWriters, StopOnline, onlineVars
  <2> QED  BY <1>1, <2>1, NumberBuilder DEF NumberCovers
<1>2. CASE MidasThread \/ MidasFrontend \/ UNCHANGED vars
  <2>1. UNCHANGED <<control, events, batch, last, number_of_events, message,
                    online_queue, shown>>
    BY <1>2 DEF MidasThread, MidasFrontend, vars, feedVars, onlineVars
  <2> QED  BY <2>1 DEF NumberFollows, NumberCovers
<1> QED  BY <1>1, <1>2, NumberThread DEF Next

-----------------------------------------------------------------------------
(* The initial states.                                                     *)

LEMMA WritersInit == Init => IInv
<1> SUFFICES ASSUME Init  PROVE IInv
  OBVIOUS
<1>1. /\ run = 0 /\ events = 0 /\ given = <<0, 0>> /\ control = "idle" /\ batch = <<>>
      /\ online_queue = <<>> /\ message.event = <<0, 0>> /\ message.number = 0
      /\ number_of_events = 0 /\ shown = <<>>
      /\ midas_queue = <<>> /\ midas_loop = "outer" /\ get_next_event = FALSE
      /\ midas_has_data = FALSE /\ asked = <<0, 0>> /\ served = Nothing
  BY DEF Init, OnlineInit, MidasInit, Empty, Event
<1>0. << >> \in Seq(Nat \X Nat) /\ Len(<< >>) = 0 /\ <<0, 0>> \in Nat \X Nat
  OBVIOUS
<1>2. OnlineTypeOK
  <2>1. /\ online_go = FALSE /\ online_has_data = FALSE /\ message_ready \in BOOLEAN
        /\ online_loop = "outer"
    BY DEF Init, OnlineInit
  <2>2. Len(online_queue) <= KMaxQueueSize
    BY <1>0, <1>1, OnlineAssumption
  <2> QED  BY <1>0, <1>1, <2>1, <2>2 DEF OnlineTypeOK
<1>3. MidasTypeOK
  <2>1. midas_go = FALSE /\ midas_has_data = FALSE /\ request = FALSE
    BY DEF Init, MidasInit
  <2> QED  BY <1>0, <1>1, <2>1 DEF MidasTypeOK
<1>4. TypeOK
  <2>1. devices \in Configurations /\ last = FALSE
    BY DEF Init
  <2>2. run \in 0..Runs /\ events \in 0..MaxEvents /\ Len(batch) <= BatchSize
    BY <1>0, <1>1, WritersAssumption, BatchAssumption
  <2> QED  BY <1>1, <1>2, <1>3, <2>1, <2>2 DEF TypeOK
<1>5. FeedTypes
  <2>1. IsSeq(shown)
    BY <1>1 DEF IsSeq
  <2> QED  BY <1>1, <2>1 DEF FeedTypes
<1>6. FeedInOrder /\ NumberFollows
  BY <1>1 DEF FeedInOrder, NumberFollows, Sending
<1>7. QueueFresh
  BY <1>1 DEF QueueFresh, Later
<1>8. FreshAnswer /\ NumberCovers
  BY <1>1 DEF FreshAnswer, NumberCovers
<1> QED  BY <1>4, <1>5, <1>6, <1>7, <1>8 DEF IInv, TypeInv

-----------------------------------------------------------------------------
(* What the monitor is shown: the events that have been pushed pass the    *)
(* queue, the packed message and the socket one after the other, so that   *)
(* each is later than all that went before; and the queue is empty between *)
(* runs, so that only the packed message outlives its run.                 *)

Seen(i) == shown[i].message.event

(* Event e is of an earlier run, or has been counted in number_of_events_. *)
Pushed(e) == /\ e \in offered
             /\ e[1] <= run /\ (e[1] = run => e[2] <= number_of_events)

PushedOnly ==
    /\ offered \subseteq Nat \X Nat
    /\ control \in Sending => \A i \in 1..Len(batch) : batch[i] \in offered
    /\ \A k \in 1..Len(online_queue) : Pushed(online_queue[k])
    /\ message # Empty => Pushed(message.event)
    /\ \A i \in 1..Len(shown) : Pushed(Seen(i))

ShownInOrder ==
    /\ \A k, l \in 1..Len(online_queue) : k < l => Later(online_queue[l], online_queue[k])
    /\ message # Empty =>
          /\ message_ready
          /\ \A k \in 1..Len(online_queue) : Later(online_queue[k], message.event)
          /\ \A i \in 1..Len(shown) : Later(message.event, Seen(i))
    /\ \A k \in 1..Len(online_queue), i \in 1..Len(shown) : Later(online_queue[k], Seen(i))
    /\ online_loop = "pack" => ~message_ready

Stale(i) == Seen(i)[1] # shown[i].run

StaleOnce ==
    /\ control # "idle" => run >= 1 /\ \A k \in 1..Len(online_queue) : online_queue[k][1] = run
    /\ \A i \in 1..Len(shown) : shown[i].run \in 0..run
    /\ \A i, j \in 1..Len(shown) :
          Stale(i) /\ Stale(j) /\ shown[i].run = shown[j].run => i = j
    /\ message # Empty /\ message.event[1] # run =>
          \A i \in 1..Len(shown) : shown[i].run = run => ~Stale(i)

StreamInv == PushedOnly /\ ShownInOrder /\ StaleOnce

LEMMA StreamInit == Init => StreamInv
<1> SUFFICES ASSUME Init PROVE StreamInv
  OBVIOUS
<1>1. /\ shown = <<>> /\ online_queue = <<>> /\ message = Empty /\ offered = {}
      /\ control = "idle" /\ online_loop = "outer"
  BY DEF Init, OnlineInit
<1> QED BY <1>1 DEF StreamInv, PushedOnly, ShownInOrder, StaleOnce, Sending

(* The feed goes on; the online writer keeps its queue, or empties it.     *)
Feeding ==
    /\ offered \subseteq offered' /\ offered' \subseteq Nat \X Nat
    /\ control' \in Sending => \A i \in 1..Len(batch') : batch'[i] \in offered'
    /\ \/ run' = run /\ number_of_events' = number_of_events
       \/ run' = run + 1 /\ control = "idle"
    /\ control' # "idle" => run' >= 1
    /\ \/ online_queue' = <<>>
       \/ online_queue' = online_queue /\ (control # "idle" \/ control' = "idle")

LEMMA StreamFed ==
    ASSUME TypeInv, NumberFollows, StreamInv, Feeding,
           UNCHANGED <<message, message_ready, shown>>,
           online_loop' = "pack" => ~message_ready
    PROVE  StreamInv'
<1>1. /\ run \in Nat /\ number_of_events \in Nat /\ offered \subseteq Nat \X Nat
      /\ control = "idle" => online_queue = <<>>
  BY FeedNumbers DEF TypeInv, TypeOK, OnlineTypeOK, StreamInv, PushedOnly, NumberFollows
<1>2. ASSUME NEW e, Pushed(e) PROVE Pushed(e)' /\ e[1] # run + 1
  BY <1>1, <1>2 DEF Pushed, Feeding
<1>3. PushedOnly'
  <2>1. \A k \in 1..Len(online_queue') : Pushed(online_queue[k])'
    BY <1>2 DEF Feeding, StreamInv, PushedOnly, Pushed
  <2>2. \A i \in 1..Len(shown) : Pushed(Seen(i))'
    BY <1>2 DEF StreamInv, PushedOnly, Seen, Pushed
  <2>3. message' # Empty => Pushed(message.event)'
    BY <1>2 DEF StreamInv, PushedOnly, Pushed
  <2> QED BY <2>1, <2>2, <2>3 DEF PushedOnly, Feeding
<1>4. ShownInOrder'
  BY DEF StreamInv, ShownInOrder, Feeding, Seen
<1>5. StaleOnce'
  <2>1. control' # "idle" =>
            run' >= 1 /\ \A k \in 1..Len(online_queue') : online_queue'[k][1] = run'
    BY <1>1 DEF Feeding, StreamInv, StaleOnce
  <2>2. \A i \in 1..Len(shown) : shown'[i].run \in 0..run'
    BY <1>1 DEF Feeding, StreamInv, StaleOnce
  <2>3. \A i \in 1..Len(shown) : Stale(i)' = Stale(i)
    BY DEF Stale, Seen
  <2>4. \A i \in 1..Len(shown) : shown[i].run # run + 1
    BY <1>1 DEF StreamInv, StaleOnce
  <2>5. message # Empty /\ message.event[1] # run' =>
            \A i \in 1..Len(shown) : shown[i].run = run' => ~Stale(i)
    BY <2>4 DEF Feeding, StreamInv, StaleOnce
  <2> QED BY <2>1, <2>2, <2>3, <2>5 DEF StreamInv, StaleOnce
<1> QED BY <1>3, <1>4, <1>5 DEF StreamInv

(* The queue takes events of the batch, which are newer than all that were *)
(* pushed before.                                                          *)
LEMMA StreamPushed ==
    ASSUME TypeInv, FeedInOrder, NumberFollows, StreamInv, control = "online",
           Step("online", IF last THEN "online_end" ELSE "midas"), PushOnline(batch)
    PROVE  StreamInv'
<1> DEFINE n == number_of_events
           q == online_queue \o batch
           L == Len(online_queue)
<1>0. /\ run \in Nat /\ n \in Nat /\ Len(batch) \in Nat /\ L \in Nat
      /\ online_queue \in Seq(Nat \X Nat) /\ batch \in Seq(Nat \X Nat)
      /\ events \in Nat /\ offered \subseteq Nat \X Nat
  BY FeedNumbers DEF TypeInv, TypeOK, FeedTypes, OnlineTypeOK, StreamInv, PushedOnly
<1>1. /\ UNCHANGED <<message, message_ready, shown, online_loop, run, offered, batch>>
      /\ control' # "idle" /\ online_queue' = Cut(q) /\ n' = n + Len(batch)
  BY DEF Step, PushOnline
<1>2. \A i \in 1..Len(batch) : batch[i] = <<run, n + i>> /\ batch[i] \in offered
  <2>1. n = events - Len(batch)
    BY DEF NumberFollows
  <2> QED BY <1>0, <2>1 DEF FeedInOrder, Sending, Event, StreamInv, PushedOnly
<1>3. \A i \in 1..Len(online_queue') :
         \/ i \in 1..L /\ online_queue'[i] = online_queue[i]
         \/ i - L \in 1..Len(batch) /\ online_queue'[i] = batch[i - L]
  <2>0. q \in Seq(Nat \X Nat)
    BY <1>0
  <2>1. /\ Len(q) = L + Len(batch) /\ Len(q) \in Nat
        /\ \A i \in 1..Len(q) : q[i] = IF i <= L THEN online_queue[i] ELSE batch[i - L]
    BY <1>0
  <2> HIDE DEF q
  <2>2. /\ Len(Cut(q)) \in Nat /\ Len(Cut(q)) <= Len(q)
        /\ \A i \in 1..Len(Cut(q)) : Cut(q)[i] = q[i]
    BY <2>0, CutPrefix
  <2>3. SUFFICES ASSUME NEW i \in 1..Len(Cut(q))
                 PROVE  \/ i \in 1..L /\ Cut(q)[i] = online_queue[i]
                        \/ i - L \in 1..Len(batch) /\ Cut(q)[i] = batch[i - L]
    BY <1>1
  <2>4. CASE i <= L
    BY <1>0, <2>1, <2>2, <2>4
  <2>5. CASE i > L
    <3>1. i - L \in 1..Len(batch) /\ q[i] = batch[i - L]
      BY <1>0, <2>1, <2>2, <2>5
    <3> QED BY <2>2, <3>1
  <2> QED BY <1>0, <2>2, <2>4, <2>5
<1> HIDE DEF q
<1>4. ASSUME NEW e, Pushed(e)
      PROVE  /\ Pushed(e)' /\ e \in Nat \X Nat
             /\ \A i \in 1..Len(batch) : Later(batch[i], e)
  BY <1>0, <1>1, <1>2, <1>4 DEF Pushed, Later
<1>5. \A i \in 1..Len(batch) : Pushed(batch[i])' /\ batch[i][1] = run
  BY <1>0, <1>1, <1>2 DEF Pushed
<1>6. \A k \in 1..L : Pushed(online_queue[k])
  BY DEF StreamInv, PushedOnly
<1>7. \A i \in 1..Len(shown) : Pushed(Seen(i)) /\ Seen(i)' = Seen(i)
  BY <1>1 DEF StreamInv, PushedOnly, Seen
<1>8. message # Empty => Pushed(message.event)
  BY DEF StreamInv, PushedOnly
<1>9. PushedOnly'
  <2>1. ASSUME NEW k \in 1..Len(online_queue') PROVE Pushed(online_queue[k])'
    <3>1. CASE k \in 1..L /\ online_queue'[k] = online_queue[k]
      BY <1>4, <1>6, <3>1 DEF Pushed
    <3>2. CASE k - L \in 1..Len(batch) /\ online_queue'[k] = batch[k - L]
      BY <1>1, <1>5, <3>2 DEF Pushed
    <3> QED BY <1>3, <3>1, <3>2
  <2>2. message' # Empty => Pushed(message.event)'
    BY <1>1, <1>4, <1>8 DEF Pushed
  <2>3. \A i \in 1..Len(shown') : Pushed(Seen(i))'
    BY <1>1, <1>4, <1>7 DEF Pushed, Seen
  <2>4. \A i \in 1..Len(batch') : batch'[i] \in offered'
    BY <1>1, <1>2
  <2> QED BY <1>0, <1>1, <2>1, <2>2, <2>3, <2>4 DEF PushedOnly
<1>10. ShownInOrder'
  <2>1. ASSUME NEW k \in 1..Len(online_queue'), NEW l \in 1..Len(online_queue'), k < l
        PROVE  Later(online_queue'[l], online_queue'[k])
    <3>1. CASE l \in 1..L /\ online_queue'[l] = online_queue[l]
      <4>1. k \in 1..L /\ online_queue'[k] = online_queue[k]
        BY <1>0, <1>3, <2>1, <3>1
      <4> QED BY <2>1, <3>1, <4>1 DEF StreamInv, ShownInOrder
    <3>2. CASE l - L \in 1..Len(batch) /\ online_queue'[l] = batch[l - L]
      <4>1. CASE k \in 1..L /\ online_queue'[k] = online_queue[k]
        BY <1>4, <1>6, <3>2, <4>1
      <4>2. CASE k - L \in 1..Len(batch) /\ online_queue'[k] = batch[k - L]
        <5>1. /\ batch[l - L] = <<run, n + (l - L)>>
              /\ batch[k - L] = <<run, n + (k - L)>>
          BY <1>2, <3>2, <4>2
        <5>2. n + (l - L) > n + (k - L)
          BY <1>0, <2>1
        <5> QED BY <3>2, <4>2, <5>1, <5>2 DEF Later
      <4> QED BY <1>3, <4>1, <4>2
    <3> QED BY <1>3, <3>1, <3>2
  <2>2. ASSUME NEW e, Pushed(e), \A k \in 1..L : Later(online_queue[k], e)
        PROVE  \A k \in 1..Len(online_queue') : Later(online_queue'[k], e)
    BY <1>3, <1>4, <2>2
  <2>3. message # Empty =>
            \A k \in 1..Len(online_queue') : Later(online_queue'[k], message.event)
    BY <1>8, <2>2 DEF StreamInv, ShownInOrder
  <2>4. \A i \in 1..Len(shown) :
            \A k \in 1..Len(online_queue') : Later(online_queue'[k], Seen(i))
    BY <1>7, <2>2 DEF StreamInv, ShownInOrder
  <2> QED BY <1>1, <1>7, <2>1, <2>3, <2>4 DEF StreamInv, ShownInOrder
<1>11. StaleOnce'
  <2>1. \A k \in 1..Len(online_queue') : online_queue'[k][1] = run
    BY <1>3, <1>5 DEF StreamInv, StaleOnce
  <2>2. \A i \in 1..Len(shown) : Stale(i)' = Stale(i)
    BY <1>1 DEF Stale, Seen
  <2> QED BY <1>1, <2>1, <2>2 DEF StreamInv, StaleOnce
<1> QED BY <1>9, <1>10, <1>11 DEF StreamInv

(* The thread packs the first of the queue, and sends what it packed.      *)
LEMMA StreamPacked ==
    ASSUME TypeInv, NumberFollows, StreamInv, PackMessage, UNCHANGED feedVars
    PROVE  StreamInv'
<1>0. /\ online_queue \in Seq(Nat \X Nat)
      /\ UNCHANGED <<run, control, offered, batch, number_of_events, shown>>
      /\ ~message_ready /\ online_loop' = "send"
  BY DEF TypeInv, TypeOK, OnlineTypeOK, PackMessage, feedVars, StreamInv, ShownInOrder
<1>1. CASE online_queue = <<>>
  <2>1. UNCHANGED <<online_queue, message, message_ready>>
    BY <1>1 DEF PackMessage
  <2> QED BY <1>0, <2>1 DEF StreamInv, PushedOnly, ShownInOrder, StaleOnce, Pushed, Seen, Stale
<1>2. CASE online_queue # <<>>
  <2>a. /\ message'.event = Head(online_queue) /\ message_ready' = TRUE
        /\ online_queue' = Tail(online_queue)
    BY <1>2 DEF PackMessage
  <2>1. /\ message'.event = online_queue[1] /\ message_ready' = TRUE
        /\ Len(online_queue) \in Nat \ {0} /\ 1 \in 1..Len(online_queue)
        /\ Len(online_queue') = Len(online_queue) - 1
        /\ \A k \in 1..Len(online_queue') :
              /\ k + 1 \in 1..Len(online_queue) /\ 1 < k + 1
              /\ online_queue'[k] = online_queue[k + 1]
    BY <1>0, <1>2, <2>a
  <2>2. control # "idle"
    BY <1>2 DEF NumberFollows
  <2>3. PushedOnly'
    <3>1. \A k \in 1..Len(online_queue') : Pushed(online_queue[k])'
      BY <1>0, <2>1 DEF StreamInv, PushedOnly, Pushed
    <3>2. Pushed(message.event)'
      BY <1>0, <2>1 DEF StreamInv, PushedOnly, Pushed
    <3> QED BY <1>0, <3>1, <3>2 DEF StreamInv, PushedOnly, Pushed, Seen
  <2>4. ShownInOrder'
    <3>1. \A k, l \in 1..Len(online_queue') :
              k < l => Later(online_queue'[l], online_queue'[k])
      <4>1. ASSUME NEW k \in 1..Len(online_queue'), NEW l \in 1..Len(online_queue'), k < l
            PROVE  k + 1 < l + 1
        BY <2>1, <4>1
      <4> QED BY <2>1, <4>1 DEF StreamInv, ShownInOrder
    <3>2. /\ \A k \in 1..Len(online_queue') : Later(online_queue'[k], message'.event)
          /\ \A i \in 1..Len(shown) : Later(message'.event, Seen(i))
          /\ \A k \in 1..Len(online_queue'), i \in 1..Len(shown) :
                Later(online_queue'[k], Seen(i))
      BY <2>1 DEF StreamInv, ShownInOrder
    <3>3. \A i \in 1..Len(shown) : Seen(i)' = Seen(i)
      BY <1>0 DEF Seen
    <3> QED BY <1>0, <2>1, <3>1, <3>2, <3>3 DEF ShownInOrder
  <2>5. StaleOnce'
    <3>1. message'.event[1] = run' /\ run' >= 1
      BY <1>0, <2>1, <2>2 DEF StreamInv, StaleOnce
    <3>2. \A k \in 1..Len(online_queue') : online_queue'[k][1] = run'
      BY <1>0, <2>1, <2>2 DEF StreamInv, StaleOnce
    <3>3. \A i \in 1..Len(shown) : Stale(i)' = Stale(i)
      BY <1>0 DEF Stale, Seen
    <3> QED BY <1>0, <3>1, <3>2, <3>3 DEF StreamInv, StaleOnce
  <2> QED BY <2>3, <2>4, <2>5 DEF StreamInv
<1> QED BY <1>1, <1>2

LEMMA StreamSent ==
    ASSUME TypeInv, StreamInv, SendMessage(run), UNCHANGED feedVars
    PROVE  StreamInv'
<1>0. /\ UNCHANGED <<run, control, offered, batch, number_of_events, online_queue>>
      /\ message' = Empty /\ online_loop' = "send" /\ IsSeq(shown) /\ run \in Nat
  BY FeedNumbers DEF TypeInv, FeedTypes, SendMessage, feedVars
<1>1. CASE message = Empty
  <2>1. shown' = shown
    BY <1>1 DEF SendMessage
  <2> QED BY <1>0, <2>1 DEF StreamInv, PushedOnly, ShownInOrder, StaleOnce, Pushed, Seen, Stale
<1>2. CASE message # Empty
  <2> DEFINE new == [message |-> message, run |-> run]
  <2>n. PICK n \in Nat : n = Len(shown)
    BY <1>0 DEF IsSeq
  <2>1. /\ shown' = Append(shown, new)
        /\ DOMAIN shown' = 1..n + 1
        /\ \A i \in 1..n : shown'[i] = shown[i]
        /\ shown'[n + 1] = new
    BY <1>0, <1>2, <2>n, AppendSeq DEF SendMessage
  <2>2. Len(shown') = n + 1
    BY <1>0, <2>1, <2>n DEF IsSeq
  <2>3. /\ Seen(n + 1)' = message.event /\ Stale(n + 1)' = (message.event[1] # run)
        /\ \A i \in 1..n : Seen(i)' = Seen(i) /\ Stale(i)' = Stale(i)
    BY <2>1 DEF Seen, Stale
  <2>4. \A i \in 1..n + 1 : i \in 1..n \/ i = n + 1
    BY <2>1
  <2>5. Pushed(message.event)
    BY <1>2 DEF StreamInv, PushedOnly
  <2>6. \A i \in 1..n : Pushed(Seen(i))
    BY <2>n DEF StreamInv, PushedOnly
  <2>7. PushedOnly'
    <3>1. \A i \in 1..Len(shown') : Pushed(Seen(i))'
      BY <1>0, <2>2, <2>3, <2>4, <2>5, <2>6 DEF Pushed
    <3> QED BY <1>0, <3>1 DEF StreamInv, PushedOnly, Pushed
  <2>8. ShownInOrder'
    <3>1. \A k \in 1..Len(online_queue), i \in 1..Len(shown') :
              Later(online_queue[k], Seen(i)')
      BY <1>2, <2>n, <2>2, <2>3, <2>4 DEF StreamInv, ShownInOrder
    <3> QED BY <1>0, <3>1 DEF StreamInv, ShownInOrder
  <2>9. StaleOnce'
    <3>1. \A i \in 1..n + 1 : shown'[i].run \in 0..run
      BY <1>0, <2>n, <2>1, <2>4 DEF StreamInv, StaleOnce
    <3> DEFINE Late(i) == IF i = n + 1 THEN message.event[1] # run ELSE Stale(i)
    <3>2. \A i \in 1..n + 1 : Stale(i)' = Late(i)
      BY <2>n, <2>3, <2>4
    <3>3. ASSUME NEW i \in 1..n + 1, NEW j \in 1..n + 1, Late(i), Late(j),
                 shown'[i].run = shown'[j].run
          PROVE  i = j
      <4>1. CASE i \in 1..n /\ j \in 1..n
        BY <2>n, <2>1, <3>3, <4>1 DEF StreamInv, StaleOnce
      <4>2. ASSUME NEW k \in 1..n, Late(k), Late(n + 1), shown'[k].run = shown'[n + 1].run
            PROVE  FALSE
        <5>1. Stale(k) /\ message.event[1] # run /\ shown[k].run = run
          BY <2>n, <2>1, <4>2
        <5> QED BY <1>2, <2>n, <5>1 DEF StreamInv, StaleOnce
      <4> QED BY <2>4, <3>3, <4>1, <4>2
    <3> HIDE DEF Late
    <3> QED BY <1>0, <2>2, <3>1, <3>2, <3>3 DEF StreamInv, StaleOnce
  <2> QED BY <2>7, <2>8, <2>9 DEF StreamInv
<1> QED BY <1>1, <1>2

LEMMA StreamStep ==
    ASSUME TypeInv, FeedInOrder, NumberFollows, StreamInv, [Next]_vars
    PROVE  StreamInv'
<1>0. /\ run \in Nat /\ events \in Nat /\ offered \subseteq Nat \X Nat
  BY FeedNumbers DEF StreamInv, PushedOnly
<1>1. CASE StartWriters
  <2>1. Feeding
    BY <1>0, <1>1 DEF StartWriters, StartOnline, NumberFollows, Feeding, Sending
  <2>2. UNCHANGED <<message, message_ready, shown, online_loop>>
    BY <1>1 DEF StartWriters, StartOnline
  <2> QED BY <2>1, <2>2, StreamFed DEF StreamInv, ShownInOrder
<1>2. CASE CopyBatch
  <2>1. PICK n \in 0..BatchSize :
            /\ batch' = [i \in 1..n |-> Event(run, events + i)]
            /\ offered' = offered \cup {Event(run, events + i) : i \in 1..n}
    BY <1>2 DEF CopyBatch
  <2>2. /\ n \in Nat /\ Len(batch') = n /\ \A i \in 1..n : batch'[i] \in offered'
        /\ offered' \subseteq Nat \X Nat
    BY <1>0, <2>1, BatchAssumption DEF Event
  <2>3. Feeding
    BY <1>2, <2>1, <2>2 DEF CopyBatch, onlineVars, Feeding, StreamInv, StaleOnce
  <2>4. UNCHANGED <<message, message_ready, shown, online_loop>>
    BY <1>2 DEF CopyBatch, onlineVars
  <2> QED BY <2>3, <2>4, StreamFed DEF StreamInv, ShownInOrder
<1>3. CASE \/ SendToRoot \/ SendToMidas \/ StopWriters
           \/ Step("online_end", "midas") /\ FlushData
  <2>1. /\ UNCHANGED <<message, message_ready, shown, online_loop, run, number_of_events,
                       offered, batch>>
        /\ control # "idle" /\ online_queue' \in {online_queue, <<>>}
        /\ control' \in Sending => control \in Sending
    BY <1>3 DEF SendToRoot, SendToMidas, StopWriters, StopOnline, Step, FlushData,
       onlineVars, Sending
  <2>2. Feeding
    BY <1>0, <2>1 DEF Feeding, StreamInv, PushedOnly, StaleOnce
  <2> QED BY <2>1, <2>2, StreamFed DEF StreamInv, ShownInOrder
<1>4. CASE SendToOnline
  BY <1>3, <1>4, StreamPushed DEF SendToOnline, Step
<1>5. CASE OnlineThread
  <2>1. CASE HasWork \/ Sent
    <3>1. /\ UNCHANGED <<message, message_ready, shown, online_queue, number_of_events,
                         run, control, offered, batch>>
          /\ online_loop' = "pack" => ~message_ready
      BY <1>5, <2>1 DEF OnlineThread, feedVars, HasWork, Sent
    <3>2. Feeding
      BY <1>0, <3>1 DEF Feeding, StreamInv, PushedOnly, StaleOnce
    <3> QED BY <3>1, <3>2, StreamFed
  <2> QED BY <1>5, <2>1, StreamPacked, StreamSent DEF OnlineThread
<1>6. CASE MidasThread \/ MidasFrontend \/ UNCHANGED vars
  <2>1. UNCHANGED <<message, message_ready, shown, online_loop, online_queue,
                    number_of_events, run, control, offered, batch>>
    BY <1>6 DEF MidasThread, MidasFrontend, vars, feedVars, onlineVars
  <2>2. Feeding
    BY <1>0, <2>1 DEF Feeding, StreamInv, PushedOnly, StaleOnce
  <2> QED BY <2>1, <2>2, StreamFed DEF StreamInv, ShownInOrder
<1> QED BY <1>1, <1>2, <1>3, <1>4, <1>5, <1>6 DEF Next, Builder

-----------------------------------------------------------------------------
(* The ROOT file: the tree's entries are the events that were pushed.      *)

TreeFollows ==
    /\ IsSeq(file) /\ IsSeq(baskets)
    /\ \A i \in 1..Len(file) : file[i].event = Event(run, i)
    /\ \A i \in 1..Len(baskets) : baskets[i].event = Event(run, Len(file) + i)
    /\ Len(file) + Len(baskets) = IF control = "root" THEN events - Len(batch) ELSE events
    /\ control \in {"online", "online_end", "midas"} /\ last => baskets = <<>>
    /\ control \in {"finished", "idle"} => baskets = <<>>

(* Two sequences, one after the other.                                     *)
LEMMA ConcatSeq ==
    ASSUME NEW s, NEW t, IsSeq(s), IsSeq(t)
    PROVE  /\ IsSeq(s \o t) /\ Len(s) \in Nat /\ Len(t) \in Nat
           /\ Len(s \o t) = Len(s) + Len(t) /\ DOMAIN (s \o t) = 1..Len(s) + Len(t)
           /\ \A i \in 1..Len(s) + Len(t) :
                 (s \o t)[i] = IF i <= Len(s) THEN s[i] ELSE t[i - Len(s)]
<1>1. PICK S : s \in Seq(S)
  BY DEF IsSeq
<1>2. PICK T : t \in Seq(T)
  BY DEF IsSeq
<1>3. s \in Seq(S \cup T) /\ t \in Seq(S \cup T)
  BY <1>1, <1>2
<1>4. s \o t \in Seq(S \cup T)
  BY <1>3
<1> QED BY <1>3, <1>4 DEF IsSeq

(* Entries that follow on others: the places of both.                      *)
LEMMA EntriesFollow ==
    ASSUME NEW s, NEW t, NEW r, NEW a \in Nat, IsSeq(s), IsSeq(t),
           \A i \in 1..Len(s) : s[i].event = Event(r, a + i),
           \A i \in 1..Len(t) : t[i].event = Event(r, a + Len(s) + i)
    PROVE  \A i \in 1..Len(s \o t) : (s \o t)[i].event = Event(r, a + i)
<1> SUFFICES ASSUME NEW i \in 1..Len(s \o t) PROVE (s \o t)[i].event = Event(r, a + i)
  OBVIOUS
<1>1. /\ i \in 1..Len(s) + Len(t) /\ Len(s) \in Nat /\ Len(t) \in Nat
      /\ (s \o t)[i] = IF i <= Len(s) THEN s[i] ELSE t[i - Len(s)]
  BY ConcatSeq
<1>2. CASE i <= Len(s)
  BY <1>1, <1>2
<1>3. CASE i > Len(s)
  <2>1. i - Len(s) \in 1..Len(t) /\ a + Len(s) + (i - Len(s)) = a + i
    BY <1>1, <1>3
  <2>2. t[i - Len(s)].event = Event(r, a + Len(s) + (i - Len(s)))
    BY <2>1
  <2> QED BY <1>1, <1>3, <2>1, <2>2
<1> QED BY <1>1, <1>2, <1>3

LEMMA TreeInit == Init => TreeFollows
<1> SUFFICES ASSUME Init PROVE TreeFollows
  OBVIOUS
<1>1. file = <<>> /\ baskets = <<>> /\ control = "idle" /\ events = 0
  BY DEF Init, RootInit
<1>2. IsSeq(<<>>) /\ Len(<<>>) = 0
  BY DEF IsSeq
<1> QED BY <1>1, <1>2 DEF TreeFollows

(* A batch's events are added to the baskets.                              *)
LEMMA TreeGrows ==
    ASSUME TypeInv, FeedInOrder, TreeFollows, control = "root",
           Step("root", IF last THEN "root_end" ELSE "online"), PushRoot(batch)
    PROVE  TreeFollows'
<1> DEFINE filled == [i \in DOMAIN batch |-> Fill(batch[i])]
<1>0. /\ run \in Nat /\ events \in Nat /\ Len(batch) \in Nat /\ batch \in Seq(Nat \X Nat)
      /\ IsSeq(file) /\ IsSeq(baskets) /\ last \in BOOLEAN
  BY FeedNumbers DEF TypeInv, TypeOK, FeedTypes, TreeFollows
<1>1. /\ UNCHANGED <<run, events, batch, last, file>> /\ baskets' = baskets \o filled
      /\ control' = IF last THEN "root_end" ELSE "online"
  BY DEF Step, PushRoot
<1>2. IsSeq(filled) /\ Len(filled) = Len(batch)
  <2>1. DOMAIN batch = 1..Len(batch)
    BY <1>0
  <2>2. filled \in Seq({Fill(batch[i]) : i \in DOMAIN batch}) /\ Len(filled) = Len(batch)
    BY <1>0, <2>1
  <2> QED BY <2>2 DEF IsSeq
<1>3. \A i \in 1..Len(filled) : filled[i].event = Event(run, Len(file) + Len(baskets) + i)
  <2>1. Len(file) + Len(baskets) = events - Len(batch)
    BY DEF TreeFollows
  <2>2. \A i \in 1..Len(batch) : filled[i].event = batch[i]
    BY <1>0 DEF Fill
  <2> QED BY <1>2, <2>1, <2>2 DEF FeedInOrder, Sending
<1> HIDE DEF filled
<1>4. /\ IsSeq(baskets') /\ Len(file) \in Nat /\ Len(baskets) \in Nat
      /\ Len(baskets') = Len(baskets) + Len(batch)
  BY <1>0, <1>1, <1>2, ConcatSeq
<1>5. \A i \in 1..Len(baskets') : baskets'[i].event = Event(run, Len(file) + i)
  <2>1. \A i \in 1..Len(baskets) : baskets[i].event = Event(run, Len(file) + i)
    BY DEF TreeFollows
  <2> QED BY <1>0, <1>1, <1>2, <1>3, <1>4, <2>1, EntriesFollow
<1>6. Len(file') + Len(baskets') = events'
  BY <1>0, <1>1, <1>4 DEF TreeFollows
<1> QED BY <1>0, <1>1, <1>4, <1>5, <1>6 DEF TreeFollows

(* The baskets are written to the file.                                    *)
LEMMA TreeFlushed ==
    ASSUME TypeInv, TreeFollows, control \in {"root_end", "finished"},
           control' \notin {"root"}, UNCHANGED <<run, events>>,
           file' = file \o baskets, baskets' = <<>>
    PROVE  TreeFollows'
<1>1. /\ IsSeq(file) /\ IsSeq(baskets) /\ Len(file) \in Nat /\ Len(baskets) \in Nat
      /\ IsSeq(file') /\ Len(file') = Len(file) + Len(baskets)
  BY ConcatSeq DEF TreeFollows
<1>2. \A i \in 1..Len(file') : file'[i].event = Event(run, i)
  <2>1. \A i \in 1..Len(file) : file[i].event = Event(run, 0 + i)
    BY <1>1 DEF TreeFollows
  <2>2. \A i \in 1..Len(baskets) : baskets[i].event = Event(run, 0 + Len(file) + i)
    BY <1>1 DEF TreeFollows
  <2>3. \A i \in 1..Len(file') : file'[i].event = Event(run, 0 + i)
    BY <1>1, <2>1, <2>2, EntriesFollow
  <2> QED BY <1>1, <2>3
<1>3. IsSeq(baskets') /\ Len(baskets') = 0
  BY DEF IsSeq
<1>4. Len(file) + Len(baskets) = events
  BY DEF TreeFollows
<1> QED BY <1>1, <1>2, <1>3, <1>4 DEF TreeFollows

LEMMA TreeStep ==
    ASSUME TypeInv, FeedInOrder, TreeFollows, [Next]_vars
    PROVE  TreeFollows'
<1>0. /\ run \in Nat /\ events \in Nat /\ Len(batch) \in Nat /\ last \in BOOLEAN
  BY FeedNumbers DEF TypeInv, TypeOK
<1>1. CASE StartWriters
  <2>1. /\ file' = <<>> /\ baskets' = <<>> /\ events' = 0 /\ control' = "batch"
    BY <1>1 DEF StartWriters, StartRoot
  <2>2. IsSeq(<<>>) /\ Len(<<>>) = 0
    BY DEF IsSeq
  <2> QED BY <2>1, <2>2 DEF TreeFollows
<1>2. CASE CopyBatch
  <2>1. PICK n \in 0..BatchSize :
            /\ batch' = [i \in 1..n |-> Event(run, events + i)] /\ events' = events + n
    BY <1>2 DEF CopyBatch
  <2>2. Len(batch') = n /\ events' - Len(batch') = events
    BY <1>0, <2>1, BatchAssumption
  <2>3. /\ control = "batch" /\ control' = "root" /\ UNCHANGED <<run, file, baskets>>
    BY <1>2 DEF CopyBatch, rootVars
  <2> QED BY <2>2, <2>3 DEF TreeFollows
<1>3. CASE SendToRoot
  <2>1. CASE Step("root_end", "online") /\ EndRootBatch(FALSE)
    BY <2>1, TreeFlushed DEF Step, EndRootBatch
  <2> QED BY <1>3, <2>1, TreeGrows DEF SendToRoot, Step
<1>4. CASE StopWriters
  BY <1>4, TreeFlushed DEF StopWriters, StopRoot
<1>5. CASE SendToOnline \/ SendToMidas
  <2>1. UNCHANGED <<run, events, last, file, baskets>>
    BY <1>5 DEF SendToOnline, SendToMidas, Step, rootVars
  <2>2. /\ control \in {"online", "online_end", "midas"} /\ control' # "root"
        /\ \/ control' \in {"online_end", "midas", "batch"}
           \/ control' = "finished" /\ last
    BY <1>0, <1>5 DEF SendToOnline, SendToMidas, Step
  <2>3. Len(file') + Len(baskets') = events'
    BY <2>1, <2>2 DEF TreeFollows
  <2>4. /\ control' \in {"online", "online_end", "midas"} /\ last' => baskets' = <<>>
        /\ control' \in {"finished", "idle"} => baskets' = <<>>
    <3>1. last => baskets = <<>>
      BY <2>2 DEF TreeFollows
    <3> QED BY <2>1, <2>2, <3>1, Zenon
  <2>5. /\ IsSeq(file') /\ IsSeq(baskets')
        /\ \A i \in 1..Len(file') : file'[i].event = Event(run', i)
        /\ \A i \in 1..Len(baskets') : baskets'[i].event = Event(run', Len(file') + i)
    BY <2>1 DEF TreeFollows
  <2> QED BY <2>2, <2>3, <2>4, <2>5 DEF TreeFollows
<1>6. CASE OnlineThread \/ MidasThread \/ MidasFrontend \/ UNCHANGED vars
  <2>1. UNCHANGED <<run, events, last, batch, control, file, baskets>>
    BY <1>6 DEF OnlineThread, MidasThread, MidasFrontend, vars, feedVars, rootVars
  <2> QED BY <2>1 DEF TreeFollows
<1> QED BY <1>1, <1>2, <1>3, <1>4, <1>5, <1>6 DEF Next, Builder

-----------------------------------------------------------------------------
(* What every state satisfies.                                             *)
LEMMA WritersInvariant == Spec => [](IInv /\ StreamInv /\ TreeFollows)
<1>1. Init => IInv /\ StreamInv /\ TreeFollows
  BY WritersInit, StreamInit, TreeInit
<1>2. IInv /\ StreamInv /\ TreeFollows /\ [Next]_vars => (IInv /\ StreamInv /\ TreeFollows)'
  BY TypesStep, FeedStep, FreshStep, NumberStep, StreamStep, TreeStep DEF IInv
<1> QED  BY <1>1, <1>2, PTL DEF Spec

-----------------------------------------------------------------------------
(* Every variable has its type: WriterOnline never queues more than        *)
(* kMaxQueueSize events (writer_online.cxx, PushData), for every bound,    *)
(* batch size and configuration.                                           *)
THEOREM WritersTypeCorrect == Spec => []TypeOK
<1>1. IInv => TypeOK
  BY DEF IInv, TypeInv
<1> QED  BY <1>1, WritersInvariant, PTL

(* The MIDAS frontend is sent the newest event the builder has handed over *)
(* and one that came after its request was answered (writer_midas.cxx,     *)
(* PushData, SendMessageLoop), however the two threads take turns, unless  *)
(* the last batch handed over was empty: then, and then only, what it is   *)
(* sent may be the front of an empty queue.                                *)
THEOREM MidasAnswersFresh == Spec => []FreshAnswer
<1>1. IInv => FreshAnswer
  BY DEF IInv
<1> QED  BY <1>1, WritersInvariant, PTL

(* The event number the monitor reads with an event (writer_online.cxx,    *)
(* PackMessage: number_of_events_) is never less than the event's place in *)
(* its run, though runs follow each other and the queue is cut and flushed. *)
THEOREM MonitorNumberCovers == Spec => []NumberCovers
<1>1. IInv => NumberCovers
  BY DEF IInv
<1> QED  BY <1>1, WritersInvariant, PTL

(* Of an earlier run's events the monitor is sent one at most in a run,    *)
(* the message that was packed when StopWriter came (writer_online.cxx,    *)
(* StopWriter, SendMessageLoop): the queue is flushed with the last batch. *)
THEOREM MonitorSeesOneStale == Spec => []FewStale
<1>1. TypeInv /\ StreamInv => FewStale
  <2> SUFFICES ASSUME TypeInv, StreamInv, NEW r \in 1..run
               PROVE  Cardinality({i \in DOMAIN shown :
                         /\ shown[i].run = r
                         /\ shown[i].message.event[1] # r}) <= 1
    BY DEF FewStale
  <2> DEFINE S == {i \in DOMAIN shown : shown[i].run = r /\ shown[i].message.event[1] # r}
  <2>1. DOMAIN shown = 1..Len(shown)
    BY DEF TypeInv, FeedTypes, IsSeq
  <2>2. \A i, j \in S : i = j
    BY <2>1 DEF StreamInv, StaleOnce, Stale, Seen
  <2>3. CASE S = {}
    BY <2>3, FS_EmptySet
  <2>4. CASE S # {}
    <3>1. PICK i \in S : S = {i}
      BY <2>2, <2>4
    <3>2. Cardinality(S) = 1
      BY <3>1, FS_Singleton
    <3> QED BY <3>2
  <2> QED BY <2>3, <2>4
<1> QED BY <1>1, WritersInvariant, PTL DEF IInv

(* The tree has the events of the run in order and without a gap, and the  *)
(* file has them all when the run is over (writer_root.cxx, PushData,      *)
(* EndOfBatch, StopWriter), in batches of any size.                        *)
THEOREM FileHasTheRun == Spec => []FileComplete
<1>1. TypeInv /\ TreeFollows => FileComplete
  <2> SUFFICES ASSUME TypeInv, TreeFollows PROVE FileComplete
    OBVIOUS
  <2>1. /\ IsSeq(file) /\ IsSeq(baskets) /\ Len(file) \in Nat
        /\ \A i \in 1..Len(file) : file[i].event = Event(run, 0 + i)
        /\ \A i \in 1..Len(baskets) : baskets[i].event = Event(run, 0 + Len(file) + i)
    BY ConcatSeq DEF TreeFollows
  <2>2. \A i \in 1..Len(file \o baskets) : (file \o baskets)[i].event = Event(run, 0 + i)
    BY <2>1, EntriesFollow
  <2>3. DOMAIN (file \o baskets) = 1..Len(file \o baskets)
    BY <2>1, ConcatSeq
  <2>4. \A i \in DOMAIN Entries : Entries[i].event = Event(run, i)
    BY <2>2, <2>3 DEF Entries
  <2>5. control \in {"idle", "finished"} => Len(file) = events
    BY <2>1 DEF TreeFollows
  <2> QED BY <2>4, <2>5 DEF FileComplete
<1> QED BY <1>1, WritersInvariant, PTL DEF IInv

-----------------------------------------------------------------------------
(* The abstract stream: a step is an offer, a showing or a stutter.        *)
Shown == [i \in DOMAIN shown |-> shown[i].message.event]

LEMMA StreamStepShows ==
    ASSUME TypeInv, StreamInv, [Next]_vars
    PROVE  Monitor!Next \/ UNCHANGED <<offered, Shown>>
<1>1. CASE CopyBatch
  <2>1. PICK n \in 0..BatchSize :
            /\ events + n <= MaxEvents
            /\ offered' = offered \cup {Event(run, events + i) : i \in 1..n}
    BY <1>1 DEF CopyBatch
  <2>2. run \in 1..Runs
    BY <1>1, WritersAssumption DEF CopyBatch, TypeInv, TypeOK, StreamInv, StaleOnce
  <2>3. \A i \in 1..n : events + i \in 1..MaxEvents
    BY <2>1, FeedNumbers, WritersAssumption, BatchAssumption
  <2>4. {Event(run, events + i) : i \in 1..n} \in SUBSET ((1..Runs) \X (1..MaxEvents))
    BY <2>2, <2>3 DEF Event
  <2>5. shown' = shown
    BY <1>1 DEF CopyBatch, onlineVars
  <2> QED BY <2>1, <2>4, <2>5 DEF Monitor!Next, Monitor!Offer
<1>2. CASE SendMessage(run) /\ UNCHANGED feedVars
  <2>1. CASE message = Empty
    BY <1>2, <2>1 DEF SendMessage, feedVars, Shown
  <2>2. CASE message # Empty
    <3> DEFINE new == [message |-> message, run |-> run]
    <3>1. IsSeq(shown) /\ shown' = Append(shown, new) /\ offered' = offered
      BY <1>2, <2>2 DEF TypeInv, FeedTypes, SendMessage, feedVars
    <3>2. PICK n \in Nat : n = Len(shown)
      BY <3>1 DEF IsSeq
    <3>3. /\ DOMAIN shown = 1..n /\ DOMAIN shown' = 1..n + 1
          /\ \A i \in 1..n : shown'[i] = shown[i]
          /\ shown'[n + 1] = new
      BY <3>1, <3>2, AppendSeq
    <3>4. Shown' = Append(Shown, message.event)
      <4>1. Shown = [i \in 1..n |-> shown[i].message.event]
        BY <3>3 DEF Shown
      <4>2. Shown' = [i \in 1..n + 1 |-> shown'[i].message.event]
        BY <3>3 DEF Shown
      <4>3. \A i \in 1..n + 1 :
                shown'[i].message.event = IF i = n + 1 THEN message.event
                                          ELSE shown[i].message.event
        BY <3>3
      <4>4. Shown \in Seq({shown[i].message.event : i \in 1..n}) /\ Len(Shown) = n
        BY <4>1
      <4> QED BY <4>1, <4>2, <4>3, <4>4
    <3>5. message.event \in offered
      BY <2>2 DEF StreamInv, PushedOnly, Pushed
    <3>6. \A i \in DOMAIN Shown : Later(message.event, Shown[i])
      BY <2>2, <3>2, <3>3 DEF StreamInv, ShownInOrder, Shown, Seen
    <3> QED BY <3>1, <3>4, <3>5, <3>6 DEF Monitor!Next, Monitor!Show, Shown
  <2> QED BY <2>1, <2>2
<1>3. CASE \/ StartWriters \/ SendToRoot \/ SendToOnline \/ SendToMidas \/ StopWriters
           \/ (HasWork \/ PackMessage \/ Sent) /\ UNCHANGED feedVars
           \/ MidasThread \/ MidasFrontend \/ UNCHANGED vars
  <2>1. UNCHANGED <<offered, shown>>
    BY <1>3 DEF StartWriters, StartOnline, SendToRoot, SendToOnline, PushOnline, FlushData,
       SendToMidas, StopWriters, StopOnline, Step, HasWork, PackMessage, Sent, MidasThread,
       MidasFrontend, vars, feedVars, onlineVars
  <2> QED BY <2>1 DEF Shown
<1> QED BY <1>1, <1>2, <1>3 DEF Next, Builder, OnlineThread

(* What the online monitor is shown is a stream of the run's events, in    *)
(* order and none twice (writer_online.cxx: PushData, PackMessage,         *)
(* SendMessageLoop), though the queue is cut and flushed under the thread, *)
(* for every queue bound, batch size and number of runs.                   *)
THEOREM MonitorShowsStream == Spec => ShowsStream
<1>1. Init => Monitor!Init
  BY DEF Init, OnlineInit, Monitor!Init
<1>2. TypeInv /\ StreamInv /\ [Next]_vars => [Monitor!Next]_<<offered, Shown>>
  BY StreamStepShows
<1> QED BY <1>1, <1>2, WritersInvariant, PTL DEF Spec, IInv, ShowsStream, Monitor!Spec, Shown
=============================================================================
