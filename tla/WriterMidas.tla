----------------------------- MODULE WriterMidas -----------------------------
(***************************************************************************)
(* WriterMidas: the MIDAS frontend asks for an event; the writer's thread  *)
(* answers the request, raises get_next_event_ and waits for the builder's *)
(* thread to leave an event, which it sends device by device.              *)
(***************************************************************************)
EXTENDS EventData

VARIABLES
    midas_go,           \* go_time_
    midas_has_data,     \* queue_has_data_
    get_next_event,     \* get_next_event_
    midas_queue,        \* data_queue_
    midas_loop,         \* where SendMessageLoop is
    request,            \* a request is in the reply socket
    asked,              \* history: the newest event when it was answered
    served              \* the last event sent, and what it answers

midasVars == <<midas_go, midas_has_data, get_next_event, midas_queue, midas_loop,
               request, asked, served>>

Nothing == [event |-> Event(0, 0), asked |-> Event(0, 0), newest |-> Event(0, 0),
            emptied |-> FALSE]

(* What is copied from the front of an empty queue: no event of any run.   *)
Garbage == Event(0, 0)

MidasInit ==
    /\ midas_go = FALSE /\ midas_has_data = FALSE /\ get_next_event = FALSE
    /\ midas_queue = <<>> /\ midas_loop = "outer"
    /\ request = FALSE /\ asked = Event(0, 0) /\ served = Nothing

-----------------------------------------------------------------------------
StartMidas ==
    /\ midas_go' = TRUE
    /\ UNCHANGED <<midas_has_data, get_next_event, midas_queue, midas_loop, request,
                   asked, served>>

StopMidas ==
    /\ midas_go' = FALSE
    /\ UNCHANGED <<midas_has_data, get_next_event, midas_queue, midas_loop, request,
                   asked, served>>

(* Mutant: what was queued stays in front.                                 *)
PushMidasNoClear(batch) ==
    /\ IF batch # <<>> /\ get_next_event
       THEN /\ midas_queue' = Append(midas_queue, batch[Len(batch)])
            /\ midas_has_data' = TRUE
       ELSE UNCHANGED <<midas_queue, midas_has_data>>
    /\ UNCHANGED <<midas_go, get_next_event, midas_loop, request, asked, served>>

(* "Grab only the most recent event", if one is wanted.                    *)
PushMidas(batch) ==
    /\ IF batch # <<>> /\ get_next_event
       THEN midas_queue' = <<batch[Len(batch)]>> /\ midas_has_data' = TRUE
       ELSE midas_queue' = <<>> /\ UNCHANGED midas_has_data
    /\ UNCHANGED <<midas_go, get_next_event, midas_loop, request, asked, served>>

-----------------------------------------------------------------------------
(* The MIDAS frontend, which is not in the repository, asks again when it  *)
(* has its answer.                                                         *)
Ask ==
    /\ ~request /\ midas_loop \in {"outer", "receive"}
    /\ request' = TRUE
    /\ UNCHANGED <<midas_go, midas_has_data, get_next_event, midas_queue, midas_loop,
                   asked, served>>

(* SendMessageLoop: while go_time_, a request is waited for (whatever      *)
(* becomes of go_time_ meanwhile) ...                                      *)
Serve ==
    /\ midas_loop = "outer" /\ midas_go
    /\ midas_loop' = "receive"
    /\ UNCHANGED <<midas_go, midas_has_data, get_next_event, midas_queue, request,
                   asked, served>>

(* ... answered ...                                                        *)
AnswerRequest(newest) ==
    /\ midas_loop = "receive" /\ request
    /\ request' = FALSE
    /\ get_next_event' = TRUE
    /\ asked' = newest
    /\ midas_loop' = "wait"
    /\ UNCHANGED <<midas_go, midas_has_data, midas_queue, served>>

(* ... and an event is waited for ...                                      *)
FindEvent ==
    /\ midas_loop = "wait" /\ midas_has_data
    /\ midas_loop' = "copy"
    /\ UNCHANGED <<midas_go, midas_has_data, get_next_event, midas_queue, request,
                   asked, served>>

(* ... and sent.  Nothing says that there still is one: PushData empties   *)
(* the queue and leaves queue_has_data_ up.  What the front of an empty    *)
(* queue happens to be is sent like an event; as it is popped too, what    *)
(* the thread does with the queue from then on is undefined.               *)
SendDataMessage(newest, emptied) ==
    /\ midas_loop = "copy"
    /\ served' = [event |-> IF midas_queue = <<>> THEN Garbage ELSE Head(midas_queue),
                  asked |-> asked, newest |-> newest, emptied |-> emptied]
    /\ get_next_event' = FALSE
    /\ IF midas_queue = <<>>
       THEN midas_loop' = "undefined" /\ UNCHANGED <<midas_has_data, midas_queue>>
       ELSE /\ midas_queue' = Tail(midas_queue)
            /\ midas_has_data' = (midas_has_data /\ Len(midas_queue) # 1)
            /\ midas_loop' = "outer"
    /\ UNCHANGED <<midas_go, request, asked>>

MidasTypeOK ==
    /\ midas_go \in BOOLEAN /\ midas_has_data \in BOOLEAN /\ get_next_event \in BOOLEAN
    /\ midas_queue \in Seq(Nat \X Nat)
    /\ midas_loop \in {"outer", "receive", "wait", "copy", "undefined"}
    /\ request \in BOOLEAN /\ asked \in Nat \X Nat
=============================================================================
