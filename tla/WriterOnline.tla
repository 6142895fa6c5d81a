----------------------------- MODULE WriterOnline -----------------------------
(***************************************************************************)
(* WriterOnline: the builder's thread queues a few of the events; a thread *)
(* of the writer packs one at a time as a text message and sends it to the *)
(* online monitor.  The queue, guarded by writer_mutex_, and three atomic  *)
(* flags are all the two share.                                            *)
(***************************************************************************)
EXTENDS EventData

CONSTANT KMaxQueueSize      \* kMaxQueueSize

ASSUME OnlineAssumption == KMaxQueueSize \in Nat

VARIABLES
    online_go,          \* go_time_
    online_has_data,    \* queue_has_data_
    message_ready,      \* message_ready_
    online_queue,       \* data_queue_
    message,            \* message_
    number_of_events,   \* number_of_events_
    online_loop,        \* where SendMessageLoop is
    shown               \* what the monitor was sent

onlineVars == <<online_go, online_has_data, message_ready, online_queue, message,
                number_of_events, online_loop, shown>>

Empty == [event |-> Event(0, 0), number |-> 0]

(* message_ready_ is not initialised by the constructor.                   *)
OnlineInit ==
    /\ online_go = FALSE /\ online_has_data = FALSE /\ message_ready \in BOOLEAN
    /\ online_queue = <<>> /\ message = Empty /\ number_of_events = 0
    /\ online_loop = "outer" /\ shown = <<>>

-----------------------------------------------------------------------------
(* Called by the master frontend and by the builder's thread.              *)

StartOnline ==
    /\ online_go' = TRUE /\ number_of_events' = 0
    /\ UNCHANGED <<online_has_data, message_ready, online_queue, message,
                   online_loop, shown>>

StopOnline ==
    /\ online_go' = FALSE
    /\ UNCHANGED <<online_has_data, message_ready, online_queue, message,
                   number_of_events, online_loop, shown>>

(* Mutant: the queue takes one event too many.                             *)
CutOneMore(queue) == SubSeq(queue, 1, Min({Len(queue), KMaxQueueSize + 1}))

Cut(queue) == SubSeq(queue, 1, Min({Len(queue), KMaxQueueSize}))

(* Mutant: queue_has_data_ is not raised.                                  *)
PushOnlineNoFlag(batch) ==
    /\ number_of_events' = number_of_events + Len(batch)
    /\ online_queue' = Cut(online_queue \o batch)
    /\ UNCHANGED <<online_go, online_has_data, message_ready, message, online_loop, shown>>

(* Mutant: number_of_events_ counts batches.                               *)
PushOnlineCountBatches(batch) ==
    /\ number_of_events' = number_of_events + 1
    /\ online_queue' = Cut(online_queue \o batch)
    /\ online_has_data' = TRUE
    /\ UNCHANGED <<online_go, message_ready, message, online_loop, shown>>

(* The queue takes what it has room for.                                   *)
PushOnline(batch) ==
    /\ number_of_events' = number_of_events + Len(batch)
    /\ online_queue' = Cut(online_queue \o batch)
    /\ online_has_data' = TRUE
    /\ UNCHANGED <<online_go, message_ready, message, online_loop, shown>>

(* Mutant: the batch's end leaves the queue as it is.                      *)
FlushNothing ==
    /\ online_has_data' = FALSE
    /\ UNCHANGED <<online_go, message_ready, online_queue, message,
                   number_of_events, online_loop, shown>>

FlushData ==
    /\ online_queue' = <<>> /\ online_has_data' = FALSE
    /\ UNCHANGED <<online_go, message_ready, message, number_of_events,
                   online_loop, shown>>

-----------------------------------------------------------------------------
(* SendMessageLoop.                                                        *)

HasWork ==
    /\ online_loop = "outer" /\ online_go /\ online_has_data
    /\ online_loop' = IF message_ready THEN "send" ELSE "pack"
    /\ UNCHANGED <<online_go, online_has_data, message_ready, online_queue, message,
                   number_of_events, shown>>

(* Mutant: the packed event stays in the queue.                            *)
PackNoPop ==
    /\ online_loop = "pack"
    /\ IF online_queue = <<>>
       THEN UNCHANGED <<online_has_data, message_ready, online_queue, message>>
       ELSE /\ message' = [event |-> Head(online_queue), number |-> number_of_events]
            /\ UNCHANGED online_queue
            /\ online_has_data' = (online_has_data /\ Len(online_queue) # 1)
            /\ message_ready' = TRUE
    /\ online_loop' = "send"
    /\ UNCHANGED <<online_go, number_of_events, shown>>

(* The front of the queue becomes a text, with the number of the event and *)
(* the data of every device under its name.                                *)
PackMessage ==
    /\ online_loop = "pack"
    /\ IF online_queue = <<>>
       THEN UNCHANGED <<online_has_data, message_ready, online_queue, message>>
       ELSE /\ message' = [event |-> Head(online_queue), number |-> number_of_events]
            /\ online_queue' = Tail(online_queue)
            /\ online_has_data' = (online_has_data /\ Len(online_queue) # 1)
            /\ message_ready' = TRUE
    /\ online_loop' = "send"
    /\ UNCHANGED <<online_go, number_of_events, shown>>

(* The socket takes the message, and leaves an empty one, or does not.     *)
SendMessage(run) ==
    /\ online_loop = "send" /\ message_ready /\ online_go
    /\ shown' = IF message = Empty THEN shown
                ELSE Append(shown, [message |-> message, run |-> run])
    /\ message' = Empty /\ message_ready' = FALSE
    /\ UNCHANGED <<online_go, online_has_data, online_queue, number_of_events,
                   online_loop>>

Sent ==
    /\ online_loop = "send" /\ ~(message_ready /\ online_go)
    /\ online_loop' = "outer"
    /\ UNCHANGED <<online_go, online_has_data, message_ready, online_queue, message,
                   number_of_events, shown>>

OnlineTypeOK ==
    /\ online_go \in BOOLEAN /\ online_has_data \in BOOLEAN /\ message_ready \in BOOLEAN
    /\ online_queue \in Seq(Nat \X Nat) /\ Len(online_queue) <= KMaxQueueSize
    /\ message.event \in Nat \X Nat /\ number_of_events \in Nat
    /\ online_loop \in {"outer", "pack", "send"}
=============================================================================
