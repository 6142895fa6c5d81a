--------------------------- MODULE SyncSystemProofs ---------------------------
(***************************************************************************)
(* Proofs about SyncSystem, for any clients, sockets and number of faults: *)
(* types, that no client is triggered ahead of its READY, and that each    *)
(* trigger was waited for by all.                                          *)
(*                                                                         *)
(* TriggerLoop compares two numbers; that they mean "all" rests on what    *)
(* each counts.  clients_ready counts the members of a set of clients that *)
(* wait and, besides, READYs whose client waits no longer (CountsWhole).   *)
(* num_clients_ is no less than the number of clients there are, unless    *)
(* the last recount left out one (EnoughClients).  Both hold whatever was  *)
(* taken back or miscounted before; that a client has asked for the        *)
(* trigger it gets (Willing) holds only before.                            *)
(***************************************************************************)
EXTENDS SyncSystem, FiniteSetTheorems, SequenceTheorems, TLAPS

(* clients_ready is the number of the clients that wait, and of the READYs *)
(* counted of clients that do not.                                         *)
CountsWhole == clients_ready = Cardinality(counted) + stale

(* A client between its READY and its trigger: nobody has read the READY,  *)
(* it was answered, the answer was taken; it was counted if answered.      *)
InReply(c) == Up(c) /\ status_loop[c] \in {"reply", "lost"}

Asked(c) ==
    c \in requests => InReply(c) /\ c \notin sent_ready \cup replies \cup counted

Answered(c) == c \in replies => InReply(c) /\ c \notin sent_ready

Flagged(c) ==
    c \in sent_ready => Up(c) /\ status_loop[c] \in {"loop", "trigger", "lost"}

Counted(c) == c \in counted => c \in replies \cup sent_ready

StageOf(c) == Asked(c) /\ Answered(c) /\ Flagged(c) /\ Counted(c)

Stages == \A c \in Client : StageOf(c)

(* num_clients_ covers a set of clients with all that are up, all that are *)
(* about to be, and all whose heartbeats are remembered.                   *)
EnoughClients ==
    \E R \in SUBSET Client :
        /\ Cardinality(R) <= num_clients
        /\ {c \in Client : Up(c)} \cup confirmations \cup Known \subseteq R

(* FixNumClients is called with the number there is.                       *)
FixedIsAll == fix_num_clients => num_clients = N

OnlyUpSubscribed == \A c \in Client : c \in subscribed => Up(c)

(* While nothing was taken back, who has a READY out is ready for the      *)
(* trigger, and none is there before the READY was counted.                *)
Willing(c) ==
    /\ c \in requests \cup replies \cup sent_ready => c \in ready
    /\ c \in requests \cup counted => inbox[c] = 0
    /\ inbox[c] > 0 => c \in replies \cup sent_ready /\ inbox[c] = 1

AllWilling == \A c \in Client : Willing(c)

NothingStale == stale = 0 /\ stale_requests = 0

Counting == CountsWhole /\ (~miscounted => EnoughClients)

Undisturbed == ~miscounted /\ NothingStale /\ AllWilling

IInv == TypeOK /\ FixedIsAll /\ OnlyUpSubscribed /\ Stages /\ Counting
        /\ (~disturbed => Undisturbed)

-----------------------------------------------------------------------------
(* client_time.                                                            *)

LEMMA ClientsCounted ==
    IsFiniteSet(Client) /\ N \in Nat \ {0}
  <1>1. IsFiniteSet(Client) /\ Client # {}
    BY NetworkAssumption
  <1> QED
    BY <1>1, FS_CardinalityType, FS_EmptySet DEF N

LEMMA TailForgets ==
    ASSUME client_time \in Seq(Client), client_time # <<>>,
           client_time' = Tail(client_time)
    PROVE  client_time' \in Seq(Client) /\ Known' \subseteq Known
  <1>1. /\ client_time' \in Seq(Client)
        /\ Len(client_time') = Len(client_time) - 1
        /\ \A i \in 1 .. Len(client_time') : client_time'[i] = client_time[i+1]
    BY HeadTailProperties
  <1>2. ASSUME NEW i \in DOMAIN client_time' PROVE client_time'[i] \in Known
    <2>1. i \in 1 .. Len(client_time') /\ Len(client_time) \in Nat
      BY <1>1, LenProperties
    <2>2. i + 1 \in DOMAIN client_time /\ client_time'[i] = client_time[i+1]
      BY <1>1, <2>1, LenProperties
    <2> QED
      BY <2>2 DEF Known
  <1> QED
    BY <1>1, <1>2 DEF Known

LEMMA AppendKnown ==
    ASSUME NEW s \in Seq(Client), NEW c \in Client,
           \A i \in DOMAIN s : s[i] \in Known,
           client_time' = Append(s, c)
    PROVE  client_time' \in Seq(Client) /\ Known' \subseteq Known \cup {c}
  <1>1. /\ client_time' \in Seq(Client)
        /\ Len(client_time') = Len(s) + 1
        /\ \A i \in 1 .. Len(s) : client_time'[i] = s[i]
        /\ client_time'[Len(s) + 1] = c
    BY AppendProperties
  <1>2. ASSUME NEW i \in DOMAIN client_time' PROVE client_time'[i] \in Known \cup {c}
    <2>1. i \in 1 .. Len(s) + 1 /\ Len(s) \in Nat
      BY <1>1, LenProperties
    <2>2. i = Len(s) + 1 \/ i \in DOMAIN s
      BY <2>1, LenProperties
    <2> QED
      BY <1>1, <2>2, LenProperties
  <1> QED
    BY <1>1, <1>2 DEF Known

LEMMA RemoveAtKeeps ==
    ASSUME NEW s \in Seq(Client), NEW i \in DOMAIN s
    PROVE  /\ RemoveAt(s, i) \in Seq(Client)
           /\ \A j \in DOMAIN RemoveAt(s, i) : \E k \in DOMAIN s : RemoveAt(s, i)[j] = s[k]
  <1> DEFINE a == SubSeq(s, 1, i-1)
             b == SubSeq(s, i+1, Len(s))
  <1>0. Len(s) \in Nat /\ i \in 1 .. Len(s)
    BY LenProperties
  <1>1. /\ a \in Seq(Client) /\ Len(a) = i - 1
        /\ \A j \in 1 .. i - 1 : a[j] = s[j]
    <2>1. 1 \in 1 .. Len(s) + 1 /\ i - 1 \in 1 - 1 .. Len(s)
      BY <1>0
    <2> QED
      BY <1>0, <2>1, SubSeqProperties
  <1>2. /\ b \in Seq(Client) /\ Len(b) = Len(s) - i
        /\ \A j \in 1 .. Len(s) - i : b[j] = s[i + j]
    <2>1. i + 1 \in 1 .. Len(s) + 1 /\ Len(s) \in i + 1 - 1 .. Len(s)
      BY <1>0
    <2> QED
      BY <1>0, <2>1, SubSeqProperties
  <1>3. RemoveAt(s, i) = a \o b
    BY DEF RemoveAt
  <1> HIDE DEF a, b
  <1>4. /\ a \o b \in Seq(Client)
        /\ Len(a \o b) = Len(a) + Len(b)
        /\ \A j \in 1 .. Len(a) + Len(b) : (a \o b)[j] =
             IF j <= Len(a) THEN a[j] ELSE b[j - Len(a)]
    BY <1>1, <1>2, ConcatProperties
  <1>5. ASSUME NEW j \in DOMAIN (a \o b)
        PROVE  \E k \in DOMAIN s : (a \o b)[j] = s[k]
    <2>1. j \in 1 .. Len(s) - 1
      BY <1>0, <1>1, <1>2, <1>4, LenProperties
    <2>2. CASE j <= i - 1
      <3>1. (a \o b)[j] = s[j] /\ j \in DOMAIN s
        BY <1>0, <1>1, <1>2, <1>4, <2>1, <2>2, LenProperties
      <3> QED
        BY <3>1
    <2>3. CASE ~(j <= i - 1)
      <3>1. (a \o b)[j] = b[j - (i - 1)]
        <4>1. j \in 1 .. Len(a) + Len(b) /\ ~(j <= Len(a)) /\ Len(a) = i - 1
          BY <1>0, <1>1, <1>2, <2>1, <2>3
        <4> QED
          BY <1>4, <4>1
      <3>2. j - (i - 1) \in 1 .. Len(s) - i /\ i + (j - (i - 1)) = j + 1
        BY <1>0, <2>1, <2>3
      <3>3. (a \o b)[j] = s[j + 1] /\ j + 1 \in DOMAIN s
        BY <1>0, <1>2, <2>1, <3>1, <3>2, LenProperties
      <3> QED
        BY <3>3
    <2> QED
      BY <2>2, <2>3
  <1> QED
    BY <1>3, <1>4, <1>5

LEMMA HearAdds ==
    ASSUME client_time \in Seq(Client), NEW c \in Client, Hear(c)
    PROVE  client_time' \in Seq(Client) /\ Known' \subseteq Known \cup {c}
  <1>1. CASE client_time' = Append(client_time, c)
    <2>1. \A i \in DOMAIN client_time : client_time[i] \in Known
      BY DEF Known
    <2> QED
      BY <1>1, <2>1, AppendKnown
  <1>2. ASSUME NEW i \in DOMAIN client_time,
               client_time' = Append(RemoveAt(client_time, i), c)
        PROVE  client_time' \in Seq(Client) /\ Known' \subseteq Known \cup {c}
    <2>1. /\ RemoveAt(client_time, i) \in Seq(Client)
          /\ \A j \in DOMAIN RemoveAt(client_time, i) :
                RemoveAt(client_time, i)[j] \in Known
      BY RemoveAtKeeps DEF Known
    <2> QED
      BY <1>2, <2>1, AppendKnown
  <1> QED
    BY <1>1, <1>2 DEF Hear

(* The clients counted on a registration.                                  *)
LEMMA CountClientKeeps ==
    ASSUME TypeOK, FixedIsAll, NEW c \in Client, CountClient(c)
    PROVE  /\ client_time' \in Seq(Client) /\ Known' \subseteq Known
           /\ num_clients' \in Nat
           /\ \/ num_clients' = num_clients + 1 /\ ~fix_num_clients
              \/ num_clients' = num_clients /\ (fix_num_clients \/ c \in Known)
  <1>0. client_time \in Seq(Client) /\ num_clients \in Nat
        /\ fix_num_clients \in BOOLEAN
    BY DEF TypeOK, ServerTypeOK
  <1>1. CASE ~fix_num_clients /\ c \notin Known
    BY <1>0, <1>1 DEF CountClient, Known
  <1>2. CASE fix_num_clients \/ c \in Known
    <2>1. /\ UNCHANGED num_clients
          /\ \/ UNCHANGED client_time
             \/ Len(client_time) + 1 > num_clients /\ client_time' = Tail(client_time)
      BY <1>0, <1>2 DEF CountClient
    <2>2. CASE UNCHANGED client_time
      BY <1>0, <1>2, <2>1, <2>2 DEF Known
    <2>3. CASE Len(client_time) + 1 > num_clients /\ client_time' = Tail(client_time)
      <3>1. client_time # <<>>
        <4>1. CASE fix_num_clients
          BY <1>0, <2>3, <4>1, ClientsCounted DEF FixedIsAll
        <4>2. CASE c \in Known
          BY <4>2, EmptySeq DEF Known
        <4> QED
          BY <1>2, <4>1, <4>2
      <3> QED
        BY <1>0, <1>2, <2>1, <2>3, <3>1, TailForgets
    <2> QED
      BY <2>1, <2>2, <2>3
  <1> QED
    BY <1>0, <1>1, <1>2

-----------------------------------------------------------------------------
(* Types.                                                                  *)

LEMMA TypeInit == Init => TypeOK /\ FixedIsAll
  <1> SUFFICES ASSUME Init PROVE TypeOK /\ FixedIsAll
    OBVIOUS
  <1>1. ServerTypeOK /\ FixedIsAll
    <2>1. <<>> \in Seq(Client)
      BY EmptySeq
    <2> QED
      BY <2>1 DEF Init, ServerInitWith, ServerTypeOK, FixedIsAll
  <1>2. ClientsTypeOK
    BY DEF Init, ClientsInit, ClientsTypeOK
  <1>3. NetworkTypeOK
    BY NetworkAssumption DEF Init, NetworkInit, NetworkTypeOK
  <1>4. faults \in 0..MaxFaults
    BY FaultsAssumption DEF Init
  <1>5. miscounted \in BOOLEAN /\ disturbed \in BOOLEAN
    BY DEF Init
  <1> QED
    BY <1>1, <1>2, <1>3, <1>4, <1>5 DEF TypeOK

LEMMA PublishedType ==
    NetworkTypeOK => Published \in [Client -> 0..HighWaterMark]
  <1> SUFFICES ASSUME NetworkTypeOK PROVE Published \in [Client -> 0..HighWaterMark]
    OBVIOUS
  <1>1. ASSUME NEW c \in Client
        PROVE  (IF c \in subscribed /\ inbox[c] < HighWaterMark
                THEN inbox[c] + 1 ELSE inbox[c]) \in 0..HighWaterMark
    BY NetworkAssumption DEF NetworkTypeOK
  <1> QED
    BY <1>1 DEF Published

LEMMA DropClientType ==
    ASSUME TypeOK, FixedIsAll, DropClient
    PROVE  /\ ServerTypeOK' /\ FixedIsAll' /\ Known' \subseteq Known
           /\ UNCHANGED <<controlVars, loopVars, networkVars>>
           /\ fix_num_clients => UNCHANGED num_clients
  <1>0. ServerTypeOK
    BY DEF TypeOK
  <1>1. client_time' \in Seq(Client) /\ Known' \subseteq Known
    <2>1. client_time \in Seq(Client)
      BY <1>0 DEF ServerTypeOK
    <2> QED
      BY <2>1, TailForgets DEF DropClient
  <1>2. UNCHANGED <<triggering, fix_num_clients, trigger_loop, clients_ready, counted, stale>>
    BY DEF DropClient, controlVars, loopVars
  <1>3. num_clients' \in Nat /\ clients_good' \in BOOLEAN
        /\ (fix_num_clients => UNCHANGED num_clients)
    <2>1. Len(client_time') \in Nat
      BY <1>1, LenProperties
    <2>2. CASE fix_num_clients
      BY <1>0, <2>2 DEF DropClient, ServerTypeOK
    <2>3. CASE ~fix_num_clients
      BY <1>0, <2>1, <2>3 DEF DropClient, ServerTypeOK
    <2> QED
      BY <2>2, <2>3
  <1>4. ServerTypeOK' /\ FixedIsAll'
    <2>1. FixedIsAll'
      BY <1>2, <1>3 DEF FixedIsAll
    <2> QED
      BY <1>0, <1>1, <1>2, <1>3, <2>1 DEF ServerTypeOK
  <1> QED
    BY <1>1, <1>3, <1>4 DEF DropClient

LEMMA TriggerLoopType ==
    ASSUME TypeOK, FixedIsAll, TriggerLoop
    PROVE  /\ ServerTypeOK' /\ FixedIsAll' /\ NetworkTypeOK'
           /\ UNCHANGED <<controlVars, num_clients, client_time, registerVars, subscribed>>
  <1>0. ServerTypeOK /\ NetworkTypeOK
    BY DEF TypeOK
  <1>1. ASSUME BeginRun \/ Continue \/ EndRun \/ Idle
        PROVE  /\ UNCHANGED <<triggering, fix_num_clients, num_clients, client_time, networkVars>>
               /\ UNCHANGED clients_good \/ clients_good' = TRUE
               /\ trigger_loop' \in {"idle", "while", "poll"}
               /\ \/ UNCHANGED <<clients_ready, counted, stale>>
                  \/ clients_ready' = 0 /\ counted' = {} /\ stale' = 0
    BY <1>1 DEF BeginRun, Continue, EndRun, Idle, Forget, controlVars
  <1>2. ASSUME BeginRun \/ Continue \/ EndRun \/ Idle
        PROVE  ServerTypeOK' /\ FixedIsAll' /\ NetworkTypeOK'
               /\ UNCHANGED <<controlVars, num_clients, client_time, registerVars, subscribed>>
    <2>1. FixedIsAll'
      BY <1>1, <1>2 DEF FixedIsAll
    <2>2. NetworkTypeOK' /\ UNCHANGED <<registerVars, subscribed>>
      BY <1>0, <1>1, <1>2 DEF NetworkTypeOK, networkVars, registerVars
    <2>3. clients_good' \in BOOLEAN /\ triggering' \in BOOLEAN /\ fix_num_clients' \in BOOLEAN
      BY <1>0, <1>1, <1>2 DEF ServerTypeOK
    <2>4. /\ num_clients' \in Nat /\ client_time' \in Seq(Client)
          /\ clients_ready' \in Nat /\ counted' \subseteq Client /\ stale' \in Nat
      <3>1. CASE UNCHANGED <<clients_ready, counted, stale>>
        BY <1>0, <1>1, <1>2, <3>1 DEF ServerTypeOK
      <3>2. CASE clients_ready' = 0 /\ counted' = {} /\ stale' = 0
        BY <1>0, <1>1, <1>2, <3>2 DEF ServerTypeOK
      <3> QED
        BY <1>1, <1>2, <3>1, <3>2
    <2>5. UNCHANGED <<controlVars, num_clients, client_time>>
      BY <1>1, <1>2 DEF controlVars
    <2>6. trigger_loop' \in {"idle", "while", "poll"}
      BY <1>1, <1>2
    <2>7. ServerTypeOK'
      BY <2>3, <2>4, <2>6 DEF ServerTypeOK
    <2> QED
      BY <2>1, <2>2, <2>5, <2>7
  <1>3. ASSUME ReceiveReady
        PROVE  ServerTypeOK' /\ FixedIsAll' /\ NetworkTypeOK'
               /\ UNCHANGED <<controlVars, num_clients, client_time, registerVars, subscribed>>
    <2>1. /\ UNCHANGED <<triggering, fix_num_clients, num_clients, clients_good, client_time,
                         registrations, confirmations, subscribed, inbox>>
          /\ trigger_loop' = "while" /\ clients_ready' = clients_ready + 1
          /\ requests' \subseteq requests /\ replies' \subseteq replies \cup requests
          /\ counted' \subseteq counted \cup requests
      BY <1>3 DEF ReceiveReady, controlVars, registerVars, triggerVars
    <2>2. stale' \in Nat /\ stale_requests' \in Nat
      BY <1>0, <1>3 DEF ReceiveReady, ServerTypeOK, NetworkTypeOK
    <2>3. FixedIsAll'
      BY <2>1 DEF FixedIsAll
    <2> QED
      BY <1>0, <2>1, <2>2, <2>3 DEF ServerTypeOK, NetworkTypeOK, controlVars, registerVars
  <1>4. ASSUME SendTrigger
        PROVE  ServerTypeOK' /\ FixedIsAll' /\ NetworkTypeOK'
               /\ UNCHANGED <<controlVars, num_clients, client_time, registerVars, subscribed>>
    <2>1. /\ UNCHANGED <<triggering, fix_num_clients, num_clients, client_time, registrations,
                         confirmations, requests, stale_requests, replies, subscribed>>
          /\ trigger_loop' = "while" /\ clients_ready' = 0 /\ counted' = {} /\ stale' = 0
          /\ clients_good' = TRUE /\ inbox' = Published
      BY <1>4 DEF SendTrigger, Forget, controlVars, registerVars, statusVars
    <2>2. FixedIsAll'
      BY <2>1 DEF FixedIsAll
    <2>3. NetworkTypeOK'
      BY <1>0, <2>1, PublishedType DEF NetworkTypeOK
    <2> QED
      BY <1>0, <2>1, <2>2, <2>3 DEF ServerTypeOK, controlVars, registerVars
  <1> QED
    BY <1>2, <1>3, <1>4 DEF TriggerLoop

(* What a client's own steps leave of the server.                          *)
LEMMA ForsakeCountType ==
    ASSUME ServerTypeOK, FixedIsAll, NEW c \in Client, UNCHANGED serverElse,
           ForsakeCount(c) \/ UNCHANGED <<counted, stale>>
    PROVE  ServerTypeOK' /\ FixedIsAll'
  <1>1. UNCHANGED <<triggering, fix_num_clients, num_clients, clients_good, trigger_loop,
                    clients_ready, client_time>>
    BY DEF serverElse
  <1>2. counted' \subseteq counted /\ stale' \in Nat
    BY DEF ServerTypeOK, ForsakeCount
  <1> QED
    BY <1>1, <1>2 DEF ServerTypeOK, FixedIsAll

LEMMA DisconnectType ==
    ASSUME NetworkTypeOK, NEW c \in Client, Disconnect(c)
    PROVE  NetworkTypeOK'
  <1>1. /\ UNCHANGED registrations
        /\ confirmations' \subseteq confirmations /\ requests' \subseteq requests
        /\ replies' \subseteq replies /\ subscribed' \subseteq subscribed
    BY DEF Disconnect, ForsakeRequest
  <1>2. stale_requests' \in Nat
    BY DEF NetworkTypeOK, Disconnect, ForsakeRequest
  <1>3. inbox' \in [Client -> 0..HighWaterMark]
    BY NetworkAssumption DEF NetworkTypeOK, Disconnect
  <1> QED
    BY <1>1, <1>2, <1>3 DEF NetworkTypeOK

(* The steps of a client: what they do to its variables and the network.   *)
LEMMA JoiningType ==
    ASSUME TypeOK, NEW c \in Client, Joining(c)
    PROVE  ClientsTypeOK' /\ NetworkTypeOK'
  <1>0. ClientsTypeOK /\ NetworkTypeOK
    BY DEF TypeOK
  <1>1. CASE Launch(c)
    BY <1>0, <1>1 DEF Launch, Enter, flagVars, networkVars, ClientsTypeOK, NetworkTypeOK
  <1>2. CASE RequestRegistration(c)
    BY <1>0, <1>2 DEF RequestRegistration, Enter, flagVars, statusVars, triggerVars,
         ClientsTypeOK, NetworkTypeOK
  <1>3. CASE Connect(c)
    BY <1>0, <1>3 DEF Connect, Enter, StatusGoto, flagVars, statusVars, triggerVars,
         ClientsTypeOK, NetworkTypeOK
  <1>4. CASE Subscribe(c)
    BY <1>0, <1>4 DEF Subscribe, clientVars, flagVars, registerVars, statusVars,
         ClientsTypeOK, NetworkTypeOK
  <1> QED
    BY <1>1, <1>2, <1>3, <1>4 DEF Joining

LEMMA StatusLoopType ==
    ASSUME TypeOK, NEW c \in Client, StatusLoop(c) \/ ReceiveTrigger(c) \/ TimeOut(c)
    PROVE  ClientsTypeOK' /\ NetworkTypeOK'
  <1>0. ClientsTypeOK /\ NetworkTypeOK
    BY DEF TypeOK
  <1>1. CASE RequestTrigger(c)
    BY <1>0, <1>1 DEF RequestTrigger, StatusGoto, flagVars, registerVars, triggerVars,
         ClientsTypeOK, NetworkTypeOK
  <1>2. CASE FlagReady(c)
    BY <1>0, <1>2 DEF FlagReady, StatusGoto, registerVars, triggerVars,
         ClientsTypeOK, NetworkTypeOK
  <1>3. CASE AwaitTrigger(c) \/ StopWaiting(c) \/ TimeOut(c)
    BY <1>0, <1>3 DEF AwaitTrigger, StopWaiting, TimeOut, StatusGoto, flagVars, networkVars,
         ClientsTypeOK, NetworkTypeOK
  <1>4. CASE FlagTrigger(c)
    BY <1>0, <1>4 DEF FlagTrigger, StatusGoto, networkVars, ClientsTypeOK, NetworkTypeOK
  <1>5. CASE ReceiveTrigger(c)
    <2>1. inbox' \in [Client -> 0..HighWaterMark]
      BY <1>0, <1>5, NetworkAssumption DEF ReceiveTrigger, NetworkTypeOK
    <2> QED
      BY <1>0, <1>5, <2>1 DEF ReceiveTrigger, StatusGoto, registerVars, statusVars,
           ClientsTypeOK, NetworkTypeOK
  <1> QED
    BY <1>1, <1>2, <1>3, <1>4, <1>5 DEF StatusLoop

LEMMA FrontendType ==
    ASSUME TypeOK, NEW c \in Client, SetReady(c) \/ HasTrigger(c) \/ UnsetReady(c)
    PROVE  ClientsTypeOK' /\ NetworkTypeOK'
  BY DEF TypeOK, SetReady, HasTrigger, UnsetReady, networkVars, ClientsTypeOK, NetworkTypeOK

LEMMA LeaveType ==
    ASSUME TypeOK, NEW c \in Client, Restart(c) \/ Crash(c)
    PROVE  ClientsTypeOK' /\ NetworkTypeOK'
  <1>1. NetworkTypeOK'
    BY DisconnectType DEF TypeOK, Restart, Crash
  <1>2. ClientsTypeOK'
    BY DEF TypeOK, Restart, Crash, Enter, StatusGoto, ClientsTypeOK
  <1> QED
    BY <1>1, <1>2

LEMMA FaultType ==
    ASSUME TypeOK
    PROVE  /\ UNCHANGED faults => faults' \in 0..MaxFaults
           /\ Fault => faults' \in 0..MaxFaults
           /\ (UNCHANGED disturbed \/ \E b : disturbed' = (disturbed \/ b))
              => disturbed' \in BOOLEAN
           /\ UNCHANGED miscounted \/ miscounted' = FALSE \/ miscounted' = LeftOut
              => miscounted' \in BOOLEAN
  <1>1. faults \in 0..MaxFaults /\ disturbed \in BOOLEAN /\ miscounted \in BOOLEAN
    BY DEF TypeOK
  <1>2. Fault => faults' \in 0..MaxFaults
    BY <1>1, FaultsAssumption DEF Fault
  <1>3. LeftOut \in BOOLEAN
    BY DEF LeftOut
  <1> QED
    BY <1>1, <1>2, <1>3

(* The steps of the server: Owner, TriggerThread and ClientLoop's.         *)
LEMMA OwnerType ==
    ASSUME TypeOK, FixedIsAll, Owner
    PROVE  ServerTypeOK' /\ FixedIsAll'
  <1>0. ServerTypeOK
    BY DEF TypeOK
  <1>1. ASSUME NEW on \in BOOLEAN, SetTriggering(on) PROVE ServerTypeOK' /\ FixedIsAll'
    <2>1. /\ triggering' \in BOOLEAN
          /\ UNCHANGED <<fix_num_clients, num_clients, clients_good, trigger_loop,
                         clients_ready, client_time, counted, stale>>
      BY <1>1 DEF SetTriggering, loopVars
    <2> QED
      BY <1>0, <2>1 DEF ServerTypeOK, FixedIsAll
  <1>2. ASSUME FixNumClients(N) PROVE ServerTypeOK' /\ FixedIsAll'
    <2>1. /\ fix_num_clients' = TRUE /\ num_clients' = N
          /\ UNCHANGED <<triggering, clients_good, trigger_loop, clients_ready, client_time,
                         counted, stale>>
      BY <1>2 DEF FixNumClients, loopVars
    <2>2. N' = N
      BY DEF N
    <2> QED
      BY <1>0, <2>1, <2>2, ClientsCounted DEF ServerTypeOK, FixedIsAll
  <1> QED
    BY <1>1, <1>2 DEF Owner

LEMMA RegisterType ==
    ASSUME TypeOK, FixedIsAll, NEW c \in Client, Register(c)
    PROVE  ServerTypeOK' /\ FixedIsAll' /\ NetworkTypeOK'
  <1>0. ServerTypeOK /\ NetworkTypeOK
    BY DEF TypeOK
  <1>1. /\ client_time' \in Seq(Client) /\ num_clients' \in Nat
        /\ fix_num_clients => num_clients' = num_clients
    BY CountClientKeeps DEF Register
  <1>2. /\ UNCHANGED <<triggering, fix_num_clients, clients_good, trigger_loop, clients_ready,
                       counted, stale, requests, stale_requests, replies, subscribed, inbox>>
        /\ registrations' \subseteq registrations /\ confirmations' \subseteq Client
    BY <1>0 DEF Register, controlVars, loopVars, statusVars, triggerVars, NetworkTypeOK
  <1>3. FixedIsAll'
    BY <1>1, <1>2 DEF FixedIsAll
  <1>4. ServerTypeOK'
    BY <1>0, <1>1, <1>2 DEF ServerTypeOK
  <1>5. NetworkTypeOK'
    BY <1>0, <1>2 DEF NetworkTypeOK
  <1> QED
    BY <1>3, <1>4, <1>5

LEMMA TypeStep == TypeOK /\ FixedIsAll /\ [Next]_vars => TypeOK' /\ FixedIsAll'
  <1> SUFFICES ASSUME TypeOK, FixedIsAll, [Next]_vars PROVE TypeOK' /\ FixedIsAll'
    OBVIOUS
  <1> DEFINE Faults == /\ faults' \in 0..MaxFaults
                       /\ miscounted' \in BOOLEAN /\ disturbed' \in BOOLEAN
  <1>0. ServerTypeOK /\ ClientsTypeOK /\ NetworkTypeOK
    BY DEF TypeOK
  <1>a. UNCHANGED serverVars => ServerTypeOK' /\ FixedIsAll'
    BY <1>0 DEF serverVars, ServerTypeOK, FixedIsAll, N
  <1>b. UNCHANGED clientVars => ClientsTypeOK'
    BY <1>0 DEF clientVars, ClientsTypeOK
  <1>c. UNCHANGED networkVars => NetworkTypeOK'
    BY <1>0 DEF networkVars, NetworkTypeOK
  <1>d. UNCHANGED faultVars => Faults
    <2>1. UNCHANGED faultVars
          => UNCHANGED faults /\ UNCHANGED miscounted /\ UNCHANGED disturbed
      BY DEF faultVars
    <2> QED
      BY <2>1, FaultType
  <1>e. ASSUME Fault \/ UNCHANGED faults,
               UNCHANGED disturbed \/ \E b : disturbed' = (disturbed \/ b),
               UNCHANGED miscounted \/ miscounted' = FALSE \/ miscounted' = LeftOut
        PROVE  Faults
    BY <1>e, FaultType
  <1> HIDE DEF Faults
  <1>f. ASSUME ServerTypeOK', ClientsTypeOK', NetworkTypeOK', Faults PROVE TypeOK'
    BY <1>f DEF TypeOK, Faults
  <1>1. CASE Owner
    <2>1. UNCHANGED <<clientVars, networkVars>>
      BY <1>1 DEF Owner, SetTriggering, FixNumClients
    <2>2. Faults
      BY <1>1, <1>e DEF Owner
    <2> QED
      BY <1>1, <1>b, <1>c, <1>f, <2>1, <2>2, OwnerType
  <1>2. CASE TriggerThread
    BY <1>2, <1>b, <1>d, <1>f, TriggerLoopType DEF TriggerThread
  <1>3. ASSUME DropSilent \/ DropLate PROVE TypeOK' /\ FixedIsAll'
    <2>1. Faults
      BY <1>3, <1>e DEF DropSilent, DropLate, CountAnew
    <2>2. ServerTypeOK' /\ FixedIsAll' /\ UNCHANGED networkVars /\ UNCHANGED clientVars
      BY <1>3, DropClientType DEF DropSilent, DropLate, CountAnew
    <2> QED
      BY <1>b, <1>c, <1>f, <2>1, <2>2
  <1>4. ASSUME NEW c \in Client, RegisterThread(c) PROVE TypeOK' /\ FixedIsAll'
    BY <1>4, <1>b, <1>d, <1>f, RegisterType DEF RegisterThread
  <1>5. ASSUME NEW c \in Client, Heartbeat(c) PROVE TypeOK' /\ FixedIsAll'
    <2>1. /\ UNCHANGED <<triggering, fix_num_clients, num_clients, clients_good, trigger_loop,
                         clients_ready, counted, stale>>
          /\ UNCHANGED networkVars /\ UNCHANGED clientVars /\ UNCHANGED faultVars
      BY <1>5 DEF Heartbeat, Hear, controlVars, loopVars
    <2>2. client_time' \in Seq(Client)
      BY <1>0, <1>5, HearAdds DEF Heartbeat, ServerTypeOK
    <2>3. ServerTypeOK' /\ FixedIsAll'
      BY <1>0, <2>1, <2>2 DEF ServerTypeOK, FixedIsAll, N
    <2> QED
      BY <1>b, <1>c, <1>d, <1>f, <2>1, <2>3
  <1>6. ASSUME NEW c \in Client, Joining(c) PROVE TypeOK' /\ FixedIsAll'
    <2>1. UNCHANGED serverVars /\ UNCHANGED faultVars
      BY <1>6 DEF Joining
    <2> QED
      BY <1>6, <1>a, <1>d, <1>f, <2>1, JoiningType
  <1>7. ASSUME NEW c \in Client, StatusThread(c) PROVE TypeOK' /\ FixedIsAll'
    <2>1. UNCHANGED faultVars /\ (StatusLoop(c) \/ ReceiveTrigger(c))
      BY <1>7 DEF StatusThread
    <2>2. UNCHANGED serverVars \/ (ForsakeCount(c) /\ UNCHANGED serverElse)
      BY <1>7 DEF StatusThread
    <2>3. ServerTypeOK' /\ FixedIsAll'
      BY <1>0, <1>a, <2>2, ForsakeCountType
    <2> QED
      BY <1>d, <1>f, <2>1, <2>3, StatusLoopType
  <1>8. ASSUME NEW c \in Client, Frontend(c) PROVE TypeOK' /\ FixedIsAll'
    <2>1. UNCHANGED serverVars /\ UNCHANGED faultVars
      BY <1>8 DEF Frontend
    <2> QED
      BY <1>8, <1>a, <1>d, <1>f, <2>1, FrontendType DEF Frontend
  <1>9. ASSUME NEW c \in Client, TimeOutAtLast(c) \/ TimeOutEarly(c)
        PROVE  TypeOK' /\ FixedIsAll'
    <2>1. UNCHANGED serverVars /\ TimeOut(c)
      BY <1>9 DEF TimeOutAtLast, TimeOutEarly
    <2>2. Faults
      BY <1>9, <1>d, <1>e DEF TimeOutAtLast, TimeOutEarly
    <2> QED
      BY <1>a, <1>f, <2>1, <2>2, StatusLoopType
  <1>10. ASSUME NEW c \in Client, RestartThread(c) \/ Die(c) PROVE TypeOK' /\ FixedIsAll'
    <2>1. (Restart(c) \/ Crash(c)) /\ ForsakeCount(c) /\ UNCHANGED serverElse
      BY <1>10 DEF RestartThread, Die
    <2>2. Faults
      BY <1>10, <1>e DEF RestartThread, Die
    <2> QED
      BY <1>0, <1>f, <2>1, <2>2, ForsakeCountType, LeaveType
  <1>11. ASSUME NEW c \in Client, GiveUp(c) PROVE TypeOK' /\ FixedIsAll'
    <2>1. /\ UnsetReady(c) /\ UNCHANGED serverElse
          /\ ForsakeCount(c) \/ UNCHANGED <<counted, stale>>
      BY <1>11 DEF GiveUp
    <2>2. Faults
      BY <1>11, <1>e DEF GiveUp
    <2> QED
      BY <1>0, <1>f, <2>1, <2>2, ForsakeCountType, FrontendType
  <1>12. CASE UNCHANGED vars
    BY <1>12, <1>a, <1>b, <1>c, <1>d, <1>f DEF vars
  <1> QED
    BY <1>1, <1>2, <1>3, <1>4, <1>5, <1>6, <1>7, <1>8, <1>9, <1>10, <1>11, <1>12 DEF Next

(* Every variable has its type whatever the two threads, the owner and the *)
(* clients do between each other's steps: in particular ClientLoop, when   *)
(* it finds one client too many, never erases from an empty client_time.   *)
THEOREM SyncTypeCorrect == Spec => []TypeOK
  <1>1. Init => TypeOK /\ FixedIsAll
    BY TypeInit
  <1>2. (TypeOK /\ FixedIsAll) /\ [Next]_vars => (TypeOK /\ FixedIsAll)'
    BY TypeStep
  <1> QED
    BY <1>1, <1>2, PTL DEF Spec

-----------------------------------------------------------------------------
(* The number of clients.                                                  *)

LEMMA EnoughKept ==
    ASSUME TypeOK, EnoughClients, num_clients' = num_clients,
           confirmations' \subseteq confirmations, Known' \subseteq Known,
           \A c \in Client : Up(c)' => Up(c) \/ c \in confirmations
    PROVE  EnoughClients'
  <1>1. PICK R \in SUBSET Client :
          /\ Cardinality(R) <= num_clients
          /\ {c \in Client : Up(c)} \cup confirmations \cup Known \subseteq R
    BY DEF EnoughClients
  <1>2. {c \in Client : Up(c)'} \subseteq R
    BY <1>1
  <1>3. confirmations' \subseteq R /\ Known' \subseteq R /\ Cardinality(R) <= num_clients'
    BY <1>1
  <1> QED
    BY <1>2, <1>3 DEF EnoughClients

LEMMA EnoughIfFixed ==
    ASSUME TypeOK', FixedIsAll', fix_num_clients' = TRUE
    PROVE  EnoughClients'
  <1>1. N' = N /\ Cardinality(Client) <= num_clients'
    BY ClientsCounted DEF FixedIsAll, N
  <1>2. confirmations' \subseteq Client
    BY DEF TypeOK, NetworkTypeOK
  <1>3. Known' \subseteq Client
    <2>1. client_time' \in Seq(Client)
      BY DEF TypeOK, ServerTypeOK
    <2>2. client_time' \in [1 .. Len(client_time') -> Client]
          /\ DOMAIN client_time' = 1 .. Len(client_time')
      BY <2>1, LenProperties
    <2> QED
      BY <2>2 DEF Known
  <1> QED
    BY <1>1, <1>2, <1>3 DEF EnoughClients

(* A client that registers is counted, or was, or all are.                 *)
LEMMA EnoughRegister ==
    ASSUME TypeOK, TypeOK', FixedIsAll, FixedIsAll', EnoughClients,
           NEW c \in Client, RegisterThread(c)
    PROVE  EnoughClients'
  <1>1. PICK R \in SUBSET Client :
          /\ Cardinality(R) <= num_clients
          /\ {d \in Client : Up(d)} \cup confirmations \cup Known \subseteq R
    BY DEF EnoughClients
  <1>2. /\ Known' \subseteq Known /\ confirmations' = confirmations \cup {c}
        /\ UNCHANGED phase /\ UNCHANGED fix_num_clients
    BY CountClientKeeps DEF RegisterThread, Register, clientVars, controlVars
  <1>3. {d \in Client : Up(d)'} \subseteq R
    BY <1>1, <1>2 DEF Up
  <1>4. CASE num_clients' = num_clients + 1
    <2>1. IsFiniteSet(R)
      BY ClientsCounted, FS_Subset
    <2>2. Cardinality(R \cup {c}) <= num_clients'
      <3>1. Cardinality(R) \in Nat /\ num_clients \in Nat
        BY <2>1, FS_CardinalityType DEF TypeOK, ServerTypeOK
      <3>2. Cardinality(R \cup {c}) \in {Cardinality(R), Cardinality(R) + 1}
        BY <2>1, FS_AddElement
      <3> QED
        BY <1>1, <1>4, <3>1, <3>2
    <2>3. R \cup {c} \in SUBSET Client
      OBVIOUS
    <2>4. {d \in Client : Up(d)'} \cup confirmations' \cup Known' \subseteq R \cup {c}
      BY <1>1, <1>2, <1>3
    <2> QED
      BY <2>2, <2>3, <2>4 DEF EnoughClients
  <1>5. CASE num_clients' = num_clients /\ c \in Known
    BY <1>1, <1>2, <1>3, <1>5 DEF EnoughClients
  <1>6. CASE fix_num_clients
    <2>1. fix_num_clients' = TRUE
      BY <1>2, <1>6 DEF TypeOK, ServerTypeOK
    <2> QED
      BY <2>1, EnoughIfFixed
  <1> QED
    BY <1>4, <1>5, <1>6, CountClientKeeps DEF RegisterThread, Register

(* A client whose heartbeat is heard is up, so that it is counted already. *)
LEMMA EnoughHeartbeat ==
    ASSUME TypeOK, EnoughClients, NEW c \in Client, Heartbeat(c)
    PROVE  EnoughClients'
  <1>1. PICK R \in SUBSET Client :
          /\ Cardinality(R) <= num_clients
          /\ {d \in Client : Up(d)} \cup confirmations \cup Known \subseteq R
    BY DEF EnoughClients
  <1>2. UNCHANGED <<phase, num_clients, confirmations>> /\ c \in R
    BY <1>1 DEF Heartbeat, Hear, clientVars, networkVars
  <1>3. Known' \subseteq Known \cup {c}
    BY HearAdds DEF Heartbeat, TypeOK, ServerTypeOK
  <1>4. {d \in Client : Up(d)'} \cup confirmations' \cup Known' \subseteq R
    BY <1>1, <1>2, <1>3 DEF Up
  <1> QED
    BY <1>1, <1>2, <1>4 DEF EnoughClients

(* What a client does leaves the number, and raises no other client.       *)
LEMMA EnoughClientStep ==
    ASSUME TypeOK, EnoughClients, NEW c \in Client,
           \/ Joining(c) \/ StatusThread(c) \/ Frontend(c) \/ TimeOutAtLast(c)
           \/ TimeOutEarly(c) \/ RestartThread(c) \/ GiveUp(c) \/ Die(c)
    PROVE  EnoughClients'
  <1>1. UNCHANGED <<num_clients, client_time>>
    BY DEF Joining, StatusThread, Frontend, TimeOutAtLast, TimeOutEarly, RestartThread, GiveUp,
       Die, serverVars, serverElse
  <1>2. CASE Joining(c)
    <2>1. confirmations' \subseteq confirmations
          /\ \A d \in Client : phase'[d] = "up" => phase[d] = "up" \/ d \in confirmations
      BY <1>2 DEF Joining, Launch, RequestRegistration, Connect, Subscribe, Enter, networkVars,
         registerVars, clientVars, TypeOK, ClientsTypeOK
    <2> QED
      BY <1>1, <2>1, EnoughKept DEF Up, Known
  <1>3. CASE \/ StatusThread(c) \/ Frontend(c) \/ TimeOutAtLast(c) \/ TimeOutEarly(c) \/ GiveUp(c)
    <2>1. UNCHANGED <<phase, confirmations>>
      BY <1>3 DEF StatusThread, StatusLoop, RequestTrigger, FlagReady, AwaitTrigger, FlagTrigger,
         StopWaiting, ReceiveTrigger, TimeOutAtLast, TimeOutEarly, TimeOut, Frontend, SetReady,
         HasTrigger, GiveUp, UnsetReady, networkVars, registerVars
    <2> QED
      BY <1>1, <2>1, EnoughKept DEF Up, Known
  <1>4. CASE RestartThread(c) \/ Die(c)
    <2>1. confirmations' \subseteq confirmations
          /\ \A d \in Client : phase'[d] = "up" => phase[d] = "up"
      BY <1>4 DEF RestartThread, Die, Restart, Crash, Enter, Disconnect, TypeOK, ClientsTypeOK
    <2> QED
      BY <1>1, <2>1, EnoughKept DEF Up, Known
  <1> QED
    BY <1>2, <1>3, <1>4

(* A drop counts the clients heard; if nobody is left out that is enough.  *)
LEMMA EnoughDrop ==
    ASSUME TypeOK, TypeOK', FixedIsAll, FixedIsAll', DropSilent \/ DropLate, ~miscounted'
    PROVE  EnoughClients'
  <1>1. DropClient /\ UNCHANGED clientVars /\ miscounted' = LeftOut
    BY DEF DropSilent, DropLate, CountAnew
  <1>2. UNCHANGED <<phase, confirmations, fix_num_clients>>
    BY <1>1 DEF DropClient, clientVars, controlVars, networkVars
  <1>3. CASE fix_num_clients
    <2>1. fix_num_clients' = TRUE
      BY <1>2, <1>3 DEF TypeOK, ServerTypeOK
    <2> QED
      BY <2>1, EnoughIfFixed
  <1>4. CASE ~fix_num_clients
    <2>1. num_clients' = Len(client_time') /\ client_time' \in Seq(Client)
      BY <1>1, <1>4 DEF DropClient, TypeOK, ServerTypeOK
    <2>2. /\ Len(client_time') \in Nat /\ DOMAIN client_time' = 1 .. Len(client_time')
          /\ client_time' \in [1 .. Len(client_time') -> Client]
      BY <2>1, LenProperties
    <2>3. Known' \in SUBSET Client
      BY <2>2 DEF Known
    <2>4. Cardinality(Known') <= num_clients'
      <3>1. client_time' \in Surjection(1 .. Len(client_time'), Known')
        BY <2>2 DEF Known, Surjection
      <3>2. /\ IsFiniteSet(1 .. Len(client_time'))
            /\ Cardinality(1 .. Len(client_time')) = Len(client_time')
        <4>1. 1 \in Int /\ Len(client_time') \in Int
          BY <2>2
        <4>2. IsFiniteSet(1 .. Len(client_time'))
              /\ Cardinality(1 .. Len(client_time'))
                   = IF 1 > Len(client_time') THEN 0 ELSE Len(client_time') - 1 + 1
          BY <4>1, FS_Interval
        <4> QED
          BY <2>2, <4>2
      <3>3. Cardinality(Known') <= Cardinality(1 .. Len(client_time'))
        BY <3>1, <3>2, FS_Surjection
      <3> QED
        BY <2>1, <3>2, <3>3
    <2>5. \A c \in Client : Up(c) \/ c \in confirmations => c \in Known'
      BY <1>1, <1>4 DEF LeftOut
    <2>6. {c \in Client : Up(c)'} \cup confirmations' \cup Known' \subseteq Known'
      <3>1. confirmations' \subseteq Client
        BY DEF TypeOK, NetworkTypeOK
      <3> QED
        BY <1>2, <2>5, <3>1 DEF Up
    <2> QED
      BY <2>3, <2>4, <2>6 DEF EnoughClients
  <1> QED
    BY <1>3, <1>4

(* Every step leaves a number that is enough, or says that it is not.      *)
LEMMA EnoughStep ==
    ASSUME TypeOK, TypeOK', FixedIsAll, FixedIsAll', ~miscounted => EnoughClients,
           [Next]_vars, ~miscounted'
    PROVE  EnoughClients'
  <1>1. CASE DropSilent \/ DropLate
    BY <1>1, EnoughDrop
  <1>2. CASE FixNumClients(N)
    BY <1>2, EnoughIfFixed DEF FixNumClients
  <1>3. CASE \/ \E on \in BOOLEAN : SetTriggering(on) /\ UNCHANGED <<clientVars, miscounted>>
             \/ TriggerThread \/ UNCHANGED vars
    <2>1. UNCHANGED <<phase, num_clients, client_time, confirmations, miscounted>>
      BY <1>3, TriggerLoopType DEF TriggerThread, SetTriggering, vars, serverVars, clientVars,
         networkVars, registerVars, faultVars
    <2> QED
      BY <2>1, EnoughKept DEF Up, Known
  <1>4. ASSUME NEW c \in Client, RegisterThread(c) \/ Heartbeat(c) PROVE EnoughClients'
    <2>1. EnoughClients
      BY <1>4 DEF RegisterThread, Heartbeat, faultVars
    <2> QED
      BY <1>4, <2>1, EnoughRegister, EnoughHeartbeat
  <1>5. ASSUME NEW c \in Client,
               \/ Joining(c) \/ StatusThread(c) \/ Frontend(c) \/ TimeOutAtLast(c)
               \/ TimeOutEarly(c) \/ RestartThread(c) \/ GiveUp(c) \/ Die(c)
        PROVE  EnoughClients'
    <2>1. EnoughClients
      BY <1>5 DEF Joining, StatusThread, Frontend, TimeOutAtLast, TimeOutEarly, RestartThread,
         GiveUp, Die, faultVars
    <2> QED
      BY <1>5, <2>1, EnoughClientStep
  <1> QED
    BY <1>1, <1>2, <1>3, <1>4, <1>5 DEF Next, Owner

-----------------------------------------------------------------------------
(* The stages of a client's READY.                                         *)

(* Only client c's stage is touched.                                       *)
OthersKeep(c) ==
    \A d \in Client \ {c} :
        /\ phase'[d] = phase[d] /\ status_loop'[d] = status_loop[d]
        /\ d \in ready' <=> d \in ready
        /\ d \in sent_ready' <=> d \in sent_ready
        /\ d \in requests' <=> d \in requests
        /\ d \in replies' <=> d \in replies
        /\ d \in counted' <=> d \in counted
        /\ inbox'[d] = inbox[d]

(* The stages hold after a step, and the will of the clients as long as    *)
(* nothing was disturbed.                                                  *)
StillStaged == Stages' /\ (AllWilling /\ ~disturbed' => AllWilling')

LEMMA StagedOf ==
    ASSUME Stages, NEW c \in Client, OthersKeep(c), StageOf(c)',
           Willing(c) /\ ~disturbed' => Willing(c)'
    PROVE  StillStaged
  <1>1. ASSUME NEW d \in Client, d # c
        PROVE  StageOf(d)' /\ (Willing(d) => Willing(d)')
    BY <1>1 DEF Stages, OthersKeep, StageOf, Asked, Answered, Flagged, Counted, InReply, Up,
       Willing
  <1> QED
    BY <1>1 DEF Stages, AllWilling, StillStaged

(* Nothing a stage is made of changes.                                     *)
LEMMA StagesKept ==
    ASSUME Stages,
           UNCHANGED <<phase, status_loop, ready, sent_ready, requests, replies, counted, inbox>>
    PROVE  StillStaged
  BY DEF Stages, StageOf, Asked, Answered, Flagged, Counted, InReply, Up, Willing, AllWilling,
     StillStaged

LEMMA StatusThreadStages ==
    ASSUME TypeOK, Stages, NEW c \in Client, StatusThread(c)
    PROVE  StillStaged
  <1>0. StageOf(c)
    BY DEF Stages
  <1>t. ClientsTypeOK /\ NetworkTypeOK
    BY DEF TypeOK
  <1>1. CASE RequestTrigger(c) /\ UNCHANGED serverVars
    <2>1. OthersKeep(c)
      BY <1>1, <1>t DEF OthersKeep, RequestTrigger, StatusGoto, serverVars, flagVars, triggerVars,
         ClientsTypeOK
    <2>2. StageOf(c)' /\ (Willing(c) => Willing(c)')
      BY <1>0, <1>1, <1>t DEF RequestTrigger, StatusGoto, Status, serverVars, flagVars, triggerVars,
         ClientsTypeOK, NetworkTypeOK, StageOf, Asked, Answered, Flagged, Counted, Willing,
         InReply, Up
    <2> QED
      BY <2>1, <2>2, StagedOf
  <1>2. CASE FlagReady(c) /\ UNCHANGED serverVars
    <2>1. OthersKeep(c)
      BY <1>2, <1>t DEF OthersKeep, FlagReady, StatusGoto, serverVars, triggerVars, ClientsTypeOK
    <2>2. StageOf(c)' /\ (Willing(c) => Willing(c)')
      BY <1>0, <1>2, <1>t DEF FlagReady, StatusGoto, Status, serverVars, triggerVars,
         ClientsTypeOK, NetworkTypeOK, StageOf, Asked, Answered, Flagged, Counted, Willing,
         InReply, Up
    <2> QED
      BY <2>1, <2>2, StagedOf
  <1>3. CASE (AwaitTrigger(c) \/ StopWaiting(c)) /\ UNCHANGED serverVars
    <2>1. OthersKeep(c)
      BY <1>3, <1>t DEF OthersKeep, AwaitTrigger, StopWaiting, StatusGoto, serverVars, flagVars,
         networkVars, ClientsTypeOK
    <2>2. StageOf(c)' /\ (Willing(c) => Willing(c)')
      BY <1>0, <1>3, <1>t DEF AwaitTrigger, StopWaiting, StatusGoto, Status, serverVars, flagVars,
         networkVars, ClientsTypeOK, NetworkTypeOK, StageOf, Asked, Answered, Flagged, Counted,
         Willing, InReply, Up
    <2> QED
      BY <2>1, <2>2, StagedOf
  <1>4. CASE FlagTrigger(c) /\ UNCHANGED serverVars
    <2>1. OthersKeep(c)
      BY <1>4, <1>t DEF OthersKeep, FlagTrigger, StatusGoto, serverVars, networkVars, ClientsTypeOK
    <2>2. StageOf(c)' /\ (Willing(c) => Willing(c)')
      BY <1>0, <1>4, <1>t DEF FlagTrigger, StatusGoto, Status, serverVars, networkVars,
         ClientsTypeOK, NetworkTypeOK, StageOf, Asked, Answered, Flagged, Counted, Willing,
         InReply, Up
    <2> QED
      BY <2>1, <2>2, StagedOf
  <1>5. CASE ReceiveTrigger(c) /\ ForsakeCount(c)
    <2>1. OthersKeep(c)
      BY <1>5, <1>t DEF OthersKeep, ReceiveTrigger, ForsakeCount, StatusGoto, statusVars,
         ClientsTypeOK, NetworkTypeOK
    <2>2. /\ c \notin requests' \cup replies' \cup sent_ready' \cup counted'
          /\ inbox'[c] = inbox[c] - 1 /\ inbox[c] \in Nat
      BY <1>0, <1>5, <1>t DEF ReceiveTrigger, ForsakeCount, statusVars, Status, StageOf, Asked,
         Answered, InReply, NetworkTypeOK
    <2>3. StageOf(c)' /\ (Willing(c) => Willing(c)')
      BY <2>2 DEF StageOf, Asked, Answered, Flagged, Counted, Willing
    <2> QED
      BY <2>1, <2>3, StagedOf
  <1> QED
    BY <1>1, <1>2, <1>3, <1>4, <1>5 DEF StatusThread, StatusLoop

(* A client that is not up has no READY out.                               *)
LEMMA JoiningStages ==
    ASSUME TypeOK, Stages, NEW c \in Client, Joining(c)
    PROVE  StillStaged
  <1>0. StageOf(c)
    BY DEF Stages
  <1>t. ClientsTypeOK /\ NetworkTypeOK
    BY DEF TypeOK
  <1>s. UNCHANGED <<counted, requests, replies, inbox, ready, sent_ready>>
    BY DEF Joining, Launch, RequestRegistration, Connect, Subscribe, networkVars, statusVars,
       triggerVars, clientVars, flagVars, serverVars
  <1>1. CASE Subscribe(c)
    <2>1. UNCHANGED <<phase, status_loop>>
      BY <1>1 DEF Subscribe, clientVars
    <2> QED
      BY <1>s, <2>1, StagesKept
  <1>2. CASE Launch(c) \/ RequestRegistration(c) \/ Connect(c)
    <2>1. ~Up(c) /\ OthersKeep(c)
      BY <1>2, <1>s, <1>t DEF OthersKeep, Launch, RequestRegistration, Connect, Enter, StatusGoto,
         Up, ClientsTypeOK
    <2>2. c \notin requests \cup replies \cup sent_ready \cup counted
      BY <1>0, <2>1 DEF StageOf, Asked, Answered, Flagged, Counted, InReply
    <2>3. StageOf(c)' /\ (Willing(c) => Willing(c)')
      BY <1>s, <2>2 DEF StageOf, Asked, Answered, Flagged, Counted, Willing
    <2> QED
      BY <2>1, <2>3, StagedOf
  <1> QED
    BY <1>1, <1>2 DEF Joining

(* The frontend may say it is ready, or take its trigger, at any stage.    *)
LEMMA FrontendStages ==
    ASSUME TypeOK, Stages, NEW c \in Client, Frontend(c)
    PROVE  StillStaged
  <1>0. StageOf(c)
    BY DEF Stages
  <1>1. /\ UNCHANGED <<counted, requests, replies, inbox, sent_ready, phase, status_loop>>
        /\ ready' \in {ready, ready \cup {c}}
    BY DEF Frontend, SetReady, HasTrigger, networkVars, serverVars
  <1>2. OthersKeep(c)
    BY <1>1 DEF OthersKeep
  <1>3. StageOf(c)' /\ (Willing(c) => Willing(c)')
    BY <1>0, <1>1 DEF StageOf, Asked, Answered, Flagged, Counted, Willing, InReply, Up
  <1> QED
    BY <1>2, <1>3, StagedOf

LEMMA TimeOutStages ==
    ASSUME TypeOK, Stages, NEW c \in Client, TimeOut(c), UNCHANGED serverVars
    PROVE  StillStaged
  <1>0. StageOf(c)
    BY DEF Stages
  <1>1. /\ UNCHANGED <<counted, requests, replies, inbox, sent_ready, phase, ready>>
        /\ status_loop' = [status_loop EXCEPT ![c] = "lost"]
    BY DEF TimeOut, StatusGoto, flagVars, networkVars, serverVars
  <1>2. OthersKeep(c)
    BY <1>1 DEF OthersKeep, TypeOK, ClientsTypeOK
  <1>3. status_loop'[c] = "lost" /\ status_loop[c] \in {"reply", "trigger"}
    BY <1>1 DEF TimeOut, Status, TypeOK, ClientsTypeOK
  <1>4. StageOf(c)' /\ (Willing(c) => Willing(c)')
    BY <1>0, <1>1, <1>3 DEF StageOf, Asked, Answered, Flagged, Counted, Willing, InReply, Up
  <1> QED
    BY <1>2, <1>4, StagedOf

(* A client that leaves: no message of it, or for it, is left.             *)
LEMMA LeaveStages ==
    ASSUME TypeOK, Stages, NEW c \in Client, RestartThread(c) \/ Die(c)
    PROVE  StillStaged
  <1>t. ClientsTypeOK /\ NetworkTypeOK
    BY DEF TypeOK
  <1>1. /\ sent_ready' = sent_ready \ {c} /\ counted' = counted \ {c}
        /\ Disconnect(c) /\ ready' \in {ready, ready \ {c}}
        /\ StatusGoto(c, "none") /\ (Enter(c, "register") \/ Enter(c, "off"))
    BY DEF RestartThread, Die, Restart, Crash, ForsakeCount
  <1>2. OthersKeep(c)
    BY <1>1, <1>t DEF OthersKeep, Disconnect, ForsakeRequest, Enter, StatusGoto,
       ClientsTypeOK, NetworkTypeOK
  <1>3. /\ c \notin requests' \cup replies' \cup sent_ready' \cup counted'
        /\ inbox'[c] = 0
    BY <1>1, <1>t DEF Disconnect, ForsakeRequest, NetworkTypeOK
  <1>4. StageOf(c)' /\ Willing(c)'
    BY <1>3 DEF StageOf, Asked, Answered, Flagged, Counted, Willing
  <1> QED
    BY <1>2, <1>4, StagedOf

(* A frontend that gives up: undisturbed, only what had not begun.         *)
LEMMA GiveUpStages ==
    ASSUME TypeOK, Stages, NEW c \in Client, GiveUp(c)
    PROVE  StillStaged
  <1>0. StageOf(c)
    BY DEF Stages
  <1>1. /\ UNCHANGED <<requests, replies, inbox, phase, status_loop>>
        /\ sent_ready' = sent_ready \ {c} /\ ready' = ready \ {c}
        /\ counted' = IF c \in sent_ready THEN counted \ {c} ELSE counted
        /\ ~disturbed' => c \notin ready
    BY DEF GiveUp, UnsetReady, ForsakeCount, networkVars
  <1>2. OthersKeep(c)
    BY <1>1 DEF OthersKeep
  <1>3. StageOf(c)'
    BY <1>0, <1>1 DEF StageOf, Asked, Answered, Flagged, Counted, InReply, Up
  <1>4. ASSUME Willing(c), ~disturbed' PROVE Willing(c)'
    <2>1. c \notin requests \cup replies \cup sent_ready \cup counted
      BY <1>0, <1>1, <1>4 DEF StageOf, Counted, Willing
    <2> QED
      BY <1>1, <1>4, <2>1 DEF Willing
  <1> QED
    BY <1>2, <1>3, <1>4, StagedOf

LEMMA ClientStages ==
    ASSUME TypeOK, Stages, NEW c \in Client,
           \/ Joining(c) \/ StatusThread(c) \/ Frontend(c) \/ TimeOutAtLast(c)
           \/ TimeOutEarly(c) \/ RestartThread(c) \/ GiveUp(c) \/ Die(c)
    PROVE  StillStaged
  <1>1. CASE TimeOutAtLast(c) \/ TimeOutEarly(c)
    BY <1>1, TimeOutStages DEF TimeOutAtLast, TimeOutEarly
  <1> QED
    BY <1>1, JoiningStages, StatusThreadStages, FrontendStages, LeaveStages, GiveUpStages

-----------------------------------------------------------------------------
(* The count of READYs.                                                    *)

LEMMA EmptyCount == Cardinality({}) = 0
  BY FS_EmptySet

LEMMA CountedFinite ==
    ASSUME TypeOK
    PROVE  IsFiniteSet(counted) /\ Cardinality(counted) \in Nat
  BY ClientsCounted, FS_Subset, FS_CardinalityType DEF TypeOK, ServerTypeOK

(* A counted READY that is forsaken stays in the count, as a stale one.    *)
LEMMA ForsakenStaysCounted ==
    ASSUME TypeOK, CountsWhole, NEW c \in Client, ForsakeCount(c), UNCHANGED clients_ready
    PROVE  CountsWhole'
  <1>1. CASE c \in counted
    <2>1. Cardinality(counted \ {c}) = Cardinality(counted) - 1
      BY <1>1, CountedFinite, FS_RemoveElement
    <2> QED
      BY <1>1, <2>1, CountedFinite DEF CountsWhole, ForsakeCount, TypeOK, ServerTypeOK
  <1>2. CASE c \notin counted
    <2>1. counted' = counted /\ stale' = stale
      BY <1>2 DEF ForsakeCount
    <2> QED
      BY <2>1 DEF CountsWhole
  <1> QED
    BY <1>1, <1>2

LEMMA ClientCount ==
    ASSUME TypeOK, CountsWhole, NEW c \in Client,
           \/ Joining(c) \/ StatusThread(c) \/ Frontend(c) \/ TimeOutAtLast(c)
           \/ TimeOutEarly(c) \/ RestartThread(c) \/ GiveUp(c) \/ Die(c)
    PROVE  CountsWhole'
  <1>1. UNCHANGED clients_ready /\ (ForsakeCount(c) \/ UNCHANGED <<counted, stale>>)
    BY DEF Joining, StatusThread, Frontend, TimeOutAtLast, TimeOutEarly, RestartThread, GiveUp,
       Die, serverVars, serverElse
  <1>2. CASE UNCHANGED <<counted, stale>>
    BY <1>1, <1>2 DEF CountsWhole
  <1> QED
    BY <1>1, <1>2, ForsakenStaysCounted

(* As long as nothing is disturbed a client's step takes no READY back.    *)
LEMMA ClientStale ==
    ASSUME TypeOK, Stages, AllWilling, NothingStale, ~disturbed', NEW c \in Client,
           \/ Joining(c) \/ StatusThread(c) \/ Frontend(c) \/ TimeOutAtLast(c)
           \/ TimeOutEarly(c) \/ RestartThread(c) \/ GiveUp(c) \/ Die(c)
    PROVE  NothingStale'
  <1>0. StageOf(c) /\ Willing(c)
    BY DEF Stages, AllWilling
  <1>1. CASE Joining(c) \/ Frontend(c)
    BY <1>1 DEF Joining, Launch, RequestRegistration, Connect, Subscribe, Frontend, SetReady,
       HasTrigger, serverVars, networkVars, statusVars, NothingStale
  <1>2. CASE StatusLoop(c) /\ UNCHANGED serverVars
    BY <1>2 DEF StatusLoop, RequestTrigger, FlagReady, AwaitTrigger, FlagTrigger, StopWaiting,
       serverVars, networkVars, NothingStale
  <1>3. CASE ReceiveTrigger(c) /\ ForsakeCount(c)
    (* Where a trigger waits nothing is counted. *)
    <2>1. inbox[c] # 0
      BY <1>3 DEF ReceiveTrigger, TypeOK, NetworkTypeOK
    <2>2. c \notin counted
      BY <1>0, <2>1 DEF Willing
    <2> QED
      BY <1>3, <2>2 DEF ReceiveTrigger, ForsakeCount, statusVars, NothingStale
  <1>4. CASE TimeOutAtLast(c) \/ TimeOutEarly(c)
    BY <1>4 DEF TimeOutAtLast, TimeOutEarly, TimeOut, serverVars, networkVars, NothingStale
  <1>5. CASE RestartThread(c) \/ Die(c)
    <2>1. c \notin requests /\ c \notin counted
      BY <1>5 DEF RestartThread, Die, Claims
    <2> QED
      BY <1>5, <2>1 DEF RestartThread, Die, Restart, Crash, Disconnect, ForsakeRequest,
         ForsakeCount, NothingStale
  <1>6. CASE GiveUp(c)
    <2>1. c \notin sent_ready
      BY <1>0, <1>6 DEF GiveUp, Willing
    <2> QED
      BY <1>6, <2>1 DEF GiveUp, UnsetReady, networkVars, NothingStale
  <1> QED
    BY <1>1, <1>2, <1>3, <1>4, <1>5, <1>6 DEF StatusThread

(* A number of clients, not smaller than all, is the number of those that  *)
(* wait: they are all.                                                     *)
LEMMA AllCounted ==
    ASSUME TypeOK, Stages, CountsWhole, EnoughClients, stale = 0, clients_ready >= num_clients
    PROVE  \A c \in Client : Up(c) => c \in counted
  <1>1. PICK R \in SUBSET Client :
          /\ Cardinality(R) <= num_clients
          /\ {c \in Client : Up(c)} \cup confirmations \cup Known \subseteq R
    BY DEF EnoughClients
  <1>2. counted \in SUBSET R
    <2>1. ASSUME NEW c \in counted PROVE c \in Client /\ Up(c)
      BY <2>1 DEF Stages, StageOf, Counted, Answered, Flagged, InReply, TypeOK, ServerTypeOK
    <2> QED
      BY <1>1, <2>1
  <1>3. IsFiniteSet(R) /\ IsFiniteSet(counted)
    BY <1>2, ClientsCounted, FS_Subset
  <1>4. Cardinality(R) \in Nat /\ Cardinality(counted) \in Nat /\ num_clients \in Nat
        /\ clients_ready = Cardinality(counted)
    BY <1>3, FS_CardinalityType DEF TypeOK, ServerTypeOK, CountsWhole
  <1>5. Cardinality(counted) <= Cardinality(R)
    BY <1>2, <1>3, FS_Subset
  <1>6. Cardinality(R) = Cardinality(counted)
    BY <1>1, <1>4, <1>5
  <1>7. R = counted
    BY <1>2, <1>3, <1>6, FS_Subset
  <1> QED
    BY <1>1, <1>7

(* READYs are read and counted, or the count is forgotten.                 *)
LEMMA TriggerThreadStages ==
    ASSUME TypeOK, OnlyUpSubscribed, Stages, Counting, TriggerThread, TypeOK',
           ~disturbed => Undisturbed
    PROVE  Stages' /\ CountsWhole' /\ (~disturbed => NothingStale' /\ AllWilling')
  <1>c. UNCHANGED <<phase, status_loop, ready, sent_ready, disturbed>>
    BY DEF TriggerThread, clientVars, flagVars, faultVars
  <1>w. CountsWhole
    BY DEF Counting
  <1>1. CASE BeginRun \/ EndRun
    (* What was counted is forgotten. *)
    <2>1. /\ UNCHANGED <<requests, stale_requests, replies, inbox>>
          /\ counted' = {} /\ stale' = 0 /\ clients_ready' = 0
      BY <1>1 DEF BeginRun, EndRun, Forget, networkVars
    <2>2. CountsWhole'
      BY <2>1, EmptyCount DEF CountsWhole
    <2>3. Stages'
      BY <1>c, <2>1 DEF Stages, StageOf, Asked, Answered, Flagged, Counted, InReply, Up
    <2>4. ASSUME Undisturbed PROVE NothingStale' /\ AllWilling'
      BY <1>c, <2>1, <2>4 DEF Undisturbed, NothingStale, AllWilling, Willing
    <2> QED
      BY <2>2, <2>3, <2>4
  <1>2. CASE Continue \/ Idle
    <2>1. UNCHANGED <<requests, stale_requests, replies, inbox, counted, stale, clients_ready>>
      BY <1>2 DEF Continue, Idle, networkVars
    <2>2. CountsWhole' /\ (NothingStale => NothingStale')
      BY <1>w, <2>1 DEF CountsWhole, NothingStale
    <2> QED
      BY <1>c, <2>1, <2>2, StagesKept DEF StillStaged, Undisturbed
  <1>3. ASSUME NEW c \in requests,
               requests' = requests \ {c} /\ replies' = replies \cup {c},
               counted' = counted \cup {c} /\ UNCHANGED <<stale_requests, stale>>,
               clients_ready' = clients_ready + 1 /\ UNCHANGED inbox
        PROVE  Stages' /\ CountsWhole' /\ (~disturbed => NothingStale' /\ AllWilling')
    <2>1. c \in Client
      BY DEF TypeOK, NetworkTypeOK
    <2>2. InReply(c) /\ c \notin sent_ready \cup replies \cup counted
      BY <2>1 DEF Stages, StageOf, Asked
    <2>3. CountsWhole'
      <3>1. Cardinality(counted') = Cardinality(counted) + 1
        BY <1>3, <2>2, CountedFinite, FS_AddElement
      <3> QED
        BY <1>3, <1>w, <3>1, CountedFinite DEF CountsWhole, TypeOK, ServerTypeOK
    <2>4. OthersKeep(c)
      BY <1>3, <1>c DEF OthersKeep
    <2>5. StageOf(c)' /\ (Willing(c) => Willing(c)')
      BY <1>3, <1>c, <2>2 DEF StageOf, Asked, Answered, Flagged, Counted, InReply, Up, Willing
    <2>6. NothingStale => NothingStale'
      BY <1>3 DEF NothingStale
    <2> QED
      BY <1>c, <2>1, <2>3, <2>4, <2>5, <2>6, StagedOf DEF StillStaged, Undisturbed
  <1>4. ASSUME stale_requests > 0, stale_requests' = stale_requests - 1, stale' = stale + 1,
               UNCHANGED <<requests, replies, counted, inbox>>,
               clients_ready' = clients_ready + 1
        PROVE  Stages' /\ CountsWhole' /\ (~disturbed => NothingStale' /\ AllWilling')
    <2>1. disturbed
      BY <1>4 DEF Undisturbed, NothingStale
    <2>2. CountsWhole'
      BY <1>4, <1>w, CountedFinite DEF CountsWhole, TypeOK, ServerTypeOK
    <2>3. Stages'
      BY <1>4, <1>c, StagesKept DEF StillStaged
    <2> QED
      BY <2>1, <2>2, <2>3
  <1>5. CASE ReceiveReady
    BY <1>3, <1>4, <1>5 DEF ReceiveReady, triggerVars
  <1>6. CASE SendTrigger
    <2>1. /\ UNCHANGED <<requests, stale_requests, replies, subscribed>>
          /\ counted' = {} /\ stale' = 0 /\ clients_ready' = 0
          /\ inbox' = Published /\ clients_ready >= num_clients
      BY <1>6 DEF SendTrigger, Forget, statusVars
    <2>2. CountsWhole'
      BY <2>1, EmptyCount DEF CountsWhole
    <2>3. Stages'
      BY <1>c, <2>1 DEF Stages, StageOf, Asked, Answered, Flagged, Counted, InReply, Up
    <2>4. ASSUME ~disturbed, NEW c \in Client PROVE Willing(c)'
      <3>0. StageOf(c) /\ Willing(c) /\ inbox[c] \in Nat /\ EnoughClients /\ stale = 0
        BY <2>4 DEF Stages, Counting, Undisturbed, NothingStale, AllWilling, TypeOK,
           NetworkTypeOK
      <3>1. inbox'[c] = IF c \in subscribed /\ inbox[c] < HighWaterMark
                        THEN inbox[c] + 1 ELSE inbox[c]
        BY <2>1 DEF Published
      <3>2. CASE Up(c)
        (* It was counted: its socket was empty, its READY is read. *)
        <4>1. c \in counted
          BY <1>w, <2>1, <3>0, <3>2, AllCounted
        <4>2. c \in replies \cup sent_ready /\ inbox[c] = 0 /\ c \notin requests
          BY <3>0, <4>1 DEF StageOf, Asked, Counted, Willing
        <4>3. inbox'[c] \in {0, 1}
          BY <3>1, <4>2
        <4> QED
          BY <1>c, <2>1, <3>0, <4>2, <4>3 DEF Willing
      <3>3. CASE ~Up(c)
        (* It does not listen. *)
        <4>1. c \notin subscribed
          BY <3>3 DEF OnlyUpSubscribed
        <4>2. inbox'[c] = inbox[c]
          BY <3>1, <4>1
        <4> QED
          BY <1>c, <2>1, <3>0, <4>2 DEF Willing
      <3> QED
        BY <3>2, <3>3
    <2>5. ~disturbed => NothingStale'
      BY <2>1 DEF Undisturbed, NothingStale
    <2> QED
      BY <2>2, <2>3, <2>4, <2>5 DEF AllWilling
  <1> QED
    BY <1>1, <1>2, <1>5, <1>6 DEF TriggerThread, TriggerLoop

-----------------------------------------------------------------------------
(* The invariant.                                                          *)

LEMMA OnlyUpSubscribedStep ==
    TypeOK /\ OnlyUpSubscribed /\ [Next]_vars => OnlyUpSubscribed'
  <1> SUFFICES ASSUME TypeOK, OnlyUpSubscribed, [Next]_vars PROVE OnlyUpSubscribed'
    OBVIOUS
  <1>t. phase \in [Client -> {"off", "register", "confirm", "up"}]
    BY DEF TypeOK, ClientsTypeOK
  <1>u. UNCHANGED <<phase, subscribed>> => OnlyUpSubscribed'
    BY DEF OnlyUpSubscribed, Up
  <1>1. CASE Owner \/ DropSilent \/ DropLate \/ UNCHANGED vars
    <2>1. UNCHANGED <<phase, subscribed>>
      BY <1>1 DEF Owner, DropSilent, DropLate, CountAnew, SetTriggering, FixNumClients, DropClient, vars,
         clientVars, networkVars
    <2> QED
      BY <1>u, <2>1
  <1>2. CASE TriggerThread
    <2>1. UNCHANGED <<phase, subscribed>>
      BY <1>2 DEF TriggerThread, TriggerLoop, BeginRun, Continue, EndRun, Idle, ReceiveReady,
         SendTrigger, clientVars, networkVars, triggerVars
    <2> QED
      BY <1>u, <2>1
  <1>3. ASSUME NEW c \in Client,
               RegisterThread(c) \/ Heartbeat(c) \/ StatusThread(c) \/ Frontend(c)
               \/ TimeOutAtLast(c) \/ TimeOutEarly(c) \/ GiveUp(c)
        PROVE  OnlyUpSubscribed'
    <2>1. UNCHANGED <<phase, subscribed>>
      BY <1>3 DEF RegisterThread, Register, Heartbeat, Hear, StatusThread, StatusLoop,
         RequestTrigger, FlagReady, AwaitTrigger, FlagTrigger, StopWaiting, ReceiveTrigger,
         Frontend, SetReady, HasTrigger, TimeOutAtLast, TimeOutEarly, TimeOut, GiveUp, UnsetReady,
         clientVars, networkVars, triggerVars
    <2> QED
      BY <1>u, <2>1
  <1>4. ASSUME NEW c \in Client, Joining(c) PROVE OnlyUpSubscribed'
    BY <1>4, <1>t DEF Joining, Launch, RequestRegistration, Connect, Subscribe, Enter, clientVars,
       networkVars, triggerVars, OnlyUpSubscribed, Up
  <1>5. ASSUME NEW c \in Client, RestartThread(c) \/ Die(c) PROVE OnlyUpSubscribed'
    BY <1>5, <1>t DEF RestartThread, Die, Restart, Crash, Disconnect, Enter, OnlyUpSubscribed, Up
  <1> QED
    BY <1>1, <1>2, <1>3, <1>4, <1>5 DEF Next

(* The owner and ClientLoop touch no READY.                                *)
LEMMA CountingLeavesReadys ==
    ASSUME TypeOK, Stages, CountsWhole,
           \/ Owner \/ DropSilent \/ DropLate \/ UNCHANGED vars
           \/ \E c \in Client : RegisterThread(c) \/ Heartbeat(c)
    PROVE  StillStaged /\ CountsWhole' /\ (NothingStale => NothingStale')
  <1>1. UNCHANGED <<phase, status_loop, ready, sent_ready, requests, stale_requests, replies,
                    counted, stale, clients_ready, inbox>>
    BY DEF Owner, SetTriggering, FixNumClients, DropSilent, DropLate, CountAnew, DropClient,
       RegisterThread, Register, Heartbeat, Hear, vars, serverVars, clientVars, flagVars,
       loopVars, networkVars, statusVars, triggerVars
  <1> QED
    BY <1>1, StagesKept DEF CountsWhole, NothingStale

LEMMA CountingInit == Init => Stages /\ Counting /\ Undisturbed /\ OnlyUpSubscribed
  <1> SUFFICES ASSUME Init PROVE Stages /\ Counting /\ Undisturbed /\ OnlyUpSubscribed
    OBVIOUS
  <1>1. CountsWhole /\ NothingStale
    BY EmptyCount DEF Init, ServerInitWith, NetworkInit, CountsWhole, NothingStale
  <1>2. Stages /\ AllWilling
    BY DEF Init, ServerInitWith, ClientsInit, NetworkInit, Stages, StageOf, Asked, Answered,
       Flagged, Counted, AllWilling, Willing
  <1>3. EnoughClients
    <2>1. {c \in Client : Up(c)} = {}
      BY DEF Init, ClientsInit, Up
    <2>2. Known = {} /\ confirmations = {} /\ num_clients = 0
      BY DEF Init, ServerInitWith, NetworkInit, Known
    <2>3. Cardinality({}) <= num_clients
      BY <2>2, EmptyCount
    <2> QED
      BY <2>1, <2>2, <2>3 DEF EnoughClients
  <1>4. OnlyUpSubscribed /\ ~miscounted
    BY DEF Init, NetworkInit, OnlyUpSubscribed
  <1> QED
    BY <1>1, <1>2, <1>3, <1>4 DEF Counting, Undisturbed

(* What is disturbed stays so, and a recount that leaves one out disturbs. *)
LEMMA DisturbedStays ==
    ASSUME [Next]_vars, ~disturbed'
    PROVE  ~disturbed /\ (~miscounted => ~miscounted')
  <1>1. CASE UNCHANGED vars
    BY <1>1 DEF vars, faultVars
  <1>2. CASE Owner \/ TriggerThread
    BY <1>2 DEF Owner, TriggerThread, faultVars
  <1>3. CASE DropSilent \/ DropLate
    <2>1. disturbed' = (disturbed \/ LeftOut) /\ miscounted' = LeftOut
      BY <1>3 DEF DropSilent, DropLate, CountAnew
    <2> QED
      BY <2>1, Zenon
  <1>4. ASSUME NEW c \in Client,
               \/ RegisterThread(c) \/ Heartbeat(c) \/ Joining(c) \/ StatusThread(c)
               \/ Frontend(c) \/ TimeOutAtLast(c) \/ TimeOutEarly(c)
        PROVE  ~disturbed /\ (~miscounted => ~miscounted')
    BY <1>4 DEF RegisterThread, Heartbeat, Joining, StatusThread, Frontend, TimeOutAtLast,
       TimeOutEarly, faultVars
  <1>5. ASSUME NEW c \in Client, RestartThread(c) \/ GiveUp(c) \/ Die(c)
        PROVE  ~disturbed /\ (~miscounted => ~miscounted')
    <2>1. UNCHANGED miscounted /\ \E b : disturbed' = (disturbed \/ b)
      BY <1>5 DEF RestartThread, GiveUp, Die
    <2> QED
      BY <2>1, Zenon
  <1> QED
    BY <1>1, <1>2, <1>3, <1>4, <1>5 DEF Next

LEMMA IInvInit == Init => IInv
  BY TypeInit, CountingInit DEF IInv

LEMMA IInvStep == IInv /\ [Next]_vars => IInv'
  <1> SUFFICES ASSUME IInv, [Next]_vars PROVE IInv'
    OBVIOUS
  <1>1. /\ TypeOK /\ FixedIsAll /\ OnlyUpSubscribed /\ Stages /\ Counting /\ CountsWhole
        /\ ~miscounted => EnoughClients
        /\ ~disturbed => Undisturbed
    BY DEF IInv, Counting
  <1>2. TypeOK' /\ FixedIsAll' /\ OnlyUpSubscribed'
    BY <1>1, TypeStep, OnlyUpSubscribedStep
  <1>3. ~miscounted' => EnoughClients'
    BY <1>1, <1>2, EnoughStep
  <1>4. ~disturbed' => ~disturbed /\ ~miscounted' /\ Undisturbed
    BY <1>1, DisturbedStays DEF Undisturbed
  <1>5. Stages' /\ CountsWhole' /\ (~disturbed' => NothingStale' /\ AllWilling')
    <2>1. CASE TriggerThread
      BY <1>1, <1>2, <1>4, <2>1, TriggerThreadStages
    <2>2. CASE \/ Owner \/ DropSilent \/ DropLate \/ UNCHANGED vars
               \/ \E c \in Client : RegisterThread(c) \/ Heartbeat(c)
      BY <1>1, <1>4, <2>2, CountingLeavesReadys DEF StillStaged, Undisturbed
    <2>3. ASSUME NEW c \in Client,
                 \/ Joining(c) \/ StatusThread(c) \/ Frontend(c) \/ TimeOutAtLast(c)
                 \/ TimeOutEarly(c) \/ RestartThread(c) \/ GiveUp(c) \/ Die(c)
          PROVE  Stages' /\ CountsWhole' /\ (~disturbed' => NothingStale' /\ AllWilling')
      <3>1. StillStaged /\ CountsWhole'
        BY <1>1, <2>3, ClientStages, ClientCount
      <3>2. ASSUME ~disturbed' PROVE NothingStale'
        BY <1>1, <1>4, <2>3, <3>2, ClientStale DEF Undisturbed
      <3> QED
        BY <1>4, <3>1, <3>2 DEF StillStaged, Undisturbed
    <2> QED
      BY <2>1, <2>2, <2>3 DEF Next
  <1> QED
    BY <1>2, <1>3, <1>4, <1>5 DEF IInv, Counting, Undisturbed

LEMMA SyncInvariant == Spec => []IInv
  BY IInvInit, IInvStep, PTL DEF Spec

(* Until a READY is taken back that is or will be counted, or a recount    *)
(* leaves out a client that runs, no client is a trigger ahead: at most    *)
(* one waits in its socket, and only while the client waits for it.        *)
THEOREM ClientsInStep == Spec => []InStep
  <1>1. IInv => InStep
    BY DEF IInv, Undisturbed, AllWilling, Willing, InStep, TypeOK, NetworkTypeOK
  <1> QED
    BY <1>1, SyncInvariant, PTL

(* A trigger goes out only when every client that is up was counted for    *)
(* it, unless a READY counted for it was taken back or the last recount    *)
(* left out a client that runs: the two numbers TriggerLoop compares say   *)
(* so though the one counts messages and the other heartbeats.             *)
THEOREM TriggersAwaitAll == Spec => AllWereReady
  <1> DEFINE Sent == /\ trigger_loop = "poll" /\ trigger_loop' = "while"
                     /\ clients_ready # 0 /\ clients_ready' = 0
                     /\ stale = 0 /\ ~miscounted
             Waited == \A c \in Client : Up(c) => c \in counted
  <1>1. ASSUME IInv, [Next]_vars, Sent PROVE Waited
    <2>1. TypeOK /\ Stages /\ CountsWhole /\ EnoughClients /\ stale = 0
      BY <1>1 DEF IInv, Counting
    <2>2. CASE SendTrigger
      BY <2>1, <2>2, AllCounted DEF SendTrigger
    <2>3. ASSUME TriggerThread, ~SendTrigger PROVE FALSE
      <3>1. clients_ready \in Nat
        BY <2>1 DEF TypeOK, ServerTypeOK
      <3> QED
        BY <1>1, <2>3, <3>1 DEF TriggerThread, TriggerLoop, BeginRun, Continue, EndRun,
           ReceiveReady, Idle
    <2>4. ASSUME UNCHANGED trigger_loop PROVE FALSE
      BY <1>1, <2>4
    <2>5. CASE Owner \/ DropSilent \/ DropLate \/ UNCHANGED vars
      BY <2>4, <2>5 DEF Owner, SetTriggering, FixNumClients, DropSilent, DropLate, CountAnew, DropClient,
         loopVars, vars, serverVars, clientVars
    <2>6. ASSUME NEW c \in Client,
                 \/ RegisterThread(c) \/ Heartbeat(c) \/ Joining(c) \/ StatusThread(c)
                 \/ Frontend(c) \/ TimeOutAtLast(c) \/ TimeOutEarly(c) \/ RestartThread(c)
                 \/ GiveUp(c) \/ Die(c)
          PROVE  UNCHANGED trigger_loop
      BY <2>6 DEF RegisterThread, Register, Heartbeat, Hear, Joining, StatusThread, Frontend,
         TimeOutAtLast, TimeOutEarly, RestartThread, GiveUp, Die, loopVars, serverVars, serverElse
    <2> QED
      BY <1>1, <2>2, <2>3, <2>4, <2>5, <2>6 DEF Next
  <1>2. IInv /\ [Next]_vars => [Sent => Waited]_vars
    BY <1>1
  <1> QED
    BY <1>2, SyncInvariant, PTL DEF Spec, AllWereReady
=============================================================================
