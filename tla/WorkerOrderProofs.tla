--------------------------- MODULE WorkerOrderProofs ---------------------------
(***************************************************************************)
(* The order of one worker's events, from its digitizer to its queue, for  *)
(* a worker whose events cannot be mixed with another's (Alone).  A place  *)
(* on the way of the events is bounded by the triggers it may hold: all    *)
(* that is further on came from triggers up to some n, all that is to come *)
(* from triggers after n.  A step moves an event past such a bound, and    *)
(* the bound with it.                                                      *)
(* With triggers further apart than an event takes, and the static         *)
(* variables of every worker its own, all on its way is of the last one,   *)
(* and so is all that a thread gathers (Together).                         *)
(***************************************************************************)
EXTENDS WorkerListProofs

(* A worker with static variables of its own.                              *)
OwnStatics(w) == \A v \in Worker : Kind[v] = Kind[w] => v = w

(* Its device's memory, too, is not sampled into while it is read.         *)
Alone(w) == ~Device(w).shares_memory /\ OwnStatics(w)

(* The event of a trigger after low and up to high; and such events in the *)
(* order of their triggers.                                                *)
In(event, w, low, high) == \E n \in low + 1 .. high : event = Whole(w, n)

Run(s, w, low, high) ==
    /\ \A i \in 1..Len(s) : In(s[i], w, low, high)
    /\ \A i, j \in 1..Len(s) : \A m, n \in 1..high :
          i < j /\ s[i] = Whole(w, m) /\ s[j] = Whole(w, n) => m < n

InProgress(w) == work[w] \in {"read", "finish", "push"}

(* The event being read out is no longer in the digitizer's care.          *)
Handed(w) == Device(w).taken_at_poll \/ work[w] = "push"

(* The digitizer hands over its triggers in their order, and its worker    *)
(* reads the one handed over.                                              *)
DeviceOrdered(w) ==
    /\ work[w] # "dump"
    /\ \A i \in 1..Len(captured[w]) : captured[w][i] \in 1..triggers
    /\ \A i, j \in 1..Len(captured[w]) : i < j => captured[w][i] < captured[w][j]
    /\ InProgress(w) =>
          /\ memory[w] \in 1..triggers
          /\ IF Handed(w) THEN \A i \in 1..Len(captured[w]) : memory[w] < captured[w][i]
             ELSE captured[w] # <<>> /\ captured[w][1] = memory[w]
    /\ work[w] \in {"finish", "push"} => static_bundle[Kind[w]][1] = Whole(w, memory[w])
    /\ work[w] = "push" => static_bundle[Kind[w]][2] = Whole(w, memory[w])

(* What the digitizer holds, and what is being read, came after trigger n. *)
DevicePast(w, n) ==
    /\ \A i \in 1..Len(captured[w]) : n < captured[w][i]
    /\ InProgress(w) => n < memory[w]

(* So did what is queued, and it is in order.                              *)
WorkerPast(w, low) ==
    \E n \in low..triggers : Run(data_queue[w], w, low, n) /\ DevicePast(w, n)

-----------------------------------------------------------------------------
(* Sequences of events between two bounds.                                 *)

LEMMA WholeTells ==
    ASSUME NEW w, NEW m, NEW n, Whole(w, m) = Whole(w, n)
    PROVE  m = n
<1>1. <<w, m>> \in Whole(w, n)
  BY DEF Whole
<1>2. <<w, m>> = <<w, n>>
  BY <1>1 DEF Whole
<1> QED BY <1>2

LEMMA InWidens ==
    ASSUME NEW w, NEW event, NEW low \in Nat, NEW high \in Nat, In(event, w, low, high),
           NEW lower \in Nat, lower <= low, NEW higher \in Nat, high <= higher
    PROVE  In(event, w, lower, higher)
BY DEF In

LEMMA RunEmpty == ASSUME NEW w, NEW low, NEW high PROVE Run(<<>>, w, low, high)
BY DEF Run

LEMMA RunWidens ==
    ASSUME NEW w, NEW S, NEW s \in Seq(S), NEW low \in Nat, NEW high \in Nat, Run(s, w, low, high),
           NEW lower \in Nat, lower <= low, NEW higher \in Nat, high <= higher
    PROVE  Run(s, w, lower, higher)
<1>1. \A i \in 1..Len(s) : In(s[i], w, lower, higher)
  BY InWidens DEF Run
<1>2. ASSUME NEW i \in 1..Len(s), NEW n \in 1..higher, s[i] = Whole(w, n)
      PROVE  n \in 1..high
  BY <1>2, WholeTells DEF Run, In
<1> QED BY <1>1, <1>2 DEF Run

LEMMA RunJoins ==
    ASSUME NEW w, NEW S, NEW s \in Seq(S), NEW t \in Seq(S),
           NEW low \in Nat, NEW mid \in Nat, NEW high \in Nat, low <= mid, mid <= high,
           Run(s, w, low, mid), Run(t, w, mid, high)
    PROVE  Run(s \o t, w, low, high)
<1> DEFINE u == s \o t
<1>1. /\ u \in Seq(S) /\ Len(u) = Len(s) + Len(t) /\ Len(s) \in Nat /\ Len(t) \in Nat
      /\ \A i \in 1..Len(u) : u[i] = IF i <= Len(s) THEN s[i] ELSE t[i - Len(s)]
  OBVIOUS
<1> HIDE DEF u
<1>2. \A i \in 1..Len(s) : \E n \in low + 1 .. mid : u[i] = s[i] /\ s[i] = Whole(w, n)
  BY <1>1 DEF Run, In
<1>3. ASSUME NEW i \in 1..Len(u), i > Len(s)
      PROVE  i - Len(s) \in 1..Len(t) /\ \E n \in mid + 1 .. high : /\ u[i] = t[i - Len(s)]
                                                                   /\ u[i] = Whole(w, n)
  <2>1. i - Len(s) \in 1..Len(t)
    BY <1>1, <1>3
  <2>2. u[i] = t[i - Len(s)]
    BY <1>1, <1>3
  <2> QED BY <2>1, <2>2 DEF Run, In
<1>4. ASSUME NEW i \in 1..Len(u) PROVE In(u[i], w, low, high)
  <2>1. CASE i <= Len(s)
    <3>1. i \in 1..Len(s)
      BY <1>1, <2>1
    <3>2. PICK n \in low + 1 .. mid : u[i] = Whole(w, n)
      BY <1>2, <3>1
    <3> QED BY <3>2 DEF In
  <2>2. CASE i > Len(s)
    <3>1. PICK n \in mid + 1 .. high : u[i] = Whole(w, n)
      BY <1>3, <2>2
    <3> QED BY <3>1 DEF In
  <2> QED BY <1>1, <2>1, <2>2
<1>5. ASSUME NEW i \in 1..Len(u), NEW j \in 1..Len(u), NEW m \in 1..high, NEW n \in 1..high,
             i < j, u[i] = Whole(w, m), u[j] = Whole(w, n)
      PROVE  m < n
  <2>1. CASE j <= Len(s)
    <3>1. i \in 1..Len(s) /\ j \in 1..Len(s) /\ u[i] = s[i] /\ u[j] = s[j]
      BY <1>1, <1>5, <2>1
    <3>2. m \in 1..mid /\ n \in 1..mid
      <4>1. PICK k \in low + 1 .. mid : s[i] = Whole(w, k)
        BY <1>2, <3>1
      <4>2. PICK l \in low + 1 .. mid : s[j] = Whole(w, l)
        BY <1>2, <3>1
      <4>3. m = k /\ n = l
        BY <1>5, <3>1, <4>1, <4>2, WholeTells
      <4> QED BY <4>3
    <3>3. s[i] = Whole(w, m) /\ s[j] = Whole(w, n)
      BY <1>5, <3>1
    <3>4. i < j
      BY <1>5
    <3> QED BY <3>1, <3>2, <3>3, <3>4 DEF Run
  <2>2. CASE i <= Len(s) /\ j > Len(s)
    <3>1. m <= mid
      BY <1>1, <1>2, <1>5, <2>2, WholeTells
    <3>2. n > mid
      BY <1>3, <1>5, <2>2, WholeTells
    <3> QED BY <3>1, <3>2
  <2>3. CASE i > Len(s)
    <3>1. /\ i - Len(s) \in 1..Len(t) /\ j - Len(s) \in 1..Len(t)
          /\ u[i] = t[i - Len(s)] /\ u[j] = t[j - Len(s)] /\ i - Len(s) < j - Len(s)
      BY <1>1, <1>3, <1>5, <2>3
    <3> QED BY <1>5, <3>1 DEF Run
  <2> QED BY <1>1, <2>1, <2>2, <2>3
<1>6. Run(u, w, low, high)
  BY <1>4, <1>5 DEF Run
<1> QED BY <1>6 DEF u

LEMMA RunOne ==
    ASSUME NEW w, NEW event, NEW low, NEW high, In(event, w, low, high)
    PROVE  Run(<<event>>, w, low, high)
BY DEF Run

LEMMA RunAppends ==
    ASSUME NEW w, NEW S, NEW s \in Seq(S), NEW event \in S,
           NEW low \in Nat, NEW mid \in Nat, NEW high \in Nat, low <= mid, mid <= high,
           Run(s, w, low, mid), In(event, w, mid, high)
    PROVE  Run(Append(s, event), w, low, high)
<1>1. Append(s, event) = s \o <<event>> /\ <<event>> \in Seq(S)
  OBVIOUS
<1> QED BY <1>1, RunOne, RunJoins

(* The first of a run, and what follows it.                                *)
LEMMA RunHead ==
    ASSUME NEW w, NEW S, NEW s \in Seq(S), s # <<>>, NEW low \in Nat, NEW high \in Nat,
           Run(s, w, low, high)
    PROVE  \E n \in low + 1 .. high :
              Head(s) = Whole(w, n) /\ Run(Tail(s), w, n, high)
<1> DEFINE t == Tail(s)
<1>1. /\ t \in Seq(S) /\ Len(t) = Len(s) - 1 /\ Len(s) \in Nat \ {0} /\ Head(s) = s[1]
      /\ \A i \in 1..Len(t) : t[i] = s[i + 1]
  BY HeadTailProperties
<1>2. PICK n \in low + 1 .. high : s[1] = Whole(w, n)
  BY <1>1 DEF Run, In
<1> HIDE DEF t
<1>3. ASSUME NEW i \in 1..Len(t) PROVE In(t[i], w, n, high)
  <2>1. i + 1 \in 1..Len(s) /\ 1 \in 1..Len(s) /\ t[i] = s[i + 1]
    BY <1>1
  <2>2. PICK m \in low + 1 .. high : s[i + 1] = Whole(w, m)
    BY <2>1 DEF Run, In
  <2>3. n < m
    BY <1>2, <2>1, <2>2 DEF Run
  <2> QED BY <2>1, <2>2, <2>3 DEF In
<1>4. ASSUME NEW i \in 1..Len(t), NEW j \in 1..Len(t), NEW m \in 1..high, NEW k \in 1..high,
             i < j, t[i] = Whole(w, m), t[j] = Whole(w, k)
      PROVE  m < k
  <2>1. i + 1 \in 1..Len(s) /\ j + 1 \in 1..Len(s) /\ t[i] = s[i + 1] /\ t[j] = s[j + 1]
    BY <1>1
  <2>2. i + 1 < j + 1
    BY <1>4
  <2> QED BY <1>4, <2>1, <2>2 DEF Run
<1>5. Run(t, w, n, high)
  BY <1>3, <1>4 DEF Run
<1> QED BY <1>1, <1>2, <1>5 DEF t

-----------------------------------------------------------------------------
(* A worker that is alone.                                                 *)

LEMMA AloneDumpsNothing ==
    ASSUME NEW w \in Worker, Alone(w)
    PROVE  ~Device(w).dumps_first
<1>1. Kind[w] \in {"sis_3350", "sis_3302", "caen_1785", "caen_6742", "drs4", "caen_1742",
                   "sis_3316"}
  BY KindIsKind DEF Kinds, DeviceClass
<1>2. Sis3302.shares_memory
  BY DEF Sis3302, Common
<1>3. /\ ~Sis3350.dumps_first /\ ~Caen1785.dumps_first /\ ~Caen6742.dumps_first
      /\ ~Drs4.dumps_first /\ ~Caen1742.dumps_first /\ ~Sis3316.dumps_first
  BY DEF Sis3350, Caen1785, Caen6742, Drs4, Caen1742, Sis3316, Common
<1>4. Kind[w] # "sis_3302"
  <2>1. ASSUME Kind[w] = "sis_3302" PROVE Device(w) = Sis3302
    BY <2>1 DEF Device, DeviceClass
  <2> QED BY <1>2, <2>1 DEF Alone
<1>5. Device(w) \in {Sis3350, Caen1785, Caen6742, Drs4, Caen1742, Sis3316}
  BY <1>1, <1>4 DEF Device, DeviceClass
<1> QED BY <1>3, <1>5

(* Its thread acts on the status of its own digitizer.                     *)
LEMMA AlonePolls ==
    ASSUME NEW w \in Worker, OwnStatics(w), Poll(w)
    PROVE  /\ captured[w] # <<>> /\ work' = [work EXCEPT ![w] = "read"]
           /\ work[w] = "poll"
           /\ memory' = [memory EXCEPT ![w] = Head(captured[w])]
           /\ captured' = [captured EXCEPT ![w] =
                  IF Device(w).taken_at_poll THEN Tail(captured[w]) ELSE captured[w]]
           /\ UNCHANGED <<triggers, static_bundle, data_queue, has_event>>
<1>1. \A status \in Statuses(w) : status = (captured[w] # <<>>)
  BY DEF Statuses, OwnStatics
<1>2. PICK seen \in Statuses(w), returned \in Statuses(w) :
         /\ seen
         /\ memory' = [memory EXCEPT ![w] = Exposed(w)]
         /\ captured' = [captured EXCEPT ![w] =
                IF Device(w).taken_at_poll THEN HandOver(w) ELSE @]
         /\ work' = [work EXCEPT ![w] = IF returned THEN "read" ELSE "poll"]
  BY DEF Poll
<1>3. captured[w] # <<>> /\ returned
  BY <1>1, <1>2
<1> QED BY <1>2, <1>3 DEF Poll, Exposed, HandOver, queueVars

(* A step that leaves the worker as it was, but for new triggers.          *)
LEMMA WorkerUntouched ==
    ASSUME NEW w \in Worker, triggers \in Nat, triggers' \in Nat, triggers <= triggers',
           captured'[w] = captured[w], memory'[w] = memory[w],
           static_bundle'[Kind[w]] = static_bundle[Kind[w]],
           data_queue'[w] = data_queue[w],
           \/ work'[w] = work[w]
           \/ ~InProgress(w) /\ work'[w] \in {"none", "poll"}
    PROVE  /\ DeviceOrdered(w) => DeviceOrdered(w)'
           /\ \A low \in Nat : WorkerPast(w, low) => WorkerPast(w, low)'
<1>1. /\ InProgress(w)' = InProgress(w)
      /\ InProgress(w) => Handed(w)' = Handed(w) /\ work'[w] = work[w]
      /\ work'[w] \in {"finish", "push"} => InProgress(w)
      /\ work[w] # "dump" => work'[w] # "dump"
  BY DEF InProgress, Handed
<1>2. ASSUME DeviceOrdered(w) PROVE DeviceOrdered(w)'
  <2>1. \A i \in 1..Len(captured'[w]) : captured'[w][i] \in 1..triggers'
    BY <1>2 DEF DeviceOrdered
  <2>2. InProgress(w) => memory'[w] \in 1..triggers'
    BY <1>2 DEF DeviceOrdered
  <2> QED BY <1>1, <1>2, <2>1, <2>2 DEF DeviceOrdered, InProgress
<1>3. ASSUME NEW low \in Nat, WorkerPast(w, low) PROVE WorkerPast(w, low)'
  <2>1. PICK n \in low..triggers : Run(data_queue[w], w, low, n) /\ DevicePast(w, n)
    BY <1>3 DEF WorkerPast
  <2>2. n \in low..triggers' /\ Run(data_queue'[w], w, low, n) /\ DevicePast(w, n)'
    BY <1>1, <2>1 DEF DevicePast
  <2> QED BY <2>2 DEF WorkerPast
<1> QED BY <1>2, <1>3

(* The readout of one event: its trigger is handed over, both halves are   *)
(* read, and it is queued.                                                 *)
LEMMA TailOfCaptured ==
    ASSUME WorkersTypeOK, NEW w \in Worker, captured[w] # <<>>
    PROVE  /\ Len(captured[w]) \in Nat \ {0} /\ Head(captured[w]) = captured[w][1]
           /\ captured[w] \in Seq(Nat) /\ captured[w][1] \in Nat
           /\ Tail(captured[w]) \in Seq(Nat)
           /\ Len(Tail(captured[w])) = Len(captured[w]) - 1
           /\ \A i \in 1..Len(Tail(captured[w])) :
                 i + 1 \in 1..Len(captured[w]) /\ Tail(captured[w])[i] = captured[w][i + 1]
<1>1. captured[w] \in Seq(Nat)
  BY DEF WorkersTypeOK
<1> DEFINE c == captured[w]
<1> HIDE DEF c
<1>2. c \in Seq(Nat) /\ c # <<>>
  BY <1>1 DEF c
<1>3. /\ Len(c) \in Nat \ {0} /\ Head(c) = c[1] /\ c[1] \in Nat
      /\ Tail(c) \in Seq(Nat) /\ Len(Tail(c)) = Len(c) - 1
      /\ \A i \in 1..Len(Tail(c)) : i + 1 \in 1..Len(c) /\ Tail(c)[i] = c[i + 1]
  BY <1>2
<1> QED BY <1>1, <1>3 DEF c

LEMMA PollOrdered ==
    ASSUME WorkersTypeOK, NEW w \in Worker, Alone(w), Poll(w), DeviceOrdered(w)
    PROVE  /\ DeviceOrdered(w)'
           /\ \A low \in Nat : WorkerPast(w, low) => WorkerPast(w, low)'
<1> DEFINE c == captured[w]
<1>0. triggers \in Nat /\ captured \in [Worker -> Seq(Nat)] /\ memory \in [Worker -> Nat]
      /\ work \in [Worker -> {"none", "dump", "poll", "read", "finish", "push"}]
  BY DEF WorkersTypeOK
<1>1. /\ captured[w] # <<>> /\ work'[w] = "read" /\ work[w] = "poll"
      /\ memory'[w] = captured[w][1]
      /\ captured'[w] = IF Device(w).taken_at_poll THEN Tail(captured[w]) ELSE captured[w]
      /\ UNCHANGED <<triggers, static_bundle, data_queue>>
  BY <1>0, AlonePolls, TailOfCaptured DEF Alone
<1>2. /\ Len(c) \in Nat \ {0} /\ c[1] \in Nat
      /\ Len(Tail(c)) = Len(c) - 1
      /\ \A i \in 1..Len(Tail(c)) : i + 1 \in 1..Len(c) /\ Tail(c)[i] = c[i + 1]
      /\ \A i \in 1..Len(c) : c[i] \in 1..triggers
      /\ \A i, j \in 1..Len(c) : i < j => c[i] < c[j]
  BY <1>1, TailOfCaptured DEF DeviceOrdered
<1> DEFINE t == captured'[w]
<1>3. /\ \A i \in 1..Len(t) : t[i] \in 1..triggers /\ \E k \in 1..Len(c) : t[i] = c[k]
      /\ \A i, j \in 1..Len(t) : i < j => t[i] < t[j]
      /\ IF Device(w).taken_at_poll THEN \A i \in 1..Len(t) : c[1] < t[i]
         ELSE t = c
  <2>1. CASE Device(w).taken_at_poll
    <3>1. t = Tail(c)
      BY <1>1, <2>1
    <3> HIDE DEF c, t
    <3>2. \A i \in 1..Len(t) : t[i] = c[i + 1] /\ i + 1 \in 1..Len(c) /\ 1 < i + 1
      BY <1>2, <3>1
    <3>3. \A i \in 1..Len(t) : c[1] < t[i]
      BY <1>2, <3>2
    <3>4. \A i, j \in 1..Len(t) : i < j => t[i] < t[j]
      BY <1>2, <3>2
    <3>5. \A i \in 1..Len(t) : t[i] \in 1..triggers /\ \E k \in 1..Len(c) : t[i] = c[k]
      BY <1>2, <3>2
    <3> QED BY <2>1, <3>3, <3>4, <3>5
  <2>2. CASE ~Device(w).taken_at_poll
    <3>1. t = c
      BY <1>1, <2>2
    <3> HIDE DEF c, t
    <3> QED BY <1>2, <2>2, <3>1
  <2> QED BY <2>1, <2>2
<1>4. DeviceOrdered(w)'
  BY <1>1, <1>2, <1>3 DEF DeviceOrdered, InProgress, Handed
<1>5. ASSUME NEW low \in Nat, WorkerPast(w, low) PROVE WorkerPast(w, low)'
  <2>1. PICK n \in low..triggers : Run(data_queue[w], w, low, n) /\ DevicePast(w, n)
    BY <1>5 DEF WorkerPast
  <2>2. \A k \in 1..Len(c) : n < c[k]
    BY <2>1 DEF DevicePast
  <2>3. \A i \in 1..Len(t) : n < t[i]
    BY <1>3, <2>2
  <2>4. n < memory'[w]
    BY <1>1, <1>2, <2>2
  <2>5. DevicePast(w, n)'
    BY <2>3, <2>4 DEF DevicePast
  <2> QED BY <1>1, <2>1, <2>5 DEF WorkerPast
<1> QED BY <1>4, <1>5

LEMMA ReadOrdered ==
    ASSUME WorkersTypeOK, NEW w \in Worker, Alone(w), Read(w) \/ Finish(w), DeviceOrdered(w)
    PROVE  /\ DeviceOrdered(w)'
           /\ \A low \in Nat : WorkerPast(w, low) => WorkerPast(w, low)'
<1> DEFINE c == captured[w]
           t == captured'[w]
           m == memory[w]
<1>0. /\ triggers \in Nat /\ captured \in [Worker -> Seq(Nat)] /\ m \in Nat
      /\ work \in [Worker -> {"none", "dump", "poll", "read", "finish", "push"}]
      /\ static_bundle \in [Kinds -> [1..2 -> Event]] /\ Kind[w] \in Kinds
  BY KindIsKind DEF WorkersTypeOK
<1>1. /\ UNCHANGED <<triggers, memory, data_queue>>
      /\ \/ work[w] = "read" /\ work'[w] = "finish" /\ ReadHalf(w, 1) /\ t = c
         \/ /\ work[w] = "finish" /\ work'[w] = "push" /\ ReadHalf(w, 2)
            /\ t = IF Device(w).taken_at_poll THEN c ELSE HandOver(w)
  BY <1>0 DEF Read, Finish, deviceVars, queueVars
<1>2. /\ m \in 1..triggers
      /\ IF Device(w).taken_at_poll THEN \A i \in 1..Len(c) : m < c[i]
         ELSE c # <<>> /\ c[1] = m
      /\ \A i \in 1..Len(c) : c[i] \in 1..triggers
      /\ \A i, j \in 1..Len(c) : i < j => c[i] < c[j]
  BY <1>1 DEF DeviceOrdered, InProgress, Handed
<1>3. /\ work'[w] = "finish" => static_bundle'[Kind[w]][1] = Whole(w, m)
      /\ work'[w] = "push" => /\ static_bundle'[Kind[w]][2] = Whole(w, m)
                              /\ static_bundle'[Kind[w]][1] = static_bundle[Kind[w]][1]
                              /\ static_bundle[Kind[w]][1] = Whole(w, m)
  <2>1. ASSUME NEW half \in 1..2, ReadHalf(w, half)
        PROVE  /\ static_bundle'[Kind[w]][half] = Whole(w, m)
               /\ half = 2 => static_bundle'[Kind[w]][1] = static_bundle[Kind[w]][1]
    <3>1. m # 0
      BY <1>2
    <3>2. static_bundle' = [static_bundle EXCEPT ![Kind[w]][half] = {<<w, m>>}]
      BY <2>1, <3>1 DEF ReadHalf
    <3> HIDE DEF m
    <3> QED BY <1>0, <3>2 DEF Whole
  <2> QED BY <1>1, <2>1 DEF DeviceOrdered
<1>4. /\ \A i \in 1..Len(t) : t[i] \in 1..triggers /\ \E k \in 1..Len(c) : t[i] = c[k]
      /\ \A i, j \in 1..Len(t) : i < j => t[i] < t[j]
      /\ IF Device(w).taken_at_poll \/ work'[w] = "push" THEN \A i \in 1..Len(t) : m < t[i]
         ELSE t # <<>> /\ t[1] = m
  <2>1. CASE t = c /\ (Device(w).taken_at_poll \/ work'[w] # "push")
    <3> HIDE DEF c, m, t
    <3> QED BY <1>2, <2>1
  <2>2. CASE work'[w] = "push" /\ ~Device(w).taken_at_poll
    <3>1. c # <<>> /\ c[1] = m /\ t = Tail(c)
      BY <1>1, <1>2, <2>2 DEF HandOver
    <3>2. /\ Len(c) \in Nat \ {0}
          /\ Len(Tail(c)) = Len(c) - 1
          /\ \A i \in 1..Len(Tail(c)) : i + 1 \in 1..Len(c) /\ Tail(c)[i] = c[i + 1]
      BY <3>1, TailOfCaptured
    <3> HIDE DEF c, t, m
    <3>3. \A i \in 1..Len(t) : t[i] = c[i + 1] /\ i + 1 \in 1..Len(c) /\ 1 < i + 1
      BY <3>1, <3>2
    <3>4. \A i \in 1..Len(t) : m < t[i]
      BY <1>2, <3>1, <3>2, <3>3
    <3>5. \A i, j \in 1..Len(t) : i < j => t[i] < t[j]
      BY <1>2, <3>2, <3>3
    <3>6. \A i \in 1..Len(t) : t[i] \in 1..triggers /\ \E k \in 1..Len(c) : t[i] = c[k]
      BY <1>2, <3>3
    <3> QED BY <2>2, <3>4, <3>5, <3>6
  <2> QED BY <1>1, <2>1, <2>2
<1>5. DeviceOrdered(w)'
  BY <1>1, <1>2, <1>3, <1>4 DEF DeviceOrdered, InProgress, Handed
<1>6. ASSUME NEW low \in Nat, WorkerPast(w, low) PROVE WorkerPast(w, low)'
  <2>1. PICK n \in low..triggers : Run(data_queue[w], w, low, n) /\ DevicePast(w, n)
    BY <1>6 DEF WorkerPast
  <2>2. n < m /\ \A k \in 1..Len(c) : n < c[k]
    BY <1>1, <2>1 DEF DevicePast, InProgress
  <2>3. \A i \in 1..Len(t) : n < t[i]
    BY <1>4, <2>2
  <2>4. DevicePast(w, n)'
    BY <1>1, <2>2, <2>3 DEF DevicePast
  <2> QED BY <1>1, <2>1, <2>4 DEF WorkerPast
<1> QED BY <1>5, <1>6

LEMMA DropOldOrdered ==
    ASSUME NEW w \in Worker, NEW queue \in Seq(Event), queue # <<>>,
           NEW low \in Nat, NEW high \in Nat, Run(queue, w, low, high)
    PROVE  Run(DropOld(w, queue), w, low, high)
<1>1. Run(Tail(queue), w, low, high)
  <2>1. PICK n \in low + 1 .. high : Run(Tail(queue), w, n, high)
    BY RunHead
  <2>2. Tail(queue) \in Seq(Event) /\ n \in Nat /\ low <= n /\ high <= high
    OBVIOUS
  <2> QED BY <2>1, <2>2, RunWidens
<1>2. DropOld(w, queue) \in {queue, Tail(queue)}
  BY DEF DropOld
<1> QED BY <1>1, <1>2

LEMMA PushOrdered ==
    ASSUME WorkersTypeOK, NEW w \in Worker, Push(w), DeviceOrdered(w)
    PROVE  /\ DeviceOrdered(w)'
           /\ \A low \in Nat : WorkerPast(w, low) => WorkerPast(w, low)'
<1> DEFINE q == data_queue[w]
           m == memory[w]
<1>0. /\ triggers \in Nat /\ q \in Seq(Event) /\ m \in Nat /\ Kind[w] \in Kinds
      /\ work \in [Worker -> {"none", "dump", "poll", "read", "finish", "push"}]
      /\ data_queue \in [Worker -> Seq(Event)]
      /\ static_bundle \in [Kinds -> [1..2 -> Event]]
  BY KindIsKind DEF WorkersTypeOK
<1>1. /\ UNCHANGED <<triggers, captured, memory, static_bundle>>
      /\ work[w] = "push" /\ work'[w] = "poll"
      /\ data_queue'[w] = DropOld(w, Append(q, static_bundle[Kind[w]][1]
                                                  \cup static_bundle[Kind[w]][2]))
  BY <1>0 DEF Push, deviceVars
<1>2. /\ m \in 1..triggers /\ \A i \in 1..Len(captured[w]) : m < captured[w][i]
      /\ static_bundle[Kind[w]][1] = Whole(w, m) /\ static_bundle[Kind[w]][2] = Whole(w, m)
  BY <1>1 DEF DeviceOrdered, InProgress, Handed
<1>3. data_queue'[w] = DropOld(w, Append(q, Whole(w, m))) /\ Whole(w, m) \in Event
  <2>1. Whole(w, m) \in Event
    BY <1>0, <1>2
  <2> QED BY <1>1, <1>2, <2>1
<1>4. DeviceOrdered(w)'
  BY <1>1 DEF DeviceOrdered, InProgress
<1>5. ASSUME NEW low \in Nat, WorkerPast(w, low) PROVE WorkerPast(w, low)'
  <2>1. PICK n \in low..triggers : Run(q, w, low, n) /\ DevicePast(w, n)
    BY <1>5 DEF WorkerPast
  <2>2. n < m /\ n \in Nat /\ low <= n
    BY <1>1, <2>1 DEF DevicePast, InProgress
  <2>3. In(Whole(w, m), w, n, m)
    <3> HIDE DEF m
    <3> QED BY <1>0, <2>2 DEF In
  <2> HIDE DEF q, m
  <2>4. Run(Append(q, Whole(w, m)), w, low, m)
    BY <1>0, <1>3, <2>1, <2>2, <2>3, RunAppends
  <2>5. Append(q, Whole(w, m)) \in Seq(Event) /\ Append(q, Whole(w, m)) # <<>>
    BY <1>0, <1>3
  <2>6. Run(data_queue'[w], w, low, m)
    BY <1>0, <1>3, <2>4, <2>5, DropOldOrdered
  <2>7. DevicePast(w, memory[w])'
    <3>1. \A i \in 1..Len(captured'[w]) : memory'[w] < captured'[w][i]
      BY <1>1, <1>2 DEF m
    <3>2. ~InProgress(w)'
      BY <1>1 DEF InProgress
    <3> QED BY <3>1, <3>2 DEF DevicePast
  <2>8. m \in low..triggers' /\ m = memory'[w]
    BY <1>1, <1>2, <2>2 DEF m
  <2>9. Run(data_queue'[w], w, low, memory'[w]) /\ memory'[w] \in low..triggers'
    BY <2>6, <2>8
  <2> QED BY <2>7, <2>9 DEF WorkerPast
<1> QED BY <1>4, <1>5

(* Each step of a worker's thread.                                         *)
LEMMA WorkLoopOrdered ==
    ASSUME WorkersTypeOK, NEW v \in Worker, WorkLoop(v),
           NEW w \in Worker, Alone(w), DeviceOrdered(w)
    PROVE  /\ DeviceOrdered(w)'
           /\ \A low \in Nat : WorkerPast(w, low) => WorkerPast(w, low)'
<1>0. /\ triggers \in Nat /\ captured \in [Worker -> Seq(Nat)] /\ memory \in [Worker -> Nat]
      /\ work \in [Worker -> {"none", "dump", "poll", "read", "finish", "push"}]
      /\ data_queue \in [Worker -> Seq(Event)]
      /\ static_bundle \in [Kinds -> [1..2 -> Event]]
  BY DEF WorkersTypeOK
<1>1. CASE v # w
  <2>1. triggers' = triggers /\ captured'[w] = captured[w] /\ memory'[w] = memory[w]
    BY <1>0, <1>1 DEF WorkLoop, Dump, Poll, Read, Finish, Push, Exit, deviceVars
  <2>2. work'[w] = work[w] /\ data_queue'[w] = data_queue[w]
    BY <1>0, <1>1 DEF WorkLoop, Dump, Poll, Read, Finish, Push, Exit, queueVars
  <2>3. static_bundle'[Kind[w]] = static_bundle[Kind[w]]
    <3>1. Kind[v] # Kind[w]
      BY <1>1 DEF Alone, OwnStatics
    <3>2. Kind[v] \in Kinds /\ Kind[w] \in Kinds
      BY KindIsKind
    <3>3. \/ UNCHANGED static_bundle
          \/ \E half \in 1..2 : static_bundle' =
                [static_bundle EXCEPT ![Kind[v]][half] = {<<v, memory[v]>>}]
      BY DEF WorkLoop, Dump, Poll, Read, Finish, Push, Exit, ReadHalf
    <3> QED BY <1>0, <3>1, <3>2, <3>3
  <2> QED BY <1>0, <2>1, <2>2, <2>3, WorkerUntouched
<1>2. CASE v = w
  <2>1. ~Dump(w)
    BY DEF Dump, DeviceOrdered
  <2>2. CASE Exit(w)
    <3>1. /\ UNCHANGED <<triggers, captured, memory, static_bundle, data_queue>>
          /\ work[w] = "poll" /\ work'[w] = "none"
      BY <1>0, <2>2 DEF Exit, queueVars
    <3>2. ~InProgress(w)
      BY <3>1 DEF InProgress
    <3>3. triggers' = triggers /\ triggers' \in Nat /\ triggers <= triggers'
      BY <1>0, <3>1
    <3> QED BY <3>1, <3>2, <3>3, WorkerUntouched
  <2> QED BY <1>2, <2>1, <2>2, PollOrdered, ReadOrdered, PushOrdered DEF WorkLoop
<1> QED BY <1>1, <1>2

(* A trigger is the last of all.                                           *)
LEMMA TriggerOrdered ==
    ASSUME WorkersTypeOK, NEW S \in SUBSET Worker, Trigger(S),
           NEW w \in Worker, Alone(w), DeviceOrdered(w)
    PROVE  /\ DeviceOrdered(w)'
           /\ \A low \in Nat : WorkerPast(w, low) => WorkerPast(w, low)'
<1> DEFINE c == captured[w]
           t == captured'[w]
<1>0. triggers \in Nat /\ c \in Seq(Nat)
  BY DEF WorkersTypeOK
<1>1. /\ triggers' = triggers + 1 /\ UNCHANGED <<work, static_bundle, data_queue>>
      /\ t = IF w \in S THEN Append(c, triggers + 1) ELSE c
      /\ memory'[w] = memory[w]
  BY DEF Trigger, queueVars, Alone
<1>2. CASE w \notin S
  BY <1>0, <1>1, <1>2, WorkerUntouched
<1>3. CASE w \in S
  <2>1. /\ \A i \in 1..Len(c) : c[i] \in 1..triggers
        /\ \A i, j \in 1..Len(c) : i < j => c[i] < c[j]
    BY DEF DeviceOrdered
  <2>2. /\ Len(t) = Len(c) + 1 /\ Len(c) \in Nat /\ t[Len(c) + 1] = triggers + 1
        /\ \A i \in 1..Len(c) : t[i] = c[i]
    BY <1>0, <1>1, <1>3
  <2> DEFINE k == Len(c) + 1
  <2>3. \A i \in 1..Len(t) : i \in 1..Len(c) \/ i = Len(c) + 1
    BY <2>2
  <2>4. /\ \A i \in 1..Len(t) : t[i] \in 1..triggers'
        /\ \A i, j \in 1..Len(t) : i < j => t[i] < t[j]
    <3> HIDE DEF c, t
    <3>1. \A i \in 1..Len(t) : t[i] \in 1..triggers'
      BY <1>0, <1>1, <2>1, <2>2, <2>3
    <3>2. ASSUME NEW i \in 1..Len(t), NEW j \in 1..Len(t), i < j PROVE t[i] < t[j]
      <4>1. i \in 1..Len(c) /\ c[i] \in 1..triggers /\ t[i] = c[i]
        BY <2>1, <2>2, <2>3, <3>2
      <4> QED BY <1>0, <2>1, <2>2, <2>3, <3>2, <4>1
    <3> QED BY <3>1, <3>2
  <2>5. InProgress(w) =>
          /\ memory'[w] \in 1..triggers'
          /\ IF Handed(w) THEN \A i \in 1..Len(t) : memory'[w] < t[i]
             ELSE t # <<>> /\ t[1] = memory'[w]
    <3> SUFFICES ASSUME InProgress(w)
                 PROVE  /\ memory'[w] \in 1..triggers'
                        /\ IF Handed(w) THEN \A i \in 1..Len(t) : memory'[w] < t[i]
                           ELSE t # <<>> /\ t[1] = memory'[w]
      OBVIOUS
    <3>1. memory[w] \in 1..triggers
      BY DEF DeviceOrdered
    <3>2. CASE Handed(w)
      <4>1. \A i \in 1..Len(c) : memory[w] < c[i]
        BY <3>2 DEF DeviceOrdered
      <4> HIDE DEF c, t
      <4> QED BY <1>0, <1>1, <2>2, <2>3, <3>1, <3>2, <4>1
    <3>3. CASE ~Handed(w)
      <4>1. c # <<>> /\ c[1] = memory[w]
        BY <3>3 DEF DeviceOrdered
      <4> HIDE DEF c, t
      <4>2. 1 \in 1..Len(c) /\ t # <<>>
        BY <1>0, <2>2, <4>1
      <4> QED BY <1>0, <1>1, <2>2, <3>1, <3>3, <4>1, <4>2
    <3> QED BY <3>2, <3>3
  <2>6. InProgress(w)' = InProgress(w) /\ Handed(w)' = Handed(w)
    BY <1>1 DEF InProgress, Handed
  <2>7. DeviceOrdered(w)'
    BY <1>1, <2>4, <2>5, <2>6 DEF DeviceOrdered, InProgress
  <2>8. ASSUME NEW low \in Nat, WorkerPast(w, low) PROVE WorkerPast(w, low)'
    <3>1. PICK n \in low..triggers : Run(data_queue[w], w, low, n) /\ DevicePast(w, n)
      BY <2>8 DEF WorkerPast
    <3>2. \A i \in 1..Len(t) : n < t[i]
      <4>1. \A i \in 1..Len(c) : n < c[i]
        BY <3>1 DEF DevicePast
      <4> HIDE DEF c, t
      <4> QED BY <1>0, <2>2, <2>3, <4>1
    <3>3. DevicePast(w, n)'
      BY <1>1, <2>6, <3>1, <3>2 DEF DevicePast
    <3>4. n \in low..triggers'
      BY <1>0, <1>1
    <3> QED BY <1>1, <3>1, <3>3, <3>4 DEF WorkerPast
  <2> QED BY <2>7, <2>8
<1> QED BY <1>2, <1>3

(* Another thread takes the oldest event, or all of them.                  *)
LEMMA PopOrdered ==
    ASSUME WorkersTypeOK, NEW w \in Worker, PopEvent(w), data_queue[w] # <<>>,
           NEW low \in Nat, WorkerPast(w, low)
    PROVE  \E n \in low + 1 .. triggers : Popped(w) = Whole(w, n) /\ WorkerPast(w, n)'
<1> DEFINE q == data_queue[w]
<1>0. triggers \in Nat /\ q \in Seq(Event) /\ q # <<>>
  BY DEF WorkersTypeOK
<1>1. /\ data_queue'[w] = Tail(q) /\ Popped(w) = Head(q)
      /\ UNCHANGED <<triggers, captured, memory, work>>
  BY DEF PopEvent, Popped, deviceVars, WorkersTypeOK
<1>2. PICK m \in low..triggers : Run(q, w, low, m) /\ DevicePast(w, m)
  BY DEF WorkerPast
<1> HIDE DEF q
<1>3. PICK n \in low + 1 .. m : Head(q) = Whole(w, n) /\ Run(Tail(q), w, n, m)
  BY <1>0, <1>2, RunHead
<1>4. DevicePast(w, m)' /\ m \in n..triggers' /\ n \in low + 1 .. triggers
  BY <1>0, <1>1, <1>2, <1>3 DEF DevicePast, InProgress
<1>5. WorkerPast(w, n)'
  BY <1>1, <1>3, <1>4 DEF WorkerPast
<1> QED BY <1>1, <1>3, <1>4, <1>5

LEMMA ClearOrdered ==
    ASSUME WorkersTypeOK, NEW w \in Worker, ClearQueue(w), NEW low \in Nat, WorkerPast(w, low)
    PROVE  WorkerPast(w, low)'
<1>1. PICK n \in low..triggers : Run(data_queue[w], w, low, n) /\ DevicePast(w, n)
  BY DEF WorkerPast
<1>2. data_queue'[w] = <<>> /\ UNCHANGED <<triggers, captured, memory, work>>
  BY DEF ClearQueue, WorkersTypeOK, deviceVars
<1>3. DevicePast(w, n)' /\ Run(data_queue'[w], w, low, n)
  BY <1>1, <1>2, RunEmpty DEF DevicePast, InProgress
<1> QED BY <1>1, <1>2, <1>3 DEF WorkerPast

(* The operations of other threads on a worker of the list.  Those that    *)
(* take no event:                                                          *)
LEMMA ControlOrdered ==
    ASSUME WorkersTypeOK, NEW v \in Worker,
           \/ StartThread(v) \/ AskToStop(v) \/ ClearFlag(v)
           \/ SetGoTime(v, TRUE) \/ SetGoTime(v, FALSE),
           NEW w \in Worker, Alone(w)
    PROVE  /\ triggers' = triggers
           /\ DeviceOrdered(w) => DeviceOrdered(w)'
           /\ \A low \in Nat : WorkerPast(w, low) => WorkerPast(w, low)'
<1>0. /\ triggers \in Nat
      /\ work \in [Worker -> {"none", "dump", "poll", "read", "finish", "push"}]
  BY DEF WorkersTypeOK
<1>1. UNCHANGED <<triggers, captured, memory, static_bundle, data_queue>>
  BY DEF StartThread, AskToStop, ClearFlag, SetGoTime, deviceVars, queueVars
<1>2. work'[w] = work[w] \/ (~InProgress(w) /\ work'[w] = "poll")
  <2>1. CASE StartThread(v)
    <3>1. CASE v = w
      <4>1. work[w] = "none" /\ work'[w] = "poll"
        BY <1>0, <2>1, <3>1, AloneDumpsNothing DEF StartThread
      <4> QED BY <4>1 DEF InProgress
    <3> QED BY <1>0, <2>1, <3>1 DEF StartThread
  <2>2. CASE ~StartThread(v)
    BY <2>2 DEF AskToStop, ClearFlag, SetGoTime
  <2> QED BY <2>1, <2>2
<1>3. triggers' \in Nat /\ triggers <= triggers'
  BY <1>0, <1>1
<1> QED BY <1>0, <1>1, <1>2, <1>3, WorkerUntouched

(* Those that take events, of worker v.                                    *)
LEMMA TakenOrdered ==
    ASSUME WorkersTypeOK, NEW v \in Worker, PopEvent(v) \/ ClearQueue(v), NEW w \in Worker
    PROVE  /\ triggers' = triggers
           /\ DeviceOrdered(w) => DeviceOrdered(w)'
           /\ v # w => \A low \in Nat : WorkerPast(w, low) => WorkerPast(w, low)'
<1>1. UNCHANGED <<triggers, captured, memory, work, static_bundle>>
  BY DEF PopEvent, ClearQueue, deviceVars
<1>2. DeviceOrdered(w) => DeviceOrdered(w)'
  BY <1>1 DEF DeviceOrdered, InProgress, Handed
<1>3. ASSUME v # w, NEW low \in Nat, WorkerPast(w, low) PROVE WorkerPast(w, low)'
  <2>1. data_queue'[w] = data_queue[w]
    BY <1>3 DEF PopEvent, ClearQueue, WorkersTypeOK
  <2>2. PICK n \in low..triggers : Run(data_queue[w], w, low, n) /\ DevicePast(w, n)
    BY <1>3 DEF WorkerPast
  <2>3. n \in low..triggers' /\ Run(data_queue'[w], w, low, n) /\ DevicePast(w, n)'
    BY <1>1, <2>1, <2>2 DEF DevicePast, InProgress
  <2> QED BY <2>3 DEF WorkerPast
<1> QED BY <1>1, <1>2, <1>3

-----------------------------------------------------------------------------
(* Bundles: entry w of each of them, in the order of the bundles.          *)
Complete == {b \in Seq(Event) : Len(b) = NWorkers}

Column(s, w) == [i \in 1..Len(s) |-> s[i][w]]

LEMMA ColumnType ==
    ASSUME NEW w \in Worker, NEW s \in Seq(Complete)
    PROVE  Column(s, w) \in Seq(Event) /\ Len(Column(s, w)) = Len(s)
<1>1. \A i \in 1..Len(s) : s[i] \in Complete
  OBVIOUS
<1>2. \A b \in Complete : b[w] \in Event
  BY DEF Complete, Worker
<1>3. Column(s, w) \in [1..Len(s) -> Event] /\ Len(s) \in Nat
  BY <1>1, <1>2 DEF Column
<1> DEFINE c == Column(s, w)
<1> HIDE DEF c
<1>4. c \in Seq(Event) /\ Len(c) = Len(s)
  BY <1>3 DEF c
<1> QED BY <1>4 DEF c

LEMMA ColumnEmpty == ASSUME NEW w PROVE Column(<<>>, w) = <<>>
BY DEF Column

LEMMA ColumnJoins ==
    ASSUME NEW w \in Worker, NEW s \in Seq(Complete), NEW t \in Seq(Complete)
    PROVE  Column(s \o t, w) = Column(s, w) \o Column(t, w)
<1> DEFINE u == s \o t
           left == Column(u, w)
           right == Column(s, w) \o Column(t, w)
<1>1. /\ u \in Seq(Complete) /\ Len(u) = Len(s) + Len(t) /\ Len(s) \in Nat /\ Len(t) \in Nat
      /\ \A i \in 1..Len(u) : u[i] = IF i <= Len(s) THEN s[i] ELSE t[i - Len(s)]
  OBVIOUS
<1>2. /\ left \in Seq(Event) /\ Len(left) = Len(u)
      /\ Column(s, w) \in Seq(Event) /\ Len(Column(s, w)) = Len(s)
      /\ Column(t, w) \in Seq(Event) /\ Len(Column(t, w)) = Len(t)
  BY <1>1, ColumnType
<1>3. /\ right \in Seq(Event) /\ Len(right) = Len(u)
      /\ \A i \in 1..Len(u) : right[i] =
            IF i <= Len(s) THEN Column(s, w)[i] ELSE Column(t, w)[i - Len(s)]
  BY <1>1, <1>2
<1>4. ASSUME NEW i \in 1..Len(u) PROVE left[i] = right[i]
  <2>1. left[i] = u[i][w]
    BY DEF Column
  <2>2. CASE i <= Len(s)
    <3>1. i \in 1..Len(s)
      BY <1>1, <2>2
    <3>2. Column(s, w)[i] = s[i][w]
      BY <3>1 DEF Column
    <3> HIDE DEF u, left, right
    <3> QED BY <1>1, <1>3, <2>1, <2>2, <3>2
  <2>3. CASE ~(i <= Len(s))
    <3>1. i - Len(s) \in 1..Len(t)
      BY <1>1, <2>3
    <3>2. Column(t, w)[i - Len(s)] = t[i - Len(s)][w]
      BY <3>1 DEF Column
    <3> HIDE DEF u, left, right
    <3> QED BY <1>1, <1>3, <2>1, <2>3, <3>2
  <2> QED BY <2>2, <2>3
<1> HIDE DEF u, left, right
<1>5. left = right
  BY <1>1, <1>2, <1>3, <1>4
<1> QED BY <1>5 DEF u, left, right

LEMMA ColumnAppends ==
    ASSUME NEW w \in Worker, NEW s \in Seq(Complete), NEW b \in Complete
    PROVE  Column(Append(s, b), w) = Append(Column(s, w), b[w])
<1>1. Append(s, b) = s \o <<b>> /\ <<b>> \in Seq(Complete)
  OBVIOUS
<1>2. Column(<<b>>, w) = <<b[w]>>
  BY DEF Column
<1>3. Column(s, w) \in Seq(Event) /\ b[w] \in Event
  BY ColumnType DEF Complete, Worker
<1>4. Append(Column(s, w), b[w]) = Column(s, w) \o <<b[w]>>
  BY <1>3
<1> QED BY <1>1, <1>2, <1>4, ColumnJoins

LEMMA ColumnHead ==
    ASSUME NEW w \in Worker, NEW s \in Seq(Complete), s # <<>>
    PROVE  /\ Head(s) \in Complete /\ Tail(s) \in Seq(Complete)
           /\ Column(s, w) # <<>> /\ Head(Column(s, w)) = Head(s)[w]
           /\ Column(Tail(s), w) = Tail(Column(s, w))
<1> DEFINE b == Head(s)
           t == Tail(s)
<1>1. b \in Complete /\ t \in Seq(Complete) /\ s = <<b>> \o t /\ <<b>> \in Seq(Complete)
  OBVIOUS
<1>2. Column(<<b>>, w) = <<b[w]>>
  BY DEF Column
<1> HIDE DEF b, t
<1>3. Column(t, w) \in Seq(Event) /\ b[w] \in Event
  BY <1>1, ColumnType DEF Complete, Worker
<1>4. Column(s, w) = <<b[w]>> \o Column(t, w)
  BY <1>1, <1>2, ColumnJoins
<1>5. ASSUME NEW e \in Event, NEW r \in Seq(Event)
      PROVE  <<e>> \o r # <<>> /\ Head(<<e>> \o r) = e /\ Tail(<<e>> \o r) = r
  OBVIOUS
<1>6. Column(s, w) # <<>> /\ Head(Column(s, w)) = b[w] /\ Tail(Column(s, w)) = Column(t, w)
  BY <1>3, <1>4, <1>5
<1> QED BY <1>1, <1>6 DEF b, t

(* Runs of columns.                                                        *)
LEMMA ColumnRunJoins ==
    ASSUME NEW w \in Worker, NEW s \in Seq(Complete), NEW t \in Seq(Complete),
           NEW low \in Nat, NEW mid \in Nat, NEW high \in Nat, low <= mid, mid <= high,
           Run(Column(s, w), w, low, mid), Run(Column(t, w), w, mid, high)
    PROVE  Run(Column(s \o t, w), w, low, high)
<1> DEFINE c == Column(s, w)
           d == Column(t, w)
<1>1. c \in Seq(Event) /\ d \in Seq(Event) /\ Column(s \o t, w) = c \o d
  BY ColumnType, ColumnJoins
<1>2. Run(c, w, low, mid) /\ Run(d, w, mid, high)
  OBVIOUS
<1> HIDE DEF c, d
<1>3. Run(c \o d, w, low, high)
  BY <1>1, <1>2, RunJoins
<1> QED BY <1>1, <1>3

LEMMA ColumnRunAppends ==
    ASSUME NEW w \in Worker, NEW s \in Seq(Complete), NEW b \in Complete,
           NEW low \in Nat, NEW mid \in Nat, NEW high \in Nat, low <= mid, mid <= high,
           Run(Column(s, w), w, low, mid), In(b[w], w, mid, high)
    PROVE  Run(Column(Append(s, b), w), w, low, high)
<1> DEFINE c == Column(s, w)
           e == b[w]
<1>1. c \in Seq(Event) /\ e \in Event /\ Column(Append(s, b), w) = Append(c, e)
  BY ColumnType, ColumnAppends DEF Complete, Worker
<1>2. Run(c, w, low, mid) /\ In(e, w, mid, high)
  OBVIOUS
<1> HIDE DEF c, e
<1>3. Run(Append(c, e), w, low, high)
  BY <1>1, <1>2, RunAppends
<1> QED BY <1>1, <1>3

-----------------------------------------------------------------------------
(* What is to come once all up to trigger low has gone: the bundle being   *)
(* filled and the worker's queue, and, behind a queue q of bundles, those. *)
BundlePast(w, low) ==
    \E n \in low..triggers :
        /\ Len(bundle) >= w => In(bundle[w], w, low, n)
        /\ WorkerPast(w, n)

QueuedPast(q, w, low) ==
    \E n \in low..triggers : Run(Column(q, w), w, low, n) /\ BundlePast(w, n)

(* What a step leaves as it is keeps its bounds.                           *)
LEMMA BundleKept ==
    ASSUME NEW w \in Worker, triggers \in Nat, triggers' \in Nat, triggers <= triggers',
           bundle' = bundle, \A n \in Nat : WorkerPast(w, n) => WorkerPast(w, n)',
           NEW low \in Nat, BundlePast(w, low)
    PROVE  BundlePast(w, low)'
<1>1. PICK n \in low..triggers : /\ Len(bundle) >= w => In(bundle[w], w, low, n)
                                 /\ WorkerPast(w, n)
  BY DEF BundlePast
<1>2. n \in Nat /\ n \in low..triggers'
  OBVIOUS
<1>3. WorkerPast(w, n)'
  BY <1>1, <1>2
<1> QED BY <1>1, <1>2, <1>3 DEF BundlePast

LEMMA QueuedKept ==
    ASSUME NEW w \in Worker, triggers \in Nat, triggers' \in Nat, triggers <= triggers',
           \A n \in Nat : BundlePast(w, n) => BundlePast(w, n)',
           NEW q, NEW low \in Nat, QueuedPast(q, w, low)
    PROVE  QueuedPast(q, w, low)'
<1>1. PICK n \in low..triggers : Run(Column(q, w), w, low, n) /\ BundlePast(w, n)
  BY DEF QueuedPast
<1>2. n \in Nat /\ n \in low..triggers'
  OBVIOUS
<1>3. BundlePast(w, n)'
  BY <1>1, <1>2
<1> QED BY <1>1, <1>2, <1>3 DEF QueuedPast

(* GetEventData moves an event of one worker into the bundle.              *)
LEMMA GetOrdered ==
    ASSUME NEW T, NEW L, ListTypeOK(T, L), NEW t \in T, Informed(t),
           GetEventData(t, "get", "push"), NEW w \in Worker, DeviceOrdered(w)
    PROVE  /\ triggers' = triggers /\ DeviceOrdered(w)'
           /\ \A low \in Nat : BundlePast(w, low) => BundlePast(w, low)'
<1> DEFINE v == idx[t]
<1>0. /\ WorkersTypeOK /\ triggers \in Nat /\ v \in Worker /\ pc[t] = "get"
      /\ Worker = 1..NWorkers /\ NWorkers \in Nat
  BY WorkersAssumption DEF ListTypeOK, WorkersTypeOK, GetEventData, At, Worker
<1>1. PopEvent(v) /\ bundle' = Append(bundle, Popped(v))
  BY DEF GetEventData
<1>2. /\ bundle \in Seq(Event) /\ Len(bundle) = v - 1 /\ data_queue[v] # <<>>
  <2>1. CountsEvents(t) /\ bundle \in Seq(Event)
        /\ \A u \in v..NWorkers : data_queue[u] # <<>>
    BY <1>0 DEF Informed, SeesEvents
  <2>2. v \in v..NWorkers
    BY <1>0
  <2> QED BY <1>0, <2>1, <2>2 DEF CountsEvents, At
<1>3. Popped(v) \in Event
  BY <1>0, <1>1, <1>2, PopEventType
<1>4. triggers' = triggers /\ DeviceOrdered(w)'
  BY <1>0, <1>1, TakenOrdered
<1>5. ASSUME NEW low \in Nat, BundlePast(w, low) PROVE BundlePast(w, low)'
  <2>1. PICK n \in low..triggers : /\ Len(bundle) >= w => In(bundle[w], w, low, n)
                                   /\ WorkerPast(w, n)
    BY <1>5 DEF BundlePast
  <2>2. n \in Nat
    OBVIOUS
  <2>3. CASE v = w
    <3>1. PICK m \in n + 1 .. triggers : Popped(w) = Whole(w, m) /\ WorkerPast(w, m)'
      BY <1>0, <1>1, <1>2, <2>1, <2>2, <2>3, PopOrdered
    <3>2. bundle'[w] = Popped(w)
      <4>1. Append(bundle, Popped(v))[Len(bundle) + 1] = Popped(v)
        BY <1>2, <1>3
      <4> QED BY <1>0, <1>1, <1>2, <2>3, <4>1
    <3>3. m \in low..triggers' /\ m \in low + 1 .. m
      BY <1>0, <1>4
    <3>4. In(bundle'[w], w, low, m)
      BY <3>1, <3>2, <3>3 DEF In
    <3> QED BY <3>1, <3>3, <3>4 DEF BundlePast
  <2>4. CASE v # w
    <3>1. WorkerPast(w, n)'
      BY <1>0, <1>1, <2>1, <2>2, <2>4, TakenOrdered
    <3>2. Len(bundle') >= w => Len(bundle) >= w /\ bundle'[w] = bundle[w]
      <4>1. Len(bundle') = v
        BY <1>0, <1>1, <1>2, <1>3
      <4>2. Len(bundle') >= w => w \in 1..Len(bundle)
        BY <1>0, <1>2, <2>4, <4>1
      <4>3. \A i \in 1..Len(bundle) : bundle'[i] = bundle[i]
        BY <1>1, <1>2, <1>3
      <4> QED BY <1>0, <1>2, <4>2, <4>3
    <3> QED BY <1>4, <2>1, <3>1, <3>2 DEF BundlePast
  <2> QED BY <2>3, <2>4
<1> QED BY <1>4, <1>5

(* A full bundle is put at the end of a queue q, or dropped.               *)
LEMMA PushedOrdered ==
    ASSUME NEW T, NEW L, ListTypeOK(T, L), NEW t \in T, Informed(t), At(t, "push"),
           UNCHANGED workerVars, bundle' = <<>>, NEW w \in Worker, DeviceOrdered(w),
           NEW q \in Seq(Complete), NEW r \in {q, Append(q, bundle)}
    PROVE  /\ triggers' = triggers /\ DeviceOrdered(w)'
           /\ \A low \in Nat : QueuedPast(q, w, low) => QueuedPast(r, w, low)'
<1>0. /\ triggers \in Nat /\ Worker = 1..NWorkers /\ NWorkers \in Nat
      /\ UNCHANGED <<triggers, captured, memory, work, static_bundle, data_queue>>
  BY WorkersAssumption DEF ListTypeOK, WorkersTypeOK, Worker, workerVars
<1>1. bundle \in Complete /\ Len(bundle) >= w
  BY <1>0 DEF Informed, SeesEvents, CountsEvents, At, Complete
<1>2. DeviceOrdered(w)' /\ \A n \in Nat : WorkerPast(w, n) => WorkerPast(w, n)'
  BY <1>0 DEF DeviceOrdered, InProgress, Handed, WorkerPast, DevicePast
<1>3. ASSUME NEW low \in Nat, QueuedPast(q, w, low) PROVE QueuedPast(r, w, low)'
  <2>1. PICK n \in low..triggers : Run(Column(q, w), w, low, n) /\ BundlePast(w, n)
    BY <1>3 DEF QueuedPast
  <2>2. PICK m \in n..triggers : In(bundle[w], w, n, m) /\ WorkerPast(w, m)
    BY <1>1, <2>1 DEF BundlePast
  <2>3. n \in Nat /\ m \in Nat /\ low <= n /\ n <= m /\ m \in low..triggers'
        /\ m \in m..triggers' /\ low <= low
    BY <1>0
  <2>4. Run(Column(Append(q, bundle), w), w, low, m)
    BY <1>1, <2>1, <2>2, <2>3, ColumnRunAppends
  <2>5. Run(Column(q, w), w, low, m)
    <3> DEFINE c == Column(q, w)
    <3>1. c \in Seq(Event) /\ Run(c, w, low, n)
      BY <2>1, ColumnType
    <3> HIDE DEF c
    <3>2. Run(c, w, low, m)
      BY <2>3, <3>1, RunWidens
    <3> QED BY <3>2 DEF c
  <2>6. Run(Column(r, w), w, low, m)
    BY <2>4, <2>5
  <2>7. BundlePast(w, m)'
    <3>1. WorkerPast(w, m)' /\ ~(Len(bundle') >= w)
      BY <1>0, <1>2, <2>2, <2>3
    <3> QED BY <2>3, <3>1 DEF BundlePast
  <2> QED BY <2>3, <2>6, <2>7 DEF QueuedPast
<1> QED BY <1>0, <1>2, <1>3

(* The first bundle of a queue, and what is behind it.                     *)
LEMMA FirstQueued ==
    ASSUME triggers \in Nat, NEW w \in Worker, NEW q \in Seq(Complete), q # <<>>,
           NEW low \in Nat, QueuedPast(q, w, low)
    PROVE  \E n \in low + 1 .. triggers :
              Head(q)[w] = Whole(w, n) /\ QueuedPast(Tail(q), w, n)
<1>1. PICK m \in low..triggers : Run(Column(q, w), w, low, m) /\ BundlePast(w, m)
  BY DEF QueuedPast
<1> DEFINE c == Column(q, w)
<1>2. /\ c # <<>> /\ c \in Seq(Event) /\ Head(c) = Head(q)[w]
      /\ Column(Tail(q), w) = Tail(c) /\ Run(c, w, low, m)
  BY <1>1, ColumnHead, ColumnType
<1> HIDE DEF c
<1>3. PICK n \in low + 1 .. m : Head(c) = Whole(w, n) /\ Run(Tail(c), w, n, m)
  BY <1>2, RunHead
<1>4. n \in low + 1 .. triggers /\ m \in n..triggers
  BY <1>3
<1>5. QueuedPast(Tail(q), w, n)
  BY <1>1, <1>2, <1>3, <1>4 DEF QueuedPast
<1> QED BY <1>2, <1>3, <1>4, <1>5

(* A flush step keeps what is to come, of any worker.                      *)
LEMMA FlushOrdered ==
    ASSUME NEW T, NEW L, ListTypeOK(T, L), NEW t \in T, NEW here, NEW flag, NEW after,
           FlushEventData(t, here, flag, after),
           NEW w \in Worker, Alone(w), DeviceOrdered(w)
    PROVE  /\ triggers' = triggers /\ bundle' = bundle /\ DeviceOrdered(w)'
           /\ \A n \in Nat : WorkerPast(w, n) => WorkerPast(w, n)'
<1>0. WorkersTypeOK /\ idx[t] \in Worker
  BY DEF ListTypeOK
<1>1. bundle' = bundle /\ (ClearQueue(idx[t]) \/ ClearFlag(idx[t]))
  BY DEF FlushEventData, FlushQueue, FlushFlag
<1>2. CASE ClearFlag(idx[t])
  BY <1>0, <1>1, <1>2, ControlOrdered
<1>3. CASE ClearQueue(idx[t])
  <2>1. triggers' = triggers /\ DeviceOrdered(w)'
    BY <1>0, <1>3, TakenOrdered
  <2>2. CASE idx[t] = w
    BY <1>0, <1>1, <1>3, <2>1, <2>2, ClearOrdered
  <2>3. CASE idx[t] # w
    BY <1>0, <1>1, <1>3, <2>1, <2>3, TakenOrdered
  <2> QED BY <2>2, <2>3
<1> QED BY <1>1, <1>2, <1>3

(* So does a start or a stop of the workers, a step at a time.             *)
LEMMA StartStopOrdered ==
    ASSUME NEW T, NEW L, ListTypeOK(T, L), NEW t \in T, NEW here, NEW join, NEW after,
           \/ StartThreads(t, here, after) \/ StartWorkers(t, here, after)
           \/ StopWorkers(t, here, after) \/ StopThreads(t, here, join, after),
           NEW w \in Worker, Alone(w), DeviceOrdered(w)
    PROVE  /\ triggers' = triggers /\ bundle' = bundle /\ DeviceOrdered(w)'
           /\ \A n \in Nat : WorkerPast(w, n) => WorkerPast(w, n)'
<1>0. WorkersTypeOK /\ idx[t] \in Worker
  BY DEF ListTypeOK
<1>1. bundle' = bundle
  BY DEF StartThreads, StartWorkers, StopWorkers, StopThreads
<1>2. CASE UNCHANGED workerVars
  <2>1. UNCHANGED <<triggers, captured, memory, work, static_bundle, data_queue>>
    BY <1>2 DEF workerVars
  <2> QED BY <1>1, <2>1 DEF DeviceOrdered, InProgress, Handed, WorkerPast, DevicePast
<1>3. CASE \/ StartThread(idx[t]) \/ AskToStop(idx[t])
           \/ SetGoTime(idx[t], TRUE) \/ SetGoTime(idx[t], FALSE)
  BY <1>0, <1>1, <1>3, ControlOrdered
<1> QED BY <1>2, <1>3 DEF StartThreads, StartWorkers, StopWorkers, StopThreads

-----------------------------------------------------------------------------
(* Triggers further apart than an event takes, and workers each of a kind  *)
(* of its own: everything on its way is of the last trigger.               *)

Apart == \A w \in Worker : OwnStatics(w)

(* There is an event to be read: a trigger came, or the device shows one.  *)
Begun(w) == triggers # 0 \/ Device(w).dumps_first

(* What the worker's device holds, and what is read of it, is of the last  *)
(* trigger, and until that is queued the worker shows no event.            *)
Fresh(w) ==
    /\ captured[w] \in {<<>>, <<triggers>>}
    /\ captured[w] # <<>> \/ InProgress(w) => ~has_event[w] /\ Begun(w)
    /\ InProgress(w) => /\ memory[w] = triggers
                        /\ captured[w] = IF Handed(w) THEN <<>> ELSE <<triggers>>
    /\ work[w] \in {"finish", "push"} => static_bundle[Kind[w]][1] = Whole(w, triggers)
    /\ work[w] = "push" => static_bundle[Kind[w]][2] = Whole(w, triggers)

(* The last event queued is of the last trigger.                           *)
Newest(w) ==
    /\ Begun(w) /\ data_queue[w] # <<>>
    /\ data_queue[w][Len(data_queue[w])] = Whole(w, triggers)

(* A device that shows an event before the first trigger has it read.      *)
LEMMA DumperShowsAll ==
    ASSUME NEW w \in Worker, Device(w).dumps_first
    PROVE  ~Device(w).skips_no_data
<1>1. Kind[w] \in {"sis_3350", "sis_3302", "caen_1785", "caen_6742", "drs4", "caen_1742",
                   "sis_3316"}
  BY KindIsKind DEF Kinds, DeviceClass
<1>2. /\ ~Sis3350.dumps_first /\ ~Caen1785.dumps_first /\ ~Caen6742.dumps_first
      /\ ~Drs4.dumps_first /\ ~Caen1742.dumps_first /\ ~Sis3316.dumps_first
      /\ ~Sis3302.skips_no_data
  BY DEF Sis3302, Sis3350, Caen1785, Caen6742, Drs4, Caen1742, Sis3316, Common
<1>3. Device(w) \in {Sis3302, Sis3350, Caen1785, Caen6742, Drs4, Caen1742, Sis3316}
  BY <1>1 DEF Device, DeviceClass
<1> QED BY <1>2, <1>3

(* What keeps a worker fresh.                                              *)
LEMMA FreshKept ==
    ASSUME NEW w \in Worker, Fresh(w), triggers' = triggers,
           captured'[w] = captured[w], memory'[w] = memory[w],
           static_bundle'[Kind[w]] = static_bundle[Kind[w]],
           has_event'[w] => has_event[w],
           \/ work'[w] = work[w]
           \/ ~InProgress(w) /\ work'[w] \in {"none", "dump", "poll"}
    PROVE  Fresh(w)'
<1>1. /\ InProgress(w)' = InProgress(w)
      /\ InProgress(w) => Handed(w)' = Handed(w) /\ work'[w] = work[w]
      /\ work'[w] \in {"finish", "push"} => work'[w] = work[w]
  BY DEF InProgress, Handed
<1>2. Begun(w)' = Begun(w) /\ Whole(w, triggers)' = Whole(w, triggers)
  BY DEF Begun, Whole
<1> QED BY <1>1, <1>2 DEF Fresh

(* The last of the events that DropOld leaves is the last of all.          *)
LEMMA LastOfTail ==
    ASSUME NEW S, NEW queue \in Seq(S), Len(queue) > 1
    PROVE  /\ Tail(queue) # <<>>
           /\ Tail(queue)[Len(Tail(queue))] = queue[Len(queue)]
<1> DEFINE rest == Tail(queue)
<1>1. /\ rest \in Seq(S) /\ Len(rest) = Len(queue) - 1 /\ Len(queue) \in Nat
      /\ \A i \in 1..Len(rest) : rest[i] = queue[i + 1]
  OBVIOUS
<1> HIDE DEF rest
<1>2. Len(rest) \in 1..Len(rest) /\ Len(rest) + 1 = Len(queue)
  BY <1>1
<1>3. rest[Len(rest)] = queue[Len(queue)] /\ rest # <<>>
  BY <1>1, <1>2
<1> QED BY <1>3 DEF rest

(* The event pushed is the last in the queue, whatever is dropped.         *)
LEMMA DropOldLast ==
    ASSUME NEW w \in Worker, NEW queue \in Seq(Event), NEW event \in Event
    PROVE  LET left == DropOld(w, Append(queue, event))
           IN  left # <<>> /\ left[Len(left)] = event
<1> DEFINE all == Append(queue, event)
<1>1. all \in Seq(Event) /\ Len(all) > 0 /\ all[Len(all)] = event /\ all # <<>>
  OBVIOUS
<1> HIDE DEF all
<1>2. CASE Device(w).bounded /\ Len(all) > MaxQueueSize
  <2>1. Len(all) > 1
    BY <1>1, <1>2, WorkersAssumption
  <2>2. Tail(all) # <<>> /\ Tail(all)[Len(Tail(all))] = event
    BY <1>1, <2>1, LastOfTail
  <2>3. DropOld(w, all) = Tail(all)
    BY <1>2 DEF DropOld
  <2> QED BY <2>2, <2>3 DEF all
<1>3. CASE ~(Device(w).bounded /\ Len(all) > MaxQueueSize)
  <2>1. DropOld(w, all) = all
    BY <1>3 DEF DropOld
  <2> QED BY <1>1, <2>1 DEF all
<1> QED BY <1>2, <1>3

(* One readout: the trigger is handed over, both halves are read, and the  *)
(* event is queued.                                                        *)
LEMMA FreshPoll ==
    ASSUME WorkersTypeOK, NEW w \in Worker, OwnStatics(w), Fresh(w), Poll(w)
    PROVE  Fresh(w)' /\ has_event' = has_event /\ UNCHANGED <<triggers, data_queue>>
<1>1. /\ captured[w] # <<>> /\ work' = [work EXCEPT ![w] = "read"] /\ work[w] = "poll"
      /\ memory' = [memory EXCEPT ![w] = Head(captured[w])]
      /\ captured' = [captured EXCEPT ![w] =
            IF Device(w).taken_at_poll THEN Tail(captured[w]) ELSE captured[w]]
      /\ UNCHANGED <<triggers, static_bundle, data_queue, has_event>>
  BY AlonePolls
<1>2. captured[w] = <<triggers>> /\ ~has_event[w] /\ Begun(w)
  BY <1>1 DEF Fresh
<1>3. Head(<<triggers>>) = triggers /\ Tail(<<triggers>>) = <<>>
  BY DEF WorkersTypeOK
<1>4. /\ work'[w] = "read" /\ memory'[w] = triggers
      /\ captured'[w] = IF Device(w).taken_at_poll THEN <<>> ELSE <<triggers>>
  BY <1>1, <1>2, <1>3 DEF WorkersTypeOK
<1>5. Begun(w)' /\ InProgress(w)' /\ (Handed(w)' <=> Device(w).taken_at_poll)
  BY <1>1, <1>2, <1>4 DEF Begun, InProgress, Handed
<1>6. Fresh(w)'
  BY <1>1, <1>2, <1>4, <1>5 DEF Fresh
<1> QED BY <1>1, <1>6

(* Each half of the bundle is of the trigger in the device's memory.       *)
LEMMA HalfRead ==
    ASSUME WorkersTypeOK, NEW w \in Worker, Fresh(w), InProgress(w),
           NEW half \in 1..2, ReadHalf(w, half)
    PROVE  /\ static_bundle'[Kind[w]][half] = Whole(w, triggers)
           /\ \A other \in (1..2) \ {half} :
                 static_bundle'[Kind[w]][other] = static_bundle[Kind[w]][other]
<1>1. memory[w] = triggers /\ Begun(w)
  BY DEF Fresh
<1>2. ~(Device(w).skips_no_data /\ memory[w] = 0)
  BY <1>1, DumperShowsAll DEF Begun
<1>3. static_bundle' = [static_bundle EXCEPT ![Kind[w]][half] = {<<w, memory[w]>>}]
  BY <1>2 DEF ReadHalf
<1>4. static_bundle \in [Kinds -> [1..2 -> Event]] /\ Kind[w] \in Kinds
  BY KindIsKind DEF WorkersTypeOK
<1> QED BY <1>1, <1>3, <1>4 DEF Whole

(* Reading keeps a worker fresh: the first half of the bundle.             *)
LEMMA FreshRead ==
    ASSUME WorkersTypeOK, NEW w \in Worker, Fresh(w), Read(w)
    PROVE  Fresh(w)' /\ UNCHANGED queueVars
<1>1. /\ work[w] = "read" /\ work' = [work EXCEPT ![w] = "finish"]
      /\ ReadHalf(w, 1) /\ UNCHANGED <<triggers, captured, memory, queueVars>>
  BY DEF Read, deviceVars
<1>2. work'[w] = "finish" /\ InProgress(w) /\ InProgress(w)' /\ Handed(w)' = Handed(w)
  BY <1>1 DEF WorkersTypeOK, InProgress, Handed
<1>3. static_bundle'[Kind[w]][1] = Whole(w, triggers)'
  BY <1>1, <1>2, HalfRead DEF Whole
<1>4. Begun(w)' = Begun(w) /\ has_event' = has_event
  BY <1>1 DEF Begun, queueVars
<1> QED BY <1>1, <1>2, <1>3, <1>4 DEF Fresh

(* Finishing keeps a worker fresh: the second half.                        *)
LEMMA FreshFinish ==
    ASSUME WorkersTypeOK, NEW w \in Worker, Fresh(w), Finish(w)
    PROVE  Fresh(w)' /\ UNCHANGED queueVars
<1>1. /\ work[w] = "finish" /\ work' = [work EXCEPT ![w] = "push"]
      /\ ReadHalf(w, 2) /\ UNCHANGED <<triggers, memory, queueVars>>
      /\ captured' = [captured EXCEPT ![w] =
            IF Device(w).taken_at_poll THEN @ ELSE HandOver(w)]
  BY DEF Finish
<1>2. work'[w] = "push" /\ InProgress(w) /\ InProgress(w)' /\ Handed(w)'
      /\ (Handed(w) <=> Device(w).taken_at_poll)
  BY <1>1 DEF WorkersTypeOK, InProgress, Handed
<1>3. /\ static_bundle'[Kind[w]][1] = Whole(w, triggers)'
      /\ static_bundle'[Kind[w]][2] = Whole(w, triggers)'
  <2>1. static_bundle'[Kind[w]][2] = Whole(w, triggers)
    BY <1>1, <1>2, HalfRead
  <2>2. static_bundle'[Kind[w]][1] = static_bundle[Kind[w]][1]
    BY <1>1, <1>2, HalfRead
  <2>3. static_bundle[Kind[w]][1] = Whole(w, triggers)
    BY <1>1 DEF Fresh
  <2> QED BY <1>1, <2>1, <2>2, <2>3 DEF Whole
<1>4. Begun(w)' = Begun(w) /\ has_event' = has_event
  BY <1>1 DEF Begun, queueVars
<1>5. captured'[w] = <<>>
  <2>1. captured[w] = IF Device(w).taken_at_poll THEN <<>> ELSE <<triggers>>
    BY <1>2 DEF Fresh
  <2>2. captured'[w] = IF Device(w).taken_at_poll THEN captured[w] ELSE HandOver(w)
    BY <1>1 DEF WorkersTypeOK
  <2>3. Tail(<<triggers>>) = <<>> /\ <<triggers>> # <<>>
    BY DEF WorkersTypeOK
  <2> QED BY <2>1, <2>2, <2>3 DEF HandOver
<1> QED BY <1>1, <1>2, <1>3, <1>4, <1>5 DEF Fresh

(* Pushing keeps it fresh, and leaves the newest event last in the queue.  *)
LEMMA FreshPush ==
    ASSUME WorkersTypeOK, NEW w \in Worker, Fresh(w), Push(w)
    PROVE  Fresh(w)' /\ Newest(w)'
<1> DEFINE event == static_bundle[Kind[w]][1] \cup static_bundle[Kind[w]][2]
<1>1. /\ work[w] = "push" /\ work' = [work EXCEPT ![w] = "poll"]
      /\ data_queue' = [data_queue EXCEPT ![w] = DropOld(w, Append(@, event))]
      /\ UNCHANGED <<triggers, captured>>
  BY DEF Push, deviceVars
<1>2. work'[w] = "poll" /\ InProgress(w) /\ ~InProgress(w)' /\ Handed(w)
  BY <1>1 DEF WorkersTypeOK, InProgress, Handed
<1>3. captured[w] = <<>> /\ Begun(w) /\ event = Whole(w, triggers)
  BY <1>1, <1>2 DEF Fresh
<1>4. Fresh(w)'
  BY <1>1, <1>2, <1>3 DEF Fresh
<1>5. event \in Event /\ data_queue[w] \in Seq(Event)
  BY KindIsKind DEF WorkersTypeOK, Event
<1>6. data_queue'[w] = DropOld(w, Append(data_queue[w], event))
  BY <1>1 DEF WorkersTypeOK
<1> HIDE DEF event
<1>7. data_queue'[w] # <<>> /\ data_queue'[w][Len(data_queue'[w])] = event
  BY <1>5, <1>6, DropOldLast
<1>8. Newest(w)'
  BY <1>1, <1>3, <1>7 DEF Newest, Begun, Whole
<1> QED BY <1>4, <1>8

(* Every step of a worker's thread keeps it fresh, and makes no flag tell  *)
(* of an event that is not of the last trigger.                            *)
LEMMA FreshWorkLoop ==
    ASSUME WorkersTypeOK, NEW v \in Worker, WorkLoop(v),
           NEW w \in Worker, OwnStatics(w), Fresh(w)
    PROVE  /\ Fresh(w)' /\ UNCHANGED triggers
           /\ \/ Newest(w)'
              \/ data_queue'[w] = data_queue[w] /\ has_event'[w] = has_event[w]
<1>0. UNCHANGED triggers
  BY DEF WorkLoop, Dump, Poll, Read, Finish, Push, Exit, deviceVars
<1>1. CASE v # w
  <2>1. captured'[w] = captured[w] /\ memory'[w] = memory[w]
    BY <1>1 DEF WorkLoop, Dump, Poll, Read, Finish, Push, Exit, deviceVars, WorkersTypeOK
  <2>2. work'[w] = work[w]
    BY <1>1 DEF WorkLoop, Dump, Poll, Read, Finish, Push, Exit, WorkersTypeOK
  <2>3. data_queue'[w] = data_queue[w] /\ has_event'[w] = has_event[w]
    BY <1>1 DEF WorkLoop, Dump, Poll, Read, Finish, Push, Exit, queueVars, WorkersTypeOK
  <2>4. static_bundle'[Kind[w]] = static_bundle[Kind[w]]
    <3>1. Kind[v] # Kind[w] /\ Kind[v] \in Kinds /\ Kind[w] \in Kinds
      BY <1>1, KindIsKind DEF OwnStatics
    <3>2. \/ UNCHANGED static_bundle
          \/ \E half \in 1..2 : static_bundle' =
                [static_bundle EXCEPT ![Kind[v]][half] = {<<v, memory[v]>>}]
      BY DEF WorkLoop, Dump, Poll, Read, Finish, Push, Exit, ReadHalf
    <3> QED BY <3>1, <3>2 DEF WorkersTypeOK
  <2> QED BY <1>0, <2>1, <2>2, <2>3, <2>4, FreshKept
<1>2. CASE v = w
  <2>1. CASE Dump(w)
    <3>1. /\ work[w] = "dump" /\ work' = [work EXCEPT ![w] = "poll"]
          /\ captured' = [captured EXCEPT ![w] = IF worker_go[w] THEN HandOver(w) ELSE @]
          /\ UNCHANGED <<memory, static_bundle, data_queue, has_event>>
      BY <2>1 DEF Dump, queueVars
    <3>2. work'[w] = "poll" /\ ~InProgress(w)'
      BY <3>1 DEF WorkersTypeOK, InProgress
    <3>3. captured'[w] \in {<<>>, captured[w]}
      <4>1. captured'[w] \in {HandOver(w), captured[w]}
        BY <3>1 DEF WorkersTypeOK
      <4>2. Tail(<<triggers>>) = <<>>
        BY DEF WorkersTypeOK
      <4> QED BY <4>1, <4>2 DEF HandOver, Fresh
    <3>4. Begun(w)' = Begun(w)
      BY <1>0 DEF Begun
    <3>5. Fresh(w)'
      BY <1>0, <3>1, <3>2, <3>3, <3>4 DEF Fresh
    <3> QED BY <1>0, <3>1, <3>5
  <2>2. CASE Poll(w)
    BY <2>2, FreshPoll
  <2>3. CASE Read(w)
    BY <1>0, <2>3, FreshRead DEF queueVars
  <2>4. CASE Finish(w)
    BY <1>0, <2>4, FreshFinish DEF queueVars
  <2>5. CASE Push(w)
    BY <1>0, <2>5, FreshPush
  <2>6. CASE Exit(w)
    <3>1. /\ UNCHANGED <<captured, memory, static_bundle, data_queue, has_event>>
          /\ work[w] = "poll" /\ work' = [work EXCEPT ![w] = "none"]
      BY <2>6 DEF Exit, queueVars
    <3>2. work'[w] = "none" /\ ~InProgress(w)
      BY <3>1 DEF WorkersTypeOK, InProgress
    <3>3. Fresh(w)'
      BY <1>0, <3>1, <3>2, FreshKept
    <3> QED BY <1>0, <3>1, <3>3
  <2> QED BY <1>2, <2>1, <2>2, <2>3, <2>4, <2>5, <2>6 DEF WorkLoop
<1> QED BY <1>1, <1>2

(* A worker that is settled can but leave, and stays settled.              *)
LEMMA SettledStays ==
    ASSUME WorkersTypeOK, NEW v \in Worker, WorkLoop(v), OwnStatics(v),
           NEW w \in Worker, Settled(w)
    PROVE  Settled(w)' /\ (v = w => UNCHANGED queueVars)
<1>1. CASE v # w
  <2>1. work'[w] = work[w] /\ captured'[w] = captured[w]
    BY <1>1 DEF WorkLoop, Dump, Poll, Read, Finish, Push, Exit, deviceVars, WorkersTypeOK
  <2>2. UNCHANGED controlVars
    BY DEF WorkLoop, Dump, Poll, Read, Finish, Push, Exit
  <2> QED BY <1>1, <2>1, <2>2 DEF Settled, Polling, controlVars
<1>2. CASE v = w
  <2>1. work[w] \in {"none", "poll"} /\ (captured[w] = <<>> \/ ~Polling(w))
    BY DEF Settled
  <2>2. ~Poll(w)
    BY <1>2, <2>1, AlonePolls DEF Poll
  <2>3. Exit(w)
    BY <1>2, <2>1, <2>2 DEF WorkLoop, Dump, Read, Finish, Push
  <2>4. work'[w] = "none" /\ UNCHANGED <<captured, worker_go, worker_live, queueVars>>
    BY <2>3 DEF Exit, WorkersTypeOK, controlVars
  <2> QED BY <2>1, <2>4 DEF Settled, Polling
<1> QED BY <1>1, <1>2

(* A trigger that reaches every worker when all are done with the last.    *)
LEMMA FreshTrigger ==
    ASSUME WorkersTypeOK, Trigger(Worker), NEW w \in Worker,
           Settled(w), captured[w] = <<>>, ~has_event[w]
    PROVE  Fresh(w)'
<1>1. /\ triggers' = triggers + 1 /\ triggers' # 0 /\ captured'[w] = <<triggers'>>
      /\ work'[w] = work[w] /\ ~has_event'[w]
  BY DEF Trigger, WorkersTypeOK, queueVars
<1>2. ~InProgress(w)' /\ work'[w] \notin {"finish", "push"} /\ Begun(w)'
  BY <1>1 DEF Settled, InProgress, Begun
<1> QED BY <1>1, <1>2 DEF Fresh

-----------------------------------------------------------------------------
(* The loop of thread t that bundles the events, in a state where the      *)
(* workers are fresh.                                                      *)

(* From the end of its wait to its push, no worker reads anything out.     *)
WorkersWait(t) ==
    pc[t] \in {"all", "multi", "get", "push"} => \A w \in Worker : Settled(w)

(* A flag that is up tells of an event of the last trigger, but for the    *)
(* loop's own flush between its two steps.                                 *)
FlagsNew(t) ==
    \A w \in Worker : has_event[w] => Newest(w) \/ (At(t, "flag") /\ idx[t] = w)

(* The events the loop has seen are of the last trigger, the only ones     *)
(* queued once it has counted them, and those that it popped.              *)
GathersNew(t) ==
    LET at == pc[t]  v == idx[t]
    IN  /\ at = "all" => \A w \in 1..(v - 1) : Newest(w)
        /\ at = "multi" => /\ \A w \in Worker : Newest(w)
                           /\ \A w \in 1..(v - 1) : Len(data_queue[w]) = 1
        /\ at \in {"get", "push"} => \A w \in Worker : Begun(w)
        /\ at = "get" => /\ \A w \in v..NWorkers : data_queue[w] = <<Whole(w, triggers)>>
                         /\ \A w \in 1..(v - 1) : bundle[w] = Whole(w, triggers)
        /\ at = "push" => \A w \in Worker : bundle[w] = Whole(w, triggers)

AllFresh == \A w \in Worker : Fresh(w)

Together(t) == AllFresh /\ WorkersWait(t) /\ FlagsNew(t) /\ GathersNew(t)

(* A step that touches no worker but to start or stop it, and not the loop. *)
LEMMA OthersKeepTogether ==
    ASSUME NEW T, NEW L, ListTypeOK(T, L), NEW t \in T, Together(t),
           pc'[t] = pc[t], idx'[t] = idx[t],
           UNCHANGED <<triggers, data_queue, has_event, bundle>>,
           AllFresh', WorkersWait(t)'
    PROVE  Together(t)'
<1>1. \A w \in Worker : /\ Newest(w)' = Newest(w) /\ Begun(w)' = Begun(w)
                        /\ Whole(w, triggers)' = Whole(w, triggers)
  BY DEF Newest, Begun, Whole
<1>2. FlagsNew(t)'
  BY <1>1 DEF Together, FlagsNew, At
<1>3. idx[t] \in 1..NWorkers /\ NWorkers \in Nat /\ Worker = 1..NWorkers
  BY WorkersAssumption DEF ListTypeOK, Worker
<1>4. /\ \A w \in 1..(idx[t] - 1) : w \in Worker
      /\ \A w \in idx[t]..NWorkers : w \in Worker
  BY <1>3
<1>5. GathersNew(t)'
  BY <1>1, <1>4 DEF Together, GathersNew
<1> QED BY <1>2, <1>5 DEF Together

(* A worker's step: what the loop counts on it has seen, and while the     *)
(* loop gathers there is no step but of a worker that leaves.              *)
LEMMA WorkerKeepsTogether ==
    ASSUME NEW T, NEW L, ListTypeOK(T, L), NEW t \in T, Together(t), Apart,
           NEW v \in Worker, WorkerStep(v)
    PROVE  Together(t)'
<1>0. WorkersTypeOK /\ WorkLoop(v) /\ UNCHANGED <<pc, idx, bundle>>
  BY DEF ListTypeOK, WorkerStep, threadVars
<1>1. \A w \in Worker :
         /\ Fresh(w)' /\ UNCHANGED triggers
         /\ Newest(w)' \/ (data_queue'[w] = data_queue[w] /\ has_event'[w] = has_event[w])
  BY <1>0, FreshWorkLoop DEF Together, AllFresh, Apart
<1>2. UNCHANGED triggers
  BY <1>0, FreshWorkLoop DEF Together, AllFresh, Apart
<1>3. AllFresh'
  BY <1>1 DEF AllFresh
<1>4. WorkersWait(t)'
  BY <1>0, SettledStays DEF Together, WorkersWait, Apart
<1>5. CASE pc[t] \in {"all", "multi", "get", "push"}
  <2>1. UNCHANGED queueVars
    BY <1>0, <1>5, SettledStays DEF Together, WorkersWait, Apart
  <2> QED BY <1>0, <1>2, <1>3, <1>4, <2>1, OthersKeepTogether DEF queueVars
<1>6. CASE pc[t] \notin {"all", "multi", "get", "push"}
  <2>1. GathersNew(t)'
    BY <1>0, <1>6 DEF GathersNew
  <2>2. FlagsNew(t)'
    <3> SUFFICES ASSUME NEW w \in Worker, has_event'[w]
                 PROVE  Newest(w)' \/ (At(t, "flag")' /\ idx'[t] = w)
      BY DEF FlagsNew
    <3>1. CASE data_queue'[w] = data_queue[w] /\ has_event'[w] = has_event[w]
      <4>1. Newest(w)' = Newest(w)
        BY <1>2, <3>1 DEF Newest, Begun, Whole
      <4> QED BY <1>0, <3>1, <4>1 DEF Together, FlagsNew, At
    <3> QED BY <1>1, <3>1
  <2> QED BY <1>3, <1>4, <2>1, <2>2 DEF Together
<1> QED BY <1>5, <1>6

(* A trigger comes when no flag is up and the loop gathers nothing.        *)
LEMMA TriggerKeepsTogether ==
    ASSUME NEW T, NEW L, ListTypeOK(T, L), NEW t \in T, Together(t), TriggerStep(Worker),
           pc[t] \notin {"all", "multi", "get", "push"},
           \A w \in Worker : Settled(w) /\ captured[w] = <<>> /\ ~has_event[w]
    PROVE  Together(t)'
<1>0. WorkersTypeOK /\ Trigger(Worker) /\ UNCHANGED <<pc, has_event>>
  BY DEF ListTypeOK, TriggerStep, Trigger, threadVars, queueVars
<1>1. AllFresh'
  BY <1>0, FreshTrigger DEF Together, AllFresh
<1>2. WorkersWait(t)' /\ FlagsNew(t)' /\ GathersNew(t)'
  BY <1>0 DEF WorkersWait, FlagsNew, GathersNew
<1> QED BY <1>1, <1>2 DEF Together

(* Moving on, with the events gathered or without.                         *)
LEMMA GotoTogether ==
    ASSUME NEW T, NEW L, ListTypeOK(T, L), NEW t \in T, Together(t),
           UNCHANGED workerVars, pc[t] # "flag",
           NEW label, Goto(t, label),
           \/ label \notin {"all", "multi", "get", "push"}
           \/ label = "all" /\ \A w \in Worker : Settled(w)
    PROVE  Together(t)'
<1>1. pc'[t] = label /\ idx'[t] = 1
  BY DEF Goto, ListTypeOK
<1>2. \A w \in Worker : /\ Newest(w)' = Newest(w) /\ has_event'[w] = has_event[w]
                        /\ Fresh(w)' = Fresh(w) /\ Settled(w)' = Settled(w)
  BY DEF Newest, Begun, Whole, Fresh, InProgress, Handed, Settled, Polling, workerVars
<1>3. AllFresh' /\ WorkersWait(t)'
  BY <1>1, <1>2 DEF Together, AllFresh, WorkersWait
<1>4. FlagsNew(t)'
  BY <1>1, <1>2 DEF Together, FlagsNew, At
<1>5. GathersNew(t)'
  BY <1>1 DEF GathersNew
<1> QED BY <1>3, <1>4, <1>5 DEF Together

(* A queue that is not empty and has not more than one event has one.      *)
LEMMA OneOrMore ==
    ASSUME NEW S, NEW queue \in Seq(S), queue # <<>>, ~(Len(queue) > 1)
    PROVE  Len(queue) = 1
<1> DEFINE n == Len(queue)
<1>1. n \in Nat \ {0}
  BY EmptySeq
<1>2. ~(n > 1)
  OBVIOUS
<1> HIDE DEF n
<1>3. n = 1
  BY <1>1, <1>2
<1> QED BY <1>3 DEF n

(* The checks: what the loop is let through to gather is of the last       *)
(* trigger, and nothing else is queued.                                    *)
LEMMA ChecksTogether ==
    ASSUME NEW T, NEW L, ListTypeOK(T, L), NEW t \in T, Together(t),
           \/ AnyWorkersHaveEvent(t, "any", "wait", "check")
           \/ AllWorkersHaveEvent(t, "all", "multi", "flush")
           \/ AnyWorkersHaveMultiEvent(t, "multi", "flush", "get")
    PROVE  Together(t)'
<1> DEFINE v == idx[t]
<1>0. /\ v \in 1..NWorkers /\ NWorkers \in Nat \ {0} /\ WorkersTypeOK
      /\ pc \in [T -> L] /\ idx \in [T -> Worker] /\ Worker = 1..NWorkers
  BY WorkersAssumption DEF ListTypeOK, Worker
<1>u. UNCHANGED workerVars /\ UNCHANGED bundle
  BY DEF AnyWorkersHaveEvent, AllWorkersHaveEvent, AnyWorkersHaveMultiEvent
<1>n. \A w \in Worker : /\ Newest(w)' = Newest(w) /\ has_event'[w] = has_event[w]
                        /\ Fresh(w)' = Fresh(w) /\ Settled(w)' = Settled(w)
                        /\ Begun(w)' = Begun(w)
  BY <1>u DEF Newest, Begun, Whole, Fresh, InProgress, Handed, Settled, Polling, workerVars
<1>m. UNCHANGED <<triggers, data_queue>>
  BY <1>u DEF workerVars
<1>p. /\ pc[t] \in {"any", "all", "multi"}
      /\ pc'[t] \in {"any", "wait", "check", "all", "multi", "flush", "get"}
      /\ pc[t] = "any" => pc'[t] \in {"any", "wait", "check"}
  BY <1>0 DEF AnyWorkersHaveEvent, AllWorkersHaveEvent, AnyWorkersHaveMultiEvent,
         NextWorker, Goto, At
<1>1. AllFresh'
  BY <1>n DEF Together, AllFresh
<1>2. WorkersWait(t)'
  BY <1>n, <1>p DEF Together, WorkersWait
<1>3. FlagsNew(t)'
  BY <1>n, <1>p DEF Together, FlagsNew, At
<1>4. GathersNew(t)'
  <2>1. CASE pc'[t] \in {"any", "wait", "check", "flush"}
    BY <2>1 DEF GathersNew
  <2>2. CASE pc'[t] = "all"
    <3>1. has_event[v] /\ idx'[t] = v + 1 /\ pc[t] = "all"
      BY <1>0, <1>p, <2>2 DEF AnyWorkersHaveEvent, AllWorkersHaveEvent,
             AnyWorkersHaveMultiEvent, NextWorker, Goto, At
    <3>2. Newest(v)
      BY <1>0, <3>1 DEF Together, FlagsNew, At
    <3>3. \A w \in 1..(v - 1) : Newest(w)
      BY <3>1 DEF Together, GathersNew
    <3>4. \A w \in 1..v : Newest(w) /\ w \in Worker
      BY <1>0, <3>2, <3>3
    <3>5. \A w \in 1..(idx'[t] - 1) : Newest(w)'
      BY <1>0, <1>n, <3>1, <3>4
    <3> QED BY <2>2, <3>5 DEF GathersNew
  <2>3. CASE pc'[t] = "multi"
    <3>1. \A w \in Worker : Newest(w)
      <4>1. CASE pc[t] = "multi"
        BY <4>1 DEF Together, GathersNew
      <4>2. CASE pc[t] # "multi"
        <5>1. has_event[v] /\ v = NWorkers /\ pc[t] = "all"
          BY <1>0, <1>p, <2>3, <4>2 DEF AnyWorkersHaveEvent, AllWorkersHaveEvent,
                 AnyWorkersHaveMultiEvent, NextWorker, Goto, At
        <5>2. Newest(v)
          BY <1>0, <5>1 DEF Together, FlagsNew, At
        <5>3. \A w \in 1..(v - 1) : Newest(w)
          BY <5>1 DEF Together, GathersNew
        <5> QED BY <1>0, <5>1, <5>2, <5>3
      <4> QED BY <4>1, <4>2
    <3>2. \A w \in 1..(idx'[t] - 1) : Len(data_queue'[w]) = 1
      <4>1. CASE pc[t] = "multi"
        <5>1. ~(Len(data_queue[v]) > 1) /\ idx'[t] = v + 1
          BY <1>0, <1>p, <2>3, <4>1 DEF AnyWorkersHaveEvent, AllWorkersHaveEvent,
                 AnyWorkersHaveMultiEvent, NextWorker, Goto, At
        <5>2. Len(data_queue[v]) = 1
          <6>1. data_queue[v] # <<>> /\ data_queue[v] \in Seq(Event)
            BY <1>0, <3>1 DEF Newest, WorkersTypeOK
          <6> QED BY <5>1, <6>1, OneOrMore
        <5>3. \A w \in 1..(v - 1) : Len(data_queue[w]) = 1
          BY <4>1 DEF Together, GathersNew
        <5> QED BY <1>0, <1>m, <5>1, <5>2, <5>3
      <4>2. CASE pc[t] # "multi"
        <5>1. idx'[t] = 1
          BY <1>0, <1>p, <2>3, <4>2 DEF AnyWorkersHaveEvent, AllWorkersHaveEvent,
                 AnyWorkersHaveMultiEvent, NextWorker, Goto, At
        <5> QED BY <5>1
      <4> QED BY <4>1, <4>2
    <3> QED BY <1>n, <2>3, <3>1, <3>2 DEF GathersNew
  <2>4. CASE pc'[t] = "get"
    <3>1. pc[t] = "multi" /\ ~(Len(data_queue[v]) > 1) /\ v = NWorkers /\ idx'[t] = 1
      BY <1>0, <1>p, <2>4 DEF AnyWorkersHaveEvent, AllWorkersHaveEvent,
             AnyWorkersHaveMultiEvent, NextWorker, Goto, At
    <3>2. \A w \in Worker : Newest(w)
      BY <3>1 DEF Together, GathersNew
    <3>3. \A w \in 1..(v - 1) : Len(data_queue[w]) = 1
      BY <3>1 DEF Together, GathersNew
    <3>4. \A w \in Worker : data_queue[w] \in Seq(Event) /\ data_queue[w] # <<>>
      BY <1>0, <3>2 DEF Newest, WorkersTypeOK
    <3>5. Len(data_queue[v]) = 1
      BY <1>0, <3>1, <3>4, OneOrMore
    <3>6. \A w \in Worker : Len(data_queue[w]) = 1
      BY <1>0, <3>1, <3>3, <3>5
    <3>7. \A w \in Worker : data_queue[w] = <<Whole(w, triggers)>>
      <4> SUFFICES ASSUME NEW w \in Worker PROVE data_queue[w] = <<Whole(w, triggers)>>
        OBVIOUS
      <4>1. data_queue[w][1] = Whole(w, triggers)
        BY <3>2, <3>6 DEF Newest
      <4> QED BY <3>4, <3>6, <4>1
    <3>8. \A w \in Worker : Begun(w)
      BY <3>2 DEF Newest
    <3>9. \A w \in Worker : data_queue'[w] = <<Whole(w, triggers)'>>
      BY <1>m, <3>7 DEF Whole
    <3> QED BY <1>0, <1>n, <2>4, <3>1, <3>8, <3>9 DEF GathersNew
  <2> QED BY <1>p, <2>1, <2>2, <2>3, <2>4
<1> QED BY <1>1, <1>2, <1>3, <1>4 DEF Together

(* GetEventData takes the one event of each worker.                        *)
LEMMA GetTogether ==
    ASSUME NEW T, NEW L, ListTypeOK(T, L), NEW t \in T, Together(t), CountsEvents(t),
           GetEventData(t, "get", "push")
    PROVE  Together(t)'
<1> DEFINE v == idx[t]
<1>0. /\ v \in 1..NWorkers /\ NWorkers \in Nat \ {0} /\ WorkersTypeOK
      /\ pc \in [T -> L] /\ idx \in [T -> Worker] /\ Worker = 1..NWorkers
      /\ bundle \in Seq(Event \cup {Uninitialised})
      /\ data_queue \in [Worker -> Seq(Event)] /\ has_event \in [Worker -> BOOLEAN]
  BY WorkersAssumption DEF ListTypeOK, Worker, WorkersTypeOK
<1>1. /\ pc[t] = "get" /\ PopEvent(v) /\ bundle' = Append(bundle, Popped(v))
      /\ \/ v = NWorkers /\ pc'[t] = "push"
         \/ v # NWorkers /\ pc'[t] = "get" /\ idx'[t] = v + 1
  BY <1>0 DEF GetEventData, NextWorker, Goto, At
<1>2. /\ \A w \in Worker : Begun(w) /\ Settled(w)
      /\ \A w \in v..NWorkers : data_queue[w] = <<Whole(w, triggers)>>
      /\ \A w \in 1..(v - 1) : bundle[w] = Whole(w, triggers)
      /\ Len(bundle) = v - 1
  BY <1>1 DEF Together, WorkersWait, GathersNew, CountsEvents, At
<1>3. /\ UNCHANGED <<triggers, captured, memory, static_bundle, work, controlVars>>
      /\ \A w \in Worker \ {v} : data_queue'[w] = data_queue[w]
                                 /\ has_event'[w] = has_event[w]
  BY <1>0, <1>1 DEF PopEvent, deviceVars
<1>4. Popped(v) = Whole(v, triggers) /\ ~has_event'[v]
  <2>1. data_queue[v] = <<Whole(v, triggers)>>
    <3>1. v \in v..NWorkers
      BY <1>0
    <3> QED BY <1>2, <3>1
  <2>2. Popped(v) = Whole(v, triggers) /\ Len(data_queue[v]) = 1
    BY <2>1 DEF Popped
  <2> QED BY <1>0, <1>1, <2>2 DEF PopEvent
<1>5. \A w \in 1..v : bundle'[w] = Whole(w, triggers)
  <2>1. PopEvent(v) /\ v \in Worker
    BY <1>0, <1>1
  <2>2. Popped(v) \in Event \cup {Uninitialised}
    BY <1>0, <2>1, PopEventType
  <2>3. bundle'[v] = Popped(v) /\ \A w \in 1..(v - 1) : bundle'[w] = bundle[w]
    BY <1>0, <1>1, <1>2, <2>2
  <2>4. \A w \in 1..v : w = v \/ w \in 1..(v - 1)
    BY <1>0
  <2> QED BY <1>2, <1>4, <2>3, <2>4
<1>6. AllFresh'
  <2>1. \A w \in Worker : has_event'[w] => has_event[w]
    BY <1>3, <1>4
  <2> QED BY <1>3, <2>1, FreshKept DEF Together, AllFresh
<1>7. WorkersWait(t)'
  BY <1>2, <1>3 DEF WorkersWait, Settled, Polling, controlVars
<1>8. FlagsNew(t)'
  <2> SUFFICES ASSUME NEW w \in Worker, has_event'[w] PROVE Newest(w)'
    BY DEF FlagsNew
  <2>1. w # v /\ has_event[w] /\ data_queue'[w] = data_queue[w]
    BY <1>3, <1>4
  <2>2. Newest(w)
    BY <1>1, <2>1 DEF Together, FlagsNew, At
  <2> QED BY <1>3, <2>1, <2>2 DEF Newest, Begun, Whole
<1>9. GathersNew(t)'
  <2>1. \A w \in Worker : Begun(w)'
    BY <1>2, <1>3 DEF Begun
  <2>2. \A w \in 1..v : bundle'[w] = Whole(w, triggers)'
    BY <1>3, <1>5 DEF Whole
  <2>3. CASE v = NWorkers /\ pc'[t] = "push"
    BY <1>0, <2>1, <2>2, <2>3 DEF GathersNew
  <2>4. CASE v # NWorkers /\ pc'[t] = "get" /\ idx'[t] = v + 1
    <3>1. \A w \in (v + 1)..NWorkers : w \in v..NWorkers /\ w \in Worker \ {v}
      BY <1>0
    <3>2. \A w \in (v + 1)..NWorkers : data_queue'[w] = <<Whole(w, triggers)'>>
      BY <1>2, <1>3, <3>1 DEF Whole
    <3>3. \A w \in 1..((v + 1) - 1) : bundle'[w] = Whole(w, triggers)'
      BY <1>0, <2>2
    <3> QED BY <2>1, <2>4, <3>2, <3>3 DEF GathersNew
  <2> QED BY <1>1, <2>3, <2>4
<1> QED BY <1>6, <1>7, <1>8, <1>9 DEF Together

(* A flush leaves only what is of the last trigger.                        *)
LEMMA FlushTogether ==
    ASSUME NEW T, NEW L, ListTypeOK(T, L), NEW t \in T, Together(t),
           FlushEventData(t, "flush", "flag", "check")
    PROVE  Together(t)'
<1> DEFINE v == idx[t]
<1>0. /\ v \in Worker /\ pc \in [T -> L] /\ idx \in [T -> Worker]
      /\ data_queue \in [Worker -> Seq(Event)] /\ has_event \in [Worker -> BOOLEAN]
  BY DEF ListTypeOK, WorkersTypeOK
<1>1. /\ \/ /\ pc[t] = "flush" /\ pc'[t] = "flag" /\ idx'[t] = v
            /\ UNCHANGED has_event
         \/ /\ pc[t] = "flag" /\ pc'[t] \in {"flush", "check"}
            /\ has_event' = [has_event EXCEPT ![v] = FALSE] /\ data_queue' = data_queue
      /\ \A w \in Worker \ {v} : data_queue'[w] = data_queue[w]
      /\ UNCHANGED <<triggers, captured, memory, static_bundle, work>>
  BY <1>0 DEF FlushEventData, FlushQueue, FlushFlag, ClearQueue, ClearFlag, NextWorker,
         Goto, At, deviceVars
<1>2. \A w \in Worker : has_event'[w] => has_event[w]
  BY <1>0, <1>1
<1>3. AllFresh'
  BY <1>1, <1>2, FreshKept DEF Together, AllFresh
<1>4. WorkersWait(t)' /\ GathersNew(t)'
  BY <1>1 DEF WorkersWait, GathersNew
<1>5. FlagsNew(t)'
  <2> SUFFICES ASSUME NEW w \in Worker, has_event'[w]
               PROVE  Newest(w)' \/ (At(t, "flag")' /\ idx'[t] = w)
    BY DEF FlagsNew
  <2>1. CASE w = v
    BY <1>0, <1>1, <2>1 DEF At
  <2>2. CASE w # v
    <3>1. Newest(w)
      BY <1>2, <2>2 DEF Together, FlagsNew
    <3> QED BY <1>1, <2>2, <3>1 DEF Newest, Begun, Whole
  <2> QED BY <2>1, <2>2
<1> QED BY <1>3, <1>4, <1>5 DEF Together

(* Starting workers while the loop does not count on their waiting, and    *)
(* stopping them at any time.                                              *)
LEMMA StartStopTogether ==
    ASSUME NEW T, NEW L, ListTypeOK(T, L), NEW t \in T, Together(t), NEW u \in T \ {t},
           NEW here \in L, NEW join \in L, NEW after \in L,
           \/ StopWorkers(u, here, after) \/ StopThreads(u, here, join, after)
           \/ /\ StartThreads(u, here, after) \/ StartWorkers(u, here, after)
              /\ WorkersWait(t)'
    PROVE  Together(t)'
<1> DEFINE v == idx[u]
<1>0. /\ v \in Worker /\ WorkersTypeOK /\ pc \in [T -> L] /\ idx \in [T -> Worker]
      /\ u \in T /\ work \in [Worker -> {"none", "dump", "poll", "read", "finish", "push"}]
  BY DEF ListTypeOK, WorkersTypeOK
<1>1. UNCHANGED <<data_queue, has_event, bundle>>
  BY <1>0, StartStopType
<1>2. /\ UNCHANGED <<triggers, captured, memory, static_bundle>>
      /\ \A w \in Worker : \/ work'[w] = work[w]
                           \/ ~InProgress(w) /\ work'[w] \in {"none", "dump", "poll"}
  <2>1. CASE StartThreads(u, here, after)
    <3>1. StartThread(v)
      BY <2>1 DEF StartThreads
    <3>2. /\ UNCHANGED <<triggers, captured, memory, static_bundle>> /\ work[v] = "none"
          /\ work' = [work EXCEPT ![v] = IF Device(v).dumps_first THEN "dump" ELSE "poll"]
      BY <3>1 DEF StartThread
    <3>3. ~InProgress(v) /\ work'[v] \in {"none", "dump", "poll"}
      BY <1>0, <3>2 DEF InProgress
    <3>4. \A w \in Worker \ {v} : work'[w] = work[w]
      BY <1>0, <3>2
    <3> QED BY <3>2, <3>3, <3>4
  <2>2. CASE ~StartThreads(u, here, after)
    <3>1. \/ AskToStop(v) \/ SetGoTime(v, TRUE) \/ SetGoTime(v, FALSE)
          \/ UNCHANGED workerVars
      BY <2>2 DEF StartWorkers, StopWorkers, StopThreads
    <3> QED BY <3>1 DEF AskToStop, SetGoTime, deviceVars, workerVars
  <2> QED BY <2>1, <2>2
<1>3. pc'[t] = pc[t] /\ idx'[t] = idx[t]
  <2>1. \E label, next \in L : Moves(u, label, next)
    BY DEF StartThreads, StartWorkers, StopWorkers, StopThreads, Moves
  <2> QED BY <1>0, <2>1, MovesNoOther
<1>4. AllFresh'
  BY <1>1, <1>2, FreshKept DEF Together, AllFresh
<1>5. WorkersWait(t)'
  <2>1. CASE pc[t] \notin {"all", "multi", "get", "push"}
    BY <1>3, <2>1 DEF WorkersWait
  <2>2. CASE /\ pc[t] \in {"all", "multi", "get", "push"}
             /\ StopWorkers(u, here, after) \/ StopThreads(u, here, join, after)
    <3>1. \A w \in Worker : Settled(w)
      BY <2>2 DEF Together, WorkersWait
    <3>2. AskToStop(v) \/ SetGoTime(v, FALSE) \/ UNCHANGED workerVars
      BY <2>2 DEF StopWorkers, StopThreads
    <3>3. UNCHANGED <<work, captured>> /\ \A w \in Worker : Polling(w)' => Polling(w)
      <4>1. CASE AskToStop(v)
        BY <1>0, <4>1 DEF AskToStop, Polling, deviceVars, WorkersTypeOK
      <4>2. CASE SetGoTime(v, FALSE)
        BY <1>0, <4>2 DEF SetGoTime, Polling, deviceVars, WorkersTypeOK
      <4>3. CASE UNCHANGED workerVars
        BY <4>3 DEF workerVars, Polling
      <4> QED BY <3>2, <4>1, <4>2, <4>3
    <3>4. \A w \in Worker : Settled(w)'
      BY <3>1, <3>3 DEF Settled
    <3> QED BY <3>4 DEF WorkersWait
  <2> QED BY <2>1, <2>2
<1> QED BY <1>1, <1>2, <1>3, <1>4, <1>5, OthersKeepTogether

(* Another thread's step that touches no worker.                           *)
LEMMA ElsewhereTogether ==
    ASSUME NEW T, NEW L, ListTypeOK(T, L), NEW t \in T, Together(t),
           pc'[t] = pc[t], idx'[t] = idx[t], UNCHANGED <<workerVars, bundle>>
    PROVE  Together(t)'
<1>1. \A w \in Worker : Fresh(w)' = Fresh(w) /\ Settled(w)' = Settled(w)
  BY DEF Fresh, Begun, Whole, InProgress, Handed, Settled, Polling, workerVars
<1>2. AllFresh' /\ WorkersWait(t)'
  BY <1>1 DEF Together, AllFresh, WorkersWait
<1> QED BY <1>2, OthersKeepTogether DEF workerVars

-----------------------------------------------------------------------------
(* Bundles of one trigger.                                                 *)

OfOneTrigger(b) == \E n \in 1..triggers : \A w \in Worker : b[w] = Whole(w, n)

AllOfOne(s) == \A i \in DOMAIN s : OfOneTrigger(s[i])

(* What the loop pushes is of one trigger, if one has come.                *)
LEMMA PushedOfOne ==
    ASSUME WorkersTypeOK, NEW t, Together(t), At(t, "push"),
           \E w \in Worker : ~Device(w).dumps_first
    PROVE  OfOneTrigger(bundle)
<1>1. \A w \in Worker : Begun(w) /\ bundle[w] = Whole(w, triggers)
  BY DEF Together, GathersNew, At
<1>2. triggers # 0
  BY <1>1 DEF Begun
<1>3. triggers \in 1..triggers
  BY <1>2 DEF WorkersTypeOK
<1> QED BY <1>1, <1>3 DEF OfOneTrigger

(* Queues of such bundles.                                                 *)
LEMMA OfOneSequences ==
    ASSUME NEW S, NEW s \in Seq(S), AllOfOne(s)
    PROVE  /\ \A b \in S : OfOneTrigger(b) => AllOfOne(Append(s, b))
           /\ s # <<>> => OfOneTrigger(Head(s)) /\ AllOfOne(Tail(s))
           /\ \A r \in Seq(S) : AllOfOne(r) => AllOfOne(s \o r)
<1>1. ASSUME NEW b \in S, OfOneTrigger(b) PROVE AllOfOne(Append(s, b))
  BY <1>1 DEF AllOfOne
<1>2. ASSUME s # <<>> PROVE OfOneTrigger(Head(s)) /\ AllOfOne(Tail(s))
  <2>1. /\ Head(s) = s[1] /\ 1 \in DOMAIN s
        /\ \A i \in DOMAIN Tail(s) : i + 1 \in DOMAIN s /\ Tail(s)[i] = s[i + 1]
    BY <1>2
  <2> QED BY <2>1 DEF AllOfOne
<1>3. ASSUME NEW r \in Seq(S), AllOfOne(r) PROVE AllOfOne(s \o r)
  <2>1. \A i \in DOMAIN (s \o r) :
           \/ i \in DOMAIN s /\ (s \o r)[i] = s[i]
           \/ i - Len(s) \in DOMAIN r /\ (s \o r)[i] = r[i - Len(s)]
    BY <1>3
  <2> QED BY <1>3, <2>1 DEF AllOfOne
<1> QED BY <1>1, <1>2, <1>3

(* A bundle of one trigger stays so when triggers are counted.             *)
LEMMA OfOneLater ==
    ASSUME triggers \in Nat, triggers' \in Nat, triggers <= triggers', NEW b,
           OfOneTrigger(b)
    PROVE  \E n \in 1..triggers' : \A w \in Worker : b[w] = Whole(w, n)
BY DEF OfOneTrigger
=============================================================================
