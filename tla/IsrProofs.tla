----------------------------- MODULE IsrProofs -----------------------------
(***************************************************************************)
(* Proofs about the interrupt handlers and isr_event_loop, module          *)
(* IsrHandlers, for every length of the queue, every debounce interval,    *)
(* every range of the tick count and every count at the start, as long as  *)
(* a behaviour is shorter than one turn of the tick count.                 *)
(***************************************************************************)
EXTENDS IsrHandlers, SequenceTheorems, TLAPS

-----------------------------------------------------------------------------
(* Arithmetic of the tick count.                                            *)

(* The remainder of a number at most one turn away.                         *)
LEMMA RemainderNear ==
    ASSUME NEW range \in Nat \ {0}, NEW n \in Int, -range <= n, n < 2 * range
    PROVE  /\ 0 <= n /\ n < range => n % range = n
           /\ range <= n => n % range = n - range
           /\ n < 0 => n % range = n + range
OBVIOUS

TicksAt(t) == (FirstTick + t) % TickRange

(* The unsigned difference of two tick counts is the time between them.     *)
LEMMA ElapsedIsTime ==
    ASSUME NEW s \in 0..MaxTime, NEW t \in 0..MaxTime, s <= t
    PROVE  Elapsed(TicksAt(t), TicksAt(s)) = t - s
<1>1. /\ TickRange \in Nat \ {0} /\ FirstTick \in Int /\ 0 <= FirstTick /\ FirstTick < TickRange
      /\ s \in Int /\ 0 <= s /\ s < TickRange /\ t \in Int /\ t < TickRange
  BY TicksAssumption, BoundsAssumption
<1>2. \A u \in Int : 0 <= u /\ u < TickRange =>
          \/ FirstTick + u < TickRange /\ TicksAt(u) = FirstTick + u
          \/ FirstTick + u >= TickRange /\ TicksAt(u) = FirstTick + u - TickRange
  <2> SUFFICES ASSUME NEW u \in Int, 0 <= u, u < TickRange
               PROVE  \/ FirstTick + u < TickRange /\ TicksAt(u) = FirstTick + u
                      \/ FirstTick + u >= TickRange /\ TicksAt(u) = FirstTick + u - TickRange
      OBVIOUS
  <2>1. PICK n \in Int : n = FirstTick + u
    BY <1>1
  <2>2. -TickRange <= n /\ 0 <= n /\ n < 2 * TickRange
    BY <1>1, <2>1
  <2>3. (n < TickRange => n % TickRange = n) /\ (TickRange <= n => n % TickRange = n - TickRange)
    BY <1>1, <2>2, RemainderNear
  <2>4. TicksAt(u) = n % TickRange
    BY <2>1 DEF TicksAt
  <2>5. QED
    BY <1>1, <2>1, <2>3, <2>4
<1>3. PICK d \in Int : d = TicksAt(t) - TicksAt(s) /\ (d = t - s \/ d = t - s - TickRange)
  BY <1>1, <1>2
<1>4. -TickRange <= d /\ d < 2 * TickRange /\ (d = t - s => 0 <= d /\ d < TickRange)
      /\ (d = t - s - TickRange => d < 0)
  BY <1>1, <1>3
<1>5. d % TickRange = t - s
  BY <1>1, <1>3, <1>4, RemainderNear
<1>6. QED
  BY <1>3, <1>5 DEF Elapsed

-----------------------------------------------------------------------------
(* Types.                                                                   *)
LEMMA TypeInit == Init => TypeOK
BY IsrLenAssumption, BoundsAssumption, EmptySeq DEF Init, TypeOK

(* An interrupt joins the queue or is lost.                                 *)
LEMMA QueuedOrLost ==
    ASSUME TypeOK, NEW data \in Data, xQueueSendFromISR(data)
    PROVE  /\ isr_evt_queue' \in Seq(Data) /\ Len(isr_evt_queue') <= IsrLen
           /\ \/ isr_evt_queue' = isr_evt_queue
              \/ /\ Len(isr_evt_queue') = Len(isr_evt_queue) + 1
                 /\ isr_evt_queue'[Len(isr_evt_queue) + 1] = data
                 /\ \A i \in 1..Len(isr_evt_queue) : isr_evt_queue'[i] = isr_evt_queue[i]
<1>1. CASE Len(isr_evt_queue) < IsrLen
  BY <1>1, IsrLenAssumption, AppendProperties DEF TypeOK, xQueueSendFromISR
<1>2. CASE ~(Len(isr_evt_queue) < IsrLen)
  BY <1>2 DEF TypeOK, xQueueSendFromISR
<1>3. QED
  BY <1>1, <1>2

(* What the loop receives was the oldest in the queue.                      *)
LEMMA ReceivedFirst ==
    ASSUME TypeOK, Receive
    PROVE  /\ Received \in Data /\ Received = isr_evt_queue[1]
           /\ isr_evt_queue' \in Seq(Data) /\ Len(isr_evt_queue') <= IsrLen
           /\ Len(isr_evt_queue) \in Nat \ {0} /\ Len(isr_evt_queue') = Len(isr_evt_queue) - 1
           /\ \A i \in 1..Len(isr_evt_queue') : isr_evt_queue'[i] = isr_evt_queue[i + 1]
BY IsrLenAssumption, HeadTailProperties, LenProperties, ElementOfSeq DEF TypeOK, Receive, Received

(* A raised interrupt, as the handlers put it together.                     *)
LEMMA RaisedIsData ==
    ASSUME TypeOK, NEW event \in Sources, NEW ticks \in 0..(TickRange - 1), Len(hits) < MaxHits
    PROVE  [event |-> event, event_ticks |-> ticks, hit |-> Len(hits) + 1] \in Data
<1>1. Len(hits) + 1 \in 1..MaxHits
  BY BoundsAssumption, LenProperties DEF TypeOK
<1>2. event \in Event
  BY SourcesAssumption
<1>3. QED
  BY <1>1, <1>2 DEF Data

(* A handler raises an event of Sources, with some tick count.              *)
LEMMA HandlersInterrupt ==
    ASSUME TypeOK, breakbeam_gpio_isr_handler \/ push_gpio_isr_handler
    PROVE  \E event \in Sources, ticks \in 0..(TickRange - 1) :
               /\ Interrupt(event, ticks)
               /\ event \in Beam => ticks = TicksAt(time)
<1>1. TickRange \in Nat \ {0} /\ FirstTick + time \in Int /\ Debounce \in 0..(TickRange - 1)
  BY TicksAssumption, BoundsAssumption DEF TypeOK
<1>2. xTaskGetTickCount = TicksAt(time)
  BY DEF xTaskGetTickCount, TicksAt
<1>3. xTaskGetTickCount \in 0..(TickRange - 1)
  BY <1>1 DEF xTaskGetTickCount
<1>4. Garbage \subseteq 0..(TickRange - 1)
  BY <1>1 DEF Garbage
<1>5. "TE_PUSH" \notin Beam
  BY DEF Beam
<1>6. CASE breakbeam_gpio_isr_handler
  BY <1>2, <1>3, <1>6 DEF breakbeam_gpio_isr_handler
<1>7. CASE push_gpio_isr_handler
  BY <1>4, <1>5, <1>7 DEF push_gpio_isr_handler
<1>8. QED
  BY <1>6, <1>7

LEMMA TypeStep == TypeOK /\ [Next]_vars => TypeOK'
<1> SUFFICES ASSUME TypeOK, [Next]_vars PROVE TypeOK'
    OBVIOUS
<1>1. CASE Tick
  BY <1>1, BoundsAssumption DEF Tick, TypeOK
<1>2. ASSUME NEW event \in Sources, NEW ticks \in 0..(TickRange - 1), Interrupt(event, ticks)
      PROVE  TypeOK'
  <2>1. /\ isr_evt_queue' \in Seq(Data) /\ Len(isr_evt_queue') <= IsrLen
    BY <1>2, RaisedIsData, QueuedOrLost DEF Interrupt
  <2>2. hits' \in Seq([event : Event, time : 0..MaxTime]) /\ Len(hits') <= MaxHits
    <3>1. [event |-> event, time |-> time] \in [event : Event, time : 0..MaxTime]
      BY SourcesAssumption DEF TypeOK
    <3>2. QED
      BY <1>2, <3>1, AppendProperties, BoundsAssumption DEF Interrupt, TypeOK
  <2>3. QED
    BY <1>2, <2>1, <2>2 DEF Interrupt, TypeOK
<1>3. CASE Ignore
  <2>1. Received \in Data /\ isr_evt_queue' \in Seq(Data) /\ Len(isr_evt_queue') <= IsrLen
    BY <1>3, ReceivedFirst DEF Ignore
  <2>2. Received.hit \in 1..MaxHits
    BY <2>1 DEF Data
  <2>3. QED
    BY <1>3, <2>1, <2>2 DEF Ignore, TypeOK
<1>4. CASE Take
  <2>1. Received \in Data /\ isr_evt_queue' \in Seq(Data) /\ Len(isr_evt_queue') <= IsrLen
    BY <1>4, ReceivedFirst DEF Take
  <2>2. <<Received>> \in Seq(Data) /\ Len(<<Received>>) = 1
    BY <2>1
  <2>3. QED
    BY <1>4, <2>1, <2>2 DEF Take, TypeOK
<1>5. CASE Post
  <2>1. Head(event_data) \in Data
    BY <1>5, HeadTailProperties DEF Post, TypeOK
  <2>2. posted' \in Seq(1..MaxHits)
    BY <1>5, <2>1, AppendProperties DEF Post, TypeOK, Data
  <2>3. event_data' \in Seq(Data) /\ Len(event_data') <= 1
    BY <1>5, EmptySeq DEF Post
  <2>4. QED
    BY <1>5, <2>1, <2>2, <2>3 DEF Post, TypeOK
<1>6. CASE UNCHANGED vars
  BY <1>6 DEF vars, TypeOK
<1>7. QED
  BY <1>1, <1>2, <1>3, <1>4, <1>5, <1>6, HandlersInterrupt DEF Next, isr_event_loop

(* The queue of the interrupts keeps within its length, and everything in   *)
(* it is an event that a handler raised.                                    *)
THEOREM IsrTypeCorrect == Spec => []TypeOK
BY TypeInit, TypeStep, PTL DEF Spec

-----------------------------------------------------------------------------
(* The invariant.  An event stands for the interrupt that raised it.        *)
Stands(data, raised) ==
    /\ data.hit \in 1..Len(raised)
    /\ data.event = raised[data.hit].event
    /\ data.event \in Beam => data.event_ticks = TicksAt(raised[data.hit].time)

Truthful ==
    /\ \A i \in 1..Len(isr_evt_queue) : Stands(isr_evt_queue[i], hits)
    /\ event_data # <<>> => Stands(event_data[1], hits)
    /\ prev_event_data # Zeroed => Stands(prev_event_data, hits)

(* Time goes on between interrupts.                                         *)
Timely ==
    /\ \A j \in 1..Len(hits) : hits[j].time <= time
    /\ \A i, j \in 1..Len(hits) : i <= j => hits[i].time <= hits[j].time

(* Interrupts pass the loop in their order: first those that were posted    *)
(* and the last one that was decided, then the one that waits to be posted, *)
(* then those in the queue.                                                 *)
Decided == {posted[k] : k \in 1..Len(posted)} \cup
           (IF prev_event_data = Zeroed THEN {} ELSE {prev_event_data.hit})
Ordered ==
    /\ \A i, j \in 1..Len(isr_evt_queue) : i < j => isr_evt_queue[i].hit < isr_evt_queue[j].hit
    /\ \A n \in Decided, i \in 1..Len(isr_evt_queue) : n < isr_evt_queue[i].hit
    /\ event_data # <<>> => \A i \in 1..Len(isr_evt_queue) : event_data[1].hit < isr_evt_queue[i].hit
    /\ event_data # <<>> => \A n \in Decided : n < event_data[1].hit
    /\ \A n \in Decided : n <= Len(hits)
    /\ \A i, j \in 1..Len(posted) : i < j => posted[i] < posted[j]

(* Since the last event that was posted only duplicates of it were decided, *)
(* and the one that waits to be posted is none.                             *)
Spaced ==
    /\ prev_event_data = Zeroed <=> posted = <<>>
    /\ posted # <<>> =>
          /\ prev_event_data.hit >= posted[Len(posted)]
          /\ prev_event_data.event = hits[posted[Len(posted)]].event
    /\ event_data # <<>> /\ event_data[1].event = prev_event_data.event =>
          Elapsed(event_data[1].event_ticks, prev_event_data.event_ticks) >= Debounce

Debounced == TypeOK /\ Truthful /\ Timely /\ Ordered /\ Spaced

LEMMA DebouncedInit == Init => Debounced
BY TypeInit DEF Init, Debounced, Truthful, Timely, Ordered, Spaced, Decided

(* Interrupts are numbered.                                                 *)
LEMMA DecidedAreNumbers ==
    ASSUME TypeOK
    PROVE  /\ \A n \in Decided : n \in Nat
           /\ \A k \in 1..Len(posted) : posted[k] \in Decided /\ posted[k] \in Nat \ {0}
<1>1. \A k \in 1..Len(posted) : posted[k] \in Nat \ {0}
  BY BoundsAssumption, ElementOfSeq DEF TypeOK
<1>2. prev_event_data # Zeroed => prev_event_data.hit \in Nat
  BY BoundsAssumption DEF TypeOK, Data
<1>3. QED
  BY <1>1, <1>2 DEF Decided

LEMMA LastDecided ==
    ASSUME TypeOK, \A n \in Decided : n <= Len(hits), posted # <<>>
    PROVE  /\ Len(posted) \in Nat \ {0}
           /\ posted[Len(posted)] \in Decided /\ posted[Len(posted)] \in 1..Len(hits)
<1>1. Len(posted) \in Nat \ {0}
  BY EmptySeq, LenProperties DEF TypeOK
<1>2. posted[Len(posted)] \in Decided /\ posted[Len(posted)] \in Nat \ {0}
  BY <1>1, DecidedAreNumbers
<1>3. Len(hits) \in Nat
  BY LenProperties DEF TypeOK
<1>4. QED
  BY <1>1, <1>2, <1>3

(* An interrupt is newer than all others.                                   *)
LEMMA DebouncedInterrupt ==
    ASSUME Debounced, NEW event \in Sources, NEW ticks \in 0..(TickRange - 1),
           Interrupt(event, ticks), event \in Beam => ticks = TicksAt(time), TypeOK'
    PROVE  Debounced'
<1>1. TypeOK /\ Truthful /\ Timely /\ Ordered /\ Spaced
  BY DEF Debounced
<1>2. PICK new \in Nat : new = Len(hits) + 1
  BY <1>1, LenProperties DEF TypeOK
<1>3. PICK data \in Data : data = [event |-> event, event_ticks |-> ticks, hit |-> new]
  BY <1>1, <1>2, RaisedIsData DEF Interrupt
<1>4. /\ Len(hits) \in Nat /\ Len(hits') = new
      /\ \A i \in 1..Len(hits) : hits'[i] = hits[i]
      /\ hits'[new] = [event |-> event, time |-> time]
  <2>1. [event |-> event, time |-> time] \in [event : Event, time : 0..MaxTime]
    BY <1>1, SourcesAssumption DEF TypeOK
  <2>2. hits \in Seq([event : Event, time : 0..MaxTime])
    BY <1>1 DEF TypeOK
  <2>3. QED
    BY <1>2, <2>1, <2>2, AppendProperties DEF Interrupt
<1>5. \/ isr_evt_queue' = isr_evt_queue
      \/ /\ Len(isr_evt_queue') = Len(isr_evt_queue) + 1
         /\ isr_evt_queue'[Len(isr_evt_queue) + 1] = data
         /\ \A i \in 1..Len(isr_evt_queue) : isr_evt_queue'[i] = isr_evt_queue[i]
  <2>1. xQueueSendFromISR(data)
    BY <1>2, <1>3 DEF Interrupt
  <2>2. QED
    BY <1>1, <2>1, QueuedOrLost
<1>6. Len(isr_evt_queue) \in Nat
  BY <1>1, LenProperties DEF TypeOK
<1>7. UNCHANGED <<time, event_data, prev_event_data, posted, ignored>>
  BY DEF Interrupt
<1>8. Truthful'
  <2>1. ASSUME NEW d, Stands(d, hits) PROVE Stands(d, hits')
    BY <1>2, <1>4, <2>1 DEF Stands
  <2>2. Stands(data, hits')
    BY <1>2, <1>3, <1>4 DEF Stands
  <2>3. \A i \in 1..Len(isr_evt_queue') : Stands(isr_evt_queue'[i], hits')
    BY <1>1, <1>5, <1>6, <2>1, <2>2 DEF Truthful
  <2>4. /\ event_data' # <<>> => Stands(event_data'[1], hits')
        /\ prev_event_data' # Zeroed => Stands(prev_event_data', hits')
    BY <1>1, <1>7, <2>1 DEF Truthful
  <2>5. QED
    BY <2>3, <2>4 DEF Truthful
<1>9. Timely'
  <2>1. \A j \in 1..Len(hits') : \/ j \in 1..Len(hits) /\ hits'[j] = hits[j]
                                 \/ j = new /\ hits'[j].time = time
    BY <1>2, <1>4
  <2>2. time \in Int
    BY <1>1 DEF TypeOK
  <2>3. \A j \in 1..Len(hits') : hits'[j].time <= time
    BY <1>1, <2>1, <2>2 DEF Timely
  <2>4. \A i, j \in 1..Len(hits') : i <= j => hits'[i].time <= hits'[j].time
    BY <1>1, <1>2, <1>4, <2>1, <2>2 DEF Timely
  <2>5. QED
    BY <1>7, <2>3, <2>4 DEF Timely
<1>10. Ordered'
  <2>1. Decided' = Decided
    BY <1>7 DEF Decided
  <2>2. \A n \in Decided : n \in Int /\ n <= Len(hits)
    BY <1>1, DecidedAreNumbers DEF Ordered
  <2>3. /\ \A i \in 1..Len(isr_evt_queue) : isr_evt_queue[i].hit \in 1..Len(hits)
        /\ event_data # <<>> => event_data[1].hit \in 1..Len(hits)
    BY <1>1 DEF Truthful, Stands
  <2>4. \A i \in 1..Len(isr_evt_queue') :
            \/ i \in 1..Len(isr_evt_queue) /\ isr_evt_queue'[i] = isr_evt_queue[i]
            \/ i = Len(isr_evt_queue) + 1 /\ isr_evt_queue'[i].hit = new
    BY <1>3, <1>5, <1>6
  <2>5. \A i, j \in 1..Len(isr_evt_queue') : i < j => isr_evt_queue'[i].hit < isr_evt_queue'[j].hit
    BY <1>1, <1>2, <1>4, <1>6, <2>3, <2>4 DEF Ordered
  <2>6. \A n \in Decided, i \in 1..Len(isr_evt_queue') : n < isr_evt_queue'[i].hit
    BY <1>1, <1>2, <1>4, <1>6, <2>2, <2>4 DEF Ordered
  <2>7. ASSUME event_data # <<>>, NEW i \in 1..Len(isr_evt_queue')
        PROVE  event_data[1].hit < isr_evt_queue'[i].hit
    <3>1. CASE i \in 1..Len(isr_evt_queue) /\ isr_evt_queue'[i] = isr_evt_queue[i]
      BY <1>1, <2>7, <3>1 DEF Ordered
    <3>2. CASE isr_evt_queue'[i].hit = new
      BY <1>2, <1>4, <2>3, <2>7, <3>2
    <3>3. QED
      BY <2>4, <2>7, <3>1, <3>2
  <2>8. \A n \in Decided : n <= Len(hits')
    BY <1>2, <1>4, <2>2
  <2>9. QED
    BY <1>1, <1>7, <2>1, <2>5, <2>6, <2>7, <2>8 DEF Ordered
<1>11. Spaced'
  <2>1. posted # <<>> => posted[Len(posted)] \in 1..Len(hits)
    BY <1>1, LastDecided DEF Ordered
  <2>2. posted # <<>> => hits'[posted[Len(posted)]] = hits[posted[Len(posted)]]
    BY <1>4, <2>1
  <2>3. QED
    BY <1>1, <1>7, <2>2 DEF Spaced
<1>12. QED
  BY <1>8, <1>9, <1>10, <1>11 DEF Debounced

LEMMA DebouncedTick == ASSUME Debounced, Tick, TypeOK' PROVE Debounced'
<1>1. TypeOK /\ Truthful /\ Timely /\ Ordered /\ Spaced
  BY DEF Debounced
<1>2. /\ UNCHANGED <<isr_evt_queue, event_data, prev_event_data, hits, posted, ignored>>
      /\ time' = time + 1 /\ time \in Int
  BY <1>1 DEF Tick, TypeOK
<1>3. \A j \in 1..Len(hits) : hits[j].time \in Int
  <2>1. hits \in Seq([event : Event, time : 0..MaxTime])
    BY <1>1 DEF TypeOK
  <2>2. \A j \in 1..Len(hits) : hits[j] \in [event : Event, time : 0..MaxTime]
    BY <2>1, ElementOfSeq
  <2>3. QED
    BY <2>2
<1>4. Timely'
  BY <1>1, <1>2, <1>3 DEF Timely
<1>5. Truthful' /\ Ordered' /\ Spaced'
  BY <1>1, <1>2 DEF Truthful, Ordered, Spaced, Decided
<1>6. QED
  BY <1>4, <1>5 DEF Debounced

(* Without the oldest event the queue is what it was.                       *)
LEMMA RestOfQueue ==
    ASSUME Debounced, Receive
    PROVE  /\ Stands(Received, hits) /\ Received \in Data
           /\ \A n \in Decided : n < Received.hit
           /\ \A i \in 1..Len(isr_evt_queue') :
                  /\ Stands(isr_evt_queue'[i], hits)
                  /\ Received.hit < isr_evt_queue'[i].hit
                  /\ \A n \in Decided : n < isr_evt_queue'[i].hit
           /\ \A i, j \in 1..Len(isr_evt_queue') : i < j => isr_evt_queue'[i].hit < isr_evt_queue'[j].hit
<1>1. TypeOK /\ Truthful /\ Ordered
  BY DEF Debounced
<1>2. /\ Received \in Data /\ Received = isr_evt_queue[1]
      /\ Len(isr_evt_queue) \in Nat \ {0} /\ Len(isr_evt_queue') = Len(isr_evt_queue) - 1
      /\ \A i \in 1..Len(isr_evt_queue') : isr_evt_queue'[i] = isr_evt_queue[i + 1]
  BY <1>1, ReceivedFirst
<1>3. 1 \in 1..Len(isr_evt_queue)
      /\ \A i \in 1..Len(isr_evt_queue') : i + 1 \in 1..Len(isr_evt_queue) /\ 1 < i + 1
  BY <1>2
<1>4. Stands(Received, hits) /\ \A n \in Decided : n < Received.hit
  BY <1>1, <1>2, <1>3 DEF Truthful, Ordered
<1>5. ASSUME NEW i \in 1..Len(isr_evt_queue')
      PROVE  /\ Stands(isr_evt_queue'[i], hits)
             /\ Received.hit < isr_evt_queue'[i].hit
             /\ \A n \in Decided : n < isr_evt_queue'[i].hit
  BY <1>1, <1>2, <1>3 DEF Truthful, Ordered
<1>6. ASSUME NEW i \in 1..Len(isr_evt_queue'), NEW j \in 1..Len(isr_evt_queue'), i < j
      PROVE  isr_evt_queue'[i].hit < isr_evt_queue'[j].hit
  BY <1>1, <1>2, <1>3, <1>6 DEF Ordered
<1>7. QED
  BY <1>2, <1>4, <1>5, <1>6

(* A duplicate follows an event that was decided.                           *)
LEMMA DuplicateFollows ==
    ASSUME Debounced, Receive, Duplicate
    PROVE  prev_event_data # Zeroed /\ posted # <<>>
<1>1. Received.event \in Event
  BY RestOfQueue DEF Data
<1>2. "TE_START" \notin Event
  BY DEF Event, Beam
<1>3. QED
  BY <1>1, <1>2 DEF Duplicate, Zeroed, Debounced, Spaced

LEMMA DebouncedIgnore == ASSUME Debounced, Ignore, TypeOK' PROVE Debounced'
<1>1. TypeOK /\ Truthful /\ Timely /\ Ordered /\ Spaced /\ Receive /\ Duplicate
  BY DEF Debounced, Ignore
<1>2. /\ prev_event_data' = Received /\ event_data = <<>>
      /\ UNCHANGED <<time, event_data, hits, posted>>
  BY DEF Ignore, Receive
<1>3. Received # Zeroed
  BY <1>1, RestOfQueue DEF Zeroed, Data, Event, Beam
<1>4. Truthful'
  BY <1>1, <1>2, RestOfQueue DEF Truthful
<1>5. Timely'
  BY <1>1, <1>2 DEF Timely
<1>6. Ordered'
  <2>1. \A n \in Decided' : n \in Decided \/ n = Received.hit
    BY <1>2 DEF Decided
  <2>2. Received.hit \in 1..Len(hits)
    BY <1>1, RestOfQueue DEF Stands
  <2>3. Len(hits) \in Nat
    BY <1>1, LenProperties DEF TypeOK
  <2>4. \A n \in Decided' : n <= Len(hits)
    BY <1>1, <2>1, <2>2, <2>3 DEF Ordered
  <2>5. \A n \in Decided', i \in 1..Len(isr_evt_queue') : n < isr_evt_queue'[i].hit
    BY <1>1, <2>1, RestOfQueue
  <2>6. QED
    BY <1>1, <1>2, <2>4, <2>5, RestOfQueue DEF Ordered
<1>7. Spaced'
  <2>1. posted # <<>> /\ prev_event_data # Zeroed
    BY <1>1, DuplicateFollows
  <2>2. posted[Len(posted)] \in Decided
    BY <1>1, <2>1, LastDecided DEF Ordered
  <2>3. posted[Len(posted)] < Received.hit /\ posted[Len(posted)] \in Int /\ Received.hit \in Int
    BY <1>1, <2>2, RestOfQueue, DecidedAreNumbers, BoundsAssumption DEF Data
  <2>4. Received.event = hits[posted[Len(posted)]].event
    BY <1>1, <2>1 DEF Duplicate, Spaced
  <2>5. QED
    BY <1>2, <1>3, <2>1, <2>3, <2>4 DEF Spaced
<1>8. QED
  BY <1>4, <1>5, <1>6, <1>7 DEF Debounced

LEMMA DebouncedTake == ASSUME Debounced, Take, TypeOK' PROVE Debounced'
<1>1. TypeOK /\ Truthful /\ Timely /\ Ordered /\ Spaced /\ Receive /\ ~Duplicate
  BY DEF Debounced, Take
<1>2. /\ event_data' = <<Received>> /\ event_data'[1] = Received
      /\ UNCHANGED <<time, prev_event_data, hits, posted>>
  BY DEF Take
<1>3. Truthful'
  BY <1>1, <1>2, RestOfQueue DEF Truthful
<1>4. Timely'
  BY <1>1, <1>2 DEF Timely
<1>5. Decided' = Decided
  BY <1>2 DEF Decided
<1>6. Ordered'
  BY <1>1, <1>2, <1>5, RestOfQueue DEF Ordered
<1>7. Spaced'
  <2>1. ASSUME Received.event = prev_event_data.event
        PROVE  Elapsed(Received.event_ticks, prev_event_data.event_ticks) >= Debounce
    <3>1. ~(Elapsed(Received.event_ticks, prev_event_data.event_ticks) < Debounce)
      BY <1>1, <2>1 DEF Duplicate
    <3>2. Received.event_ticks \in Int /\ prev_event_data.event_ticks \in Int
      BY <1>1, RestOfQueue, TicksAssumption DEF TypeOK, Data, Zeroed
    <3>3. Elapsed(Received.event_ticks, prev_event_data.event_ticks) \in Int /\ Debounce \in Int
      BY <3>2, TicksAssumption DEF Elapsed
    <3>4. QED
      BY <3>1, <3>3
  <2>2. QED
    BY <1>1, <1>2, <2>1 DEF Spaced
<1>8. QED
  BY <1>3, <1>4, <1>6, <1>7 DEF Debounced

(* What is posted was waiting alone.                                        *)
LEMMA PostedWaited ==
    ASSUME Debounced, Post
    PROVE  /\ prev_event_data' \in Data /\ prev_event_data' = event_data[1]
           /\ Stands(prev_event_data', hits)
           /\ Len(posted) \in Nat /\ Len(posted') = Len(posted) + 1
           /\ posted'[Len(posted) + 1] = prev_event_data'.hit
           /\ \A k \in 1..Len(posted) : posted'[k] = posted[k] /\ posted[k] < prev_event_data'.hit
<1>1. TypeOK /\ Truthful /\ Ordered
  BY DEF Debounced
<1>2. /\ event_data # <<>> /\ prev_event_data' = Head(event_data)
      /\ posted' = Append(posted, Head(event_data).hit)
  BY DEF Post
<1>3. Head(event_data) \in Data /\ Head(event_data) = event_data[1]
  BY <1>1, <1>2, HeadTailProperties DEF TypeOK
<1>4. Head(event_data).hit \in 1..MaxHits /\ posted \in Seq(1..MaxHits)
  BY <1>1, <1>3 DEF Data, TypeOK
<1>5. /\ Len(posted) \in Nat /\ Len(posted') = Len(posted) + 1
      /\ posted'[Len(posted) + 1] = Head(event_data).hit
      /\ \A k \in 1..Len(posted) : posted'[k] = posted[k]
  BY <1>2, <1>4, AppendProperties, LenProperties
<1>6. \A k \in 1..Len(posted) : posted[k] < Head(event_data).hit
  BY <1>1, <1>2, <1>3 DEF Ordered, Decided
<1>7. Stands(Head(event_data), hits)
  BY <1>1, <1>2, <1>3 DEF Truthful
<1>8. QED
  BY <1>2, <1>3, <1>5, <1>6, <1>7

LEMMA DebouncedPost == ASSUME Debounced, Post, TypeOK' PROVE Debounced'
<1>1. TypeOK /\ Truthful /\ Timely /\ Ordered /\ Spaced
  BY DEF Debounced
<1>2. PICK data \in Data : data = prev_event_data'
  BY PostedWaited
<1>3. /\ event_data # <<>> /\ event_data' = <<>> /\ event_data[1] = data
      /\ UNCHANGED <<time, isr_evt_queue, hits>>
  BY <1>2, PostedWaited DEF Post
<1>4. /\ Stands(data, hits) /\ Len(posted) \in Nat /\ Len(posted') = Len(posted) + 1
      /\ posted'[Len(posted) + 1] = data.hit
      /\ \A k \in 1..Len(posted) : posted'[k] = posted[k] /\ posted[k] < data.hit
  BY <1>2, PostedWaited
<1>5. data # Zeroed
  BY <1>2 DEF Zeroed, Data, Event, Beam
<1>6. Truthful'
  BY <1>1, <1>2, <1>3, <1>4 DEF Truthful
<1>7. Timely'
  BY <1>1, <1>3 DEF Timely
<1>8. Ordered'
  <2>1. \A k \in 1..Len(posted') : \/ k \in 1..Len(posted) /\ posted'[k] = posted[k]
                                   \/ k = Len(posted) + 1 /\ posted'[k] = data.hit
    BY <1>4
  <2>2. \A n \in Decided' : n \in Decided \/ n = data.hit
    BY <1>2, <2>1 DEF Decided
  <2>3. data.hit \in 1..Len(hits) /\ Len(hits) \in Nat
    BY <1>1, <1>4, LenProperties DEF Stands, TypeOK
  <2>4. \A n \in Decided' : n <= Len(hits)
    BY <1>1, <2>2, <2>3 DEF Ordered
  <2>5. \A n \in Decided', i \in 1..Len(isr_evt_queue) : n < isr_evt_queue[i].hit
    BY <1>1, <1>3, <2>2 DEF Ordered
  <2>6. \A i, j \in 1..Len(posted') : i < j => posted'[i] < posted'[j]
    BY <1>1, <1>4, <2>1 DEF Ordered
  <2>7. QED
    BY <1>1, <1>3, <2>4, <2>5, <2>6 DEF Ordered
<1>9. Spaced'
  <2>1. posted' # <<>> /\ posted'[Len(posted')] = data.hit
    BY <1>4, EmptySeq
  <2>2. data.event = hits[data.hit].event /\ data.hit >= data.hit
    BY <1>2, <1>4, BoundsAssumption DEF Stands, Data
  <2>3. QED
    BY <1>2, <1>3, <1>5, <2>1, <2>2 DEF Spaced
<1>10. QED
  BY <1>6, <1>7, <1>8, <1>9 DEF Debounced

LEMMA DebouncedStep == Debounced /\ [Next]_vars => Debounced'
<1> SUFFICES ASSUME Debounced, [Next]_vars PROVE Debounced'
    OBVIOUS
<1>1. TypeOK /\ TypeOK'
  BY TypeStep DEF Debounced
<1>2. CASE UNCHANGED vars
  <2>1. UNCHANGED <<time, isr_evt_queue, event_data, prev_event_data, hits, posted>>
    BY <1>2 DEF vars
  <2>2. Truthful' /\ Timely'
    BY <2>1 DEF Debounced, Truthful, Timely
  <2>3. Decided' = Decided
    BY <2>1 DEF Decided
  <2>4. Ordered' /\ Spaced'
    BY <2>1, <2>3 DEF Debounced, Ordered, Spaced
  <2>5. QED
    BY <1>1, <2>2, <2>4 DEF Debounced
<1>3. CASE breakbeam_gpio_isr_handler \/ push_gpio_isr_handler
  BY <1>1, <1>3, HandlersInterrupt, DebouncedInterrupt
<1>4. CASE Tick
  BY <1>1, <1>4, DebouncedTick
<1>5. CASE Ignore
  BY <1>1, <1>5, DebouncedIgnore
<1>6. CASE Take
  BY <1>1, <1>6, DebouncedTake
<1>7. CASE Post
  BY <1>1, <1>7, DebouncedPost
<1>8. QED
  BY <1>2, <1>3, <1>4, <1>5, <1>6, <1>7 DEF Next, isr_event_loop

LEMMA AlwaysDebounced == Spec => []Debounced
BY DebouncedInit, DebouncedStep, PTL DEF Spec

-----------------------------------------------------------------------------
(* Events reach the exercise engine in the order of the interrupts that     *)
(* raised them, and none twice.                                             *)
THEOREM PostsInOrder == Spec => []PostedInOrder
<1>1. Debounced => PostedInOrder
  BY LenProperties DEF Debounced, Ordered, PostedInOrder, TypeOK
<1>2. QED
  BY <1>1, AlwaysDebounced, PTL

(* For two events of one beam the tick counts tell the time between the     *)
(* interrupts.                                                              *)
LEMMA TicksTellTime ==
    ASSUME Debounced, NEW earlier, NEW later, Stands(earlier, hits), Stands(later, hits),
           earlier.hit <= later.hit, earlier.event \in Beam, later.event \in Beam
    PROVE  Elapsed(later.event_ticks, earlier.event_ticks) =
               hits[later.hit].time - hits[earlier.hit].time
<1>1. TypeOK /\ Timely
  BY DEF Debounced
<1>2. earlier.hit \in 1..Len(hits) /\ later.hit \in 1..Len(hits)
  BY DEF Stands
<1>3. \A i \in 1..Len(hits) : hits[i].time \in 0..MaxTime
  <2>1. hits \in Seq([event : Event, time : 0..MaxTime])
    BY <1>1 DEF TypeOK
  <2>2. \A i \in 1..Len(hits) : hits[i] \in [event : Event, time : 0..MaxTime]
    BY <2>1, ElementOfSeq
  <2>3. QED
    BY <2>2
<1>4. hits[earlier.hit].time <= hits[later.hit].time
  BY <1>1, <1>2 DEF Timely
<1>5. /\ earlier.event_ticks = TicksAt(hits[earlier.hit].time)
      /\ later.event_ticks = TicksAt(hits[later.hit].time)
  BY DEF Stands
<1>6. QED
  BY <1>2, <1>3, <1>4, <1>5, ElapsedIsTime

LEMMA HitsKept ==
    ASSUME TypeOK, [Next]_vars
    PROVE  /\ Len(hits) \in Nat /\ Len(hits') \in Nat /\ Len(hits) <= Len(hits')
           /\ \A i \in 1..Len(hits) : hits'[i] = hits[i]
<1>1. hits \in Seq([event : Event, time : 0..MaxTime]) /\ Len(hits) \in Nat
  BY LenProperties DEF TypeOK
<1>2. ASSUME NEW event \in Sources, NEW ticks, Interrupt(event, ticks)
      PROVE  Len(hits') = Len(hits) + 1 /\ \A i \in 1..Len(hits) : hits'[i] = hits[i]
  <2>1. [event |-> event, time |-> time] \in [event : Event, time : 0..MaxTime]
    BY SourcesAssumption DEF TypeOK
  <2>2. QED
    BY <1>1, <1>2, <2>1, AppendProperties DEF Interrupt
<1>3. CASE breakbeam_gpio_isr_handler \/ push_gpio_isr_handler
  BY <1>1, <1>2, <1>3, HandlersInterrupt
<1>4. CASE UNCHANGED hits
  BY <1>1, <1>4
<1>5. QED
  BY <1>3, <1>4 DEF Next, Tick, isr_event_loop, Ignore, Take, Post, vars

LEMMA BeamsStep == Debounced /\ BeamsDebounced /\ [Next]_vars => BeamsDebounced'
<1> SUFFICES ASSUME Debounced, BeamsDebounced, [Next]_vars,
                    NEW i \in DOMAIN posted', i > 1,
                    hits'[posted'[i]].event = hits'[posted'[i - 1]].event,
                    hits'[posted'[i]].event \in Beam
             PROVE  hits'[posted'[i]].time - hits'[posted'[i - 1]].time >= Debounce
    BY DEF BeamsDebounced
<1>1. TypeOK /\ Truthful /\ Ordered /\ Spaced
  BY DEF Debounced
<1>2. /\ posted \in Seq(1..MaxHits) /\ Len(posted) \in Nat /\ DOMAIN posted = 1..Len(posted)
      /\ \A k \in 1..Len(posted) : posted[k] \in 1..Len(hits)
  <2>1. posted \in Seq(1..MaxHits)
    BY <1>1 DEF TypeOK
  <2>2. \A k \in 1..Len(posted) : posted[k] \in 1..MaxHits /\ posted[k] <= Len(hits)
    BY <1>1, <2>1, ElementOfSeq DEF Ordered, Decided
  <2>3. Len(hits) \in Nat
    BY <1>1, HitsKept
  <2>4. QED
    BY <2>1, <2>2, <2>3, LenProperties, BoundsAssumption
<1>3. CASE posted' = posted
  <2>1. i \in 1..Len(posted) /\ i - 1 \in 1..Len(posted)
    BY <1>2, <1>3
  <2>2. hits'[posted[i]] = hits[posted[i]] /\ hits'[posted[i - 1]] = hits[posted[i - 1]]
    BY <1>1, <1>2, <2>1, HitsKept
  <2>3. QED
    BY <1>2, <1>3, <2>1, <2>2 DEF BeamsDebounced
<1>4. CASE Post
  <2>1. PICK data \in Data : data = prev_event_data'
    BY <1>4, PostedWaited
  <2>2. /\ data = event_data[1] /\ Stands(data, hits) /\ hits' = hits /\ event_data # <<>>
        /\ Len(posted') = Len(posted) + 1
        /\ posted'[Len(posted) + 1] = data.hit
        /\ \A k \in 1..Len(posted) : posted'[k] = posted[k] /\ posted[k] < data.hit
    BY <1>4, <2>1, PostedWaited DEF Post
  <2>3. DOMAIN posted' = 1..Len(posted')
    BY <1>1, TypeStep, LenProperties DEF TypeOK
  <2>4. CASE i \in 1..Len(posted)
    <3>1. i \in 1..Len(posted) /\ i - 1 \in 1..Len(posted)
      BY <1>2, <2>4
    <3>2. QED
      BY <1>2, <2>2, <3>1 DEF BeamsDebounced
  <2>5. CASE i = Len(posted) + 1
    <3>1. i - 1 = Len(posted) /\ Len(posted) \in 1..Len(posted) /\ posted # <<>>
      BY <1>2, <2>5, EmptySeq
    <3>2. PICK last \in 1..Len(hits) : last = posted[Len(posted)]
      BY <1>2, <3>1
    <3>3. posted'[i] = data.hit /\ posted'[i - 1] = last
      BY <2>2, <2>5, <3>1, <3>2
    <3>4. /\ prev_event_data # Zeroed /\ prev_event_data \in Data
          /\ prev_event_data.hit >= last /\ prev_event_data.event = hits[last].event
          /\ Stands(prev_event_data, hits)
      BY <1>1, <3>1, <3>2 DEF Spaced, Truthful, TypeOK
    <3>5. data.event = hits[data.hit].event /\ data.event = prev_event_data.event
          /\ data.event \in Beam
      BY <2>2, <3>3, <3>4 DEF Stands
    <3>6. Elapsed(data.event_ticks, prev_event_data.event_ticks) >= Debounce
      BY <1>1, <2>2, <3>5 DEF Spaced
    <3>7. prev_event_data.hit < data.hit /\ prev_event_data.hit \in Int /\ data.hit \in Int
      BY <1>1, <2>1, <2>2, <3>4, BoundsAssumption DEF Ordered, Decided, Data
    <3>8. hits[data.hit].time - hits[prev_event_data.hit].time >= Debounce
      BY <2>2, <3>4, <3>5, <3>6, <3>7, TicksTellTime
    <3>9. hits[last].time <= hits[prev_event_data.hit].time
      BY <3>2, <3>4 DEF Debounced, Timely, Stands
    <3>10. /\ hits[last].time \in Int /\ hits[prev_event_data.hit].time \in Int
           /\ hits[data.hit].time \in Int
      <4>1. hits \in Seq([event : Event, time : 0..MaxTime])
        BY <1>1 DEF TypeOK
      <4>2. \A k \in 1..Len(hits) : hits[k] \in [event : Event, time : 0..MaxTime]
        BY <4>1, ElementOfSeq
      <4>3. \A k \in 1..Len(hits) : hits[k].time \in Int
        BY <4>2
      <4>4. QED
        BY <2>2, <3>2, <3>4, <4>3 DEF Stands
    <3>11. Debounce \in Int
      BY TicksAssumption
    <3>12. QED
      BY <2>2, <3>3, <3>8, <3>9, <3>10, <3>11
  <2>6. QED
    BY <1>2, <2>2, <2>3, <2>4, <2>5
<1>5. QED
  BY <1>3, <1>4, HandlersInterrupt, <1>1
     DEF Next, Tick, isr_event_loop, Ignore, Take, Interrupt, vars

(* Two hits of one beam in succession reach the engine only when they are   *)
(* at least the debounce interval apart, across a wrap of the tick count    *)
(* and however long the loop waited for the trigger queue.                  *)
THEOREM BeamsAreDebounced == Spec => []BeamsDebounced
<1>1. Init => BeamsDebounced
  BY DEF Init, BeamsDebounced
<1>2. QED
  BY <1>1, BeamsStep, AlwaysDebounced, PTL DEF Spec

-----------------------------------------------------------------------------
Preceded == ignored \subseteq 1..Len(hits) /\ IgnoredHadPrecursor

LEMMA PrecededStep == Debounced /\ Preceded /\ [Next]_vars => Preceded'
<1> SUFFICES ASSUME Debounced, Preceded, [Next]_vars PROVE Preceded'
    OBVIOUS
<1>1. TypeOK /\ Truthful /\ Timely /\ Ordered /\ Spaced
  BY DEF Debounced
<1>2. /\ Len(hits) \in Nat /\ Len(hits') \in Nat /\ Len(hits) <= Len(hits')
      /\ \A i \in 1..Len(hits) : hits'[i] = hits[i]
  BY <1>1, HitsKept
<1>3. ASSUME NEW i \in ignored, hits'[i].event \in Beam
      PROVE  i \in 1..Len(hits') /\ \E j \in 1..(i - 1) : /\ hits'[j].event = hits'[i].event
                                                         /\ hits'[i].time - hits'[j].time < Debounce
  <2>1. i \in 1..Len(hits) /\ hits'[i] = hits[i] /\ \A j \in 1..(i - 1) : j \in 1..Len(hits)
    BY <1>2 DEF Preceded
  <2>2. QED
    BY <1>2, <1>3, <2>1 DEF Preceded, IgnoredHadPrecursor
<1>4. ASSUME Ignore
      PROVE  /\ Received.hit \in 1..Len(hits)
             /\ hits[Received.hit].event \in Beam =>
                  \E j \in 1..(Received.hit - 1) :
                      /\ hits[j].event = hits[Received.hit].event
                      /\ hits[Received.hit].time - hits[j].time < Debounce
  <2>1. Receive /\ Duplicate
    BY <1>4 DEF Ignore
  <2>2. Received \in Data /\ Stands(Received, hits) /\ \A n \in Decided : n < Received.hit
    BY <2>1, RestOfQueue
  <2>3. prev_event_data # Zeroed /\ Stands(prev_event_data, hits)
    BY <1>1, <2>1, DuplicateFollows DEF Truthful
  <2>4. prev_event_data.hit < Received.hit
    BY <2>2, <2>3 DEF Decided
  <2>5. prev_event_data.hit \in 1..Len(hits) /\ Received.hit \in 1..Len(hits)
    BY <2>2, <2>3 DEF Stands
  <2>6. /\ Received.event = prev_event_data.event
        /\ Received.event = hits[Received.hit].event
        /\ prev_event_data.event = hits[prev_event_data.hit].event
        /\ Elapsed(Received.event_ticks, prev_event_data.event_ticks) < Debounce
    BY <2>1, <2>2, <2>3 DEF Duplicate, Stands
  <2>7. ASSUME Received.event \in Beam
        PROVE  hits[Received.hit].time - hits[prev_event_data.hit].time < Debounce
    <3>1. prev_event_data.hit <= Received.hit
      BY <1>2, <2>4, <2>5
    <3>2. QED
      BY <2>2, <2>3, <2>6, <2>7, <3>1, TicksTellTime
  <2>8. prev_event_data.hit \in 1..(Received.hit - 1)
    BY <1>2, <2>4, <2>5
  <2>9. QED
    BY <2>5, <2>6, <2>7, <2>8
<1>5. CASE Ignore
  <2>1. ignored' = ignored \cup {Received.hit} /\ hits' = hits
    BY <1>5 DEF Ignore
  <2>2. ignored' \subseteq 1..Len(hits')
    BY <1>4, <1>5, <2>1 DEF Preceded
  <2>3. IgnoredHadPrecursor'
    BY <1>3, <1>4, <1>5, <2>1 DEF IgnoredHadPrecursor
  <2>4. QED
    BY <2>2, <2>3 DEF Preceded
<1>6. CASE UNCHANGED ignored
  <2>1. ignored' \subseteq 1..Len(hits')
    BY <1>2, <1>6 DEF Preceded
  <2>2. IgnoredHadPrecursor'
    BY <1>3, <1>6 DEF IgnoredHadPrecursor
  <2>3. QED
    BY <2>1, <2>2 DEF Preceded
<1>7. QED
  BY <1>1, <1>5, <1>6, HandlersInterrupt DEF Next, Tick, isr_event_loop, Take, Post, Interrupt, vars

(* A hit of a beam is ignored only when the same beam was hit less than the *)
(* debounce interval before, also across a wrap of the tick count and when  *)
(* the queue lost interrupts between.                                       *)
THEOREM IgnoredWerePreceded == Spec => []IgnoredHadPrecursor
<1>1. Init => Preceded
  BY DEF Init, Preceded, IgnoredHadPrecursor
<1>2. Preceded => IgnoredHadPrecursor
  BY DEF Preceded
<1>3. QED
  BY <1>1, <1>2, PrecededStep, AlwaysDebounced, PTL DEF Spec
=============================================================================
