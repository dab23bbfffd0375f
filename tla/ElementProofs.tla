---------------------------- MODULE ElementProofs ----------------------------
(***************************************************************************)
(* Proofs about beams and exercise engine together, module Element, for    *)
(* every length of the two queues between them, every debounce interval    *)
(* and every bound: both parts keep their own specifications, and a set is *)
(* solved only by two passages through the beams.                          *)
(***************************************************************************)
EXTENDS Element, TriggerRefinement

IsrP == INSTANCE IsrProofs WITH time <- now, Sources <- Beams, MaxTime <- MaxTick

-----------------------------------------------------------------------------
(* What is known of the interrupts on their own.                            *)
LEMMA IsrAssumed ==
    /\ IsrP!IsrLenAssumption /\ IsrP!TicksAssumption
    /\ IsrP!SourcesAssumption /\ IsrP!BoundsAssumption
BY IsrAssumption, BoundsAssumption
   DEF IsrP!IsrLenAssumption, IsrP!TicksAssumption, IsrP!BoundsAssumption, IsrP!SourcesAssumption,
       Isr!Event, IsrP!Event, Isr!Beam, IsrP!Beam

Apart == IsrP!Debounced /\ IsrP!BeamsDebounced

LEMMA IsrTyped ==
    /\ IsrP!Init => IsrP!TypeOK
    /\ IsrP!TypeOK /\ [IsrP!Next]_(IsrP!vars) => IsrP!TypeOK'
BY IsrP!TypeInit, IsrP!TypeStep, IsrAssumed
   DEF IsrP!IsrLenAssumption, IsrP!TicksAssumption, IsrP!BoundsAssumption, IsrP!SourcesAssumption

LEMMA IsrApart == IsrP!Spec => []Apart
<1>1. IsrP!Spec => []IsrP!Debounced
  BY IsrP!AlwaysDebounced, IsrAssumed
     DEF IsrP!IsrLenAssumption, IsrP!TicksAssumption, IsrP!BoundsAssumption, IsrP!SourcesAssumption
<1>2. IsrP!Spec => []IsrP!BeamsDebounced
  BY IsrP!BeamsAreDebounced, IsrAssumed
     DEF IsrP!IsrLenAssumption, IsrP!TicksAssumption, IsrP!BoundsAssumption, IsrP!SourcesAssumption
<1>3. QED
  BY <1>1, <1>2, PTL DEF Apart

-----------------------------------------------------------------------------
(* Every step of the element is a step of the engine and a step of the      *)
(* interrupts, or leaves the one or the other alone: what isr_event_loop    *)
(* takes is an event of the beams.                                          *)
FromBeams == \A i \in 1..Len(isr_evt_queue) : isr_evt_queue[i].event \in Beams

BothStep == [Next]_vars /\ [IsrP!Next]_(IsrP!vars)

LEMMA SameInit == Isr!Init <=> IsrP!Init
BY DEF Isr!Init, IsrP!Init, Isr!Zeroed, IsrP!Zeroed

LEMMA SameInterrupt ==
    /\ Isr!breakbeam_gpio_isr_handler => IsrP!breakbeam_gpio_isr_handler
    /\ Isr!push_gpio_isr_handler => IsrP!push_gpio_isr_handler
BY DEF Isr!breakbeam_gpio_isr_handler, Isr!push_gpio_isr_handler, Isr!Interrupt,
       Isr!xQueueSendFromISR, Isr!xTaskGetTickCount, Isr!Garbage,
       IsrP!breakbeam_gpio_isr_handler, IsrP!push_gpio_isr_handler, IsrP!Interrupt,
       IsrP!xQueueSendFromISR, IsrP!xTaskGetTickCount, IsrP!Garbage

LEMMA SameLoop ==
    /\ Isr!Tick => IsrP!Tick
    /\ Isr!Ignore => IsrP!Ignore
    /\ Isr!Take => IsrP!Take
    /\ Isr!Post => IsrP!Post
BY DEF Isr!Tick, Isr!Ignore, Isr!Take, Isr!Post, Isr!Receive, Isr!Received, Isr!Duplicate, Isr!Elapsed,
       IsrP!Tick, IsrP!Ignore, IsrP!Take, IsrP!Post, IsrP!Receive, IsrP!Received, IsrP!Duplicate,
       IsrP!Elapsed

LEMMA IsrStands == UNCHANGED <<isrVars, now>> => UNCHANGED IsrP!vars
BY DEF isrVars, IsrP!vars

LEMMA BothStepped == IsrP!TypeOK /\ FromBeams /\ [ElementNext]_allVars => BothStep
<1> SUFFICES ASSUME IsrP!TypeOK, FromBeams, [ElementNext]_allVars PROVE BothStep
    OBVIOUS
<1>1. CASE ControlUnitSends
  <2>1. Environment /\ UNCHANGED isrVars
    BY <1>1 DEF ControlUnitSends, Environment
  <2>2. now' = now
    BY <1>1 DEF ControlUnitSends, hbf_ws_data_handler
  <2>3. QED
    BY <2>1, <2>2, IsrStands DEF BothStep, Next
<1>2. CASE Interrupted
  BY <1>2, SameInterrupt DEF Interrupted, BothStep, IsrP!Next
<1>3. CASE TimePasses
  BY <1>3, SameLoop DEF TimePasses, BothStep, Next, IsrP!Next
<1>4. CASE IsrIgnores
  BY <1>4, SameLoop DEF IsrIgnores, BothStep, IsrP!Next, IsrP!isr_event_loop
<1>5. CASE IsrTakes
  <2>1. Isr!Received.event \in Beams
    <3>1. isr_evt_queue \in Seq(IsrP!Data) /\ isr_evt_queue # <<>>
      BY <1>5 DEF IsrTakes, Isr!Take, Isr!Receive, IsrP!TypeOK
    <3>2. 1 \in 1..Len(isr_evt_queue) /\ Isr!Received = isr_evt_queue[1]
      BY <3>1, ElementsLeft, LenProperties DEF Isr!Received
    <3>3. QED
      BY <3>2 DEF FromBeams
  <2>2. QED
    BY <1>5, <2>1, SameLoop DEF IsrTakes, BothStep, Next, Environment, IsrP!Next, IsrP!isr_event_loop
<1>6. CASE IsrPosts
  BY <1>6, SameLoop DEF IsrPosts, BothStep, Next, IsrP!Next, IsrP!isr_event_loop
<1>7. CASE LoopStep
  <2>1. now' = now
    BY <1>7 DEF LoopStep, Loop, HandleOver, HandleIgnored, HandleStart, Lights, HandleFirstHit,
                HandleSecondHit, HandleMiss, SendReply, ShowEnds
  <2>2. QED
    BY <1>7, <2>1, IsrStands DEF LoopStep, BothStep, Next
<1>8. CASE MessageStep \/ ReplyStep
  <2>1. now' = now
    BY <1>8 DEF MessageStep, ReplyStep, Ws, WsPost, WsReply, WsLed, WsDelayEnds, ReplyTaken,
                ReplySent
  <2>2. QED
    BY <1>8, <2>1, IsrStands DEF MessageStep, ReplyStep, BothStep, Next
<1>9. CASE AllAtRest \/ UNCHANGED allVars
  <2>1. UNCHANGED vars /\ UNCHANGED <<isrVars, now>>
    BY <1>9 DEF AllAtRest, allVars, vars
  <2>2. QED
    BY <2>1, IsrStands DEF BothStep
<1>10. QED
  BY <1>1, <1>2, <1>3, <1>4, <1>5, <1>6, <1>7, <1>8, <1>9 DEF ElementNext, isr_event_loop

LEMMA FromBeamsStep == IsrP!TypeOK /\ FromBeams /\ [IsrP!Next]_(IsrP!vars) => FromBeams'
<1> SUFFICES ASSUME IsrP!TypeOK, FromBeams, [IsrP!Next]_(IsrP!vars) PROVE FromBeams'
    OBVIOUS
<1>1. isr_evt_queue \in Seq(IsrP!Data) /\ Len(isr_evt_queue) \in Nat
  BY LenProperties DEF IsrP!TypeOK
<1>2. CASE IsrP!breakbeam_gpio_isr_handler \/ IsrP!push_gpio_isr_handler
  <2>1. PICK event \in Beams, ticks \in 0..(TickRange - 1) : IsrP!Interrupt(event, ticks)
    BY <1>2, IsrP!HandlersInterrupt, IsrAssumed
       DEF IsrP!IsrLenAssumption, IsrP!TicksAssumption, IsrP!BoundsAssumption, IsrP!SourcesAssumption
  <2>2. PICK data : /\ data = [event |-> event, event_ticks |-> ticks, hit |-> Len(hits) + 1]
                    /\ data \in IsrP!Data /\ IsrP!xQueueSendFromISR(data)
    BY <2>1, IsrP!RaisedIsData, IsrAssumed
       DEF IsrP!IsrLenAssumption, IsrP!TicksAssumption, IsrP!BoundsAssumption, IsrP!SourcesAssumption,
           IsrP!Interrupt
  <2>3. data.event \in Beams
    BY <2>2
  <2>4. CASE isr_evt_queue' = isr_evt_queue
    BY <2>4 DEF FromBeams
  <2>5. CASE isr_evt_queue' = Append(isr_evt_queue, data)
    BY <1>1, <2>2, <2>3, <2>5, ElementsSent, AppendProperties DEF FromBeams
  <2>6. QED
    BY <2>2, <2>4, <2>5 DEF IsrP!xQueueSendFromISR
<1>3. CASE IsrP!Ignore \/ IsrP!Take
  <2>1. isr_evt_queue # <<>> /\ isr_evt_queue' = Tail(isr_evt_queue)
    BY <1>3 DEF IsrP!Ignore, IsrP!Take, IsrP!Receive
  <2>2. \A i \in DOMAIN isr_evt_queue' : \E j \in 1..Len(isr_evt_queue) : isr_evt_queue'[i] = isr_evt_queue[j]
    BY <1>1, <2>1, ElementsLeft, LenProperties
  <2>3. DOMAIN isr_evt_queue' = 1..Len(isr_evt_queue')
    BY <1>1, <2>1, HeadTailProperties, LenProperties
  <2>4. QED
    BY <2>2, <2>3 DEF FromBeams
<1>4. CASE IsrP!Tick \/ IsrP!Post \/ UNCHANGED IsrP!vars
  BY <1>4 DEF IsrP!Tick, IsrP!Post, IsrP!vars, FromBeams
<1>5. QED
  BY <1>2, <1>3, <1>4 DEF IsrP!Next, IsrP!isr_event_loop

LEMMA PartsInit == ElementInit => Init /\ IsrP!Init /\ IsrP!TypeOK /\ FromBeams
<1> SUFFICES ASSUME ElementInit PROVE Init /\ IsrP!Init /\ IsrP!TypeOK /\ FromBeams
    OBVIOUS
<1>1. Init /\ IsrP!Init
  BY SameInit DEF ElementInit
<1>2. FromBeams
  BY <1>1 DEF IsrP!Init, FromBeams
<1>3. QED
  BY <1>1, <1>2, IsrTyped

LEMMA AlwaysBoth == ElementSpec => Spec /\ IsrP!Spec
<1>1. IsrP!TypeOK /\ FromBeams /\ [ElementNext]_allVars => (IsrP!TypeOK /\ FromBeams)'
  BY BothStepped, FromBeamsStep, IsrTyped DEF BothStep
<1>2. IsrP!TypeOK /\ FromBeams /\ [ElementNext]_allVars => [Next]_vars /\ [IsrP!Next]_(IsrP!vars)
  BY BothStepped DEF BothStep
<1>3. QED
  BY <1>1, <1>2, PartsInit, PTL DEF ElementSpec, Spec, IsrP!Spec

(* Beams and engine in one element each behave as they do on their own:     *)
(* what holds of the engine with hits at any time, and of the interrupts    *)
(* with a loop that posts at any time, holds of the element.                *)
THEOREM PartsKept == ElementSpec => Spec /\ Isr!Spec
<1>1. [IsrP!Next]_(IsrP!vars) => [Isr!Next]_(Isr!vars)
  <2>1. UNCHANGED IsrP!vars => UNCHANGED Isr!vars
    BY DEF IsrP!vars, Isr!vars
  <2>2. /\ IsrP!breakbeam_gpio_isr_handler => Isr!breakbeam_gpio_isr_handler
        /\ IsrP!push_gpio_isr_handler => Isr!push_gpio_isr_handler
    BY DEF Isr!breakbeam_gpio_isr_handler, Isr!push_gpio_isr_handler, Isr!Interrupt,
           Isr!xQueueSendFromISR, Isr!xTaskGetTickCount, Isr!Garbage,
           IsrP!breakbeam_gpio_isr_handler, IsrP!push_gpio_isr_handler, IsrP!Interrupt,
           IsrP!xQueueSendFromISR, IsrP!xTaskGetTickCount, IsrP!Garbage
  <2>3. /\ IsrP!Tick => Isr!Tick
        /\ IsrP!isr_event_loop => Isr!isr_event_loop
    BY DEF Isr!Tick, Isr!Ignore, Isr!Take, Isr!Post, Isr!Receive, Isr!Received, Isr!Duplicate,
           Isr!Elapsed, Isr!isr_event_loop, IsrP!Tick, IsrP!Ignore, IsrP!Take, IsrP!Post,
           IsrP!Receive, IsrP!Received, IsrP!Duplicate, IsrP!Elapsed, IsrP!isr_event_loop
  <2>4. QED
    BY <2>1, <2>2, <2>3 DEF IsrP!Next, Isr!Next
<1>2. QED
  BY <1>1, SameInit, AlwaysBoth, PTL DEF IsrP!Spec, Isr!Spec

(* So the element as a whole keeps the engine's promises, with debounced    *)
(* interrupts for hits and a loop that makes the interrupts wait: it        *)
(* implements one exercise at a time, an over is final, the answers come in *)
(* the order of the sets and their times agree.                             *)
THEOREM ElementKeepsPromise ==
    ElementSpec => KeepsPromise /\ NoAnswerAfterOver /\ []AnswersInOrder /\ []TimesConsistent
BY AlwaysBoth, ImplementsExercise, OverIsFinal, AnsweredInOrder, TimesFitTogether, PTL

(* What the proofs about the parts say.                                     *)
Parts == Justified /\ Ordered /\ Apart

LEMMA AlwaysParts == ElementSpec => []Parts
<1>1. Spec => [](Justified /\ Ordered)
  <2>1. Init => Justified /\ Ordered
    BY TypedInit, ConsistentInit, OrderedInit DEF Justified, ResultsJustified, Init
  <2>2. (Justified /\ Ordered) /\ [Next]_vars => (Justified /\ Ordered)'
    BY JustifiedNext, OrderedNext DEF Justified
  <2>3. QED
    BY <2>1, <2>2, PTL DEF Spec
<1>2. QED
  BY <1>1, AlwaysBoth, IsrApart, PTL DEF Parts

-----------------------------------------------------------------------------
(* The interrupts behind the events.                                        *)

(* isr_event_loop waits to post what Trigger takes it to wait for.          *)
SameEvent ==
    /\ isr = <<>> <=> event_data = <<>>
    /\ event_data # <<>> => Len(isr) = 1 /\ isr[1].event = event_data[1].event

(* An event was raised by an interrupt that was posted.                     *)
Behind(n, event) == (\E p \in 1..Len(posted) : posted[p] = n) /\ hits[n].event = event

(* The hits that wait in trigger_evt_queue are the last ones that were      *)
(* posted, in their order.                                                  *)
Waits ==
    /\ waiting \in Seq(0..MaxHits) /\ Len(waiting) = Len(trigger_evt_queue)
    /\ \A k \in 1..Len(waiting) : waiting[k] # 0 => Behind(waiting[k], trigger_evt_queue[k].event)
    /\ \A i, j \in 1..Len(waiting) :
           i < j /\ waiting[i] # 0 /\ waiting[j] # 0 => waiting[i] < waiting[j]
    /\ \A i \in 1..Len(waiting), p \in 1..Len(posted) :
           waiting[i] # 0 /\ waiting[i] < posted[p] => \E j \in 1..Len(waiting) : waiting[j] = posted[p]

(* The hits that count are older than those that wait.                      *)
Older ==
    /\ counted \in Seq(0..MaxHits) /\ Len(counted) = Len(exercise.events)
    /\ \A k \in 1..Len(counted) : counted[k] # 0 =>
           /\ Behind(counted[k], exercise.events[k])
           /\ \A i \in 1..Len(waiting) : waiting[i] # 0 => counted[k] < waiting[i]

(* While the loop waits for the second hit, all that were posted after the  *)
(* first one wait; and the two that count are told apart by the debouncing. *)
NextWaits ==
    pc # "reply" /\ trigger_state = "TS_WAIT_FOR_SECOND_HIT" /\ counted[1] # 0 =>
        \A p \in 1..Len(posted) :
            counted[1] < posted[p] => \E j \in 1..Len(waiting) : waiting[j] = posted[p]

ToldApart(n, m) ==
    /\ n < m
    /\ hits[m].event = hits[n].event /\ hits[m].event \in IsrP!Beam =>
           hits[m].time - hits[n].time >= Debounce
TwoPassages ==
    Len(counted) = 2 /\ counted[1] # 0 /\ counted[2] # 0 => ToldApart(counted[1], counted[2])

Linked == SameEvent /\ Waits /\ Older /\ NextWaits /\ TwoPassages

LEMMA LinkedInit == ElementInit => Linked
<1> SUFFICES ASSUME ElementInit PROVE Linked
    OBVIOUS
<1>1. /\ isr = <<>> /\ event_data = <<>> /\ waiting = <<>> /\ counted = <<>> /\ posted = <<>>
      /\ trigger_evt_queue = <<>> /\ exercise.events = <<>> /\ pc = "receive"
      /\ trigger_state = "TS_IDLE"
  BY DEF ElementInit, Init, Isr!Init, NoExercise
<1>2. QED
  BY <1>1, EmptySeq DEF Linked, SameEvent, Waits, Older, NextWaits, TwoPassages

(* The posted hits are numbers of interrupts.                               *)
LEMMA PostedAreHits ==
    ASSUME Parts
    PROVE  /\ posted \in Seq(1..MaxHits) /\ Len(posted) \in Nat /\ Len(hits) \in Nat
           /\ \A p \in 1..Len(posted) : posted[p] \in 1..Len(hits)
           /\ \A p, q \in 1..Len(posted) : p < q => posted[p] < posted[q]
<1>1. IsrP!TypeOK /\ IsrP!Ordered
  BY DEF Parts, Apart, IsrP!Debounced
<1>2. posted \in Seq(1..MaxHits) /\ Len(posted) \in Nat /\ Len(hits) \in Nat
  BY <1>1, LenProperties DEF IsrP!TypeOK
<1>3. \A p \in 1..Len(posted) : posted[p] \in 1..MaxHits
  BY <1>2, ElementOfSeq
<1>4. \A p \in 1..Len(posted) : posted[p] <= Len(hits)
  <2>1. \A m \in IsrP!Decided : m <= Len(hits)
    BY <1>1 DEF IsrP!Ordered
  <2>2. \A p \in 1..Len(posted) : posted[p] \in IsrP!Decided
    BY DEF IsrP!Decided
  <2>3. QED
    BY <2>1, <2>2
<1>5. \A p \in 1..Len(posted) : posted[p] \in 1..Len(hits)
  BY <1>2, <1>3, <1>4, IsrAssumption
<1>6. QED
  BY <1>1, <1>2, <1>5 DEF IsrP!Ordered

(* Steps that leave the two queues' contents and the exercise alone.        *)
Behaved == Waits /\ Older /\ NextWaits /\ TwoPassages

LEMMA BehavedStands ==
    ASSUME Parts, Behaved,
           UNCHANGED <<trigger_evt_queue, posted, waiting, counted, exercise, pc, trigger_state>>,
           \A n \in 1..Len(hits) : hits'[n] = hits[n]
    PROVE  Behaved'
<1>1. ASSUME NEW n, NEW event, Behind(n, event) PROVE Behind(n, event)'
  <2>1. n \in 1..Len(hits)
    BY <1>1, PostedAreHits DEF Behind
  <2>2. QED
    BY <1>1, <2>1 DEF Behind
<1>2. Waits'
  BY <1>1 DEF Behaved, Waits
<1>3. Older'
  BY <1>1 DEF Behaved, Older
<1>4. NextWaits'
  BY DEF Behaved, NextWaits
<1>5. TwoPassages'
  <2>1. SUFFICES ASSUME Len(counted) = 2, counted[1] # 0, counted[2] # 0
                 PROVE  ToldApart(counted[1], counted[2])'
    BY DEF TwoPassages
  <2>2. /\ Behind(counted[1], exercise.events[1]) /\ Behind(counted[2], exercise.events[2])
    BY <2>1 DEF Behaved, Older
  <2>3. counted[1] \in 1..Len(hits) /\ counted[2] \in 1..Len(hits)
    BY <2>2, PostedAreHits DEF Behind
  <2>4. ToldApart(counted[1], counted[2])
    BY <2>1 DEF Behaved, TwoPassages
  <2>5. QED
    BY <2>3, <2>4 DEF ToldApart
<1>6. QED
  BY <1>2, <1>3, <1>4, <1>5 DEF Behaved

(* An event joins trigger_evt_queue: a message, or the hit that has just    *)
(* been posted.                                                             *)
LEMMA BehavedJoins ==
    ASSUME Parts, Behaved, NEW d \in Data, NEW n \in 0..MaxHits,
           trigger_evt_queue' = Append(trigger_evt_queue, d), waiting' = Append(waiting, n),
           UNCHANGED <<counted, exercise, pc, trigger_state, hits>>,
           \/ n = 0 /\ posted' = posted
           \/ /\ n # 0 /\ posted' = Append(posted, n) /\ hits[n].event = d.event
              /\ \A p \in 1..Len(posted) : posted[p] < n
    PROVE  Behaved'
<1>1. /\ waiting \in Seq(0..MaxHits) /\ Len(waiting) \in Nat /\ Len(waiting) = Len(trigger_evt_queue)
      /\ trigger_evt_queue \in Seq(Data)
      /\ posted \in Seq(1..MaxHits) /\ Len(posted) \in Nat
  BY PostedAreHits, LenProperties DEF Behaved, Waits, Parts, Justified, Typed, TypeOK
<1>2. /\ waiting' \in Seq(0..MaxHits) /\ Len(waiting') = Len(waiting) + 1 /\ waiting'[Len(waiting) + 1] = n
      /\ \A i \in 1..Len(waiting) : waiting'[i] = waiting[i]
  BY <1>1, AppendProperties
<1>3. /\ Len(trigger_evt_queue') = Len(waiting) + 1 /\ trigger_evt_queue'[Len(waiting) + 1] = d
      /\ \A i \in 1..Len(waiting) : trigger_evt_queue'[i] = trigger_evt_queue[i]
  BY <1>1, AppendProperties
<1>4. \A p \in 1..Len(posted) : posted[p] \in 1..MaxHits
  BY <1>1, ElementOfSeq
<1>5. /\ Len(posted') \in Nat /\ Len(posted) <= Len(posted')
      /\ \A p \in 1..Len(posted) : posted'[p] = posted[p]
      /\ \A p \in 1..Len(posted') : p \in 1..Len(posted) \/ (n # 0 /\ posted'[p] = n)
      /\ n # 0 => \E p \in 1..Len(posted') : posted'[p] = n
  <2>1. CASE n = 0 /\ posted' = posted
    BY <1>1, <2>1
  <2>2. CASE n # 0 /\ posted' = Append(posted, n)
    <3>1. n \in 1..MaxHits
      BY <2>2, IsrAssumption
    <3>2. /\ Len(posted') = Len(posted) + 1 /\ posted'[Len(posted) + 1] = n
          /\ \A p \in 1..Len(posted) : posted'[p] = posted[p]
      BY <1>1, <2>2, <3>1, AppendProperties
    <3>3. QED
      BY <1>1, <2>2, <3>2
  <2>3. QED
    BY <2>1, <2>2
<1>6. \A i \in 1..Len(waiting') : \/ i \in 1..Len(waiting) /\ waiting'[i] = waiting[i]
                                     /\ trigger_evt_queue'[i] = trigger_evt_queue[i]
                                  \/ i = Len(waiting) + 1 /\ waiting'[i] = n /\ trigger_evt_queue'[i] = d
  BY <1>1, <1>2, <1>3
<1>7. ASSUME NEW m, NEW event, Behind(m, event) PROVE Behind(m, event)'
  BY <1>1, <1>5, <1>7 DEF Behind
<1>8. ASSUME NEW m, NEW event, Behind(m, event), n # 0 PROVE m < n
  BY <1>8 DEF Behind
<1>9. \A m : (\E j \in 1..Len(waiting) : waiting[j] = m) => \E j \in 1..Len(waiting') : waiting'[j] = m
  BY <1>1, <1>2
<1>10. n # 0 => \E j \in 1..Len(waiting') : waiting'[j] = n
  <2>1. Len(waiting) + 1 \in 1..Len(waiting')
    BY <1>1, <1>2
  <2>2. QED
    BY <1>2, <2>1
<1>11. Waits'
  <2>1. ASSUME NEW k \in 1..Len(waiting'), waiting'[k] # 0
        PROVE  Behind(waiting[k], trigger_evt_queue[k].event)'
    <3>1. CASE /\ k \in 1..Len(waiting) /\ waiting'[k] = waiting[k]
               /\ trigger_evt_queue'[k] = trigger_evt_queue[k]
      <4>1. Behind(waiting[k], trigger_evt_queue[k].event)
        BY <2>1, <3>1 DEF Behaved, Waits
      <4>2. PICK q \in 1..Len(posted) : posted[q] = waiting[k]
        BY <4>1 DEF Behind
      <4>3. q \in 1..Len(posted') /\ posted'[q] = waiting'[k]
        BY <1>1, <1>5, <3>1, <4>2
      <4>4. hits'[waiting'[k]].event = trigger_evt_queue'[k].event
        BY <3>1, <4>1 DEF Behind
      <4>5. QED
        BY <4>3, <4>4 DEF Behind
    <3>2. CASE waiting'[k] = n /\ trigger_evt_queue'[k] = d
      BY <1>5, <2>1, <3>2 DEF Behind
    <3>3. QED
      BY <1>6, <3>1, <3>2
  <2>2. \A i, j \in 1..Len(waiting') :
            i < j /\ waiting'[i] # 0 /\ waiting'[j] # 0 => waiting'[i] < waiting'[j]
    <3>1. SUFFICES ASSUME NEW i \in 1..Len(waiting'), NEW j \in 1..Len(waiting'), i < j,
                          waiting'[i] # 0, waiting'[j] # 0
                   PROVE  waiting'[i] < waiting'[j]
      OBVIOUS
    <3>2. i \in 1..Len(waiting) /\ waiting'[i] = waiting[i]
      BY <1>1, <1>2, <3>1
    <3>3. CASE j \in 1..Len(waiting) /\ waiting'[j] = waiting[j]
      BY <3>1, <3>2, <3>3 DEF Behaved, Waits
    <3>4. CASE waiting'[j] = n
      BY <1>8, <3>1, <3>2, <3>4 DEF Behaved, Waits
    <3>5. QED
      BY <1>6, <3>3, <3>4
  <2>3. ASSUME NEW i \in 1..Len(waiting'), NEW p \in 1..Len(posted'),
               waiting'[i] # 0, waiting'[i] < posted'[p]
        PROVE  \E j \in 1..Len(waiting') : waiting'[j] = posted'[p]
    <3>1. CASE posted'[p] = n /\ n # 0
      BY <1>10, <3>1
    <3>2. CASE p \in 1..Len(posted)
      <4>1. posted'[p] = posted[p]
        BY <1>5, <3>2
      <4>2. CASE i \in 1..Len(waiting) /\ waiting'[i] = waiting[i]
        BY <1>9, <2>3, <3>2, <4>1, <4>2 DEF Behaved, Waits
      <4>3. CASE waiting'[i] = n
        BY <1>4, <2>3, <3>2, <4>1, <4>3, IsrAssumption
      <4>4. QED
        BY <1>6, <4>2, <4>3
    <3>3. QED
      BY <1>5, <3>1, <3>2
  <2>4. QED
    BY <1>1, <1>2, <1>3, <2>1, <2>2, <2>3 DEF Waits
<1>12. Older'
  <2>1. ASSUME NEW k \in 1..Len(counted), counted[k] # 0
        PROVE  /\ Behind(counted[k], exercise.events[k])'
               /\ \A i \in 1..Len(waiting') : waiting'[i] # 0 => counted[k] < waiting'[i]
    <3>1. /\ Behind(counted[k], exercise.events[k])
          /\ \A i \in 1..Len(waiting) : waiting[i] # 0 => counted[k] < waiting[i]
      BY <2>1 DEF Behaved, Older
    <3>2. Behind(counted[k], exercise.events[k])'
      BY <1>7, <3>1
    <3>3. n # 0 => counted[k] < n
      BY <1>8, <3>1
    <3>4. QED
      BY <1>6, <3>1, <3>2, <3>3
  <2>2. QED
    BY <2>1 DEF Behaved, Older
<1>13. NextWaits'
  BY <1>5, <1>9, <1>10 DEF Behaved, NextWaits
<1>14. TwoPassages'
  BY DEF Behaved, TwoPassages, ToldApart
<1>15. QED
  BY <1>11, <1>12, <1>13, <1>14 DEF Behaved

(* The loop takes an event and counts it for no exercise: it is idle then,  *)
(* or it starts one.                                                        *)
LEMMA TakenFrom ==
    ASSUME Parts, Behaved, trigger_evt_queue # <<>>,
           trigger_evt_queue' = Tail(trigger_evt_queue), waiting' = Tail(waiting),
           UNCHANGED <<posted, hits>>
    PROVE  /\ waiting # <<>> /\ Head(waiting) = waiting[1] /\ 1 \in 1..Len(waiting)
           /\ Head(trigger_evt_queue) = trigger_evt_queue[1]
           /\ Waits'
           /\ \A i \in 1..Len(waiting') : /\ i \in Nat \ {0} /\ i + 1 \in 1..Len(waiting)
                                          /\ waiting'[i] = waiting[i + 1]
           /\ \A m : (\E j \in 1..Len(waiting) : waiting[j] = m) =>
                  m = waiting[1] \/ \E j \in 1..Len(waiting') : waiting'[j] = m
<1>1. /\ waiting \in Seq(0..MaxHits) /\ Len(waiting) \in Nat /\ Len(waiting) = Len(trigger_evt_queue)
      /\ trigger_evt_queue \in Seq(Data)
      /\ posted \in Seq(1..MaxHits) /\ Len(posted) \in Nat
      /\ DOMAIN waiting = 1..Len(waiting) /\ DOMAIN trigger_evt_queue = 1..Len(waiting)
  BY PostedAreHits, LenProperties DEF Behaved, Waits, Parts, Justified, Typed, TypeOK
<1>2. waiting # <<>> /\ Len(waiting) \in Nat \ {0}
  BY <1>1, EmptySeq
<1>3. /\ waiting' \in Seq(0..MaxHits) /\ Len(waiting') = Len(waiting) - 1
      /\ trigger_evt_queue' \in Seq(Data) /\ Len(trigger_evt_queue') = Len(waiting) - 1
      /\ DOMAIN waiting' = 1..Len(waiting') /\ DOMAIN trigger_evt_queue' = 1..Len(waiting')
  BY <1>1, <1>2, HeadTailProperties, LenProperties
<1>4. /\ Head(waiting) = waiting[1] /\ Head(trigger_evt_queue) = trigger_evt_queue[1]
      /\ \A i \in 1..Len(waiting') : /\ i \in Nat \ {0} /\ i + 1 \in 1..Len(waiting)
                                     /\ waiting'[i] = waiting[i + 1]
                                     /\ trigger_evt_queue'[i] = trigger_evt_queue[i + 1]
  BY <1>1, <1>2, <1>3, ElementsLeft
<1>5. \A j \in 1..Len(waiting) : j = 1 \/ (j - 1 \in 1..Len(waiting') /\ waiting'[j - 1] = waiting[j])
  <2>1. SUFFICES ASSUME NEW j \in 1..Len(waiting), j # 1
                 PROVE  j - 1 \in 1..Len(waiting') /\ waiting'[j - 1] = waiting[j]
    OBVIOUS
  <2>2. j - 1 \in 1..Len(waiting') /\ (j - 1) + 1 = j
    BY <1>1, <1>3, <2>1
  <2>3. QED
    BY <1>4, <2>2
<1>6. \A m : (\E j \in 1..Len(waiting) : waiting[j] = m) =>
          m = waiting[1] \/ \E j \in 1..Len(waiting') : waiting'[j] = m
  BY <1>5
<1>7. Waits'
  <2>1. ASSUME NEW k \in 1..Len(waiting'), waiting'[k] # 0
        PROVE  Behind(waiting[k], trigger_evt_queue[k].event)'
    <3>1. Behind(waiting[k + 1], trigger_evt_queue[k + 1].event)
      BY <1>4, <2>1 DEF Behaved, Waits
    <3>2. QED
      BY <1>4, <2>1, <3>1 DEF Behind
  <2>2. \A i, j \in 1..Len(waiting') :
            i < j /\ waiting'[i] # 0 /\ waiting'[j] # 0 => waiting'[i] < waiting'[j]
    <3>1. SUFFICES ASSUME NEW i \in 1..Len(waiting'), NEW j \in 1..Len(waiting'), i < j,
                          waiting'[i] # 0, waiting'[j] # 0
                   PROVE  waiting'[i] < waiting'[j]
      OBVIOUS
    <3>2. i + 1 < j + 1 /\ i + 1 \in 1..Len(waiting) /\ j + 1 \in 1..Len(waiting)
      BY <1>4, <3>1
    <3>3. waiting[i + 1] < waiting[j + 1]
      BY <1>4, <3>1, <3>2 DEF Behaved, Waits
    <3>4. QED
      BY <1>4, <3>1, <3>3
  <2>3. ASSUME NEW i \in 1..Len(waiting'), NEW p \in 1..Len(posted'),
               waiting'[i] # 0, waiting'[i] < posted'[p]
        PROVE  \E j \in 1..Len(waiting') : waiting'[j] = posted'[p]
    <3>1. i + 1 \in 1..Len(waiting) /\ waiting'[i] = waiting[i + 1] /\ 1 < i + 1
      BY <1>4, <2>3
    <3>2. \E j \in 1..Len(waiting) : waiting[j] = posted[p]
      BY <2>3, <3>1 DEF Behaved, Waits
    <3>3. CASE posted[p] = waiting[1]
      <4>1. posted[p] \in Nat \ {0} /\ waiting[i + 1] \in Nat
        <5>1. posted[p] \in 1..MaxHits
          BY <1>1, <2>3, ElementOfSeq
        <5>2. waiting[i + 1] \in 0..MaxHits
          BY <1>1, <3>1, ElementOfSeq
        <5>3. QED
          BY <5>1, <5>2, IsrAssumption
      <4>2. 1 \in 1..Len(waiting) /\ waiting[1] # 0 /\ waiting[i + 1] # 0
        BY <1>2, <2>3, <3>1, <3>3, <4>1
      <4>3. waiting[1] < waiting[i + 1]
        BY <3>1, <4>2 DEF Behaved, Waits
      <4>4. QED
        BY <2>3, <3>1, <3>3, <4>1, <4>3
    <3>4. QED
      BY <1>6, <3>2, <3>3
  <2>4. QED
    BY <1>1, <1>3, <2>1, <2>2, <2>3 DEF Waits
<1>8. QED
  BY <1>2, <1>4, <1>6, <1>7

(* What the loop may do to the queue and the exercise.                      *)
LEMMA LoopKinds ==
    ASSUME Parts, LoopStep
    PROVE  /\ UNCHANGED isrVars
           /\ \/ /\ UNCHANGED <<trigger_evt_queue, waiting, counted, exercise>>
                 /\ ~(pc' # "reply" /\ trigger_state' = "TS_WAIT_FOR_SECOND_HIT")
              \/ /\ trigger_evt_queue # <<>> /\ trigger_evt_queue' = Tail(trigger_evt_queue)
                 /\ waiting' = Tail(waiting)
                 /\ trigger_state' # "TS_WAIT_FOR_SECOND_HIT"
                 /\ \/ UNCHANGED <<counted, exercise>>
                    \/ counted' = <<>> /\ exercise'.events = <<>>
              \/ /\ trigger_evt_queue # <<>> /\ trigger_evt_queue' = Tail(trigger_evt_queue)
                 /\ waiting' = Tail(waiting)
                 /\ exercise'.events = Append(exercise.events, Head(trigger_evt_queue).event)
                 /\ Head(trigger_evt_queue).event \in {"TE_START"} \cup Hit
                 /\ counted' = Append(counted, Head(waiting))
                 /\ exercise.events = <<>> \/
                    /\ Len(exercise.events) = 1
                    /\ pc # "reply" /\ trigger_state = "TS_WAIT_FOR_SECOND_HIT"
                 /\ pc' # "reply" => exercise.events = <<>>
<1>1. Typed /\ Consistent /\ Ordered
  BY DEF Parts, Justified
<1>2. UNCHANGED isrVars
  BY DEF LoopStep
<1>3. /\ waiting' = IF trigger_evt_queue' = trigger_evt_queue THEN waiting ELSE Tail(waiting)
      /\ exercise' = exercise => counted' = counted
  BY DEF LoopStep
<1>4. exercise' # exercise =>
          counted' = IF exercise'.id # exercise.id THEN <<>> ELSE Append(counted, Head(waiting))
  BY DEF LoopStep
<1>5. trigger_evt_queue \in Seq(Data)
  BY <1>1 DEF Typed, TypeOK
<1>6. ASSUME Receive
      PROVE  /\ trigger_evt_queue # <<>> /\ trigger_evt_queue' = Tail(trigger_evt_queue)
             /\ waiting' = Tail(waiting) /\ Received = Head(trigger_evt_queue) /\ pc = "receive"
             /\ Received \in Data
  <2>1. trigger_evt_queue # <<>> /\ trigger_evt_queue' = Tail(trigger_evt_queue) /\ pc = "receive"
    BY <1>6 DEF Receive
  <2>2. Len(Tail(trigger_evt_queue)) = Len(trigger_evt_queue) - 1 /\ Len(trigger_evt_queue) \in Nat
        /\ Head(trigger_evt_queue) \in Data
    BY <1>5, <2>1, HeadTailProperties, LenProperties
  <2>3. Len(trigger_evt_queue') = Len(trigger_evt_queue) - 1
    BY <2>1, <2>2
  <2>4. trigger_evt_queue' # trigger_evt_queue
    BY <2>2, <2>3
  <2>5. QED
    BY <1>3, <2>1, <2>2, <2>4 DEF Received
<1>7. CASE Lights \/ SendReply \/ ShowEnds
  <2>1. UNCHANGED <<trigger_evt_queue, exercise>>
    BY <1>7 DEF Lights, SendReply, ShowEnds, queues, history
  <2>2. ~(pc' # "reply" /\ trigger_state' = "TS_WAIT_FOR_SECOND_HIT")
    BY <1>1, <1>7 DEF Lights, SendReply, ShowEnds, locals, Consistent
  <2>3. QED
    BY <1>2, <1>3, <2>1, <2>2
<1>8. CASE HandleOver \/ HandleIgnored
  <2>1. Receive /\ exercise' = exercise /\ trigger_state' = "TS_IDLE"
    BY <1>8 DEF HandleOver, HandleIgnored, locals, history
  <2>2. QED
    BY <1>2, <1>3, <1>6, <2>1
<1>9. CASE HandleStart
  <2>1. /\ Receive /\ trigger_state' = "TS_WAIT_FOR_FIRST_HIT" /\ Received.event = "TE_START"
        /\ exercise'.id = Received.message_id /\ exercise'.events = <<>>
    BY <1>9 DEF HandleStart
  <2>2. exercise.id < Received.message_id /\ Received.message_id \in Nat
    BY <1>1, <2>1, OrderedReceive DEF IsMessage, Fresh
  <2>3. exercise.id \in Nat
    BY <1>1 DEF Typed, TypeOK, Exercise
  <2>4. exercise' # exercise /\ exercise'.id # exercise.id
    BY <2>1, <2>2, <2>3
  <2>5. QED
    BY <1>2, <1>4, <1>6, <2>1, <2>4
<1>10. CASE HandleFirstHit \/ HandleSecondHit \/ HandleMiss
  <2>1. Receive /\ Received.event # "TE_OVER" /\ exercise' = Consumed
    BY <1>10 DEF HandleFirstHit, HandleSecondHit, HandleMiss
  <2>2. exercise \in Exercise /\ exercise.events \in Seq({"TE_START"} \cup Hit)
        /\ Len(exercise.events) \in Nat
    BY <1>1, LenProperties DEF Typed, TypeOK, Exercise
  <2>3. Received.event \in {"TE_START"} \cup Hit
    BY <1>6, <2>1 DEF Data
  <2>4. exercise'.events = Append(exercise.events, Received.event) /\ exercise'.id = exercise.id
    BY <2>1, <2>2 DEF Consumed, Exercise
  <2>5. exercise' # exercise
    BY <2>2, <2>3, <2>4, AppendProperties
  <2>6. counted' = Append(counted, Head(waiting))
    BY <1>4, <2>4, <2>5
  <2>7. exercise.events = <<>> \/
        (Len(exercise.events) = 1 /\ pc # "reply" /\ trigger_state = "TS_WAIT_FOR_SECOND_HIT")
    BY <1>1, <1>6, <1>10, <2>1 DEF HandleFirstHit, HandleSecondHit, HandleMiss, Consistent
  <2>8. pc' # "reply" => exercise.events = <<>>
    BY <1>1, <1>6, <1>10, <2>1 DEF HandleFirstHit, HandleSecondHit, HandleMiss, Consistent
  <2>9. QED
    BY <1>2, <1>6, <2>1, <2>3, <2>4, <2>6, <2>7, <2>8
<1>11. QED
  BY <1>7, <1>8, <1>9, <1>10 DEF LoopStep, Loop

(* Two hits that are posted one after the other are told apart.             *)
LEMMA NextToldApart ==
    ASSUME Parts, NEW p \in 1..Len(posted), NEW q \in 1..Len(posted), posted[p] < posted[q],
           \A o \in 1..Len(posted) : posted[p] < posted[o] => posted[q] <= posted[o]
    PROVE  ToldApart(posted[p], posted[q])
<1>1. /\ Len(posted) \in Nat /\ DOMAIN posted = 1..Len(posted)
      /\ \A o \in 1..Len(posted) : posted[o] \in 1..Len(hits)
      /\ Len(hits) \in Nat
      /\ \A i, j \in 1..Len(posted) : i < j => posted[i] < posted[j]
  BY PostedAreHits, LenProperties
<1>2. p \in Int /\ q \in Int /\ posted[p] \in Int /\ posted[q] \in Int
  BY <1>1
<1>3. p < q
  <2>1. p # q
    BY <1>2
  <2>2. ~(q < p)
    <3>1. q < p => posted[q] < posted[p]
      BY <1>1
    <3>2. QED
      BY <1>2, <3>1
  <2>3. QED
    BY <1>2, <2>1, <2>2
<1>4. p + 1 \in 1..Len(posted) /\ p < p + 1
  BY <1>1, <1>2, <1>3
<1>5. posted[p] < posted[p + 1] /\ posted[q] <= posted[p + 1] /\ posted[p + 1] \in Int
  BY <1>1, <1>4
<1>6. q = p + 1
  <2>1. p + 1 < q => posted[p + 1] < posted[q]
    BY <1>1, <1>4
  <2>2. QED
    BY <1>2, <1>3, <1>5, <2>1
<1>7. q > 1 /\ q - 1 = p
  BY <1>1, <1>6
<1>8. LET earlier == hits[posted[q - 1]]
          later   == hits[posted[q]]
      IN  later.event = earlier.event /\ later.event \in IsrP!Beam =>
              later.time - earlier.time >= Debounce
  BY <1>1, <1>7 DEF Parts, Apart, IsrP!BeamsDebounced
<1>9. QED
  BY <1>7, <1>8 DEF ToldApart

(* A hit that is taken is newer than the one that counts already, and told  *)
(* apart from it.                                                           *)
LEMMA SecondToldApart ==
    ASSUME Parts, Behaved, waiting # <<>>, waiting[1] # 0, Len(counted) = 1, counted[1] # 0,
           pc # "reply", trigger_state = "TS_WAIT_FOR_SECOND_HIT"
    PROVE  ToldApart(counted[1], waiting[1])
<1>1. waiting \in Seq(0..MaxHits) /\ Len(waiting) \in Nat \ {0} /\ 1 \in 1..Len(waiting)
  BY EmptySeq, LenProperties DEF Behaved, Waits
<1>2. PICK q \in 1..Len(posted) : posted[q] = waiting[1]
  BY <1>1 DEF Behaved, Waits, Behind
<1>3. 1 \in 1..Len(counted)
  OBVIOUS
<1>4. PICK p \in 1..Len(posted) : posted[p] = counted[1]
  BY <1>3 DEF Behaved, Older, Behind
<1>5. counted[1] < waiting[1]
  BY <1>1, <1>3 DEF Behaved, Older
<1>6. \A o \in 1..Len(posted) : posted[o] \in Nat \ {0}
  <2>1. \A o \in 1..Len(posted) : posted[o] \in 1..Len(hits) /\ Len(hits) \in Nat
    BY PostedAreHits
  <2>2. QED
    BY <2>1
<1>7. ASSUME NEW o \in 1..Len(posted), posted[p] < posted[o] PROVE posted[q] <= posted[o]
  <2>1. PICK j \in 1..Len(waiting) : waiting[j] = posted[o]
    BY <1>4, <1>7 DEF Behaved, NextWaits
  <2>2. CASE j = 1
    BY <1>2, <1>6, <2>1, <2>2
  <2>3. CASE j # 1
    <3>1. 1 < j /\ waiting[j] # 0
      BY <1>1, <1>6, <2>1, <2>3
    <3>2. waiting[1] < waiting[j]
      BY <1>1, <3>1 DEF Behaved, Waits
    <3>3. QED
      BY <1>2, <1>6, <2>1, <3>2
  <2>4. QED
    BY <2>2, <2>3
<1>8. QED
  BY <1>2, <1>4, <1>5, <1>7, NextToldApart

LEMMA BehavedLoop == ASSUME Parts, Behaved, LoopStep PROVE Behaved'
<1>1. UNCHANGED <<posted, hits>>
  BY LoopKinds DEF isrVars
<1>2. CASE /\ UNCHANGED <<trigger_evt_queue, waiting, counted, exercise>>
           /\ ~(pc' # "reply" /\ trigger_state' = "TS_WAIT_FOR_SECOND_HIT")
  <2>1. Waits' /\ Older'
    <3>1. ASSUME NEW n, NEW event, Behind(n, event) PROVE Behind(n, event)'
      BY <1>1, <3>1 DEF Behind
    <3>2. Waits'
      BY <1>1, <1>2, <3>1 DEF Behaved, Waits
    <3>3. Older'
      BY <1>2, <3>1 DEF Behaved, Older
    <3>4. QED
      BY <3>2, <3>3
  <2>2. NextWaits'
    BY <1>2 DEF NextWaits
  <2>3. TwoPassages'
    BY <1>1, <1>2 DEF Behaved, TwoPassages, ToldApart
  <2>4. QED
    BY <2>1, <2>2, <2>3 DEF Behaved
<1>3. ASSUME trigger_evt_queue # <<>>, trigger_evt_queue' = Tail(trigger_evt_queue),
             waiting' = Tail(waiting)
      PROVE  /\ Waits' /\ waiting # <<>> /\ Head(waiting) = waiting[1] /\ 1 \in 1..Len(waiting)
             /\ Head(trigger_evt_queue) = trigger_evt_queue[1]
             /\ \A i \in 1..Len(waiting') : /\ i \in Nat \ {0} /\ i + 1 \in 1..Len(waiting)
                                            /\ waiting'[i] = waiting[i + 1]
             /\ \A m : (\E j \in 1..Len(waiting) : waiting[j] = m) =>
                    m = waiting[1] \/ \E j \in 1..Len(waiting') : waiting'[j] = m
  BY <1>1, <1>3, TakenFrom
<1>4. CASE /\ trigger_evt_queue # <<>> /\ trigger_evt_queue' = Tail(trigger_evt_queue)
           /\ waiting' = Tail(waiting)
           /\ trigger_state' # "TS_WAIT_FOR_SECOND_HIT"
           /\ \/ UNCHANGED <<counted, exercise>>
              \/ counted' = <<>> /\ exercise'.events = <<>>
  <2>1. Waits' /\ NextWaits'
    BY <1>3, <1>4 DEF NextWaits
  <2>2. CASE UNCHANGED <<counted, exercise>>
    <3>1. Older'
      <4>1. ASSUME NEW k \in 1..Len(counted), counted[k] # 0
            PROVE  /\ Behind(counted[k], exercise.events[k])'
                   /\ \A i \in 1..Len(waiting') : waiting'[i] # 0 => counted[k] < waiting'[i]
        BY <1>1, <1>3, <1>4, <2>2, <4>1 DEF Behaved, Older, Behind
      <4>2. QED
        BY <2>2, <4>1 DEF Behaved, Older
    <3>2. TwoPassages'
      BY <1>1, <2>2 DEF Behaved, TwoPassages, ToldApart
    <3>3. QED
      BY <2>1, <3>1, <3>2 DEF Behaved
  <2>3. CASE counted' = <<>> /\ exercise'.events = <<>>
    <3>1. Older' /\ TwoPassages'
      BY <2>3, EmptySeq DEF Older, TwoPassages
    <3>2. QED
      BY <2>1, <3>1 DEF Behaved
  <2>4. QED
    BY <1>4, <2>2, <2>3
<1>5. CASE /\ trigger_evt_queue # <<>> /\ trigger_evt_queue' = Tail(trigger_evt_queue)
           /\ waiting' = Tail(waiting)
           /\ exercise'.events = Append(exercise.events, Head(trigger_evt_queue).event)
           /\ Head(trigger_evt_queue).event \in {"TE_START"} \cup Hit
           /\ counted' = Append(counted, Head(waiting))
           /\ exercise.events = <<>> \/
              /\ Len(exercise.events) = 1
              /\ pc # "reply" /\ trigger_state = "TS_WAIT_FOR_SECOND_HIT"
           /\ pc' # "reply" => exercise.events = <<>>
  <2>1. /\ Waits' /\ waiting # <<>> /\ 1 \in 1..Len(waiting)
        /\ counted' = Append(counted, waiting[1])
        /\ exercise'.events = Append(exercise.events, trigger_evt_queue[1].event)
        /\ trigger_evt_queue[1].event \in {"TE_START"} \cup Hit
    BY <1>3, <1>5
  <2>2. /\ counted \in Seq(0..MaxHits) /\ Len(counted) \in Nat /\ waiting[1] \in 0..MaxHits
        /\ exercise.events \in Seq({"TE_START"} \cup Hit) /\ Len(exercise.events) = Len(counted)
    BY <2>1, ElementOfSeq, LenProperties
       DEF Behaved, Waits, Older, Parts, Justified, Typed, TypeOK, Exercise
  <2>3. /\ counted' \in Seq(0..MaxHits) /\ Len(counted') = Len(counted) + 1
        /\ counted'[Len(counted) + 1] = waiting[1]
        /\ \A k \in 1..Len(counted) : counted'[k] = counted[k]
    BY <2>1, <2>2, AppendProperties
  <2>4. /\ Len(exercise'.events) = Len(counted) + 1
        /\ exercise'.events[Len(counted) + 1] = trigger_evt_queue[1].event
        /\ \A k \in 1..Len(counted) : exercise'.events[k] = exercise.events[k]
    BY <2>1, <2>2, AppendProperties
  <2>5. \A k \in 1..Len(counted') : \/ k \in 1..Len(counted) /\ counted'[k] = counted[k]
                                       /\ exercise'.events[k] = exercise.events[k]
                                    \/ k = Len(counted) + 1 /\ counted'[k] = waiting[1]
                                       /\ exercise'.events[k] = trigger_evt_queue[1].event
    BY <2>2, <2>3, <2>4
  <2>6. \A i \in 1..Len(waiting') : waiting'[i] # 0 /\ waiting[1] # 0 => waiting[1] < waiting'[i]
    <3>1. SUFFICES ASSUME NEW i \in 1..Len(waiting'), waiting'[i] # 0, waiting[1] # 0
                   PROVE  waiting[1] < waiting'[i]
      OBVIOUS
    <3>2. i \in Nat \ {0} /\ i + 1 \in 1..Len(waiting) /\ waiting'[i] = waiting[i + 1]
      BY <1>3, <1>5
    <3>3. 1 < i + 1
      BY <3>2
    <3>4. QED
      BY <2>1, <3>1, <3>2, <3>3 DEF Behaved, Waits
  <2>7. Older'
    <3>1. ASSUME NEW k \in 1..Len(counted'), counted'[k] # 0
          PROVE  /\ Behind(counted[k], exercise.events[k])'
                 /\ \A i \in 1..Len(waiting') : waiting'[i] # 0 => counted'[k] < waiting'[i]
      <4>1. CASE /\ k \in 1..Len(counted) /\ counted'[k] = counted[k]
                 /\ exercise'.events[k] = exercise.events[k]
        <5>1. /\ Behind(counted[k], exercise.events[k])
              /\ \A i \in 1..Len(waiting) : waiting[i] # 0 => counted[k] < waiting[i]
          BY <3>1, <4>1 DEF Behaved, Older
        <5>2. Behind(counted[k], exercise.events[k])'
          BY <1>1, <4>1, <5>1 DEF Behind
        <5>3. QED
          BY <1>3, <1>5, <4>1, <5>1, <5>2
      <4>2. CASE counted'[k] = waiting[1] /\ exercise'.events[k] = trigger_evt_queue[1].event
        <5>1. Behind(waiting[1], trigger_evt_queue[1].event)
          BY <2>1, <3>1, <4>2 DEF Behaved, Waits
        <5>2. Behind(counted[k], exercise.events[k])'
          BY <1>1, <4>2, <5>1 DEF Behind
        <5>3. QED
          BY <2>6, <3>1, <4>2, <5>2
      <4>3. QED
        BY <2>5, <4>1, <4>2
    <3>2. QED
      BY <2>3, <2>4, <3>1 DEF Older
  <2>8. NextWaits'
    <3>1. SUFFICES ASSUME pc' # "reply", counted'[1] # 0,
                          NEW p \in 1..Len(posted'), counted'[1] < posted'[p]
                   PROVE  \E j \in 1..Len(waiting') : waiting'[j] = posted'[p]
      BY DEF NextWaits
    <3>2. Len(counted) = 0
      BY <1>5, <2>2, <3>1
    <3>3. counted'[1] = waiting[1]
      BY <2>3, <3>2
    <3>4. waiting[1] # 0 /\ waiting[1] < posted[p] /\ p \in 1..Len(posted)
      BY <1>1, <3>1, <3>3
    <3>5. \E j \in 1..Len(waiting) : waiting[j] = posted[p]
      BY <2>1, <3>4 DEF Behaved, Waits
    <3>6. posted[p] # waiting[1]
      <4>1. waiting[1] \in Int
        BY <2>2, IsrAssumption
      <4>2. QED
        BY <3>4, <4>1
    <3>7. QED
      BY <1>1, <1>3, <1>5, <3>5, <3>6
  <2>9. TwoPassages'
    <3>1. SUFFICES ASSUME Len(counted') = 2, counted'[1] # 0, counted'[2] # 0
                   PROVE  ToldApart(counted[1], counted[2])'
      BY DEF TwoPassages
    <3>2. Len(counted) = 1 /\ counted'[1] = counted[1] /\ counted'[2] = waiting[1]
      <4>1. Len(counted) = 1
        <5>1. PICK n \in Nat : n = Len(counted)
          BY <2>2
        <5>2. n + 1 = 2
          BY <2>3, <3>1, <5>1
        <5>3. n = 1
          BY <5>2
        <5>4. QED
          BY <5>1, <5>3
      <4>2. 1 \in 1..Len(counted) /\ Len(counted) + 1 = 2
        BY <4>1
      <4>3. QED
        BY <2>3, <4>1, <4>2
    <3>3. pc # "reply" /\ trigger_state = "TS_WAIT_FOR_SECOND_HIT"
      BY <1>5, <2>2, <3>2
    <3>4. ToldApart(counted[1], waiting[1])
      BY <2>1, <3>1, <3>2, <3>3, SecondToldApart
    <3>5. QED
      BY <1>1, <3>2, <3>4 DEF ToldApart
  <2>10. QED
    BY <2>1, <2>7, <2>8, <2>9 DEF Behaved
<1>6. QED
  BY <1>2, <1>4, <1>5, LoopKinds

(* Every step of the element preserves the link between interrupts and      *)
(* events.                                                                  *)
LEMMA LinkedTakes ==
    ASSUME Parts, Linked, IsrTakes
    PROVE  Linked'
<1>1. /\ event_data' = <<Isr!Received>> /\ UNCHANGED <<hits, posted, waiting, counted>>
      /\ isr' = <<TriggerData(Isr!Received.event, Uninitialised, 0)>>
      /\ UNCHANGED <<trigger_evt_queue, exercise, pc, trigger_state>>
  BY DEF IsrTakes, Isr!Take, IsrHit, queues, locals, history
<1>2. SameEvent'
  BY <1>1 DEF SameEvent, TriggerData
<1>3. Behaved'
  BY <1>1, BehavedStands DEF Linked, Behaved
<1>4. QED
  BY <1>2, <1>3 DEF Linked, Behaved

LEMMA LinkedPosts ==
    ASSUME Parts, Linked, IsrPosts
    PROVE  Linked'
<1>1. /\ event_data # <<>> /\ event_data' = <<>> /\ posted' = Append(posted, Head(event_data).hit)
      /\ isr # <<>> /\ isr' = Tail(isr)
      /\ trigger_evt_queue' = Append(trigger_evt_queue, Head(isr))
      /\ waiting' = Append(waiting, Head(event_data).hit)
      /\ UNCHANGED <<counted, exercise, pc, trigger_state, hits>>
  BY DEF IsrPosts, Isr!Post, IsrPost, xQueueSendToBack, locals, history
<1>2. IsrP!TypeOK /\ IsrP!Truthful /\ IsrP!Ordered
  BY DEF Parts, Apart, IsrP!Debounced
<1>3. event_data \in Seq(IsrP!Data) /\ isr \in Seq(Data)
  BY <1>2 DEF IsrP!TypeOK, Parts, Justified, Typed, TypeOK
<1>4. Head(event_data) = event_data[1] /\ Head(event_data) \in IsrP!Data
      /\ Head(isr) = isr[1] /\ Head(isr) \in Data /\ Len(isr) = 1 /\ isr[1].event = event_data[1].event
  BY <1>1, <1>3, HeadTailProperties DEF Linked, SameEvent
<1>5. PICK n : n = Head(event_data).hit
  OBVIOUS
<1>6. n \in 1..MaxHits
  BY <1>4, <1>5 DEF IsrP!Data
<1>7. n \in 0..MaxHits /\ n # 0
  BY <1>6, IsrAssumption
<1>8. hits[n].event = Head(isr).event
  BY <1>1, <1>2, <1>4, <1>5 DEF IsrP!Truthful, IsrP!Stands
<1>9. \A p \in 1..Len(posted) : posted[p] < n
  <2>1. \A m \in IsrP!Decided : m < event_data[1].hit
    BY <1>1, <1>2 DEF IsrP!Ordered
  <2>2. \A p \in 1..Len(posted) : posted[p] \in IsrP!Decided
    BY DEF IsrP!Decided
  <2>3. QED
    BY <1>4, <1>5, <2>1, <2>2
<1>10. Behaved'
  <2>1. Behaved
    BY DEF Linked, Behaved
  <2>2. PICK d \in Data : d = Head(isr)
    BY <1>4
  <2>3. /\ trigger_evt_queue' = Append(trigger_evt_queue, d) /\ waiting' = Append(waiting, n)
        /\ UNCHANGED <<counted, exercise, pc, trigger_state, hits>>
    BY <1>1, <1>5, <2>2
  <2>4. /\ n # 0 /\ posted' = Append(posted, n) /\ hits[n].event = d.event
        /\ \A p \in 1..Len(posted) : posted[p] < n
    BY <1>1, <1>5, <1>7, <1>8, <1>9, <2>2
  <2>5. QED
    BY <1>7, <2>1, <2>3, <2>4, BehavedJoins
<1>11. SameEvent'
  <2>1. isr' = <<>>
    <3>1. isr' \in Seq(Data) /\ Len(isr') = Len(isr) - 1
      BY <1>1, <1>3, HeadTailProperties
    <3>2. Len(isr') = 0
      BY <1>4, <3>1
    <3>3. QED
      BY <3>1, <3>2, EmptySeq
  <2>2. QED
    BY <1>1, <2>1 DEF SameEvent
<1>12. QED
  BY <1>10, <1>11 DEF Linked, Behaved

LEMMA LinkedMessage ==
    ASSUME Parts, Linked, MessageStep
    PROVE  Linked'
<1>1. /\ UNCHANGED <<isr, event_data, posted, hits, counted, exercise, pc, trigger_state>>
      /\ waiting' = IF trigger_evt_queue' = trigger_evt_queue THEN waiting ELSE Append(waiting, 0)
  BY DEF MessageStep, isrVars, Ws, WsPost, WsReply, WsLed, WsDelayEnds, locals, history
<1>2. SameEvent'
  BY <1>1 DEF Linked, SameEvent
<1>3. CASE WsPost
  <2>1. /\ ws # <<>> /\ Head(ws).op = "post"
        /\ trigger_evt_queue' = Append(trigger_evt_queue, Head(ws).data)
    BY <1>3 DEF WsPost, NextStep, xQueueSendToBack
  <2>2. ws \in Seq(Step) /\ trigger_evt_queue \in Seq(Data)
    BY DEF Parts, Justified, Typed, TypeOK
  <2>3. Head(ws) \in Step
    BY <2>1, <2>2, HeadTailProperties
  <2>4. Head(ws).data \in Data
    BY <2>1, <2>3 DEF Step
  <2>5. Len(trigger_evt_queue') = Len(trigger_evt_queue) + 1 /\ Len(trigger_evt_queue) \in Nat
    BY <2>1, <2>2, <2>4, AppendProperties, LenProperties
  <2>6. trigger_evt_queue' # trigger_evt_queue
    BY <2>5
  <2>7. waiting' = Append(waiting, 0) /\ 0 \in 0..MaxHits
    BY <1>1, <2>6, IsrAssumption
  <2>8. Behaved'
    BY <1>1, <2>1, <2>4, <2>7, BehavedJoins DEF Linked, Behaved
  <2>9. QED
    BY <1>2, <2>8 DEF Linked, Behaved
<1>4. CASE WsReply \/ WsLed \/ WsDelayEnds
  <2>1. UNCHANGED trigger_evt_queue
    BY <1>4 DEF WsReply, WsLed, WsDelayEnds, queues
  <2>2. Behaved'
    BY <1>1, <2>1, BehavedStands DEF Linked, Behaved
  <2>3. QED
    BY <1>2, <2>2 DEF Linked, Behaved
<1>5. QED
  BY <1>3, <1>4 DEF MessageStep, Ws

LEMMA LinkedLoop ==
    ASSUME Parts, Linked, LoopStep
    PROVE  Linked'
<1>1. Behaved'
  BY BehavedLoop DEF Linked, Behaved
<1>2. UNCHANGED <<isr, event_data>>
  BY DEF LoopStep, isrVars, Loop, HandleOver, HandleIgnored, HandleStart, Lights, HandleFirstHit,
         HandleSecondHit, HandleMiss, SendReply, ShowEnds
<1>3. QED
  BY <1>1, <1>2 DEF Linked, Behaved, SameEvent

(* The steps that move no event.                                            *)
LEMMA LinkedStands ==
    ASSUME Parts, Linked,
           ControlUnitSends \/ Interrupted \/ TimePasses \/ IsrIgnores \/ ReplyStep \/ AllAtRest
               \/ UNCHANGED allVars
    PROVE  Linked'
<1>1. UNCHANGED <<isr, event_data, trigger_evt_queue, posted, waiting, counted, exercise, pc,
                  trigger_state>>
  <2>1. CASE ControlUnitSends
    BY <2>1 DEF ControlUnitSends, hbf_ws_data_handler, isrVars, queues, locals, history
  <2>2. CASE Interrupted
    BY <2>2 DEF Interrupted, Isr!breakbeam_gpio_isr_handler, Isr!push_gpio_isr_handler,
                Isr!Interrupt, vars, queues, locals, history
  <2>3. CASE TimePasses
    BY <2>3 DEF TimePasses, Tick, Isr!Tick, queues, locals, history
  <2>4. CASE IsrIgnores
    BY <2>4 DEF IsrIgnores, Isr!Ignore, vars, queues, locals, history
  <2>5. CASE ReplyStep
    BY <2>5 DEF ReplyStep, ReplyTaken, ReplySent, isrVars, queues, locals, history
  <2>6. CASE AllAtRest \/ UNCHANGED allVars
    BY <2>6 DEF AllAtRest, allVars, isrVars, vars, queues, locals, history
  <2>7. QED
    BY <2>1, <2>2, <2>3, <2>4, <2>5, <2>6
<1>2. \A n \in 1..Len(hits) : hits'[n] = hits[n]
  <2>1. CASE Interrupted
    <3>1. PICK event \in Beams : hits' = Append(hits, [event |-> event, time |-> now])
      BY <2>1 DEF Interrupted, Isr!breakbeam_gpio_isr_handler, Isr!push_gpio_isr_handler,
                  Isr!Interrupt
    <3>2. hits \in Seq([event : IsrP!Event, time : 0..MaxTick]) /\ now \in 0..MaxTick
      BY DEF Parts, Apart, IsrP!Debounced, IsrP!TypeOK
    <3>3. event \in IsrP!Event
      BY IsrAssumed DEF IsrP!SourcesAssumption
    <3>4. QED
      BY <3>1, <3>2, <3>3, AppendProperties
  <2>2. CASE ControlUnitSends \/ TimePasses \/ IsrIgnores \/ ReplyStep \/ AllAtRest
                \/ UNCHANGED allVars
    <3>1. UNCHANGED hits
      BY <2>2 DEF ControlUnitSends, TimePasses, Isr!Tick, IsrIgnores, Isr!Ignore, ReplyStep,
                  AllAtRest, allVars, isrVars
    <3>2. QED
      BY <3>1
  <2>3. QED
    BY <2>1, <2>2
<1>3. Behaved'
  BY <1>1, <1>2, BehavedStands DEF Linked, Behaved
<1>4. QED
  BY <1>1, <1>3 DEF Linked, Behaved, SameEvent

LEMMA LinkedStep == Parts /\ Linked /\ [ElementNext]_allVars => Linked'
BY LinkedTakes, LinkedPosts, LinkedMessage, LinkedLoop, LinkedStands DEF ElementNext, isr_event_loop

LEMMA AlwaysLinked == ElementSpec => [](Parts /\ Linked)
BY LinkedInit, LinkedStep, AlwaysParts, PTL DEF ElementSpec

-----------------------------------------------------------------------------
(* Every variable of beams and engine keeps its type.                       *)
THEOREM ElementTypeCorrect == ElementSpec => []ElementTypeOK
<1>1. Parts /\ Linked => ElementTypeOK
  <2> SUFFICES ASSUME Parts, Linked PROVE ElementTypeOK
      OBVIOUS
  <2>1. TypeOK
    BY DEF Parts, Justified, Typed
  <2>2. Isr!TypeOK
    BY DEF Parts, Apart, IsrP!Debounced, IsrP!TypeOK, Isr!TypeOK, IsrP!Data, Isr!Data, IsrP!Event,
           Isr!Event, IsrP!Beam, Isr!Beam, IsrP!Zeroed, Isr!Zeroed
  <2>3. QED
    BY <2>1, <2>2 DEF ElementTypeOK, Linked, Waits, Older
<1>2. QED
  BY <1>1, AlwaysLinked, PTL

(* A set that beams alone solve was solved by two passages: its hits are    *)
(* real, in the order in which they happened, of the expected beams, and    *)
(* two of one beam are at least the debounce interval apart, although       *)
(* interrupts wait in two queues and the engine blocks on its answers.      *)
THEOREM SolvesByTwoPassages == ElementSpec => []SolvedByTwoPassages
<1>1. Parts /\ Linked => SolvedByTwoPassages
  <2> SUFFICES ASSUME Parts, Linked, pc = "reply", reply.solved, counted[1] # 0, counted[2] # 0
               PROVE  /\ counted[1] < counted[2]
                      /\ \A k \in 1..2 : HitOf(k).event = exercise.events[k]
                      /\ reply.direction = Promise!Towards(HitOf(1).event)
                      /\ HitOf(1).event = HitOf(2).event /\ HitOf(1).event \in Isr!Beam =>
                             HitOf(2).time - HitOf(1).time >= Debounce
      BY DEF SolvedByTwoPassages
  <2>1. ResultJustified(reply, exercise)
    BY DEF Parts, Justified, Consistent
  <2>2. Len(exercise.events) = 2 /\ reply.direction = Promise!Towards(exercise.events[1])
    BY <2>1 DEF ResultJustified
  <2>3. Len(counted) = 2
    BY <2>2 DEF Linked, Older
  <2>4. \A k \in 1..2 : counted[k] # 0
    OBVIOUS
  <2>5. \A k \in 1..2 : HitOf(k).event = exercise.events[k]
    BY <2>3, <2>4 DEF Linked, Older, Behind, HitOf
  <2>6. ToldApart(counted[1], counted[2])
    BY <2>3 DEF Linked, TwoPassages
  <2>7. 1 \in 1..2
    OBVIOUS
  <2>8. reply.direction = Promise!Towards(HitOf(1).event)
    BY <2>2, <2>5, <2>7
  <2>9. QED
    BY <2>5, <2>6, <2>8 DEF ToldApart, HitOf, IsrP!Beam, Isr!Beam
<1>2. QED
  BY <1>1, AlwaysLinked, PTL
=============================================================================
