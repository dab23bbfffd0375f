----------------------------- MODULE IsrHandlers -----------------------------
(***************************************************************************)
(* The beams and the push button, src/main/isr_handlers.c: the interrupt   *)
(* handlers, which never wait, the queue isr_evt_queue, and isr_event_loop, *)
(* which drops the second of two interrupts raised by one signal and waits *)
(* for room in the trigger queue for the others.                           *)
(*                                                                         *)
(* Ticks are a TickType_t and wrap around.  The module begins when         *)
(* isr_loop_init has created the queue and breakbeam_init and push_init    *)
(* have hooked the handlers.  app_main calls neither of them today; where  *)
(* they stand, commented out, they come before isr_loop_init, and an       *)
(* interrupt in between would meet a queue that is NULL.                   *)
(***************************************************************************)
EXTENDS Integers, Sequences

CONSTANTS
    IsrLen,       \* capacity of isr_evt_queue, 10 in isr_loop_init
    Debounce,     \* 100 ticks in isr_event_loop
    TickRange,    \* values of a TickType_t, 2^32
    FirstTick,    \* tick count at the start of the behaviour
    Sources,      \* the events that interrupts raise
    MaxTime,      \* bound on the ticks that pass
    MaxHits       \* bound on the interrupts

Beam  == {"TE_HIT_BEAM_A", "TE_HIT_BEAM_B"}
Event == Beam \cup {"TE_PUSH", "TE_UNKNOWN"}

ASSUME IsrLenAssumption == IsrLen \in Nat \ {0}
ASSUME TicksAssumption ==
    TickRange \in Nat \ {0} /\ FirstTick \in 0..(TickRange - 1) /\ Debounce \in 0..(TickRange - 1)
ASSUME SourcesAssumption == Sources \subseteq Event
ASSUME BoundsAssumption == MaxTime \in Nat /\ MaxHits \in Nat /\ MaxTime < TickRange

VARIABLES
    time,               \* ticks since the start of the behaviour, without a wrap
    isr_evt_queue,
    event_data,         \* what isr_event_loop waits to post: none or one
    prev_event_data,
    hits,               \* history: the interrupts, each with its event and its time
    posted, ignored     \* history: the hits posted, in order, and those found to be duplicates

vars == <<time, isr_evt_queue, event_data, prev_event_data, hits, posted, ignored>>

(* event_data_t, and the hit that it stands for.                            *)
Data == [event : Event, event_ticks : 0..(TickRange - 1), hit : 1..MaxHits]

(* A zeroed event_data_t: its event is TE_START, which no interrupt raises. *)
Zeroed == [event |-> "TE_START", event_ticks |-> 0, hit |-> 0]

TypeOK ==
    /\ time \in 0..MaxTime
    /\ isr_evt_queue \in Seq(Data) /\ Len(isr_evt_queue) <= IsrLen
    /\ event_data \in Seq(Data) /\ Len(event_data) <= 1
    /\ prev_event_data \in Data \cup {Zeroed}
    /\ hits \in Seq([event : Event, time : 0..MaxTime]) /\ Len(hits) <= MaxHits
    /\ posted \in Seq(1..MaxHits) /\ ignored \subseteq 1..MaxHits

Init ==
    /\ time = 0
    /\ isr_evt_queue = <<>> /\ event_data = <<>>
    /\ prev_event_data = Zeroed
    /\ hits = <<>> /\ posted = <<>> /\ ignored = {}

Tick ==
    /\ time < MaxTime
    /\ time' = time + 1
    /\ UNCHANGED <<isr_evt_queue, event_data, prev_event_data, hits, posted, ignored>>

xTaskGetTickCount == (FirstTick + time) % TickRange

-----------------------------------------------------------------------------
(* The interrupt handlers.                                                  *)

(* xQueueSendFromISR loses the event when the queue is full.                *)
SendOverfull(data) == isr_evt_queue' = Append(isr_evt_queue, data)
SendToFront(data)  ==
    isr_evt_queue' = IF Len(isr_evt_queue) < IsrLen THEN <<data>> \o isr_evt_queue ELSE isr_evt_queue
SendOverLast(data) ==
    isr_evt_queue' = IF Len(isr_evt_queue) < IsrLen THEN Append(isr_evt_queue, data)
                     ELSE [isr_evt_queue EXCEPT ![IsrLen] = data]

xQueueSendFromISR(data) ==
    isr_evt_queue' = IF Len(isr_evt_queue) < IsrLen THEN Append(isr_evt_queue, data)
                                                    ELSE isr_evt_queue

Interrupt(event, ticks) ==
    /\ Len(hits) < MaxHits
    /\ hits' = Append(hits, [event |-> event, time |-> time])
    /\ xQueueSendFromISR([event |-> event, event_ticks |-> ticks, hit |-> Len(hits) + 1])
    /\ UNCHANGED <<time, event_data, prev_event_data, posted, ignored>>

breakbeam_gpio_isr_handler ==
    \E event \in Sources \ {"TE_PUSH"} : Interrupt(event, xTaskGetTickCount)

(* The tick count goes to the global event_data and not to the local event  *)
(* that is queued, whose event_ticks are whatever the stack holds.  They    *)
(* are compared with those of another push only: two values, less than      *)
(* Debounce apart or not, stand for all.                                    *)
Garbage == {0, Debounce}

push_gpio_isr_handler ==
    "TE_PUSH" \in Sources /\ \E garbage \in Garbage : Interrupt("TE_PUSH", garbage)

-----------------------------------------------------------------------------
(* isr_event_loop.                                                          *)

Received == Head(isr_evt_queue)

Receive ==
    /\ event_data = <<>> /\ isr_evt_queue # <<>>
    /\ isr_evt_queue' = Tail(isr_evt_queue)

(* The difference of two unsigned tick counts.                              *)
DifferenceSigned(ticks, earlier) == ticks - earlier

Elapsed(ticks, earlier) == (ticks - earlier) % TickRange

DuplicateWithinLess ==
    /\ Received.event = prev_event_data.event
    /\ Elapsed(Received.event_ticks, prev_event_data.event_ticks) + 1 < Debounce

Duplicate ==
    /\ Received.event = prev_event_data.event
    /\ Elapsed(Received.event_ticks, prev_event_data.event_ticks) < Debounce

Ignore ==
    /\ Receive /\ Duplicate
    /\ prev_event_data' = Received
    /\ ignored' = ignored \cup {Received.hit}
    /\ UNCHANGED <<time, event_data, hits, posted>>

Take ==
    /\ Receive /\ ~Duplicate
    /\ event_data' = <<Received>>
    /\ UNCHANGED <<time, prev_event_data, hits, posted, ignored>>

(* trigger_add_event_to_queue waits for room for as long as the engine      *)
(* needs; prev_event_data is set when it returns.                           *)
Post ==
    /\ event_data # <<>>
    /\ event_data' = <<>>
    /\ prev_event_data' = Head(event_data)
    /\ posted' = Append(posted, Head(event_data).hit)
    /\ UNCHANGED <<time, isr_evt_queue, hits, ignored>>

isr_event_loop == Ignore \/ Take \/ Post

Next == Tick \/ breakbeam_gpio_isr_handler \/ push_gpio_isr_handler \/ isr_event_loop

Spec == Init /\ [][Next]_vars

-----------------------------------------------------------------------------
Waiting == {isr_evt_queue[i].hit : i \in DOMAIN isr_evt_queue}

(* Events reach the exercise engine in the order of the interrupts, each at *)
(* most once.                                                               *)
PostedInOrder == \A i, j \in DOMAIN posted : i < j => posted[i] < posted[j]

(* Two hits of one beam in succession reach the engine only when they are   *)
(* at least Debounce ticks apart, across a wrap of the tick count and       *)
(* however long the loop waited for the trigger queue.                      *)
BeamsDebounced ==
    \A i \in DOMAIN posted : i > 1 =>
        LET earlier == hits[posted[i - 1]]
            later   == hits[posted[i]]
        IN  later.event = earlier.event /\ later.event \in Beam =>
                later.time - earlier.time >= Debounce

(* A hit of a beam is ignored only when the same beam was hit less than     *)
(* Debounce ticks before, also across a wrap of the tick count and when the *)
(* queue lost some of the interrupts between.                               *)
IgnoredHadPrecursor ==
    \A i \in ignored : hits[i].event \in Beam =>
        \E j \in 1..(i - 1) :
            /\ hits[j].event = hits[i].event
            /\ hits[i].time - hits[j].time < Debounce

(* Every interrupt that found room in the queue is decided: it is posted or *)
(* found to be a duplicate.  It takes an engine that makes room, and is     *)
(* checked in module Element, which has one.                                *)
HitsDecided ==
    \A i \in 1..MaxHits : i \in Waiting ~> i \in ignored \/ \E k \in DOMAIN posted : posted[k] = i
=============================================================================
