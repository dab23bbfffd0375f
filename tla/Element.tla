------------------------------- MODULE Element -------------------------------
(***************************************************************************)
(* The beams and the exercise engine of one element together: module       *)
(* IsrHandlers fills the queue that module Trigger empties, in place of    *)
(* the hits at any time that Trigger assumes on its own.  The step that    *)
(* takes an interrupt from isr_evt_queue is Trigger's IsrHit, and the one  *)
(* that posts it Trigger's IsrPost: isr_event_loop waits for room in       *)
(* trigger_evt_queue, and interrupts are lost when it waits for too long.  *)
(***************************************************************************)
EXTENDS Trigger, FiniteSets

CONSTANTS
    IsrLen, Debounce, TickRange, FirstTick, MaxHits,   \* see IsrHandlers
    Window,                                            \* the control unit's limit on requests
    MaxMessages                                        \* bound on the messages

ASSUME MessagesAssumption == MaxMessages \in Nat /\ Window \in Nat

VARIABLES
    isr_evt_queue, event_data, prev_event_data,
    hits, posted, ignored,   \* history: see IsrHandlers
    waiting, counted         \* history: the interrupts behind trigger_evt_queue and behind
                             \* exercise.events, 0 for a message

Isr == INSTANCE IsrHandlers WITH time <- now, Sources <- Beams, MaxTime <- MaxTick

isrVars == <<isr_evt_queue, event_data, prev_event_data, hits, posted, ignored>>
allVars == <<vars, isrVars, waiting, counted>>

(* The interrupts' side runs for less than a turn of the tick count, and    *)
(* the engine knows the events of the beams.                                *)
ASSUME IsrAssumption ==
    /\ IsrLen \in Nat \ {0} /\ MaxHits \in Nat
    /\ TickRange \in Nat \ {0} /\ FirstTick \in 0..(TickRange - 1)
    /\ Debounce \in 0..(TickRange - 1) /\ MaxTick < TickRange
    /\ Beams \subseteq Isr!Event

ElementInit == Init /\ Isr!Init /\ waiting = <<>> /\ counted = <<>>

-----------------------------------------------------------------------------
(* The messages of the control unit; the bound leaves room for the hits.    *)
Messages == inputs - Len(posted) - Len(event_data)

(* The control unit sends a message while fewer than Window are under way:  *)
(* handled, waiting for the engine or for hits, or answered by a reply that *)
(* reply_loop has still to send.  The code has no such limit (see Stuck).   *)
One(fact) == IF fact THEN 1 ELSE 0

SetsWaiting ==
    Cardinality({i \in DOMAIN trigger_evt_queue : trigger_evt_queue[i].event = "TE_START"})

UnderWay ==
    One(ws # <<>>) + SetsWaiting + One(Executing) + Len(reply_evt_queue) + One(sending)

ControlUnitSends ==
    /\ Messages < MaxMessages /\ UnderWay < Window
    /\ \E task \in Tasks, parameters \in [path : Paths, silent : Silents] :
           hbf_ws_data_handler(task, parameters)
    /\ UNCHANGED <<isrVars, waiting, counted>>

Interrupted ==
    /\ Isr!breakbeam_gpio_isr_handler \/ Isr!push_gpio_isr_handler
    /\ UNCHANGED <<vars, waiting, counted>>

TimePasses == Tick /\ Isr!Tick /\ UNCHANGED <<waiting, counted>>

(* isr_event_loop.                                                          *)
IsrIgnores == Isr!Ignore /\ UNCHANGED <<vars, waiting, counted>>
IsrTakes   == Isr!Take /\ IsrHit(Isr!Received.event) /\ UNCHANGED <<waiting, counted>>
IsrPosts   ==
    /\ Isr!Post /\ IsrPost
    /\ waiting' = Append(waiting, Head(event_data).hit)
    /\ UNCHANGED counted
isr_event_loop == IsrIgnores \/ IsrTakes \/ IsrPosts

(* event_trigger_loop.                                                      *)
LoopStep ==
    /\ Loop
    /\ waiting' = IF trigger_evt_queue' = trigger_evt_queue THEN waiting ELSE Tail(waiting)
    /\ counted' = CASE exercise' = exercise        -> counted
                    [] exercise'.id # exercise.id  -> <<>>
                    [] OTHER                       -> Append(counted, Head(waiting))
    /\ UNCHANGED isrVars

(* The handlers of messages and reply_loop, which needs the lock that they  *)
(* hold.                                                                    *)
MessageStep ==
    /\ Ws
    /\ waiting' = IF trigger_evt_queue' = trigger_evt_queue THEN waiting ELSE Append(waiting, 0)
    /\ UNCHANGED <<isrVars, counted>>
ReplyStep == (ReplyTaken \/ ReplySent) /\ UNCHANGED <<isrVars, waiting, counted>>

AllAtRest == AtRest /\ isr_evt_queue = <<>> /\ UNCHANGED allVars

ElementNext ==
    \/ ControlUnitSends \/ Interrupted \/ TimePasses
    \/ isr_event_loop \/ LoopStep \/ MessageStep \/ ReplyStep \/ AllAtRest

ElementSpec == ElementInit /\ [][ElementNext]_allVars

(* Every task that is ready runs, and time passes (see Trigger).            *)
ElementFairSpec ==
    /\ ElementSpec
    /\ WF_allVars(TimePasses) /\ WF_allVars(isr_event_loop) /\ WF_allVars(LoopStep)
    /\ WF_allVars(MessageStep) /\ WF_allVars(ReplyStep)

-----------------------------------------------------------------------------
ElementTypeOK ==
    /\ TypeOK /\ Isr!TypeOK
    /\ waiting \in Seq(0..MaxHits) /\ Len(waiting) = Len(trigger_evt_queue)
    /\ counted \in Seq(0..MaxHits)

(* An exercise counts real hits only, each once and in the order in which   *)
(* the beams were hit, and one signal that raises two interrupts counts as  *)
(* one: two hits of one beam that solve a set are Debounce ticks apart,     *)
(* however long they waited in the two queues.                              *)
HitOf(k) == hits[counted[k]]
SolvedByTwoPassages ==
    pc = "reply" /\ reply.solved /\ counted[1] # 0 /\ counted[2] # 0 =>
        /\ counted[1] < counted[2]
        /\ \A k \in 1..2 : HitOf(k).event = exercise.events[k]
        /\ reply.direction = Promise!Towards(HitOf(1).event)
        /\ HitOf(1).event = HitOf(2).event /\ HitOf(1).event \in Isr!Beam =>
               HitOf(2).time - HitOf(1).time >= Debounce

(* Every interrupt that found room is decided: isr_event_loop waits for the *)
(* engine, the engine for room for its answers, reply_loop for the lock of  *)
(* the handler, and the handler for the engine, but never all at once.      *)
HitsDecided == Isr!HitsDecided
=============================================================================
