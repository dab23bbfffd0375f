------------------------------- MODULE Trigger -------------------------------
(***************************************************************************)
(* The exercise engine of the element, src/main/trigger.c: the task        *)
(* event_trigger_loop, the queue trigger_evt_queue that feeds it, the two  *)
(* producers of that queue (hbf_ws_data_handler, run by the websocket      *)
(* client's task, and isr_event_loop) and the queue reply_evt_queue        *)
(* (src/main/websocket.c) that takes its answers.                          *)
(*                                                                         *)
(* A task is modelled from one blocking call to the next: what it does     *)
(* between two of them is one action, except that a change of the LED      *)
(* strip, which two tasks share, is never merged with a queue operation    *)
(* of the websocket task.  The strip and the beams are initialised.        *)
(***************************************************************************)
EXTENDS Integers, Sequences

CONSTANTS
    QueueLen,     \* capacity of trigger_evt_queue, 10 in trigger_init
    ReplyLen,     \* capacity of reply_evt_queue, 10 in websocket_init
    Paths,        \* the paths that "set" messages name
    Silents,      \* the values of their silent flag
    Beams,        \* the events that the beams and the push button raise
    Tasks,        \* the tasks that the control unit sends
    MaxTick,      \* bound on the tick count
    MaxInputs     \* bound on the messages and hits of one behaviour

Path == {"TP_A_TO_B", "TP_B_TO_A", "TP_UNDEF"}
Hit  == {"TE_HIT_BEAM_A", "TE_HIT_BEAM_B", "TE_HIT_BEAM_C", "TE_PUSH", "TE_UNKNOWN"}
Task == {"set", "over", "init", "echo", "ledstrip"}

ASSUME QueueLenAssumption == QueueLen \in Nat \ {0}
ASSUME ReplyLenAssumption == ReplyLen \in Nat \ {0}
ASSUME InputsAssumption ==
    Paths \subseteq Path /\ Silents \subseteq BOOLEAN /\ Beams \subseteq Hit /\ Tasks \subseteq Task
ASSUME BoundsAssumption == MaxTick \in Nat /\ MaxInputs \in Nat

VARIABLES
    now,                           \* xTaskGetTickCount()
    trigger_evt_queue,
    reply_evt_queue,
    sending,                       \* reply_loop has a reply in hand
    pc,                            \* where event_trigger_loop is blocked
    trigger_state, path, first_hit, second_hit, direction, first_hit_millis,
    trigger_queue_timeout_millis,
    xTicks_set_time, xTicks_wait_started,
    reply,                         \* the answer the loop is queueing
    led,                           \* what the strip shows
    ws,                            \* what hbf_ws_data_handler has left to do
    isr,                           \* what isr_event_loop has left to post
    inputs,                        \* number of messages and hits so far (ids are taken from it)
    exercise, results, lastOver    \* history: see below

queues  == <<trigger_evt_queue, reply_evt_queue>>
locals  == <<trigger_state, path, first_hit, second_hit, direction, first_hit_millis,
             trigger_queue_timeout_millis, xTicks_set_time>>
history == <<exercise, results, lastOver>>
vars    == <<now, queues, sending, pc, locals, xTicks_wait_started, reply, led, ws, isr, inputs,
             history>>

-----------------------------------------------------------------------------
portTICK_PERIOD_MS == 10
NO_TIMEOUT == "NO_TIMEOUT"

Direction == {"TD_A_TO_B", "TD_B_TO_A", "TD_UNKNOWN"}
State     == {"TS_IDLE", "TS_WAIT_FOR_FIRST_HIT", "TS_WAIT_FOR_SECOND_HIT"}
Timeout   == {NO_TIMEOUT, "time_open", "max_interval_between_first_and_second_hit"}
Colour    == {"boot", "off", "red", "green", "a_red_b_green", "a_green_b_red", "rgb"}

(* trigger_evnet_parameters_t.  Only "set" fills it in; the producers of    *)
(* the other events queue the uninitialised structure.                      *)
Parameters == [path : Path, silent : BOOLEAN]
Uninitialised == [path |-> "uninitialised", silent |-> FALSE]

(* trigger_data_t.  A message id is the number of the message that carries  *)
(* it; 0 is empty_message_id.  Nobody reads event_ticks: it is left out.    *)
Data == [event : {"TE_START"}, message_id : Nat, event_parameters : Parameters]
        \cup [event : {"TE_OVER"} \cup Hit, message_id : Nat, event_parameters : {Uninitialised}]

(* A reply's payload.  speed is the divisor of HBF_DISTANCE_BETWEEN_BEAMS_MM *)
(* (elapsed_millis), the code's -1 for "no speed", or 0 when not solved.     *)
Result == [payload : {"result"}, solved : BOOLEAN, time : Int, reactiontime : Int,
           direction : Direction, speed : Int]
Reply  == [payload : {"initialized", "echo"}] \cup Result
NoReply == [payload |-> "none"]

(* What the websocket task still has to do for the message it handles: a    *)
(* sequence of blocking or shared steps, in the order of the code.          *)
Step == [op : {"post"}, data : Data] \cup [op : {"reply"}, payload : {"initialized", "echo"}]
        \cup [op : {"led"}, colour : {"off", "rgb"}] \cup [op : {"delay"}]

(* History.  exercise is the set being executed and the events the loop has *)
(* consumed for it; results are the answers queued, each with its exercise; *)
(* lastOver is the id of the last TE_OVER consumed.                         *)
Exercise == [id : Nat, path : Path, events : Seq({"TE_START"} \cup Hit)]
NoExercise == [id |-> 0, path |-> "TP_UNDEF", events |-> <<>>]

TypeOK ==
    /\ now \in 0..MaxTick
    /\ trigger_evt_queue \in Seq(Data) /\ Len(trigger_evt_queue) <= QueueLen
    /\ reply_evt_queue \in Seq(Reply) /\ Len(reply_evt_queue) <= ReplyLen
    /\ sending \in BOOLEAN
    /\ pc \in {"receive", "lights", "reply", "show"}
    /\ trigger_state \in State /\ path \in Path /\ direction \in Direction
    /\ first_hit \in Hit /\ second_hit \in Hit
    /\ first_hit_millis \in Nat /\ trigger_queue_timeout_millis \in Timeout
    /\ xTicks_set_time \in 0..now /\ xTicks_wait_started \in 0..now
    /\ reply \in Result \cup {NoReply}
    /\ led \in Colour
    /\ ws \in Seq(Step)
    /\ isr \in Seq(Data)
    /\ inputs \in 0..MaxInputs
    /\ exercise \in Exercise
    /\ results \in Seq([answer : Result, exercise : Exercise])
    /\ lastOver \in Nat

Init ==
    /\ now = 0
    /\ trigger_evt_queue = <<>> /\ reply_evt_queue = <<>> /\ sending = FALSE
    /\ pc = "receive"
    /\ trigger_state = "TS_IDLE" /\ path = "TP_UNDEF" /\ direction = "TD_UNKNOWN"
    /\ first_hit = "TE_UNKNOWN" /\ second_hit = "TE_UNKNOWN"
    /\ first_hit_millis = 0 /\ trigger_queue_timeout_millis = NO_TIMEOUT
    /\ xTicks_set_time = 0 /\ xTicks_wait_started = 0
    /\ reply = NoReply
    /\ led = "boot"
    /\ ws = <<>> /\ isr = <<>>
    /\ inputs = 0
    /\ exercise = NoExercise /\ results = <<>> /\ lastOver = 0

Tick ==
    /\ now < MaxTick
    /\ now' = now + 1
    /\ UNCHANGED <<queues, sending, pc, locals, xTicks_wait_started, reply, led, ws, isr,
                   inputs, history>>

-----------------------------------------------------------------------------
(* The FreeRTOS queue calls: a sender waits (portMAX_DELAY) while the queue *)
(* is full.  The strip's calls that a task makes on its own.  Each comes    *)
(* after wrong variants of it, which the properties below must tell apart.  *)

SendOverfull(queue, len, item)  == Len(queue) <= len /\ queue' = Append(queue, item)
SendUnderfull(queue, len, item) == Len(queue) + 1 < len /\ queue' = Append(queue, item)
SendToFront(queue, len, item)   == Len(queue) < len /\ queue' = <<item>> \o queue

xQueueSendToBack(queue, len, item) == Len(queue) < len /\ queue' = Append(queue, item)

OffForgotten == UNCHANGED led

hbf_led_strip_off == led' = "off"

-----------------------------------------------------------------------------
(* The websocket client's task: hbf_ws_data_handler, one message at a time. *)

TriggerData(event, parameters, id) ==
    [event |-> event, message_id |-> id, event_parameters |-> parameters]

Post(event, parameters) ==
    [op |-> "post", data |-> TriggerData(event, parameters, inputs + 1)]

Handler(task, parameters) ==
    CASE task = "set"      -> <<Post("TE_START", parameters)>>
      [] task = "over"     -> <<Post("TE_OVER", Uninitialised), [op |-> "led", colour |-> "off"],
                                [op |-> "delay"]>>
      [] task = "init"     -> <<[op |-> "reply", payload |-> "initialized"],
                                [op |-> "led", colour |-> "off"]>>
      [] task = "echo"     -> <<[op |-> "reply", payload |-> "echo"]>>
      [] task = "ledstrip" -> <<[op |-> "led", colour |-> "rgb"]>>

hbf_ws_data_handler(task, parameters) ==
    /\ ws = <<>> /\ inputs < MaxInputs
    /\ ws' = Handler(task, parameters)
    /\ inputs' = inputs + 1
    /\ UNCHANGED <<now, queues, sending, pc, locals, xTicks_wait_started, reply, led, isr,
                   history>>

NextStep(op) == ws # <<>> /\ Head(ws).op = op /\ ws' = Tail(ws)

(* trigger_add_event_to_queue: blocks while the queue is full.              *)
WsPost ==
    /\ NextStep("post")
    /\ xQueueSendToBack(trigger_evt_queue, QueueLen, Head(ws).data)
    /\ UNCHANGED <<now, sending, reply_evt_queue, pc, locals, xTicks_wait_started, reply, led,
                   isr, inputs, history>>

(* websocket_send_text_async: blocks while the queue is full.               *)
WsReply ==
    /\ NextStep("reply")
    /\ xQueueSendToBack(reply_evt_queue, ReplyLen, [payload |-> Head(ws).payload])
    /\ UNCHANGED <<now, sending, trigger_evt_queue, pc, locals, xTicks_wait_started, reply, led,
                   isr, inputs, history>>

WsLed ==
    /\ NextStep("led")
    /\ led' = Head(ws).colour
    /\ UNCHANGED <<now, queues, sending, pc, locals, xTicks_wait_started, reply, isr, inputs,
                   history>>

WsDelayEnds ==
    /\ NextStep("delay")
    /\ UNCHANGED <<now, queues, sending, pc, locals, xTicks_wait_started, reply, led, isr,
                   inputs, history>>

-----------------------------------------------------------------------------
(* isr_event_loop, past its debouncing (module IsrHandlers): the event      *)
(* waits for room in the queue.                                             *)
IsrHit(event) ==
    /\ isr = <<>> /\ inputs < MaxInputs
    /\ isr' = <<TriggerData(event, Uninitialised, 0)>>
    /\ inputs' = inputs + 1
    /\ UNCHANGED <<now, queues, sending, pc, locals, xTicks_wait_started, reply, led, ws,
                   history>>

IsrPost ==
    /\ isr # <<>>
    /\ xQueueSendToBack(trigger_evt_queue, QueueLen, Head(isr))
    /\ isr' = Tail(isr)
    /\ UNCHANGED <<now, sending, reply_evt_queue, pc, locals, xTicks_wait_started, reply, led,
                   ws, inputs, history>>

(* reply_loop takes a reply, and sends it once it has the client's lock,     *)
(* which the websocket client's task holds while a handler runs.            *)
ReplyTaken ==
    /\ ~sending /\ reply_evt_queue # <<>>
    /\ reply_evt_queue' = Tail(reply_evt_queue)
    /\ sending' = TRUE
    /\ UNCHANGED <<now, trigger_evt_queue, pc, locals, xTicks_wait_started, reply, led, ws, isr,
                   inputs, history>>

ReplySent ==
    /\ sending /\ ws = <<>>
    /\ sending' = FALSE
    /\ UNCHANGED <<now, queues, pc, locals, xTicks_wait_started, reply, led, ws, isr, inputs,
                   history>>

-----------------------------------------------------------------------------
(* event_trigger_loop.  xQueueReceive waits forever (portMAX_DELAY): the    *)
(* xTicksToWait computed from trigger_queue_timeout_millis is not passed.   *)

ReceiveAndFlush ==
    /\ pc = "receive" /\ trigger_evt_queue # <<>>
    /\ trigger_evt_queue' = <<>>
Peek ==
    /\ pc = "receive" /\ trigger_evt_queue # <<>>
    /\ UNCHANGED trigger_evt_queue

Receive ==
    /\ pc = "receive" /\ trigger_evt_queue # <<>>
    /\ trigger_evt_queue' = Tail(trigger_evt_queue)

Received == Head(trigger_evt_queue)

elapsed_millis == (now - xTicks_wait_started) * portTICK_PERIOD_MS

LoopTopKeepsStart == pc' = "receive" /\ UNCHANGED xTicks_wait_started

(* The top of the loop notes the time at which the next wait starts.        *)
LoopTop == pc' = "receive" /\ xTicks_wait_started' = now

(* The event counts as a hit in the current state.                          *)
MatchesAnyBeam(expected) ==
    Received.event \in {"TE_HIT_BEAM_A", "TE_HIT_BEAM_B"} \/ path = "TP_UNDEF"

Matches(expected) == Received.event = expected \/ path = "TP_UNDEF"

Consumed == [exercise EXCEPT !.events = Append(@, Received.event)]

HandleOver ==
    /\ Receive
    /\ Received.event = "TE_OVER"
    /\ hbf_led_strip_off
    /\ trigger_state' = "TS_IDLE"
    /\ first_hit_millis' = 0
    /\ direction' = "TD_UNKNOWN"
    /\ LoopTop
    /\ lastOver' = Received.message_id
    /\ UNCHANGED <<now, sending, reply_evt_queue, path, first_hit, second_hit,
                   trigger_queue_timeout_millis, xTicks_set_time, reply, ws, isr, inputs,
                   exercise, results>>

HandleIgnored ==
    /\ Receive
    /\ trigger_state = "TS_IDLE" /\ Received.event \notin {"TE_OVER", "TE_START"}
    /\ LoopTop
    /\ UNCHANGED <<now, sending, reply_evt_queue, locals, reply, led, ws, isr, inputs, history>>

HandleStart ==
    /\ Receive
    /\ trigger_state = "TS_IDLE" /\ Received.event = "TE_START"
    /\ trigger_queue_timeout_millis' = "time_open"
    /\ path' = Received.event_parameters.path
    /\ xTicks_set_time' = now
    /\ trigger_state' = "TS_WAIT_FOR_FIRST_HIT"
    /\ first_hit' = CASE path' = "TP_A_TO_B" -> "TE_HIT_BEAM_A"
                      [] path' = "TP_B_TO_A" -> "TE_HIT_BEAM_B"
                      [] path' = "TP_UNDEF"  -> first_hit
    /\ second_hit' = CASE path' = "TP_A_TO_B" -> "TE_HIT_BEAM_B"
                       [] path' = "TP_B_TO_A" -> "TE_HIT_BEAM_A"
                       [] path' = "TP_UNDEF"  -> second_hit
    /\ IF Received.event_parameters.silent
         THEN LoopTop
         ELSE pc' = "lights" /\ UNCHANGED xTicks_wait_started
    /\ exercise' = [id |-> Received.message_id, path |-> path', events |-> <<>>]
    /\ UNCHANGED <<now, sending, reply_evt_queue, direction, first_hit_millis, reply, led, ws,
                   isr, inputs, results, lastOver>>

(* The lights of a set that is not silent; then the loop starts to wait.    *)
Lights ==
    /\ pc = "lights"
    /\ led' = CASE path = "TP_A_TO_B" -> "a_red_b_green"
                [] path = "TP_B_TO_A" -> "a_green_b_red"
                [] path = "TP_UNDEF"  -> "green"
    /\ LoopTop
    /\ UNCHANGED <<now, queues, sending, locals, reply, ws, isr, inputs, history>>

DirectionReversed == IF Received.event = "TE_HIT_BEAM_A" THEN "TD_B_TO_A" ELSE "TD_A_TO_B"

DirectionOfHit == IF Received.event = "TE_HIT_BEAM_A" THEN "TD_A_TO_B" ELSE "TD_B_TO_A"

HandleFirstHit ==
    /\ Receive
    /\ trigger_state = "TS_WAIT_FOR_FIRST_HIT" /\ Received.event # "TE_OVER"
    /\ Matches(first_hit)
    /\ direction' = DirectionOfHit
    /\ first_hit_millis' = elapsed_millis
    /\ trigger_state' = "TS_WAIT_FOR_SECOND_HIT"
    /\ trigger_queue_timeout_millis' = "max_interval_between_first_and_second_hit"
    /\ LoopTop
    /\ exercise' = Consumed
    /\ UNCHANGED <<now, sending, reply_evt_queue, path, first_hit, second_hit, xTicks_set_time,
                   reply, led, ws, isr, inputs, results, lastOver>>

(* return_result_as_solved(direction, first_hit_millis, xTicks_reaction_time, ...), whose *)
(* parameters are (direction, reaction_millis, first_hit_millis, ...).                    *)
SolvedResult ==
    [payload |-> "result", solved |-> TRUE, direction |-> direction,
     reactiontime |-> first_hit_millis, time |-> now - xTicks_set_time,
     speed |-> IF elapsed_millis > 0 THEN elapsed_millis ELSE -1]

(* return_result_as_not_solved ignores its timeout_millis argument.         *)
NotSolvedResult ==
    [payload |-> "result", solved |-> FALSE, direction |-> "TD_UNKNOWN", reactiontime |-> 0,
     time |-> 0, speed |-> 0]

HandleSecondHit ==
    /\ Receive
    /\ trigger_state = "TS_WAIT_FOR_SECOND_HIT" /\ Received.event # "TE_OVER"
    /\ Matches(second_hit)
    /\ trigger_state' = "TS_IDLE"
    /\ trigger_queue_timeout_millis' = NO_TIMEOUT
    /\ reply' = SolvedResult
    /\ pc' = "reply"
    /\ exercise' = Consumed
    /\ UNCHANGED <<now, sending, reply_evt_queue, path, first_hit, second_hit, direction,
                   first_hit_millis, xTicks_set_time, xTicks_wait_started, led, ws, isr, inputs,
                   results, lastOver>>

(* A wrong event: the loop queues "not solved" and only then goes idle.     *)
HandleMiss ==
    /\ Receive
    /\ Received.event # "TE_OVER"
    /\ \/ trigger_state = "TS_WAIT_FOR_FIRST_HIT" /\ ~Matches(first_hit)
       \/ trigger_state = "TS_WAIT_FOR_SECOND_HIT" /\ ~Matches(second_hit)
    /\ reply' = NotSolvedResult
    /\ pc' = "reply"
    /\ exercise' = Consumed
    /\ UNCHANGED <<now, sending, reply_evt_queue, locals, xTicks_wait_started, led, ws, isr,
                   inputs, results, lastOver>>

(* The reply is queued (blocking while the queue is full) and the outcome   *)
(* shown for 50 ms.                                                         *)
SendReply ==
    /\ pc = "reply"
    /\ xQueueSendToBack(reply_evt_queue, ReplyLen, reply)
    /\ trigger_state' = "TS_IDLE"
    /\ trigger_queue_timeout_millis' = NO_TIMEOUT
    /\ led' = IF reply.solved THEN "green" ELSE "red"
    /\ reply' = NoReply
    /\ pc' = "show"
    /\ results' = Append(results, [answer |-> reply, exercise |-> exercise])
    /\ UNCHANGED <<now, sending, trigger_evt_queue, path, first_hit, second_hit, direction,
                   first_hit_millis, xTicks_set_time, xTicks_wait_started, ws, isr, inputs,
                   exercise, lastOver>>

ShowEnds ==
    /\ pc = "show"
    /\ hbf_led_strip_off
    /\ LoopTop
    /\ UNCHANGED <<now, queues, sending, locals, reply, ws, isr, inputs, history>>

-----------------------------------------------------------------------------
Ws   == WsPost \/ WsReply \/ WsLed \/ WsDelayEnds
Loop == \/ HandleOver \/ HandleIgnored \/ HandleStart \/ Lights
        \/ HandleFirstHit \/ HandleSecondHit \/ HandleMiss \/ SendReply \/ ShowEnds

Environment ==
    \/ \E task \in Tasks, parameters \in [path : Paths, silent : Silents] :
           hbf_ws_data_handler(task, parameters)
    \/ \E event \in Beams : IsrHit(event)

(* Every task waits for an event, and none is in sight: the element may     *)
(* stay so forever.  Any other state without a successor is a deadlock.     *)
AtRest ==
    /\ pc = "receive" /\ trigger_evt_queue = <<>> /\ reply_evt_queue = <<>> /\ ~sending
    /\ ws = <<>> /\ isr = <<>>

(* The one deadlock there is, which only the control unit can prevent (see  *)
(* Element and Websocket): reply_loop waits for the lock of a handler, and  *)
(* the handler for room, either in the queue that reply_loop should empty   *)
(* or behind the loop, which waits for the same room.                       *)
Stuck ==
    /\ sending /\ ws # <<>> /\ Len(reply_evt_queue) = ReplyLen
    /\ \/ Head(ws).op = "reply"
       \/ Head(ws).op = "post" /\ Len(trigger_evt_queue) = QueueLen /\ pc = "reply"

Waiting == (AtRest \/ Stuck) /\ UNCHANGED vars

Next == Tick \/ Environment \/ Ws \/ IsrPost \/ ReplyTaken \/ ReplySent \/ Loop \/ Waiting

Spec == Init /\ [][Next]_vars

(* FreeRTOS runs a task that is ready.  That reply_loop gets the lock once  *)
(* no handler runs holds as long as messages do not come without a pause.   *)
(* Nothing obliges the control unit to write nor a puck to hit a beam.      *)
Fairness ==
    /\ WF_vars(Tick) /\ WF_vars(Ws) /\ WF_vars(IsrPost) /\ WF_vars(Loop)
    /\ WF_vars(ReplyTaken) /\ WF_vars(ReplySent)
FairSpec == Spec /\ Fairness

-----------------------------------------------------------------------------
(* The engine implements the abstract exercise: the step that queues an     *)
(* answer is the step that decides it.                                      *)
Executing == trigger_state # "TS_IDLE" \/ pc = "reply"
Deciding  == IF pc = "reply" THEN Len(exercise.events) - 1 ELSE Len(exercise.events)

Promise == INSTANCE Exercise WITH
    Sets     <- [id : 1..MaxInputs, path : Path],
    Events   <- {"TE_START"} \cup Hit,
    set      <- IF Executing THEN [id |-> exercise.id, path |-> path]
                             ELSE [id |-> 0, path |-> "TP_UNDEF"],
    hit      <- IF Executing THEN SubSeq(exercise.events, 1, Deciding) ELSE <<>>,
    outcomes <- [i \in DOMAIN results |->
                    [id |-> results[i].exercise.id, solved |-> results[i].answer.solved,
                     direction |-> results[i].answer.direction]]

(* Whatever the two producers, the blocked replies and the lights do in     *)
(* between, event_trigger_loop behaves as one exercise at a time.           *)
KeepsPromise == Promise!Spec

(* A directed set is reported solved exactly when the first two events      *)
(* after it were the hits of its path in order, and with its direction; a   *)
(* failed one failed at the first wrong event.  A set without a path always *)
(* ends up solved.                                                          *)
ResultJustified(answer, e) ==
    LET n == Len(e.events) IN
    /\ n \in 1..2
    /\ answer.solved <=> n = 2 /\ \A k \in 1..2 : Promise!Counts(e.path, k, e.events[k])
    /\ answer.direction = IF answer.solved THEN Promise!Towards(e.events[1]) ELSE "TD_UNKNOWN"
    /\ n = 2 <=> Promise!Counts(e.path, 1, e.events[1])
ResultsJustified ==
    \A i \in DOMAIN results : ResultJustified(results[i].answer, results[i].exercise)

(* Sets are answered in the order in which the control unit sent them and   *)
(* none twice, although some are dropped or cancelled (trigger.c:425-545).  *)
AnswersInOrder ==
    \A i, j \in DOMAIN results : i < j => results[i].exercise.id < results[j].exercise.id

(* Once the loop has taken a TE_OVER it never answers a set sent before it, *)
(* even though neither the path nor the expected hits are reset.            *)
NoAnswerAfterOver == [][results' # results => exercise.id > lastOver]_vars

(* A solved answer's interval to the first hit and interval between the     *)
(* hits fit into its total reaction time (which is in ticks), wherever the  *)
(* loop was delayed.                                                        *)
BetweenHits(answer) == IF answer.speed = -1 THEN 0 ELSE answer.speed
TimesConsistent ==
    \A i \in DOMAIN results :
        LET answer == results[i].answer IN
        answer.solved =>
            answer.reactiontime + BetweenHits(answer) <= answer.time * portTICK_PERIOD_MS

(* The strip shows an exercise's colours only while a set is executed or    *)
(* its outcome shown, although the websocket task changes it too.           *)
LitOnlyInExercise ==
    led \in {"red", "green", "a_red_b_green", "a_green_b_red"} =>
        Executing \/ pc = "show"

(* The data handler returns even though it waits for two bounded queues     *)
(* while reply_loop, on which both depend, waits for the lock it holds.     *)
HandlerReturns == ws # <<>> ~> ws = <<>>

(* A queued TE_OVER takes effect however many events are queued before it.  *)
Queued(event, id) ==
    \E k \in DOMAIN trigger_evt_queue :
        trigger_evt_queue[k].event = event /\ trigger_evt_queue[k].message_id = id
OverObeyed == \A id \in 1..MaxInputs : Queued("TE_OVER", id) ~> lastOver >= id

(* A set that is being executed, with two more events queued, is answered   *)
(* or cancelled.  (Without them it may wait forever: see SetIsAnswered.)    *)
Executed(id) == Executing /\ exercise.id = id
Settled(id)  == lastOver >= id \/ \E i \in DOMAIN results : results[i].exercise.id = id
SetSettles ==
    \A id \in 1..MaxInputs : (Executed(id) /\ Len(trigger_evt_queue) >= 2) ~> Settled(id)

-----------------------------------------------------------------------------
(* What the repository's tests and comments say and the code does not do.   *)

(* A set that nobody hits is reported as not solved once its timeOpen has   *)
(* passed (test/ws-test-server.js:65-72).                                   *)
SetIsAnswered == \A id \in 1..MaxInputs : (Executed(id) /\ now = 0) ~> Settled(id)

(* The duration of a solved exercise covers the milliseconds to the first   *)
(* hit and those between the hits (test/ws-test-server.js:31-42).           *)
DurationInMillis ==
    \A i \in DOMAIN results :
        LET answer == results[i].answer IN
        answer.solved => answer.time >= answer.reactiontime + BetweenHits(answer)
=============================================================================
