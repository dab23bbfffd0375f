--------------------------- MODULE TriggerProofs ---------------------------
(***************************************************************************)
(* Proofs about the exercise engine, module Trigger, for every size of its *)
(* queues and every bound.                                                 *)
(***************************************************************************)
EXTENDS Trigger, SequenceTheorems, TLAPS

-----------------------------------------------------------------------------
(* What is sent joins the queue, which keeps within its length.             *)
LEMMA SendToQueue ==
    ASSUME NEW S, NEW queue \in Seq(S), NEW len \in Nat, NEW item \in S, Len(queue) < len
    PROVE  Append(queue, item) \in Seq(S) /\ Len(Append(queue, item)) <= len
BY AppendProperties

(* What is taken was in the queue, and the rest stays.                      *)
LEMMA TakeFromQueue ==
    ASSUME NEW S, NEW queue \in Seq(S), queue # <<>>
    PROVE  /\ Head(queue) \in S
           /\ Tail(queue) \in Seq(S)
           /\ \A len \in Nat : Len(queue) <= len => Len(Tail(queue)) <= len
BY HeadTailProperties, LenProperties

-----------------------------------------------------------------------------
(* Types.  While it waits to queue an answer the loop has a well-formed one.*)
Typed == TypeOK /\ (pc = "reply" => reply \in Result)

LEMMA TypedInit == Init => Typed
<1> SUFFICES ASSUME Init PROVE Typed
    OBVIOUS
<1>1. sending \in BOOLEAN
  BY DEF Init
<1>2. QED
  BY <1>1, QueueLenAssumption, ReplyLenAssumption, BoundsAssumption, EmptySeq
     DEF Init, Typed, TypeOK, State, Path, Direction, Hit, Timeout, Colour, NO_TIMEOUT, Exercise,
         NoExercise, NoReply

(* The messages of the control unit and the hits.                           *)
LEMMA TypedEnvironment == Typed /\ Environment => Typed'
<1> SUFFICES ASSUME Typed, Environment PROVE Typed'
    OBVIOUS
<1>1. ASSUME NEW task \in Tasks, NEW parameters \in [path : Paths, silent : Silents],
             hbf_ws_data_handler(task, parameters)
      PROVE  Typed'
  <2>1. parameters \in Parameters
    BY InputsAssumption DEF Parameters
  <2>2. Handler(task, parameters) \in Seq(Step)
    <3>1. inputs + 1 \in Nat
      BY BoundsAssumption DEF Typed, TypeOK
    <3>2. Post("TE_START", parameters) \in Step /\ Post("TE_OVER", Uninitialised) \in Step
      BY <2>1, <3>1 DEF Post, TriggerData, Step, Data
    <3>3. /\ [op |-> "led", colour |-> "off"] \in Step /\ [op |-> "led", colour |-> "rgb"] \in Step
          /\ [op |-> "reply", payload |-> "initialized"] \in Step
          /\ [op |-> "reply", payload |-> "echo"] \in Step
          /\ [op |-> "delay"] \in Step
      BY DEF Step
    <3>4. task \in {"set", "over", "init", "echo", "ledstrip"}
      BY InputsAssumption DEF Task
    <3>5. QED
      BY <3>2, <3>3, <3>4 DEF Handler
  <2>3. QED
    BY <1>1, <2>2, BoundsAssumption
       DEF hbf_ws_data_handler, Typed, TypeOK, queues, locals, history
<1>2. ASSUME NEW event \in Beams, IsrHit(event) PROVE Typed'
  <2>1. TriggerData(event, Uninitialised, 0) \in Data
    BY InputsAssumption DEF TriggerData, Data
  <2>2. <<TriggerData(event, Uninitialised, 0)>> \in Seq(Data)
    BY <2>1
  <2>3. QED
    BY <1>2, <2>2, BoundsAssumption DEF IsrHit, Typed, TypeOK, queues, locals, history
<1>3. QED
  BY <1>1, <1>2 DEF Environment

(* The websocket client's task.                                             *)
LEMMA TypedWs == Typed /\ Ws => Typed'
<1> SUFFICES ASSUME Typed, Ws PROVE Typed'
    OBVIOUS
<1>1. ws # <<>> => Head(ws) \in Step /\ Tail(ws) \in Seq(Step)
  BY TakeFromQueue DEF Typed, TypeOK
<1>2. CASE WsPost
  <2>1. Head(ws).data \in Data
    BY <1>1, <1>2 DEF WsPost, NextStep, Step
  <2>2. trigger_evt_queue' \in Seq(Data) /\ Len(trigger_evt_queue') <= QueueLen
    BY <1>2, <2>1, SendToQueue, QueueLenAssumption DEF WsPost, xQueueSendToBack, Typed, TypeOK
  <2>3. QED
    BY <1>1, <1>2, <2>2 DEF WsPost, NextStep, Typed, TypeOK, locals, history
<1>3. CASE WsReply
  <2>1. [payload |-> Head(ws).payload] \in Reply
    BY <1>1, <1>3 DEF WsReply, NextStep, Step, Reply
  <2>2. reply_evt_queue' \in Seq(Reply) /\ Len(reply_evt_queue') <= ReplyLen
    BY <1>3, <2>1, SendToQueue, ReplyLenAssumption DEF WsReply, xQueueSendToBack, Typed, TypeOK
  <2>3. QED
    BY <1>1, <1>3, <2>2 DEF WsReply, NextStep, Typed, TypeOK, locals, history
<1>4. CASE WsLed
  <2>1. Head(ws).colour \in Colour
    BY <1>1, <1>4 DEF WsLed, NextStep, Step, Colour
  <2>2. QED
    BY <1>1, <1>4, <2>1 DEF WsLed, NextStep, Typed, TypeOK, queues, locals, history
<1>5. CASE WsDelayEnds
  BY <1>1, <1>5 DEF WsDelayEnds, NextStep, Typed, TypeOK, queues, locals, history
<1>6. QED
  BY <1>2, <1>3, <1>4, <1>5 DEF Ws

(* The exercise loop.                                                       *)
LEMMA TypedLoop == Typed /\ Loop => Typed'
<1> SUFFICES ASSUME Typed, Loop PROVE Typed'
    OBVIOUS
<1>1. ASSUME Receive
      PROVE  /\ Received \in Data
             /\ trigger_evt_queue' \in Seq(Data) /\ Len(trigger_evt_queue') <= QueueLen
  BY <1>1, TakeFromQueue, QueueLenAssumption DEF Receive, Received, Typed, TypeOK
<1>2. elapsed_millis \in Nat /\ now - xTicks_set_time \in Nat
  BY BoundsAssumption DEF elapsed_millis, portTICK_PERIOD_MS, Typed, TypeOK
<1>3. ASSUME Receive, Received.event # "TE_OVER" PROVE Consumed \in Exercise
  <2>1. Received.event \in {"TE_START"} \cup Hit
    BY <1>1, <1>3 DEF Data
  <2>2. exercise \in Exercise
    BY DEF Typed, TypeOK
  <2>3. Append(exercise.events, Received.event) \in Seq({"TE_START"} \cup Hit)
    BY <2>1, <2>2, AppendProperties DEF Exercise
  <2>4. QED
    BY <2>2, <2>3 DEF Consumed, Exercise
<1>4. CASE HandleOver
  <2>1. Received.message_id \in Nat
    BY <1>1, <1>4 DEF HandleOver, Data
  <2>2. QED
    BY <1>1, <1>4, <2>1
       DEF HandleOver, hbf_led_strip_off, LoopTop, Typed, TypeOK, State, Direction, Colour
<1>5. CASE HandleIgnored
  BY <1>1, <1>5 DEF HandleIgnored, LoopTop, Typed, TypeOK, locals, history
<1>6. CASE HandleStart
  <2>1. Received.message_id \in Nat /\ Received.event_parameters.path \in Path
    BY <1>1, <1>6 DEF HandleStart, Data, Parameters, Hit
  <2>2. first_hit' \in Hit /\ second_hit' \in Hit
    BY <1>6, <2>1 DEF HandleStart, Typed, TypeOK, Path, Hit
  <2>3. exercise' \in Exercise
    BY <1>6, <2>1, EmptySeq DEF HandleStart, Exercise
  <2>4. /\ pc' \in {"receive", "lights"}
          /\ xTicks_wait_started' \in 0..now' /\ xTicks_set_time' \in 0..now'
    BY <1>6, BoundsAssumption DEF HandleStart, LoopTop, Typed, TypeOK
  <2>5. QED
    BY <1>1, <1>6, <2>1, <2>2, <2>3, <2>4
       DEF HandleStart, Typed, TypeOK, State, Timeout
<1>7. CASE Lights
  BY <1>7 DEF Lights, LoopTop, Typed, TypeOK, Path, Colour, queues, locals, history
<1>8. CASE HandleFirstHit
  BY <1>1, <1>2, <1>3, <1>8
     DEF HandleFirstHit, DirectionOfHit, LoopTop, Typed, TypeOK, State, Direction, Timeout
<1>9. CASE HandleSecondHit
  <2>1. SolvedResult \in Result
    BY <1>2 DEF SolvedResult, Result, Typed, TypeOK
  <2>2. QED
    BY <1>1, <1>3, <1>9, <2>1
       DEF HandleSecondHit, Typed, TypeOK, State, Timeout
<1>10. CASE HandleMiss
  <2>1. NotSolvedResult \in Result
    BY DEF NotSolvedResult, Result, Direction
  <2>2. QED
    BY <1>1, <1>3, <1>10, <2>1 DEF HandleMiss, Typed, TypeOK, locals
<1>11. CASE SendReply
  <2>1. reply \in Result
    BY <1>11 DEF SendReply, Typed
  <2>2. reply_evt_queue' \in Seq(Reply) /\ Len(reply_evt_queue') <= ReplyLen
    BY <1>11, <2>1, SendToQueue, ReplyLenAssumption
       DEF SendReply, xQueueSendToBack, Reply, Typed, TypeOK
  <2>3. results' \in Seq([answer : Result, exercise : Exercise])
    BY <1>11, <2>1, AppendProperties DEF SendReply, Typed, TypeOK
  <2>4. QED
    BY <1>11, <2>2, <2>3
       DEF SendReply, Typed, TypeOK, State, Timeout, Colour
<1>12. CASE ShowEnds
  BY <1>12 DEF ShowEnds, hbf_led_strip_off, LoopTop, Typed, TypeOK, Colour, queues, locals, history
<1>13. QED
  BY <1>4, <1>5, <1>6, <1>7, <1>8, <1>9, <1>10, <1>11, <1>12 DEF Loop

LEMMA TypedNext == Typed /\ [Next]_vars => Typed'
<1> SUFFICES ASSUME Typed, [Next]_vars PROVE Typed'
    OBVIOUS
<1>1. CASE Tick
  BY <1>1, BoundsAssumption DEF Tick, Typed, TypeOK, queues, locals, history
<1>2. CASE IsrPost
  <2>1. Head(isr) \in Data /\ Tail(isr) \in Seq(Data)
    BY <1>2, TakeFromQueue DEF IsrPost, Typed, TypeOK
  <2>2. trigger_evt_queue' \in Seq(Data) /\ Len(trigger_evt_queue') <= QueueLen
    BY <1>2, <2>1, SendToQueue, QueueLenAssumption DEF IsrPost, xQueueSendToBack, Typed, TypeOK
  <2>3. QED
    BY <1>2, <2>1, <2>2 DEF IsrPost, Typed, TypeOK, locals, history
<1>3. CASE ReplyTaken
  <2>1. reply_evt_queue' \in Seq(Reply) /\ Len(reply_evt_queue') <= ReplyLen
    BY <1>3, TakeFromQueue, ReplyLenAssumption DEF ReplyTaken, Typed, TypeOK
  <2>2. sending' \in BOOLEAN
    BY <1>3 DEF ReplyTaken
  <2>3. QED
    BY <1>3, <2>1, <2>2 DEF ReplyTaken, Typed, TypeOK, locals, history
<1>4. CASE UNCHANGED vars
  BY <1>4 DEF vars, Typed, TypeOK, queues, locals, history
<1>5. CASE Waiting
  BY <1>4, <1>5 DEF Waiting
<1>6. CASE ReplySent
  <2>1. sending' \in BOOLEAN
    BY <1>6 DEF ReplySent
  <2>2. QED
    BY <1>6, <2>1 DEF ReplySent, Typed, TypeOK, queues, locals, history
<1>7. QED
  BY <1>1, <1>2, <1>3, <1>4, <1>5, <1>6, TypedEnvironment, TypedWs, TypedLoop DEF Next

(* Neither queue ever holds more than its length and nothing in them, in    *)
(* the loop or in its producers is malformed.                               *)
THEOREM TypeCorrect == Spec => []TypeOK
<1>1. Spec => []Typed
  BY TypedInit, TypedNext, PTL DEF Spec
<1>2. Typed => TypeOK
  BY DEF Typed
<1>3. QED
  BY <1>1, <1>2, PTL

-----------------------------------------------------------------------------
(* What the state of the loop says of the events that it has consumed.      *)

(* The expected hits are those of the path.                                 *)
HitsOfPath ==
    path # "TP_UNDEF" =>
        first_hit = Promise!Wanted(path)[1] /\ second_hit = Promise!Wanted(path)[2]

Consistent ==
    /\ pc = "lights" => trigger_state = "TS_WAIT_FOR_FIRST_HIT"
    /\ pc = "show" => trigger_state = "TS_IDLE"
    /\ trigger_state # "TS_IDLE" => path = exercise.path /\ HitsOfPath
    /\ pc # "reply" /\ trigger_state = "TS_WAIT_FOR_FIRST_HIT" => exercise.events = <<>>
    /\ pc # "reply" /\ trigger_state = "TS_WAIT_FOR_SECOND_HIT" =>
          /\ Len(exercise.events) = 1
          /\ Promise!Counts(path, 1, exercise.events[1])
          /\ direction = Promise!Towards(exercise.events[1])
    /\ pc = "reply" => path = exercise.path /\ ResultJustified(reply, exercise)

Justified == Typed /\ Consistent /\ ResultsJustified

(* Every step outside the loop leaves the loop's state alone.               *)
engine == <<pc, locals, reply, history>>

LEMMA OnlyLoopMovesEngine == [Next]_vars => Loop \/ UNCHANGED engine
<1> SUFFICES ASSUME [Next]_vars PROVE Loop \/ UNCHANGED engine
    OBVIOUS
<1>1. CASE Tick
  BY <1>1 DEF Tick, engine
<1>2. CASE Environment
  BY <1>2 DEF Environment, hbf_ws_data_handler, IsrHit, engine
<1>3. CASE Ws
  BY <1>3 DEF Ws, WsPost, WsReply, WsLed, WsDelayEnds, engine
<1>4. CASE IsrPost \/ ReplyTaken \/ ReplySent
  BY <1>4 DEF IsrPost, ReplyTaken, ReplySent, engine
<1>5. CASE Waiting \/ UNCHANGED vars
  BY <1>5 DEF Waiting, vars, engine
<1>6. QED
  BY <1>1, <1>2, <1>3, <1>4, <1>5 DEF Next

LEMMA ConsistentInit == Init => Consistent
BY DEF Init, Consistent

(* The first event after a set is decided against the first expected hit,   *)
(* the second against the second.                                           *)
LEMMA ConsumedEvents ==
    ASSUME Typed, Receive, Received.event # "TE_OVER"
    PROVE  LET n == Len(exercise.events) IN
           /\ n \in Nat
           /\ Len(Consumed.events) = n + 1
           /\ Consumed.events[n + 1] = Received.event
           /\ \A k \in 1..n : Consumed.events[k] = exercise.events[k]
           /\ Consumed.path = exercise.path /\ Consumed.id = exercise.id
<1>1. exercise \in Exercise
  BY DEF Typed, TypeOK
<1>2. Received \in Data
  BY TakeFromQueue DEF Receive, Received, Typed, TypeOK
<1>3. Received.event \in {"TE_START"} \cup Hit
  BY <1>2 DEF Data
<1>4. exercise.events \in Seq({"TE_START"} \cup Hit)
  BY <1>1 DEF Exercise
<1>5. Consumed.events = Append(exercise.events, Received.event)
  BY <1>1 DEF Consumed, Exercise
<1>6. Consumed.path = exercise.path /\ Consumed.id = exercise.id
  BY <1>1 DEF Consumed, Exercise
<1>7. QED
  BY <1>3, <1>4, <1>5, <1>6, AppendProperties, LenProperties

LEMMA ConsistentLoop == Typed /\ Consistent /\ Loop => Consistent'
<1> SUFFICES ASSUME Typed, Consistent, Loop PROVE Consistent'
    OBVIOUS
<1>1. CASE HandleOver
  BY <1>1 DEF HandleOver, LoopTop, Consistent
<1>2. CASE HandleIgnored
  BY <1>2 DEF HandleIgnored, LoopTop, Consistent, locals, history
<1>3. CASE HandleStart
  <2>1. path' \in Path
    BY <1>3, TypedLoop DEF Typed, TypeOK
  <2>2. HitsOfPath' /\ path' = exercise'.path /\ exercise'.events = <<>>
    BY <1>3, <2>1 DEF HandleStart, HitsOfPath, Path, Promise!Wanted
  <2>3. QED
    BY <1>3, <2>2 DEF HandleStart, LoopTop, Consistent
<1>4. CASE Lights
  BY <1>4 DEF Lights, LoopTop, Consistent, HitsOfPath, locals, history
<1>5. CASE HandleFirstHit
  <2>1. exercise.events = <<>> /\ path = exercise.path /\ HitsOfPath /\ exercise' = Consumed
    BY <1>5 DEF HandleFirstHit, Receive, Consistent
  <2>2. Promise!Counts(path, 1, Received.event)
    BY <1>5, <2>1 DEF HandleFirstHit, Matches, HitsOfPath, Promise!Counts
  <2>3. Len(exercise'.events) = 1 /\ exercise'.events[1] = Received.event
        /\ exercise'.path = exercise.path
    BY <1>5, <2>1, ConsumedEvents DEF HandleFirstHit
  <2>4. direction' = Promise!Towards(Received.event)
    BY <1>5 DEF HandleFirstHit, DirectionOfHit, Promise!Towards
  <2>5. QED
    BY <1>5, <2>1, <2>2, <2>3, <2>4 DEF HandleFirstHit, LoopTop, Consistent, HitsOfPath
<1>6. CASE HandleSecondHit
  <2>1. /\ Len(exercise.events) = 1 /\ path = exercise.path /\ HitsOfPath
        /\ exercise' = Consumed
        /\ Promise!Counts(path, 1, exercise.events[1])
        /\ direction = Promise!Towards(exercise.events[1])
    BY <1>6 DEF HandleSecondHit, Receive, Consistent
  <2>2. Promise!Counts(path, 2, Received.event)
    BY <1>6, <2>1 DEF HandleSecondHit, Matches, HitsOfPath, Promise!Counts
  <2>3. /\ Len(exercise'.events) = 2 /\ exercise'.path = exercise.path
        /\ exercise'.events[1] = exercise.events[1] /\ exercise'.events[2] = Received.event
    BY <1>6, <2>1, ConsumedEvents DEF HandleSecondHit
  <2>4. reply'.solved = TRUE /\ reply'.direction = direction
    BY <1>6 DEF HandleSecondHit, SolvedResult
  <2>5. ResultJustified(reply', exercise')
    BY <2>1, <2>2, <2>3, <2>4 DEF ResultJustified
  <2>6. QED
    BY <1>6, <2>1, <2>3, <2>5 DEF HandleSecondHit, Consistent
<1>7. CASE HandleMiss
  <2>1. /\ path = exercise.path /\ HitsOfPath /\ exercise' = Consumed
        /\ pc # "reply"
    BY <1>7 DEF HandleMiss, Receive, Consistent
  <2>2. reply'.solved = FALSE /\ reply'.direction = "TD_UNKNOWN"
    BY <1>7 DEF HandleMiss, NotSolvedResult
  <2>3. ResultJustified(reply', exercise')
    <3>1. CASE trigger_state = "TS_WAIT_FOR_FIRST_HIT"
      <4>1. exercise.events = <<>> /\ ~Promise!Counts(path, 1, Received.event)
        BY <1>7, <2>1, <3>1 DEF HandleMiss, Matches, HitsOfPath, Promise!Counts, Consistent
      <4>2. /\ Len(exercise'.events) = 1 /\ exercise'.path = path
            /\ exercise'.events[1] = Received.event
        BY <1>7, <2>1, <4>1, ConsumedEvents DEF HandleMiss
      <4>3. QED
        BY <2>2, <4>1, <4>2 DEF ResultJustified
    <3>2. CASE trigger_state = "TS_WAIT_FOR_SECOND_HIT"
      <4>1. /\ Len(exercise.events) = 1 /\ ~Promise!Counts(path, 2, Received.event)
            /\ Promise!Counts(path, 1, exercise.events[1])
        BY <1>7, <2>1, <3>2 DEF HandleMiss, Matches, HitsOfPath, Promise!Counts, Consistent
      <4>2. /\ Len(exercise'.events) = 2 /\ exercise'.path = path
            /\ exercise'.events[1] = exercise.events[1] /\ exercise'.events[2] = Received.event
        BY <1>7, <2>1, <4>1, ConsumedEvents DEF HandleMiss
      <4>3. QED
        BY <2>2, <4>1, <4>2 DEF ResultJustified
    <3>3. QED
      BY <1>7, <3>1, <3>2 DEF HandleMiss
  <2>4. exercise'.path = exercise.path
    BY <1>7, <2>1, ConsumedEvents DEF HandleMiss
  <2>5. QED
    BY <1>7, <2>1, <2>3, <2>4 DEF HandleMiss, Consistent, HitsOfPath, locals
<1>8. CASE SendReply
  BY <1>8 DEF SendReply, Consistent
<1>9. CASE ShowEnds
  BY <1>9 DEF ShowEnds, LoopTop, Consistent, locals, history
<1>10. QED
  BY <1>1, <1>2, <1>3, <1>4, <1>5, <1>6, <1>7, <1>8, <1>9 DEF Loop

(* Answers are only added, by SendReply.                                    *)
LEMMA ResultsGrow ==
    Loop => \/ UNCHANGED results
            \/ SendReply /\ results' = Append(results, [answer |-> reply, exercise |-> exercise])
BY DEF Loop, HandleOver, HandleIgnored, HandleStart, Lights, HandleFirstHit, HandleSecondHit,
       HandleMiss, SendReply, ShowEnds, history

LEMMA JustifiedNext == Justified /\ [Next]_vars => Justified'
<1> SUFFICES ASSUME Justified, [Next]_vars PROVE Justified'
    OBVIOUS
<1>1. Typed'
  BY TypedNext DEF Justified
<1>2. CASE UNCHANGED engine
  BY <1>1, <1>2
     DEF Justified, Consistent, HitsOfPath, ResultsJustified, engine, locals, history
<1>3. CASE Loop
  <2>1. Consistent'
    BY <1>3, ConsistentLoop DEF Justified
  <2>2. CASE UNCHANGED results
    BY <1>1, <2>1, <2>2 DEF Justified, ResultsJustified
  <2>3. CASE SendReply /\ results' = Append(results, [answer |-> reply, exercise |-> exercise])
    <3>1. ResultJustified(reply, exercise)
      BY <2>3 DEF SendReply, Justified, Consistent
    <3>2. results \in Seq([answer : Result, exercise : Exercise])
      BY DEF Justified, Typed, TypeOK
    <3>3. reply \in Result /\ exercise \in Exercise
      BY <2>3 DEF SendReply, Justified, Typed, TypeOK
    <3>4. ResultsJustified'
      <4>1. [answer |-> reply, exercise |-> exercise] \in [answer : Result, exercise : Exercise]
        BY <3>3
      <4>2. \A i \in DOMAIN results' :
                \/ i \in DOMAIN results /\ results'[i] = results[i]
                \/ results'[i] = [answer |-> reply, exercise |-> exercise]
        BY <2>3, <3>2, <4>1, AppendProperties, LenProperties
      <4>3. QED
        BY <3>1, <4>2 DEF Justified, ResultsJustified
    <3>5. QED
      BY <1>1, <2>1, <3>4 DEF Justified
  <2>4. QED
    BY <1>3, <2>2, <2>3, ResultsGrow
<1>4. QED
  BY <1>2, <1>3, OnlyLoopMovesEngine

(* A set is reported solved exactly when the two events after it were the   *)
(* hits of its path, in order, and with the direction of the first of them. *)
THEOREM AnswersJustified == Spec => []ResultsJustified
<1>1. Init => Justified
  BY TypedInit, ConsistentInit DEF Justified, ResultsJustified, Init
<1>2. Justified => ResultsJustified
  BY DEF Justified
<1>3. QED
  BY <1>1, <1>2, JustifiedNext, PTL DEF Spec

-----------------------------------------------------------------------------
(* The lights.                                                              *)
LEMMA LitNext == Typed /\ Consistent /\ LitOnlyInExercise /\ [Next]_vars => LitOnlyInExercise'
<1> SUFFICES ASSUME Typed, Consistent, LitOnlyInExercise, [Next]_vars
             PROVE  LitOnlyInExercise'
    OBVIOUS
<1> USE DEF LitOnlyInExercise, Executing
<1>1. CASE WsLed
  <2>1. Head(ws) \in Step
    BY <1>1, TakeFromQueue DEF WsLed, NextStep, Typed, TypeOK
  <2>2. led' \in {"off", "rgb"}
    BY <1>1, <2>1 DEF WsLed, NextStep, Step
  <2>3. QED
    BY <2>2
<1>2. CASE UNCHANGED <<engine, led>>
  BY <1>2 DEF engine, locals
<1>3. CASE HandleOver \/ ShowEnds
  BY <1>3 DEF HandleOver, ShowEnds, hbf_led_strip_off
<1>4. CASE HandleIgnored
  BY <1>4 DEF HandleIgnored, Receive, LoopTop, locals
<1>5. CASE HandleStart \/ HandleFirstHit
  BY <1>5 DEF HandleStart, HandleFirstHit
<1>6. CASE Lights
  BY <1>6 DEF Lights, LoopTop, Consistent, locals
<1>7. CASE HandleSecondHit \/ HandleMiss \/ SendReply
  BY <1>7 DEF HandleSecondHit, HandleMiss, SendReply
<1>8. [Next]_vars => Loop \/ WsLed \/ UNCHANGED <<engine, led>>
  BY OnlyLoopMovesEngine
     DEF Next, Tick, Environment, hbf_ws_data_handler, IsrHit, Ws, WsPost, WsReply, WsDelayEnds,
         IsrPost, ReplyTaken, ReplySent, Waiting, vars, engine
<1>9. QED
  BY <1>1, <1>2, <1>3, <1>4, <1>5, <1>6, <1>7, <1>8 DEF Loop

(* The strip shows an exercise's colours only while a set is executed or    *)
(* its outcome shown, whatever the websocket task does to the strip.        *)
THEOREM LightsGoOut == Spec => []LitOnlyInExercise
<1>1. Init => Justified /\ LitOnlyInExercise
  BY TypedInit, ConsistentInit DEF Justified, ResultsJustified, Init, LitOnlyInExercise
<1>2. (Justified /\ LitOnlyInExercise) /\ [Next]_vars => (Justified /\ LitOnlyInExercise)'
  BY JustifiedNext, LitNext DEF Justified
<1>3. QED
  BY <1>1, <1>2, PTL DEF Spec

-----------------------------------------------------------------------------
(* The times of an exercise.  The wait for a hit starts after the set was   *)
(* executed, and the wait for the second after the first hit was noted.     *)
TimesFit(answer) ==
    answer.solved => answer.reactiontime + BetweenHits(answer) <= answer.time * portTICK_PERIOD_MS

Timed ==
    /\ pc = "receive" /\ trigger_state # "TS_IDLE" => xTicks_set_time <= xTicks_wait_started
    /\ pc = "receive" /\ trigger_state = "TS_WAIT_FOR_SECOND_HIT" =>
          first_hit_millis <= (xTicks_wait_started - xTicks_set_time) * portTICK_PERIOD_MS
    /\ pc = "reply" => TimesFit(reply)

LEMMA TimedLoop == Typed /\ Consistent /\ Timed /\ Loop => Timed'
<1> SUFFICES ASSUME Typed, Consistent, Timed, Loop PROVE Timed'
    OBVIOUS
<1> USE DEF Timed
<1>1. /\ now \in Nat /\ xTicks_set_time \in Nat /\ xTicks_wait_started \in Nat
      /\ first_hit_millis \in Nat
      /\ xTicks_set_time <= now /\ xTicks_wait_started <= now
  BY BoundsAssumption DEF Typed, TypeOK
<1>2. CASE HandleOver \/ HandleIgnored \/ HandleStart
  BY <1>1, <1>2 DEF HandleOver, HandleIgnored, HandleStart, LoopTop, locals
<1>3. CASE Lights
  BY <1>1, <1>3 DEF Lights, LoopTop, Consistent, locals
<1>4. CASE HandleFirstHit
  <2>1. first_hit_millis' <= (now - xTicks_set_time) * portTICK_PERIOD_MS
    BY <1>1, <1>4 DEF HandleFirstHit, Receive, elapsed_millis, portTICK_PERIOD_MS
  <2>2. QED
    BY <1>1, <1>4, <2>1 DEF HandleFirstHit, LoopTop
<1>5. CASE HandleSecondHit
  <2>1. /\ xTicks_set_time <= xTicks_wait_started
        /\ first_hit_millis <= (xTicks_wait_started - xTicks_set_time) * portTICK_PERIOD_MS
    BY <1>5 DEF HandleSecondHit, Receive
  <2>2. /\ reply'.reactiontime = first_hit_millis
        /\ reply'.time = now - xTicks_set_time
        /\ reply'.speed = IF elapsed_millis > 0 THEN elapsed_millis ELSE -1
    BY <1>5 DEF HandleSecondHit, SolvedResult
  <2>3. BetweenHits(reply') = (now - xTicks_wait_started) * portTICK_PERIOD_MS
    BY <1>1, <2>2 DEF BetweenHits, elapsed_millis, portTICK_PERIOD_MS
  <2>4. TimesFit(reply')
    BY <1>1, <2>1, <2>2, <2>3 DEF TimesFit, portTICK_PERIOD_MS
  <2>5. QED
    BY <1>5, <2>4 DEF HandleSecondHit
<1>6. CASE HandleMiss
  <2>1. TimesFit(reply')
    BY <1>6 DEF HandleMiss, NotSolvedResult, TimesFit
  <2>2. QED
    BY <1>6, <2>1 DEF HandleMiss
<1>7. CASE SendReply
  BY <1>7 DEF SendReply
<1>8. CASE ShowEnds
  BY <1>8 DEF ShowEnds, LoopTop, Consistent, locals
<1>9. QED
  BY <1>2, <1>3, <1>4, <1>5, <1>6, <1>7, <1>8 DEF Loop

(* Nothing but the loop moves the start of its wait.                        *)
LEMMA OnlyLoopStartsWaits == [Next]_vars => Loop \/ UNCHANGED <<engine, xTicks_wait_started>>
BY OnlyLoopMovesEngine
   DEF Next, Tick, Environment, hbf_ws_data_handler, IsrHit, Ws, WsPost, WsReply, WsLed,
       WsDelayEnds, IsrPost, ReplyTaken, ReplySent, Waiting, vars

LEMMA TimesNext ==
    Justified /\ Timed /\ TimesConsistent /\ [Next]_vars => (Timed /\ TimesConsistent)'
<1> SUFFICES ASSUME Justified, Timed, TimesConsistent, [Next]_vars
             PROVE  (Timed /\ TimesConsistent)'
    OBVIOUS
<1>1. CASE UNCHANGED <<engine, xTicks_wait_started>>
  BY <1>1 DEF Timed, TimesConsistent, engine, locals, history
<1>2. CASE Loop
  <2>1. Timed'
    BY <1>2, TimedLoop DEF Justified
  <2>2. CASE UNCHANGED results
    BY <2>1, <2>2 DEF TimesConsistent
  <2>3. CASE SendReply /\ results' = Append(results, [answer |-> reply, exercise |-> exercise])
    <3>1. TimesFit(reply)
      BY <2>3 DEF SendReply, Timed
    <3>2. results \in Seq([answer : Result, exercise : Exercise])
      BY DEF Justified, Typed, TypeOK
    <3>3. [answer |-> reply, exercise |-> exercise] \in [answer : Result, exercise : Exercise]
      BY <2>3 DEF SendReply, Justified, Typed, TypeOK
    <3>4. \A i \in DOMAIN results' :
              \/ i \in DOMAIN results /\ results'[i] = results[i]
              \/ results'[i] = [answer |-> reply, exercise |-> exercise]
      BY <2>3, <3>2, <3>3, AppendProperties, LenProperties
    <3>5. QED
      BY <2>1, <3>1, <3>4 DEF TimesConsistent, TimesFit
  <2>4. QED
    BY <1>2, <2>2, <2>3, ResultsGrow
<1>3. QED
  BY <1>1, <1>2, OnlyLoopStartsWaits

(* The intervals of a solved answer fit into its total time, however long   *)
(* the loop was kept from its queue.                                        *)
THEOREM TimesFitTogether == Spec => []TimesConsistent
<1>1. Init => Justified /\ Timed /\ TimesConsistent
  BY TypedInit, ConsistentInit DEF Justified, ResultsJustified, Init, Timed, TimesConsistent
<1>2. (Justified /\ Timed /\ TimesConsistent) /\ [Next]_vars
          => (Justified /\ Timed /\ TimesConsistent)'
  BY JustifiedNext, TimesNext
<1>3. QED
  BY <1>1, <1>2, PTL DEF Spec
=============================================================================
