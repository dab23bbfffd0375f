---------------------------- MODULE TriggerOrder ----------------------------
(***************************************************************************)
(* Proofs about the order in which the exercise engine, module Trigger,    *)
(* takes and answers the messages of the control unit.                     *)
(***************************************************************************)
EXTENDS TriggerProofs

-----------------------------------------------------------------------------
(* Messages reach the loop in the order of their ids, whatever hits queue   *)
(* up between them, so that a message on its way is newer than the set      *)
(* being executed and than the last over.                                   *)
IsMessage(d) == d.event \in {"TE_START", "TE_OVER"}
Fresh(id)    == exercise.id < id /\ lastOver < id /\ id <= inputs

QueueOrdered ==
    /\ \A i \in DOMAIN trigger_evt_queue :
          IsMessage(trigger_evt_queue[i]) => Fresh(trigger_evt_queue[i].message_id)
    /\ \A i, j \in DOMAIN trigger_evt_queue :
          i < j /\ IsMessage(trigger_evt_queue[i]) /\ IsMessage(trigger_evt_queue[j]) =>
              trigger_evt_queue[i].message_id < trigger_evt_queue[j].message_id

(* What the producers have left to post.                                    *)
ProducersOrdered ==
    /\ \A k \in DOMAIN ws : ws[k].op = "post" =>
          /\ k = 1 /\ Fresh(ws[k].data.message_id)
          /\ \A i \in DOMAIN trigger_evt_queue : IsMessage(trigger_evt_queue[i]) =>
                trigger_evt_queue[i].message_id < ws[k].data.message_id
    /\ \A k \in DOMAIN isr : ~IsMessage(isr[k])

(* What the loop has taken.                                                 *)
EngineOrdered ==
    /\ exercise.id <= inputs /\ lastOver <= inputs
    /\ Executing => lastOver < exercise.id
    /\ \A i \in DOMAIN results :
          /\ results[i].exercise.id <= exercise.id
          /\ Executing => results[i].exercise.id < exercise.id

Ordered == QueueOrdered /\ ProducersOrdered /\ EngineOrdered

LEMMA OrderedInit == Init => Ordered
BY DEF Init, Ordered, QueueOrdered, ProducersOrdered, EngineOrdered, Executing, NoExercise

(* The elements of a queue after one is sent, and after one is taken.       *)
LEMMA ElementsSent ==
    ASSUME NEW S, NEW queue \in Seq(S), NEW item \in S
    PROVE  /\ DOMAIN queue = 1..Len(queue) /\ Len(queue) \in Nat
           /\ DOMAIN Append(queue, item) = 1..(Len(queue) + 1)
           /\ \A i \in DOMAIN queue : Append(queue, item)[i] = queue[i]
           /\ Append(queue, item)[Len(queue) + 1] = item
BY AppendProperties, LenProperties

LEMMA ElementsLeft ==
    ASSUME NEW S, NEW queue \in Seq(S), queue # <<>>
    PROVE  /\ 1 \in DOMAIN queue /\ Head(queue) = queue[1]
           /\ DOMAIN queue \subseteq Nat \ {0}
           /\ \A i \in DOMAIN Tail(queue) :
                 i \in Nat \ {0} /\ i + 1 \in DOMAIN queue /\ Tail(queue)[i] = queue[i + 1]
BY HeadTailProperties, LenProperties

(* A message is given the next number.                                      *)
LEMMA OrderedEnvironment == Typed /\ Ordered /\ Environment => Ordered'
<1> SUFFICES ASSUME Typed, Ordered, Environment PROVE Ordered'
    OBVIOUS
<1> USE DEF Ordered
<1>1. /\ inputs \in Nat /\ exercise.id \in Nat /\ lastOver \in Nat
      /\ trigger_evt_queue \in Seq(Data)
      /\ results \in Seq([answer : Result, exercise : Exercise])
  BY BoundsAssumption DEF Typed, TypeOK, Exercise
<1>2. \A i \in DOMAIN trigger_evt_queue : trigger_evt_queue[i].message_id \in Nat
  BY <1>1, LenProperties DEF Data
<1>3. ASSUME inputs' = inputs + 1, UNCHANGED <<trigger_evt_queue, engine>>
      PROVE  QueueOrdered' /\ EngineOrdered'
  <2>1. QueueOrdered'
    BY <1>1, <1>2, <1>3 DEF QueueOrdered, IsMessage, Fresh, engine, history
  <2>2. Executing' <=> Executing
    BY <1>3 DEF Executing, engine, locals
  <2>3. EngineOrdered'
    BY <1>1, <1>3, <2>2 DEF EngineOrdered, engine, history
  <2>4. QED
    BY <2>1, <2>3
<1>4. ASSUME NEW task \in Tasks, NEW parameters \in [path : Paths, silent : Silents],
             hbf_ws_data_handler(task, parameters)
      PROVE  Ordered'
  <2>1. /\ inputs' = inputs + 1 /\ ws' = Handler(task, parameters)
        /\ UNCHANGED <<trigger_evt_queue, engine, isr>>
    BY <1>4 DEF hbf_ws_data_handler, queues, engine
  <2>2. \A k \in DOMAIN ws' : ws'[k].op = "post" => k = 1 /\ ws'[k].data.message_id = inputs + 1
    <3>1. task \in {"set", "over", "init", "echo", "ledstrip"}
      BY InputsAssumption DEF Task
    <3>2. QED
      BY <2>1, <3>1 DEF Handler, Post, TriggerData
  <2>3. /\ inputs + 1 > exercise.id /\ inputs + 1 > lastOver
        /\ \A i \in DOMAIN trigger_evt_queue : IsMessage(trigger_evt_queue[i]) =>
              trigger_evt_queue[i].message_id < inputs + 1
    BY <1>1, <1>2 DEF QueueOrdered, EngineOrdered, Fresh
  <2>4. ProducersOrdered'
    BY <1>1, <2>1, <2>2, <2>3 DEF ProducersOrdered, IsMessage, Fresh, engine, history
  <2>5. QED
    BY <1>3, <2>1, <2>4
<1>5. ASSUME NEW event \in Beams, IsrHit(event) PROVE Ordered'
  <2>1. /\ inputs' = inputs + 1 /\ isr' = <<TriggerData(event, Uninitialised, 0)>>
        /\ UNCHANGED <<trigger_evt_queue, engine, ws>>
    BY <1>5 DEF IsrHit, queues, engine
  <2>2. \A k \in DOMAIN isr' : ~IsMessage(isr'[k])
    BY <2>1, InputsAssumption DEF TriggerData, IsMessage, Hit
  <2>3. \A k \in DOMAIN ws : ws[k].op = "post" => Fresh(ws[k].data.message_id)'
    <3>1. \A k \in DOMAIN ws : ws[k].op = "post" => ws[k].data.message_id \in Nat
      BY LenProperties DEF Typed, TypeOK, Step, Data
    <3>2. QED
      BY <1>1, <2>1, <3>1 DEF ProducersOrdered, Fresh, engine, history
  <2>4. ProducersOrdered'
    BY <1>1, <2>1, <2>2, <2>3 DEF ProducersOrdered, IsMessage
  <2>5. QED
    BY <1>3, <2>1, <2>4
<1>6. QED
  BY <1>4, <1>5 DEF Environment

LEMMA OrderedWs == Typed /\ Ordered /\ Ws => Ordered'
<1> SUFFICES ASSUME Typed, Ordered, Ws PROVE Ordered'
    OBVIOUS
<1> USE DEF Ordered
<1>1. /\ ws \in Seq(Step) /\ trigger_evt_queue \in Seq(Data)
      /\ UNCHANGED <<engine, inputs, isr>>
  BY DEF Typed, TypeOK, Ws, WsPost, WsReply, WsLed, WsDelayEnds, queues, engine
<1>2. EngineOrdered'
  BY <1>1 DEF EngineOrdered, Executing, engine, locals, history
<1>3. ws # <<>> /\ ws' = Tail(ws)
  BY DEF Ws, WsPost, WsReply, WsLed, WsDelayEnds, NextStep
<1>4. \A k \in DOMAIN ws' : ws'[k].op # "post"
  BY <1>1, <1>3, ElementsLeft DEF ProducersOrdered
<1>5. ProducersOrdered'
  BY <1>1, <1>4 DEF ProducersOrdered, IsMessage
<1>6. CASE WsPost
  <2>1. 1 \in DOMAIN ws /\ Head(ws) = ws[1] /\ ws[1].op = "post" /\ ws[1].data \in Data
    BY <1>1, <1>6, ElementsLeft, TakeFromQueue DEF WsPost, NextStep, Step
  <2>2. trigger_evt_queue' = Append(trigger_evt_queue, ws[1].data)
    BY <1>6, <2>1 DEF WsPost, xQueueSendToBack
  <2>3. /\ Fresh(ws[1].data.message_id)
        /\ \A i \in DOMAIN trigger_evt_queue : IsMessage(trigger_evt_queue[i]) =>
              trigger_evt_queue[i].message_id < ws[1].data.message_id
    BY <2>1 DEF ProducersOrdered
  <2>4. QueueOrdered'
    BY <1>1, <2>1, <2>2, <2>3, ElementsSent DEF QueueOrdered, Fresh, IsMessage, engine, history
  <2>5. QED
    BY <1>2, <1>5, <2>4
<1>7. CASE WsReply \/ WsLed \/ WsDelayEnds
  <2>1. UNCHANGED trigger_evt_queue
    BY <1>7 DEF WsReply, WsLed, WsDelayEnds, queues
  <2>2. QueueOrdered'
    BY <1>1, <2>1 DEF QueueOrdered, Fresh, IsMessage, engine, history
  <2>3. QED
    BY <1>2, <1>5, <2>2
<1>8. QED
  BY <1>6, <1>7 DEF Ws

(* A hit that joins the queue has no place in the order of the messages.    *)
LEMMA OrderedIsrPost == Typed /\ Ordered /\ IsrPost => Ordered'
<1> SUFFICES ASSUME Typed, Ordered, IsrPost PROVE Ordered'
    OBVIOUS
<1> USE DEF Ordered
<1>1. /\ isr \in Seq(Data) /\ trigger_evt_queue \in Seq(Data) /\ isr # <<>>
      /\ isr' = Tail(isr)
      /\ UNCHANGED <<engine, inputs, ws>>
  BY DEF Typed, TypeOK, IsrPost, engine
<1>2. EngineOrdered'
  BY <1>1 DEF EngineOrdered, Executing, engine, locals, history
<1>3. Head(isr) \in Data /\ ~IsMessage(Head(isr)) /\ \A k \in DOMAIN isr' : ~IsMessage(isr'[k])
  BY <1>1, ElementsLeft, TakeFromQueue DEF ProducersOrdered, IsMessage
<1>4. trigger_evt_queue' = Append(trigger_evt_queue, Head(isr))
  BY DEF IsrPost, xQueueSendToBack
<1>5. \A i \in DOMAIN trigger_evt_queue' : IsMessage(trigger_evt_queue'[i]) =>
         i \in DOMAIN trigger_evt_queue /\ trigger_evt_queue'[i] = trigger_evt_queue[i]
  BY <1>1, <1>3, <1>4, ElementsSent
<1>6. QueueOrdered' /\ ProducersOrdered'
  BY <1>1, <1>3, <1>5 DEF QueueOrdered, ProducersOrdered, Fresh, IsMessage, engine, history
<1>7. QED
  BY <1>2, <1>6

(* What is left of the queue is newer than the message that the loop takes. *)
LEMMA OrderedReceive ==
    ASSUME Typed, Ordered, Receive
    PROVE  /\ \A i \in DOMAIN trigger_evt_queue' : IsMessage(trigger_evt_queue'[i]) =>
                 /\ Fresh(trigger_evt_queue'[i].message_id)
                 /\ IsMessage(Received) => Received.message_id < trigger_evt_queue'[i].message_id
           /\ \A i, j \in DOMAIN trigger_evt_queue' :
                 i < j /\ IsMessage(trigger_evt_queue'[i]) /\ IsMessage(trigger_evt_queue'[j]) =>
                     trigger_evt_queue'[i].message_id < trigger_evt_queue'[j].message_id
           /\ IsMessage(Received) =>
                 /\ Fresh(Received.message_id)
                 /\ \A k \in DOMAIN ws : ws[k].op = "post" =>
                       Received.message_id < ws[k].data.message_id
           /\ \A k \in DOMAIN ws : ws[k].op = "post" =>
                 \A i \in DOMAIN trigger_evt_queue' : IsMessage(trigger_evt_queue'[i]) =>
                     trigger_evt_queue'[i].message_id < ws[k].data.message_id
           /\ Received.message_id \in Nat
<1> USE DEF Ordered, QueueOrdered, ProducersOrdered
<1>1. trigger_evt_queue \in Seq(Data) /\ trigger_evt_queue # <<>>
      /\ trigger_evt_queue' = Tail(trigger_evt_queue)
  BY DEF Typed, TypeOK, Receive
<1>2. 1 \in DOMAIN trigger_evt_queue /\ Received = trigger_evt_queue[1]
  BY <1>1, ElementsLeft DEF Received
<1>3. \A i \in DOMAIN trigger_evt_queue' :
         /\ i \in Nat \ {0} /\ i + 1 \in DOMAIN trigger_evt_queue
         /\ trigger_evt_queue'[i] = trigger_evt_queue[i + 1]
  BY <1>1, ElementsLeft
<1>4. Received.message_id \in Nat
  BY <1>1, TakeFromQueue DEF Received, Data
<1>5. QED
  BY <1>2, <1>3, <1>4

(* A step that takes an event and starts no set and ends none.              *)
LEMMA OrderedStays ==
    ASSUME Typed, Ordered, Receive \/ UNCHANGED trigger_evt_queue,
           UNCHANGED <<ws, isr, inputs, lastOver, results>>, exercise'.id = exercise.id,
           Executing' => Executing
    PROVE  Ordered'
<1>1. QueueOrdered' /\ ProducersOrdered'
  <2>1. CASE UNCHANGED trigger_evt_queue
    BY <2>1 DEF Ordered, QueueOrdered, ProducersOrdered, Fresh, IsMessage
  <2>2. CASE Receive
    BY <2>2, OrderedReceive DEF Ordered, QueueOrdered, ProducersOrdered, Fresh, IsMessage
  <2>3. QED
    BY <2>1, <2>2
<1>2. EngineOrdered'
  BY DEF Ordered, EngineOrdered
<1>3. QED
  BY <1>1, <1>2 DEF Ordered

LEMMA OrderedLoop == Typed /\ Ordered /\ Loop => Ordered'
<1> SUFFICES ASSUME Typed, Ordered, Loop PROVE Ordered'
    OBVIOUS
<1>1. /\ inputs \in Nat /\ exercise.id \in Nat /\ lastOver \in Nat
      /\ results \in Seq([answer : Result, exercise : Exercise])
  BY BoundsAssumption DEF Typed, TypeOK, Exercise
<1>2. \A i \in DOMAIN results : results[i].exercise.id \in Nat
  <2>1. \A i \in DOMAIN results : results[i] \in [answer : Result, exercise : Exercise]
    BY <1>1, LenProperties, ElementOfSeq
  <2>2. \A e \in Exercise : e.id \in Nat
    BY DEF Exercise
  <2>3. QED
    BY <2>1, <2>2
<1>3. CASE HandleOver
  <2>1. /\ Receive /\ IsMessage(Received) /\ lastOver' = Received.message_id
        /\ UNCHANGED <<ws, isr, inputs, exercise, results>>
    BY <1>3 DEF HandleOver, IsMessage
  <2>2. ~Executing'
    BY <1>3 DEF HandleOver, LoopTop, Executing
  <2>3. QueueOrdered' /\ ProducersOrdered'
    BY <2>1, OrderedReceive DEF Ordered, QueueOrdered, ProducersOrdered, Fresh, IsMessage
  <2>4. EngineOrdered'
    BY <2>1, <2>2, OrderedReceive DEF Ordered, EngineOrdered, Fresh
  <2>5. QED
    BY <2>3, <2>4 DEF Ordered
<1>4. CASE HandleStart
  <2>1. /\ Receive /\ IsMessage(Received) /\ exercise'.id = Received.message_id
        /\ UNCHANGED <<ws, isr, inputs, lastOver, results>>
    BY <1>4 DEF HandleStart, IsMessage
  <2>2. QueueOrdered' /\ ProducersOrdered'
    BY <2>1, OrderedReceive DEF Ordered, QueueOrdered, ProducersOrdered, Fresh, IsMessage
  <2>3. EngineOrdered'
    BY <1>1, <1>2, <2>1, OrderedReceive DEF Ordered, EngineOrdered, Fresh
  <2>4. QED
    BY <2>2, <2>3 DEF Ordered
<1>5. CASE HandleIgnored
  BY <1>5, OrderedStays DEF HandleIgnored, LoopTop, Executing, locals, history
<1>6. CASE HandleFirstHit \/ HandleSecondHit \/ HandleMiss
  <2>1. Receive /\ exercise'.id = exercise.id
    BY <1>6, ConsumedEvents DEF HandleFirstHit, HandleSecondHit, HandleMiss
  <2>2. Executing
    BY <1>6 DEF HandleFirstHit, HandleSecondHit, HandleMiss, Executing
  <2>3. UNCHANGED <<ws, isr, inputs, lastOver, results>>
    BY <1>6 DEF HandleFirstHit, HandleSecondHit, HandleMiss
  <2>4. QED
    BY <2>1, <2>2, <2>3, OrderedStays
<1>7. CASE Lights \/ ShowEnds
  BY <1>7, OrderedStays DEF Lights, ShowEnds, LoopTop, Executing, queues, locals, history
<1>8. CASE SendReply
  <2>1. /\ UNCHANGED <<trigger_evt_queue, ws, isr, inputs, exercise, lastOver>>
        /\ results' = Append(results, [answer |-> reply, exercise |-> exercise])
        /\ [answer |-> reply, exercise |-> exercise] \in [answer : Result, exercise : Exercise]
    BY <1>8 DEF SendReply, Typed, TypeOK
  <2>2. ~Executing'
    BY <1>8 DEF SendReply, Executing
  <2>3. QueueOrdered' /\ ProducersOrdered'
    BY <2>1 DEF Ordered, QueueOrdered, ProducersOrdered, Fresh, IsMessage
  <2>4. \A i \in DOMAIN results' : results'[i].exercise.id <= exercise.id
    BY <1>1, <2>1, ElementsSent DEF Ordered, EngineOrdered
  <2>5. EngineOrdered'
    BY <2>1, <2>2, <2>4 DEF Ordered, EngineOrdered
  <2>6. QED
    BY <2>3, <2>5 DEF Ordered
<1>9. QED
  BY <1>3, <1>4, <1>5, <1>6, <1>7, <1>8 DEF Loop

LEMMA OrderedNext == Typed /\ Ordered /\ [Next]_vars => Ordered'
<1> SUFFICES ASSUME Typed, Ordered, [Next]_vars PROVE Ordered'
    OBVIOUS
<1>1. CASE Tick \/ ReplyTaken \/ ReplySent \/ Waiting \/ UNCHANGED vars
  BY <1>1, OrderedStays
     DEF Tick, ReplyTaken, ReplySent, Waiting, vars, Executing, queues, locals, history
<1>2. QED
  BY <1>1, OrderedEnvironment, OrderedWs, OrderedIsrPost, OrderedLoop DEF Next

-----------------------------------------------------------------------------
(* Once the loop has taken an over it never answers a set sent before it.   *)
THEOREM OverIsFinal == Spec => NoAnswerAfterOver
<1>1. Ordered /\ [Next]_vars => [results' # results => exercise.id > lastOver]_vars
  <2> SUFFICES ASSUME Ordered, [Next]_vars, results' # results
               PROVE  exercise.id > lastOver
    OBVIOUS
  <2>1. SendReply
    BY ResultsGrow, OnlyLoopMovesEngine DEF engine, history
  <2>2. Executing
    BY <2>1 DEF SendReply, Executing
  <2>3. QED
    BY <2>2 DEF Ordered, EngineOrdered
<1>2. Init => Typed /\ Ordered
  BY TypedInit, OrderedInit
<1>3. (Typed /\ Ordered) /\ [Next]_vars => (Typed /\ Ordered)'
  BY TypedNext, OrderedNext
<1>4. QED
  BY <1>1, <1>2, <1>3, PTL DEF Spec, NoAnswerAfterOver

(* Sets are answered in the order in which they were sent, none twice.      *)
THEOREM AnsweredInOrder == Spec => []AnswersInOrder
<1>1. Typed /\ Ordered /\ AnswersInOrder /\ [Next]_vars => AnswersInOrder'
  <2> SUFFICES ASSUME Typed, Ordered, AnswersInOrder, [Next]_vars PROVE AnswersInOrder'
    OBVIOUS
  <2>1. CASE UNCHANGED results
    BY <2>1 DEF AnswersInOrder
  <2>2. CASE SendReply /\ results' = Append(results, [answer |-> reply, exercise |-> exercise])
    <3>1. /\ results \in Seq([answer : Result, exercise : Exercise])
          /\ [answer |-> reply, exercise |-> exercise] \in [answer : Result, exercise : Exercise]
      BY <2>2 DEF SendReply, Typed, TypeOK
    <3>2. \A i \in DOMAIN results : results[i].exercise.id < exercise.id
      BY <2>2 DEF SendReply, Executing, Ordered, EngineOrdered
    <3>3. QED
      BY <2>2, <3>1, <3>2, ElementsSent DEF AnswersInOrder
  <2>3. QED
    BY <2>1, <2>2, ResultsGrow, OnlyLoopMovesEngine DEF engine, history
<1>2. Init => Typed /\ Ordered /\ AnswersInOrder
  BY TypedInit, OrderedInit DEF Init, AnswersInOrder
<1>3. QED
  BY <1>1, <1>2, TypedNext, OrderedNext, PTL DEF Spec
=============================================================================
