-------------------------- MODULE TriggerRefinement --------------------------
(***************************************************************************)
(* Proof that the exercise engine, module Trigger, implements the abstract *)
(* exercise, module Exercise.                                              *)
(***************************************************************************)
EXTENDS TriggerOrder

-----------------------------------------------------------------------------
(* What the abstract variables are in the two kinds of states.              *)
Set      == IF Executing THEN [id |-> exercise.id, path |-> path]
                         ELSE [id |-> 0, path |-> "TP_UNDEF"]
FirstHits == IF Executing THEN SubSeq(exercise.events, 1, Deciding) ELSE <<>>
Outcome(result) ==
    [id |-> result.exercise.id, solved |-> result.answer.solved,
     direction |-> result.answer.direction]
Outcomes == [i \in DOMAIN results |-> Outcome(results[i])]

Answerable == Justified /\ Ordered

(* The set being executed is never the abstract "no set".                   *)
LEMMA ExecutedSet ==
    Answerable /\ Executing =>
        /\ exercise.id \in 1..MaxInputs /\ path \in Path
        /\ Set # Promise!NoSet /\ Set \in [id : 1..MaxInputs, path : Path]
<1> SUFFICES ASSUME Answerable, Executing
             PROVE  /\ exercise.id \in 1..MaxInputs /\ path \in Path
                    /\ Set # Promise!NoSet /\ Set \in [id : 1..MaxInputs, path : Path]
    OBVIOUS
<1>1. /\ exercise.id \in Nat /\ lastOver \in Nat /\ inputs \in 0..MaxInputs /\ MaxInputs \in Nat
      /\ path \in Path
  BY BoundsAssumption DEF Answerable, Justified, Typed, TypeOK, Exercise
<1>2. lastOver < exercise.id /\ exercise.id <= inputs
  BY DEF Answerable, Ordered, EngineOrdered
<1>3. exercise.id \in 1..MaxInputs /\ exercise.id # 0
  BY <1>1, <1>2
<1>4. QED
  BY <1>1, <1>3 DEF Set, Promise!NoSet

(* An answer adds one outcome.                                              *)
LEMMA OutcomeAdded ==
    ASSUME Typed, SendReply
    PROVE  Outcomes' = Append(Outcomes, Outcome([answer |-> reply, exercise |-> exercise]))
<1> DEFINE R == [answer : Result, exercise : Exercise]
           r == [answer |-> reply, exercise |-> exercise]
           n == Len(results)
<1>1. results \in Seq(R) /\ r \in R /\ results' = Append(results, r)
  BY DEF SendReply, Typed, TypeOK
<1> HIDE DEF R, r
<1>2. /\ n \in Nat /\ DOMAIN results = 1..n /\ DOMAIN results' = 1..(n + 1)
      /\ \A i \in 1..n : results'[i] = results[i]
      /\ results'[n + 1] = r
  BY <1>1, ElementsSent
<1> DEFINE T == {Outcome(results'[i]) : i \in 1..(n + 1)}
<1>3. /\ Outcomes \in Seq(T) /\ Len(Outcomes) = n
      /\ \A i \in 1..n : Outcomes[i] = Outcome(results'[i])
  <2>1. Outcomes \in [1..n -> T] /\ \A i \in 1..n : Outcomes[i] = Outcome(results'[i])
    BY <1>2 DEF Outcomes
  <2>2. QED
    BY <1>2, <2>1
<1>4. Outcomes' \in Seq(T) /\ Len(Outcomes') = n + 1
      /\ \A i \in 1..(n + 1) : Outcomes'[i] = Outcome(results'[i])
  <2>1. Outcomes' = [i \in 1..(n + 1) |-> Outcome(results'[i])]
    BY <1>2 DEF Outcomes, Outcome
  <2>2. Outcomes' \in [1..(n + 1) -> T]
    BY <2>1
  <2>3. QED
    BY <1>2, <2>1, <2>2
<1>5. Outcome(r) \in T /\ Outcome(r) = Outcome(results'[n + 1])
  BY <1>2
<1> HIDE DEF T
<1>6. /\ Append(Outcomes, Outcome(r)) \in Seq(T) /\ Len(Append(Outcomes, Outcome(r))) = n + 1
      /\ \A i \in 1..n : Append(Outcomes, Outcome(r))[i] = Outcomes[i]
      /\ Append(Outcomes, Outcome(r))[n + 1] = Outcome(r)
  BY <1>3, <1>5, AppendProperties
<1>7. \A i \in 1..(n + 1) : Outcomes'[i] = Append(Outcomes, Outcome(r))[i]
  BY <1>2, <1>3, <1>4, <1>5, <1>6
<1>8. QED
  BY <1>2, <1>4, <1>6, <1>7, SeqEqual DEF r

(* The abstract variables are functions of the engine's state.              *)
LEMMA Mapped ==
    ASSUME UNCHANGED engine
    PROVE  UNCHANGED <<Set, FirstHits, Outcomes>>
BY DEF Set, FirstHits, Outcomes, Outcome, Executing, Deciding, engine, locals, history

(* A step of the abstract exercise or none.                                 *)
AbstractStep == [Promise!Next]_(Promise!vars)

(* The mapped variables are the ones substituted in Promise.                *)
LEMMA Stutters == UNCHANGED <<Set, FirstHits, Outcomes>> => AbstractStep
BY DEF AbstractStep, Promise!vars, Set, FirstHits, Outcomes, Outcome

LEMMA NoSetMapped == ~Executing => Set = Promise!NoSet /\ FirstHits = <<>>
BY DEF Set, FirstHits, Promise!NoSet

LEMMA OverMapped == Answerable /\ HandleOver => AbstractStep
<1> SUFFICES ASSUME Answerable, HandleOver PROVE AbstractStep
    OBVIOUS
<1>1. ~Executing' /\ UNCHANGED Outcomes
  BY DEF HandleOver, LoopTop, Executing, Outcomes, Outcome
<1>2. Set' = Promise!NoSet /\ FirstHits' = <<>>
  BY <1>1 DEF Set, FirstHits, Promise!NoSet
<1>3. CASE Executing
  <2>1. Promise!Cancel
    BY <1>1, <1>2 DEF Promise!Cancel, Promise!End, Set, FirstHits, Outcomes, Outcome
  <2>2. QED
    BY <1>3, <2>1, ExecutedSet DEF AbstractStep, Promise!Next, Promise!Execute, Set
<1>4. CASE ~Executing
  BY <1>1, <1>2, <1>4, NoSetMapped, Stutters
<1>5. QED
  BY <1>3, <1>4

LEMMA StartMapped == Answerable /\ HandleStart /\ Answerable' => AbstractStep
<1> SUFFICES ASSUME Answerable, HandleStart, Answerable' PROVE AbstractStep
    OBVIOUS
<1>1. ~Executing
  BY DEF HandleStart, Receive, Executing
<1>2. Executing' /\ exercise'.events = <<>> /\ pc' # "reply" /\ UNCHANGED Outcomes
  BY DEF HandleStart, LoopTop, Executing, Outcomes, Outcome
<1>3. Set' # Promise!NoSet /\ Set' \in [id : 1..MaxInputs, path : Path]
  <2>1. exercise'.id \in 1..MaxInputs /\ path' \in Path
    <3>1. /\ exercise'.id \in Nat /\ lastOver' \in Nat /\ inputs' \in 0..MaxInputs
          /\ MaxInputs \in Nat /\ path' \in Path
      BY BoundsAssumption DEF Answerable, Justified, Typed, TypeOK, Exercise
    <3>2. lastOver' < exercise'.id /\ exercise'.id <= inputs'
      BY <1>2 DEF Answerable, Ordered, EngineOrdered
    <3>3. QED
      BY <3>1, <3>2
  <2>2. QED
    BY <1>2, <2>1 DEF Set, Promise!NoSet
<1>4. FirstHits' = <<>>
  BY <1>2 DEF FirstHits, Deciding
<1>5. Promise!Accept
  BY <1>1, <1>2, <1>3, <1>4, NoSetMapped DEF Promise!Accept, Set, FirstHits, Outcomes, Outcome
<1>6. QED
  BY <1>3, <1>5 DEF AbstractStep, Promise!Next

(* The first element of a sequence, as a sequence.                          *)
LEMMA FirstOnly ==
    ASSUME NEW S, NEW s \in Seq(S), Len(s) >= 1
    PROVE  SubSeq(s, 1, 1) = <<s[1]>>
<1>1. s[1] \in S /\ \A i \in 1..1 : s[i] \in S
  BY LenProperties, ElementOfSeq
<1>2. SubSeq(s, 1, 1) \in Seq(S) /\ Len(SubSeq(s, 1, 1)) = 1 /\ SubSeq(s, 1, 1)[1] = s[1]
  BY <1>1, SubSeqProperties
<1>3. <<s[1]>> \in Seq(S) /\ Len(<<s[1]>>) = 1 /\ <<s[1]>>[1] = s[1]
  BY <1>1
<1>4. \A i \in 1..Len(SubSeq(s, 1, 1)) : SubSeq(s, 1, 1)[i] = <<s[1]>>[i]
  BY <1>2, <1>3
<1>5. QED
  BY <1>2, <1>3, <1>4, SeqEqual

LEMMA FirstHitMapped == Answerable /\ HandleFirstHit => AbstractStep
<1> SUFFICES ASSUME Answerable, HandleFirstHit PROVE AbstractStep
    OBVIOUS
<1>1. /\ Typed /\ Receive /\ Received.event # "TE_OVER" /\ exercise' = Consumed
      /\ pc = "receive" /\ pc' = "receive" /\ Executing /\ Executing'
      /\ UNCHANGED <<path, Outcomes>>
  BY DEF Answerable, Justified, HandleFirstHit, Receive, LoopTop, Executing, Outcomes, Outcome
<1>2. exercise.events = <<>> /\ HitsOfPath
  BY <1>1 DEF HandleFirstHit, Answerable, Justified, Consistent
<1>3. Promise!Counts(path, 1, Received.event)
  BY <1>1, <1>2 DEF HandleFirstHit, Matches, HitsOfPath, Promise!Counts
<1>4. /\ exercise'.events \in Seq({"TE_START"} \cup Hit) /\ Len(exercise'.events) = 1
      /\ exercise'.events[1] = Received.event /\ exercise'.id = exercise.id
      /\ Received.event \in {"TE_START"} \cup Hit
  <2>1. Received \in Data
    BY <1>1, TakeFromQueue DEF Receive, Received, Typed, TypeOK
  <2>2. Received.event \in {"TE_START"} \cup Hit
    BY <1>1, <2>1 DEF Data
  <2>3. exercise \in Exercise
    BY <1>1 DEF Typed, TypeOK
  <2>4. exercise'.events = Append(exercise.events, Received.event)
    BY <1>1, <2>3 DEF Consumed, Exercise
  <2>5. QED
    BY <1>1, <1>2, <2>2, <2>3, <2>4, ConsumedEvents, AppendProperties DEF Exercise
<1>5. FirstHits = <<>> /\ FirstHits' = <<Received.event>>
  <2>1. FirstHits = SubSeq(<<>>, 1, 0)
    BY <1>1, <1>2 DEF FirstHits, Deciding
  <2>2. FirstHits' = SubSeq(exercise'.events, 1, 1)
    BY <1>1, <1>4 DEF FirstHits, Deciding
  <2>3. SubSeq(exercise'.events, 1, 1) = <<Received.event>>
    BY <1>4, FirstOnly
  <2>4. SubSeq(<<>>, 1, 0) = <<>>
    OBVIOUS
  <2>5. QED
    BY <2>1, <2>2, <2>3, <2>4
<1>6. Set' = Set /\ Set.path = path /\ Set # Promise!NoSet
  BY <1>1, <1>4, ExecutedSet DEF Set
<1>7. Promise!FirstHit(Received.event)
  BY <1>1, <1>3, <1>5, <1>6 DEF Promise!FirstHit, Set, FirstHits, Outcomes, Outcome
<1>8. QED
  BY <1>4, <1>6, <1>7 DEF AbstractStep, Promise!Next, Promise!Execute, Set

(* The event that decides a set does not show before the answer is queued.  *)
LEMMA DecisionMapped ==
    Answerable /\ (HandleSecondHit \/ HandleMiss) => UNCHANGED <<Set, FirstHits, Outcomes>>
<1> SUFFICES ASSUME Answerable, HandleSecondHit \/ HandleMiss
             PROVE  UNCHANGED <<Set, FirstHits, Outcomes>>
    OBVIOUS
<1>1. /\ Typed /\ Receive /\ Received.event # "TE_OVER" /\ exercise' = Consumed
      /\ pc # "reply" /\ pc' = "reply" /\ Executing /\ Executing'
      /\ UNCHANGED <<path, Outcomes>>
  BY DEF Answerable, Justified, HandleSecondHit, HandleMiss, Receive, Executing, Outcomes, Outcome,
         locals
<1> DEFINE n == Len(exercise.events)
<1>2. /\ n \in Nat /\ Len(exercise'.events) = n + 1 /\ exercise'.id = exercise.id
      /\ \A k \in 1..n : exercise'.events[k] = exercise.events[k]
  BY <1>1, ConsumedEvents
<1>3. SubSeq(exercise'.events, 1, n) = SubSeq(exercise.events, 1, n)
  BY <1>2
<1>4. FirstHits' = FirstHits
  BY <1>1, <1>2, <1>3 DEF FirstHits, Deciding
<1>5. Set' = Set
  BY <1>1, <1>2 DEF Set
<1>6. QED
  BY <1>1, <1>4, <1>5

(* Queueing the answer is the step that decides.                            *)
LEMMA ReplyMapped == Answerable /\ SendReply => AbstractStep
<1> SUFFICES ASSUME Answerable, SendReply PROVE AbstractStep
    OBVIOUS
<1> DEFINE e == exercise
           n == Len(e.events)
<1>1. /\ Typed /\ Executing /\ ~Executing' /\ pc = "reply"
  BY DEF Answerable, Justified, SendReply, Executing
<1>2. Set' = Promise!NoSet /\ FirstHits' = <<>>
  BY <1>1 DEF Set, FirstHits, Promise!NoSet
<1>3. Set # Promise!NoSet /\ Set.path = path /\ Set.id = e.id
  BY <1>1, ExecutedSet DEF Set
<1>4. path = e.path /\ ResultJustified(reply, e)
  BY <1>1 DEF Answerable, Justified, Consistent
<1>5. e.events \in Seq({"TE_START"} \cup Hit) /\ n \in 1..2 /\ reply.solved \in BOOLEAN
  BY <1>1, <1>4 DEF Typed, TypeOK, Exercise, Result, ResultJustified
<1>6. e.events[n] \in {"TE_START"} \cup Hit
  <2>1. \A S : \A s \in Seq(S) : Len(s) \in 1..2 => s[Len(s)] \in S
    BY ElementOfSeq
  <2>2. QED
    BY <1>5, <2>1
<1>7. Outcomes' = Append(Outcomes, [id |-> e.id, solved |-> reply.solved,
                                    direction |-> reply.direction])
  BY <1>1, OutcomeAdded DEF Outcome
<1>8. FirstHits = SubSeq(e.events, 1, n - 1)
  BY <1>1 DEF FirstHits, Deciding
<1>9. CASE n = 1
  <2>1. FirstHits = <<>>
    BY <1>8, <1>9, SubSeqEmpty
  <2>2. /\ reply.solved = FALSE /\ reply.direction = "TD_UNKNOWN"
        /\ ~Promise!Counts(path, 1, e.events[1])
    BY <1>4, <1>5, <1>9 DEF ResultJustified
  <2>3. Len(FirstHits) + 1 = 1
    BY <2>1
  <2>4. Promise!Fail(e.events[n])
    BY <1>2, <1>3, <1>7, <1>9, <2>2, <2>3
       DEF Promise!Fail, Promise!Answer, Promise!End, Set, FirstHits, Outcomes, Outcome
  <2>5. QED
    BY <1>3, <1>6, <2>4 DEF AbstractStep, Promise!Next, Promise!Execute, Set
<1>10. CASE n = 2
  <2>1. FirstHits = <<e.events[1]>>
    BY <1>5, <1>8, <1>10, FirstOnly
  <2>2. FirstHits # <<>> /\ Len(FirstHits) + 1 = 2 /\ FirstHits[1] = e.events[1]
    BY <2>1
  <2>3. Promise!Counts(path, 1, e.events[1])
    BY <1>4, <1>10 DEF ResultJustified
  <2>4. CASE reply.solved
    <3>1. Promise!Counts(path, 2, e.events[2]) /\ reply.direction = Promise!Towards(e.events[1])
      BY <1>4, <1>10, <2>4 DEF ResultJustified
    <3>2. Promise!Solve(e.events[n])
      BY <1>2, <1>3, <1>5, <1>7, <1>10, <2>2, <2>4, <3>1
         DEF Promise!Solve, Promise!Answer, Promise!End, Set, FirstHits, Outcomes, Outcome
    <3>3. QED
      BY <1>3, <1>6, <3>2 DEF AbstractStep, Promise!Next, Promise!Execute, Set
  <2>5. CASE ~reply.solved
    <3>1. ~Promise!Counts(path, 2, e.events[2]) /\ reply.direction = "TD_UNKNOWN"
      BY <1>4, <1>10, <2>3, <2>5 DEF ResultJustified
    <3>2. Promise!Fail(e.events[n])
      BY <1>2, <1>3, <1>5, <1>7, <1>10, <2>2, <2>5, <3>1
         DEF Promise!Fail, Promise!Answer, Promise!End, Set, FirstHits, Outcomes, Outcome
    <3>3. QED
      BY <1>3, <1>6, <3>2 DEF AbstractStep, Promise!Next, Promise!Execute, Set
  <2>6. QED
    BY <2>4, <2>5
<1>11. QED
  BY <1>5, <1>9, <1>10

LEMMA NextMapped == Answerable /\ Answerable' /\ [Next]_vars => AbstractStep
<1> SUFFICES ASSUME Answerable, Answerable', [Next]_vars PROVE AbstractStep
    OBVIOUS
<1>1. CASE UNCHANGED engine
  BY <1>1, Mapped, Stutters
<1>2. CASE HandleIgnored
  <2>1. ~Executing /\ ~Executing' /\ UNCHANGED Outcomes
    BY <1>2 DEF HandleIgnored, Receive, LoopTop, Executing, Outcomes, Outcome, locals, history
  <2>2. QED
    BY <2>1, Stutters DEF Set, FirstHits
<1>3. CASE Lights \/ ShowEnds
  <2>1. /\ pc # "reply" /\ pc' # "reply"
        /\ UNCHANGED <<trigger_state, path, exercise, results>>
    BY <1>3 DEF Lights, ShowEnds, LoopTop, locals, history
  <2>2. QED
    BY <2>1, Stutters DEF Set, FirstHits, Outcomes, Outcome, Executing, Deciding
<1>4. CASE HandleSecondHit \/ HandleMiss
  BY <1>4, DecisionMapped, Stutters
<1>5. QED
  BY <1>1, <1>2, <1>3, <1>4, OverMapped, StartMapped, FirstHitMapped, ReplyMapped,
     OnlyLoopMovesEngine DEF Loop

-----------------------------------------------------------------------------
(* Whatever the two producers, the blocked replies and the lights do in     *)
(* between, event_trigger_loop behaves as one exercise at a time.           *)
THEOREM ImplementsExercise == Spec => KeepsPromise
<1>1. Init => Answerable
  BY TypedInit, ConsistentInit, OrderedInit
     DEF Answerable, Justified, ResultsJustified, Init
<1>2. Answerable /\ [Next]_vars => Answerable'
  BY JustifiedNext, OrderedNext DEF Answerable, Justified
<1>3. Init => Promise!Init
  BY DEF Init, Promise!Init, Promise!NoSet, Executing
<1>4. Answerable /\ Answerable' /\ [Next]_vars => [Promise!Next]_(Promise!vars)
  BY NextMapped DEF AbstractStep
<1>5. QED
  BY <1>1, <1>2, <1>3, <1>4, PTL DEF Spec, KeepsPromise, Promise!Spec
=============================================================================
