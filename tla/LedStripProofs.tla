--------------------------- MODULE LedStripProofs ---------------------------
(***************************************************************************)
(* Proofs about the LED strip, module LedStrip, for every number of LEDs,  *)
(* every depth of the driver's queue, every size of its memory and         *)
(* whatever the callers draw.                                              *)
(***************************************************************************)
EXTENDS LedStrip, SequenceTheorems, TLAPS

-----------------------------------------------------------------------------
(* The invariant, a conjunct at a time.                                     *)

(* What a task's place in its call says of the pixels it has written.       *)
Placed ==
    \A t \in Task :
        /\ At(t, "draw") => task[t].led_no < HBF_LED_COUNT
        /\ At(t, "transmit") => task[t].led_no = HBF_LED_COUNT
        /\ task[t].pc \notin {"draw", "transmit"} => task[t].led_no = 0
        /\ task[t].pc \in {"stop", "give"} => task[t].stops > 0

(* The encoder has put on the wire what it has passed in the array, and     *)
(* nothing between transmissions.                                           *)
Encoded ==
    /\ encoder.state = 0 => encoder.byte_index < HBF_LED_COUNT /\ Len(wire) = encoder.byte_index
    /\ encoder.state = 1 => encoder.byte_index = 0 /\ Len(wire) = HBF_LED_COUNT
    /\ transmissions = 0 => encoder.state = 0 /\ encoder.byte_index = 0

(* While nobody draws, the last transmission carries the array as it is.    *)
Carried ==
    Quiet =>
        /\ transmissions = 0 => \A i \in 1..HBF_LED_COUNT : strip[i] = led_strip_pixels[i - 1]
        /\ transmissions = 1 => \A i \in 1..Len(wire) : wire[i] = led_strip_pixels[i - 1]

(* A task that nobody disturbed has drawn its picture so far, and the last  *)
(* one to finish has left the whole of it.                                  *)
Undisturbed ==
    /\ \A t \in Drawing \ overlapped :
          /\ Drawing = {t}
          /\ \A i \in Led : i < task[t].led_no => led_strip_pixels[i] = Picture(task[t].call)[i]
    /\ Drawing = {} /\ last.alone => led_strip_pixels = Picture(last.call)

Inv == TypeOK /\ Placed /\ Encoded /\ Carried /\ Undisturbed

-----------------------------------------------------------------------------
(* The strip has at least two LEDs.                                         *)
LEMMA Strip ==
    /\ HBF_LED_COUNT \in Nat /\ HBF_LED_COUNT >= 2 /\ Half \in 1..(HBF_LED_COUNT - 1)
    /\ \A n \in 0..HBF_LED_COUNT : n < HBF_LED_COUNT => n \in Led /\ n + 1 \in 1..HBF_LED_COUNT
BY StripAssumption DEF Led

LEMMA SomeColours == {"off", "red", "green", "blue", "bright_green"} \subseteq Colours
BY ColoursAssumption

LEMMA NoCallIsCall == NoCall \in Call
BY SomeColours DEF NoCall, Call, Type

LEMMA RestingIsActivity == Resting \in Activity /\ Resting.pc = "idle" /\ Resting.led_no = 0
BY NoCallIsCall, Strip DEF Resting, Activity, Where

(* A call that draws one colour, by a caller or by the animation.           *)
LEMMA SameIsCall ==
    ASSUME NEW rgb \in Colours, NEW count \in Int
    PROVE  hbf_led_strip_rgb(rgb, count) \in Call /\ hbf_led_strip_set_same_color(rgb, count) \in Call
<1>1. ASSUME NEW call \in Call PROVE [call EXCEPT !.rgb = rgb, !.count = count] \in Call
  BY DEF Call
<1>2. ASSUME NEW call \in Call PROVE [call EXCEPT !.stops = 1] \in Call
  BY DEF Call
<1>3. ASSUME NEW call
      PROVE  [[call EXCEPT !.stops = 1] EXCEPT !.rgb = rgb, !.count = count] =
                 [call EXCEPT !.stops = 1, !.rgb = rgb, !.count = count]
  OBVIOUS
<1>4. QED
  BY <1>1, <1>2, <1>3, NoCallIsCall DEF hbf_led_strip_rgb, hbf_led_strip_set_same_color

LEMMA RedIsCall == hbf_led_strip_red \in Call
BY SomeColours, StripAssumption, SameIsCall DEF hbf_led_strip_red

LEMMA FrameIsCall == ASSUME index \in Nat PROVE Frame \in Call
<1>1. (index % HBF_LED_COUNT) + 1 \in Int /\ HBF_LED_COUNT \in Int
  BY Strip
<1>2. QED
  BY <1>1, SameIsCall, SomeColours DEF Frame

(* A task moves alone.                                                      *)
LEMMA Moves ==
    ASSUME TypeOK, NEW t \in Task, NEW activity \in Activity, Set(t, activity)
    PROVE  /\ task' \in [Task -> Activity]
           /\ task'[t] = activity
           /\ \A u \in Task \ {t} : task'[u] = task[u]
BY DEF TypeOK, Set

LEMMA ColourOfPixel == ASSUME NEW call \in Call, NEW n \in Int PROVE PixelOf(call, n) \in Colours
BY SomeColours DEF PixelOf, Call

-----------------------------------------------------------------------------
LEMMA InvInit == Init => Inv
<1> SUFFICES ASSUME Init PROVE Inv
    OBVIOUS
<1>1. \A t \in Task : /\ task[t] \in Activity
                      /\ task[t].pc \in {"stop", "top", "idle"} /\ task[t].led_no = 0
                      /\ task[t].pc = "stop" => task[t].stops = 1
  BY NoCallIsCall, RedIsCall, Strip DEF Init, Activity, Where
<1>2. task \in [Task -> Activity]
  BY <1>1 DEF Init
<1>3. TypeOK
  <2>1. led_strip_pixels \in [Led -> Colours] /\ strip \in [1..HBF_LED_COUNT -> Colours]
    BY SomeColours DEF Init
  <2>2. encoder \in [state : 0..1, byte_index : 0..HBF_LED_COUNT]
    BY Strip DEF Init
  <2>3. wire \in Seq(Colours) /\ Len(wire) <= HBF_LED_COUNT
    BY Strip, EmptySeq DEF Init
  <2>4. last \in [call : Call, alone : BOOLEAN]
    BY NoCallIsCall DEF Init
  <2>5. transmissions \in 0..trans_queue_depth /\ animation_sema \in 0..SemaLimit /\ calls \in 0..MaxCalls
    BY DriverAssumption, AnimationAssumption, MaxCallsAssumption DEF Init
  <2>6. animation_running \in BOOLEAN /\ animation_type \in Type /\ index \in Nat /\ overlapped \subseteq Task
    BY DEF Init, Type
  <2>7. QED
    BY <1>2, <2>1, <2>2, <2>3, <2>4, <2>5, <2>6 DEF TypeOK
<1>4. Placed
  BY <1>1, Strip DEF Placed, At
<1>5. Encoded
  BY Strip, EmptySeq DEF Init, Encoded
<1>6. Carried
  BY Strip DEF Init, Carried, Led
<1>7. Undisturbed
  <2>1. Drawing = {}
    BY <1>1 DEF Drawing, At
  <2>2. led_strip_pixels = Picture(NoCall)
    BY DEF Init, Picture, NoCall, Led
  <2>3. QED
    BY <2>1, <2>2 DEF Init, Undisturbed
<1>8. QED
  BY <1>3, <1>4, <1>5, <1>6, <1>7 DEF Inv

-----------------------------------------------------------------------------
(* The driver.                                                              *)
LEMMA SomePixels ==
    ASSUME TypeOK, NEW first \in 0..HBF_LED_COUNT, NEW next \in 0..HBF_LED_COUNT, first <= next
    PROVE  /\ Pixels(first, next) \in Seq(Colours) /\ Len(Pixels(first, next)) = next - first
           /\ \A k \in 1..(next - first) : Pixels(first, next)[k] = led_strip_pixels[first + k - 1]
<1>1. next - first \in Nat /\ \A k \in 1..(next - first) : first + k - 1 \in Led
  BY Strip DEF Led
<1>2. \A k \in 1..(next - first) : led_strip_pixels[first + k - 1] \in Colours
  BY <1>1 DEF TypeOK
<1>3. Pixels(first, next) \in Seq(Colours)
  BY <1>1, <1>2, IsASeq DEF Pixels
<1>4. QED
  BY <1>1, <1>3, LenProperties DEF Pixels

(* What is on the wire when the array has been read up to next.             *)
LEMMA WireGrows ==
    ASSUME Inv, encoder.state = 0, NEW next \in 0..HBF_LED_COUNT, encoder.byte_index <= next
    PROVE  LET longer == wire \o Pixels(encoder.byte_index, next)
           IN  /\ longer \in Seq(Colours) /\ Len(longer) = next
               /\ \A i \in 1..Len(wire) : longer[i] = wire[i]
               /\ \A i \in (Len(wire) + 1)..next : longer[i] = led_strip_pixels[i - 1]
<1>1. PICK first \in 0..HBF_LED_COUNT : first = encoder.byte_index /\ first = Len(wire)
  BY DEF Inv, TypeOK, Encoded
<1>2. wire \in Seq(Colours) /\ TypeOK
  BY DEF Inv, TypeOK
<1>3. PICK pixels \in Seq(Colours) :
          /\ pixels = Pixels(first, next) /\ Len(pixels) = next - first
          /\ \A k \in 1..(next - first) : pixels[k] = led_strip_pixels[first + k - 1]
  BY <1>1, <1>2, SomePixels
<1>4. /\ wire \o pixels \in Seq(Colours) /\ Len(wire \o pixels) = Len(wire) + Len(pixels)
      /\ \A i \in 1..(Len(wire) + Len(pixels)) :
             (wire \o pixels)[i] = IF i <= Len(wire) THEN wire[i] ELSE pixels[i - Len(wire)]
  BY <1>2, ConcatProperties
<1>5. Len(wire) + Len(pixels) = next
  BY <1>1, <1>3, Strip
<1>6. \A i \in 1..Len(wire) : (wire \o pixels)[i] = wire[i]
  BY <1>1, <1>3, <1>4, Strip
<1>7. ASSUME NEW i \in (Len(wire) + 1)..next
      PROVE  (wire \o pixels)[i] = led_strip_pixels[i - 1]
  <2>1. i - first \in 1..(next - first) /\ ~(i <= Len(wire)) /\ first + (i - first) - 1 = i - 1
    BY <1>1, Strip
  <2>2. (wire \o pixels)[i] = pixels[i - first]
    BY <1>1, <1>3, <1>4, <1>5, <2>1, Strip
  <2>3. QED
    BY <1>3, <2>1, <2>2
<1>8. QED
  BY <1>1, <1>3, <1>4, <1>5, <1>6, <1>7

LEMMA InvEncodePixels ==
    ASSUME Inv, NEW room \in 1..mem_block_symbols, EncodePixels(room)
    PROVE  Inv'
<1>1. PICK next \in 1..HBF_LED_COUNT : next = encoder.byte_index + room /\ encoder.byte_index < next
  BY Strip, DriverAssumption DEF EncodePixels, Remain, Inv, TypeOK
<1>2. /\ encoder.state = 0 /\ wire' = wire \o Pixels(encoder.byte_index, next)
      /\ encoder' = IF next = HBF_LED_COUNT THEN [state |-> 1, byte_index |-> 0]
                                            ELSE [state |-> 0, byte_index |-> next]
      /\ transmissions > 0
      /\ UNCHANGED <<drawing, transmissions, strip, animation, task, calls>>
  BY <1>1 DEF EncodePixels
<1>3. /\ wire' \in Seq(Colours) /\ Len(wire') = next
      /\ \A i \in 1..Len(wire) : wire'[i] = wire[i]
      /\ \A i \in (Len(wire) + 1)..next : wire'[i] = led_strip_pixels[i - 1]
  <2>1. next \in 0..HBF_LED_COUNT /\ encoder.byte_index <= next
    BY <1>1, Strip DEF Inv, TypeOK
  <2>2. QED
    BY <1>2, <2>1, WireGrows
<1>4. Len(wire) \in Nat
  BY LenProperties DEF Inv, TypeOK
<1>5. TypeOK'
  <2>1. encoder' \in [state : 0..1, byte_index : 0..HBF_LED_COUNT]
    BY <1>1, <1>2, Strip
  <2>2. Len(wire') <= HBF_LED_COUNT
    BY <1>1, <1>3, Strip
  <2>3. QED
    BY <1>2, <1>3, <2>1, <2>2 DEF Inv, TypeOK, drawing, animation
<1>6. Placed'
  BY <1>2 DEF Inv, Placed, At
<1>7. Encoded'
  BY <1>1, <1>2, <1>3, Strip DEF Inv, TypeOK, Encoded
<1>8. Carried'
  BY <1>1, <1>2, <1>3, <1>4 DEF Inv, Carried, Quiet, drawing
<1>9. Undisturbed'
  BY <1>2 DEF Inv, Undisturbed, Drawing, At, drawing
<1>10. QED
  BY <1>5, <1>6, <1>7, <1>8, <1>9 DEF Inv

LEMMA InvEncodeReset ==
    ASSUME Inv, NEW room \in 1..mem_block_symbols, EncodeReset(room)
    PROVE  Inv'
<1>1. PICK sent \in Seq(Colours) :
          /\ strip' = sent /\ Len(sent) = HBF_LED_COUNT
          /\ \A i \in 1..Len(wire) : sent[i] = wire[i]
          /\ \A i \in (Len(wire) + 1)..HBF_LED_COUNT : sent[i] = led_strip_pixels[i - 1]
  <2>1. CASE encoder.state = 1
    <3>1. Len(wire) = HBF_LED_COUNT /\ wire \in Seq(Colours)
      BY <2>1 DEF Inv, Encoded, TypeOK
    <3>2. strip' = wire
      BY <2>1, <3>1, ConcatEmptySeq DEF EncodeReset
    <3>3. QED
      BY <3>1, <3>2, Strip
  <2>2. CASE encoder.state = 0
    <3>1. strip' = wire \o Pixels(encoder.byte_index, HBF_LED_COUNT)
      BY <2>2 DEF EncodeReset
    <3>2. encoder.byte_index <= HBF_LED_COUNT /\ HBF_LED_COUNT \in 0..HBF_LED_COUNT
      BY <2>2, Strip DEF Inv, TypeOK
    <3>3. QED
      BY <2>2, <3>1, <3>2, WireGrows
  <2>3. encoder.state = 0 \/ encoder.state = 1
    BY DEF Inv, TypeOK
  <2>4. QED
    BY <2>1, <2>2, <2>3
<1>2. /\ transmissions > 0 /\ transmissions' = transmissions - 1
      /\ wire' = <<>> /\ encoder' = [state |-> 0, byte_index |-> 0]
      /\ UNCHANGED <<drawing, animation, task, calls>>
  BY DEF EncodeReset
<1>3. strip' \in [1..HBF_LED_COUNT -> Colours]
  BY <1>1, Strip
<1>4. Len(wire') = 0 /\ wire' \in Seq(Colours)
  BY <1>2, EmptySeq
<1>5. TypeOK'
  <2>1. transmissions' \in 0..trans_queue_depth
    BY <1>2, DriverAssumption DEF Inv, TypeOK
  <2>2. encoder' \in [state : 0..1, byte_index : 0..HBF_LED_COUNT] /\ Len(wire') <= HBF_LED_COUNT
    BY <1>2, <1>4, Strip
  <2>3. QED
    BY <1>2, <1>3, <1>4, <2>1, <2>2 DEF Inv, TypeOK, drawing, animation
<1>6. Placed'
  BY <1>2 DEF Inv, Placed, At
<1>7. Encoded'
  BY <1>2, <1>4, Strip DEF Encoded
<1>8. Carried'
  <2>1. SUFFICES ASSUME Quiet', transmissions' = 0
                 PROVE  \A i \in 1..HBF_LED_COUNT : strip'[i] = led_strip_pixels'[i - 1]
    BY <1>4 DEF Carried
  <2>2. Quiet /\ transmissions = 1
    BY <1>2, <2>1 DEF Quiet, Inv, TypeOK
  <2>3. \A i \in 1..Len(wire) : wire[i] = led_strip_pixels[i - 1]
    BY <2>2 DEF Inv, Carried
  <2>4. Len(wire) \in Nat /\ Len(wire) <= HBF_LED_COUNT
    BY LenProperties DEF Inv, TypeOK
  <2>5. QED
    BY <1>1, <1>2, <2>3, <2>4, Strip DEF drawing
<1>9. Undisturbed'
  BY <1>2 DEF Inv, Undisturbed, Drawing, At, drawing
<1>10. QED
  BY <1>5, <1>6, <1>7, <1>8, <1>9 DEF Inv

-----------------------------------------------------------------------------
(* The tasks.  A step within a call that neither draws nor transmits.       *)
LEMMA InvMove ==
    ASSUME Inv, NEW t \in Task, NEW activity \in Activity, Set(t, activity),
           task[t].pc \notin {"draw", "transmit"},
           activity.pc # "transmit", activity.led_no = 0,
           activity.pc \in {"stop", "give"} => activity.stops > 0,
           UNCHANGED <<drawing, transmissions, driver>>,
           animation_sema' \in 0..SemaLimit, animation_running' \in BOOLEAN,
           animation_type' \in Type, index' \in Nat, calls' \in 0..MaxCalls
    PROVE  Inv'
<1>1. /\ task' \in [Task -> Activity] /\ task'[t] = activity
      /\ \A u \in Task \ {t} : task'[u] = task[u]
  BY Moves DEF Inv
<1>2. TypeOK'
  BY <1>1 DEF Inv, TypeOK, drawing, driver
<1>3. Placed'
  <2>1. \A u \in Task \ {t} :
            /\ At(u, "draw")' => task'[u].led_no < HBF_LED_COUNT
            /\ At(u, "transmit")' => task'[u].led_no = HBF_LED_COUNT
            /\ task'[u].pc \notin {"draw", "transmit"} => task'[u].led_no = 0
            /\ task'[u].pc \in {"stop", "give"} => task'[u].stops > 0
    BY <1>1 DEF Inv, Placed, At
  <2>2. QED
    BY <1>1, <2>1, Strip DEF Placed, At
<1>4. Encoded'
  BY DEF Inv, Encoded, driver
<1>5. Quiet' => Quiet
  BY <1>1 DEF Quiet
<1>6. Carried'
  BY <1>5 DEF Inv, Carried, driver, drawing
<1>7. Drawing' = Drawing /\ t \notin Drawing
  BY <1>1 DEF Drawing, At
<1>8. \A u \in Drawing : task'[u] = task[u]
  BY <1>1, <1>7 DEF Drawing
<1>9. Undisturbed'
  BY <1>7, <1>8 DEF Inv, Undisturbed, drawing
<1>10. QED
  BY <1>2, <1>3, <1>4, <1>6, <1>9 DEF Inv

LEMMA Moving ==
    ASSUME Inv, NEW t \in Task, task[t].pc \notin {"draw", "transmit"}, NEW pc \in Where
    PROVE  /\ [task[t] EXCEPT !.pc = pc] \in Activity
           /\ [task[t] EXCEPT !.pc = pc].pc = pc
           /\ [task[t] EXCEPT !.pc = pc].led_no = 0
           /\ [task[t] EXCEPT !.pc = pc].stops = task[t].stops
BY DEF Inv, TypeOK, Activity, Placed

LEMMA StopsLeft ==
    ASSUME Inv, NEW t \in Task, task[t].pc \in {"stop", "give"}
    PROVE  LET after == AfterStops(t, task[t].stops - 1)
           IN  /\ after \in Activity /\ after.pc \in {"stop", "type", "draw"} /\ after.led_no = 0
               /\ after.pc = "stop" => after.stops > 0
<1>1. task[t] \in Activity /\ task[t].led_no = 0
  BY DEF Inv, TypeOK, Placed
<1>2. PICK stops \in 0..2 : stops = task[t].stops - 1
  BY <1>1 DEF Inv, Placed, Activity
<1>3. ASSUME NEW pc \in Where
      PROVE  /\ [task[t] EXCEPT !.pc = pc, !.stops = stops] \in Activity
             /\ [task[t] EXCEPT !.pc = pc, !.stops = stops].pc = pc
             /\ [task[t] EXCEPT !.pc = pc, !.stops = stops].led_no = 0
             /\ [task[t] EXCEPT !.pc = pc, !.stops = stops].stops = stops
  BY <1>1 DEF Activity
<1>4. PICK pc \in {"stop", "type", "draw"} :
          /\ AfterStops(t, stops) = [task[t] EXCEPT !.pc = pc, !.stops = stops]
          /\ pc = "stop" => stops > 0
  <2>1. CASE stops > 0
    BY <2>1 DEF AfterStops
  <2>2. CASE stops = 0 /\ task[t].call.then = "start"
    BY <2>2 DEF AfterStops
  <2>3. CASE stops = 0 /\ task[t].call.then # "start"
    BY <2>3 DEF AfterStops
  <2>4. QED
    BY <2>1, <2>2, <2>3
<1>5. pc \in Where
  BY DEF Where
<1>6. QED
  BY <1>2, <1>3, <1>4, <1>5

LEMMA SignalsLimited == ASSUME NEW n \in 0..SemaLimit PROVE xSemaphoreGive(n) \in 0..SemaLimit
BY AnimationAssumption DEF xSemaphoreGive

LEMMA InvBegin == ASSUME Inv, NEW t \in Caller, Begin(t) PROVE Inv'
<1>1. /\ t \in Task /\ At(t, "idle") /\ calls < MaxCalls /\ calls' = calls + 1
      /\ UNCHANGED <<drawing, transmissions, driver, animation>>
  BY DEF Begin, Task
<1>2. PICK call \in Calls[t] :
          Set(t, [task[t] EXCEPT !.pc = "stop", !.call = call, !.stops = call.stops])
  BY DEF Begin
<1>3. call \in Call /\ call.stops > 0 /\ call.stops \in 0..2
  BY CallsAssumption DEF Call
<1>4. task[t] \in Activity /\ task[t].led_no = 0
  BY <1>1 DEF Inv, TypeOK, Placed, At
<1>5. PICK activity : activity = [task[t] EXCEPT !.pc = "stop", !.call = call, !.stops = call.stops]
  OBVIOUS
<1>6. /\ activity \in Activity /\ activity.pc = "stop"
      /\ activity.led_no = 0 /\ activity.stops > 0
  BY <1>3, <1>4, <1>5 DEF Activity, Where
<1>7. /\ animation_sema' \in 0..SemaLimit /\ animation_running' \in BOOLEAN
      /\ animation_type' \in Type /\ index' \in Nat /\ calls' \in 0..MaxCalls
  BY <1>1, MaxCallsAssumption DEF Inv, TypeOK, animation
<1>8. QED
  BY <1>1, <1>2, <1>5, <1>6, <1>7, InvMove DEF At

(* Stopping and starting an animation.                                      *)
LEMMA InvSignal ==
    ASSUME Inv, NEW t \in Task, Stop(t) \/ Give(t) \/ SetType(t) \/ Start(t)
    PROVE  Inv'
<1>1. /\ task[t].pc \notin {"draw", "transmit"} /\ task[t] \in Activity
      /\ UNCHANGED <<drawing, transmissions, driver, animation_running, index, calls>>
  BY DEF Inv, TypeOK, Stop, Give, SetType, Start, At, animation
<1>2. /\ animation_running' \in BOOLEAN /\ index' \in Nat /\ calls' \in 0..MaxCalls
      /\ animation_sema' \in 0..SemaLimit /\ animation_type' \in Type
  BY <1>1, SignalsLimited DEF Inv, TypeOK, Stop, Give, SetType, Start, animation, Activity, Call
<1>3. PICK activity \in Activity :
          /\ Set(t, activity) /\ activity.pc # "transmit" /\ activity.led_no = 0
          /\ activity.pc \in {"stop", "give"} => activity.stops > 0
  <2>1. CASE Stop(t) /\ animation_running
    <3>1. Set(t, [task[t] EXCEPT !.pc = "give"]) /\ task[t].stops > 0 /\ "give" \in Where
      BY <2>1 DEF Stop, Goto, Inv, Placed, At, Where
    <3>2. PICK given \in Activity :
              /\ given = [task[t] EXCEPT !.pc = "give"]
              /\ given.pc = "give" /\ given.led_no = 0 /\ given.stops = task[t].stops
      BY <1>1, <3>1, Moving
    <3>3. Set(t, given) /\ given.pc # "transmit" /\ given.stops > 0
      BY <3>1, <3>2
    <3>4. QED
      BY <3>2, <3>3
  <2>2. CASE (Stop(t) /\ ~animation_running) \/ Give(t)
    <3>1. Set(t, AfterStops(t, task[t].stops - 1)) /\ task[t].pc \in {"stop", "give"}
      BY <2>2 DEF Stop, Give, At
    <3>2. QED
      BY <3>1, StopsLeft
  <2>3. CASE SetType(t)
    <3>1. Set(t, [task[t] EXCEPT !.pc = "go"]) /\ "go" \in Where
      BY <2>3 DEF SetType, Goto, Where
    <3>2. PICK going \in Activity :
              /\ going = [task[t] EXCEPT !.pc = "go"] /\ going.pc = "go" /\ going.led_no = 0
      BY <1>1, <3>1, Moving
    <3>3. Set(t, going) /\ going.pc \notin {"transmit", "stop", "give"}
      BY <3>1, <3>2
    <3>4. QED
      BY <3>2, <3>3
  <2>4. CASE Start(t)
    BY <2>4, RestingIsActivity DEF Start
  <2>5. QED
    BY <2>1, <2>2, <2>3, <2>4
<1>4. QED
  BY <1>1, <1>2, <1>3, InvMove

(* The animation task between its frames.                                   *)
LEMMA InvAnimation ==
    ASSUME Inv, Idles \/ Signalled \/ Starts \/ Stopped \/ Animate \/ Drawn
    PROVE  Inv'
<1>1. /\ "animation" \in Task /\ task["animation"].pc \notin {"draw", "transmit"}
      /\ UNCHANGED <<drawing, transmissions, driver, animation_type, calls>>
  BY DEF Task, Idles, Signalled, Starts, Stopped, Animate, Drawn, At, animation
<1>2. NextIndex(index) \in Nat
  BY Strip, AnimationAssumption DEF Inv, TypeOK, NextIndex
<1>3. /\ animation_running' \in BOOLEAN /\ index' \in Nat /\ calls' \in 0..MaxCalls
      /\ animation_sema' \in 0..SemaLimit /\ animation_type' \in Type
  <2>1. animation_running' \in {TRUE, FALSE, animation_running} /\ index' \in {0, index, NextIndex(index)}
    BY Zenon DEF Idles, Signalled, Starts, Stopped, Animate, Drawn, animation
  <2>2. animation_sema' \in 0..SemaLimit
    BY SignalsLimited, AnimationAssumption
       DEF Inv, TypeOK, Idles, Signalled, Starts, Stopped, Animate, Drawn, animation
  <2>3. QED
    <3>1. animation_running \in BOOLEAN
      BY DEF Inv, TypeOK
    <3>2. animation_running' \in BOOLEAN
      BY <2>1, <3>1, Zenon
    <3>3. index' \in Nat /\ calls' \in 0..MaxCalls /\ animation_type' \in Type
      BY <1>1, <1>2, <2>1 DEF Inv, TypeOK
    <3>4. QED
      BY <2>2, <3>2, <3>3
<1>4. PICK activity \in Activity :
          /\ Set("animation", activity) /\ activity.pc \notin {"transmit", "stop", "give"}
          /\ activity.led_no = 0
  <2>1. CASE Idles \/ Signalled \/ Starts \/ Stopped
    <3>1. PICK pc \in {"wait", "started", "poll", "top"} : Goes(pc)
      BY <2>1 DEF Idles, Signalled, Starts, Stopped
    <3>2. Set("animation", [task["animation"] EXCEPT !.pc = pc]) /\ pc \in Where
      BY <3>1 DEF Goes, Goto, Where
    <3>3. QED
      BY <1>1, <3>1, <3>2, Moving
  <2>2. CASE Animate
    <3>1. Frame \in Call
      BY FrameIsCall DEF Inv, TypeOK
    <3>2. PICK frame \in Call : frame = Frame
      BY <3>1
    <3>3. [Resting EXCEPT !.pc = "draw", !.call = frame] \in Activity
          /\ [Resting EXCEPT !.pc = "draw", !.call = frame].pc = "draw"
          /\ [Resting EXCEPT !.pc = "draw", !.call = frame].led_no = 0
      BY RestingIsActivity DEF Activity, Where
    <3>4. QED
      BY <2>2, <3>2, <3>3 DEF Animate
  <2>3. CASE Drawn
    <3>1. [Resting EXCEPT !.pc = "poll"] \in Activity
          /\ [Resting EXCEPT !.pc = "poll"].pc = "poll"
          /\ [Resting EXCEPT !.pc = "poll"].led_no = 0
      BY RestingIsActivity DEF Activity, Where
    <3>2. QED
      BY <2>3, <3>1 DEF Drawn
  <2>4. QED
    BY <2>1, <2>2, <2>3
<1>5. QED
  BY <1>1, <1>3, <1>4, InvMove

-----------------------------------------------------------------------------
(* What a task does after the pixels below led_no.                          *)
LEMMA Resumes ==
    ASSUME Inv, NEW t \in Task, NEW led_no \in 1..HBF_LED_COUNT
    PROVE  /\ Resumed(t, led_no) \in Activity
           /\ led_no < HBF_LED_COUNT =>
                 /\ Resumed(t, led_no).pc = "draw" /\ Resumed(t, led_no).led_no = led_no
                 /\ Resumed(t, led_no).call = task[t].call
           /\ led_no = HBF_LED_COUNT =>
                 Resumed(t, led_no).pc \in {"drawn", "idle"} /\ Resumed(t, led_no).led_no = 0
<1>1. task[t] \in Activity /\ {"draw", "drawn"} \subseteq Where
      /\ 0 \in 0..HBF_LED_COUNT /\ led_no \in 0..HBF_LED_COUNT
  BY Strip DEF Inv, TypeOK, Where
<1>2. CASE led_no < HBF_LED_COUNT
  <2>1. PICK moved : moved = Resumed(t, led_no)
    OBVIOUS
  <2>2. moved = [task[t] EXCEPT !.pc = "draw", !.led_no = led_no]
    BY <1>2, <2>1 DEF Resumed
  <2>3. moved \in Activity /\ moved.pc = "draw" /\ moved.led_no = led_no /\ moved.call = task[t].call
    BY <1>1, <2>2 DEF Activity
  <2>4. led_no # HBF_LED_COUNT
    BY <1>2, Strip
  <2>5. QED
    BY <2>1, <2>3, <2>4
<1>3. CASE led_no = HBF_LED_COUNT
  <2>1. PICK moved : moved = Resumed(t, led_no)
    OBVIOUS
  <2>2. moved = Resting \/ moved = [task[t] EXCEPT !.pc = "drawn", !.led_no = 0]
    BY <1>3, <2>1, Strip DEF Resumed
  <2>3. moved \in Activity /\ moved.led_no = 0 /\ moved.pc \in {"drawn", "idle"}
    <3>1. CASE moved = Resting
      BY <3>1, RestingIsActivity
    <3>2. CASE moved = [task[t] EXCEPT !.pc = "drawn", !.led_no = 0]
      BY <1>1, <3>2 DEF Activity
    <3>3. QED
      BY <2>2, <3>1, <3>2
  <2>4. ~(led_no < HBF_LED_COUNT)
    BY <1>3, Strip
  <2>5. QED
    BY <2>1, <2>3, <2>4
<1>4. QED
  BY <1>2, <1>3, Strip

LEMMA InvTransmit == ASSUME Inv, NEW t \in Task, Transmit(t) PROVE Inv'
<1>1. /\ task[t].pc = "transmit" /\ task[t].led_no = HBF_LED_COUNT
      /\ transmissions < trans_queue_depth /\ transmissions' = transmissions + 1
      /\ UNCHANGED <<drawing, driver, animation, calls>>
  BY DEF Inv, Placed, Transmit, At
<1>2. PICK activity \in Activity :
          Set(t, activity) /\ activity.pc \in {"drawn", "idle"} /\ activity.led_no = 0
  <2>1. HBF_LED_COUNT \in 1..HBF_LED_COUNT
    BY Strip
  <2>2. Set(t, Resumed(t, HBF_LED_COUNT))
    BY <1>1 DEF Transmit
  <2>3. QED
    BY <2>1, <2>2, Resumes
<1>3. /\ task' \in [Task -> Activity] /\ task'[t] = activity
      /\ \A u \in Task \ {t} : task'[u] = task[u]
  BY <1>2, Moves DEF Inv
<1>4. TypeOK'
  BY <1>1, <1>3, DriverAssumption DEF Inv, TypeOK, drawing, driver, animation
<1>5. Placed'
  <2>1. \A u \in Task \ {t} :
            /\ At(u, "draw")' => task'[u].led_no < HBF_LED_COUNT
            /\ At(u, "transmit")' => task'[u].led_no = HBF_LED_COUNT
            /\ task'[u].pc \notin {"draw", "transmit"} => task'[u].led_no = 0
            /\ task'[u].pc \in {"stop", "give"} => task'[u].stops > 0
    BY <1>3 DEF Inv, Placed, At
  <2>2. QED
    BY <1>2, <1>3, <2>1 DEF Placed, At
<1>6. Encoded'
  BY <1>1 DEF Inv, TypeOK, Encoded, driver
<1>7. Carried'
  <2>1. transmissions' = 1 => Len(wire') = 0
    BY <1>1 DEF Inv, TypeOK, Encoded, driver
  <2>2. transmissions' # 0
    BY <1>1 DEF Inv, TypeOK
  <2>3. QED
    BY <2>1, <2>2 DEF Carried
<1>8. Drawing' = Drawing /\ t \notin Drawing
  BY <1>1, <1>2, <1>3 DEF Drawing, At
<1>9. \A u \in Drawing : task'[u] = task[u]
  BY <1>3, <1>8 DEF Drawing
<1>10. Undisturbed'
  BY <1>1, <1>8, <1>9 DEF Inv, Undisturbed, drawing
<1>11. QED
  BY <1>4, <1>5, <1>6, <1>7, <1>10 DEF Inv

LEMMA PixelOfPicture ==
    ASSUME NEW call, NEW i \in Led PROVE Picture(call)[i] = PixelOf(call, i)
BY DEF Picture, PixelOf

(* One pixel more.                                                          *)
LEMMA DrawsOne ==
    ASSUME Inv, NEW t \in Task, Draw(t)
    PROVE  \E next \in 1..HBF_LED_COUNT, activity \in Activity :
               /\ next = task[t].led_no + 1 /\ task[t].pc = "draw"
               /\ led_strip_pixels' =
                      [led_strip_pixels EXCEPT ![next - 1] = PixelOf(task[t].call, next - 1)]
               /\ Set(t, activity) /\ activity.led_no = next /\ activity.call = task[t].call
               /\ activity.pc = (IF next = HBF_LED_COUNT THEN "transmit" ELSE "draw")
<1>1. task[t] \in Activity /\ task[t].pc = "draw" /\ task[t].led_no < HBF_LED_COUNT
  BY DEF Inv, TypeOK, Placed, Draw, At
<1>2. PICK next \in 1..HBF_LED_COUNT : next = task[t].led_no + 1
  BY <1>1, Strip DEF Activity
<1>3. led_strip_pixels' = [led_strip_pixels EXCEPT ![next - 1] = PixelOf(task[t].call, next - 1)]
  BY <1>2 DEF Draw
<1>4. CASE next = HBF_LED_COUNT
  <2>1. EndsAt(task[t].call, next) /\ Transmits(task[t].call, next)
    BY <1>4 DEF EndsAt, Transmits
  <2>2. PICK moved : moved = [task[t] EXCEPT !.pc = "transmit", !.led_no = next]
    OBVIOUS
  <2>3. Set(t, moved)
    BY <1>2, <2>1, <2>2 DEF Draw
  <2>4. moved \in Activity /\ moved.pc = "transmit" /\ moved.led_no = next /\ moved.call = task[t].call
    <3>1. "transmit" \in Where /\ next \in 0..HBF_LED_COUNT
      BY Strip DEF Where
    <3>2. QED
      BY <1>1, <2>2, <3>1 DEF Activity
  <2>5. QED
    BY <1>1, <1>2, <1>3, <1>4, <2>3, <2>4
<1>5. CASE next # HBF_LED_COUNT
  <2>1. ~(EndsAt(task[t].call, next) /\ Transmits(task[t].call, next))
    BY <1>5 DEF EndsAt, Transmits
  <2>2. Set(t, Resumed(t, next))
    BY <1>2, <2>1 DEF Draw
  <2>3. next < HBF_LED_COUNT
    BY <1>5, Strip
  <2>4. QED
    BY <1>1, <1>2, <1>3, <1>5, <2>2, <2>3, Resumes
<1>6. QED
  BY <1>4, <1>5

LEMMA InvDraw == ASSUME Inv, NEW t \in Task, Draw(t) PROVE Inv'
<1>1. PICK next \in 1..HBF_LED_COUNT, activity \in Activity :
          /\ next = task[t].led_no + 1 /\ task[t].pc = "draw"
          /\ led_strip_pixels' =
                 [led_strip_pixels EXCEPT ![next - 1] = PixelOf(task[t].call, next - 1)]
          /\ Set(t, activity) /\ activity.led_no = next /\ activity.call = task[t].call
          /\ activity.pc = (IF next = HBF_LED_COUNT THEN "transmit" ELSE "draw")
  BY DrawsOne
<1>2. /\ task' \in [Task -> Activity] /\ task'[t] = activity
      /\ \A u \in Task \ {t} : task'[u] = task[u]
  BY <1>1, Moves DEF Inv
<1>3. UNCHANGED <<transmissions, driver, animation, calls>>
  BY DEF Draw
<1>4. task[t] \in Activity /\ task[t].call \in Call /\ task[t].led_no = next - 1
      /\ next - 1 \in Led /\ led_strip_pixels \in [Led -> Colours]
  BY <1>1, Strip DEF Inv, TypeOK, Activity, Led
<1>5. PICK drawn \in Led : drawn = next - 1
  BY <1>4
<1>6. /\ led_strip_pixels' \in [Led -> Colours]
      /\ led_strip_pixels'[drawn] = PixelOf(task[t].call, drawn)
      /\ \A i \in Led : i # drawn => led_strip_pixels'[i] = led_strip_pixels[i]
  <2>1. PixelOf(task[t].call, drawn) \in Colours
    BY <1>4, <1>5, ColourOfPixel DEF Led
  <2>2. QED
    BY <1>1, <1>4, <1>5, <2>1
<1>7. /\ last' = IF next = HBF_LED_COUNT
                 THEN [call |-> task[t].call, alone |-> t \notin Overlapped(t)] ELSE last
      /\ overlapped' = IF next = HBF_LED_COUNT THEN Overlapped(t) \ {t} ELSE Overlapped(t)
  BY <1>1 DEF Draw
<1>8. TypeOK'
  <2>1. overlapped' \subseteq Task
    BY <1>7 DEF Overlapped, Others, Drawing, Inv, TypeOK
  <2>2. last' \in [call : Call, alone : BOOLEAN]
    <3>1. last \in [call : Call, alone : BOOLEAN]
      BY DEF Inv, TypeOK
    <3>2. (t \notin Overlapped(t)) \in BOOLEAN
      OBVIOUS
    <3>3. QED
      BY <1>4, <1>7, <3>1, <3>2
  <2>3. QED
    BY <1>2, <1>3, <1>6, <2>1, <2>2 DEF Inv, TypeOK, driver, animation
<1>9. Placed'
  <2>1. \A u \in Task \ {t} :
            /\ At(u, "draw")' => task'[u].led_no < HBF_LED_COUNT
            /\ At(u, "transmit")' => task'[u].led_no = HBF_LED_COUNT
            /\ task'[u].pc \notin {"draw", "transmit"} => task'[u].led_no = 0
            /\ task'[u].pc \in {"stop", "give"} => task'[u].stops > 0
    BY <1>2 DEF Inv, Placed, At
  <2>2. /\ At(t, "draw")' => task'[t].led_no < HBF_LED_COUNT
        /\ At(t, "transmit")' => task'[t].led_no = HBF_LED_COUNT
        /\ task'[t].pc \in {"draw", "transmit"}
    BY <1>1, <1>2, Strip DEF At
  <2>3. QED
    BY <2>1, <2>2 DEF Placed
<1>10. Encoded'
  BY <1>3 DEF Inv, Encoded, driver
<1>11. Carried'
  <2>1. ~Quiet'
    BY <1>1, <1>2 DEF Quiet
  <2>2. QED
    BY <2>1 DEF Carried
<1>12. ASSUME t \notin Overlapped(t)
       PROVE  Others(t) = {} /\ \A i \in Led : i < next => led_strip_pixels'[i] = Picture(task[t].call)[i]
  <2>1. t \notin overlapped /\ Others(t) = {}
    BY <1>12 DEF Overlapped
  <2>2. \A i \in Led : i < next - 1 => led_strip_pixels[i] = Picture(task[t].call)[i]
    <3>1. CASE next = 1
      BY <3>1 DEF Led
    <3>2. CASE next # 1
      <4>1. t \in Drawing
        <5>1. task[t].led_no > 0
          BY <1>4, <3>2
        <5>2. QED
          BY <1>1, <5>1 DEF Drawing, At
      <4>2. QED
        BY <1>4, <2>1, <4>1 DEF Inv, Undisturbed
    <3>3. QED
      BY <3>1, <3>2
  <2>3. \A i \in Led : i < next => i = drawn \/ (i < next - 1 /\ i # drawn)
    BY <1>4, <1>5 DEF Led
  <2>4. QED
    BY <1>4, <1>5, <1>6, <2>1, <2>2, <2>3, PixelOfPicture
<1>13. CASE next = HBF_LED_COUNT
  <2>1. Drawing' = Others(t)
    BY <1>1, <1>2, <1>13 DEF Drawing, Others, At
  <2>2. Others(t) \subseteq overlapped'
    BY <1>7, <1>13 DEF Overlapped, Others
  <2>3. last'.alone => \A i \in Led : led_strip_pixels'[i] = Picture(last'.call)[i]
    <3>1. \A i \in Led : i < next
      BY <1>13, Strip DEF Led
    <3>2. last' = [call |-> task[t].call, alone |-> t \notin Overlapped(t)]
      BY <1>7, <1>13
    <3>3. last'.alone => t \notin Overlapped(t)
      BY <3>2
    <3>4. last'.call = task[t].call
      BY <3>2
    <3>5. QED
      BY <1>12, <3>1, <3>3, <3>4
  <2>4. last'.alone => led_strip_pixels' = Picture(last'.call)
    BY <1>6, <2>3 DEF Picture
  <2>5. QED
    BY <1>8, <1>9, <1>10, <1>11, <2>1, <2>2, <2>4 DEF Inv, Undisturbed
<1>14. CASE next # HBF_LED_COUNT
  <2>1. Drawing' = Others(t) \cup {t}
    BY <1>1, <1>2, <1>14 DEF Drawing, Others, At
  <2>2. overlapped' = Overlapped(t) /\ Others(t) \subseteq overlapped'
    BY <1>7, <1>14 DEF Overlapped, Others
  <2>3. t \notin overlapped' =>
            /\ Drawing' = {t}
            /\ \A i \in Led : i < task'[t].led_no => led_strip_pixels'[i] = Picture(task'[t].call)[i]
    BY <1>1, <1>2, <1>12, <2>1, <2>2
  <2>4. Undisturbed'
    BY <2>1, <2>2, <2>3 DEF Undisturbed
  <2>5. QED
    BY <1>8, <1>9, <1>10, <1>11, <2>4 DEF Inv
<1>15. QED
  BY <1>13, <1>14

-----------------------------------------------------------------------------
LEMMA InvStep == Inv /\ [Next]_vars => Inv'
<1> SUFFICES ASSUME Inv, [Next]_vars PROVE Inv'
    OBVIOUS
<1>1. ASSUME NEW t \in Caller, Begin(t) PROVE Inv'
  BY <1>1, InvBegin
<1>2. ASSUME NEW t \in Task, CallStep(t) PROVE Inv'
  BY <1>2, InvSignal, InvDraw, InvTransmit DEF CallStep
<1>3. CASE Animation
  <2>1. "animation" \in Task
    BY DEF Task
  <2>2. QED
    BY <1>3, <2>1, InvAnimation, InvDraw, InvTransmit DEF Animation
<1>4. CASE Encode
  BY <1>4, InvEncodePixels, InvEncodeReset DEF Encode
<1>5. CASE UNCHANGED vars
  <2>1. UNCHANGED <<drawing, transmissions, driver, animation, task, calls>>
    BY <1>5 DEF vars
  <2>2. TypeOK' /\ Placed' /\ Encoded'
    BY <2>1 DEF Inv, TypeOK, Placed, Encoded, At, drawing, driver, animation
  <2>3. Carried'
    BY <2>1 DEF Inv, Carried, Quiet, drawing, driver
  <2>4. Undisturbed'
    BY <2>1 DEF Inv, Undisturbed, Drawing, At, drawing
  <2>5. QED
    BY <2>2, <2>3, <2>4 DEF Inv
<1>6. QED
  BY <1>1, <1>2, <1>3, <1>4, <1>5 DEF Next, AtRest

LEMMA AlwaysInv == Spec => []Inv
BY InvInit, InvStep, PTL DEF Spec

(* The array, the encoder and the calls of the tasks keep within their      *)
(* ranges: no pixel is written or read beyond the strip.                    *)
THEOREM LedTypeCorrect == Spec => []TypeOK
<1>1. Inv => TypeOK
  BY DEF Inv
<1>2. QED
  BY <1>1, AlwaysInv, PTL

LEMMA StripIsArray ==
    ASSUME Inv, Quiet, transmissions = 0
    PROVE  \A i \in 1..HBF_LED_COUNT : strip[i] = led_strip_pixels[i - 1]
BY DEF Inv, Carried

(* Once no task draws and the driver has sent what was queued, the LEDs     *)
(* show exactly what the array holds, although tasks write the array while  *)
(* it is sent.                                                              *)
THEOREM LedShown == Spec => []ShownIsStored
<1>1. Inv => ShownIsStored
  <2>1. SUFFICES ASSUME Inv, Quiet, transmissions = 0
                 PROVE  strip = [i \in 1..HBF_LED_COUNT |-> led_strip_pixels[i - 1]]
    BY DEF ShownIsStored
  <2>2. strip \in [1..HBF_LED_COUNT -> Colours]
    BY <2>1 DEF Inv, TypeOK
  <2>3. QED
    BY <2>1, <2>2, StripIsArray
<1>2. QED
  BY <1>1, AlwaysInv, PTL

(* A call that drew alone and last is what the LEDs come to show, whatever  *)
(* was drawn or on its way when it began.                                   *)
THEOREM LedLoneCall == Spec => []LoneCallShown
<1>1. Inv => LoneCallShown
  <2>1. SUFFICES ASSUME Inv, Quiet, transmissions = 0, last.alone, NEW i \in 1..HBF_LED_COUNT
                 PROVE  strip[i] = Picture(last.call)[i - 1]
    BY DEF LoneCallShown
  <2>2. Drawing = {}
    BY <2>1 DEF Quiet, Drawing, At
  <2>3. led_strip_pixels = Picture(last.call)
    BY <2>1, <2>2 DEF Inv, Undisturbed
  <2>4. QED
    BY <2>1, <2>3, StripIsArray
<1>2. QED
  BY <1>1, AlwaysInv, PTL
=============================================================================
