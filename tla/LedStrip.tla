------------------------------ MODULE LedStrip ------------------------------
(***************************************************************************)
(* The LED strip of the element: src/main/hbf_led_strip.c, which keeps the *)
(* pixels in one array that several tasks fill without a lock, the         *)
(* animation task with its counting semaphore, and the encoder of          *)
(* src/main/led_strip_encoder.c, which the RMT driver calls piece by piece *)
(* while it sends.  A transmission carries a pointer to the array and not  *)
(* a copy: what it sends is what the array holds when a piece is encoded.  *)
(*                                                                         *)
(* A pixel is one cell here; its three bytes are written and sent in the   *)
(* same order and by the same loops.                                       *)
(***************************************************************************)
EXTENDS Integers, Sequences

CONSTANTS
    HBF_LED_COUNT,        \* 18
    Half,                 \* 9, where the second half of a path's lights begins
    trans_queue_depth,    \* 4
    mem_block_symbols,    \* 64, a pixel needs 24 of them; here in pixels
    SemaLimit,            \* 10, the limit of animation_sema
    FlashLength,          \* 10, after which a flash stops itself
    Colours,              \* the colours that callers ask for
    Calls,                \* the calls that each caller makes
    MaxCalls              \* bound on the calls of one behaviour

Led == 0..(HBF_LED_COUNT - 1)

ASSUME StripAssumption == HBF_LED_COUNT \in Nat /\ Half \in 1..(HBF_LED_COUNT - 1)
ASSUME DriverAssumption == trans_queue_depth \in Nat \ {0} /\ mem_block_symbols \in Nat \ {0}
ASSUME AnimationAssumption == SemaLimit \in Nat \ {0} /\ FlashLength \in Nat
ASSUME ColoursAssumption == {"off", "red", "green", "blue", "bright_green"} \subseteq Colours
ASSUME MaxCallsAssumption == MaxCalls \in Nat

Caller == {"trigger", "ws"}
Task   == Caller \cup {"main", "animation"}
Type   == {"LSA_RUNNING_BLUE", "LSA_FLASHING_GREEN"}

(* A call: how often it first stops an animation, and whether it then draws *)
(* one colour, or one for each half, or starts an animation.                *)
Call == [stops : 0..2, then : {"same", "halves", "start"},
         rgb : Colours, second : Colours, count : Int, type : Type]

ASSUME CallsAssumption ==
    \A t \in Caller : Calls[t] \subseteq Call /\ \A call \in Calls[t] : call.stops > 0

VARIABLES
    led_strip_pixels,
    transmissions,         \* transactions queued in the driver, the one it sends included
    encoder,               \* rmt_led_strip_encoder_t and the position of its bytes encoder
    wire,                  \* the pixels sent since the last reset code
    strip,                 \* the pixels that the LEDs show
    animation_sema, animation_running, animation_type,
    index,                 \* of the animation task, 0 outside its loop
    task,                  \* where each task is in its call
    calls,                 \* number of calls so far
    overlapped,            \* history: tasks that draw and did not draw alone
    last                   \* history: the last call to draw, and whether it drew alone

drawing   == <<led_strip_pixels, overlapped, last>>
driver    == <<encoder, wire, strip>>
animation == <<animation_sema, animation_running, animation_type, index>>
vars      == <<drawing, transmissions, driver, animation, task, calls>>

-----------------------------------------------------------------------------
(* The calls of hbf_led_strip.h.                                            *)

NoCall == [stops |-> 0, then |-> "same", rgb |-> "off", second |-> "off", count |-> 0,
           type |-> "LSA_RUNNING_BLUE"]

hbf_led_strip_rgb(rgb, count) ==
    [NoCall EXCEPT !.stops = 1, !.rgb = rgb, !.count = count]
hbf_led_strip_red   == hbf_led_strip_rgb("red", HBF_LED_COUNT)
hbf_led_strip_green == hbf_led_strip_rgb("green", HBF_LED_COUNT)
hbf_led_strip_off   == hbf_led_strip_rgb("off", HBF_LED_COUNT)

(* The lights of a set that is not silent (trigger.c).  Without a path the  *)
(* animation is stopped twice.                                              *)
PathLights(first, second) ==
    [NoCall EXCEPT !.stops = 1, !.then = "halves", !.rgb = first, !.second = second]
FreeLights == [hbf_led_strip_green EXCEPT !.stops = 2]

hbf_led_strip_start_animation(type) ==
    [NoCall EXCEPT !.stops = 1, !.then = "start", !.type = type]

(* What the animation draws at an index.                                    *)
hbf_led_strip_set_same_color(rgb, count) ==
    [NoCall EXCEPT !.rgb = rgb, !.count = count]

-----------------------------------------------------------------------------
Where == {"idle", "stop", "give", "type", "go", "draw", "transmit",
          "top", "wait", "started", "poll", "drawn"}
Activity == [pc : Where, call : Call, stops : 0..2, led_no : 0..HBF_LED_COUNT]

At(t, pc) == task[t].pc = pc

TypeOK ==
    /\ led_strip_pixels \in [Led -> Colours]
    /\ transmissions \in 0..trans_queue_depth
    /\ encoder \in [state : 0..1, byte_index : 0..HBF_LED_COUNT]
    /\ wire \in Seq(Colours) /\ Len(wire) <= HBF_LED_COUNT
    /\ strip \in [1..HBF_LED_COUNT -> Colours]
    /\ animation_sema \in 0..SemaLimit
    /\ animation_running \in BOOLEAN /\ animation_type \in Type
    /\ index \in Nat
    /\ task \in [Task -> Activity]
    /\ calls \in 0..MaxCalls
    /\ overlapped \subseteq Task
    /\ last \in [call : Call, alone : BOOLEAN]

(* The module begins in hbf_led_strip_init, before its own first call,      *)
(* hbf_led_strip_red.  app_main has the call of hbf_led_strip_init          *)
(* commented out; that it is made is an assumption, without which no colour *)
(* is ever shown.  The LEDs are dark.                                       *)
Init ==
    /\ led_strip_pixels = [i \in Led |-> "off"]
    /\ transmissions = 0
    /\ encoder = [state |-> 0, byte_index |-> 0]
    /\ wire = <<>> /\ strip = [i \in 1..HBF_LED_COUNT |-> "off"]
    /\ animation_sema = 0 /\ animation_running = FALSE
    /\ animation_type = "LSA_RUNNING_BLUE" /\ index = 0
    /\ task = [t \in Task |->
                  [pc |-> CASE t = "main" -> "stop" [] t = "animation" -> "top" [] OTHER -> "idle",
                   call |-> IF t = "main" THEN hbf_led_strip_red ELSE NoCall,
                   stops |-> IF t = "main" THEN 1 ELSE 0, led_no |-> 0]]
    /\ calls = 0
    /\ overlapped = {} /\ last = [call |-> NoCall, alone |-> TRUE]

-----------------------------------------------------------------------------
(* Drawing: hbf_led_strip_set_same_color and the two calls of               *)
(* hbf_led_strip_set_same_color_offset, one pixel at a step.                *)

Resting == [pc |-> "idle", call |-> NoCall, stops |-> 0, led_no |-> 0]

Set(t, activity) == task' = [task EXCEPT ![t] = activity]
Goto(t, pc)      == Set(t, [task[t] EXCEPT !.pc = pc])

(* The tasks that have begun to draw, and those that are not alone when t   *)
(* draws.                                                                   *)
Drawing   == {t \in Task : At(t, "draw") /\ task[t].led_no > 0}
Others(t) == Drawing \ {t}
Overlapped(t) == overlapped \cup (IF Others(t) = {} THEN {} ELSE Others(t) \cup {t})

PixelOfOneMore(call, led_no) == IF led_no <= call.count THEN call.rgb ELSE "off"

PixelOf(call, led_no) ==
    IF call.then = "halves" THEN (IF led_no < Half THEN call.rgb ELSE call.second)
                            ELSE (IF led_no < call.count THEN call.rgb ELSE "off")

(* Whether a loop that has written the pixels below led_no ends there, and  *)
(* whether it then transmits.                                               *)
EndsAt(call, led_no)         == led_no = HBF_LED_COUNT \/ (call.then = "halves" /\ led_no = Half)
TransmitsFirst(call, led_no) == call.then = "same" \/ led_no # HBF_LED_COUNT
Transmits(call, led_no)      == call.then = "same" \/ led_no = HBF_LED_COUNT

(* What a task does after the pixels below led_no.                          *)
Resumed(t, led_no) ==
    CASE led_no < HBF_LED_COUNT -> [task[t] EXCEPT !.pc = "draw", !.led_no = led_no]
      [] led_no = HBF_LED_COUNT /\ t = "animation" -> [task[t] EXCEPT !.pc = "drawn", !.led_no = 0]
      [] OTHER -> Resting

Draw(t) ==
    LET call == task[t].call
        next == task[t].led_no + 1
    IN  /\ At(t, "draw")
        /\ led_strip_pixels' = [led_strip_pixels EXCEPT ![next - 1] = PixelOf(call, next - 1)]
        /\ Set(t, IF EndsAt(call, next) /\ Transmits(call, next)
                  THEN [task[t] EXCEPT !.pc = "transmit", !.led_no = next]
                  ELSE Resumed(t, next))
        /\ last' = IF next = HBF_LED_COUNT THEN [call |-> call, alone |-> t \notin Overlapped(t)] ELSE last
        /\ overlapped' = IF next = HBF_LED_COUNT THEN Overlapped(t) \ {t} ELSE Overlapped(t)
        /\ UNCHANGED <<transmissions, driver, animation, calls>>

(* rmt_transmit waits for a free transaction.                               *)
Transmit(t) ==
    /\ At(t, "transmit") /\ transmissions < trans_queue_depth
    /\ transmissions' = transmissions + 1
    /\ Set(t, Resumed(t, task[t].led_no))
    /\ UNCHANGED <<drawing, driver, animation, calls>>

-----------------------------------------------------------------------------
(* The driver calls rmt_encode_led_strip when it begins a transmission and  *)
(* whenever a part of its memory has been sent.  The pixels that fit are    *)
(* read from the array at that moment.  When the last one just fits, the    *)
(* bytes encoder is both complete and out of memory, and the reset code     *)
(* waits for the next call.                                                 *)
Remain == HBF_LED_COUNT - encoder.byte_index

Pixels(first, next) == [k \in 1..(next - first) |-> led_strip_pixels[first + k - 1]]

EncodePixelsFullFirst(room) ==
    LET next == encoder.byte_index + room
    IN  /\ transmissions > 0 /\ encoder.state = 0 /\ room <= Remain
        /\ wire' = wire \o Pixels(encoder.byte_index, next)
        /\ encoder' = [state |-> 0, byte_index |-> next % HBF_LED_COUNT]
        /\ UNCHANGED <<drawing, transmissions, strip, animation, task, calls>>

EncodePixels(room) ==
    LET next == encoder.byte_index + room
    IN  /\ transmissions > 0 /\ encoder.state = 0 /\ room <= Remain    \* RMT_ENCODING_MEM_FULL
        /\ wire' = wire \o Pixels(encoder.byte_index, next)
        /\ encoder' = IF next = HBF_LED_COUNT THEN [state |-> 1, byte_index |-> 0]
                                              ELSE [state |-> 0, byte_index |-> next]
        /\ UNCHANGED <<drawing, transmissions, strip, animation, task, calls>>

(* The rest of the pixels, if any, and the reset code: the LEDs show what   *)
(* they have received, and the driver goes on with the next transaction.    *)
EncodeResetNotComplete(room) ==
    /\ transmissions > 0
    /\ encoder.state = 1 \/ room > Remain
    /\ strip' = wire \o (IF encoder.state = 1 THEN <<>> ELSE Pixels(encoder.byte_index, HBF_LED_COUNT))
    /\ wire' = <<>> /\ encoder' = [state |-> 0, byte_index |-> 0]
    /\ UNCHANGED <<drawing, transmissions, animation, task, calls>>

EncodeReset(room) ==
    /\ transmissions > 0
    /\ encoder.state = 1 \/ room > Remain
    /\ strip' = wire \o (IF encoder.state = 1 THEN <<>> ELSE Pixels(encoder.byte_index, HBF_LED_COUNT))
    /\ wire' = <<>> /\ encoder' = [state |-> 0, byte_index |-> 0]
    /\ transmissions' = transmissions - 1
    /\ UNCHANGED <<drawing, animation, task, calls>>

-----------------------------------------------------------------------------
(* The calls.  hbf_led_strip_init comes before the tasks that call.         *)

AfterStops(t, stops) ==
    CASE stops > 0                                -> [task[t] EXCEPT !.pc = "stop", !.stops = stops]
      [] stops = 0 /\ task[t].call.then = "start" -> [task[t] EXCEPT !.pc = "type", !.stops = 0]
      [] OTHER                                    -> [task[t] EXCEPT !.pc = "draw", !.stops = 0]

Begin(t) ==
    /\ At("main", "idle") /\ At(t, "idle") /\ calls < MaxCalls
    /\ \E call \in Calls[t] :
           Set(t, [task[t] EXCEPT !.pc = "stop", !.call = call, !.stops = call.stops])
    /\ calls' = calls + 1
    /\ UNCHANGED <<drawing, transmissions, driver, animation>>

(* hbf_led_strip_stop_animation, which hbf_led_strip_start_animation begins *)
(* with a copy of: the flag is read, and then a signal is given.            *)
Stop(t) ==
    /\ At(t, "stop")
    /\ IF animation_running THEN Goto(t, "give") ELSE Set(t, AfterStops(t, task[t].stops - 1))
    /\ UNCHANGED <<drawing, transmissions, driver, animation, calls>>

xSemaphoreGive(sema) == IF sema < SemaLimit THEN sema + 1 ELSE sema

Give(t) ==
    /\ At(t, "give")
    /\ animation_sema' = xSemaphoreGive(animation_sema)
    /\ Set(t, AfterStops(t, task[t].stops - 1))
    /\ UNCHANGED <<drawing, transmissions, driver, animation_running, animation_type, index, calls>>

SetType(t) ==
    /\ At(t, "type")
    /\ animation_type' = task[t].call.type
    /\ Goto(t, "go")
    /\ UNCHANGED <<drawing, transmissions, driver, animation_sema, animation_running, index, calls>>

Start(t) ==
    /\ At(t, "go")
    /\ animation_sema' = xSemaphoreGive(animation_sema)
    /\ Set(t, Resting)
    /\ UNCHANGED <<drawing, transmissions, driver, animation_running, animation_type, index, calls>>

-----------------------------------------------------------------------------
(* hbf_led_strip_animation_loop.                                            *)
Goes(pc) == Goto("animation", pc)

Idles ==
    /\ At("animation", "top")
    /\ animation_running' = FALSE
    /\ Goes("wait")
    /\ UNCHANGED <<drawing, transmissions, driver, animation_sema, animation_type, index, calls>>

Signalled ==
    /\ At("animation", "wait") /\ animation_sema > 0
    /\ animation_sema' = animation_sema - 1
    /\ Goes("started")
    /\ UNCHANGED <<drawing, transmissions, driver, animation_running, animation_type, index, calls>>

Starts ==
    /\ At("animation", "started")
    /\ animation_running' = TRUE
    /\ Goes("poll")
    /\ UNCHANGED <<drawing, transmissions, driver, animation_sema, animation_type, index, calls>>

Stopped ==
    /\ At("animation", "poll") /\ animation_sema > 0
    /\ animation_sema' = animation_sema - 1 /\ index' = 0
    /\ Goes("top")
    /\ UNCHANGED <<drawing, transmissions, driver, animation_running, animation_type, calls>>

Frame ==
    IF animation_type = "LSA_RUNNING_BLUE"
    THEN hbf_led_strip_set_same_color("blue", (index % HBF_LED_COUNT) + 1)
    ELSE hbf_led_strip_set_same_color(IF index % 2 = 0 THEN "bright_green" ELSE "off", HBF_LED_COUNT)

Animate ==
    /\ At("animation", "poll") /\ animation_sema = 0
    /\ Set("animation", [Resting EXCEPT !.pc = "draw", !.call = Frame])
    /\ UNCHANGED <<drawing, transmissions, driver, animation, calls>>

(* A flash stops itself.  The type it has drawn, not the type that a caller *)
(* may have set since, decides.  Beyond FlashLength only the remainders of  *)
(* the index matter.                                                        *)
FlashDrawn == task["animation"].call.rgb # "blue"
StopsItselfBlue(i) == ~FlashDrawn /\ i > FlashLength
StopsItself(i)     == FlashDrawn /\ i > FlashLength

NextIndex(i) == IF i + 1 > FlashLength + 2 * HBF_LED_COUNT THEN i + 1 - 2 * HBF_LED_COUNT ELSE i + 1

Drawn ==
    /\ At("animation", "drawn")
    /\ animation_sema' = IF StopsItself(index) THEN xSemaphoreGive(animation_sema) ELSE animation_sema
    /\ index' = NextIndex(index)
    /\ Set("animation", [Resting EXCEPT !.pc = "poll"])
    /\ UNCHANGED <<drawing, transmissions, driver, animation_running, animation_type, calls>>

-----------------------------------------------------------------------------
CallStep(t) ==
    \/ Stop(t) \/ Give(t) \/ SetType(t) \/ Start(t) \/ Draw(t) \/ Transmit(t)

Animation ==
    \/ Idles \/ Signalled \/ Starts \/ Stopped \/ Animate \/ Drawn
    \/ Draw("animation") \/ Transmit("animation")

Encode == \E room \in 1..mem_block_symbols : EncodePixels(room) \/ EncodeReset(room)

(* The tasks are idle and the driver has sent everything.                   *)
AtRest ==
    /\ \A t \in Task \ {"animation"} : At(t, "idle")
    /\ At("animation", "wait") /\ animation_sema = 0 /\ transmissions = 0
    /\ UNCHANGED vars

Next ==
    \/ \E t \in Caller : Begin(t)
    \/ \E t \in Task \ {"animation"} : CallStep(t)
    \/ Animation
    \/ Encode
    \/ AtRest

Spec == Init /\ [][Next]_vars

(* Every task that is ready runs, and the driver sends.  A task that waits  *)
(* for room in the driver is woken before the animation, which has a lower  *)
(* priority and rests between its frames, takes the room again and again.   *)
FairSpec ==
    /\ Spec
    /\ \A t \in Task \ {"animation"} : WF_vars(CallStep(t))
    /\ \A t \in Caller : SF_vars(Transmit(t))
    /\ WF_vars(Animation) /\ WF_vars(Encode)

-----------------------------------------------------------------------------
(* Once no task draws and the driver has sent what was queued, the LEDs     *)
(* show exactly what the array holds, although tasks write the array while  *)
(* it is sent: the last task to draw always queues another transmission     *)
(* (hbf_led_strip.c:53, 80-85).                                             *)
Quiet == \A t \in Task : task[t].pc \notin {"draw", "transmit"}
ShownIsStored == Quiet /\ transmissions = 0 => strip = [i \in 1..HBF_LED_COUNT |-> led_strip_pixels[i - 1]]

(* The picture that a call is to leave on the strip.                        *)
Picture(call) ==
    [i \in Led |-> IF call.then = "halves" THEN (IF i < Half THEN call.rgb ELSE call.second)
                                           ELSE (IF i < call.count THEN call.rgb ELSE "off")]

(* A call that drew alone and last is what the LEDs come to show, whatever  *)
(* was drawn or on its way when it began (hbf_led_strip.c:33-86).           *)
LoneCallShown ==
    Quiet /\ transmissions = 0 /\ last.alone =>
        \A i \in 1..HBF_LED_COUNT : strip[i] = Picture(last.call)[i - 1]

(* No caller waits for ever for room in the driver, or for the animation.   *)
CallsReturn == \A t \in Caller : ~At(t, "idle") ~> At(t, "idle")

(* A flash ends on its own unless another animation takes its place: its    *)
(* own stop signal reaches it (hbf_led_strip.c:175).                        *)
Flashing  == animation_running /\ animation_type = "LSA_FLASHING_GREEN"
FlashEnds == Flashing ~> ~Flashing
=============================================================================
