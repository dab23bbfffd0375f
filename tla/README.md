# HockeyBar firmware: a verification development

The HockeyBar element is an ESP32 board with two infrared beams, a push button, an LED strip and
a websocket connection to a control unit. The control unit *sets* an element; a player shoots a
puck through both beams; the element answers whether the set was solved, in which direction and
how fast. The models here are TLA+ modules beside `src/main`; every definition names the lines it
models in the `map` of `PROJECT.json`.

## The system

| part | state | operations | talks to |
|---|---|---|---|
| exercise engine, `trigger.c` | `trigger_evt_queue`; in `event_trigger_loop`: state, path, expected hits, times | `event_trigger_loop` (one task); `hbf_ws_data_handler`, `hbf_ws_connection_handler` (run by the websocket client's task) | takes events from both producers, queues replies, writes the strip |
| websocket connection, `websocket.c` | `websocket_client_handle`, `reply_evt_queue` | `websocket_connect`, `websocket_init`, event handler, `websocket_send_text_async`, `reply_loop` (one task) | client library, data and connection handlers |
| websocket client, `managed_components/…/esp_websocket_client.c` | per client: state, recursive lock, transport, status bits | one task per client, `start`, `send_text`, `is_connected` | network, event handler under its lock |
| beams and button, `isr_handlers.c` | `isr_evt_queue`, `prev_event_data` | two interrupt handlers, `isr_event_loop` (one task) | trigger queue |
| wifi, `wifi_fixed_config.c` | `s_retry_num`, an event group | event handler, `hbf_wifi_init` (waits) | wifi driver, `app_main` |
| LED strip, `hbf_led_strip.c` | pixel array, animation semaphore, flag and type | colours, offsets, start and stop of an animation, animation task | its array is written by three tasks and read by the encoder |
| strip encoder, `led_strip_encoder.c` | encoding state, position in the array | `rmt_encode_led_strip` | called by the RMT driver whenever its memory has room |
| seven-segment display, `seven_seg.c` | flasher flag | show a number, flasher task (not started) | I2C |
| helpers, `hbf_util.c`; start-up, `main.c` | – | JSON text, order of initialisation | |

What is hard here is concurrency. Five tasks and two interrupt handlers share three bounded queues,
a lock, a strip and the array that its driver reads. Every queue call of a task waits for ever
(`portMAX_DELAY`), handlers run in the websocket client's task *with its lock held*, and the reconnect after a close replaces the
global handle while the old client is still at work. The hazards in `PROJECT.json` say where
each of these bites and which property covers it.

What makes each part correct:

* engine: one set at a time, every answer justified by the two events after its set and given in
  the order of the sets; an over is final; an answer's times agree; lights only for an exercise.
* connection: replies in order and never twice; handlers, engine and `reply_loop` do not wait for each
  other while the control unit keeps to a limit; one holder of a client's lock; the element always comes back.
* beams: hits reach the engine in order, once per passage, also across a wrap of the tick count.
* beams and engine together: a set that two hits solve was solved by two passages through the beams,
  in their order, however long the interrupts waited in two queues.
* strip: what the LEDs show is what the last call asked for, although it is sent while others write;
  callers return, and a flash ends.
* wifi: gives up only after its retries; `app_main` goes on, unless the station joins and never gets an address.

## Modules

| module | models | state and actions |
|---|---|---|
| `Exercise` | what the engine promises, without queues, tasks, clock and lights | the set being executed, its first hit, the outcomes; `Accept`, and `FirstHit`, `Solve`, `Fail` and `Cancel` while a set is executed |
| `Trigger` | the engine with its two producers | variables carry the names of the C variables; a task runs from one blocking call to the next in one action. `pc` is where `event_trigger_loop` is blocked: for an event, before the lights, for room for its answer, in the 50 ms display. `ws` is what is left of the message being handled, `isr` what `isr_event_loop` has left to post |
| `WsClient` | the client library | one record of functions over `Client`: state, task position, lock, transport, frames on their way |
| `Websocket` | `websocket.c` on top of `WsClient` | `websocket_connect` as a small automaton per caller (`connecting`), `reply_loop` with its two reads of the handle, the event handler; the data handler reduced to the queue it fills (`HandlerReplies`, `HandlerPosts`), the engine to what it takes and whether it answers (`EngineTakes`, `EngineAnswers`), the beams to `HitPosted` |
| `IsrHandlers` | interrupts, their queue, debouncing | ticks modulo `TickRange`; a push carries arbitrary ticks because the code queues an uninitialised field |
| `Wifi` | retries and the event group | the driver is an actor whose events wait in a queue |
| `LedStrip` | the pixel array, its writers, the animation task, the driver and the encoder | a task writes one pixel at a step (`Draw`); a transmission carries no copy, `EncodePixels` reads the array when the driver has `room`; `animation_sema` counts and loses signals as the C semaphore does |
| `Element` | `IsrHandlers` and `Trigger` on one queue | `IsrTakes` is `Take` of the one and `IsrHit` of the other, `IsrPosts` both `Post` and `IsrPost`; `waiting` and `counted` are history: the interrupt behind each queued event and behind each event that counts |
| `TriggerProofs`, `TriggerOrder`, `TriggerRefinement` | – | theorems about `Trigger`: types, justification, lights, times; the order of messages and answers; the refinement |
| `IsrProofs`, `WifiProofs`, `WebsocketProofs`, `LedStripProofs`, `ElementProofs` | – | theorems about the module of the same name |
| `MCTrigger`, `MCWebsocket`, `MCLedStrip`, `MCElement` | – | values and symmetry for TLC |

`Websocket` extends `WsClient`, so that the handlers run in the client's own steps. `Trigger` refines
`Exercise` (`Promise == INSTANCE Exercise WITH …`, property `KeepsPromise`): the step that queues an
answer is the step that decides it. `Element` extends `Trigger` and instantiates `IsrHandlers` with the
engine's clock: `isr_event_loop` posts to the queue the engine empties, so that it waits when the engine
does, and interrupts are lost meanwhile. `Trigger` alone takes a hit at any time, which covers every output of
`IsrHandlers`; theorem `PartsKept` shows that it does.

One joint is left to a contract. In `Trigger` and `Element` a reply is taken at any time while `reply_loop`
has none in hand (`ReplyTaken`), and is sent or dropped once no handler runs, because the sender needs the lock
that a handler holds (`ReplySent`). For safety that covers `Websocket`. For liveness it covers one connection:
`reply_loop`, the handler and the engine can wait for each other in `Element` as they can in the code
(`Stuck`), and reconnects are left to `Websocket`, whose engine in turn is no more than a consumer of one queue
and a producer of the other.

Definitions such as `SendToFront` or `LockIgnored` that no action uses are wrong variants, each beside
the definition it perturbs. They stand for plausible bugs (a dropped guard, an off-by-one, a missing
reset) and show that each property can tell the difference.

### What the models assume

* `hbf_led_strip_init`, `breakbeam_init` and `push_init`, commented out in `app_main` today, have run, and the
  interrupt handlers are hooked when `isr_evt_queue` exists. Where the calls stand in the comments, the handlers come
  before the queue (`main.c:31-33`); this is a hazard without a property.
* Animations are started, although each call of `hbf_led_strip_start_animation` is commented out today
  (`trigger.c:298`, `527`, `hbf_led_strip.c:236`); without one the animation task never leaves its wait.
  Two stops in a row, or a stop while a flash ends itself, start the animation again: `LedStrip` has this
  behaviour, and the code promises nothing else.
* The room that the driver offers the encoder is any number of pixels up to its memory; a pixel is not
  split between two calls.
* Message ids arrive whole. The engine never copies them into its answers (`trigger.c:434`); in
  `Trigger` they are history, used to say which set an answer belongs to.
* The ten seconds before a reconnect are long enough for the engine to take the sets in its queue and for `reply_loop`
  to empty its own, unless it waits for a lock (`LoopIdle`), and the second between two looks of
  `websocket_connect` (`websocket.c:159`) for a created task to begin.
* Text, JSON and logging are left out; a message is its task and its parameters. The task `start` and
  unknown tasks change nothing in the code (the acknowledgement is not sent, `trigger.c:164`) and are left out.
* A failed assertion restarts the element (`Restart` in `Websocket`), as the build's configuration has it.

## Runs

| run | asks | result |
|---|---|---|
| `trigger_safety` | which answers, for which sets, with which times; the refinement; requests fill the queue of replies too | holds, 3.7 million states |
| `element` | beams, engine, handlers and `reply_loop`: the handler returns, an over takes effect, a set with two more events settles, every interrupt that found room is decided, two passages solve a set | holds within the control unit's limit, 0.1 million states |
| `trigger_timeout` | a set that nobody hits is answered | violated: the timeout is not passed to the queue (`trigger.c:420`) |
| `trigger_duration` | the time of an answer is in milliseconds | violated: it is in ticks (`trigger.c:516`) |
| `websocket_safety` | order of replies, holder of the lock, whose connection is up; handler, engine and `reply_loop` do not wait for each other | holds, 1.0 million states |
| `websocket_live` | handlers return, frames are handled, the queue drains, the element reconnects | holds within the limit, 92 000 states |
| `websocket_null` | the queue exists when the first reply is queued | violated (`websocket.c:175`) |
| `websocket_deadlock` | handler and `reply_loop` do not wait for each other, with two requests more than the queue of replies holds | violated (`websocket.c:112`) |
| `websocket_closed` | every closed connection is replaced | violated for payloads other than two bytes (`websocket.c:91`) |
| `isr` | order, debouncing and losses of interrupts | holds, 0.5 million states |
| `wifi` | when the station gives up; when `app_main` goes on | holds |
| `led_strip` | what the LEDs come to show, while tasks write the array that is being sent; callers return; a flash ends | holds |

### Bounds

* `Trigger`: queues of 2 and 1 instead of 10 and 10, so that both are full within few messages;
  5 messages and hits suffice for two complete sets, or for a set, an over, a set and two hits;
  3 ticks make every order of intervals appear.
* `Element`: queues of 2 events and 1 reply, one interrupt waiting, three messages and two hits of one beam,
  one path: a hit is lost or waits while the loop is blocked, and the hits fall on either side of the debounce
  interval, whose tick is also where the count wraps. Liveness needs no more time than that. The theorems
  about `Element` have every path, beam and bound. `Window` is `ReplyLen` + 1: with one more TLC finds `Stuck`,
  in which the liveness properties fail.
* `Websocket`: two clients (one that is replaced and its successor), 3 frames of six kinds, one failure, an engine's
  queue of 1. Frames and hits fill that queue, so that a handler waits for the engine while the engine waits for
  room for its answer. The limit on requests under way (`Window`) is a promise of the control unit, not of the code. It
  counts, for each connection, the requests in the inbox and in the handler, the sets that the engine has still to
  answer, and all replies that are queued or taken, those to older connections included. With a queue of *n* replies
  the element is safe up to *n* + 1 requests without closes (theorem below), and `websocket_deadlock` shows *n* + 2.
  With closes the report of a new connection may come on top: `websocket_safety` leaves it a place (*n* = 3 and 2
  requests), while TLC finds a deadlock with *n* = 2 and 2 requests when a close is followed by one that the handler
  ignores. The code has *n* = 10 and no limit, so that a control unit that sends without one can bring the
  element to a halt.
* `IsrHandlers`: 5 values of the tick count, starting 2 ticks before the wrap, debounce of 2, a queue of 2,
  4 interrupts: full queue, wrap and the boundary of the debounce interval all occur. The run is shorter
  than a whole turn of the tick count (497 days).
* `LedStrip`: two LEDs with a half of one each, so that every loop bound and the offset matter; a memory of
  two pixels, so that the last one may just fill it; two transactions, so that callers wait; a limit of
  two signals, so that one is lost; a flash that ends itself at once; two calls, of the two callers.
* `Wifi`: the code's 5 retries and up to 3 lost connections.

`CHECK_DEADLOCK` is off for `isr`, which stops when its interrupts are used up. In the other modules
`AtRest` says when the element may stand still; any other state without a successor is a deadlock.

### Fairness

FreeRTOS runs every task that is ready, so each task's steps are weakly fair. Nothing is assumed of the
control unit, the players, the network or the access point, except that the driver ends every attempt to join the
access point, one way or the other. A station that has joined need not get an address, nor fail: nothing in
the code ends that wait, and `MainGoesOn` makes an exception for it.

Sending a reply is weakly fair under its real guard: in `Trigger` and `Element` `ReplySent` needs a moment without a
handler, so that a `reply_loop` that waits for the lock of a handler that waits for the engine, which waits for
`reply_loop`, waits for ever. What rules that out in the run is the limit of the control unit. In `Websocket` all three
waits are actions' guards.

In `Websocket` the detection of a missing PONG is strongly fair: the client's task comes back to it
on every turn, but not continuously. So are the steps of a handler: hits and answers may fill the queues again and
again, but a FreeRTOS queue lets its longest waiting writer in first. In `LedStrip` the step that waits for a free transaction is strongly
fair: a task of higher priority is woken before the animation, which rests between its frames, can take
the place again and again.

## Proofs

Each theorem holds for every queue length, set of inputs and bound.

### Engine

* `TypeCorrect` – `Spec => []TypeOK`, from `Typed`, which adds that an answer about to be queued is well formed.
* `AnswersJustified` – `[]ResultsJustified`. The inductive invariant is `Justified`: besides the types it says
  what each state of the loop remembers of the events it consumed (`Consistent`): none while it waits for the
  first hit, one that counted as first hit while it waits for the second, and while an answer waits for
  room, that the answer fits its events. Without `HitsOfPath` (the expected hits are those of the path
  whenever a set is executed) it is not inductive, because an over leaves `path` and the hits behind.
* `LightsGoOut` – `[]LitOnlyInExercise`, on top of `Consistent`.
* `TimesFitTogether` – `[]TimesConsistent`, from `Timed`, which relates the start of the current wait to the
  time of the set and the interval already noted.
* `OverIsFinal` and `AnsweredInOrder` – `NoAnswerAfterOver` and `[]AnswersInOrder`. The invariant is `Ordered`:
  the messages on their way, in the websocket client's task and in the queue, have increasing ids, all
  newer than the set being executed and than the last over; hits queued between them have no id. It needs
  both producers: what `isr_event_loop` posts is never a message, and the task has at most one message
  left to post.
* `ImplementsExercise` – `Spec => KeepsPromise`: every step maps to a step of `Exercise` or to a stutter,
  from `Justified` and `Ordered` together. The step that takes the deciding event is a stutter, the step that
  queues the answer is `Solve` or `Fail`, and an over that meets a set is `Cancel`.

`OnlyLoopMovesEngine` reduces the steps of the other tasks to stuttering for all of them.

### Beams

The inductive invariant `Debounced` of `IsrProofs` has five parts besides the types: what is queued, waits
or was decided last stands for the interrupt it names (`Truthful`); time goes on between interrupts
(`Timely`); interrupts pass the loop in their order, the decided before the waiting before the queued
(`Ordered`); and since the last event that was posted only duplicates of it were decided (`Spaced`).
Without the last part the debouncing cannot be carried over a train of ignored interrupts, because
`prev_event_data` is renewed by each of them. `ElapsedIsTime` says that the unsigned difference of two tick
counts is the time between them in a run shorter than a turn of the count, wherever it wraps.

* `IsrTypeCorrect`, `PostsInOrder` – types, and `[]PostedInOrder`.
* `BeamsAreDebounced` – `[]BeamsDebounced`, for every `TickRange`, `FirstTick` and `Debounce`.
* `IgnoredWerePreceded` – `[]IgnoredHadPrecursor`: an ignored hit had a close precursor of the same beam.

### Beams and engine

* `PartsKept` – `ElementSpec => Spec /\ Isr!Spec`: composed, both parts keep their own specifications, so that
  every theorem above holds of the element. It needs only that what waits in `isr_evt_queue` was raised
  by the beams.
* `ElementKeepsPromise` – the engine's theorems carried over: the element implements `Exercise`, an over is final,
  answers come in order and their times agree.
* `ElementTypeCorrect`, `SolvesByTwoPassages` – types, and `[]SolvedByTwoPassages`. The invariant `Linked` follows
  the interrupts through both queues: those behind the waiting events are the last ones posted, in their
  order (`Waits`), those that count are older (`Older`), and while the loop waits for a second hit every
  interrupt posted after the first one still waits (`NextWaits`). So the second one that counts was posted
  right after the first, and `BeamsDebounced`, which is about neighbours only, tells them apart
  (`TwoPassages`). Both parts' invariants are used, through `PartsKept`.

### Connection

The invariant of `WebsocketProofs` says what the place of each task means: a client's task, its state and its
connection agree (`TaskAndState`), no client but the one of the global handle has frames to handle unless it
is about to be replaced (`OneCurrent`), and requests and replies on their way are ordered from the last
one sent to those in the inbox (`Ordered`).

* `WebsocketTypeCorrect`, `LockHasOneHolder` – types, and `[]LockHeld`: the client's task and `reply_loop` are
  where the code holds a client's lock exactly while they have it, and never both.
* `RepliedInOrder` – `[]RepliesInOrder`, over reconnects that replace the handle between the two reads of
  `reply_loop`.
* `LinksHaveTasks` – `[]LinkHasTask`: no connection is up without the task that reads it.

That handlers, engine and `reply_loop` never wait for each other (`NoReplyDeadlock`) rests on a count of the
requests, sets and replies on their way, so these theorems have the limit of the control unit (`Window`, per
connection) as a hypothesis; with *n* = `ReplyLen` and any length of the engine's queue:

* `NoRequestDeadlock` – at most *n* + 1 requests: neither the handler of a request that waits for room nor one that
  waits for an engine that waits for room (`WaitsForEngine`) blocks `reply_loop`, for any number of clients and
  whatever closes or breaks. The invariant is `FewRequests`: a client that has a request to handle is the current
  one and has at most `Window` under way. A set counts from its frame to the moment its answer is sent: in the inbox,
  in the handler, in the engine's queue, with the engine, in the queue of replies. The engine answers each set at
  most once and a hit is never answered, so that no step but a new request adds to the count (`EngineOwes`).
  Frames of older clients do not count, because they are lost (`OneCurrent`). Positions of a sequence are counted
  with bijections (`CountAppend`, `CountTail`), not by induction.
* `NoDeadlockWithoutCloses` – the same limit, no closes: `[]NoReplyDeadlock`. The report of a new connection is no
  request and has no limit; what leaves room for it is the pause before a reconnect. The invariant `Quiet` says that
  while the client of the handle connects at most one reply is owed, the engine's or that in the hands of
  `reply_loop` (`FreshQuiet`), that `reply_loop` sends to that client only, and that nothing is owed
  before `reply_evt_queue` exists (`AtBoot`).

The limits are sharp: TLC finds both tasks waiting for each other with *n* + 2 requests and no
close (run `websocket_deadlock`), and with *n* requests when closes of both kinds are sent.

With three clients two handlers may start the same one within a second. There the model stops
(`StartsTwice`), so what is proved for more than two clients is proved of behaviours up to that point.

### Wifi and strip

* `WifiTypeCorrect`, `WifiGivesUpAfterRetries` – the invariant says how far `s_retry_num` may lag behind the
  attempts that failed, for each state of the driver and each content of the event queue.
* `LedTypeCorrect`, `LedShown`, `LedLoneCall` – `[]ShownIsStored` and `[]LoneCallShown`, for every number of LEDs, every
  memory and every set of calls. The invariant adds where the encoder is in the array and what it has put on
  the wire (`Encoded`), that while nobody draws the last transmission carries the array as it is
  (`Carried`), and that a task nobody disturbed has drawn its picture so far (`Undisturbed`).

### Assumptions, and what stays with TLC

Assumed: the named assumptions on the constants in each module, which TLC evaluates in the runs: queues have
room for at least one element; `Element` and `IsrHandlers` run for less than a turn of the tick count; a
strip has at least two LEDs, both halves included; `NoClient` and `main` are no clients.

Two theorems assume more, as said above: a limit on requests, and one of them a control unit that closes no
connection. `websocket_safety` checks the same property with closes, for two clients and one place to spare.

Model-checked only: all liveness (`HandlerReturns`, `OverObeyed`, `SetSettles`, `HitsDecided`, `FramesHandled`,
`QueueDrains`, `ComesBack`, `CallsReturn`, `FlashEnds`, `MainGoesOn`), which rests on fairness and so on `ENABLED`, out of the
prover's reach. Every invariant and every action property of a passing run is a theorem, `NoReplyDeadlock` for a control
unit that closes no connection.

## Plan

1. *(done)* `Trigger`, `Exercise`, `WsClient`, `Websocket`, `IsrHandlers`, `Wifi`, the theorems about `Trigger`.
2. *(done)* `LedStrip` with the strip's encoder; `Element`; theorems about beams, connection, wifi, strip and about
   the element as a whole; the limits under which handler and `reply_loop` do not wait for each other.
3. *(done)* the wait of handler, engine and `reply_loop` for each other, in `Element` and in `Websocket`, with the
   engine as third producer of replies; its theorems.
4. Left: reconnects in `Element` (`Websocket` in place of `ReplyTaken` and `ReplySent`), of which the parts alone
   reach millions of states; a third client, for two closes within the second that a new task needs to begin, and
   the second task for one client that follows; a theorem about `NoReplyDeadlock` with closes.

## Not modelled

* **Display and graphics library** (`managed_components/lvgl__lvgl`): vendored, and about 318 000 of the 323 000
  lines of code in the repository. The component that would start it is not in the repository. The share
  of the repository that the map covers is small for this reason alone; of the files in `src/main`
  that are compiled, the map names the code of every task, handler and queue that
  runs.
* **Seven-segment display** (`seven_seg.c`): `seven_seg_init`, which installs the bus and creates the flasher, is
  commented out in `app_main`. `seven_seg_shownumber` is called for an init message and fails on the missing
  bus, which it ignores.
* **Wifi by smart config** (`wifi_smartconfig.c`): not among the component's sources.
* **JSON and other helpers** (`hbf_util.c`, the text functions of `trigger.c`): formatting, which no property is
  about. Lengths of messages and ids are listed as hazards.
* **Hardware set-up**: pins, the RMT channel and the timing constants of the strip.
* **Test stand-ins**: empty, or used by nobody.
* **The client library beyond its use here**: headers, fragmentation, stop and destroy.
