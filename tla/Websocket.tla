------------------------------ MODULE Websocket ------------------------------
(***************************************************************************)
(* The connection of the element to the control unit, src/main/websocket.c *)
(* on top of the client library (module WsClient): websocket_connect, run  *)
(* by app_main at boot and by the handler of a close frame; the queue of   *)
(* replies; reply_loop, which sends them; and the event handler.           *)
(*                                                                         *)
(* The data handler is reduced to the queues it fills: "echo" stands for   *)
(* the tasks that queue a reply, "set" and "over" queue an event for the   *)
(* engine, "silent" stands for the others.  The engine (module Trigger) is *)
(* reduced to what it takes and whether it answers.                        *)
(***************************************************************************)
EXTENDS WsClient, FiniteSetsExt

CONSTANTS
    ReplyLen,      \* capacity of reply_evt_queue, 10 in websocket_init
    QueueLen,      \* capacity of trigger_evt_queue, 10 in trigger_init
    Window,        \* the control unit's limit on requests that are under way
    Kinds,         \* kinds of frames that the control unit sends
    MaxFrames,     \* bound on the frames of one behaviour
    NoClient

ASSUME ReplyLenAssumption ==
    ReplyLen \in Nat \ {0} /\ QueueLen \in Nat \ {0} /\ Window \in Nat /\ MaxFrames \in Nat
ASSUME KindsAssumption ==
    Kinds \subseteq {"echo", "set", "over", "silent", "close", "close_other"}
ASSUME NoClientAssumption == NoClient \notin Client /\ "main" \notin Client

VARIABLES
    websocket_client_handle,
    reply_evt_queue,
    queueCreated,   \* reply_evt_queue # NULL
    trigger_evt_queue,
    engine,         \* trigger_state of event_trigger_loop, or "answer" while it queues one
    connecting,     \* where main and each client's task are in websocket_connect
    loop,           \* reply_loop: where it is and the client it sends to
    data,           \* the reply that reply_loop has taken
    frames,         \* number of frames sent by the control unit
    sent            \* history: ids of the replies written, in order

own  == <<websocket_client_handle, reply_evt_queue, queueCreated, trigger_evt_queue, engine,
          connecting, loop, data, frames, sent>>
vars == <<clientVars, own>>

Caller == {"main"} \cup Client
Event  == {"set", "over", "hit"}
Reply  == [kind : {"connected", "echo", "result"}, id : Nat]
NoReply == [kind |-> "none", id |-> 0]

TypeOK ==
    /\ ClientTypeOK
    /\ websocket_client_handle \in Client \cup {NoClient}
    /\ reply_evt_queue \in Seq(Reply) /\ Len(reply_evt_queue) <= ReplyLen
    /\ queueCreated \in BOOLEAN
    /\ trigger_evt_queue \in Seq(Event) /\ Len(trigger_evt_queue) <= QueueLen
    /\ engine \in {"TS_IDLE", "TS_WAIT_FOR_FIRST_HIT", "TS_WAIT_FOR_SECOND_HIT", "answer"}
    /\ connecting \in [Caller -> {"no", "init", "check", "start", "delay", "done"}]
    /\ loop \in [pc : {"none", "receive", "check", "send", "lock", "locked"},
                 client : Client \cup {NoClient}]
    /\ data \in Reply \cup {NoReply}
    /\ frames \in 0..MaxFrames
    /\ sent \in Seq(Nat)

Init ==
    /\ ClientInit
    /\ websocket_client_handle = NoClient
    /\ reply_evt_queue = <<>> /\ queueCreated = FALSE
    /\ trigger_evt_queue = <<>> /\ engine = "TS_IDLE"
    /\ connecting = [k \in Caller |-> IF k = "main" THEN "init" ELSE "no"]
    /\ loop = [pc |-> "none", client |-> NoClient] /\ data = NoReply
    /\ frames = 0
    /\ sent = <<>>

-----------------------------------------------------------------------------
(* websocket_connect, run by caller k: a new client replaces the global     *)
(* handle, and the caller starts it every second until it is connected.     *)

Goes(k, from, to) == connecting[k] = from /\ connecting' = [connecting EXCEPT ![k] = to]

Unused(c) ==
    state[c] = "UNKNOW" /\ task[c] = "none" /\ ~closeSent[c] /\ c # websocket_client_handle

ConnectInit(k) ==
    /\ Goes(k, "init", "check")
    /\ \E c \in Client : Unused(c) /\ websocket_client_handle' = c
    /\ UNCHANGED <<clientVars, reply_evt_queue, queueCreated, trigger_evt_queue, engine,
                   loop, data, frames, sent>>

ConnectCheck(k) ==
    /\ Goes(k, "check", IF is_connected(websocket_client_handle) THEN "done" ELSE "start")
    /\ UNCHANGED <<clientVars, websocket_client_handle, reply_evt_queue, queueCreated,
                   trigger_evt_queue, engine, loop, data, frames, sent>>

(* Another caller may have started the client already, and its new task may *)
(* not have set the state that tells: then the code creates a second task.  *)
(* It takes three clients and two closes within a second, and the model     *)
(* stops short of it.                                                       *)
StartsTwice(k) ==
    /\ connecting[k] = "start"
    /\ MayStart(websocket_client_handle) /\ task[websocket_client_handle] # "none"

ConnectStart(k) ==
    LET c == websocket_client_handle IN
    /\ connecting[k] = "start" /\ ~StartsTwice(k)
    /\ Goes(k, "start", "delay")
    /\ IF MayStart(c) THEN Start(c) ELSE UNCHANGED clientVars
    /\ UNCHANGED <<websocket_client_handle, reply_evt_queue, queueCreated,
                   trigger_evt_queue, engine, loop, data, frames, sent>>

(* The caller waits for a second, in which the task it created begins.      *)
ConnectDelay(k) ==
    /\ Goes(k, "delay", "check")
    /\ task[websocket_client_handle] # "created"
    /\ UNCHANGED <<clientVars, websocket_client_handle, reply_evt_queue, queueCreated,
                   trigger_evt_queue, engine, loop, data, frames, sent>>

(* websocket_init: the queue exists once main is connected.                 *)
CreateQueue ==
    /\ connecting["main"] = "done" /\ ~queueCreated
    /\ queueCreated' = TRUE
    /\ loop' = [loop EXCEPT !.pc = "receive"]
    /\ UNCHANGED <<clientVars, websocket_client_handle, reply_evt_queue, trigger_evt_queue,
                   engine, connecting, data, frames, sent>>

-----------------------------------------------------------------------------
(* websocket_event_handler, in the task of client c.                        *)

Handling(c, kinds) == task[c] = "dispatch" /\ handling[c].kind \in kinds

Replying(c) == Handling(c, {"CONNECTED", "echo"})

ReplyTo(event) ==
    [kind |-> IF event.kind = "echo" THEN "echo" ELSE "connected", id |-> event.id]

(* websocket_send_text_async blocks while the queue is full.                *)
RoomForTwo   == Len(reply_evt_queue) + 1 < ReplyLen
RoomOverfull == Len(reply_evt_queue) <= ReplyLen

Room == Len(reply_evt_queue) < ReplyLen

HandlerReplies(c) ==
    /\ Replying(c)
    /\ queueCreated /\ Room
    /\ reply_evt_queue' = Append(reply_evt_queue, ReplyTo(handling[c]))
    /\ Return(c)
    /\ UNCHANGED <<websocket_client_handle, queueCreated, trigger_evt_queue, engine,
                   connecting, loop, data, frames, sent>>

(* Before the queue exists its handle is NULL: the assertion of the queue   *)
(* call fails and the element restarts.                                     *)
Restart(c) ==
    /\ Replying(c) /\ ~queueCreated
    /\ state' = [d \in Client |-> "UNKNOW"] /\ task' = [d \in Client |-> "none"]
    /\ readable' = [d \in Client |-> FALSE] /\ lock' = [d \in Client |-> "free"]
    /\ closeSent' = [d \in Client |-> FALSE] /\ handling' = [d \in Client |-> Nothing]
    /\ link' = [d \in Client |-> "down"] /\ inbox' = [d \in Client |-> <<>>]
    /\ websocket_client_handle' = NoClient
    /\ connecting' = [k \in Caller |-> IF k = "main" THEN "init" ELSE "no"]
    /\ trigger_evt_queue' = <<>> /\ engine' = "TS_IDLE"
    /\ UNCHANGED <<failures, reply_evt_queue, queueCreated, loop, data, frames, sent>>

(* trigger_add_event_to_queue blocks while the queue is full.  After an     *)
(* over the handler waits for 15 seconds.                                   *)
Posting(c) == Handling(c, {"set", "over"})

HandlerPosts(c) ==
    /\ Posting(c) /\ Len(trigger_evt_queue) < QueueLen
    /\ trigger_evt_queue' = Append(trigger_evt_queue, handling[c].kind)
    /\ IF handling[c].kind = "over"
         THEN /\ handling' = [handling EXCEPT ![c].kind = "delay"]
              /\ UNCHANGED <<state, task, readable, lock, closeSent, link, inbox, failures>>
         ELSE Return(c)
    /\ UNCHANGED <<websocket_client_handle, reply_evt_queue, queueCreated, engine,
                   connecting, loop, data, frames, sent>>

HandlerSilent(c) ==
    /\ Handling(c, {"silent", "close_other", "delay"})
    /\ Return(c)
    /\ UNCHANGED own

(* A close frame with a status code and nothing more (data_len = 2) makes   *)
(* the handler connect anew, with the lock of the old client in hand.       *)
HandlerReconnects(c) ==
    /\ Handling(c, {"close"}) /\ Goes(c, "no", "init")
    /\ UNCHANGED <<clientVars, websocket_client_handle, reply_evt_queue, queueCreated,
                   trigger_evt_queue, engine, loop, data, frames, sent>>

HandlerReconnected(c) ==
    /\ Handling(c, {"close"}) /\ Goes(c, "done", "no")
    /\ Return(c)
    /\ UNCHANGED <<websocket_client_handle, reply_evt_queue, queueCreated,
                   trigger_evt_queue, engine, loop, data, frames, sent>>

-----------------------------------------------------------------------------
(* isr_event_loop, which starts after websocket_init, posts a hit.          *)
HitPosted ==
    /\ queueCreated /\ Len(trigger_evt_queue) < QueueLen
    /\ trigger_evt_queue' = Append(trigger_evt_queue, "hit")
    /\ UNCHANGED <<clientVars, websocket_client_handle, reply_evt_queue, queueCreated,
                   engine, connecting, loop, data, frames, sent>>

(* event_trigger_loop.  Any event but an over may be the hit that a set     *)
(* waits for; a wrong one, or the second, is followed by the answer.        *)
After(event) ==
    CASE event = "over"                     -> {"TS_IDLE"}
      [] event = "hit" /\ engine = "TS_IDLE" -> {"TS_IDLE"}
      [] event = "set" /\ engine = "TS_IDLE" -> {"TS_WAIT_FOR_FIRST_HIT"}
      [] event # "over" /\ engine = "TS_WAIT_FOR_FIRST_HIT" ->
            {"TS_WAIT_FOR_SECOND_HIT", "answer"}
      [] event # "over" /\ engine = "TS_WAIT_FOR_SECOND_HIT" -> {"answer"}

EngineTakes ==
    /\ engine # "answer" /\ trigger_evt_queue # <<>>
    /\ trigger_evt_queue' = Tail(trigger_evt_queue)
    /\ engine' \in After(Head(trigger_evt_queue))
    /\ UNCHANGED <<clientVars, websocket_client_handle, reply_evt_queue, queueCreated,
                   connecting, loop, data, frames, sent>>

(* The answer, too, waits for room.                                         *)
EngineAnswers ==
    /\ engine = "answer" /\ queueCreated /\ Room
    /\ reply_evt_queue' = Append(reply_evt_queue, [kind |-> "result", id |-> 0])
    /\ engine' = "TS_IDLE"
    /\ UNCHANGED <<clientVars, websocket_client_handle, queueCreated, trigger_evt_queue,
                   connecting, loop, data, frames, sent>>

Engine == EngineTakes \/ EngineAnswers

-----------------------------------------------------------------------------
(* reply_loop.  It reads the global handle twice: to ask whether the client *)
(* is connected, and to send.                                               *)

At(pc) == loop.pc = pc
GoTo(pc) == loop' = [loop EXCEPT !.pc = pc]

LoopTakesLast ==
    /\ At("receive") /\ reply_evt_queue # <<>>
    /\ data' = reply_evt_queue[Len(reply_evt_queue)]
    /\ reply_evt_queue' = SubSeq(reply_evt_queue, 1, Len(reply_evt_queue) - 1)
    /\ GoTo("check")
    /\ UNCHANGED <<clientVars, websocket_client_handle, queueCreated, trigger_evt_queue,
                   engine, connecting, frames, sent>>

LoopTakes ==
    /\ At("receive") /\ reply_evt_queue # <<>>
    /\ data' = Head(reply_evt_queue)
    /\ reply_evt_queue' = Tail(reply_evt_queue)
    /\ GoTo("check")
    /\ UNCHANGED <<clientVars, websocket_client_handle, queueCreated, trigger_evt_queue,
                   engine, connecting, frames, sent>>

Drops == data' = NoReply

LoopChecks ==
    /\ At("check")
    /\ IF is_connected(websocket_client_handle)
         THEN GoTo("send") /\ UNCHANGED <<data>>
         ELSE GoTo("receive") /\ Drops
    /\ UNCHANGED <<clientVars, websocket_client_handle, reply_evt_queue, queueCreated,
                   trigger_evt_queue, engine, connecting, frames, sent>>

LoopCalls ==
    /\ At("send")
    /\ loop' = [pc |-> "lock", client |-> websocket_client_handle]
    /\ UNCHANGED <<clientVars, websocket_client_handle, reply_evt_queue, queueCreated,
                   trigger_evt_queue, engine, connecting, data, frames, sent>>

LoopLocks ==
    /\ At("lock") /\ SendLocks(loop.client)
    /\ GoTo("locked")
    /\ UNCHANGED <<websocket_client_handle, reply_evt_queue, queueCreated,
                   trigger_evt_queue, engine, connecting, data, frames, sent>>

LoopExits == At("locked") /\ loop' = [pc |-> "none", client |-> NoClient]

LoopReturns == At("locked") /\ loop' = [pc |-> "receive", client |-> NoClient]

LoopRefused ==
    /\ LoopReturns /\ SendRefused(loop.client)
    /\ Drops
    /\ UNCHANGED <<websocket_client_handle, reply_evt_queue, queueCreated,
                   trigger_evt_queue, engine, connecting, frames, sent>>

LoopWrites ==
    /\ LoopReturns /\ SendWrites(loop.client)
    /\ sent' = IF data.kind = "echo" THEN Append(sent, data.id) ELSE sent
    /\ data' = NoReply
    /\ UNCHANGED <<websocket_client_handle, reply_evt_queue, queueCreated,
                   trigger_evt_queue, engine, connecting, frames>>

LoopFails ==
    /\ LoopReturns /\ SendFails(loop.client)
    /\ data' = NoReply
    /\ UNCHANGED <<websocket_client_handle, reply_evt_queue, queueCreated,
                   trigger_evt_queue, engine, connecting, frames, sent>>

Loop == LoopTakes \/ LoopChecks \/ LoopCalls \/ LoopLocks \/ LoopRefused \/ LoopWrites \/ LoopFails

-----------------------------------------------------------------------------
(* The control unit sends a request while fewer than Window are on their    *)
(* way: as frames of the connection, in its handler, as sets that the       *)
(* engine has not answered, or as replies that reply_loop has still to send.*)
Request == {"echo", "set", "over"}

Arriving(c, kinds) ==
    Cardinality({i \in DOMAIN inbox[c] : inbox[c][i].kind \in kinds})

Requests(c) == Arriving(c, Request) + (IF Replying(c) \/ Posting(c) THEN 1 ELSE 0)
SetsQueued == {i \in DOMAIN trigger_evt_queue : trigger_evt_queue[i] = "set"}
Sets    == Cardinality(SetsQueued) + (IF engine = "TS_IDLE" THEN 0 ELSE 1)
Replies == Len(reply_evt_queue) + (IF data = NoReply THEN 0 ELSE 1)
UnderWay(c) == Requests(c) + Sets + Replies

(* Bound: a close is sent only while a client is left to replace the old.   *)
Closes(c) ==
    Arriving(c, {"close"})
    + (IF handling[c].kind = "close" /\ connecting[c] \in {"no", "init"} THEN 1 ELSE 0)
ClosesUnderWay == MapThenSumSet(Closes, Client)

ControlUnitSends(c) ==
    /\ frames < MaxFrames
    /\ \E kind \in Kinds :
          /\ kind \in Request => UnderWay(c) < Window
          /\ kind = "close" => ClosesUnderWay < Cardinality({d \in Client : Unused(d)})
          /\ ServerSends(c, [kind |-> kind, id |-> frames + 1])
    /\ frames' = frames + 1
    /\ UNCHANGED <<websocket_client_handle, reply_evt_queue, queueCreated,
                   trigger_evt_queue, engine, connecting, loop, data, sent>>

-----------------------------------------------------------------------------
(* The ten seconds before a reconnect pass, enough for the engine to take   *)
(* the sets in its queue and for reply_loop to empty its own, unless it     *)
(* waits for the lock of a client whose handler runs.                       *)
LoopIdle ==
    \/ loop.pc = "none"
    \/ At("receive") /\ reply_evt_queue = <<>> /\ engine # "answer" /\ SetsQueued = {}
    \/ loop.pc = "lock" /\ lock[loop.client] = "task"

Reconnects(c) == LoopIdle /\ WaitTimeout(c)

Connecting(k) == ConnectInit(k) \/ ConnectCheck(k) \/ ConnectStart(k) \/ ConnectDelay(k)

Handler(c) ==
    \/ HandlerReplies(c) \/ Restart(c) \/ HandlerPosts(c) \/ HandlerSilent(c)
    \/ HandlerReconnects(c) \/ HandlerReconnected(c)

(* At rest every task waits for the control unit or for time to pass.       *)
AtRest ==
    /\ connecting["main"] = "done" /\ queueCreated
    /\ At("receive") /\ reply_evt_queue = <<>>
    /\ trigger_evt_queue = <<>> /\ engine # "answer"
    /\ \A c \in Client :
          \/ task[c] = "none"
          \/ is_connected(c) /\ lock[c] = "free" /\ inbox[c] = <<>>

Next ==
    \/ \E k \in Caller : Connecting(k)
    \/ CreateQueue \/ Loop \/ Engine \/ HitPosted
    \/ \E c \in Client :
          \/ (TaskStep(c) \/ Reconnects(c) \/ LinkBreaks(c)) /\ UNCHANGED own
          \/ Handler(c) \/ ControlUnitSends(c)
    \/ AtRest /\ UNCHANGED vars

Spec == Init /\ [][Next]_vars

(* FreeRTOS runs every task that is ready.  A task that polls or reconnects *)
(* forever still gives the lock back, and a broken connection is noticed    *)
(* when no PONG arrives.  A queue lets its longest waiting writer in first: *)
(* hits and answers cannot keep a handler out for ever.                     *)
Fairness ==
    /\ WF_vars(Connecting("main"))
    /\ WF_vars(CreateQueue) /\ WF_vars(Loop) /\ WF_vars(Engine)
    /\ \A c \in Client :
          /\ WF_vars((TaskStep(c) \/ Reconnects(c)) /\ UNCHANGED own)
          /\ SF_vars(Handler(c) \/ Connecting(c))
          /\ SF_vars(PongTimeout(c) /\ UNCHANGED own)
FairSpec == Spec /\ Fairness

-----------------------------------------------------------------------------
(* Replies go out in the order of the requests and none goes out twice,     *)
(* whatever connections broke, closed or were replaced in between.          *)
RepliesInOrder == \A i, j \in DOMAIN sent : i < j => sent[i] < sent[j]

(* The handler of an event and the sender of a reply never both hold a      *)
(* client: a reply is written only between two events of the connection.    *)
(* And no task but the owner of a dispatch works on a client in websocket_  *)
(* connect: its caller holds its own old client's lock all along.           *)
LockHeld ==
    \A c \in Client :
        /\ (task[c] \in {"connecting", "dispatch"}) <=> lock[c] = "task"
        /\ lock[c] = "sender" <=> loop.pc = "locked" /\ loop.client = c
        /\ connecting[c] # "no" => lock[c] = "task"

(* reply_loop and a handler never wait for each other: it waits for the     *)
(* lock that the handler holds while the handler waits for room in its      *)
(* queue, or in that of the engine, which itself waits for room for an      *)
(* answer.                                                                  *)
WaitsForRoom(c)   == Replying(c) /\ ~Room
WaitsForEngine(c) ==
    Posting(c) /\ Len(trigger_evt_queue) = QueueLen /\ engine = "answer" /\ ~Room
NoReplyDeadlock ==
    ~ \E c \in Client :
        /\ loop.pc = "lock" /\ loop.client = c
        /\ WaitsForRoom(c) \/ WaitsForEngine(c)

(* A connection that is up belongs to a client whose task is alive, and     *)
(* only the newest client and those that it replaces have one.              *)
LinkHasTask ==
    \A c \in Client :
        /\ link[c] # "down" => task[c] # "none" /\ state[c] \in {"CONNECTED", "CLOSING"}
        /\ is_connected(c) => c = websocket_client_handle \/ lock[c] = "task"

(* Every handler comes to its end, and the next frame that has reached the  *)
(* element is handled, unless its connection is lost or closed before it is *)
(* read.                                                                    *)
FramesHandled ==
    \A c \in Client :
        /\ inbox[c] # <<>> ~> Handling(c, Kinds \cup {"delay"}) \/ link[c] # "up"
        /\ task[c] = "dispatch" ~> task[c] # "dispatch"

(* Every reply leaves the queue.                                            *)
QueueDrains   == reply_evt_queue # <<>> ~> reply_evt_queue = <<>>

(* Once it has started, the element always comes back from a broken or      *)
(* closed connection.                                                       *)
ComesBack == queueCreated ~> queueCreated /\ is_connected(websocket_client_handle)

-----------------------------------------------------------------------------
(* What comments and messages of the source say and the code does not do.   *)

(* The queue for replies exists when a handler replies (websocket.c:174).   *)
QueueBeforeReply == \A c \in Client : Replying(c) => queueCreated
=============================================================================
