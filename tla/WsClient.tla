------------------------------ MODULE WsClient ------------------------------
(***************************************************************************)
(* The websocket client library of the element,                            *)
(* managed_components/espressif__esp_websocket_client: one task per client *)
(* that connects, reads frames and dispatches events, the recursive lock   *)
(* it shares with the senders, and the transport between the client and    *)
(* the control unit.                                                       *)
(*                                                                         *)
(* Handlers run inside the task, under its lock; module Websocket says     *)
(* what they do.  DISCONNECTED, ERROR, CLOSED and PONG events change       *)
(* nothing in this program's handlers and are left out.                    *)
(***************************************************************************)
EXTENDS Naturals, Sequences

CONSTANTS
    Client,        \* the client handles that esp_websocket_client_init may return
    MaxFailures    \* bound on failed connects and broken connections

ASSUME ClientAssumption == MaxFailures \in Nat

VARIABLES
    state,      \* client->state
    task,       \* where the client's task is
    readable,   \* read_select > 0
    lock,       \* who holds client->lock
    closeSent,  \* CLOSE_FRAME_SENT_BIT
    handling,   \* the event that the task is dispatching
    link,       \* the transport: "broken" is a failure that nobody has noticed
    inbox,      \* frames on their way to the client
    failures

clientVars == <<state, task, readable, lock, closeSent, handling, link, inbox, failures>>

Frame == [kind : {"echo", "set", "over", "silent", "close", "close_other"}, id : Nat]
Nothing   == [kind |-> "nothing", id |-> 0]
Connected == [kind |-> "CONNECTED", id |-> 0]
Delay     == [kind : {"delay"}, id : Nat]    \* an "over" that waits to end

ClientTypeOK ==
    /\ state \in [Client -> {"UNKNOW", "INIT", "CONNECTED", "WAIT_TIMEOUT", "CLOSING"}]
    /\ task \in [Client -> {"none", "created", "top", "connecting", "dispatch", "unlocked"}]
    /\ readable \in [Client -> BOOLEAN]
    /\ lock \in [Client -> {"free", "task", "sender"}]
    /\ closeSent \in [Client -> BOOLEAN]
    /\ handling \in [Client -> Frame \cup Delay \cup {Nothing, Connected}]
    /\ link \in [Client -> {"down", "up", "broken"}]
    /\ inbox \in [Client -> Seq(Frame)]
    /\ failures \in 0..MaxFailures

ClientInit ==
    /\ state = [c \in Client |-> "UNKNOW"]
    /\ task = [c \in Client |-> "none"]
    /\ readable = [c \in Client |-> FALSE]
    /\ lock = [c \in Client |-> "free"]
    /\ closeSent = [c \in Client |-> FALSE]
    /\ handling = [c \in Client |-> Nothing]
    /\ link = [c \in Client |-> "down"]
    /\ inbox = [c \in Client |-> <<>>]
    /\ failures = 0

is_connected(c) == state[c] = "CONNECTED"

-----------------------------------------------------------------------------
(* esp_websocket_client_start.  It refuses a client that has started, but   *)
(* the state that says so is set by the new task.                           *)
MayStart(c) == state[c] = "UNKNOW"

Start(c) ==
    /\ task' = [task EXCEPT ![c] = "created"]
    /\ closeSent' = [closeSent EXCEPT ![c] = FALSE]
    /\ UNCHANGED <<state, readable, lock, handling, link, inbox, failures>>

TaskBegins(c) ==
    /\ task[c] = "created"
    /\ task' = [task EXCEPT ![c] = "top"]
    /\ state' = [state EXCEPT ![c] = "INIT"]
    /\ closeSent' = [closeSent EXCEPT ![c] = FALSE]
    /\ readable' = [readable EXCEPT ![c] = FALSE]
    /\ UNCHANGED <<lock, handling, link, inbox, failures>>

(* The task at the top of its loop, in the given state, takes the lock.     *)
LockIgnored(c, s) == task[c] = "top" /\ state[c] = s

LockedIn(c, s) == task[c] = "top" /\ state[c] = s /\ lock[c] = "free"

(* esp_websocket_client_abort_connection                                    *)
AbortLeavesOpen(c) ==
    /\ state' = [state EXCEPT ![c] = "WAIT_TIMEOUT"]
    /\ UNCHANGED <<link, inbox>>

Abort(c) ==
    /\ state' = [state EXCEPT ![c] = "WAIT_TIMEOUT"]
    /\ link' = [link EXCEPT ![c] = "down"]
    /\ inbox' = [inbox EXCEPT ![c] = <<>>]

Dispatch(c, event) ==
    /\ task' = [task EXCEPT ![c] = "dispatch"]
    /\ handling' = [handling EXCEPT ![c] = event]

Connect(c) ==
    /\ LockedIn(c, "INIT")
    /\ lock' = [lock EXCEPT ![c] = "task"]
    /\ task' = [task EXCEPT ![c] = "connecting"]
    /\ UNCHANGED <<state, readable, closeSent, handling, link, inbox, failures>>

ConnectSucceeds(c) ==
    /\ task[c] = "connecting"
    /\ link' = [link EXCEPT ![c] = "up"]
    /\ state' = [state EXCEPT ![c] = "CONNECTED"]
    /\ Dispatch(c, Connected)
    /\ UNCHANGED <<readable, lock, closeSent, inbox, failures>>

ConnectFails(c) ==
    /\ task[c] = "connecting" /\ failures < MaxFailures
    /\ failures' = failures + 1
    /\ Abort(c)
    /\ lock' = [lock EXCEPT ![c] = "free"]
    /\ task' = [task EXCEPT ![c] = "unlocked"]
    /\ UNCHANGED <<readable, closeSent, handling>>

(* No PONG came for a PING: the connection is broken.                       *)
PongTimeout(c) ==
    /\ LockedIn(c, "CONNECTED") /\ ~closeSent[c] /\ link[c] = "broken"
    /\ Abort(c)
    /\ task' = [task EXCEPT ![c] = "unlocked"]
    /\ UNCHANGED <<readable, lock, closeSent, handling, failures>>

(* Nothing to read: the lock is given back.                                 *)
SkipRead(c) ==
    /\ LockedIn(c, "CONNECTED") /\ ~readable[c]
    /\ task' = [task EXCEPT ![c] = "unlocked"]
    /\ UNCHANGED <<state, readable, lock, closeSent, handling, link, inbox, failures>>

(* esp_websocket_client_recv: one frame, whose handler runs under the lock. *)
Recv(c) ==
    /\ LockedIn(c, "CONNECTED") /\ readable[c]
    /\ IF link[c] = "up"
         THEN /\ lock' = [lock EXCEPT ![c] = "task"]
              /\ Dispatch(c, Head(inbox[c]))
              /\ inbox' = [inbox EXCEPT ![c] = Tail(@)]
              /\ UNCHANGED <<state, link>>
         ELSE /\ Abort(c)
              /\ task' = [task EXCEPT ![c] = "unlocked"]
              /\ UNCHANGED <<lock, handling>>
    /\ UNCHANGED <<readable, closeSent, failures>>

(* The handler has returned: a close frame ends the connection.             *)
Return(c) ==
    /\ task[c] = "dispatch"
    /\ handling' = [handling EXCEPT ![c] = Nothing]
    /\ lock' = [lock EXCEPT ![c] = "free"]
    /\ task' = [task EXCEPT ![c] = "unlocked"]
    /\ state' = IF handling[c].kind \in {"close", "close_other"}
                  THEN [state EXCEPT ![c] = "CLOSING"] ELSE state
    /\ UNCHANGED <<readable, closeSent, link, inbox, failures>>

(* The wait before a reconnect is over.  It lasts ten seconds.              *)
WaitForever(c) ==
    /\ LockedIn(c, "WAIT_TIMEOUT")
    /\ task' = [task EXCEPT ![c] = "unlocked"]
    /\ UNCHANGED <<state, readable, lock, closeSent, handling, link, inbox, failures>>

WaitTimeout(c) ==
    /\ LockedIn(c, "WAIT_TIMEOUT")
    /\ state' = [state EXCEPT ![c] = "INIT"]
    /\ task' = [task EXCEPT ![c] = "unlocked"]
    /\ UNCHANGED <<readable, lock, closeSent, handling, link, inbox, failures>>

SendClose(c) ==
    /\ LockedIn(c, "CLOSING")
    /\ closeSent' = [closeSent EXCEPT ![c] = TRUE]
    /\ task' = [task EXCEPT ![c] = "unlocked"]
    /\ UNCHANGED <<state, readable, lock, handling, link, inbox, failures>>

-----------------------------------------------------------------------------
(* After giving the lock back: poll the transport for a second, sleep while *)
(* waiting to reconnect, or end once the connection is closed.              *)

BackToTop(c) == task[c] = "unlocked" /\ task' = [task EXCEPT ![c] = "top"]

PollMissesLast(c) == Len(inbox[c]) > 1

poll_read(c) == inbox[c] # <<>>

Poll(c) ==
    /\ state[c] = "CONNECTED" /\ link[c] = "up"
    /\ BackToTop(c)
    /\ readable' = [readable EXCEPT ![c] = poll_read(c)]
    /\ UNCHANGED <<state, lock, closeSent, handling, link, inbox, failures>>

(* The poll may report a broken connection as an error, as readable, or     *)
(* time out without noticing it; the abort is made without the lock.        *)
PollBroken(c) ==
    /\ state[c] = "CONNECTED" /\ link[c] = "broken"
    /\ BackToTop(c)
    /\ \/ Abort(c) /\ readable' = [readable EXCEPT ![c] = FALSE]
       \/ \E r \in BOOLEAN :
             readable' = [readable EXCEPT ![c] = r] /\ UNCHANGED <<state, link, inbox>>
    /\ UNCHANGED <<lock, closeSent, handling, failures>>

NoPoll(c) ==
    /\ \/ state[c] \in {"INIT", "WAIT_TIMEOUT"}
       \/ state[c] = "CLOSING" /\ ~closeSent[c]
    /\ BackToTop(c)
    /\ UNCHANGED <<state, readable, lock, closeSent, handling, link, inbox, failures>>

TaskEnds(c) ==
    /\ task[c] = "unlocked" /\ state[c] = "CLOSING" /\ closeSent[c]
    /\ state' = [state EXCEPT ![c] = "UNKNOW"]
    /\ task' = [task EXCEPT ![c] = "none"]
    /\ link' = [link EXCEPT ![c] = "down"]
    /\ inbox' = [inbox EXCEPT ![c] = <<>>]
    /\ UNCHANGED <<readable, lock, closeSent, handling, failures>>

-----------------------------------------------------------------------------
(* esp_websocket_client_send_text, called by another task with no timeout.  *)

SendLocks(c) ==
    /\ lock[c] = "free"
    /\ lock' = [lock EXCEPT ![c] = "sender"]
    /\ UNCHANGED <<state, task, readable, closeSent, handling, link, inbox, failures>>

Unlock(c) == lock' = [lock EXCEPT ![c] = "free"]

(* The client is no longer connected: nothing is written.                   *)
SendRefused(c) ==
    /\ lock[c] = "sender" /\ ~is_connected(c)
    /\ Unlock(c)
    /\ UNCHANGED <<state, task, readable, closeSent, handling, link, inbox, failures>>

SendWrites(c) ==
    /\ lock[c] = "sender" /\ is_connected(c) /\ link[c] = "up"
    /\ Unlock(c)
    /\ UNCHANGED <<state, task, readable, closeSent, handling, link, inbox, failures>>

(* The transport fails, or the client's own task has just closed it.        *)
SendFails(c) ==
    /\ lock[c] = "sender" /\ state[c] \in {"CONNECTED", "WAIT_TIMEOUT"} /\ link[c] # "up"
    /\ Abort(c)
    /\ Unlock(c)
    /\ UNCHANGED <<task, readable, closeSent, handling, failures>>

-----------------------------------------------------------------------------
(* The network and the control unit.                                        *)

LinkBreaks(c) ==
    /\ link[c] = "up" /\ failures < MaxFailures
    /\ failures' = failures + 1
    /\ link' = [link EXCEPT ![c] = "broken"]
    /\ inbox' = [inbox EXCEPT ![c] = <<>>]
    /\ UNCHANGED <<state, task, readable, lock, closeSent, handling>>

ServerSends(c, frame) ==
    /\ link[c] = "up"
    /\ inbox' = [inbox EXCEPT ![c] = Append(@, frame)]
    /\ UNCHANGED <<state, task, readable, lock, closeSent, handling, link, failures>>

-----------------------------------------------------------------------------
(* The steps that a client's task takes on its own, outside its handlers.   *)
TaskStep(c) ==
    \/ TaskBegins(c) \/ Connect(c) \/ ConnectSucceeds(c) \/ ConnectFails(c)
    \/ PongTimeout(c) \/ SkipRead(c) \/ Recv(c) \/ SendClose(c)
    \/ Poll(c) \/ PollBroken(c) \/ NoPoll(c) \/ TaskEnds(c)
=============================================================================
