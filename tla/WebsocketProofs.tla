--------------------------- MODULE WebsocketProofs ---------------------------
(***************************************************************************)
(* Proofs about the connection to the control unit, modules Websocket and  *)
(* WsClient, for every number of clients, every length of the queue of     *)
(* replies, every limit of the control unit and however often connections  *)
(* break, close and are replaced.                                          *)
(***************************************************************************)
EXTENDS Websocket, SequenceTheorems, FiniteSetTheorems, FunctionTheorems, TLAPS

-----------------------------------------------------------------------------
(* The invariant, a conjunct at a time.                                     *)

(* The task of a client, its state and its connection.                      *)
TaskAndState ==
    \A c \in Client :
        /\ state[c] = "UNKNOW" <=> task[c] \in {"none", "created"}
        /\ task[c] = "dispatch" => state[c] = "CONNECTED"
        /\ task[c] = "connecting" => state[c] = "INIT"
        /\ link[c] # "down" => state[c] \in {"CONNECTED", "CLOSING"}
        /\ link[c] # "up" => inbox[c] = <<>>
        /\ task[c] = "top" /\ state[c] = "CONNECTED" /\ link[c] = "up" /\ readable[c] =>
               inbox[c] # <<>>

(* A client whose frames may still be handled, or that is about to be       *)
(* replaced, is the one of the global handle.                               *)
Current(c) == task[c] # "none" /\ state[c] # "CLOSING" /\ connecting[c] \in {"no", "init"}

OneCurrent ==
    /\ \A c \in Client :
          /\ connecting[c] # "no" => task[c] = "dispatch" /\ handling[c].kind = "close"
          /\ Current(c) => c = websocket_client_handle
    /\ connecting["main"] = "init" => \A c \in Client : task[c] = "none"

LoopInOrder ==
    /\ ~queueCreated => loop.pc = "none"
    /\ loop.pc \in {"none", "receive"} => data = NoReply

(* Requests and replies on their way, from the last one to the first: sent, *)
(* taken by the loop, in the queue, in a handler, in an inbox.              *)
Sent      == {sent[i] : i \in DOMAIN sent}
Taken     == IF data.kind = "echo" THEN {data.id} ELSE {}
Queued    == {reply_evt_queue[i].id : i \in {j \in DOMAIN reply_evt_queue : reply_evt_queue[j].kind = "echo"}}
Handled   == {handling[c].id : c \in {d \in Client : Handling(d, {"echo"})}}
Coming(c) == {inbox[c][i].id : i \in DOMAIN inbox[c]}

Before(S, T) == \A m \in S, n \in T : m < n

Ordered ==
    /\ \A i, j \in DOMAIN sent : i < j => sent[i] < sent[j]
    /\ \A i, j \in DOMAIN reply_evt_queue :
           i < j /\ reply_evt_queue[i].kind = "echo" /\ reply_evt_queue[j].kind = "echo" =>
               reply_evt_queue[i].id < reply_evt_queue[j].id
    /\ Before(Sent, Taken) /\ Before(Sent \cup Taken, Queued)
    /\ Before(Sent \cup Taken \cup Queued, Handled)
    /\ \A n \in Sent \cup Taken \cup Queued \cup Handled : n <= frames
    /\ \A c \in Client : Current(c) =>
          /\ \A i, j \in DOMAIN inbox[c] : i < j => inbox[c][i].id < inbox[c][j].id
          /\ Before(Sent \cup Taken \cup Queued \cup Handled, Coming(c))
          /\ \A n \in Coming(c) : n <= frames

Inv == TypeOK /\ LockHeld /\ TaskAndState /\ OneCurrent /\ LoopInOrder /\ Ordered

-----------------------------------------------------------------------------
(* The steps of a client's task outside its handlers, and of the network.   *)
TaskMoves(c) == TaskStep(c) \/ WaitTimeout(c) \/ LinkBreaks(c)

(* A readable connection that is up has a frame.                            *)
LEMMA Receives ==
    ASSUME Inv, NEW c \in Client, Recv(c)
    PROVE  /\ task[c] = "top" /\ state[c] = "CONNECTED" /\ lock[c] = "free"
           /\ UNCHANGED <<readable, closeSent, failures>>
           /\ \/ /\ link[c] = "up"
                 /\ \E frame \in Frame, rest \in Seq(Frame) :
                        /\ inbox[c] # <<>> /\ frame = Head(inbox[c]) /\ rest = Tail(inbox[c])
                        /\ inbox' = [inbox EXCEPT ![c] = rest]
                        /\ handling' = [handling EXCEPT ![c] = frame]
                 /\ lock' = [lock EXCEPT ![c] = "task"]
                 /\ task' = [task EXCEPT ![c] = "dispatch"]
                 /\ UNCHANGED <<state, link>>
              \/ /\ link[c] # "up" /\ Abort(c)
                 /\ task' = [task EXCEPT ![c] = "unlocked"]
                 /\ UNCHANGED <<lock, handling>>
<1>1. /\ task[c] = "top" /\ state[c] = "CONNECTED" /\ lock[c] = "free" /\ readable[c]
      /\ UNCHANGED <<readable, closeSent, failures>>
  BY DEF Recv, LockedIn
<1>2. CASE link[c] = "up"
  <2>1. inbox[c] \in Seq(Frame) /\ inbox[c] # <<>>
    BY <1>1, <1>2 DEF Inv, TypeOK, ClientTypeOK, TaskAndState
  <2>2. Head(inbox[c]) \in Frame /\ Tail(inbox[c]) \in Seq(Frame)
    BY <2>1, HeadTailProperties
  <2>3. /\ lock' = [lock EXCEPT ![c] = "task"]
        /\ task' = [task EXCEPT ![c] = "dispatch"]
        /\ handling' = [handling EXCEPT ![c] = Head(inbox[c])]
        /\ inbox' = [inbox EXCEPT ![c] = Tail(inbox[c])]
        /\ UNCHANGED <<state, link>>
    BY <1>2 DEF Recv, Dispatch
  <2>4. QED
    BY <1>1, <1>2, <2>1, <2>2, <2>3
<1>3. CASE link[c] # "up"
  <2>1. /\ Abort(c)
        /\ task' = [task EXCEPT ![c] = "unlocked"]
        /\ UNCHANGED <<lock, handling>>
    BY <1>3 DEF Recv
  <2>2. QED
    BY <1>1, <1>3, <2>1
<1>4. QED
  BY <1>2, <1>3

LEMMA MoveTyped ==
    ASSUME Inv, NEW c \in Client, TaskMoves(c), UNCHANGED own
    PROVE  ClientTypeOK'
<1>1. CASE TaskBegins(c)
  BY <1>1 DEF TaskBegins, Inv, TypeOK, ClientTypeOK
<1>2. CASE Connect(c)
  BY <1>2 DEF Connect, LockedIn, Inv, TypeOK, ClientTypeOK
<1>3. CASE ConnectSucceeds(c)
  BY <1>3 DEF ConnectSucceeds, Dispatch, Inv, TypeOK, ClientTypeOK
<1>4. CASE ConnectFails(c)
  BY <1>4, ClientAssumption DEF ConnectFails, Abort, Inv, TypeOK, ClientTypeOK
<1>5. CASE PongTimeout(c)
  BY <1>5 DEF PongTimeout, LockedIn, Abort, Inv, TypeOK, ClientTypeOK
<1>6. CASE SkipRead(c)
  BY <1>6 DEF SkipRead, LockedIn, Inv, TypeOK, ClientTypeOK
<1>7. CASE Recv(c)
  <2>1. CASE link[c] = "up"
    <3>1. PICK frame \in Frame, rest \in Seq(Frame) :
              /\ inbox' = [inbox EXCEPT ![c] = rest]
              /\ handling' = [handling EXCEPT ![c] = frame]
      BY <1>7, <2>1, Receives
    <3>2. /\ lock' = [lock EXCEPT ![c] = "task"] /\ task' = [task EXCEPT ![c] = "dispatch"]
          /\ UNCHANGED <<state, link, readable, closeSent, failures>>
      BY <1>7, <2>1, Receives
    <3>3. QED
      BY <3>1, <3>2 DEF Inv, TypeOK, ClientTypeOK
  <2>2. CASE link[c] # "up"
    <3>1. /\ Abort(c) /\ task' = [task EXCEPT ![c] = "unlocked"]
          /\ UNCHANGED <<lock, handling, readable, closeSent, failures>>
      BY <1>7, <2>2, Receives
    <3>2. QED
      BY <3>1 DEF Inv, TypeOK, ClientTypeOK, Abort
  <2>3. QED
    BY <2>1, <2>2
<1>8. CASE SendClose(c)
  BY <1>8 DEF SendClose, LockedIn, Inv, TypeOK, ClientTypeOK
<1>9. CASE Poll(c)
  BY <1>9 DEF Poll, BackToTop, poll_read, Inv, TypeOK, ClientTypeOK
<1>10. CASE PollBroken(c)
  <2>1. PICK r \in BOOLEAN : readable' = [readable EXCEPT ![c] = r]
    BY <1>10 DEF PollBroken
  <2>2. readable' \in [Client -> BOOLEAN]
    BY <2>1 DEF Inv, TypeOK, ClientTypeOK
  <2>3. /\ state' \in [Client -> {"UNKNOW", "INIT", "CONNECTED", "WAIT_TIMEOUT", "CLOSING"}]
        /\ link' \in [Client -> {"down", "up", "broken"}] /\ inbox' \in [Client -> Seq(Frame)]
    <3>1. CASE Abort(c)
      BY <3>1 DEF Abort, Inv, TypeOK, ClientTypeOK
    <3>2. CASE UNCHANGED <<state, link, inbox>>
      BY <3>2 DEF Inv, TypeOK, ClientTypeOK
    <3>3. QED
      BY <1>10, <3>1, <3>2 DEF PollBroken
  <2>4. task' \in [Client -> {"none", "created", "top", "connecting", "dispatch", "unlocked"}]
    BY <1>10 DEF PollBroken, BackToTop, Inv, TypeOK, ClientTypeOK
  <2>5. QED
    BY <1>10, <2>2, <2>3, <2>4 DEF PollBroken, Inv, TypeOK, ClientTypeOK
<1>11. CASE NoPoll(c)
  BY <1>11 DEF NoPoll, BackToTop, Inv, TypeOK, ClientTypeOK
<1>12. CASE TaskEnds(c)
  BY <1>12 DEF TaskEnds, Inv, TypeOK, ClientTypeOK
<1>13. CASE WaitTimeout(c)
  BY <1>13 DEF WaitTimeout, LockedIn, Inv, TypeOK, ClientTypeOK
<1>14. CASE LinkBreaks(c)
  BY <1>14, ClientAssumption DEF LinkBreaks, Inv, TypeOK, ClientTypeOK
<1>15. QED
  BY <1>1, <1>2, <1>3, <1>4, <1>5, <1>6, <1>7, <1>8, <1>9, <1>10, <1>11, <1>12, <1>13, <1>14 DEF TaskMoves, TaskStep

LEMMA MoveLock ==
    ASSUME Inv, NEW c \in Client, TaskMoves(c), UNCHANGED own
    PROVE  LockHeld'
<1>1. CASE TaskBegins(c)
  BY <1>1 DEF TaskBegins, Inv, TypeOK, ClientTypeOK, LockHeld, OneCurrent, own
<1>2. CASE Connect(c)
  BY <1>2 DEF Connect, LockedIn, Inv, TypeOK, ClientTypeOK, LockHeld, OneCurrent, own
<1>3. CASE ConnectSucceeds(c)
  BY <1>3 DEF ConnectSucceeds, Dispatch, Inv, TypeOK, ClientTypeOK, LockHeld, OneCurrent, own
<1>4. CASE ConnectFails(c)
  BY <1>4 DEF ConnectFails, Abort, Inv, TypeOK, ClientTypeOK, LockHeld, OneCurrent, own
<1>5. CASE PongTimeout(c)
  BY <1>5 DEF PongTimeout, LockedIn, Abort, Inv, TypeOK, ClientTypeOK, LockHeld, OneCurrent, own
<1>6. CASE SkipRead(c)
  BY <1>6 DEF SkipRead, LockedIn, Inv, TypeOK, ClientTypeOK, LockHeld, OneCurrent, own
<1>7. CASE Recv(c)
  <2>1. CASE link[c] = "up"
    BY <1>7, <2>1, Receives DEF Inv, TypeOK, ClientTypeOK, LockHeld, OneCurrent, own
  <2>2. CASE link[c] # "up"
    BY <1>7, <2>2, Receives DEF Inv, TypeOK, ClientTypeOK, LockHeld, OneCurrent, own, Abort
  <2>3. QED
    BY <2>1, <2>2
<1>8. CASE SendClose(c)
  BY <1>8 DEF SendClose, LockedIn, Inv, TypeOK, ClientTypeOK, LockHeld, OneCurrent, own
<1>9. CASE Poll(c)
  BY <1>9 DEF Poll, BackToTop, poll_read, Inv, TypeOK, ClientTypeOK, LockHeld, OneCurrent, own
<1>10. CASE PollBroken(c)
  BY <1>10 DEF PollBroken, BackToTop, Abort, Inv, TypeOK, ClientTypeOK, LockHeld, OneCurrent, own
<1>11. CASE NoPoll(c)
  BY <1>11 DEF NoPoll, BackToTop, Inv, TypeOK, ClientTypeOK, LockHeld, OneCurrent, own
<1>12. CASE TaskEnds(c)
  BY <1>12 DEF TaskEnds, Inv, TypeOK, ClientTypeOK, LockHeld, OneCurrent, own
<1>13. CASE WaitTimeout(c)
  BY <1>13 DEF WaitTimeout, LockedIn, Inv, TypeOK, ClientTypeOK, LockHeld, OneCurrent, own
<1>14. CASE LinkBreaks(c)
  BY <1>14 DEF LinkBreaks, Inv, TypeOK, ClientTypeOK, LockHeld, OneCurrent, own
<1>15. QED
  BY <1>1, <1>2, <1>3, <1>4, <1>5, <1>6, <1>7, <1>8, <1>9, <1>10, <1>11, <1>12, <1>13, <1>14 DEF TaskMoves, TaskStep

LEMMA MoveTask ==
    ASSUME Inv, NEW c \in Client, TaskMoves(c), UNCHANGED own
    PROVE  TaskAndState'
<1>1. CASE TaskBegins(c)
  BY <1>1 DEF TaskBegins, Inv, TypeOK, ClientTypeOK, TaskAndState
<1>2. CASE Connect(c)
  BY <1>2 DEF Connect, LockedIn, Inv, TypeOK, ClientTypeOK, TaskAndState
<1>3. CASE ConnectSucceeds(c)
  BY <1>3 DEF ConnectSucceeds, Dispatch, Inv, TypeOK, ClientTypeOK, TaskAndState
<1>4. CASE ConnectFails(c)
  BY <1>4 DEF ConnectFails, Abort, Inv, TypeOK, ClientTypeOK, TaskAndState
<1>5. CASE PongTimeout(c)
  BY <1>5 DEF PongTimeout, LockedIn, Abort, Inv, TypeOK, ClientTypeOK, TaskAndState
<1>6. CASE SkipRead(c)
  BY <1>6 DEF SkipRead, LockedIn, Inv, TypeOK, ClientTypeOK, TaskAndState
<1>7. CASE Recv(c)
  BY <1>7 DEF Recv, LockedIn, Abort, Dispatch, Inv, TypeOK, ClientTypeOK, TaskAndState
<1>8. CASE SendClose(c)
  BY <1>8 DEF SendClose, LockedIn, Inv, TypeOK, ClientTypeOK, TaskAndState
<1>9. CASE Poll(c)
  <2>1. /\ task' = [task EXCEPT ![c] = "top"] /\ task[c] = "unlocked"
        /\ UNCHANGED <<state, link, inbox>>
    BY <1>9 DEF Poll, BackToTop
  <2>2. readable'[c] => inbox[c] # <<>>
    BY <1>9 DEF Poll, poll_read, Inv, TypeOK, ClientTypeOK
  <2>3. \A d \in Client \ {c} : readable'[d] = readable[d]
    BY <1>9 DEF Poll, Inv, TypeOK, ClientTypeOK
  <2>4. QED
    BY <2>1, <2>2, <2>3 DEF Inv, TypeOK, ClientTypeOK, TaskAndState
<1>10. CASE PollBroken(c)
  BY <1>10 DEF PollBroken, BackToTop, Abort, Inv, TypeOK, ClientTypeOK, TaskAndState
<1>11. CASE NoPoll(c)
  BY <1>11 DEF NoPoll, BackToTop, Inv, TypeOK, ClientTypeOK, TaskAndState
<1>12. CASE TaskEnds(c)
  BY <1>12 DEF TaskEnds, Inv, TypeOK, ClientTypeOK, TaskAndState
<1>13. CASE WaitTimeout(c)
  BY <1>13 DEF WaitTimeout, LockedIn, Inv, TypeOK, ClientTypeOK, TaskAndState
<1>14. CASE LinkBreaks(c)
  BY <1>14 DEF LinkBreaks, Inv, TypeOK, ClientTypeOK, TaskAndState
<1>15. QED
  BY <1>1, <1>2, <1>3, <1>4, <1>5, <1>6, <1>7, <1>8, <1>9, <1>10, <1>11, <1>12, <1>13, <1>14 DEF TaskMoves, TaskStep

LEMMA MoveCurrent ==
    ASSUME Inv, NEW c \in Client, TaskMoves(c), UNCHANGED own
    PROVE  OneCurrent'
<1>1. CASE TaskBegins(c)
  BY <1>1 DEF TaskBegins, Inv, TypeOK, ClientTypeOK, TaskAndState, OneCurrent, Current, own
<1>2. CASE Connect(c)
  BY <1>2 DEF Connect, LockedIn, Inv, TypeOK, ClientTypeOK, TaskAndState, OneCurrent, Current, own
<1>3. CASE ConnectSucceeds(c)
  BY <1>3 DEF ConnectSucceeds, Dispatch, Inv, TypeOK, ClientTypeOK, TaskAndState, OneCurrent, Current, own
<1>4. CASE ConnectFails(c)
  BY <1>4 DEF ConnectFails, Abort, Inv, TypeOK, ClientTypeOK, TaskAndState, OneCurrent, Current, own
<1>5. CASE PongTimeout(c)
  BY <1>5 DEF PongTimeout, LockedIn, Abort, Inv, TypeOK, ClientTypeOK, TaskAndState, OneCurrent, Current, own
<1>6. CASE SkipRead(c)
  BY <1>6 DEF SkipRead, LockedIn, Inv, TypeOK, ClientTypeOK, TaskAndState, OneCurrent, Current, own
<1>7. CASE Recv(c)
  <2>1. CASE link[c] = "up"
    <3>1. /\ task[c] = "top" /\ UNCHANGED state
          /\ task' = [task EXCEPT ![c] = "dispatch"]
          /\ \E frame \in Frame : handling' = [handling EXCEPT ![c] = frame]
      BY <1>7, <2>1, Receives
    <3>2. UNCHANGED <<connecting, websocket_client_handle>>
      BY DEF own
    <3>3. connecting[c] = "no" /\ connecting["main"] # "init"
      BY <3>1 DEF Inv, TypeOK, OneCurrent, Caller
    <3>4. \A d \in Client : Current(d)' <=> Current(d)
      BY <3>1, <3>2 DEF Current, Inv, TypeOK, ClientTypeOK
    <3>5. \A d \in Client : connecting[d] # "no" => task'[d] = "dispatch" /\ handling'[d].kind = "close"
      BY <3>1, <3>3 DEF Inv, TypeOK, ClientTypeOK, OneCurrent
    <3>6. QED
      BY <3>2, <3>3, <3>4, <3>5 DEF Inv, OneCurrent
  <2>2. CASE link[c] # "up"
    <3>1. /\ Abort(c) /\ task' = [task EXCEPT ![c] = "unlocked"]
          /\ task[c] = "top" /\ state[c] = "CONNECTED" /\ UNCHANGED handling
      BY <1>7, <2>2, Receives
    <3>2. QED
      BY <2>2, <3>1 DEF Inv, TypeOK, ClientTypeOK, TaskAndState, OneCurrent, Current, own, Abort
  <2>3. QED
    BY <2>1, <2>2
<1>8. CASE SendClose(c)
  BY <1>8 DEF SendClose, LockedIn, Inv, TypeOK, ClientTypeOK, TaskAndState, OneCurrent, Current, own
<1>9. CASE Poll(c)
  BY <1>9 DEF Poll, BackToTop, poll_read, Inv, TypeOK, ClientTypeOK, TaskAndState, OneCurrent, Current, own
<1>10. CASE PollBroken(c)
  BY <1>10 DEF PollBroken, BackToTop, Abort, Inv, TypeOK, ClientTypeOK, TaskAndState, OneCurrent, Current, own
<1>11. CASE NoPoll(c)
  BY <1>11 DEF NoPoll, BackToTop, Inv, TypeOK, ClientTypeOK, TaskAndState, OneCurrent, Current, own
<1>12. CASE TaskEnds(c)
  BY <1>12 DEF TaskEnds, Inv, TypeOK, ClientTypeOK, TaskAndState, OneCurrent, Current, own
<1>13. CASE WaitTimeout(c)
  BY <1>13 DEF WaitTimeout, LockedIn, Inv, TypeOK, ClientTypeOK, TaskAndState, OneCurrent, Current, own
<1>14. CASE LinkBreaks(c)
  BY <1>14 DEF LinkBreaks, Inv, TypeOK, ClientTypeOK, TaskAndState, OneCurrent, Current, own
<1>15. QED
  BY <1>1, <1>2, <1>3, <1>4, <1>5, <1>6, <1>7, <1>8, <1>9, <1>10, <1>11, <1>12, <1>13, <1>14 DEF TaskMoves, TaskStep

(* Nothing new is on its way, and a reply passes in its turn.               *)
LEMMA OrderPassed ==
    ASSUME Inv, UNCHANGED <<reply_evt_queue, frames>>,
           Sent' \cup Taken' \subseteq Sent \cup Taken, Before(Sent', Taken'),
           \A i, j \in DOMAIN sent' : i < j => sent'[i] < sent'[j],
           \A c \in Client : Current(c)' =>
               inbox'[c] = <<>> \/ (Current(c) /\ inbox'[c] = inbox[c]),
           \A c \in Client : Handling(c, {"echo"})' =>
               Handling(c, {"echo"}) /\ handling'[c] = handling[c]
    PROVE  Ordered'
<1>1. Ordered
  BY DEF Inv
<1>2. Queued' = Queued
  BY DEF Queued
<1>3. Handled' \subseteq Handled
  BY DEF Handled
<1>4. ASSUME NEW c \in Client, Current(c)'
      PROVE  /\ \A i, j \in DOMAIN inbox'[c] : i < j => inbox'[c][i].id < inbox'[c][j].id
             /\ Before(Sent \cup Taken \cup Queued \cup Handled, Coming(c)')
             /\ \A n \in Coming(c)' : n <= frames
  <2>1. CASE inbox'[c] = <<>>
    <3>1. DOMAIN inbox'[c] = {}
      BY <2>1
    <3>2. Coming(c)' = {}
      BY <3>1 DEF Coming
    <3>3. QED
      BY <3>1, <3>2 DEF Before
  <2>2. CASE Current(c) /\ inbox'[c] = inbox[c]
    BY <1>1, <2>2 DEF Ordered, Coming
  <2>3. QED
    BY <1>4, <2>1, <2>2
<1>5. /\ Before(Sent' \cup Taken', Queued')
      /\ Before(Sent' \cup Taken' \cup Queued', Handled')
      /\ \A n \in Sent' \cup Taken' \cup Queued' \cup Handled' : n <= frames'
  BY <1>1, <1>2, <1>3 DEF Ordered, Before
<1>6. \A c \in Client : Current(c)' =>
          /\ \A i, j \in DOMAIN inbox'[c] : i < j => inbox'[c][i].id < inbox'[c][j].id
          /\ Before(Sent' \cup Taken' \cup Queued' \cup Handled', Coming(c)')
          /\ \A n \in Coming(c)' : n <= frames'
  BY <1>2, <1>3, <1>4 DEF Before
<1>7. QED
  BY <1>1, <1>5, <1>6 DEF Ordered, Before

LEMMA OrderKept ==
    ASSUME Inv, UNCHANGED <<sent, data, reply_evt_queue, frames>>,
           \A c \in Client : Current(c)' =>
               inbox'[c] = <<>> \/ (Current(c) /\ inbox'[c] = inbox[c]),
           \A c \in Client : Handling(c, {"echo"})' =>
               Handling(c, {"echo"}) /\ handling'[c] = handling[c]
    PROVE  Ordered'
<1>1. Sent' = Sent /\ Taken' = Taken
  BY DEF Sent, Taken
<1>2. Before(Sent', Taken') /\ \A i, j \in DOMAIN sent' : i < j => sent'[i] < sent'[j]
  BY <1>1 DEF Inv, Ordered, Before
<1>3. QED
  BY <1>1, <1>2, OrderPassed

LEMMA MoveOrdered ==
    ASSUME Inv, NEW c \in Client, TaskMoves(c), ~Recv(c), UNCHANGED own
    PROVE  Ordered'
<1>1. UNCHANGED <<sent, data, reply_evt_queue, frames, connecting>>
  BY DEF own
<1>2. CASE TaskBegins(c)
  <2>1. \A d \in Client : Current(d)' => inbox'[d] = <<>> \/ (Current(d) /\ inbox'[d] = inbox[d])
    BY <1>2, <1>1 DEF TaskBegins, Current, Inv, TypeOK, ClientTypeOK, TaskAndState
  <2>2. \A d \in Client : Handling(d, {"echo"})' => Handling(d, {"echo"}) /\ handling'[d] = handling[d]
    BY <1>2 DEF TaskBegins, Handling, Connected, Inv, TypeOK, ClientTypeOK
  <2>3. QED
    BY <1>1, <2>1, <2>2, OrderKept
<1>3. CASE Connect(c)
  <2>1. \A d \in Client : Current(d)' => inbox'[d] = <<>> \/ (Current(d) /\ inbox'[d] = inbox[d])
    BY <1>3, <1>1 DEF Connect, LockedIn, Current, Inv, TypeOK, ClientTypeOK, TaskAndState
  <2>2. \A d \in Client : Handling(d, {"echo"})' => Handling(d, {"echo"}) /\ handling'[d] = handling[d]
    BY <1>3 DEF Connect, LockedIn, Handling, Connected, Inv, TypeOK, ClientTypeOK
  <2>3. QED
    BY <1>1, <2>1, <2>2, OrderKept
<1>4. CASE ConnectSucceeds(c)
  <2>1. \A d \in Client : Current(d)' => inbox'[d] = <<>> \/ (Current(d) /\ inbox'[d] = inbox[d])
    BY <1>4, <1>1 DEF ConnectSucceeds, Dispatch, Current, Inv, TypeOK, ClientTypeOK, TaskAndState
  <2>2. \A d \in Client : Handling(d, {"echo"})' => Handling(d, {"echo"}) /\ handling'[d] = handling[d]
    BY <1>4 DEF ConnectSucceeds, Dispatch, Handling, Connected, Inv, TypeOK, ClientTypeOK
  <2>3. QED
    BY <1>1, <2>1, <2>2, OrderKept
<1>5. CASE ConnectFails(c)
  <2>1. \A d \in Client : Current(d)' => inbox'[d] = <<>> \/ (Current(d) /\ inbox'[d] = inbox[d])
    BY <1>5, <1>1 DEF ConnectFails, Abort, Current, Inv, TypeOK, ClientTypeOK, TaskAndState
  <2>2. \A d \in Client : Handling(d, {"echo"})' => Handling(d, {"echo"}) /\ handling'[d] = handling[d]
    BY <1>5 DEF ConnectFails, Abort, Handling, Connected, Inv, TypeOK, ClientTypeOK
  <2>3. QED
    BY <1>1, <2>1, <2>2, OrderKept
<1>6. CASE PongTimeout(c)
  <2>1. \A d \in Client : Current(d)' => inbox'[d] = <<>> \/ (Current(d) /\ inbox'[d] = inbox[d])
    BY <1>6, <1>1 DEF PongTimeout, LockedIn, Abort, Current, Inv, TypeOK, ClientTypeOK, TaskAndState
  <2>2. \A d \in Client : Handling(d, {"echo"})' => Handling(d, {"echo"}) /\ handling'[d] = handling[d]
    BY <1>6 DEF PongTimeout, LockedIn, Abort, Handling, Connected, Inv, TypeOK, ClientTypeOK
  <2>3. QED
    BY <1>1, <2>1, <2>2, OrderKept
<1>7. CASE SkipRead(c)
  <2>1. \A d \in Client : Current(d)' => inbox'[d] = <<>> \/ (Current(d) /\ inbox'[d] = inbox[d])
    BY <1>7, <1>1 DEF SkipRead, LockedIn, Current, Inv, TypeOK, ClientTypeOK, TaskAndState
  <2>2. \A d \in Client : Handling(d, {"echo"})' => Handling(d, {"echo"}) /\ handling'[d] = handling[d]
    BY <1>7 DEF SkipRead, LockedIn, Handling, Connected, Inv, TypeOK, ClientTypeOK
  <2>3. QED
    BY <1>1, <2>1, <2>2, OrderKept
<1>8. CASE SendClose(c)
  <2>1. \A d \in Client : Current(d)' => inbox'[d] = <<>> \/ (Current(d) /\ inbox'[d] = inbox[d])
    BY <1>8, <1>1 DEF SendClose, LockedIn, Current, Inv, TypeOK, ClientTypeOK, TaskAndState
  <2>2. \A d \in Client : Handling(d, {"echo"})' => Handling(d, {"echo"}) /\ handling'[d] = handling[d]
    BY <1>8 DEF SendClose, LockedIn, Handling, Connected, Inv, TypeOK, ClientTypeOK
  <2>3. QED
    BY <1>1, <2>1, <2>2, OrderKept
<1>9. CASE Poll(c)
  <2>1. \A d \in Client : Current(d)' => inbox'[d] = <<>> \/ (Current(d) /\ inbox'[d] = inbox[d])
    BY <1>9, <1>1 DEF Poll, BackToTop, Current, Inv, TypeOK, ClientTypeOK, TaskAndState
  <2>2. \A d \in Client : Handling(d, {"echo"})' => Handling(d, {"echo"}) /\ handling'[d] = handling[d]
    BY <1>9 DEF Poll, BackToTop, Handling, Connected, Inv, TypeOK, ClientTypeOK
  <2>3. QED
    BY <1>1, <2>1, <2>2, OrderKept
<1>10. CASE PollBroken(c)
  <2>1. \A d \in Client : Current(d)' => inbox'[d] = <<>> \/ (Current(d) /\ inbox'[d] = inbox[d])
    BY <1>10, <1>1 DEF PollBroken, BackToTop, Abort, Current, Inv, TypeOK, ClientTypeOK, TaskAndState
  <2>2. \A d \in Client : Handling(d, {"echo"})' => Handling(d, {"echo"}) /\ handling'[d] = handling[d]
    BY <1>10 DEF PollBroken, BackToTop, Abort, Handling, Connected, Inv, TypeOK, ClientTypeOK
  <2>3. QED
    BY <1>1, <2>1, <2>2, OrderKept
<1>11. CASE NoPoll(c)
  <2>1. \A d \in Client : Current(d)' => inbox'[d] = <<>> \/ (Current(d) /\ inbox'[d] = inbox[d])
    BY <1>11, <1>1 DEF NoPoll, BackToTop, Current, Inv, TypeOK, ClientTypeOK, TaskAndState
  <2>2. \A d \in Client : Handling(d, {"echo"})' => Handling(d, {"echo"}) /\ handling'[d] = handling[d]
    BY <1>11 DEF NoPoll, BackToTop, Handling, Connected, Inv, TypeOK, ClientTypeOK
  <2>3. QED
    BY <1>1, <2>1, <2>2, OrderKept
<1>12. CASE TaskEnds(c)
  <2>1. \A d \in Client : Current(d)' => inbox'[d] = <<>> \/ (Current(d) /\ inbox'[d] = inbox[d])
    BY <1>12, <1>1 DEF TaskEnds, Current, Inv, TypeOK, ClientTypeOK, TaskAndState
  <2>2. \A d \in Client : Handling(d, {"echo"})' => Handling(d, {"echo"}) /\ handling'[d] = handling[d]
    BY <1>12 DEF TaskEnds, Handling, Connected, Inv, TypeOK, ClientTypeOK
  <2>3. QED
    BY <1>1, <2>1, <2>2, OrderKept
<1>13. CASE WaitTimeout(c)
  <2>1. \A d \in Client : Current(d)' => inbox'[d] = <<>> \/ (Current(d) /\ inbox'[d] = inbox[d])
    BY <1>13, <1>1 DEF WaitTimeout, LockedIn, Current, Inv, TypeOK, ClientTypeOK, TaskAndState
  <2>2. \A d \in Client : Handling(d, {"echo"})' => Handling(d, {"echo"}) /\ handling'[d] = handling[d]
    BY <1>13 DEF WaitTimeout, LockedIn, Handling, Connected, Inv, TypeOK, ClientTypeOK
  <2>3. QED
    BY <1>1, <2>1, <2>2, OrderKept
<1>14. CASE LinkBreaks(c)
  <2>1. \A d \in Client : Current(d)' => inbox'[d] = <<>> \/ (Current(d) /\ inbox'[d] = inbox[d])
    BY <1>14, <1>1 DEF LinkBreaks, Current, Inv, TypeOK, ClientTypeOK, TaskAndState
  <2>2. \A d \in Client : Handling(d, {"echo"})' => Handling(d, {"echo"}) /\ handling'[d] = handling[d]
    BY <1>14 DEF LinkBreaks, Handling, Connected, Inv, TypeOK, ClientTypeOK
  <2>3. QED
    BY <1>1, <2>1, <2>2, OrderKept
<1>15. QED
  BY <1>2, <1>3, <1>4, <1>5, <1>6, <1>7, <1>8, <1>9, <1>10, <1>11, <1>12, <1>13, <1>14 DEF TaskMoves, TaskStep

(* The frame that came first is handled: what is on its way stays in order. *)
LEMMA ReceiveOrdered == ASSUME Inv, NEW c \in Client, Recv(c), UNCHANGED own PROVE Ordered'
<1>1. Ordered /\ UNCHANGED <<sent, data, reply_evt_queue, frames, connecting>>
  BY DEF Inv, own
<1>2. CASE link[c] # "up"
  <2>1. /\ Abort(c) /\ task' = [task EXCEPT ![c] = "unlocked"]
        /\ task[c] = "top" /\ state[c] = "CONNECTED" /\ UNCHANGED handling
    BY <1>2, Receives
  <2>2. \A d \in Client : Current(d)' => inbox'[d] = <<>> \/ (Current(d) /\ inbox'[d] = inbox[d])
    BY <1>1, <2>1 DEF Abort, Current, Inv, TypeOK, ClientTypeOK
  <2>3. \A d \in Client : Handling(d, {"echo"})' => Handling(d, {"echo"}) /\ handling'[d] = handling[d]
    BY <2>1 DEF Handling, Inv, TypeOK, ClientTypeOK
  <2>4. QED
    BY <1>1, <2>2, <2>3, OrderKept
<1>3. CASE link[c] = "up"
  <2>1. PICK frame \in Frame, rest \in Seq(Frame) :
            /\ inbox[c] # <<>> /\ frame = Head(inbox[c]) /\ rest = Tail(inbox[c])
            /\ inbox' = [inbox EXCEPT ![c] = rest]
            /\ handling' = [handling EXCEPT ![c] = frame]
    BY <1>3, Receives
  <2>2. /\ task[c] = "top" /\ state[c] = "CONNECTED"
        /\ task' = [task EXCEPT ![c] = "dispatch"] /\ UNCHANGED state
    BY <1>3, Receives
  <2>3. connecting[c] = "no" /\ Current(c)
    BY <2>2 DEF Inv, OneCurrent, Current, TypeOK, Caller
  <2>4. \A d \in Client : Current(d)' <=> Current(d)
    BY <1>1, <2>2 DEF Current, Inv, TypeOK, ClientTypeOK
  <2>5. Handled = {}
    <3>1. ASSUME NEW d \in Client, Handling(d, {"echo"}) PROVE FALSE
      <4>1. task[d] = "dispatch" /\ handling[d].kind = "echo"
        BY <3>1 DEF Handling
      <4>2. connecting[d] = "no" /\ state[d] = "CONNECTED"
        BY <4>1 DEF Inv, OneCurrent, TaskAndState
      <4>3. Current(d)
        BY <4>1, <4>2 DEF Current
      <4>4. d = c
        BY <2>3, <4>3 DEF Inv, OneCurrent
      <4>5. QED
        BY <2>2, <4>1, <4>4
    <3>2. QED
      BY <3>1 DEF Handled
  <2>6. Handled' \subseteq {frame.id}
    <3>1. ASSUME NEW d \in Client, Handling(d, {"echo"})' PROVE handling'[d].id = frame.id
      <4>1. CASE d = c
        BY <2>1, <4>1 DEF Inv, TypeOK, ClientTypeOK
      <4>2. CASE d # c
        <5>1. Handling(d, {"echo"})
          BY <2>1, <2>2, <3>1, <4>2 DEF Handling, Inv, TypeOK, ClientTypeOK
        <5>2. QED
          BY <2>5, <5>1 DEF Handled
      <4>3. QED
        BY <4>1, <4>2
    <3>2. QED
      BY <3>1 DEF Handled
  <2>7. Sent' = Sent /\ Taken' = Taken /\ Queued' = Queued
    BY <1>1 DEF Sent, Taken, Queued
  <2>8. /\ frame = inbox[c][1] /\ 1 \in DOMAIN inbox[c]
        /\ \A i \in DOMAIN rest : i \in Nat /\ i + 1 \in DOMAIN inbox[c] /\ rest[i] = inbox[c][i + 1]
        /\ \A i \in DOMAIN rest : 1 < i + 1
    <3>1. inbox[c] \in Seq(Frame)
      BY DEF Inv, TypeOK, ClientTypeOK
    <3>2. QED
      BY <2>1, <3>1, HeadTailProperties, LenProperties
  <2>9. /\ \A i, j \in DOMAIN inbox[c] : i < j => inbox[c][i].id < inbox[c][j].id
        /\ Before(Sent \cup Taken \cup Queued \cup Handled, Coming(c))
        /\ \A n \in Coming(c) : n <= frames
    BY <1>1, <2>3 DEF Ordered
  <2>10. frame.id \in Coming(c) /\ inbox'[c] = rest
    BY <2>1, <2>8 DEF Coming, Inv, TypeOK, ClientTypeOK
  <2>11. Coming(c)' \subseteq Coming(c) /\ \A n \in Coming(c)' : frame.id < n
    BY <2>8, <2>9, <2>10 DEF Coming
  <2>12. \A i, j \in DOMAIN inbox'[c] : i < j => inbox'[c][i].id < inbox'[c][j].id
    BY <2>8, <2>9, <2>10
  <2>13. \A d \in Client : Current(d)' => d = c
    BY <2>3, <2>4 DEF Inv, OneCurrent
  <2>14. /\ Before(Sent', Taken') /\ Before(Sent' \cup Taken', Queued')
         /\ Before(Sent' \cup Taken' \cup Queued', Handled')
         /\ \A n \in Sent' \cup Taken' \cup Queued' \cup Handled' : n <= frames'
    BY <1>1, <2>6, <2>7, <2>9, <2>10 DEF Ordered, Before
  <2>15. /\ Before(Sent' \cup Taken' \cup Queued' \cup Handled', Coming(c)')
         /\ \A n \in Coming(c)' : n <= frames'
    BY <1>1, <2>6, <2>7, <2>9, <2>11 DEF Before
  <2>16. QED
    BY <1>1, <2>12, <2>13, <2>14, <2>15 DEF Ordered, Before
<1>4. QED
  BY <1>2, <1>3

LEMMA InvMove == ASSUME Inv, NEW c \in Client, TaskMoves(c), UNCHANGED own PROVE Inv'
<1>1. TypeOK' /\ LoopInOrder'
  BY MoveTyped DEF Inv, TypeOK, LoopInOrder, own
<1>2. QED
  BY <1>1, MoveLock, MoveTask, MoveCurrent, MoveOrdered, ReceiveOrdered DEF Inv

-----------------------------------------------------------------------------
LEMMA InvInit == Init => Inv
<1> SUFFICES ASSUME Init PROVE Inv
    OBVIOUS
<1>1. TypeOK
  <2>1. <<>> \in Seq(Frame) /\ <<>> \in Seq(Reply) /\ <<>> \in Seq(Nat) /\ Len(<<>>) = 0
    OBVIOUS
  <2>2. readable \in [Client -> BOOLEAN] /\ closeSent \in [Client -> BOOLEAN]
    BY DEF Init, ClientInit
  <2>3. ClientTypeOK
    BY <2>1, <2>2, ClientAssumption DEF Init, ClientInit, ClientTypeOK
  <2>4. /\ connecting \in [Caller -> {"no", "init", "check", "start", "delay", "done"}]
        /\ loop \in [pc : {"none", "receive", "check", "send", "lock", "locked"},
                     client : Client \cup {NoClient}]
    BY DEF Init
  <2>5. queueCreated \in BOOLEAN /\ data \in Reply \cup {NoReply}
    BY DEF Init
  <2>6. QED
    BY <2>1, <2>3, <2>4, <2>5, ReplyLenAssumption DEF Init, TypeOK
<1>2. LockHeld /\ TaskAndState
  BY NoClientAssumption DEF Init, ClientInit, LockHeld, TaskAndState, Caller
<1>3. OneCurrent /\ LoopInOrder
  BY NoClientAssumption DEF Init, ClientInit, OneCurrent, Current, LoopInOrder, Caller
<1>4. Ordered
  <2>1. Sent = {} /\ Taken = {} /\ Queued = {}
    BY DEF Init, Sent, Taken, Queued, NoReply
  <2>2. Handled = {}
    BY DEF Init, ClientInit, Handled, Handling
  <2>3. \A c \in Client : ~Current(c)
    BY DEF Init, ClientInit, Current
  <2>4. QED
    BY <2>1, <2>2, <2>3 DEF Init, Ordered, Before
<1>5. QED
  BY <1>1, <1>2, <1>3, <1>4 DEF Inv

-----------------------------------------------------------------------------
(* The handlers.                                                            *)
LEMMA Returned ==
    ASSUME Inv, NEW c \in Client, Return(c), connecting[c] \in {"no", "done"},
           connecting' = [connecting EXCEPT ![c] = "no"],
           UNCHANGED <<websocket_client_handle, loop, queueCreated>>
    PROVE  ClientTypeOK' /\ LockHeld' /\ TaskAndState' /\ OneCurrent'
<1>1. /\ task[c] = "dispatch" /\ state[c] = "CONNECTED" /\ lock[c] = "task"
      /\ handling[c].kind = "close" => state'[c] = "CLOSING"
      /\ connecting[c] # "no" => handling[c].kind = "close"
      /\ c # "main"
  BY NoClientAssumption DEF Return, Inv, TypeOK, ClientTypeOK, LockHeld, TaskAndState, OneCurrent
<1>2. ClientTypeOK'
  BY DEF Return, Inv, TypeOK, ClientTypeOK, Nothing
<1>3. LockHeld'
  <2>1. /\ task' = [task EXCEPT ![c] = "unlocked"] /\ lock' = [lock EXCEPT ![c] = "free"]
        /\ connecting'[c] = "no" /\ \A d \in Client \ {c} : connecting'[d] = connecting[d]
    BY DEF Return, Inv, TypeOK, Caller
  <2>2. ~(loop.pc = "locked" /\ loop.client = c)
    BY <1>1 DEF Inv, LockHeld
  <2>3. QED
    BY <2>1, <2>2 DEF Inv, TypeOK, ClientTypeOK, LockHeld
<1>4. TaskAndState'
  BY <1>1 DEF Return, Inv, TypeOK, ClientTypeOK, TaskAndState
<1>5. OneCurrent'
  <2>1. \A d \in Client : connecting'[d] # "no" => task'[d] = "dispatch" /\ handling'[d].kind = "close"
    BY <1>1 DEF Return, Inv, TypeOK, ClientTypeOK, OneCurrent, Caller
  <2>2. ASSUME NEW d \in Client, Current(d)' PROVE Current(d)
    <3>1. CASE d = c
      <4>1. state'[c] # "CLOSING"
        BY <2>2, <3>1 DEF Current
      <4>2. connecting[c] = "no"
        BY <1>1, <4>1
      <4>3. QED
        BY <1>1, <3>1, <4>2 DEF Current
    <3>2. CASE d # c
      BY <2>2, <3>2 DEF Return, Inv, TypeOK, ClientTypeOK, Current, Caller
    <3>3. QED
      BY <3>1, <3>2
  <2>3. connecting'["main"] = "init" => \A d \in Client : task'[d] = "none"
    BY <1>1 DEF Inv, TypeOK, OneCurrent, Caller
  <2>4. QED
    BY <2>1, <2>2, <2>3 DEF Inv, OneCurrent
<1>6. QED
  BY <1>2, <1>3, <1>4, <1>5

(* What returning does to what is on its way.                               *)
LEMMA ReturnedHandled ==
    ASSUME Inv, NEW c \in Client, Return(c), connecting' = [connecting EXCEPT ![c] = "no"]
    PROVE  /\ ~Handling(c, {"echo"})'
           /\ \A d \in Client : Handling(d, {"echo"})' =>
                  d # c /\ Handling(d, {"echo"}) /\ handling'[d] = handling[d]
           /\ \A d \in Client : Current(d)' /\ d # c => Current(d)
           /\ inbox' = inbox
BY DEF Return, Handling, Current, Inv, TypeOK, ClientTypeOK, Caller

LEMMA InvHandlerSilent == ASSUME Inv, NEW c \in Client, HandlerSilent(c) PROVE Inv'
<1>1. /\ Return(c) /\ UNCHANGED own /\ handling[c].kind \in {"silent", "close_other", "delay"}
  BY DEF HandlerSilent, Handling
<1>2. task[c] = "dispatch" /\ state[c] = "CONNECTED"
  BY <1>1 DEF Return, Inv, TaskAndState
<1>3. connecting[c] = "no" /\ Current(c)
  BY <1>1, <1>2 DEF Inv, OneCurrent, Current, TypeOK, Caller
<1>4. connecting' = [connecting EXCEPT ![c] = "no"]
  BY <1>1, <1>3 DEF own, Inv, TypeOK, Caller
<1>5. ClientTypeOK' /\ LockHeld' /\ TaskAndState' /\ OneCurrent'
  BY <1>1, <1>3, <1>4, Returned DEF own
<1>6. TypeOK' /\ LoopInOrder'
  BY <1>1, <1>5 DEF own, Inv, TypeOK, LoopInOrder
<1>7. Ordered'
  <2>1. UNCHANGED <<sent, data, reply_evt_queue, frames>>
    BY <1>1 DEF own
  <2>2. \A d \in Client : Current(d)' => Current(d) /\ inbox'[d] = inbox[d]
    BY <1>1, <1>3, <1>4, ReturnedHandled
  <2>3. \A d \in Client : Handling(d, {"echo"})' => Handling(d, {"echo"}) /\ handling'[d] = handling[d]
    BY <1>1, <1>4, ReturnedHandled
  <2>4. QED
    BY <2>1, <2>2, <2>3, OrderKept
<1>8. QED
  BY <1>5, <1>6, <1>7 DEF Inv

(* The engine's queue takes an event; an over then waits for its delay.     *)
LEMMA EventQueued ==
    ASSUME Inv, NEW event \in Event, Len(trigger_evt_queue) < QueueLen,
           trigger_evt_queue' = Append(trigger_evt_queue, event)
    PROVE  trigger_evt_queue' \in Seq(Event) /\ Len(trigger_evt_queue') <= QueueLen
<1>1. trigger_evt_queue \in Seq(Event) /\ Len(trigger_evt_queue) \in Nat
  BY LenProperties DEF Inv, TypeOK
<1>2. QED
  BY <1>1, AppendProperties, ReplyLenAssumption

LEMMA InvHandlerPosts == ASSUME Inv, NEW c \in Client, HandlerPosts(c) PROVE Inv'
<1>1. /\ task[c] = "dispatch" /\ handling[c].kind \in {"set", "over"}
      /\ Len(trigger_evt_queue) < QueueLen
      /\ trigger_evt_queue' = Append(trigger_evt_queue, handling[c].kind)
      /\ UNCHANGED <<websocket_client_handle, reply_evt_queue, queueCreated, engine,
                     connecting, loop, data, frames, sent>>
  BY DEF HandlerPosts, Posting, Handling
<1>2. trigger_evt_queue' \in Seq(Event) /\ Len(trigger_evt_queue') <= QueueLen
  BY <1>1, EventQueued DEF Event
<1>3. state[c] = "CONNECTED"
  BY <1>1 DEF Inv, TaskAndState
<1>4. connecting[c] = "no" /\ Current(c)
  BY <1>1, <1>3 DEF Inv, OneCurrent, Current, TypeOK, Caller
<1>5. CASE handling[c].kind = "over"
  <2>1. /\ handling' = [handling EXCEPT ![c].kind = "delay"]
        /\ UNCHANGED <<state, task, readable, lock, closeSent, link, inbox, failures>>
    BY <1>5 DEF HandlerPosts
  <2>2. PICK delay \in Delay :
            handling' = [handling EXCEPT ![c] = delay] /\ delay.kind = "delay"
    <3>1. handling[c] \in Frame
      <4>1. handling[c] \in Frame \cup Delay \cup {Nothing, Connected}
        BY DEF Inv, TypeOK, ClientTypeOK
      <4>2. handling[c] \notin Delay
        BY <1>5 DEF Delay
      <4>3. handling[c] \notin {Nothing, Connected}
        BY <1>5 DEF Nothing, Connected
      <4>4. QED
        BY <4>1, <4>2, <4>3
    <3>2. PICK delay : delay = [handling[c] EXCEPT !.kind = "delay"]
      OBVIOUS
    <3>3. delay \in Delay /\ delay.kind = "delay"
      BY <3>1, <3>2 DEF Frame, Delay
    <3>4. QED
      BY <2>1, <3>2, <3>3
  <2>3. /\ handling'[c].kind = "delay"
        /\ \A d \in Client \ {c} : handling'[d] = handling[d]
    BY <2>2 DEF Inv, TypeOK, ClientTypeOK
  <2>4. TypeOK' /\ LoopInOrder'
    <3>1. handling' \in [Client -> Frame \cup Delay \cup {Nothing, Connected}]
      BY <2>2 DEF Inv, TypeOK, ClientTypeOK
    <3>2. ClientTypeOK'
      BY <2>1, <3>1 DEF Inv, TypeOK, ClientTypeOK
    <3>3. QED
      BY <1>1, <1>2, <3>2 DEF Inv, TypeOK, LoopInOrder
  <2>5. LockHeld' /\ TaskAndState'
    BY <1>1, <2>1 DEF Inv, LockHeld, TaskAndState
  <2>6. \A d \in Client : Current(d)' <=> Current(d)
    BY <1>1, <2>1 DEF Current
  <2>7. OneCurrent'
    BY <1>1, <1>4, <2>1, <2>3, <2>6 DEF Inv, OneCurrent
  <2>8. \A d \in Client : Handling(d, {"echo"})' => Handling(d, {"echo"}) /\ handling'[d] = handling[d]
    BY <2>1, <2>3 DEF Handling
  <2>9. Ordered'
    BY <1>1, <2>1, <2>6, <2>8, OrderKept
  <2>10. QED
    BY <2>4, <2>5, <2>7, <2>9 DEF Inv
<1>6. CASE handling[c].kind # "over"
  <2>1. Return(c)
    BY <1>6 DEF HandlerPosts
  <2>2. connecting' = [connecting EXCEPT ![c] = "no"]
    BY <1>1, <1>4 DEF Inv, TypeOK, Caller
  <2>3. ClientTypeOK' /\ LockHeld' /\ TaskAndState' /\ OneCurrent'
    BY <1>1, <1>4, <2>1, <2>2, Returned
  <2>4. TypeOK' /\ LoopInOrder'
    BY <1>1, <1>2, <2>3 DEF Inv, TypeOK, LoopInOrder
  <2>5. \A d \in Client : Current(d)' => Current(d) /\ inbox'[d] = inbox[d]
    BY <1>4, <2>1, <2>2, ReturnedHandled
  <2>6. \A d \in Client : Handling(d, {"echo"})' => Handling(d, {"echo"}) /\ handling'[d] = handling[d]
    BY <2>1, <2>2, ReturnedHandled
  <2>7. Ordered'
    BY <1>1, <2>5, <2>6, OrderKept
  <2>8. QED
    BY <2>3, <2>4, <2>7 DEF Inv
<1>7. QED
  BY <1>5, <1>6

LEMMA InvHandlerReconnected == ASSUME Inv, NEW c \in Client, HandlerReconnected(c) PROVE Inv'
<1>1. /\ Return(c) /\ connecting[c] = "done" /\ connecting' = [connecting EXCEPT ![c] = "no"]
      /\ handling[c].kind = "close"
      /\ UNCHANGED <<websocket_client_handle, reply_evt_queue, queueCreated, trigger_evt_queue,
                     engine, loop, data, frames, sent>>
  BY DEF HandlerReconnected, Goes, Handling
<1>2. ClientTypeOK' /\ LockHeld' /\ TaskAndState' /\ OneCurrent'
  BY <1>1, Returned
<1>3. TypeOK' /\ LoopInOrder'
  BY <1>1, <1>2 DEF Inv, TypeOK, LoopInOrder
<1>4. ~Current(c)'
  BY <1>1 DEF Return, Current, Inv, TypeOK, ClientTypeOK
<1>5. Ordered'
  BY <1>1, <1>4, ReturnedHandled, OrderKept
<1>6. QED
  BY <1>2, <1>3, <1>5 DEF Inv

LEMMA InvHandlerReconnects == ASSUME Inv, NEW c \in Client, HandlerReconnects(c) PROVE Inv'
<1>1. /\ task[c] = "dispatch" /\ handling[c].kind = "close" /\ connecting[c] = "no"
      /\ connecting' = [connecting EXCEPT ![c] = "init"] /\ UNCHANGED clientVars
      /\ UNCHANGED <<websocket_client_handle, reply_evt_queue, queueCreated, trigger_evt_queue,
                     engine, loop, data, frames, sent>>
      /\ c # "main"
  BY NoClientAssumption DEF HandlerReconnects, Goes, Handling
<1>2. TypeOK' /\ LoopInOrder'
  BY <1>1 DEF clientVars, Inv, TypeOK, ClientTypeOK, LoopInOrder
<1>3. LockHeld' /\ TaskAndState'
  BY <1>1 DEF clientVars, Inv, TypeOK, LockHeld, TaskAndState, Caller
<1>4. \A d \in Client : Current(d)' <=> Current(d)
  BY <1>1 DEF clientVars, Current, Inv, TypeOK, Caller
<1>5. OneCurrent'
  BY <1>1, <1>4 DEF clientVars, Inv, TypeOK, OneCurrent, Caller
<1>6. \A d \in Client : Handling(d, {"echo"})' <=> Handling(d, {"echo"})
  BY <1>1 DEF clientVars, Handling
<1>7. Ordered'
  BY <1>1, <1>4, <1>6, OrderKept DEF clientVars
<1>8. QED
  BY <1>2, <1>3, <1>5, <1>7 DEF Inv

(* The element restarts: what was on its way is lost.                       *)
LEMMA InvRestart == ASSUME Inv, NEW c \in Client, Restart(c) PROVE Inv'
<1>1. /\ ~queueCreated /\ loop.pc = "none"
      /\ state' = [d \in Client |-> "UNKNOW"] /\ task' = [d \in Client |-> "none"]
      /\ readable' = [d \in Client |-> FALSE] /\ lock' = [d \in Client |-> "free"]
      /\ closeSent' = [d \in Client |-> FALSE] /\ handling' = [d \in Client |-> Nothing]
      /\ link' = [d \in Client |-> "down"] /\ inbox' = [d \in Client |-> <<>>]
      /\ websocket_client_handle' = NoClient
      /\ connecting' = [k \in Caller |-> IF k = "main" THEN "init" ELSE "no"]
      /\ trigger_evt_queue' = <<>> /\ engine' = "TS_IDLE"
      /\ UNCHANGED <<failures, reply_evt_queue, queueCreated, loop, data, frames, sent>>
  BY DEF Restart, Inv, LoopInOrder
<1>2. TypeOK'
  <2>1. readable' \in [Client -> BOOLEAN] /\ closeSent' \in [Client -> BOOLEAN]
    BY <1>1
  <2>2. <<>> \in Seq(Frame)
    OBVIOUS
  <2>3. ClientTypeOK'
    BY <1>1, <2>1, <2>2 DEF Inv, TypeOK, ClientTypeOK
  <2>4. <<>> \in Seq(Event) /\ Len(<<>>) = 0
    OBVIOUS
  <2>5. QED
    BY <1>1, <2>3, <2>4, ReplyLenAssumption DEF Inv, TypeOK
<1>3. LockHeld' /\ TaskAndState' /\ LoopInOrder'
  BY <1>1, NoClientAssumption DEF Inv, LockHeld, TaskAndState, LoopInOrder, Caller
<1>4. \A d \in Client : ~Current(d)' /\ ~Handling(d, {"echo"})'
  BY <1>1 DEF Current, Handling
<1>5. OneCurrent'
  BY <1>1, <1>4, NoClientAssumption DEF OneCurrent, Caller
<1>6. Ordered'
  BY <1>1, <1>4, OrderKept
<1>7. QED
  BY <1>2, <1>3, <1>5, <1>6 DEF Inv

(* A reply joins the queue: the handler's request was the last but those in *)
(* the inbox.                                                               *)
LEMMA InvHandlerReplies == ASSUME Inv, NEW c \in Client, HandlerReplies(c) PROVE Inv'
<1>1. /\ Return(c) /\ handling[c].kind \in {"CONNECTED", "echo"} /\ task[c] = "dispatch"
      /\ queueCreated /\ Len(reply_evt_queue) < ReplyLen
      /\ reply_evt_queue' = Append(reply_evt_queue, ReplyTo(handling[c]))
      /\ UNCHANGED <<websocket_client_handle, queueCreated, trigger_evt_queue, engine, connecting,
                     loop, data, frames, sent>>
  BY DEF HandlerReplies, Replying, Handling, Room
<1>2. state[c] = "CONNECTED"
  BY <1>1 DEF Inv, TaskAndState
<1>3. connecting[c] = "no" /\ Current(c)
  BY <1>1, <1>2 DEF Inv, OneCurrent, Current, TypeOK, Caller
<1>4. connecting' = [connecting EXCEPT ![c] = "no"]
  BY <1>1, <1>3 DEF Inv, TypeOK, Caller
<1>5. ClientTypeOK' /\ LockHeld' /\ TaskAndState' /\ OneCurrent'
  BY <1>1, <1>3, <1>4, Returned
<1>6. PICK reply \in Reply :
          /\ reply = ReplyTo(handling[c])
          /\ reply.kind = "echo" => handling[c].kind = "echo" /\ reply.id = handling[c].id
  <2>1. handling[c] \in Frame \cup Delay \cup {Nothing, Connected}
    BY DEF Inv, TypeOK, ClientTypeOK
  <2>2. handling[c].id \in Nat
    BY <2>1 DEF Frame, Delay, Nothing, Connected
  <2>3. QED
    BY <1>1, <2>2 DEF ReplyTo, Reply
<1>7. /\ reply_evt_queue \in Seq(Reply) /\ Len(reply_evt_queue) \in Nat
      /\ DOMAIN reply_evt_queue = 1..Len(reply_evt_queue)
      /\ reply_evt_queue' \in Seq(Reply) /\ Len(reply_evt_queue') = Len(reply_evt_queue) + 1
      /\ DOMAIN reply_evt_queue' = 1..(Len(reply_evt_queue) + 1)
      /\ reply_evt_queue'[Len(reply_evt_queue) + 1] = reply
      /\ \A i \in 1..Len(reply_evt_queue) : reply_evt_queue'[i] = reply_evt_queue[i]
  <2>1. reply_evt_queue \in Seq(Reply)
    BY DEF Inv, TypeOK
  <2>2. QED
    BY <1>1, <1>6, <2>1, AppendProperties, LenProperties
<1>8. TypeOK' /\ LoopInOrder'
  BY <1>1, <1>5, <1>7, ReplyLenAssumption DEF Inv, TypeOK, LoopInOrder
<1>9. Ordered'
  <2>1. Sent' = Sent /\ Taken' = Taken /\ inbox' = inbox
    BY <1>1, <1>4, ReturnedHandled DEF Sent, Taken
  <2>2. \A d \in Client : ~Handling(d, {"echo"})'
    <3>1. ASSUME NEW d \in Client, Handling(d, {"echo"})' PROVE FALSE
      <4>1. d # c /\ task[d] = "dispatch" /\ handling[d].kind = "echo"
        BY <1>1, <1>4, <3>1, ReturnedHandled DEF Handling
      <4>2. connecting[d] = "no" /\ state[d] = "CONNECTED"
        BY <4>1 DEF Inv, OneCurrent, TaskAndState
      <4>3. Current(d)
        BY <4>1, <4>2 DEF Current
      <4>4. QED
        BY <1>3, <4>1, <4>3 DEF Inv, OneCurrent
    <3>2. QED
      BY <3>1
  <2>3. Handled' = {}
    BY <2>2 DEF Handled
  <2>4. reply.kind = "echo" => reply.id \in Handled
    BY <1>1, <1>6 DEF Handled, Handling
  <2>5. \A n \in Queued' : n \in Queued \/ (n = reply.id /\ reply.kind = "echo")
    BY <1>7 DEF Queued
  <2>6. Queued' \subseteq Queued \cup Handled
    BY <2>4, <2>5
  <2>7. \A i \in 1..Len(reply_evt_queue) : reply_evt_queue[i].kind = "echo" => reply_evt_queue[i].id \in Queued
    BY <1>7 DEF Queued
  <2>8. \A i, j \in DOMAIN reply_evt_queue' :
            i < j /\ reply_evt_queue'[i].kind = "echo" /\ reply_evt_queue'[j].kind = "echo" =>
                reply_evt_queue'[i].id < reply_evt_queue'[j].id
    <3>1. SUFFICES ASSUME NEW i \in DOMAIN reply_evt_queue', NEW j \in DOMAIN reply_evt_queue', i < j,
                          reply_evt_queue'[i].kind = "echo", reply_evt_queue'[j].kind = "echo"
                   PROVE  reply_evt_queue'[i].id < reply_evt_queue'[j].id
      OBVIOUS
    <3>2. i \in 1..Len(reply_evt_queue) /\ reply_evt_queue'[i] = reply_evt_queue[i]
      BY <1>7, <3>1
    <3>3. CASE j \in 1..Len(reply_evt_queue)
      BY <1>7, <3>1, <3>2, <3>3 DEF Inv, Ordered
    <3>4. CASE j = Len(reply_evt_queue) + 1
      <4>1. reply_evt_queue'[j] = reply /\ reply.id \in Handled
        BY <1>7, <2>4, <3>1, <3>4
      <4>2. reply_evt_queue[i].id \in Queued
        BY <2>7, <3>1, <3>2
      <4>3. QED
        BY <3>2, <4>1, <4>2 DEF Inv, Ordered, Before
    <3>5. QED
      BY <1>7, <3>3, <3>4
  <2>9. \A d \in Client : Current(d)' => Current(d) /\ Coming(d)' = Coming(d)
    BY <1>1, <1>3, <1>4, <2>1, ReturnedHandled DEF Coming
  <2>10. /\ Before(Sent', Taken') /\ Before(Sent' \cup Taken', Queued')
         /\ Before(Sent' \cup Taken' \cup Queued', Handled')
         /\ \A n \in Sent' \cup Taken' \cup Queued' \cup Handled' : n <= frames'
    BY <1>1, <2>1, <2>3, <2>6 DEF Inv, Ordered, Before
  <2>11. \A d \in Client : Current(d)' =>
            /\ \A i, j \in DOMAIN inbox'[d] : i < j => inbox'[d][i].id < inbox'[d][j].id
            /\ Before(Sent' \cup Taken' \cup Queued' \cup Handled', Coming(d)')
            /\ \A n \in Coming(d)' : n <= frames'
    BY <1>1, <2>1, <2>3, <2>6, <2>9 DEF Inv, Ordered, Before
  <2>12. QED
    BY <1>1, <2>8, <2>10, <2>11 DEF Inv, Ordered, Before
<1>10. QED
  BY <1>5, <1>8, <1>9 DEF Inv

-----------------------------------------------------------------------------
(* websocket_connect and websocket_init.                                    *)
LEMMA InvConnectInit == ASSUME Inv, NEW k \in Caller, ConnectInit(k) PROVE Inv'
<1>1. PICK h \in Client : Unused(h) /\ websocket_client_handle' = h
  BY DEF ConnectInit
<1>2. /\ connecting[k] = "init" /\ connecting' = [connecting EXCEPT ![k] = "check"]
      /\ UNCHANGED clientVars
      /\ UNCHANGED <<reply_evt_queue, queueCreated, trigger_evt_queue, engine, loop, data, frames,
                     sent>>
  BY DEF ConnectInit, Goes
<1>3. TypeOK' /\ LoopInOrder'
  BY <1>1, <1>2 DEF clientVars, Inv, TypeOK, ClientTypeOK, LoopInOrder, Caller
<1>4. LockHeld' /\ TaskAndState'
  BY <1>2 DEF clientVars, Inv, TypeOK, LockHeld, TaskAndState, Caller
<1>5. \A d \in Client : ~Current(d)'
  <2>1. CASE k = "main"
    BY <1>2, <2>1 DEF clientVars, Current, Inv, OneCurrent
  <2>2. CASE k \in Client
    <3>1. task[k] = "dispatch" /\ state[k] = "CONNECTED"
      BY <1>2, <2>2 DEF Inv, OneCurrent, TaskAndState
    <3>2. \A d \in Client : Current(d) => d = k
      BY <1>2, <2>2, <3>1 DEF Inv, OneCurrent, Current
    <3>3. \A d \in Client \ {k} : Current(d)' => Current(d)
      BY <1>2 DEF clientVars, Current, Inv, TypeOK, Caller
    <3>4. ~Current(k)'
      BY <1>2 DEF Current, Inv, TypeOK
    <3>5. QED
      BY <3>2, <3>3, <3>4
  <2>3. QED
    BY <2>1, <2>2 DEF Caller
<1>6. OneCurrent'
  <2>1. \A d \in Client : connecting'[d] # "no" => task'[d] = "dispatch" /\ handling'[d].kind = "close"
    BY <1>2 DEF clientVars, Inv, TypeOK, OneCurrent, Caller
  <2>2. connecting'["main"] = "init" => \A d \in Client : task'[d] = "none"
    BY <1>2 DEF clientVars, Inv, TypeOK, OneCurrent, Caller
  <2>3. QED
    BY <1>5, <2>1, <2>2 DEF OneCurrent
<1>7. Ordered'
  <2>1. \A d \in Client : Handling(d, {"echo"})' => Handling(d, {"echo"}) /\ handling'[d] = handling[d]
    BY <1>2 DEF clientVars, Handling
  <2>2. QED
    BY <1>2, <1>5, <2>1, OrderKept
<1>8. QED
  BY <1>3, <1>4, <1>6, <1>7 DEF Inv

(* A caller that goes on, without a new client.                             *)
LEMMA ConnectGoesOn ==
    ASSUME Inv, NEW k \in Caller, connecting[k] \in {"check", "start", "delay"},
           NEW to \in {"check", "start", "delay", "done"},
           connecting' = [connecting EXCEPT ![k] = to],
           UNCHANGED <<clientVars, websocket_client_handle, reply_evt_queue, queueCreated,
                       trigger_evt_queue, engine, loop, data, frames, sent>>
    PROVE  Inv'
<1>1. TypeOK' /\ LoopInOrder'
  BY DEF clientVars, Inv, TypeOK, ClientTypeOK, LoopInOrder
<1>2. LockHeld' /\ TaskAndState'
  BY DEF clientVars, Inv, TypeOK, LockHeld, TaskAndState, Caller
<1>3. \A d \in Client : Current(d)' => Current(d)
  BY DEF clientVars, Current, Inv, TypeOK, Caller
<1>4. OneCurrent'
  <2>1. \A d \in Client : connecting'[d] # "no" => task'[d] = "dispatch" /\ handling'[d].kind = "close"
    BY DEF clientVars, Inv, TypeOK, OneCurrent, Caller
  <2>2. connecting'["main"] = "init" => \A d \in Client : task'[d] = "none"
    BY DEF clientVars, Inv, TypeOK, OneCurrent, Caller
  <2>3. QED
    BY <1>3, <2>1, <2>2 DEF Inv, OneCurrent
<1>5. Ordered'
  <2>1. \A d \in Client : Handling(d, {"echo"})' => Handling(d, {"echo"}) /\ handling'[d] = handling[d]
    BY DEF clientVars, Handling
  <2>2. QED
    BY <1>3, <2>1, OrderKept DEF clientVars
<1>6. QED
  BY <1>1, <1>2, <1>4, <1>5 DEF Inv

(* A client starts: its task is the only one that is current.               *)
LEMMA InvStarts ==
    ASSUME Inv, NEW k \in Caller, ConnectStart(k), MayStart(websocket_client_handle)
    PROVE  Inv'
<1>1. PICK h : h = websocket_client_handle
  OBVIOUS
<1>2. /\ connecting[k] = "start" /\ connecting' = [connecting EXCEPT ![k] = "delay"]
      /\ state[h] = "UNKNOW" /\ task[h] = "none"
      /\ task' = [task EXCEPT ![h] = "created"]
      /\ closeSent' = [closeSent EXCEPT ![h] = FALSE]
      /\ UNCHANGED <<state, readable, lock, handling, link, inbox, failures>>
      /\ UNCHANGED <<websocket_client_handle, reply_evt_queue, queueCreated, trigger_evt_queue,
                     engine, loop, data, frames, sent>>
  BY <1>1 DEF ConnectStart, StartsTwice, Goes, MayStart, Start
<1>3. \A d \in Client : d # h => task'[d] = task[d]
  BY <1>2 DEF Inv, TypeOK, ClientTypeOK
<1>4. h \in Client => task'[h] = "created" /\ connecting[h] = "no" /\ k # h
  BY <1>2 DEF Inv, TypeOK, ClientTypeOK, OneCurrent
<1>5. TypeOK'
  <2>1. ClientTypeOK'
    BY <1>2 DEF Inv, TypeOK, ClientTypeOK
  <2>2. QED
    BY <1>2, <2>1 DEF Inv, TypeOK
<1>6. \A d \in Client : connecting'[d] # "no" <=> connecting[d] # "no"
  BY <1>2 DEF Inv, TypeOK, Caller
<1>7. LockHeld'
  BY <1>2, <1>3, <1>4, <1>6 DEF Inv, LockHeld
<1>8. TaskAndState'
  BY <1>2, <1>3, <1>4 DEF Inv, TaskAndState
<1>9. \A d \in Client : Current(d)' => d = h \/ Current(d)
  BY <1>2, <1>3 DEF Current, Inv, TypeOK, Caller
<1>10. OneCurrent'
  <2>1. \A d \in Client : connecting'[d] # "no" => task'[d] = "dispatch" /\ handling'[d].kind = "close"
    BY <1>2, <1>3, <1>4, <1>6 DEF Inv, OneCurrent
  <2>2. connecting'["main"] # "init"
    <3>1. CASE k = "main"
      BY <1>2, <3>1 DEF Inv, TypeOK
    <3>2. CASE k # "main"
      <4>1. k \in Client /\ task[k] = "dispatch"
        BY <1>2, <3>2 DEF Caller, Inv, OneCurrent
      <4>2. connecting["main"] # "init"
        BY <4>1 DEF Inv, OneCurrent
      <4>3. QED
        BY <1>2, <3>2, <4>2 DEF Inv, TypeOK, Caller
    <3>3. QED
      BY <3>1, <3>2
  <2>3. QED
    BY <1>1, <1>2, <1>9, <2>1, <2>2 DEF Inv, OneCurrent
<1>11. Ordered'
  <2>1. h \in Client => inbox[h] = <<>>
    BY <1>2 DEF Inv, TaskAndState
  <2>2. \A d \in Client : Current(d)' => inbox'[d] = <<>> \/ (Current(d) /\ inbox'[d] = inbox[d])
    BY <1>2, <1>9, <2>1
  <2>3. \A d \in Client : Handling(d, {"echo"})' => Handling(d, {"echo"}) /\ handling'[d] = handling[d]
    BY <1>2, <1>3, <1>4 DEF Handling
  <2>4. QED
    BY <1>2, <2>2, <2>3, OrderKept
<1>12. QED
  BY <1>5, <1>7, <1>8, <1>10, <1>11, <1>2 DEF Inv, LoopInOrder

LEMMA InvConnecting == ASSUME Inv, NEW k \in Caller, Connecting(k) PROVE Inv'
<1>1. CASE ConnectInit(k)
  BY <1>1, InvConnectInit
<1>2. CASE ConnectCheck(k)
  BY <1>2, ConnectGoesOn DEF ConnectCheck, Goes
<1>3. CASE ConnectStart(k)
  <2>1. CASE MayStart(websocket_client_handle)
    BY <1>3, <2>1, InvStarts
  <2>2. CASE ~MayStart(websocket_client_handle)
    <3>1. /\ connecting[k] = "start" /\ connecting' = [connecting EXCEPT ![k] = "delay"]
          /\ UNCHANGED <<clientVars, websocket_client_handle, reply_evt_queue, queueCreated,
                         trigger_evt_queue, engine, loop, data, frames, sent>>
      BY <1>3, <2>2 DEF ConnectStart, Goes
    <3>2. QED
      BY <3>1, ConnectGoesOn
  <2>3. QED
    BY <2>1, <2>2
<1>4. CASE ConnectDelay(k)
  <2>1. /\ connecting[k] = "delay" /\ connecting' = [connecting EXCEPT ![k] = "check"]
        /\ UNCHANGED <<clientVars, websocket_client_handle, reply_evt_queue, queueCreated,
                       trigger_evt_queue, engine, loop, data, frames, sent>>
    BY <1>4 DEF ConnectDelay, Goes
  <2>2. QED
    BY <2>1, ConnectGoesOn
<1>5. QED
  BY <1>1, <1>2, <1>3, <1>4 DEF Connecting

(* The clients stand still, and nothing new is on its way.                  *)
LEMMA InvStill ==
    ASSUME Inv, TypeOK', UNCHANGED <<clientVars, websocket_client_handle, connecting,
                                     sent, data, reply_evt_queue, frames>>,
           LoopInOrder',
           \A c \in Client : loop'.pc = "locked" /\ loop'.client = c <=> loop.pc = "locked" /\ loop.client = c
    PROVE  Inv'
<1>1. LockHeld' /\ TaskAndState'
  BY DEF clientVars, Inv, LockHeld, TaskAndState
<1>2. \A d \in Client : Current(d)' <=> Current(d)
  BY DEF clientVars, Current
<1>3. OneCurrent'
  BY <1>2 DEF clientVars, Inv, OneCurrent
<1>4. \A d \in Client : Handling(d, {"echo"})' <=> Handling(d, {"echo"})
  BY DEF clientVars, Handling
<1>5. Ordered'
  BY <1>2, <1>4, OrderKept DEF clientVars
<1>6. QED
  BY <1>1, <1>3, <1>5 DEF Inv

LEMMA InvCreateQueue == ASSUME Inv, CreateQueue PROVE Inv'
<1>1. /\ ~queueCreated /\ queueCreated' = TRUE /\ loop.pc = "none"
      /\ loop' = [loop EXCEPT !.pc = "receive"]
      /\ UNCHANGED <<clientVars, websocket_client_handle, reply_evt_queue, trigger_evt_queue,
                     engine, connecting, data, frames, sent>>
  BY DEF CreateQueue, Inv, LoopInOrder
<1>2. loop' \in [pc : {"none", "receive", "check", "send", "lock", "locked"},
                 client : Client \cup {NoClient}] /\ loop'.pc = "receive"
  BY <1>1 DEF Inv, TypeOK
<1>3. TypeOK'
  BY <1>1, <1>2 DEF clientVars, Inv, TypeOK, ClientTypeOK
<1>4. LoopInOrder'
  BY <1>1, <1>2 DEF Inv, LoopInOrder
<1>5. QED
  BY <1>1, <1>2, <1>3, <1>4, InvStill

-----------------------------------------------------------------------------
(* The engine: an answer is no echo, so the order of the replies stays.     *)
LEMMA InvHitPosted == ASSUME Inv, HitPosted PROVE Inv'
<1>1. /\ Len(trigger_evt_queue) < QueueLen
      /\ trigger_evt_queue' = Append(trigger_evt_queue, "hit")
      /\ UNCHANGED <<clientVars, websocket_client_handle, reply_evt_queue, queueCreated,
                     engine, connecting, loop, data, frames, sent>>
  BY DEF HitPosted
<1>2. trigger_evt_queue' \in Seq(Event) /\ Len(trigger_evt_queue') <= QueueLen
  BY <1>1, EventQueued DEF Event
<1>3. TypeOK' /\ LoopInOrder'
  BY <1>1, <1>2 DEF clientVars, Inv, TypeOK, ClientTypeOK, LoopInOrder
<1>4. QED
  BY <1>1, <1>3, InvStill

LEMMA Taking ==
    ASSUME Inv, EngineTakes
    PROVE  /\ trigger_evt_queue \in Seq(Event) /\ trigger_evt_queue # <<>>
           /\ Head(trigger_evt_queue) \in Event
           /\ engine \in {"TS_IDLE", "TS_WAIT_FOR_FIRST_HIT", "TS_WAIT_FOR_SECOND_HIT"}
           /\ engine' \in {"TS_IDLE", "TS_WAIT_FOR_FIRST_HIT", "TS_WAIT_FOR_SECOND_HIT", "answer"}
           /\ engine = "TS_IDLE" /\ Head(trigger_evt_queue) # "set" => engine' = "TS_IDLE"
           /\ engine' = "answer" => engine # "TS_IDLE"
<1>1. /\ trigger_evt_queue \in Seq(Event) /\ trigger_evt_queue # <<>>
      /\ engine \in {"TS_IDLE", "TS_WAIT_FOR_FIRST_HIT", "TS_WAIT_FOR_SECOND_HIT"}
      /\ engine' \in After(Head(trigger_evt_queue))
  BY DEF EngineTakes, Inv, TypeOK
<1>2. PICK event \in Event : event = Head(trigger_evt_queue)
  BY <1>1, HeadTailProperties
<1>3. CASE event = "over"
  BY <1>1, <1>2, <1>3 DEF After
<1>4. CASE event = "hit"
  BY <1>1, <1>2, <1>4 DEF After
<1>5. CASE event = "set"
  BY <1>1, <1>2, <1>5 DEF After
<1>6. QED
  BY <1>1, <1>2, <1>3, <1>4, <1>5 DEF Event

LEMMA InvEngineTakes == ASSUME Inv, EngineTakes PROVE Inv'
<1>1. /\ trigger_evt_queue' = Tail(trigger_evt_queue)
      /\ UNCHANGED <<clientVars, websocket_client_handle, reply_evt_queue, queueCreated,
                     connecting, loop, data, frames, sent>>
  BY DEF EngineTakes
<1>2. trigger_evt_queue' \in Seq(Event) /\ Len(trigger_evt_queue') <= QueueLen
  <2>1. Len(trigger_evt_queue) \in Nat /\ Len(trigger_evt_queue) <= QueueLen
    BY Taking, LenProperties DEF Inv, TypeOK
  <2>2. QED
    BY <1>1, <2>1, Taking, HeadTailProperties, ReplyLenAssumption
<1>3. TypeOK' /\ LoopInOrder'
  BY <1>1, <1>2, Taking DEF clientVars, Inv, TypeOK, ClientTypeOK, LoopInOrder
<1>4. QED
  BY <1>1, <1>3, InvStill

LEMMA InvEngineAnswers == ASSUME Inv, EngineAnswers PROVE Inv'
<1>1. PICK reply \in Reply :
          reply.kind = "result" /\ reply_evt_queue' = Append(reply_evt_queue, reply)
  BY DEF EngineAnswers, Reply
<1>2. /\ Len(reply_evt_queue) < ReplyLen /\ engine' = "TS_IDLE"
      /\ UNCHANGED <<clientVars, websocket_client_handle, queueCreated, trigger_evt_queue,
                     connecting, loop, data, frames, sent>>
  BY DEF EngineAnswers, Room
<1>3. /\ reply_evt_queue \in Seq(Reply) /\ Len(reply_evt_queue) \in Nat
      /\ DOMAIN reply_evt_queue = 1..Len(reply_evt_queue)
      /\ reply_evt_queue' \in Seq(Reply) /\ Len(reply_evt_queue') = Len(reply_evt_queue) + 1
      /\ DOMAIN reply_evt_queue' = 1..(Len(reply_evt_queue) + 1)
      /\ reply_evt_queue'[Len(reply_evt_queue) + 1] = reply
      /\ \A i \in 1..Len(reply_evt_queue) : reply_evt_queue'[i] = reply_evt_queue[i]
  <2>1. reply_evt_queue \in Seq(Reply)
    BY DEF Inv, TypeOK
  <2>2. QED
    BY <1>1, <2>1, AppendProperties, LenProperties
<1>4. TypeOK' /\ LoopInOrder'
  BY <1>2, <1>3, ReplyLenAssumption DEF clientVars, Inv, TypeOK, ClientTypeOK, LoopInOrder
<1>5. LockHeld' /\ TaskAndState' /\ OneCurrent'
  BY <1>2 DEF clientVars, Inv, LockHeld, TaskAndState, OneCurrent, Current
<1>6. \A i \in DOMAIN reply_evt_queue' : reply_evt_queue'[i].kind = "echo" =>
          i \in DOMAIN reply_evt_queue /\ reply_evt_queue'[i] = reply_evt_queue[i]
  BY <1>1, <1>3
<1>7. Ordered'
  <2>1. /\ Sent' = Sent /\ Taken' = Taken /\ Handled' = Handled
        /\ \A c \in Client : (Current(c)' <=> Current(c)) /\ Coming(c)' = Coming(c) /\ inbox'[c] = inbox[c]
    BY <1>2 DEF clientVars, Sent, Taken, Handled, Handling, Current, Coming
  <2>2. Queued' \subseteq Queued
    BY <1>6 DEF Queued
  <2>3. \A i, j \in DOMAIN reply_evt_queue' :
            i < j /\ reply_evt_queue'[i].kind = "echo" /\ reply_evt_queue'[j].kind = "echo" =>
                reply_evt_queue'[i].id < reply_evt_queue'[j].id
    BY <1>6 DEF Inv, Ordered
  <2>4. /\ Before(Sent', Taken') /\ Before(Sent' \cup Taken', Queued')
        /\ Before(Sent' \cup Taken' \cup Queued', Handled')
        /\ \A n \in Sent' \cup Taken' \cup Queued' \cup Handled' : n <= frames'
    BY <1>2, <2>1, <2>2 DEF Inv, Ordered, Before
  <2>5. \A c \in Client : Current(c)' =>
            /\ \A i, j \in DOMAIN inbox'[c] : i < j => inbox'[c][i].id < inbox'[c][j].id
            /\ Before(Sent' \cup Taken' \cup Queued' \cup Handled', Coming(c)')
            /\ \A n \in Coming(c)' : n <= frames'
    BY <1>2, <2>1, <2>2 DEF Inv, Ordered, Before
  <2>6. QED
    BY <1>2, <2>3, <2>4, <2>5 DEF Inv, Ordered
<1>8. QED
  BY <1>4, <1>5, <1>7 DEF Inv

-----------------------------------------------------------------------------
(* reply_loop.                                                              *)
LEMMA LoopMoves ==
    ASSUME Inv, NEW pc \in {"none", "receive", "check", "send", "lock", "locked"}
    PROVE  /\ [loop EXCEPT !.pc = pc] \in
                  [pc : {"none", "receive", "check", "send", "lock", "locked"}, client : Client \cup {NoClient}]
           /\ [loop EXCEPT !.pc = pc].pc = pc /\ [loop EXCEPT !.pc = pc].client = loop.client
BY DEF Inv, TypeOK

(* The oldest reply is taken: it follows all that were sent.                *)
LEMMA InvLoopTakes == ASSUME Inv, LoopTakes PROVE Inv'
<1>1. /\ loop.pc = "receive" /\ data = NoReply /\ reply_evt_queue # <<>>
      /\ data' = Head(reply_evt_queue) /\ reply_evt_queue' = Tail(reply_evt_queue)
      /\ loop' = [loop EXCEPT !.pc = "check"]
      /\ UNCHANGED <<clientVars, websocket_client_handle, queueCreated, trigger_evt_queue, engine,
                     connecting, frames, sent>>
  BY DEF LoopTakes, At, GoTo, Inv, LoopInOrder
<1>2. /\ reply_evt_queue \in Seq(Reply) /\ Len(reply_evt_queue) \in Nat \ {0}
      /\ DOMAIN reply_evt_queue = 1..Len(reply_evt_queue)
      /\ data' \in Reply /\ data' = reply_evt_queue[1]
      /\ reply_evt_queue' \in Seq(Reply) /\ Len(reply_evt_queue') = Len(reply_evt_queue) - 1
      /\ DOMAIN reply_evt_queue' = 1..(Len(reply_evt_queue) - 1)
      /\ \A i \in DOMAIN reply_evt_queue' :
             /\ i + 1 \in DOMAIN reply_evt_queue /\ 1 < i + 1
             /\ reply_evt_queue'[i] = reply_evt_queue[i + 1]
  <2>1. reply_evt_queue \in Seq(Reply)
    BY DEF Inv, TypeOK
  <2>2. QED
    BY <1>1, <2>1, HeadTailProperties, LenProperties, EmptySeq
<1>3. loop'.pc = "check" /\ loop' \in
          [pc : {"none", "receive", "check", "send", "lock", "locked"}, client : Client \cup {NoClient}]
  BY <1>1, LoopMoves
<1>4. TypeOK'
  BY <1>1, <1>2, <1>3, ReplyLenAssumption DEF clientVars, Inv, TypeOK, ClientTypeOK
<1>5. LoopInOrder'
  BY <1>1, <1>3 DEF Inv, LoopInOrder
<1>6. LockHeld' /\ TaskAndState'
  BY <1>1, <1>3 DEF clientVars, Inv, LockHeld, TaskAndState
<1>7. OneCurrent'
  BY <1>1 DEF clientVars, Inv, OneCurrent, Current
<1>8. Ordered'
  <2>1. /\ Sent' = Sent /\ Handled' = Handled
        /\ \A c \in Client : (Current(c)' <=> Current(c)) /\ Coming(c)' = Coming(c) /\ inbox'[c] = inbox[c]
    BY <1>1 DEF clientVars, Sent, Handled, Handling, Current, Coming
  <2>2. Taken = {}
    BY <1>1 DEF Taken, NoReply
  <2>3. \A i \in DOMAIN reply_evt_queue : reply_evt_queue[i].kind = "echo" => reply_evt_queue[i].id \in Queued
    BY DEF Queued
  <2>4. Queued' \subseteq Queued /\ Taken' \subseteq Queued
    <3>1. Taken' \subseteq Queued
      BY <1>2, <2>3 DEF Taken
    <3>2. Queued' \subseteq Queued
      BY <1>2 DEF Queued
    <3>3. QED
      BY <3>1, <3>2
  <2>5. Before(Taken', Queued')
    <3>1. SUFFICES ASSUME data'.kind = "echo", NEW i \in DOMAIN reply_evt_queue', reply_evt_queue'[i].kind = "echo"
                   PROVE  data'.id < reply_evt_queue'[i].id
      BY DEF Before, Taken, Queued
    <3>2. 1 \in DOMAIN reply_evt_queue
      BY <1>2
    <3>3. QED
      BY <1>2, <3>1, <3>2 DEF Inv, Ordered
  <2>6. \A i, j \in DOMAIN reply_evt_queue' :
            i < j /\ reply_evt_queue'[i].kind = "echo" /\ reply_evt_queue'[j].kind = "echo" =>
                reply_evt_queue'[i].id < reply_evt_queue'[j].id
    <3>1. \A i, j \in DOMAIN reply_evt_queue' : i < j => i + 1 < j + 1
      BY <1>2
    <3>2. QED
      BY <1>2, <3>1 DEF Inv, Ordered
  <2>7. /\ Before(Sent', Taken') /\ Before(Sent' \cup Taken', Queued')
        /\ Before(Sent' \cup Taken' \cup Queued', Handled')
        /\ \A n \in Sent' \cup Taken' \cup Queued' \cup Handled' : n <= frames'
    BY <1>1, <2>1, <2>2, <2>4, <2>5 DEF Inv, Ordered, Before
  <2>8. \A c \in Client : Current(c)' =>
            /\ \A i, j \in DOMAIN inbox'[c] : i < j => inbox'[c][i].id < inbox'[c][j].id
            /\ Before(Sent' \cup Taken' \cup Queued' \cup Handled', Coming(c)')
            /\ \A n \in Coming(c)' : n <= frames'
    BY <1>1, <2>1, <2>2, <2>4 DEF Inv, Ordered, Before
  <2>9. QED
    BY <1>1, <2>6, <2>7, <2>8 DEF Inv, Ordered, Before
<1>9. QED
  BY <1>4, <1>5, <1>6, <1>7, <1>8 DEF Inv

LEMMA InvLoopChecks == ASSUME Inv, LoopChecks PROVE Inv'
<1>1. /\ loop.pc = "check"
      /\ UNCHANGED <<clientVars, websocket_client_handle, reply_evt_queue, queueCreated,
                     trigger_evt_queue, engine, connecting, frames, sent>>
  BY DEF LoopChecks, At
<1>2. PICK pc \in {"send", "receive"} :
          /\ loop' = [loop EXCEPT !.pc = pc]
          /\ (pc = "send" /\ data' = data) \/ data' = NoReply
  BY DEF LoopChecks, GoTo, Drops
<1>3. loop'.pc = pc /\ loop'.client = loop.client /\ loop' \in
          [pc : {"none", "receive", "check", "send", "lock", "locked"}, client : Client \cup {NoClient}]
  BY <1>2, LoopMoves
<1>4. TypeOK'
  BY <1>1, <1>2, <1>3 DEF clientVars, Inv, TypeOK, ClientTypeOK
<1>5. LoopInOrder'
  BY <1>1, <1>2, <1>3 DEF Inv, LoopInOrder
<1>6. LockHeld' /\ TaskAndState'
  BY <1>1, <1>3 DEF clientVars, Inv, LockHeld, TaskAndState
<1>7. OneCurrent'
  BY <1>1 DEF clientVars, Inv, OneCurrent, Current
<1>8. Ordered'
  <2>1. Sent' = Sent /\ Taken' \subseteq Taken
    BY <1>1, <1>2 DEF Sent, Taken, NoReply
  <2>2. Before(Sent', Taken') /\ \A i, j \in DOMAIN sent' : i < j => sent'[i] < sent'[j]
    BY <1>1, <2>1 DEF Inv, Ordered, Before
  <2>3. /\ \A c \in Client : Current(c)' => Current(c) /\ inbox'[c] = inbox[c]
        /\ \A c \in Client : Handling(c, {"echo"})' => Handling(c, {"echo"}) /\ handling'[c] = handling[c]
    BY <1>1 DEF clientVars, Current, Handling
  <2>4. QED
    BY <1>1, <2>1, <2>2, <2>3, OrderPassed
<1>9. QED
  BY <1>4, <1>5, <1>6, <1>7, <1>8 DEF Inv

LEMMA InvLoopCalls == ASSUME Inv, LoopCalls PROVE Inv'
<1>1. /\ loop.pc = "send" /\ loop' = [pc |-> "lock", client |-> websocket_client_handle]
      /\ UNCHANGED <<clientVars, websocket_client_handle, reply_evt_queue, queueCreated,
                     trigger_evt_queue, engine, connecting, data, frames, sent>>
  BY DEF LoopCalls, At
<1>2. TypeOK'
  BY <1>1 DEF clientVars, Inv, TypeOK, ClientTypeOK
<1>3. LoopInOrder'
  BY <1>1 DEF Inv, LoopInOrder
<1>4. QED
  BY <1>1, <1>2, <1>3, InvStill

LEMMA InvLoopLocks == ASSUME Inv, LoopLocks PROVE Inv'
<1>1. /\ loop.pc = "lock" /\ loop' = [loop EXCEPT !.pc = "locked"]
      /\ lock[loop.client] = "free" /\ lock' = [lock EXCEPT ![loop.client] = "sender"]
      /\ UNCHANGED <<state, task, readable, closeSent, handling, link, inbox, failures>>
      /\ UNCHANGED <<websocket_client_handle, reply_evt_queue, queueCreated, trigger_evt_queue,
                     engine, connecting, data, frames, sent>>
  BY DEF LoopLocks, At, GoTo, SendLocks
<1>2. loop'.pc = "locked" /\ loop'.client = loop.client /\ loop' \in
          [pc : {"none", "receive", "check", "send", "lock", "locked"}, client : Client \cup {NoClient}]
  BY <1>1, LoopMoves
<1>3. TypeOK'
  BY <1>1, <1>2 DEF Inv, TypeOK, ClientTypeOK
<1>4. LockHeld'
  BY <1>1, <1>2 DEF Inv, TypeOK, ClientTypeOK, LockHeld
<1>5. TaskAndState' /\ LoopInOrder'
  BY <1>1, <1>2 DEF Inv, TaskAndState, LoopInOrder
<1>6. OneCurrent'
  BY <1>1 DEF Inv, OneCurrent, Current
<1>7. Ordered'
  <2>1. /\ \A c \in Client : Current(c)' => Current(c) /\ inbox'[c] = inbox[c]
        /\ \A c \in Client : Handling(c, {"echo"})' => Handling(c, {"echo"}) /\ handling'[c] = handling[c]
    BY <1>1 DEF Current, Handling
  <2>2. QED
    BY <1>1, <2>1, OrderKept
<1>8. QED
  BY <1>3, <1>4, <1>5, <1>6, <1>7 DEF Inv

(* A send returns: the lock is free, the reply is written or dropped, and   *)
(* the connection may have been found broken.                               *)
LEMMA InvLoopReturns == ASSUME Inv, LoopRefused \/ LoopWrites \/ LoopFails PROVE Inv'
<1>1. PICK c : c = loop.client
  OBVIOUS
<1>2. /\ loop.pc = "locked" /\ loop' = [pc |-> "receive", client |-> NoClient]
      /\ lock[c] = "sender" /\ lock' = [lock EXCEPT ![c] = "free"]
      /\ data' = NoReply
      /\ UNCHANGED <<task, readable, closeSent, handling, failures>>
      /\ UNCHANGED <<websocket_client_handle, reply_evt_queue, queueCreated, trigger_evt_queue,
                     engine, connecting, frames>>
  BY <1>1 DEF LoopRefused, LoopWrites, LoopFails, LoopReturns, At, Drops, SendRefused, SendWrites,
              SendFails, Unlock
<1>3. \/ UNCHANGED <<state, link, inbox>>
      \/ state[c] \in {"CONNECTED", "WAIT_TIMEOUT"} /\ Abort(c)
  BY <1>1 DEF LoopRefused, LoopWrites, LoopFails, SendRefused, SendWrites, SendFails
<1>4. sent' = sent \/ (data.kind = "echo" /\ sent' = Append(sent, data.id))
  BY DEF LoopRefused, LoopWrites, LoopFails
<1>5. /\ sent \in Seq(Nat) /\ Len(sent) \in Nat /\ DOMAIN sent = 1..Len(sent)
      /\ data.kind = "echo" => data.id \in Nat
  BY LenProperties DEF Inv, TypeOK, Reply, NoReply
<1>6. /\ sent' \in Seq(Nat) /\ Taken' = {} /\ Sent' \subseteq Sent \cup Taken
      /\ \A i, j \in DOMAIN sent' : i < j => sent'[i] < sent'[j]
  <2>1. Taken' = {}
    BY <1>2 DEF Taken, NoReply
  <2>2. CASE sent' = sent
    BY <1>5, <2>1, <2>2 DEF Sent, Inv, Ordered
  <2>3. CASE data.kind = "echo" /\ sent' = Append(sent, data.id)
    <3>1. /\ sent' \in Seq(Nat) /\ DOMAIN sent' = 1..(Len(sent) + 1)
          /\ sent'[Len(sent) + 1] = data.id
          /\ \A i \in 1..Len(sent) : sent'[i] = sent[i]
      BY <1>5, <2>3, AppendProperties, LenProperties
    <3>2. Sent' \subseteq Sent \cup Taken
      BY <1>5, <2>3, <3>1 DEF Sent, Taken
    <3>3. \A i \in 1..Len(sent) : sent[i] < data.id
      BY <1>5, <2>3 DEF Inv, Ordered, Before, Sent, Taken
    <3>4. \A i, j \in DOMAIN sent' : i < j => sent'[i] < sent'[j]
      <4>1. SUFFICES ASSUME NEW i \in DOMAIN sent', NEW j \in DOMAIN sent', i < j
                     PROVE  sent'[i] < sent'[j]
        OBVIOUS
      <4>2. i \in 1..Len(sent) /\ sent'[i] = sent[i]
        BY <1>5, <3>1, <4>1
      <4>3. CASE j \in 1..Len(sent)
        BY <1>5, <3>1, <4>1, <4>2, <4>3 DEF Inv, Ordered
      <4>4. CASE j = Len(sent) + 1
        BY <3>1, <3>3, <4>2, <4>4
      <4>5. QED
        BY <1>5, <3>1, <4>3, <4>4
    <3>5. QED
      BY <2>1, <3>1, <3>2, <3>4
  <2>4. QED
    BY <1>4, <2>2, <2>3
<1>7. TypeOK'
  <2>1. /\ state' \in [Client -> {"UNKNOW", "INIT", "CONNECTED", "WAIT_TIMEOUT", "CLOSING"}]
        /\ link' \in [Client -> {"down", "up", "broken"}] /\ inbox' \in [Client -> Seq(Frame)]
    <3>1. CASE UNCHANGED <<state, link, inbox>>
      BY <3>1 DEF Inv, TypeOK, ClientTypeOK
    <3>2. CASE Abort(c) /\ c \in Client
      BY <3>2 DEF Abort, Inv, TypeOK, ClientTypeOK
    <3>3. CASE Abort(c) /\ c \notin Client
      <4>1. \A d \in Client : state'[d] = state[d] /\ link'[d] = link[d] /\ inbox'[d] = inbox[d]
        BY <3>3 DEF Abort, Inv, TypeOK, ClientTypeOK
      <4>2. /\ state' = [d \in Client |-> state'[d]] /\ link' = [d \in Client |-> link'[d]]
            /\ inbox' = [d \in Client |-> inbox'[d]]
        BY <3>3 DEF Abort, Inv, TypeOK, ClientTypeOK
      <4>3. QED
        BY <4>1, <4>2 DEF Inv, TypeOK, ClientTypeOK
    <3>4. QED
      BY <1>3, <3>1, <3>2, <3>3
  <2>2. ClientTypeOK'
    BY <1>2, <2>1 DEF Inv, TypeOK, ClientTypeOK
  <2>3. QED
    BY <1>2, <1>6, <2>2 DEF Inv, TypeOK
<1>8. LockHeld'
  BY <1>1, <1>2 DEF Inv, TypeOK, ClientTypeOK, LockHeld
<1>9. c \in Client => task[c] \notin {"connecting", "dispatch"}
  BY <1>2 DEF Inv, LockHeld
<1>10. TaskAndState'
  <2>1. CASE UNCHANGED <<state, link, inbox>>
    BY <1>2, <2>1 DEF Inv, TaskAndState
  <2>2. CASE state[c] \in {"CONNECTED", "WAIT_TIMEOUT"} /\ Abort(c)
    BY <1>2, <1>9, <2>2 DEF Inv, TypeOK, ClientTypeOK, TaskAndState, Abort
  <2>3. QED
    BY <1>3, <2>1, <2>2
<1>11. LoopInOrder'
  BY <1>2 DEF Inv, LoopInOrder
<1>12. \A d \in Client : Current(d)' => Current(d) /\ (inbox'[d] = <<>> \/ inbox'[d] = inbox[d])
  BY <1>2, <1>3 DEF Current, Abort, Inv, TypeOK, ClientTypeOK
<1>13. OneCurrent'
  BY <1>2, <1>12 DEF Inv, OneCurrent
<1>14. Ordered'
  <2>1. \A d \in Client : Handling(d, {"echo"})' => Handling(d, {"echo"}) /\ handling'[d] = handling[d]
    BY <1>2 DEF Handling
  <2>2. Before(Sent', Taken') /\ Sent' \cup Taken' \subseteq Sent \cup Taken
    BY <1>6 DEF Before
  <2>3. QED
    BY <1>2, <1>6, <1>12, <2>1, <2>2, OrderPassed
<1>15. QED
  BY <1>7, <1>8, <1>10, <1>11, <1>13, <1>14 DEF Inv

-----------------------------------------------------------------------------
(* The control unit's next frame is newer than everything on its way.       *)
LEMMA InvControlUnitSends == ASSUME Inv, NEW c \in Client, ControlUnitSends(c) PROVE Inv'
<1>1. PICK frame : /\ frame \in Frame /\ frame.id = frames + 1
                   /\ link[c] = "up" /\ inbox' = [inbox EXCEPT ![c] = Append(@, frame)]
  <2>1. PICK kind \in Kinds : ServerSends(c, [kind |-> kind, id |-> frames + 1])
    BY DEF ControlUnitSends
  <2>2. [kind |-> kind, id |-> frames + 1] \in Frame
    BY KindsAssumption, ReplyLenAssumption DEF Frame, Inv, TypeOK
  <2>3. QED
    BY <2>1, <2>2 DEF ServerSends
<1>2. /\ frames < MaxFrames /\ frames' = frames + 1
      /\ UNCHANGED <<state, task, readable, lock, closeSent, handling, link, failures>>
      /\ UNCHANGED <<websocket_client_handle, reply_evt_queue, queueCreated, trigger_evt_queue,
                     engine, connecting, loop, data, sent>>
  BY DEF ControlUnitSends, ServerSends
<1>3. /\ frames \in Nat /\ MaxFrames \in Nat /\ inbox[c] \in Seq(Frame) /\ Len(inbox[c]) \in Nat
      /\ DOMAIN inbox[c] = 1..Len(inbox[c]) /\ inbox \in [Client -> Seq(Frame)]
  BY ReplyLenAssumption, LenProperties DEF Inv, TypeOK, ClientTypeOK
<1>4. PICK q : q = Append(inbox[c], frame)
  OBVIOUS
<1>5. /\ q \in Seq(Frame) /\ DOMAIN q = 1..(Len(inbox[c]) + 1) /\ q[Len(inbox[c]) + 1] = frame
      /\ \A i \in 1..Len(inbox[c]) : q[i] = inbox[c][i]
  BY <1>1, <1>3, <1>4, AppendProperties, LenProperties
<1>6. inbox' = [inbox EXCEPT ![c] = q]
  BY <1>1, <1>4
<1>7. TypeOK'
  BY <1>2, <1>3, <1>5, <1>6 DEF Inv, TypeOK, ClientTypeOK
<1>8. LockHeld' /\ LoopInOrder'
  BY <1>2 DEF Inv, LockHeld, LoopInOrder
<1>9. TaskAndState'
  <2>1. q # <<>>
    BY <1>3, <1>5
  <2>2. QED
    BY <1>1, <1>2, <1>3, <1>6, <2>1 DEF Inv, TaskAndState
<1>10. \A d \in Client : Current(d)' <=> Current(d)
  BY <1>2 DEF Current
<1>11. OneCurrent'
  BY <1>2, <1>10 DEF Inv, OneCurrent
<1>12. Ordered'
  <2>1. Sent' = Sent /\ Taken' = Taken /\ Queued' = Queued /\ Handled' = Handled
    BY <1>2 DEF Sent, Taken, Queued, Handled, Handling
  <2>2. PICK ids : ids = Sent \cup Taken \cup Queued \cup Handled
    OBVIOUS
  <2>3. ids \subseteq Nat /\ \A n \in ids : n <= frames
    <3>1. Sent \cup Taken \subseteq Nat
      BY DEF Inv, TypeOK, Sent, Taken, Reply, NoReply
    <3>2. Queued \subseteq Nat
      <4>1. \A i \in DOMAIN reply_evt_queue : reply_evt_queue[i] \in Reply
        BY ElementOfSeq, LenProperties DEF Inv, TypeOK
      <4>2. QED
        BY <4>1 DEF Queued, Reply
    <3>3. Handled \subseteq Nat
      <4>1. \A d \in Client : handling[d] \in Frame \cup Delay \cup {Nothing, Connected}
        BY DEF Inv, TypeOK, ClientTypeOK
      <4>2. ASSUME NEW d \in Client PROVE handling[d].id \in Nat
        <5>1. CASE handling[d] \in Frame \cup Delay
          BY <5>1 DEF Frame, Delay
        <5>2. CASE handling[d] \in {Nothing, Connected}
          BY <5>2 DEF Nothing, Connected
        <5>3. QED
          BY <4>1, <5>1, <5>2
      <4>3. QED
        BY <4>2 DEF Handled
    <3>4. QED
      BY <2>2, <3>1, <3>2, <3>3 DEF Inv, Ordered
  <2>4. \A n \in ids : n <= frames'
    BY <1>2, <1>3, <2>3
  <2>5. ASSUME NEW d \in Client, Current(d)
        PROVE  /\ \A i, j \in DOMAIN inbox'[d] : i < j => inbox'[d][i].id < inbox'[d][j].id
               /\ Before(ids, Coming(d)')
               /\ \A n \in Coming(d)' : n <= frames'
    <3>1. /\ \A i, j \in DOMAIN inbox[d] : i < j => inbox[d][i].id < inbox[d][j].id
          /\ Before(ids, Coming(d))
          /\ \A n \in Coming(d) : n <= frames
      BY <2>2, <2>5 DEF Inv, Ordered
    <3>2. \A i \in DOMAIN inbox[d] : inbox[d][i].id \in Nat /\ inbox[d][i].id <= frames
      <4>1. \A i \in DOMAIN inbox[d] : inbox[d][i] \in Frame
        BY <1>3, ElementOfSeq, LenProperties
      <4>2. QED
        BY <3>1, <4>1 DEF Coming, Frame
    <3>3. CASE d # c
      <4>1. inbox'[d] = inbox[d]
        BY <1>3, <1>6, <3>3
      <4>2. Coming(d)' = Coming(d)
        BY <4>1 DEF Coming
      <4>3. \A n \in Coming(d) : n <= frames'
        BY <1>2, <1>3, <3>2 DEF Coming
      <4>4. QED
        BY <3>1, <4>1, <4>2, <4>3
    <3>4. CASE d = c
      <4>1. inbox'[d] = q
        BY <1>3, <1>6, <3>4
      <4>2. ASSUME NEW i \in DOMAIN q
            PROVE  \/ i \in DOMAIN inbox[c] /\ q[i] = inbox[c][i]
                   \/ i = Len(inbox[c]) + 1 /\ q[i].id = frames + 1
        BY <1>1, <1>3, <1>5, <4>2
      <4>3. \A i, j \in DOMAIN q : i < j => q[i].id < q[j].id
        <5>1. SUFFICES ASSUME NEW i \in DOMAIN q, NEW j \in DOMAIN q, i < j PROVE q[i].id < q[j].id
          OBVIOUS
        <5>2. i \in DOMAIN inbox[c] /\ q[i] = inbox[c][i]
          BY <1>3, <1>5, <5>1
        <5>3. CASE j \in DOMAIN inbox[c] /\ q[j] = inbox[c][j]
          BY <3>1, <3>4, <5>1, <5>2, <5>3
        <5>4. CASE q[j].id = frames + 1
          BY <1>3, <3>2, <3>4, <5>2, <5>4
        <5>5. QED
          BY <4>2, <5>3, <5>4
      <4>4. Coming(d)' \subseteq Coming(d) \cup {frames + 1}
        BY <3>4, <4>1, <4>2 DEF Coming
      <4>5. Before(ids, {frames + 1})
        BY <1>3, <2>3 DEF Before
      <4>6. Before(ids, Coming(d)')
        BY <3>1, <4>4, <4>5 DEF Before
      <4>7. \A n \in Coming(d) : n \in Nat /\ n <= frames
        BY <3>2 DEF Coming
      <4>8. \A n \in Coming(d)' : n <= frames'
        BY <1>2, <1>3, <4>4, <4>7
      <4>9. QED
        BY <4>1, <4>3, <4>6, <4>8
    <3>5. QED
      BY <3>3, <3>4
  <2>6. QED
    BY <1>2, <1>10, <2>1, <2>2, <2>4, <2>5 DEF Inv, Ordered
<1>13. QED
  BY <1>7, <1>8, <1>9, <1>11, <1>12 DEF Inv

-----------------------------------------------------------------------------
LEMMA InvStep == Inv /\ [Next]_vars => Inv'
<1> SUFFICES ASSUME Inv, [Next]_vars PROVE Inv'
    OBVIOUS
<1>1. CASE \E k \in Caller : Connecting(k)
  BY <1>1, InvConnecting
<1>2. CASE CreateQueue
  BY <1>2, InvCreateQueue
<1>3. CASE Loop
  BY <1>3, InvLoopTakes, InvLoopChecks, InvLoopCalls, InvLoopLocks, InvLoopReturns DEF Loop
<1>4. ASSUME NEW c \in Client, (TaskStep(c) \/ Reconnects(c) \/ LinkBreaks(c)) /\ UNCHANGED own
      PROVE  Inv'
  BY <1>4, InvMove DEF Reconnects, TaskMoves
<1>5. ASSUME NEW c \in Client, Handler(c) PROVE Inv'
  BY <1>5, InvHandlerReplies, InvRestart, InvHandlerPosts, InvHandlerSilent, InvHandlerReconnects,
     InvHandlerReconnected DEF Handler
<1>6. ASSUME NEW c \in Client, ControlUnitSends(c) PROVE Inv'
  BY <1>6, InvControlUnitSends
<1>7. CASE Engine \/ HitPosted
  BY <1>7, InvEngineTakes, InvEngineAnswers, InvHitPosted DEF Engine
<1>8. CASE UNCHANGED vars
  <2>1. UNCHANGED clientVars /\ UNCHANGED own
    BY <1>8 DEF vars
  <2>2. TypeOK'
    BY <2>1 DEF clientVars, own, Inv, TypeOK, ClientTypeOK
  <2>3. LoopInOrder'
    BY <2>1 DEF own, Inv, LoopInOrder
  <2>4. QED
    BY <2>1, <2>2, <2>3, InvStill DEF own
<1>9. QED
  BY <1>1, <1>2, <1>3, <1>4, <1>5, <1>6, <1>7, <1>8 DEF Next

LEMMA AlwaysInv == Spec => []Inv
BY InvInit, InvStep, PTL DEF Spec

(* The clients, the queue of replies and the tasks keep within their        *)
(* ranges, whatever connects, breaks or closes.                             *)
THEOREM WebsocketTypeCorrect == Spec => []TypeOK
<1>1. Inv => TypeOK
  BY DEF Inv
<1>2. QED
  BY <1>1, AlwaysInv, PTL

(* A client's lock is never held by a handler and by reply_loop at once,    *)
(* and whoever replaces a client holds the lock of the old one all along.   *)
THEOREM LockHasOneHolder == Spec => []LockHeld
<1>1. Inv => LockHeld
  BY DEF Inv
<1>2. QED
  BY <1>1, AlwaysInv, PTL

(* Replies are written in the order of the requests and never twice,        *)
(* although clients are replaced and reply_loop reads the handle twice.     *)
THEOREM RepliedInOrder == Spec => []RepliesInOrder
<1>1. Inv => RepliesInOrder
  BY DEF Inv, Ordered, RepliesInOrder
<1>2. QED
  BY <1>1, AlwaysInv, PTL

(* An open connection belongs to a living task, and a connected client is   *)
(* the one of the global handle or is being handled or replaced.            *)
THEOREM LinksHaveTasks == Spec => []LinkHasTask
<1>1. Inv => LinkHasTask
  <2>1. SUFFICES ASSUME Inv, NEW c \in Client
                 PROVE  /\ link[c] # "down" => task[c] # "none" /\ state[c] \in {"CONNECTED", "CLOSING"}
                        /\ is_connected(c) => c = websocket_client_handle \/ lock[c] = "task"
    BY DEF LinkHasTask
  <2>2. link[c] # "down" => task[c] # "none" /\ state[c] \in {"CONNECTED", "CLOSING"}
    BY <2>1 DEF Inv, TaskAndState
  <2>3. CASE connecting[c] # "no"
    BY <2>1, <2>2, <2>3 DEF Inv, LockHeld
  <2>4. CASE connecting[c] = "no" /\ is_connected(c)
    <3>1. Current(c)
      BY <2>1, <2>4 DEF Inv, TaskAndState, Current, is_connected
    <3>2. QED
      BY <2>1, <2>2, <3>1 DEF Inv, OneCurrent
  <2>5. QED
    BY <2>2, <2>3, <2>4
<1>2. QED
  BY <1>1, AlwaysInv, PTL

-----------------------------------------------------------------------------
(* How many of what a queue holds are in a set: the requests of an inbox,   *)
(* the sets that wait for the engine.                                       *)
Count(s, S) == Cardinality({i \in DOMAIN s : s[i] \in S})

LEMMA CountIsNat ==
    ASSUME NEW T, NEW s \in Seq(T), NEW S
    PROVE  IsFiniteSet({i \in DOMAIN s : s[i] \in S}) /\ Count(s, S) \in Nat
<1>1. DOMAIN s = 1..Len(s) /\ Len(s) \in Nat
  BY LenProperties
<1>2. IsFiniteSet(1..Len(s))
  BY <1>1, FS_Interval
<1>3. IsFiniteSet({i \in DOMAIN s : s[i] \in S})
  BY <1>1, <1>2, FS_Subset
<1>4. QED
  BY <1>3, FS_CardinalityType DEF Count

LEMMA CountEmpty == ASSUME NEW S PROVE Count(<<>>, S) = 0
<1>1. {i \in DOMAIN <<>> : <<>>[i] \in S} = {}
  OBVIOUS
<1>2. QED
  BY <1>1, FS_EmptySet DEF Count

(* What joins the queue is counted if it is in the set.                     *)
LEMMA CountAppend ==
    ASSUME NEW T, NEW s \in Seq(T), NEW e \in T, NEW S
    PROVE  Count(Append(s, e), S) = Count(s, S) + (IF e \in S THEN 1 ELSE 0)
<1>1. PICK q : q = Append(s, e)
  OBVIOUS
<1>2. PICK n \in Nat : n = Len(s) /\ DOMAIN s = 1..n
  BY LenProperties
<1>3. DOMAIN q = 1..(n + 1) /\ q[n + 1] = e /\ \A i \in 1..n : q[i] = s[i]
  BY <1>1, <1>2, AppendProperties, LenProperties
<1>4. PICK P : P = {i \in DOMAIN s : s[i] \in S} /\ IsFiniteSet(P)
  <2>1. IsFiniteSet({i \in DOMAIN s : s[i] \in S})
    BY CountIsNat
  <2>2. QED
    BY <2>1
<1>5. n + 1 \notin P /\ Cardinality(P) \in Nat
  BY <1>2, <1>4, FS_CardinalityType
<1>6. CASE e \in S
  <2>1. {i \in DOMAIN q : q[i] \in S} = P \cup {n + 1}
    BY <1>2, <1>3, <1>4, <1>6
  <2>2. Cardinality(P \cup {n + 1}) = Cardinality(P) + 1
    BY <1>4, <1>5, FS_AddElement
  <2>3. QED
    BY <1>1, <1>4, <1>6, <2>1, <2>2 DEF Count
<1>7. CASE e \notin S
  <2>1. {i \in DOMAIN q : q[i] \in S} = P
    BY <1>2, <1>3, <1>4, <1>7
  <2>2. Count(Append(s, e), S) = Cardinality(P) /\ Count(s, S) = Cardinality(P)
    BY <1>1, <1>4, <2>1 DEF Count
  <2>3. QED
    BY <1>5, <1>7, <2>2
<1>8. QED
  BY <1>6, <1>7

(* What leaves it no longer counts: what is left is the old positions but   *)
(* the first, each moved by one.                                            *)
LEMMA CountTail ==
    ASSUME NEW T, NEW s \in Seq(T), s # <<>>, NEW S
    PROVE  Count(s, S) = Count(Tail(s), S) + (IF Head(s) \in S THEN 1 ELSE 0)
<1>1. PICK q : q = Tail(s) /\ q \in Seq(T)
  BY HeadTailProperties
<1>2. PICK n \in Nat : n + 1 = Len(s) /\ n = Len(q)
  BY <1>1, HeadTailProperties, LenProperties, EmptySeq
<1>3. /\ DOMAIN s = 1..(n + 1) /\ DOMAIN q = 1..n
      /\ Head(s) = s[1] /\ \A i \in 1..n : q[i] = s[i + 1]
  BY <1>1, <1>2, HeadTailProperties, LenProperties
<1>4. PICK P : P = {i \in DOMAIN s : s[i] \in S} /\ IsFiniteSet(P)
  <2>1. IsFiniteSet({i \in DOMAIN s : s[i] \in S})
    BY CountIsNat
  <2>2. QED
    BY <2>1
<1>5. PICK Q : Q = {i \in DOMAIN q : q[i] \in S} /\ IsFiniteSet(Q)
  <2>1. IsFiniteSet({i \in DOMAIN q : q[i] \in S})
    BY <1>1, CountIsNat
  <2>2. QED
    BY <2>1
<1>6. Cardinality(Q) = Cardinality(P \ {1})
  <2>1. PICK f : f = [i \in Q |-> i + 1]
    OBVIOUS
  <2>2. f \in [Q -> P \ {1}]
    BY <1>3, <1>4, <1>5, <2>1
  <2>3. \A i, j \in Q : f[i] = f[j] => i = j
    BY <1>3, <1>5, <2>1
  <2>4. \A j \in P \ {1} : \E i \in Q : f[i] = j
    <3>1. SUFFICES ASSUME NEW j \in P \ {1} PROVE \E i \in Q : f[i] = j
      OBVIOUS
    <3>2. j - 1 \in 1..n /\ (j - 1) + 1 = j /\ s[j] \in S
      BY <1>3, <1>4, <3>1
    <3>3. j - 1 \in Q
      BY <1>3, <1>5, <3>2
    <3>4. QED
      BY <2>1, <3>2, <3>3
  <2>5. f \in Bijection(Q, P \ {1})
    BY <2>2, <2>3, <2>4, Fun_IsBij
  <2>6. QED
    BY <1>5, <2>5, FS_Bijection DEF ExistsBijection
<1>7. Cardinality(P \ {1}) = IF 1 \in P THEN Cardinality(P) - 1 ELSE Cardinality(P)
  BY <1>4, FS_RemoveElement
<1>8. 1 \in P <=> Head(s) \in S
  BY <1>3, <1>4
<1>9. Cardinality(P) \in Nat /\ Cardinality(Q) \in Nat
  BY <1>4, <1>5, FS_CardinalityType
<1>10. Count(s, S) = Cardinality(P) /\ Count(Tail(s), S) = Cardinality(Q)
  BY <1>1, <1>4, <1>5 DEF Count
<1>11. QED
  BY <1>6, <1>7, <1>8, <1>9, <1>10

-----------------------------------------------------------------------------
(* What each step does to the clients, as far as the room in the queue of   *)
(* replies is concerned.                                                    *)
Same(d) ==
    /\ state'[d] = state[d] /\ task'[d] = task[d] /\ closeSent'[d] = closeSent[d]
    /\ handling'[d] = handling[d] /\ inbox'[d] = inbox[d]

(* A step of client c that starts and ends no handler; frames may be lost.  *)
Idles(c) ==
    /\ task'[c] = "dispatch" <=> task[c] = "dispatch"
    /\ handling'[c] = handling[c] /\ (inbox'[c] = <<>> \/ inbox'[c] = inbox[c])
    /\ Current(c)' => Current(c)
    /\ state'[c] = "CONNECTED" => state[c] = "CONNECTED"
    /\ task'[c] = "created" => task[c] = "created"

(* The handler of a new connection, and that of a frame, begins.            *)
Opens(c) ==
    /\ state[c] = "INIT" /\ state'[c] = "CONNECTED" /\ task'[c] = "dispatch"
    /\ handling'[c] = Connected /\ inbox[c] = <<>> /\ inbox'[c] = <<>>

Reads(c) ==
    /\ task[c] = "top" /\ state[c] = "CONNECTED" /\ state'[c] = "CONNECTED" /\ task'[c] = "dispatch"
    /\ inbox[c] # <<>> /\ handling'[c] = Head(inbox[c]) /\ inbox'[c] = Tail(inbox[c])

(* Nothing but client c moves, and only the wait before a reconnect makes   *)
(* it connect anew.                                                         *)
Stirs(c) ==
    /\ \A d \in Client \ {c} : Same(d)
    /\ state'[c] \in {"UNKNOW", "INIT"} => state[c] \in {"UNKNOW", "INIT", "CLOSING"} \/ WaitTimeout(c)
    /\ state'[c] = "CLOSING" => state[c] = "CLOSING"

LEMMA MoveShape ==
    ASSUME Inv, NEW c \in Client, TaskMoves(c), UNCHANGED own
    PROVE  /\ \A d \in Client \ {c} : Same(d)
           /\ \A d \in Client : Unused(d)' => Unused(d)
           /\ state'[c] \in {"UNKNOW", "INIT"} => state[c] \in {"UNKNOW", "INIT", "CLOSING"} \/ WaitTimeout(c)
           /\ state'[c] = "CLOSING" => state[c] = "CLOSING"
           /\ Idles(c) \/ Opens(c) \/ Reads(c)
<1>0. UNCHANGED <<connecting, websocket_client_handle>>
  BY DEF own
<1>1. CASE TaskBegins(c)
  <2>1. Stirs(c)
    BY <1>1 DEF Stirs, TaskBegins, Same, Inv, TypeOK, ClientTypeOK, TaskAndState
  <2>2. Unused(c)' => Unused(c)
    BY <1>1, <1>0 DEF TaskBegins, Unused, Inv, TypeOK, ClientTypeOK
  <2>3. Idles(c)
    BY <1>1, <1>0 DEF TaskBegins, Idles, Current, Inv, TypeOK, ClientTypeOK, TaskAndState
  <2>4. QED
    BY <1>0, <2>1, <2>2, <2>3 DEF Stirs, Unused, Same
<1>2. CASE Connect(c)
  <2>1. Stirs(c)
    BY <1>2 DEF Stirs, Connect, LockedIn, Same, Inv, TypeOK, ClientTypeOK
  <2>2. Unused(c)' => Unused(c)
    BY <1>2, <1>0 DEF Connect, LockedIn, Unused, Inv, TypeOK, ClientTypeOK
  <2>3. Idles(c)
    BY <1>2, <1>0 DEF Connect, LockedIn, Idles, Current, Inv, TypeOK, ClientTypeOK
  <2>4. QED
    BY <1>0, <2>1, <2>2, <2>3 DEF Stirs, Unused, Same
<1>3. CASE ConnectFails(c)
  <2>1. Stirs(c)
    BY <1>3 DEF Stirs, ConnectFails, Abort, Same, Inv, TypeOK, ClientTypeOK
  <2>2. Unused(c)' => Unused(c)
    BY <1>3, <1>0 DEF ConnectFails, Abort, Unused, Inv, TypeOK, ClientTypeOK
  <2>3. Idles(c)
    BY <1>3, <1>0 DEF ConnectFails, Abort, Idles, Current, Inv, TypeOK, ClientTypeOK, TaskAndState
  <2>4. QED
    BY <1>0, <2>1, <2>2, <2>3 DEF Stirs, Unused, Same
<1>4. CASE PongTimeout(c)
  <2>1. Stirs(c)
    BY <1>4 DEF Stirs, PongTimeout, LockedIn, Abort, Same, Inv, TypeOK, ClientTypeOK
  <2>2. Unused(c)' => Unused(c)
    BY <1>4, <1>0 DEF PongTimeout, LockedIn, Abort, Unused, Inv, TypeOK, ClientTypeOK
  <2>3. Idles(c)
    BY <1>4, <1>0 DEF PongTimeout, LockedIn, Abort, Idles, Current, Inv, TypeOK, ClientTypeOK
  <2>4. QED
    BY <1>0, <2>1, <2>2, <2>3 DEF Stirs, Unused, Same
<1>5. CASE SkipRead(c)
  <2>1. Stirs(c)
    BY <1>5 DEF Stirs, SkipRead, LockedIn, Same, Inv, TypeOK, ClientTypeOK
  <2>2. Unused(c)' => Unused(c)
    BY <1>5, <1>0 DEF SkipRead, LockedIn, Unused, Inv, TypeOK, ClientTypeOK
  <2>3. Idles(c)
    BY <1>5, <1>0 DEF SkipRead, LockedIn, Idles, Current, Inv, TypeOK, ClientTypeOK
  <2>4. QED
    BY <1>0, <2>1, <2>2, <2>3 DEF Stirs, Unused, Same
<1>6. CASE SendClose(c)
  <2>1. Stirs(c)
    BY <1>6 DEF Stirs, SendClose, LockedIn, Same, Inv, TypeOK, ClientTypeOK
  <2>2. Unused(c)' => Unused(c)
    BY <1>6, <1>0 DEF SendClose, LockedIn, Unused, Inv, TypeOK, ClientTypeOK
  <2>3. Idles(c)
    BY <1>6, <1>0 DEF SendClose, LockedIn, Idles, Current, Inv, TypeOK, ClientTypeOK
  <2>4. QED
    BY <1>0, <2>1, <2>2, <2>3 DEF Stirs, Unused, Same
<1>7. CASE Poll(c)
  <2>1. Stirs(c)
    BY <1>7 DEF Stirs, Poll, BackToTop, Same, Inv, TypeOK, ClientTypeOK
  <2>2. Unused(c)' => Unused(c)
    BY <1>7, <1>0 DEF Poll, BackToTop, Unused, Inv, TypeOK, ClientTypeOK
  <2>3. Idles(c)
    BY <1>7, <1>0 DEF Poll, BackToTop, Idles, Current, Inv, TypeOK, ClientTypeOK
  <2>4. QED
    BY <1>0, <2>1, <2>2, <2>3 DEF Stirs, Unused, Same
<1>8. CASE PollBroken(c)
  <2>1. Stirs(c)
    BY <1>8 DEF Stirs, PollBroken, BackToTop, Abort, Same, Inv, TypeOK, ClientTypeOK
  <2>2. Unused(c)' => Unused(c)
    BY <1>8, <1>0 DEF PollBroken, BackToTop, Abort, Unused, Inv, TypeOK, ClientTypeOK
  <2>3. Idles(c)
    BY <1>8, <1>0 DEF PollBroken, BackToTop, Abort, Idles, Current, Inv, TypeOK, ClientTypeOK
  <2>4. QED
    BY <1>0, <2>1, <2>2, <2>3 DEF Stirs, Unused, Same
<1>9. CASE NoPoll(c)
  <2>1. Stirs(c)
    BY <1>9 DEF Stirs, NoPoll, BackToTop, Same, Inv, TypeOK, ClientTypeOK
  <2>2. Unused(c)' => Unused(c)
    BY <1>9, <1>0 DEF NoPoll, BackToTop, Unused, Inv, TypeOK, ClientTypeOK
  <2>3. Idles(c)
    BY <1>9, <1>0 DEF NoPoll, BackToTop, Idles, Current, Inv, TypeOK, ClientTypeOK
  <2>4. QED
    BY <1>0, <2>1, <2>2, <2>3 DEF Stirs, Unused, Same
<1>10. CASE TaskEnds(c)
  <2>1. Stirs(c)
    BY <1>10 DEF Stirs, TaskEnds, Same, Inv, TypeOK, ClientTypeOK
  <2>2. Unused(c)' => Unused(c)
    BY <1>10, <1>0 DEF TaskEnds, Unused, Inv, TypeOK, ClientTypeOK
  <2>3. Idles(c)
    BY <1>10, <1>0 DEF TaskEnds, Idles, Current, Inv, TypeOK, ClientTypeOK
  <2>4. QED
    BY <1>0, <2>1, <2>2, <2>3 DEF Stirs, Unused, Same
<1>11. CASE WaitTimeout(c)
  <2>1. Stirs(c)
    BY <1>11 DEF Stirs, WaitTimeout, LockedIn, Same, Inv, TypeOK, ClientTypeOK
  <2>2. Unused(c)' => Unused(c)
    BY <1>11, <1>0 DEF WaitTimeout, LockedIn, Unused, Inv, TypeOK, ClientTypeOK
  <2>3. Idles(c)
    BY <1>11, <1>0 DEF WaitTimeout, LockedIn, Idles, Current, Inv, TypeOK, ClientTypeOK
  <2>4. QED
    BY <1>0, <2>1, <2>2, <2>3 DEF Stirs, Unused, Same
<1>12. CASE LinkBreaks(c)
  <2>1. Stirs(c)
    BY <1>12 DEF Stirs, LinkBreaks, Same, Inv, TypeOK, ClientTypeOK
  <2>2. Unused(c)' => Unused(c)
    BY <1>12, <1>0 DEF LinkBreaks, Unused, Inv, TypeOK, ClientTypeOK
  <2>3. Idles(c)
    BY <1>12, <1>0 DEF LinkBreaks, Idles, Current, Inv, TypeOK, ClientTypeOK
  <2>4. QED
    BY <1>0, <2>1, <2>2, <2>3 DEF Stirs, Unused, Same
<1>13. CASE ConnectSucceeds(c)
  <2>1. /\ \A d \in Client \ {c} : Same(d)
        /\ Opens(c) /\ state'[c] = "CONNECTED" /\ ~Unused(c)'
    BY <1>13 DEF ConnectSucceeds, Dispatch, Same, Opens, Unused, Inv, TypeOK, ClientTypeOK, TaskAndState
  <2>2. QED
    BY <1>0, <2>1 DEF Unused, Same
<1>14. CASE Recv(c)
  <2>1. /\ task[c] = "top" /\ state[c] = "CONNECTED" /\ closeSent' = closeSent
    BY <1>14, Receives
  <2>2. CASE link[c] # "up"
    <3>1. Abort(c) /\ task' = [task EXCEPT ![c] = "unlocked"] /\ UNCHANGED handling
      BY <1>14, <2>2, Receives
    <3>2. /\ \A d \in Client \ {c} : Same(d)
          /\ Idles(c) /\ state'[c] = "WAIT_TIMEOUT" /\ ~Unused(c)'
      BY <1>0, <2>1, <3>1 DEF Abort, Same, Idles, Current, Unused, Inv, TypeOK, ClientTypeOK
    <3>3. QED
      BY <1>0, <3>2 DEF Unused, Same
  <2>3. CASE link[c] = "up"
    <3>1. PICK frame, rest :
              /\ inbox[c] # <<>> /\ frame = Head(inbox[c]) /\ rest = Tail(inbox[c])
              /\ inbox' = [inbox EXCEPT ![c] = rest]
              /\ handling' = [handling EXCEPT ![c] = frame]
      BY <1>14, <2>3, Receives
    <3>2. task' = [task EXCEPT ![c] = "dispatch"] /\ UNCHANGED state
      BY <1>14, <2>3, Receives
    <3>3. /\ \A d \in Client \ {c} : Same(d)
          /\ Reads(c) /\ state'[c] = "CONNECTED" /\ ~Unused(c)'
      BY <2>1, <3>1, <3>2 DEF Same, Reads, Unused, Inv, TypeOK, ClientTypeOK
    <3>4. QED
      BY <1>0, <3>3 DEF Unused, Same
  <2>4. QED
    BY <2>2, <2>3
<1>15. QED
  BY <1>1, <1>2, <1>3, <1>4, <1>5, <1>6, <1>7, <1>8, <1>9, <1>10, <1>11, <1>12, <1>13, <1>14 DEF TaskMoves, TaskStep

(* A handler returns: the client reads on, or its connection closes.        *)
LEMMA ReturnShape ==
    ASSUME Inv, NEW c \in Client, Return(c)
    PROVE  /\ \A d \in Client \ {c} : Same(d)
           /\ task[c] = "dispatch" /\ state[c] = "CONNECTED"
           /\ task'[c] = "unlocked" /\ handling'[c] = Nothing /\ inbox'[c] = inbox[c]
           /\ handling[c].kind \notin {"close", "close_other"} => state'[c] = "CONNECTED"
           /\ state'[c] \in {"CONNECTED", "CLOSING"}
BY DEF Return, Same, Inv, TypeOK, ClientTypeOK, TaskAndState

(* A handler that posts returns, or begins its delay.                       *)
LEMMA PostShape ==
    ASSUME Inv, NEW c \in Client, HandlerPosts(c)
    PROVE  /\ \A d \in Client \ {c} : Same(d)
           /\ task[c] = "dispatch" /\ state[c] = "CONNECTED" /\ state'[c] = "CONNECTED"
           /\ task'[c] \in {"dispatch", "unlocked"} /\ handling'[c].kind \in {"nothing", "delay"}
           /\ inbox'[c] = inbox[c] /\ closeSent' = closeSent
           /\ Posting(c) /\ Len(trigger_evt_queue) < QueueLen
           /\ trigger_evt_queue' = Append(trigger_evt_queue, handling[c].kind)
           /\ handling[c].kind \in {"set", "over"}
           /\ UNCHANGED <<websocket_client_handle, reply_evt_queue, queueCreated, engine,
                          connecting, loop, data>>
<1>1. /\ Posting(c) /\ Len(trigger_evt_queue) < QueueLen /\ handling[c].kind \in {"set", "over"}
      /\ task[c] = "dispatch" /\ state[c] = "CONNECTED"
      /\ trigger_evt_queue' = Append(trigger_evt_queue, handling[c].kind)
      /\ UNCHANGED <<websocket_client_handle, reply_evt_queue, queueCreated, engine,
                     connecting, loop, data>>
  BY DEF HandlerPosts, Posting, Handling, Inv, TaskAndState
<1>2. CASE handling[c].kind = "over"
  <2>1. /\ handling' = [handling EXCEPT ![c].kind = "delay"]
        /\ UNCHANGED <<state, task, closeSent, inbox>>
    BY <1>2 DEF HandlerPosts
  <2>2. handling[c] \in Frame
    <3>1. handling[c] \in Frame \cup Delay \cup {Nothing, Connected}
      BY DEF Inv, TypeOK, ClientTypeOK
    <3>2. handling[c] \notin Delay /\ handling[c] \notin {Nothing, Connected}
      BY <1>2 DEF Delay, Nothing, Connected
    <3>3. QED
      BY <3>1, <3>2
  <2>3. [handling[c] EXCEPT !.kind = "delay"].kind = "delay"
    BY <2>2 DEF Frame
  <2>4. handling'[c] = [handling[c] EXCEPT !.kind = "delay"]
    BY <2>1 DEF Inv, TypeOK, ClientTypeOK
  <2>5. \A d \in Client \ {c} : Same(d)
    BY <2>1 DEF Same, Inv, TypeOK, ClientTypeOK
  <2>6. QED
    BY <1>1, <2>1, <2>3, <2>4, <2>5
<1>3. CASE handling[c].kind # "over"
  <2>1. Return(c)
    BY <1>3 DEF HandlerPosts
  <2>2. closeSent' = closeSent /\ handling[c].kind \notin {"close", "close_other"}
    BY <1>1, <2>1 DEF Return
  <2>3. QED
    BY <1>1, <2>1, <2>2, ReturnShape DEF Nothing
<1>4. QED
  BY <1>2, <1>3

(* The one handler that replies or posts is that of the client of the       *)
(* handle.                                                                  *)
LEMMA RepliesFromHandle ==
    ASSUME Inv, NEW c \in Client, Replying(c) \/ Posting(c)
    PROVE  /\ c = websocket_client_handle /\ Current(c) /\ state[c] = "CONNECTED"
           /\ connecting[c] = "no"
<1>1. task[c] = "dispatch" /\ handling[c].kind \in {"CONNECTED", "echo", "set", "over"}
  BY DEF Replying, Posting, Handling
<1>2. connecting[c] = "no" /\ state[c] = "CONNECTED"
  BY <1>1 DEF Inv, OneCurrent, TaskAndState
<1>3. QED
  BY <1>1, <1>2 DEF Inv, OneCurrent, Current

LEMMA WaitsApart ==
    ASSUME Inv, NEW c \in Client, TaskStep(c) \/ LinkBreaks(c) PROVE ~WaitTimeout(c)
<1>1. SUFFICES ASSUME WaitTimeout(c) PROVE FALSE
  OBVIOUS
<1>2. task[c] = "top" /\ state[c] = "WAIT_TIMEOUT" /\ failures' = failures
  BY <1>1 DEF WaitTimeout, LockedIn
<1>3. CASE TaskStep(c)
  BY <1>2, <1>3 DEF TaskStep, TaskBegins, Connect, ConnectSucceeds, ConnectFails, PongTimeout, SkipRead,
     Recv, SendClose, LockedIn, Poll, PollBroken, NoPoll, BackToTop, TaskEnds
<1>4. CASE LinkBreaks(c)
  BY <1>2, <1>4, ClientAssumption DEF LinkBreaks, Inv, TypeOK, ClientTypeOK
<1>5. QED
  BY <1>3, <1>4

(* What Next lets a client's task do on its own, or the network to it.      *)
LEMMA ClientMoves ==
    ASSUME Inv, NEW c \in Client, TaskStep(c) \/ Reconnects(c) \/ LinkBreaks(c)
    PROVE  TaskMoves(c) /\ (WaitTimeout(c) => LoopIdle)
BY WaitsApart DEF Reconnects, TaskMoves

-----------------------------------------------------------------------------
(* What start-up and reply_loop know of the queue and of the clients: the   *)
(* queue exists once main is connected, the loop has a reply in hand and    *)
(* sends it to a client that was in use, and the client of the global       *)
(* handle is not being replaced by its own handler.                         *)
Booted ==
    /\ queueCreated => loop.pc # "none" /\ connecting["main"] = "done"
    /\ ~queueCreated => reply_evt_queue = <<>>
    /\ loop.pc \in {"check", "send", "lock", "locked"} => data # NoReply
    /\ loop.pc \in {"lock", "locked"} => loop.client \in Client /\ ~Unused(loop.client)
    /\ connecting["main"] # "init" => websocket_client_handle \in Client
    /\ websocket_client_handle \in Client => connecting[websocket_client_handle] \in {"no", "init"}

LEMMA BootedInit == Init => Booted
<1> SUFFICES ASSUME Init PROVE Booted
    OBVIOUS
<1>1. connecting["main"] = "init" /\ loop.pc = "none"
  BY DEF Init, Caller
<1>2. QED
  BY <1>1, NoClientAssumption DEF Init, Booted

(* Steps that leave the loop, the queue and the handle alone.               *)
LEMMA BootedStill ==
    ASSUME Inv, Booted, UNCHANGED <<websocket_client_handle, reply_evt_queue, queueCreated, loop, data>>,
           \A d \in Client : Unused(d)' => Unused(d),
           connecting'["main"] = connecting["main"] \/ (~queueCreated /\ connecting'["main"] # "init" /\ connecting["main"] # "init"),
           websocket_client_handle \in Client =>
               \/ connecting'[websocket_client_handle] = connecting[websocket_client_handle]
               \/ connecting'[websocket_client_handle] \in {"no", "init"}
    PROVE  Booted'
<1>1. /\ queueCreated => loop.pc # "none" /\ connecting'["main"] = "done"
      /\ ~queueCreated => reply_evt_queue = <<>>
      /\ loop.pc \in {"check", "send", "lock", "locked"} => data # NoReply
      /\ connecting'["main"] # "init" => websocket_client_handle \in Client
      /\ websocket_client_handle \in Client => connecting'[websocket_client_handle] \in {"no", "init"}
  BY DEF Booted
<1>2. loop.pc \in {"lock", "locked"} => loop.client \in Client /\ ~Unused(loop.client)'
  BY DEF Booted
<1>3. QED
  BY <1>1, <1>2 DEF Booted, Unused

LEMMA BootedMove == ASSUME Inv, Booted, NEW c \in Client, TaskMoves(c), UNCHANGED own PROVE Booted'
BY MoveShape, BootedStill DEF own

LEMMA BootedReturns ==
    ASSUME Inv, Booted, NEW c \in Client, Return(c), UNCHANGED <<websocket_client_handle, queueCreated, loop, data>>,
           UNCHANGED connecting \/ connecting' = [connecting EXCEPT ![c] = "no"],
           UNCHANGED reply_evt_queue
    PROVE  Booted'
<1>1. \A d \in Client : Unused(d)' => Unused(d)
  BY ReturnShape DEF Same, Unused
<1>2. /\ connecting'["main"] = connecting["main"]
      /\ \A d \in Client : connecting'[d] = connecting[d] \/ connecting'[d] \in {"no", "init"}
  BY NoClientAssumption DEF Inv, TypeOK, Caller
<1>3. QED
  BY <1>1, <1>2, BootedStill

LEMMA BootedReplies == ASSUME Inv, Booted, NEW c \in Client, HandlerReplies(c) PROVE Booted'
<1>1. /\ Return(c) /\ queueCreated
      /\ UNCHANGED <<websocket_client_handle, queueCreated, connecting, loop, data>>
  BY DEF HandlerReplies
<1>2. \A d \in Client : Unused(d)' => Unused(d)
  BY <1>1, ReturnShape DEF Same, Unused
<1>3. loop.pc \in {"lock", "locked"} => loop.client \in Client /\ ~Unused(loop.client)'
  BY <1>1, <1>2 DEF Booted
<1>4. QED
  BY <1>1, <1>3 DEF Booted, Unused

LEMMA BootedHandler == ASSUME Inv, Booted, NEW c \in Client, Handler(c) PROVE Booted'
<1>1. CASE HandlerReplies(c)
  BY <1>1, BootedReplies
<1>2. CASE Restart(c)
  <2>1. /\ ~queueCreated /\ UNCHANGED <<reply_evt_queue, queueCreated, loop, data>>
        /\ websocket_client_handle' = NoClient
        /\ connecting' = [k \in Caller |-> IF k = "main" THEN "init" ELSE "no"]
    BY <1>2 DEF Restart
  <2>2. loop.pc = "none" /\ connecting'["main"] = "init" /\ NoClient \notin Client
    BY <2>1, NoClientAssumption DEF Inv, LoopInOrder, Caller
  <2>3. QED
    BY <2>1, <2>2 DEF Booted
<1>3. CASE HandlerSilent(c)
  BY <1>3, BootedReturns DEF HandlerSilent, own
<1>4. CASE HandlerReconnects(c)
  <2>1. /\ UNCHANGED <<clientVars, websocket_client_handle, reply_evt_queue, queueCreated, loop, data>>
        /\ connecting' = [connecting EXCEPT ![c] = "init"]
    BY <1>4 DEF HandlerReconnects, Goes
  <2>2. /\ connecting'["main"] = connecting["main"]
        /\ \A d \in Client : connecting'[d] = connecting[d] \/ connecting'[d] \in {"no", "init"}
    BY <2>1, NoClientAssumption DEF Inv, TypeOK, Caller
  <2>3. \A d \in Client : Unused(d)' => Unused(d)
    BY <2>1 DEF clientVars, Unused
  <2>4. QED
    BY <2>1, <2>2, <2>3, BootedStill
<1>5. CASE HandlerReconnected(c)
  BY <1>5, BootedReturns DEF HandlerReconnected, Goes
<1>6. CASE HandlerPosts(c)
  <2>1. \A d \in Client : Unused(d)' => Unused(d)
    BY <1>6, PostShape DEF Same, Unused
  <2>2. QED
    BY <1>6, <2>1, PostShape, BootedStill
<1>7. QED
  BY <1>1, <1>2, <1>3, <1>4, <1>5, <1>6 DEF Handler

(* Who replaces a client is main at boot, or the handler of the client of   *)
(* the global handle.                                                       *)
LEMMA Replaced ==
    ASSUME Inv, Booted, NEW k \in Caller, ConnectInit(k)
    PROVE  /\ connecting' = [connecting EXCEPT ![k] = "check"] /\ UNCHANGED clientVars
           /\ UNCHANGED <<reply_evt_queue, queueCreated, loop, data, frames, sent>>
           /\ websocket_client_handle' \in Client /\ Unused(websocket_client_handle')
           /\ connecting[websocket_client_handle'] = "no"
           /\ \/ /\ k = "main" /\ ~queueCreated /\ \A d \in Client : task[d] = "none"
              \/ /\ k \in Client /\ k = websocket_client_handle /\ task[k] = "dispatch"
                 /\ handling[k].kind = "close" /\ state[k] = "CONNECTED"
<1>1. PICK h \in Client : Unused(h) /\ websocket_client_handle' = h
  BY DEF ConnectInit
<1>2. /\ connecting[k] = "init" /\ connecting' = [connecting EXCEPT ![k] = "check"]
      /\ UNCHANGED clientVars
      /\ UNCHANGED <<reply_evt_queue, queueCreated, loop, data, frames, sent>>
  BY DEF ConnectInit, Goes
<1>3. connecting[h] = "no"
  BY <1>1 DEF Unused, Inv, OneCurrent
<1>4. CASE k = "main"
  BY <1>1, <1>2, <1>3, <1>4 DEF Booted, Inv, OneCurrent
<1>5. CASE k \in Client
  <2>1. task[k] = "dispatch" /\ handling[k].kind = "close" /\ state[k] = "CONNECTED"
    BY <1>2, <1>5 DEF Inv, OneCurrent, TaskAndState
  <2>2. k = websocket_client_handle
    BY <1>2, <1>5, <2>1 DEF Inv, OneCurrent, Current
  <2>3. QED
    BY <1>1, <1>2, <1>3, <1>5, <2>1, <2>2
<1>6. QED
  BY <1>4, <1>5 DEF Caller

LEMMA BootedConnecting == ASSUME Inv, Booted, NEW k \in Caller, Connecting(k) PROVE Booted'
<1>1. CASE ConnectInit(k)
  <2>1. PICK h \in Client : h = websocket_client_handle' /\ Unused(h) /\ connecting[h] = "no"
    BY <1>1, Replaced
  <2>2. /\ connecting' = [connecting EXCEPT ![k] = "check"] /\ connecting[k] = "init"
        /\ UNCHANGED clientVars /\ UNCHANGED <<reply_evt_queue, queueCreated, loop, data>>
    BY <1>1, Replaced DEF ConnectInit, Goes
  <2>3. connecting'[h] = "no"
    BY <2>1, <2>2 DEF Inv, TypeOK, Caller
  <2>4. queueCreated => connecting'["main"] = "done"
    <3>1. queueCreated => k # "main"
      BY <2>2 DEF Booted
    <3>2. QED
      BY <2>2, <3>1 DEF Booted, Inv, TypeOK, Caller
  <2>5. ASSUME loop.pc \in {"lock", "locked"} PROVE loop.client \in Client /\ ~Unused(loop.client)'
    <3>1. loop.client \in Client /\ ~Unused(loop.client) /\ queueCreated
      BY <2>5 DEF Booted, Inv, LoopInOrder
    <3>2. CASE loop.client = websocket_client_handle
      <4>1. task[loop.client] = "dispatch"
        BY <1>1, <3>1, <3>2, Replaced
      <4>2. QED
        BY <2>2, <3>1, <4>1 DEF clientVars, Unused
    <3>3. CASE loop.client # websocket_client_handle
      BY <2>2, <3>1, <3>3 DEF clientVars, Unused
    <3>4. QED
      BY <3>2, <3>3
  <2>6. QED
    BY <2>1, <2>2, <2>3, <2>4, <2>5 DEF Booted, Unused
<1>2. CASE ConnectCheck(k) \/ ConnectStart(k) \/ ConnectDelay(k)
  <2>1. PICK to \in {"check", "start", "delay", "done"} :
            connecting[k] \in {"check", "start", "delay"} /\ connecting' = [connecting EXCEPT ![k] = to]
    BY <1>2 DEF ConnectCheck, ConnectStart, ConnectDelay, Goes
  <2>2. /\ UNCHANGED <<websocket_client_handle, reply_evt_queue, queueCreated, loop, data>>
        /\ UNCHANGED clientVars \/ (Start(websocket_client_handle) /\ MayStart(websocket_client_handle))
    BY <1>2 DEF ConnectCheck, ConnectStart, ConnectDelay
  <2>3. \A d \in Client : Unused(d)' => Unused(d)
    <3>1. CASE UNCHANGED clientVars
      BY <2>2, <3>1 DEF clientVars, Unused
    <3>2. CASE Start(websocket_client_handle)
      BY <2>2, <3>2 DEF Start, Unused, Inv, TypeOK, ClientTypeOK
    <3>3. QED
      BY <2>2, <3>1, <3>2
  <2>4. \/ connecting'["main"] = connecting["main"]
        \/ ~queueCreated /\ connecting'["main"] # "init" /\ connecting["main"] # "init"
    BY <2>1 DEF Booted, Inv, TypeOK, Caller
  <2>5. websocket_client_handle \in Client =>
            connecting'[websocket_client_handle] = connecting[websocket_client_handle]
    BY <2>1 DEF Booted, Inv, TypeOK, Caller
  <2>6. QED
    BY <2>2, <2>3, <2>4, <2>5, BootedStill
<1>3. QED
  BY <1>1, <1>2 DEF Connecting

(* reply_loop takes the oldest reply, goes on with the one it has, or comes *)
(* back from the send, which may have found the connection broken.          *)
LEMMA LoopTakesShape ==
    ASSUME Inv, LoopTakes
    PROVE  /\ loop.pc = "receive" /\ loop'.pc = "check" /\ data = NoReply /\ data' # NoReply
           /\ Len(reply_evt_queue') = Len(reply_evt_queue) - 1 /\ Len(reply_evt_queue) \in 1..ReplyLen
           /\ UNCHANGED <<clientVars, websocket_client_handle, queueCreated, connecting,
                          trigger_evt_queue, engine>>
<1>1. /\ loop.pc = "receive" /\ loop' = [loop EXCEPT !.pc = "check"] /\ reply_evt_queue # <<>>
      /\ data' = Head(reply_evt_queue) /\ reply_evt_queue' = Tail(reply_evt_queue)
      /\ UNCHANGED <<clientVars, websocket_client_handle, queueCreated, connecting,
                     trigger_evt_queue, engine>>
  BY DEF LoopTakes, At, GoTo
<1>2. reply_evt_queue \in Seq(Reply) /\ Len(reply_evt_queue) <= ReplyLen
  BY DEF Inv, TypeOK
<1>3. data' \in Reply /\ Len(reply_evt_queue') = Len(reply_evt_queue) - 1 /\ Len(reply_evt_queue) \in Nat
  BY <1>1, <1>2, HeadTailProperties, LenProperties
<1>4. Len(reply_evt_queue) # 0
  BY <1>1, <1>2, EmptySeq
<1>5. data' # NoReply
  BY <1>3 DEF Reply, NoReply
<1>6. QED
  BY <1>1, <1>2, <1>3, <1>4, <1>5, LoopMoves, ReplyLenAssumption DEF Inv, LoopInOrder

LEMMA LoopGoesShape ==
    ASSUME Inv, LoopChecks \/ LoopCalls
    PROVE  /\ UNCHANGED <<clientVars, websocket_client_handle, reply_evt_queue, queueCreated, connecting,
                          trigger_evt_queue, engine>>
           /\ \/ loop.pc = "check" /\ loop'.pc = "send" /\ data' = data
              \/ loop.pc = "check" /\ loop'.pc = "receive" /\ data' = NoReply
              \/ /\ loop.pc = "send" /\ loop'.pc = "lock" /\ loop'.client = websocket_client_handle
                 /\ data' = data
BY LoopMoves DEF LoopChecks, LoopCalls, At, GoTo, Drops

LEMMA LoopLocksShape ==
    ASSUME Inv, LoopLocks
    PROVE  /\ UNCHANGED <<websocket_client_handle, reply_evt_queue, queueCreated, connecting, data,
                          trigger_evt_queue, engine>>
           /\ loop.pc = "lock" /\ loop'.pc = "locked" /\ loop'.client = loop.client
           /\ UNCHANGED <<state, task, closeSent, handling, link, inbox>>
BY LoopMoves DEF LoopLocks, At, GoTo, SendLocks

LEMMA LoopReturnsShape ==
    ASSUME Inv, Booted, LoopRefused \/ LoopWrites \/ LoopFails
    PROVE  /\ loop.pc = "locked" /\ loop'.pc = "receive" /\ data' = NoReply
           /\ UNCHANGED <<websocket_client_handle, reply_evt_queue, queueCreated, connecting,
                          trigger_evt_queue, engine>>
           /\ UNCHANGED <<task, closeSent, handling>>
           /\ \A d \in Client :
                  \/ state'[d] = state[d] /\ inbox'[d] = inbox[d]
                  \/ state'[d] = "WAIT_TIMEOUT" /\ inbox'[d] = <<>> /\ state[d] \in {"CONNECTED", "WAIT_TIMEOUT"}
<1>1. PICK c \in Client : c = loop.client
  BY DEF Booted, LoopRefused, LoopWrites, LoopFails, LoopReturns, At
<1>2. /\ loop.pc = "locked" /\ loop' = [pc |-> "receive", client |-> NoClient] /\ data' = NoReply
      /\ UNCHANGED <<task, closeSent, handling>>
      /\ UNCHANGED <<websocket_client_handle, reply_evt_queue, queueCreated, connecting,
                     trigger_evt_queue, engine>>
  BY <1>1 DEF LoopRefused, LoopWrites, LoopFails, LoopReturns, At, Drops, SendRefused, SendWrites, SendFails
<1>3. UNCHANGED <<state, inbox>> \/ (state[c] \in {"CONNECTED", "WAIT_TIMEOUT"} /\ Abort(c))
  BY <1>1 DEF LoopRefused, LoopWrites, LoopFails, SendRefused, SendWrites, SendFails
<1>4. QED
  BY <1>2, <1>3 DEF Abort, Inv, TypeOK, ClientTypeOK

LEMMA BootedLoop == ASSUME Inv, Booted, Loop PROVE Booted'
<1>1. queueCreated /\ websocket_client_handle \in Client
  BY DEF Loop, LoopTakes, LoopChecks, LoopCalls, LoopLocks, LoopRefused, LoopWrites, LoopFails, LoopReturns,
         At, Inv, LoopInOrder, Booted
<1>2. CASE LoopTakes
  BY <1>1, <1>2, LoopTakesShape DEF Booted
<1>3. CASE LoopChecks \/ LoopCalls
  <2>1. websocket_client_handle' = websocket_client_handle /\ queueCreated' = queueCreated
    BY <1>3, LoopGoesShape
  <2>2. loop'.pc = "lock" => ~Unused(loop.client)'
    BY <1>3, <2>1, LoopGoesShape DEF Unused
  <2>3. QED
    BY <1>1, <1>3, <2>2, LoopGoesShape DEF Booted
<1>4. CASE LoopLocks
  <2>1. \A d \in Client : Unused(d)' <=> Unused(d)
    BY <1>4, LoopLocksShape DEF Unused
  <2>2. ~Unused(loop.client)'
    BY <1>4, <2>1, LoopLocksShape DEF Booted
  <2>3. QED
    BY <1>1, <1>4, <2>2, LoopLocksShape DEF Booted
<1>5. CASE LoopRefused \/ LoopWrites \/ LoopFails
  BY <1>1, <1>5, LoopReturnsShape DEF Booted
<1>6. QED
  BY <1>2, <1>3, <1>4, <1>5 DEF Loop

LEMMA BootedStep == Inv /\ Booted /\ [Next]_vars => Booted'
<1> SUFFICES ASSUME Inv, Booted, [Next]_vars PROVE Booted'
    OBVIOUS
<1>1. CASE \E k \in Caller : Connecting(k)
  BY <1>1, BootedConnecting
<1>2. CASE CreateQueue
  <2>1. /\ connecting["main"] = "done" /\ queueCreated' = TRUE /\ loop' = [loop EXCEPT !.pc = "receive"]
        /\ UNCHANGED <<websocket_client_handle, connecting>>
    BY <1>2 DEF CreateQueue
  <2>2. loop'.pc = "receive"
    BY <2>1, LoopMoves
  <2>3. QED
    BY <2>1, <2>2 DEF Booted
<1>3. CASE Loop
  BY <1>3, BootedLoop
<1>4. ASSUME NEW c \in Client, (TaskStep(c) \/ Reconnects(c) \/ LinkBreaks(c)) /\ UNCHANGED own
      PROVE  Booted'
  BY <1>4, BootedMove DEF Reconnects, TaskMoves
<1>5. ASSUME NEW c \in Client, Handler(c) PROVE Booted'
  BY <1>5, BootedHandler
<1>6. ASSUME NEW c \in Client, ControlUnitSends(c) PROVE Booted'
  <2>1. /\ UNCHANGED <<state, task, closeSent>>
        /\ UNCHANGED <<websocket_client_handle, reply_evt_queue, queueCreated, connecting, loop, data>>
    BY <1>6 DEF ControlUnitSends, ServerSends
  <2>2. \A d \in Client : Unused(d)' => Unused(d)
    BY <2>1 DEF Unused
  <2>3. QED
    BY <2>1, <2>2, BootedStill
<1>7. CASE EngineTakes \/ HitPosted
  <2>1. /\ UNCHANGED clientVars
        /\ UNCHANGED <<websocket_client_handle, reply_evt_queue, queueCreated, connecting, loop, data>>
    BY <1>7 DEF EngineTakes, HitPosted
  <2>2. \A d \in Client : Unused(d)' => Unused(d)
    BY <2>1 DEF clientVars, Unused
  <2>3. QED
    BY <2>1, <2>2, BootedStill
<1>8. CASE EngineAnswers
  <2>1. /\ UNCHANGED clientVars /\ queueCreated
        /\ UNCHANGED <<websocket_client_handle, queueCreated, connecting, loop, data>>
    BY <1>8 DEF EngineAnswers
  <2>2. QED
    BY <2>1 DEF clientVars, Booted, Unused
<1>9. CASE UNCHANGED vars
  <2>1. \A d \in Client : Unused(d)' => Unused(d)
    BY <1>9 DEF vars, clientVars, own, Unused
  <2>2. QED
    BY <1>9, <2>1, BootedStill DEF vars, own
<1>10. QED
  BY <1>1, <1>2, <1>3, <1>4, <1>5, <1>6, <1>7, <1>8, <1>9 DEF Next, Engine

-----------------------------------------------------------------------------
(* A client that has requests to handle has no more of them under way than  *)
(* the control unit allows itself.                                          *)
Asked(c) == Arriving(c, Request) > 0 \/ Handling(c, Request)

FewRequests == \A c \in Client : Current(c) /\ Asked(c) => UnderWay(c) <= Window

(* Replies that are owed, as answers to sets or in the queue; handlers of   *)
(* requests; frames that are requests.                                      *)
Owed    == Sets + Replies
Busy(c) == Replying(c) \/ Posting(c)
IsRequest == {frame \in Frame : frame.kind \in Request}

Counted ==
    /\ Len(reply_evt_queue) \in Nat /\ trigger_evt_queue \in Seq(Event)
    /\ Replies \in Nat /\ Sets \in Nat /\ Owed \in Nat /\ Owed = Sets + Replies
    /\ Replies = Len(reply_evt_queue) + (IF data = NoReply THEN 0 ELSE 1)
    /\ Sets = Count(trigger_evt_queue, {"set"}) + (IF engine = "TS_IDLE" THEN 0 ELSE 1)
    /\ Count(trigger_evt_queue, {"set"}) \in Nat
    /\ \A c \in Client :
           /\ inbox[c] \in Seq(Frame)
           /\ Arriving(c, Request) = Count(inbox[c], IsRequest) /\ Arriving(c, Request) \in Nat
           /\ Requests(c) \in Nat
           /\ Requests(c) = Arriving(c, Request) + (IF Busy(c) THEN 1 ELSE 0)
           /\ UnderWay(c) = Requests(c) + Owed

LEMMA InvCounted == Inv => Counted
<1> SUFFICES ASSUME Inv PROVE Counted
    OBVIOUS
<1>1. Len(reply_evt_queue) \in Nat /\ trigger_evt_queue \in Seq(Event)
  BY LenProperties DEF Inv, TypeOK
<1>2. Replies \in Nat
  BY <1>1 DEF Replies
<1>3. /\ Count(trigger_evt_queue, {"set"}) \in Nat
      /\ Sets = Count(trigger_evt_queue, {"set"}) + (IF engine = "TS_IDLE" THEN 0 ELSE 1)
  <2>1. Count(trigger_evt_queue, {"set"}) \in Nat
    BY <1>1, CountIsNat
  <2>2. SetsQueued = {i \in DOMAIN trigger_evt_queue : trigger_evt_queue[i] \in {"set"}}
    BY DEF SetsQueued
  <2>3. QED
    BY <2>1, <2>2 DEF Sets, Count
<1>4. Sets \in Nat
  BY <1>3
<1>5. ASSUME NEW c \in Client
      PROVE  /\ inbox[c] \in Seq(Frame)
             /\ Arriving(c, Request) = Count(inbox[c], IsRequest) /\ Arriving(c, Request) \in Nat
  <2>1. inbox[c] \in Seq(Frame)
    BY DEF Inv, TypeOK, ClientTypeOK
  <2>2. \A i \in DOMAIN inbox[c] : inbox[c][i] \in Frame
    BY <2>1, ElementOfSeq, LenProperties
  <2>3. {i \in DOMAIN inbox[c] : inbox[c][i].kind \in Request}
            = {i \in DOMAIN inbox[c] : inbox[c][i] \in IsRequest}
    BY <2>2 DEF IsRequest
  <2>4. Arriving(c, Request) = Count(inbox[c], IsRequest)
    BY <2>3 DEF Arriving, Count
  <2>5. Count(inbox[c], IsRequest) \in Nat
    BY <2>1, CountIsNat
  <2>6. QED
    BY <2>1, <2>4, <2>5
<1>6. ASSUME NEW c \in Client
      PROVE  Requests(c) \in Nat /\ UnderWay(c) = Requests(c) + Owed
  <2>1. Arriving(c, Request) \in Nat
    BY <1>5
  <2>2. Requests(c) \in Nat
    BY <2>1 DEF Requests
  <2>3. QED
    BY <1>2, <1>4, <2>2 DEF UnderWay, Owed
<1>7. QED
  BY <1>1, <1>2, <1>3, <1>4, <1>5, <1>6 DEF Counted, Replies, Requests, Owed, Busy

LEMMA InvCountedNext == Inv' => Counted'
BY InvCounted, PTL

(* The numbers of Counted, before and after a step.                         *)
LEMMA OwedIs ==
    ASSUME Inv
    PROVE  /\ Count(trigger_evt_queue, {"set"}) \in Nat /\ Len(reply_evt_queue) \in Nat /\ Owed \in Nat
           /\ Owed = Count(trigger_evt_queue, {"set"}) + (IF engine = "TS_IDLE" THEN 0 ELSE 1)
                     + (Len(reply_evt_queue) + (IF data = NoReply THEN 0 ELSE 1))
BY InvCounted DEF Counted

LEMMA OwedNext ==
    ASSUME Inv'
    PROVE  /\ Count(trigger_evt_queue', {"set"}) \in Nat /\ Len(reply_evt_queue') \in Nat /\ Owed' \in Nat
           /\ Owed' = Count(trigger_evt_queue', {"set"}) + (IF engine' = "TS_IDLE" THEN 0 ELSE 1)
                      + (Len(reply_evt_queue') + (IF data' = NoReply THEN 0 ELSE 1))
BY InvCountedNext DEF Counted

LEMMA UnderWayIs ==
    ASSUME Inv, NEW c \in Client
    PROVE  /\ Arriving(c, Request) \in Nat /\ Owed \in Nat /\ Requests(c) \in Nat
           /\ Requests(c) = Arriving(c, Request) + (IF Busy(c) THEN 1 ELSE 0)
           /\ UnderWay(c) = Requests(c) + Owed
           /\ Arriving(c, Request) = Count(inbox[c], IsRequest)
BY InvCounted DEF Counted

LEMMA UnderWayNext ==
    ASSUME Inv', NEW c \in Client
    PROVE  /\ Arriving(c, Request)' \in Nat /\ Owed' \in Nat /\ Requests(c)' \in Nat
           /\ Requests(c)' = Arriving(c, Request)' + (IF Busy(c)' THEN 1 ELSE 0)
           /\ UnderWay(c)' = Requests(c)' + Owed'
           /\ Arriving(c, Request)' = Count(inbox'[c], IsRequest)
BY InvCountedNext DEF Counted

LEMMA OwedStill ==
    ASSUME Inv, Inv', UNCHANGED <<reply_evt_queue, data, trigger_evt_queue, engine>>
    PROVE  Owed' <= Owed /\ Owed' = Owed
BY InvCounted, InvCountedNext DEF Counted

LEMMA FewerFrames ==
    ASSUME Inv, Inv', NEW c \in Client, task'[c] = "dispatch" <=> task[c] = "dispatch",
           handling'[c] = handling[c], inbox'[c] = <<>> \/ inbox'[c] = inbox[c]
    PROVE  Requests(c)' <= Requests(c) /\ (Asked(c)' => Asked(c))
<1>1. /\ Arriving(c, Request) = Count(inbox[c], IsRequest) /\ Arriving(c, Request) \in Nat
      /\ Requests(c) = Arriving(c, Request) + (IF Busy(c) THEN 1 ELSE 0)
  BY InvCounted DEF Counted
<1>2. /\ Arriving(c, Request)' = Count(inbox'[c], IsRequest) /\ Arriving(c, Request)' \in Nat
      /\ Requests(c)' = Arriving(c, Request)' + (IF Busy(c)' THEN 1 ELSE 0)
  BY InvCountedNext DEF Counted
<1>3. (Busy(c)' <=> Busy(c)) /\ (Handling(c, Request)' <=> Handling(c, Request))
  BY DEF Busy, Replying, Posting, Handling, Request
<1>4. Arriving(c, Request)' = 0 \/ Arriving(c, Request)' = Arriving(c, Request)
  BY <1>1, <1>2, CountEmpty
<1>5. QED
  BY <1>1, <1>2, <1>3, <1>4 DEF Asked

(* A frame that is read is a request under way before and after.            *)
LEMMA SameRequests ==
    ASSUME Inv, Inv', NEW c \in Client, Reads(c)
    PROVE  Requests(c)' <= Requests(c) /\ (Asked(c)' => Asked(c))
<1>1. /\ inbox[c] \in Seq(Frame) /\ Arriving(c, Request) = Count(inbox[c], IsRequest)
      /\ Requests(c) = Arriving(c, Request) + (IF Busy(c) THEN 1 ELSE 0)
      /\ Arriving(c, Request) \in Nat
  BY InvCounted DEF Counted
<1>2. /\ Arriving(c, Request)' = Count(inbox'[c], IsRequest) /\ Arriving(c, Request)' \in Nat
      /\ Requests(c)' = Arriving(c, Request)' + (IF Busy(c)' THEN 1 ELSE 0)
  BY InvCountedNext DEF Counted
<1>3. PICK frame \in Frame : frame = Head(inbox[c])
  BY <1>1, HeadTailProperties DEF Reads
<1>4. /\ ~Busy(c) /\ (Busy(c)' <=> frame \in IsRequest)
      /\ (Handling(c, Request)' <=> frame \in IsRequest)
  <2>1. handling'[c] = frame /\ task[c] = "top" /\ task'[c] = "dispatch"
    BY <1>3 DEF Reads
  <2>2. frame.kind # "CONNECTED"
    BY DEF Frame
  <2>3. QED
    BY <2>1, <2>2 DEF Busy, Replying, Posting, Handling, Request, IsRequest
<1>5. Arriving(c, Request) = Arriving(c, Request)' + (IF frame \in IsRequest THEN 1 ELSE 0)
  <2>1. inbox[c] # <<>> /\ inbox'[c] = Tail(inbox[c])
    BY DEF Reads
  <2>2. Count(inbox[c], IsRequest)
            = Count(Tail(inbox[c]), IsRequest) + (IF Head(inbox[c]) \in IsRequest THEN 1 ELSE 0)
    BY <1>1, <2>1, CountTail
  <2>3. QED
    BY <1>1, <1>2, <1>3, <2>1, <2>2
<1>6. QED
  BY <1>1, <1>2, <1>4, <1>5 DEF Asked

(* Nothing new is under way.                                                *)
LEMMA FewStill ==
    ASSUME Inv, Inv', FewRequests, Owed' <= Owed,
           \A d \in Client : Current(d)' =>
               ~Asked(d)' \/ (Current(d) /\ Requests(d)' <= Requests(d) /\ (Asked(d)' => Asked(d)))
    PROVE  FewRequests'
<1>1. SUFFICES ASSUME NEW d \in Client, Current(d)', Asked(d)' PROVE UnderWay(d)' <= Window
  BY DEF FewRequests
<1>2. Current(d) /\ Requests(d)' <= Requests(d) /\ Asked(d)
  BY <1>1
<1>3. UnderWay(d) <= Window
  BY <1>2 DEF FewRequests
<1>4. Owed \in Nat /\ Requests(d) \in Nat /\ UnderWay(d) = Requests(d) + Owed
  BY InvCounted DEF Counted
<1>5. Owed' \in Nat /\ Requests(d)' \in Nat /\ UnderWay(d)' = Requests(d)' + Owed'
  BY InvCountedNext DEF Counted
<1>6. QED
  BY <1>2, <1>3, <1>4, <1>5, ReplyLenAssumption

(* The clients stand still, or lose frames; the loop may have gone on.      *)
LEMMA FewWithout ==
    ASSUME Inv, Inv', FewRequests, Owed' <= Owed, UNCHANGED <<task, handling>>,
           \A d \in Client : Current(d)' => Current(d),
           \A d \in Client : inbox'[d] = <<>> \/ inbox'[d] = inbox[d]
    PROVE  FewRequests'
<1>1. \A d \in Client : Requests(d)' <= Requests(d) /\ (Asked(d)' => Asked(d))
  BY FewerFrames
<1>2. QED
  BY <1>1, FewStill

LEMMA FewMove == ASSUME Inv, Inv', FewRequests, NEW c \in Client, TaskMoves(c), UNCHANGED own PROVE FewRequests'
<1>1. UNCHANGED <<connecting, reply_evt_queue, data, trigger_evt_queue, engine>>
  BY DEF own
<1>2. Owed' <= Owed
  BY <1>1, OwedStill
<1>3. ASSUME NEW d \in Client \ {c}, Current(d)'
      PROVE  Current(d) /\ Requests(d)' <= Requests(d) /\ (Asked(d)' => Asked(d))
  <2>1. Same(d)
    BY MoveShape
  <2>2. Current(d)
    BY <1>1, <1>3, <2>1 DEF Same, Current
  <2>3. QED
    BY <2>1, <2>2, FewerFrames DEF Same
<1>4. CASE Idles(c)
  BY <1>2, <1>3, <1>4, FewerFrames, FewStill DEF Idles
<1>5. CASE Opens(c)
  <2>1. Arriving(c, Request)' = 0
    BY <1>5, InvCountedNext, CountEmpty DEF Opens, Counted
  <2>2. ~Asked(c)'
    BY <1>5, <2>1 DEF Opens, Asked, Handling, Connected, Request
  <2>3. QED
    BY <1>2, <1>3, <2>2, FewStill
<1>6. CASE Reads(c)
  <2>1. Current(c)
    <3>1. connecting[c] = "no"
      BY <1>6 DEF Reads, Inv, OneCurrent
    <3>2. QED
      BY <1>6, <3>1 DEF Reads, Current
  <2>2. QED
    BY <1>2, <1>3, <1>6, <2>1, SameRequests, FewStill
<1>7. QED
  BY <1>4, <1>5, <1>6, MoveShape

(* A reply joins the queue as its request leaves the handler.               *)
LEMMA RepliesCounted ==
    ASSUME Inv, Inv', NEW c \in Client, HandlerReplies(c)
    PROVE  UnderWay(c)' = UnderWay(c) /\ (Asked(c)' => Asked(c))
<1>1. /\ Return(c) /\ Replying(c) /\ UNCHANGED <<connecting, data, trigger_evt_queue, engine>>
      /\ reply_evt_queue' = Append(reply_evt_queue, ReplyTo(handling[c]))
  BY DEF HandlerReplies
<1>2. Len(reply_evt_queue') = Len(reply_evt_queue) + 1
  <2>1. handling[c].id \in Nat
    <3>1. handling[c] \in Frame \cup Delay \cup {Nothing, Connected}
      BY DEF Inv, TypeOK, ClientTypeOK
    <3>2. QED
      BY <3>1 DEF Frame, Delay, Nothing, Connected
  <2>2. ReplyTo(handling[c]) \in Reply /\ reply_evt_queue \in Seq(Reply)
    BY <2>1 DEF ReplyTo, Reply, Inv, TypeOK
  <2>3. QED
    BY <1>1, <2>2, AppendProperties
<1>3. Owed' = Owed + 1
  BY <1>1, <1>2, OwedIs, OwedNext
<1>4. Busy(c) /\ ~Busy(c)' /\ ~Handling(c, Request)' /\ inbox'[c] = inbox[c]
  BY <1>1, ReturnShape DEF Busy, Replying, Posting, Handling
<1>5. Arriving(c, Request)' = Arriving(c, Request)
  BY <1>4, InvCounted, InvCountedNext DEF Counted
<1>6. QED
  BY <1>3, <1>4, <1>5, UnderWayIs, UnderWayNext DEF Asked

LEMMA FewReplies ==
    ASSUME Inv, Inv', FewRequests, NEW c \in Client, HandlerReplies(c) PROVE FewRequests'
<1>1. Return(c) /\ Replying(c) /\ UNCHANGED connecting
  BY DEF HandlerReplies
<1>2. connecting[c] = "no" /\ Current(c)
  BY <1>1, ReturnShape DEF Replying, Handling, Inv, OneCurrent, Current
<1>3. \A d \in Client : Current(d)' => d = c
  <2>1. ASSUME NEW d \in Client \ {c}, Current(d)' PROVE FALSE
    <3>1. Current(d)
      BY <1>1, <2>1, ReturnShape DEF Same, Current
    <3>2. QED
      BY <1>2, <2>1, <3>1 DEF Inv, OneCurrent
  <2>2. QED
    BY <2>1
<1>4. QED
  BY <1>2, <1>3, RepliesCounted DEF FewRequests

(* A set that is queued is still under way, an over no longer.              *)
LEMMA FewPosts ==
    ASSUME Inv, Inv', FewRequests, NEW c \in Client, HandlerPosts(c) PROVE FewRequests'
<1>1. Posting(c) /\ UNCHANGED connecting
  BY PostShape
<1>2. Current(c) /\ connecting[c] = "no"
  BY <1>1, RepliesFromHandle
<1>3. \A d \in Client : Current(d)' => d = c
  <2>1. ASSUME NEW d \in Client \ {c}, Current(d)' PROVE FALSE
    <3>1. Current(d)
      BY <1>1, <2>1, PostShape DEF Same, Current
    <3>2. QED
      BY <1>2, <2>1, <3>1 DEF Inv, OneCurrent
  <2>2. QED
    BY <2>1
<1>4. Owed' <= Owed + 1
  <2>1. /\ UNCHANGED <<reply_evt_queue, data, engine>> /\ handling[c].kind \in Event
        /\ trigger_evt_queue' = Append(trigger_evt_queue, handling[c].kind)
    BY PostShape DEF Event
  <2>2. Count(trigger_evt_queue', {"set"}) <= Count(trigger_evt_queue, {"set"}) + 1
    <3>1. PICK event \in Event : event = handling[c].kind
      BY <2>1
    <3>2. trigger_evt_queue \in Seq(Event) /\ Count(trigger_evt_queue, {"set"}) \in Nat
      BY InvCounted DEF Counted
    <3>3. Count(Append(trigger_evt_queue, event), {"set"})
              = Count(trigger_evt_queue, {"set"}) + (IF event \in {"set"} THEN 1 ELSE 0)
      BY <3>2, CountAppend
    <3>4. QED
      BY <2>1, <3>1, <3>2, <3>3
  <2>3. QED
    BY <2>1, <2>2, OwedIs, OwedNext
<1>5. Busy(c) /\ ~Busy(c)' /\ ~Handling(c, Request)' /\ Handling(c, Request)
  BY <1>1, PostShape DEF Busy, Replying, Posting, Handling, Request
<1>6. Arriving(c, Request)' = Arriving(c, Request)
  BY PostShape, InvCounted, InvCountedNext DEF Counted
<1>7. UnderWay(c)' <= UnderWay(c) /\ UnderWay(c) \in Nat /\ UnderWay(c)' \in Nat
  BY <1>4, <1>5, <1>6, UnderWayIs, UnderWayNext
<1>8. UnderWay(c) <= Window
  BY <1>2, <1>5 DEF FewRequests, Asked
<1>9. QED
  BY <1>3, <1>7, <1>8, ReplyLenAssumption DEF FewRequests

LEMMA FewHandler ==
    ASSUME Inv, Inv', FewRequests, NEW c \in Client, Handler(c) PROVE FewRequests'
<1>1. CASE HandlerReplies(c)
  BY <1>1, FewReplies
<1>2. CASE Restart(c)
  <2>1. task' = [d \in Client |-> "none"]
    BY <1>2 DEF Restart
  <2>2. QED
    BY <2>1 DEF FewRequests, Current
<1>3. CASE HandlerSilent(c) \/ HandlerReconnected(c)
  <2>1. /\ Return(c) /\ UNCHANGED <<reply_evt_queue, data, trigger_evt_queue, engine>>
        /\ UNCHANGED connecting \/ connecting' = [connecting EXCEPT ![c] = "no"]
    BY <1>3 DEF HandlerSilent, HandlerReconnected, Goes, own
  <2>2. Owed' <= Owed
    BY <2>1, OwedStill
  <2>3. ASSUME NEW d \in Client \ {c}, Current(d)'
        PROVE  Current(d) /\ Requests(d)' <= Requests(d) /\ (Asked(d)' => Asked(d))
    <3>1. Same(d)
      BY <2>1, ReturnShape
    <3>2. Current(d)
      BY <2>1, <2>3, <3>1 DEF Same, Current, Inv, TypeOK, Caller
    <3>3. QED
      BY <3>1, <3>2, FewerFrames DEF Same
  <2>4. ASSUME Current(c)'
        PROVE  Current(c) /\ Requests(c)' <= Requests(c) /\ (Asked(c)' => Asked(c))
    <3>1. HandlerSilent(c)
      <4>1. CASE HandlerReconnected(c)
        BY <2>1, <2>4, <4>1 DEF HandlerReconnected, Handling, Return, Current, Inv, TypeOK, ClientTypeOK
      <4>2. QED
        BY <1>3, <4>1
    <3>2. connecting[c] = "no" /\ task[c] = "dispatch" /\ state[c] = "CONNECTED"
      BY <2>1, <3>1, ReturnShape DEF HandlerSilent, Handling, Inv, OneCurrent
    <3>3. ~Busy(c)' /\ ~Handling(c, Request)' /\ inbox'[c] = inbox[c]
      BY <2>1, ReturnShape DEF Busy, Replying, Posting, Handling
    <3>4. Arriving(c, Request)' = Arriving(c, Request)
      BY <3>3, InvCounted, InvCountedNext DEF Counted
    <3>5. Requests(c)' <= Requests(c)
      BY <3>3, <3>4, UnderWayIs, UnderWayNext
    <3>6. QED
      BY <3>2, <3>3, <3>4, <3>5 DEF Asked, Current
  <2>5. QED
    BY <2>2, <2>3, <2>4, FewStill
<1>4. CASE HandlerReconnects(c)
  <2>1. /\ UNCHANGED <<clientVars, reply_evt_queue, data, trigger_evt_queue, engine>>
        /\ connecting[c] = "no"
        /\ connecting' = [connecting EXCEPT ![c] = "init"]
    BY <1>4 DEF HandlerReconnects, Goes
  <2>2. \A d \in Client : Current(d)' => Current(d)
    BY <2>1 DEF clientVars, Current, Inv, TypeOK, Caller
  <2>3. Owed' <= Owed
    BY <2>1, OwedStill
  <2>4. QED
    BY <2>1, <2>2, <2>3, FewWithout DEF clientVars
<1>5. CASE HandlerPosts(c)
  BY <1>5, FewPosts
<1>6. QED
  BY <1>1, <1>2, <1>3, <1>4, <1>5 DEF Handler

LEMMA FewConnecting ==
    ASSUME Inv, Inv', Booted, FewRequests, NEW k \in Caller, Connecting(k) PROVE FewRequests'
<1>1. UNCHANGED <<reply_evt_queue, data, trigger_evt_queue, engine, handling, inbox>>
  BY DEF Connecting, ConnectInit, ConnectCheck, ConnectStart, ConnectDelay, Start, clientVars
<1>2. Owed' <= Owed
  BY <1>1, OwedStill
<1>3. CASE ConnectInit(k)
  <2>1. connecting' = [connecting EXCEPT ![k] = "check"] /\ UNCHANGED clientVars
    BY <1>3, Replaced
  <2>2. \A d \in Client : Current(d)' => Current(d)
    BY <2>1 DEF clientVars, Current, Inv, TypeOK, Caller
  <2>3. QED
    BY <1>1, <1>2, <2>1, <2>2, FewWithout DEF clientVars
<1>4. CASE ConnectCheck(k) \/ ConnectStart(k) \/ ConnectDelay(k)
  <2>1. PICK to \in {"check", "start", "delay", "done"} :
            connecting[k] \in {"check", "start", "delay"} /\ connecting' = [connecting EXCEPT ![k] = to]
    BY <1>4 DEF ConnectCheck, ConnectStart, ConnectDelay, Goes
  <2>2. CASE UNCHANGED clientVars
    <3>1. \A d \in Client : Current(d)' => Current(d)
      BY <2>1, <2>2 DEF clientVars, Current, Inv, TypeOK, Caller
    <3>2. QED
      BY <1>1, <1>2, <2>2, <3>1, FewWithout DEF clientVars
  <2>3. CASE ConnectStart(k) /\ MayStart(websocket_client_handle)
    <3>1. PICK h : h = websocket_client_handle
      OBVIOUS
    <3>2. /\ state[h] = "UNKNOW" /\ task[h] = "none" /\ task' = [task EXCEPT ![h] = "created"]
          /\ UNCHANGED <<state, link>>
      BY <2>3, <3>1 DEF ConnectStart, StartsTwice, MayStart, Start
    <3>3. ASSUME NEW d \in Client, d # h, Current(d)'
          PROVE  Current(d) /\ Requests(d)' <= Requests(d) /\ (Asked(d)' => Asked(d))
      <4>1. task'[d] = task[d] /\ handling'[d] = handling[d] /\ inbox'[d] = inbox[d]
        BY <1>1, <3>2, <3>3 DEF Inv, TypeOK, ClientTypeOK
      <4>2. Current(d)
        BY <2>1, <3>2, <3>3, <4>1 DEF Current, Inv, TypeOK, Caller
      <4>3. QED
        BY <4>1, <4>2, FewerFrames
    <3>4. ASSUME h \in Client PROVE ~Asked(h)'
      <4>1. inbox[h] = <<>> /\ task'[h] = "created"
        <5>1. link[h] = "down"
          BY <3>2, <3>4 DEF Inv, TaskAndState, TypeOK, ClientTypeOK
        <5>2. inbox[h] = <<>>
          BY <3>4, <5>1 DEF Inv, TaskAndState
        <5>3. task'[h] = "created"
          BY <3>2, <3>4 DEF Inv, TypeOK, ClientTypeOK
        <5>4. QED
          BY <5>2, <5>3
      <4>2. Arriving(h, Request)' = 0
        BY <1>1, <3>4, <4>1, InvCountedNext, CountEmpty DEF Counted
      <4>3. QED
        BY <4>1, <4>2 DEF Asked, Handling
    <3>5. QED
      BY <1>2, <3>3, <3>4, FewStill
  <2>4. QED
    BY <1>4, <2>2, <2>3 DEF ConnectCheck, ConnectStart, ConnectDelay
<1>5. QED
  BY <1>3, <1>4 DEF Connecting

LEMMA FewLoop == ASSUME Inv, Inv', Booted, FewRequests, Loop PROVE FewRequests'
<1>1. CASE LoopTakes
  <2>1. Owed' = Owed
    BY <1>1, LoopTakesShape, InvCounted, InvCountedNext DEF Counted
  <2>2. \A d \in Client : Current(d)' => Current(d)
    BY <1>1, LoopTakesShape DEF clientVars, Current
  <2>3. QED
    BY <1>1, <2>1, <2>2, LoopTakesShape, InvCounted, FewWithout DEF Counted, clientVars
<1>2. CASE LoopChecks \/ LoopCalls
  <2>1. /\ UNCHANGED <<clientVars, reply_evt_queue, connecting, trigger_evt_queue, engine>>
        /\ (data' = data \/ data' = NoReply)
    BY <1>2, LoopGoesShape
  <2>2. Owed' <= Owed
    BY <2>1, InvCounted, InvCountedNext DEF Counted
  <2>3. \A d \in Client : Current(d)' => Current(d)
    BY <2>1 DEF clientVars, Current
  <2>4. QED
    BY <2>1, <2>2, <2>3, FewWithout DEF clientVars
<1>3. CASE LoopLocks
  <2>1. Owed' <= Owed
    BY <1>3, LoopLocksShape, InvCounted, InvCountedNext DEF Counted
  <2>2. \A d \in Client : Current(d)' => Current(d)
    BY <1>3, LoopLocksShape DEF Current
  <2>3. QED
    BY <1>3, <2>1, <2>2, LoopLocksShape, FewWithout
<1>4. CASE LoopRefused \/ LoopWrites \/ LoopFails
  <2>1. Owed' <= Owed
    BY <1>4, LoopReturnsShape, InvCounted, InvCountedNext DEF Counted
  <2>2. \A d \in Client : Current(d)' => Current(d)
    BY <1>4, LoopReturnsShape DEF Current
  <2>3. QED
    BY <1>4, <2>1, <2>2, LoopReturnsShape, FewWithout
<1>5. QED
  BY <1>1, <1>2, <1>3, <1>4 DEF Loop

(* The engine answers each set at most once, and a hit is no set.           *)
LEMMA EngineOwes ==
    ASSUME Inv, Inv', Engine \/ HitPosted
    PROVE  Owed' <= Owed /\ UNCHANGED <<clientVars, websocket_client_handle, connecting, loop>>
<1>1. CASE HitPosted
  <2>1. /\ trigger_evt_queue' = Append(trigger_evt_queue, "hit")
        /\ UNCHANGED <<clientVars, websocket_client_handle, reply_evt_queue, data, engine,
                       connecting, loop>>
    BY <1>1 DEF HitPosted
  <2>2. "hit" \in Event /\ "hit" \notin {"set"} /\ trigger_evt_queue \in Seq(Event)
    BY InvCounted DEF Counted, Event
  <2>3. Count(Append(trigger_evt_queue, "hit"), {"set"}) = Count(trigger_evt_queue, {"set"}) + 0
    <3>1. Count(Append(trigger_evt_queue, "hit"), {"set"})
              = Count(trigger_evt_queue, {"set"}) + (IF "hit" \in {"set"} THEN 1 ELSE 0)
      BY <2>2, CountAppend
    <3>2. QED
      BY <2>2, <3>1
  <2>4. Owed' <= Owed
    BY <2>1, <2>3, InvCounted, InvCountedNext DEF Counted
  <2>5. QED
    BY <2>1, <2>4
<1>2. CASE EngineTakes
  <2>1. /\ trigger_evt_queue' = Tail(trigger_evt_queue)
        /\ UNCHANGED <<clientVars, websocket_client_handle, reply_evt_queue, data, connecting, loop>>
    BY <1>2 DEF EngineTakes
  <2>2. Count(trigger_evt_queue, {"set"})
            = Count(trigger_evt_queue', {"set"}) + (IF Head(trigger_evt_queue) \in {"set"} THEN 1 ELSE 0)
    BY <1>2, <2>1, Taking, CountTail
  <2>3. engine = "TS_IDLE" /\ Head(trigger_evt_queue) \notin {"set"} => engine' = "TS_IDLE"
    BY <1>2, Taking
  <2>4. Owed' <= Owed
    BY <2>1, <2>2, <2>3, InvCounted, InvCountedNext DEF Counted
  <2>5. QED
    BY <2>1, <2>4
<1>3. CASE EngineAnswers
  <2>1. /\ engine = "answer" /\ engine' = "TS_IDLE"
        /\ reply_evt_queue' = Append(reply_evt_queue, [kind |-> "result", id |-> 0])
        /\ UNCHANGED <<clientVars, websocket_client_handle, trigger_evt_queue, data, connecting, loop>>
    BY <1>3 DEF EngineAnswers
  <2>2. Len(reply_evt_queue') = Len(reply_evt_queue) + 1
    <3>1. reply_evt_queue \in Seq(Reply) /\ [kind |-> "result", id |-> 0] \in Reply
      BY DEF Inv, TypeOK, Reply
    <3>2. QED
      BY <2>1, <3>1, AppendProperties
  <2>3. Owed' <= Owed
    BY <2>1, <2>2, InvCounted, InvCountedNext DEF Counted
  <2>4. QED
    BY <2>1, <2>3
<1>4. QED
  BY <1>1, <1>2, <1>3 DEF Engine

LEMMA FewEngine == ASSUME Inv, Inv', FewRequests, Engine \/ HitPosted PROVE FewRequests'
<1>1. \A d \in Client : Current(d)' => Current(d)
  BY EngineOwes DEF clientVars, Current
<1>2. QED
  BY <1>1, EngineOwes, FewWithout DEF clientVars

LEMMA SentFrame ==
    ASSUME Inv, NEW c \in Client, ControlUnitSends(c)
    PROVE  \E kind \in Kinds, frame \in Frame :
               /\ frame.kind = kind /\ (kind \in Request => UnderWay(c) < Window)
               /\ link[c] = "up" /\ inbox' = [inbox EXCEPT ![c] = Append(@, frame)]
<1>1. PICK kind \in Kinds : /\ (kind \in Request => UnderWay(c) < Window)
                            /\ ServerSends(c, [kind |-> kind, id |-> frames + 1])
  BY DEF ControlUnitSends
<1>2. PICK frame : frame = [kind |-> kind, id |-> frames + 1]
  OBVIOUS
<1>3. frames + 1 \in Nat /\ kind \in {"echo", "set", "over", "silent", "close", "close_other"}
  BY KindsAssumption, ReplyLenAssumption DEF Inv, TypeOK
<1>4. frame \in Frame /\ frame.kind = kind /\ ServerSends(c, frame)
  BY <1>1, <1>2, <1>3 DEF Frame
<1>5. QED
  BY <1>1, <1>4 DEF ServerSends

LEMMA SentCounted ==
    ASSUME Inv, Inv', NEW c \in Client, ControlUnitSends(c), NEW kind \in Kinds, NEW frame \in Frame,
           frame.kind = kind, inbox' = [inbox EXCEPT ![c] = Append(@, frame)]
    PROVE  /\ Arriving(c, Request)' = Arriving(c, Request) + (IF kind \in Request THEN 1 ELSE 0)
           /\ UnderWay(c)' = UnderWay(c) + (IF kind \in Request THEN 1 ELSE 0) /\ UnderWay(c) \in Nat
<1>1. UNCHANGED <<task, handling, reply_evt_queue, data, trigger_evt_queue, engine>>
  BY DEF ServerSends, ControlUnitSends
<1>2. Owed' = Owed /\ (Busy(c)' <=> Busy(c))
  BY <1>1, OwedStill DEF Busy, Replying, Posting, Handling
<1>3. inbox'[c] = Append(inbox[c], frame) /\ inbox[c] \in Seq(Frame)
  BY DEF Inv, TypeOK, ClientTypeOK
<1>4. Count(inbox'[c], IsRequest) = Count(inbox[c], IsRequest) + (IF kind \in Request THEN 1 ELSE 0)
  <2>1. frame \in IsRequest <=> kind \in Request
    BY DEF IsRequest
  <2>2. Count(Append(inbox[c], frame), IsRequest)
            = Count(inbox[c], IsRequest) + (IF frame \in IsRequest THEN 1 ELSE 0)
    BY <1>3, CountAppend
  <2>3. QED
    BY <1>3, <2>1, <2>2
<1>5. Arriving(c, Request) = Count(inbox[c], IsRequest) /\ Arriving(c, Request)' = Count(inbox'[c], IsRequest)
  BY InvCounted, InvCountedNext DEF Counted
<1>6. Arriving(c, Request)' = Arriving(c, Request) + (IF kind \in Request THEN 1 ELSE 0)
  BY <1>4, <1>5
<1>7. QED
  BY <1>2, <1>6, UnderWayIs, UnderWayNext

(* The control unit sends a request only while fewer than Window are under  *)
(* way.                                                                     *)
LEMMA FewSends ==
    ASSUME Inv, Inv', FewRequests, NEW c \in Client, ControlUnitSends(c) PROVE FewRequests'
<1>1. PICK kind \in Kinds, frame \in Frame :
          /\ frame.kind = kind /\ (kind \in Request => UnderWay(c) < Window)
          /\ inbox' = [inbox EXCEPT ![c] = Append(@, frame)]
  BY SentFrame
<1>2. UNCHANGED <<state, task, handling, connecting, reply_evt_queue, data, trigger_evt_queue,
                  engine>>
  BY DEF ServerSends, ControlUnitSends
<1>3. Owed' = Owed
  BY <1>2, OwedStill
<1>4. \A d \in Client : /\ Current(d)' <=> Current(d)
                        /\ Busy(d)' <=> Busy(d)
                        /\ Handling(d, Request)' <=> Handling(d, Request)
  BY <1>2 DEF Current, Busy, Replying, Posting, Handling
<1>5. ASSUME NEW d \in Client \ {c} PROVE inbox'[d] = inbox[d]
  BY <1>1, <1>5 DEF Inv, TypeOK, ClientTypeOK
<1>6. /\ Arriving(c, Request)' = Arriving(c, Request) + (IF kind \in Request THEN 1 ELSE 0)
      /\ UnderWay(c)' = UnderWay(c) + (IF kind \in Request THEN 1 ELSE 0) /\ UnderWay(c) \in Nat
  BY <1>1, SentCounted
<1>7. Current(c)' /\ Asked(c)' => UnderWay(c)' <= Window
  <2>1. CASE kind \in Request
    BY <1>1, <1>6, <2>1, ReplyLenAssumption
  <2>2. CASE kind \notin Request
    <3>1. Asked(c)' => Asked(c)
      BY <1>4, <1>6, <2>2, InvCounted DEF Counted, Asked
    <3>2. QED
      BY <1>4, <1>6, <2>2, <3>1 DEF FewRequests
  <2>3. QED
    BY <2>1, <2>2
<1>8. ASSUME NEW d \in Client \ {c}, Current(d)', Asked(d)' PROVE UnderWay(d)' <= Window
  <2>1. Arriving(d, Request)' = Arriving(d, Request)
    BY <1>5, InvCounted, InvCountedNext DEF Counted
  <2>2. Current(d) /\ Asked(d)
    BY <1>4, <1>8, <2>1 DEF Asked
  <2>3. UnderWay(d)' = UnderWay(d)
    BY <1>3, <1>4, <2>1, UnderWayIs, UnderWayNext
  <2>4. QED
    BY <2>2, <2>3 DEF FewRequests
<1>9. QED
  BY <1>7, <1>8 DEF FewRequests

LEMMA FewStep == Inv /\ Booted /\ FewRequests /\ [Next]_vars /\ Inv' => FewRequests'
<1> SUFFICES ASSUME Inv, Booted, FewRequests, [Next]_vars, Inv' PROVE FewRequests'
    OBVIOUS
<1>1. CASE \E k \in Caller : Connecting(k)
  BY <1>1, FewConnecting
<1>2. CASE CreateQueue
  <2>1. UNCHANGED <<clientVars, reply_evt_queue, connecting, data, trigger_evt_queue, engine>>
    BY <1>2 DEF CreateQueue
  <2>2. Owed' <= Owed /\ \A d \in Client : Current(d)' => Current(d)
    BY <2>1, OwedStill DEF clientVars, Current
  <2>3. QED
    BY <2>1, <2>2, FewWithout DEF clientVars
<1>3. CASE Loop
  BY <1>3, FewLoop
<1>4. ASSUME NEW c \in Client, (TaskStep(c) \/ Reconnects(c) \/ LinkBreaks(c)) /\ UNCHANGED own
      PROVE  FewRequests'
  BY <1>4, FewMove DEF Reconnects, TaskMoves
<1>5. ASSUME NEW c \in Client, Handler(c) PROVE FewRequests'
  BY <1>5, FewHandler
<1>6. ASSUME NEW c \in Client, ControlUnitSends(c) PROVE FewRequests'
  BY <1>6, FewSends
<1>7. CASE UNCHANGED vars
  <2>1. UNCHANGED <<clientVars, reply_evt_queue, connecting, data, trigger_evt_queue, engine>>
    BY <1>7 DEF vars, own
  <2>2. Owed' <= Owed /\ \A d \in Client : Current(d)' => Current(d)
    BY <2>1, OwedStill DEF clientVars, Current
  <2>3. QED
    BY <2>1, <2>2, FewWithout DEF clientVars
<1>8. CASE Engine \/ HitPosted
  BY <1>8, FewEngine
<1>9. QED
  BY <1>1, <1>2, <1>3, <1>4, <1>5, <1>6, <1>7, <1>8 DEF Next

-----------------------------------------------------------------------------
(* What is handled and what is read comes from the control unit, or is the  *)
(* event of a new connection or the delay of an over.                       *)
FromControlUnit ==
    \A c \in Client :
        /\ handling[c].kind \in Kinds \cup {"nothing", "CONNECTED", "delay"}
        /\ \A i \in DOMAIN inbox[c] : inbox[c][i].kind \in Kinds

(* Without a close frame that the handler ignores, the client of the global *)
(* handle does not close: its handler replaces it before it returns.        *)
HandleStays ==
    "close_other" \notin Kinds =>
        \A c \in Client : c = websocket_client_handle => state[c] # "CLOSING"

LEMMA FromStill ==
    ASSUME FromControlUnit,
           \A d \in Client : /\ \/ handling'[d] = handling[d] \/ handling'[d] \in {Nothing, Connected}
                                \/ handling'[d].kind = "delay"
                             /\ inbox'[d] = inbox[d] \/ inbox'[d] = <<>>
    PROVE  FromControlUnit'
BY DEF FromControlUnit, Nothing, Connected

LEMMA FromMove ==
    ASSUME Inv, FromControlUnit, NEW c \in Client, TaskMoves(c), UNCHANGED own PROVE FromControlUnit'
<1>1. \A d \in Client \ {c} : Same(d)
  BY MoveShape
<1>2. CASE Idles(c) \/ Opens(c)
  BY <1>1, <1>2, FromStill DEF Same, Idles, Opens
<1>3. CASE Reads(c)
  <2>1. inbox[c] \in Seq(Frame) /\ inbox[c] # <<>>
    BY <1>3 DEF Reads, Inv, TypeOK, ClientTypeOK
  <2>2. /\ Head(inbox[c]) = inbox[c][1] /\ 1 \in DOMAIN inbox[c]
        /\ \A i \in DOMAIN Tail(inbox[c]) : i + 1 \in DOMAIN inbox[c] /\ Tail(inbox[c])[i] = inbox[c][i + 1]
    BY <2>1, HeadTailProperties, LenProperties
  <2>3. /\ handling'[c].kind \in Kinds
        /\ \A i \in DOMAIN inbox'[c] : inbox'[c][i].kind \in Kinds
    BY <1>3, <2>2 DEF Reads, FromControlUnit
  <2>4. QED
    BY <1>1, <2>3 DEF Same, FromControlUnit
<1>4. QED
  BY <1>2, <1>3, MoveShape

LEMMA FromSends ==
    ASSUME Inv, FromControlUnit, NEW c \in Client, ControlUnitSends(c) PROVE FromControlUnit'
<1>1. PICK frame \in Frame : frame.kind \in Kinds /\ inbox' = [inbox EXCEPT ![c] = Append(@, frame)]
  BY SentFrame
<1>2. inbox'[c] = Append(inbox[c], frame) /\ \A d \in Client \ {c} : inbox'[d] = inbox[d]
  BY <1>1 DEF Inv, TypeOK, ClientTypeOK
<1>3. inbox[c] \in Seq(Frame)
  BY DEF Inv, TypeOK, ClientTypeOK
<1>4. \A i \in DOMAIN inbox'[c] : inbox'[c][i] = frame \/ (i \in DOMAIN inbox[c] /\ inbox'[c][i] = inbox[c][i])
  BY <1>1, <1>2, <1>3, AppendProperties, LenProperties
<1>5. UNCHANGED handling
  BY DEF ControlUnitSends, ServerSends
<1>6. QED
  BY <1>1, <1>2, <1>4, <1>5 DEF FromControlUnit

LEMMA FromStep == Inv /\ Booted /\ FromControlUnit /\ [Next]_vars => FromControlUnit'
<1> SUFFICES ASSUME Inv, Booted, FromControlUnit, [Next]_vars PROVE FromControlUnit'
    OBVIOUS
<1>1. CASE \E k \in Caller : Connecting(k)
  BY <1>1, FromStill DEF Connecting, ConnectInit, ConnectCheck, ConnectStart, ConnectDelay, Start, clientVars
<1>2. CASE CreateQueue
  BY <1>2, FromStill DEF CreateQueue, clientVars
<1>3. CASE Loop
  <2>1. \A d \in Client : handling'[d] = handling[d] /\ (inbox'[d] = inbox[d] \/ inbox'[d] = <<>>)
    BY <1>3, LoopTakesShape, LoopGoesShape, LoopLocksShape, LoopReturnsShape DEF Loop, clientVars
  <2>2. QED
    BY <2>1, FromStill
<1>4. ASSUME NEW c \in Client, (TaskStep(c) \/ Reconnects(c) \/ LinkBreaks(c)) /\ UNCHANGED own
      PROVE  FromControlUnit'
  BY <1>4, FromMove DEF Reconnects, TaskMoves
<1>5. ASSUME NEW c \in Client, Handler(c) PROVE FromControlUnit'
  <2>1. CASE Return(c)
    BY <2>1, ReturnShape, FromStill DEF Same
  <2>2. CASE Restart(c)
    BY <2>2, FromStill DEF Restart
  <2>3. CASE HandlerReconnects(c)
    BY <2>3, FromStill DEF HandlerReconnects, clientVars
  <2>4. CASE HandlerPosts(c)
    <3>1. /\ \A d \in Client \ {c} : handling'[d] = handling[d] /\ inbox'[d] = inbox[d]
          /\ handling'[c].kind \in {"nothing", "delay"} /\ inbox'[c] = inbox[c]
      BY <2>4, PostShape DEF Same
    <3>2. QED
      BY <3>1 DEF FromControlUnit
  <2>5. QED
    BY <1>5, <2>1, <2>2, <2>3, <2>4 DEF Handler, HandlerReplies, HandlerSilent, HandlerReconnected
<1>6. ASSUME NEW c \in Client, ControlUnitSends(c) PROVE FromControlUnit'
  BY <1>6, FromSends
<1>7. CASE Engine \/ HitPosted
  BY <1>7, FromStill DEF Engine, EngineTakes, EngineAnswers, HitPosted, clientVars
<1>8. CASE UNCHANGED vars
  BY <1>8, FromStill DEF vars, clientVars
<1>9. QED
  BY <1>1, <1>2, <1>3, <1>4, <1>5, <1>6, <1>7, <1>8 DEF Next

LEMMA HandleStep == Inv /\ Booted /\ FromControlUnit /\ HandleStays /\ [Next]_vars => HandleStays'
<1> SUFFICES ASSUME Inv, Booted, FromControlUnit, HandleStays, [Next]_vars, "close_other" \notin Kinds,
                    NEW c \in Client, c = websocket_client_handle'
             PROVE  state'[c] # "CLOSING"
    BY DEF HandleStays
<1>1. ASSUME NEW k \in Caller, Connecting(k) PROVE state'[c] # "CLOSING"
  <2>1. CASE ConnectInit(k)
    BY <2>1, Replaced DEF clientVars, Unused
  <2>2. CASE ConnectCheck(k) \/ ConnectStart(k) \/ ConnectDelay(k)
    BY <2>2 DEF ConnectCheck, ConnectStart, ConnectDelay, Start, clientVars, HandleStays
  <2>3. QED
    BY <1>1, <2>1, <2>2 DEF Connecting
<1>2. CASE CreateQueue
  BY <1>2 DEF CreateQueue, clientVars, HandleStays
<1>3. CASE Loop
  <2>1. websocket_client_handle' = websocket_client_handle /\ (state'[c] = state[c] \/ state'[c] = "WAIT_TIMEOUT")
    BY <1>3, LoopTakesShape, LoopGoesShape, LoopLocksShape, LoopReturnsShape DEF Loop, clientVars
  <2>2. QED
    BY <2>1 DEF HandleStays
<1>4. ASSUME NEW d \in Client, (TaskStep(d) \/ Reconnects(d) \/ LinkBreaks(d)) /\ UNCHANGED own
      PROVE  state'[c] # "CLOSING"
  <2>1. TaskMoves(d) /\ UNCHANGED own
    BY <1>4 DEF Reconnects, TaskMoves
  <2>2. state[c] # "CLOSING"
    BY <2>1 DEF own, HandleStays
  <2>3. QED
    BY <2>1, <2>2, MoveShape DEF Same
<1>5. ASSUME NEW d \in Client, Handler(d) PROVE state'[c] # "CLOSING"
  <2>1. CASE Restart(d)
    BY <2>1, NoClientAssumption DEF Restart
  <2>2. CASE HandlerReconnects(d)
    BY <2>2 DEF HandlerReconnects, clientVars, HandleStays
  <2>3. CASE HandlerReconnected(d)
    <3>1. Return(d) /\ connecting[d] = "done" /\ websocket_client_handle' = websocket_client_handle
      BY <2>3 DEF HandlerReconnected, Goes
    <3>2. d # c
      BY <3>1 DEF Booted
    <3>3. QED
      BY <3>1, <3>2, ReturnShape DEF Same, HandleStays
  <2>4. CASE HandlerReplies(d) \/ HandlerSilent(d)
    <3>1. /\ Return(d) /\ handling[d].kind \in {"CONNECTED", "echo", "silent", "close_other", "delay"}
          /\ websocket_client_handle' = websocket_client_handle
      BY <2>4 DEF HandlerReplies, HandlerSilent, Replying, Handling, own
    <3>2. handling[d].kind \notin {"close", "close_other"}
      BY <3>1 DEF FromControlUnit
    <3>3. QED
      BY <3>1, <3>2, ReturnShape DEF Same, HandleStays
  <2>5. CASE HandlerPosts(d)
    BY <2>5, PostShape DEF Same, HandleStays
  <2>6. QED
    BY <1>5, <2>1, <2>2, <2>3, <2>4, <2>5 DEF Handler
<1>6. ASSUME NEW d \in Client, ControlUnitSends(d) PROVE state'[c] # "CLOSING"
  BY <1>6 DEF ControlUnitSends, ServerSends, HandleStays
<1>7. CASE Engine \/ HitPosted
  BY <1>7 DEF Engine, EngineTakes, EngineAnswers, HitPosted, clientVars, HandleStays
<1>8. CASE UNCHANGED vars
  BY <1>8 DEF vars, clientVars, own, HandleStays
<1>9. QED
  BY <1>1, <1>2, <1>3, <1>4, <1>5, <1>6, <1>7, <1>8 DEF Next

-----------------------------------------------------------------------------
(* What always holds, whatever the control unit sends.                      *)
KeptInv == Inv /\ Booted /\ FewRequests /\ FromControlUnit /\ HandleStays

(* No position in an empty inbox.                                           *)
LEMMA EmptyDomain == DOMAIN <<>> = {}
OBVIOUS

LEMMA KeptInit == Init => KeptInv
<1> SUFFICES ASSUME Init PROVE KeptInv
    OBVIOUS
<1>1. /\ task = [c \in Client |-> "none"] /\ state = [c \in Client |-> "UNKNOW"]
      /\ handling = [c \in Client |-> Nothing] /\ inbox = [c \in Client |-> <<>>]
  BY DEF Init, ClientInit
<1>2. FewRequests
  BY <1>1 DEF FewRequests, Current
<1>3. FromControlUnit
  <2>1. \A c \in Client : handling[c].kind = "nothing" /\ inbox[c] = <<>>
    BY <1>1 DEF Nothing
  <2>2. QED
    BY <2>1, EmptyDomain DEF FromControlUnit
<1>4. HandleStays
  BY <1>1 DEF HandleStays
<1>5. QED
  BY <1>2, <1>3, <1>4, InvInit, BootedInit DEF KeptInv

LEMMA KeptStep == KeptInv /\ [Next]_vars => KeptInv'
BY InvStep, BootedStep, FewStep, FromStep, HandleStep DEF KeptInv

LEMMA AlwaysKept == Spec => []KeptInv
BY KeptInit, KeptStep, PTL DEF Spec

(* While the handler of a request runs and the loop has a reply in hand, at *)
(* most Window - 2 replies are in the queue.                                *)
LEMMA RoomForRequest ==
    ASSUME KeptInv, Window <= ReplyLen + 1,
           NEW c \in Client, Handling(c, Request), loop.pc = "lock"
    PROVE  Room
<1>1. Busy(c) /\ Asked(c)
  BY DEF Handling, Busy, Replying, Posting, Asked, Request
<1>2. UnderWay(c) <= Window
  BY <1>1, RepliesFromHandle DEF KeptInv, FewRequests, Busy
<1>3. data # NoReply
  BY DEF KeptInv, Booted
<1>4. /\ Owed >= Len(reply_evt_queue) + 1 /\ Owed \in Nat /\ Len(reply_evt_queue) \in Nat
  BY <1>3, OwedIs DEF KeptInv
<1>5. UnderWay(c) >= 1 + Owed
  BY <1>1, UnderWayIs DEF KeptInv
<1>6. UnderWay(c) \in Nat
  BY UnderWayIs DEF KeptInv
<1>7. QED
  BY <1>2, <1>4, <1>5, <1>6, ReplyLenAssumption DEF Room

(* A handler of a request that waits for room, or for the engine that waits *)
(* for room, does so only while reply_loop can go on.                       *)
RequestsHaveRoom ==
    ~ \E c \in Client :
        /\ loop.pc = "lock" /\ loop.client = c
        /\ (Handling(c, {"echo"}) /\ ~Room) \/ WaitsForEngine(c)

(* The handler of a request, the engine and reply_loop wait for each other  *)
(* only if the control unit has more requests under way than the queue of   *)
(* replies holds and one more, counting the sets that the engine has still  *)
(* to answer, however many clients connect, break and replace each other.   *)
THEOREM NoRequestDeadlock ==
    ASSUME Window <= ReplyLen + 1
    PROVE  Spec => []RequestsHaveRoom
<1>1. KeptInv => RequestsHaveRoom
  <2>1. SUFFICES ASSUME KeptInv, NEW c \in Client, loop.pc = "lock",
                        Handling(c, {"echo"}) \/ WaitsForEngine(c)
                 PROVE  Room
    BY DEF RequestsHaveRoom, WaitsForEngine
  <2>2. Handling(c, Request)
    BY <2>1 DEF WaitsForEngine, Posting, Handling, Request
  <2>3. QED
    BY <2>1, <2>2, RoomForRequest
<1>2. QED
  BY <1>1, AlwaysKept, PTL

-----------------------------------------------------------------------------
(* Without closes.  While the client of the handle connects and has still   *)
(* to report its new connection, at most one reply is owed: the wait before *)
(* the reconnect was long enough for the others.  And before the queue for  *)
(* replies exists no handler but that of a new connection has run.          *)
Fresh(c) == state[c] \in {"UNKNOW", "INIT"} \/ Handling(c, {"CONNECTED"})

FreshQuiet == \A c \in Client : c = websocket_client_handle /\ Fresh(c) => Owed <= 1

SendsToHandle == loop.pc = "lock" => loop.client = websocket_client_handle

AtBoot ==
    ~queueCreated =>
        /\ trigger_evt_queue = <<>> /\ engine = "TS_IDLE"
        /\ \A c \in Client : state[c] = "CONNECTED" => Handling(c, {"CONNECTED"})

Quiet == FreshQuiet /\ SendsToHandle /\ AtBoot

NoCloses == Kinds \cap {"close", "close_other"} = {}

(* Nobody replaces a client.                                                *)
LEMMA NoHandlerConnects ==
    ASSUME NoCloses, KeptInv, NEW k \in Caller, Connecting(k)
    PROVE  k = "main"
<1>1. SUFFICES ASSUME k \in Client PROVE FALSE
  BY DEF Caller
<1>2. handling[k].kind = "close"
  BY <1>1 DEF Connecting, ConnectInit, ConnectCheck, ConnectStart, ConnectDelay, Goes, KeptInv, Inv,
              OneCurrent
<1>3. QED
  BY <1>1, <1>2 DEF KeptInv, FromControlUnit, NoCloses

(* Before the queue exists nothing is owed.                                 *)
LEMMA NothingOwed == ASSUME KeptInv, AtBoot, ~queueCreated PROVE Owed = 0 /\ loop.pc = "none"
<1>1. /\ reply_evt_queue = <<>> /\ loop.pc = "none" /\ data = NoReply
      /\ trigger_evt_queue = <<>> /\ engine = "TS_IDLE"
  BY DEF KeptInv, Inv, LoopInOrder, Booted, AtBoot
<1>2. Count(trigger_evt_queue, {"set"}) = 0 /\ Len(reply_evt_queue) = 0
  BY <1>1, CountEmpty
<1>3. QED
  BY <1>1, <1>2, OwedIs DEF KeptInv

LEMMA QuietStill ==
    ASSUME Inv, Inv', Quiet, Owed' <= Owed,
           UNCHANGED <<websocket_client_handle, loop, queueCreated, trigger_evt_queue, engine>>,
           \A c \in Client : c = websocket_client_handle /\ Fresh(c)' => Fresh(c),
           \A c \in Client : ~queueCreated /\ state'[c] = "CONNECTED" => Handling(c, {"CONNECTED"})'
    PROVE  Quiet'
<1>1. FreshQuiet'
  BY OwedIs, OwedNext DEF Quiet, FreshQuiet
<1>2. SendsToHandle' /\ AtBoot'
  BY DEF Quiet, SendsToHandle, AtBoot
<1>3. QED
  BY <1>1, <1>2 DEF Quiet

(* A client's own steps.  The wait before a reconnect of the client of the  *)
(* handle ends when at most the engine's answer is still owed.              *)
LEMMA QuietWait ==
    ASSUME KeptInv, Quiet, NEW c \in Client, WaitTimeout(c), LoopIdle, c = websocket_client_handle
    PROVE  Owed <= 1
<1>1. CASE loop.pc = "none"
  <2>1. ~queueCreated
    BY <1>1 DEF KeptInv, Booted
  <2>2. QED
    BY <2>1, NothingOwed DEF Quiet
<1>2. CASE At("receive") /\ reply_evt_queue = <<>> /\ SetsQueued = {}
  <2>1. data = NoReply /\ Len(reply_evt_queue) = 0
    BY <1>2 DEF At, KeptInv, Inv, LoopInOrder
  <2>2. Cardinality(SetsQueued) = 0
    BY <1>2, FS_EmptySet
  <2>3. Sets <= 1 /\ Replies = 0
    BY <2>1, <2>2 DEF Sets, Replies
  <2>4. QED
    BY <2>3, InvCounted DEF KeptInv, Counted
<1>3. CASE loop.pc = "lock" /\ lock[loop.client] = "task"
  BY <1>3 DEF Quiet, SendsToHandle, WaitTimeout, LockedIn
<1>4. QED
  BY <1>1, <1>2, <1>3 DEF LoopIdle

LEMMA QuietMove ==
    ASSUME NoCloses, KeptInv, Inv', Quiet, NEW c \in Client, TaskMoves(c), WaitTimeout(c) => LoopIdle,
           UNCHANGED own
    PROVE  Quiet'
<1>1. /\ UNCHANGED <<websocket_client_handle, loop, queueCreated, trigger_evt_queue, engine>>
      /\ UNCHANGED <<reply_evt_queue, data>>
  BY DEF own
<1>2. Owed' <= Owed /\ Owed' = Owed
  BY <1>1, OwedStill DEF KeptInv
<1>3. /\ \A d \in Client \ {c} : Same(d)
      /\ state'[c] \in {"UNKNOW", "INIT"} => state[c] \in {"UNKNOW", "INIT", "CLOSING"} \/ WaitTimeout(c)
      /\ Idles(c) \/ Opens(c) \/ Reads(c)
  BY MoveShape DEF KeptInv
<1>4. ASSUME Reads(c) PROVE handling'[c].kind # "CONNECTED"
  <2>1. inbox[c] \in Seq(Frame) /\ inbox[c] # <<>> /\ handling'[c] = Head(inbox[c])
    BY <1>4 DEF Reads, KeptInv, Inv, TypeOK, ClientTypeOK
  <2>2. Head(inbox[c]) \in Frame
    BY <2>1, HeadTailProperties
  <2>3. QED
    BY <2>1, <2>2 DEF Frame
<1>5. ASSUME NEW d \in Client, ~queueCreated, state'[d] = "CONNECTED"
      PROVE  Handling(d, {"CONNECTED"})'
  <2>1. \A e \in Client : state[e] = "CONNECTED" => Handling(e, {"CONNECTED"})
    BY <1>5 DEF Quiet, AtBoot
  <2>2. CASE d # c
    BY <1>3, <1>5, <2>1, <2>2 DEF Same, Handling
  <2>3. CASE d = c /\ Idles(c)
    BY <1>5, <2>1, <2>3 DEF Idles, Handling
  <2>4. CASE d = c /\ Opens(c)
    BY <2>4 DEF Opens, Handling, Connected
  <2>5. CASE d = c /\ Reads(c)
    BY <2>1, <2>5 DEF Reads, Handling
  <2>6. QED
    BY <1>3, <2>2, <2>3, <2>4, <2>5
<1>6. CASE c = websocket_client_handle /\ WaitTimeout(c)
  <2>1. Owed' <= 1
    BY <1>2, <1>6, QuietWait
  <2>2. FreshQuiet'
    BY <2>1 DEF FreshQuiet
  <2>3. SendsToHandle' /\ AtBoot'
    BY <1>1, <1>5 DEF Quiet, SendsToHandle, AtBoot
  <2>4. QED
    BY <2>2, <2>3 DEF Quiet
<1>7. CASE c # websocket_client_handle \/ ~WaitTimeout(c)
  <2>1. ASSUME NEW d \in Client, d = websocket_client_handle, Fresh(d)' PROVE Fresh(d)
    <3>1. CASE d # c
      BY <1>3, <2>1, <3>1 DEF Same, Fresh, Handling
    <3>2. CASE d = c /\ state'[c] \in {"UNKNOW", "INIT"}
      <4>1. state[c] # "CLOSING"
        BY <2>1, <3>2 DEF KeptInv, HandleStays, NoCloses
      <4>2. QED
        BY <1>3, <1>7, <2>1, <3>2, <4>1 DEF Fresh
    <3>3. CASE d = c /\ Handling(c, {"CONNECTED"})'
      BY <1>3, <1>4, <3>3 DEF Idles, Opens, Handling, Fresh
    <3>4. QED
      BY <2>1, <3>1, <3>2, <3>3 DEF Fresh
  <2>2. QED
    BY <1>1, <1>2, <1>5, <2>1, QuietStill DEF KeptInv
<1>8. QED
  BY <1>6, <1>7

(* The handlers: one that replies or posts is that of the client of the     *)
(* handle, which is then connected and has reported it.                     *)
LEMMA QuietReturns ==
    ASSUME Inv, Quiet, NEW c \in Client, c = websocket_client_handle,
           UNCHANGED <<websocket_client_handle, loop, queueCreated>>, queueCreated,
           state'[c] = "CONNECTED", ~Handling(c, {"CONNECTED"})'
    PROVE  Quiet'
<1>1. ~Fresh(c)'
  BY DEF Fresh
<1>2. QED
  BY <1>1 DEF Quiet, FreshQuiet, SendsToHandle, AtBoot

LEMMA QuietHandler ==
    ASSUME NoCloses, KeptInv, Inv', Quiet, NEW c \in Client, Handler(c) PROVE Quiet'
<1>1. CASE HandlerReplies(c)
  <2>1. /\ Return(c) /\ Replying(c) /\ queueCreated
        /\ UNCHANGED <<websocket_client_handle, loop, queueCreated>>
    BY <1>1 DEF HandlerReplies
  <2>2. c = websocket_client_handle
    BY <2>1, RepliesFromHandle DEF KeptInv
  <2>3. handling[c].kind \notin {"close", "close_other"}
    BY <2>1 DEF Replying, Handling
  <2>4. state'[c] = "CONNECTED" /\ ~Handling(c, {"CONNECTED"})'
    BY <2>1, <2>3, ReturnShape DEF KeptInv, Handling
  <2>5. QED
    BY <2>1, <2>2, <2>4, QuietReturns DEF KeptInv
<1>2. CASE HandlerPosts(c)
  <2>1. /\ Posting(c) /\ state[c] = "CONNECTED" /\ state'[c] = "CONNECTED"
        /\ ~Handling(c, {"CONNECTED"})'
        /\ UNCHANGED <<websocket_client_handle, loop, queueCreated>>
    BY <1>2, PostShape DEF KeptInv, Handling
  <2>2. c = websocket_client_handle
    BY <2>1, RepliesFromHandle DEF KeptInv
  <2>3. queueCreated
    BY <2>1 DEF Quiet, AtBoot, Posting, Handling
  <2>4. QED
    BY <2>1, <2>2, <2>3, QuietReturns DEF KeptInv
<1>3. CASE HandlerSilent(c)
  <2>1. /\ Return(c) /\ Handling(c, {"silent", "close_other", "delay"})
        /\ UNCHANGED <<websocket_client_handle, loop, queueCreated, trigger_evt_queue, engine>>
        /\ UNCHANGED <<reply_evt_queue, data>>
    BY <1>3 DEF HandlerSilent, own
  <2>2. handling[c].kind \notin {"close", "close_other", "CONNECTED"}
    BY <2>1 DEF Handling, KeptInv, FromControlUnit, NoCloses
  <2>3. /\ \A d \in Client \ {c} : Same(d)
        /\ state[c] = "CONNECTED" /\ state'[c] = "CONNECTED" /\ task'[c] = "unlocked"
    BY <2>1, <2>2, ReturnShape DEF KeptInv
  <2>4. \A d \in Client : Fresh(d)' => Fresh(d)
    BY <2>3 DEF Same, Fresh, Handling
  <2>5. queueCreated
    BY <2>2, <2>3 DEF Quiet, AtBoot, Handling
  <2>6. QED
    BY <2>1, <2>4, <2>5, OwedStill, QuietStill DEF KeptInv
<1>4. CASE Restart(c)
  <2>1. /\ ~queueCreated /\ queueCreated' = queueCreated /\ loop' = loop
        /\ websocket_client_handle' = NoClient /\ trigger_evt_queue' = <<>> /\ engine' = "TS_IDLE"
        /\ state' = [d \in Client |-> "UNKNOW"]
    BY <1>4 DEF Restart
  <2>2. loop'.pc = "none"
    BY <2>1 DEF KeptInv, Inv, LoopInOrder
  <2>3. QED
    BY <2>1, <2>2, NoClientAssumption DEF Quiet, FreshQuiet, SendsToHandle, AtBoot
<1>5. CASE HandlerReconnects(c) \/ HandlerReconnected(c)
  BY <1>5 DEF HandlerReconnects, HandlerReconnected, Handling, KeptInv, FromControlUnit, NoCloses
<1>6. QED
  BY <1>1, <1>2, <1>3, <1>4, <1>5 DEF Handler

(* Main connects at boot, while nothing is owed.                            *)
LEMMA QuietConnecting ==
    ASSUME NoCloses, KeptInv, Inv', Quiet, NEW k \in Caller, Connecting(k) PROVE Quiet'
<1>1. k = "main"
  BY NoHandlerConnects
<1>2. CASE ConnectInit(k)
  <2>1. /\ ~queueCreated /\ UNCHANGED <<queueCreated, loop>>
        /\ UNCHANGED <<reply_evt_queue, data, trigger_evt_queue, engine>>
        /\ UNCHANGED <<state, task, handling>>
    <3>1. k \notin Client
      BY <1>1, NoClientAssumption
    <3>2. ~queueCreated
      BY <1>2, <3>1, Replaced DEF KeptInv
    <3>3. QED
      BY <1>2, <3>2 DEF ConnectInit, clientVars
  <2>2. Owed = 0 /\ loop.pc = "none"
    BY <2>1, NothingOwed DEF Quiet
  <2>3. Owed' <= 1
    BY <2>1, <2>2, OwedStill DEF KeptInv
  <2>4. AtBoot'
    BY <2>1 DEF Quiet, AtBoot, Handling
  <2>5. QED
    BY <2>1, <2>2, <2>3, <2>4 DEF Quiet, FreshQuiet, SendsToHandle
<1>3. CASE ConnectCheck(k) \/ ConnectStart(k) \/ ConnectDelay(k)
  <2>1. /\ UNCHANGED <<websocket_client_handle, loop, queueCreated, trigger_evt_queue, engine>>
        /\ UNCHANGED <<reply_evt_queue, data>>
        /\ UNCHANGED clientVars \/ (Start(websocket_client_handle) /\ MayStart(websocket_client_handle))
    BY <1>3 DEF ConnectCheck, ConnectStart, ConnectDelay
  <2>2. /\ UNCHANGED <<state, handling>>
        /\ \A d \in Client : task'[d] = task[d] \/ (task'[d] = "created" /\ state[d] = "UNKNOW")
    BY <2>1 DEF clientVars, Start, MayStart, KeptInv, Inv, TypeOK, ClientTypeOK
  <2>3. \A d \in Client : Fresh(d)' => Fresh(d)
    BY <2>2 DEF Fresh, Handling
  <2>4. \A d \in Client : ~queueCreated /\ state'[d] = "CONNECTED" => Handling(d, {"CONNECTED"})'
    BY <2>2 DEF Quiet, AtBoot, Handling
  <2>5. QED
    BY <2>1, <2>3, <2>4, OwedStill, QuietStill DEF KeptInv
<1>4. QED
  BY <1>2, <1>3 DEF Connecting

(* reply_loop sends to the client of the handle, and may find its           *)
(* connection broken.                                                       *)
LEMMA QuietLoop == ASSUME KeptInv, Inv', Quiet, Loop PROVE Quiet'
<1>1. Inv /\ Booted
  BY DEF KeptInv
<1>2. queueCreated
  BY <1>1 DEF Loop, LoopTakes, LoopChecks, LoopCalls, LoopLocks, LoopRefused, LoopWrites, LoopFails,
              LoopReturns, At, Inv, LoopInOrder
<1>3. /\ UNCHANGED <<websocket_client_handle, queueCreated, trigger_evt_queue, engine, task, handling>>
      /\ \A d \in Client : state'[d] = state[d] \/ state'[d] = "WAIT_TIMEOUT"
      /\ loop'.pc = "lock" => loop'.client = websocket_client_handle
      /\ \/ reply_evt_queue' = reply_evt_queue /\ (data' = data \/ data' = NoReply)
         \/ Len(reply_evt_queue') = Len(reply_evt_queue) - 1 /\ data = NoReply
  BY <1>1, LoopTakesShape, LoopGoesShape, LoopLocksShape, LoopReturnsShape DEF Loop, clientVars
<1>4. Owed' <= Owed
  BY <1>1, <1>3, OwedIs, OwedNext
<1>5. FreshQuiet'
  <2>1. \A d \in Client : Fresh(d)' => Fresh(d)
    BY <1>3 DEF Fresh, Handling
  <2>2. QED
    BY <1>1, <1>3, <1>4, <2>1, OwedIs, OwedNext DEF Quiet, FreshQuiet
<1>6. SendsToHandle' /\ AtBoot'
  BY <1>2, <1>3 DEF SendsToHandle, AtBoot
<1>7. QED
  BY <1>5, <1>6 DEF Quiet

LEMMA QuietEngine == ASSUME KeptInv, Inv', Quiet, Engine \/ HitPosted PROVE Quiet'
<1>1. Owed' <= Owed /\ UNCHANGED <<clientVars, websocket_client_handle, connecting, loop>>
  BY EngineOwes DEF KeptInv
<1>2. queueCreated /\ UNCHANGED queueCreated
  BY DEF Engine, EngineTakes, EngineAnswers, HitPosted, Quiet, AtBoot
<1>3. FreshQuiet'
  <2>1. \A d \in Client : Fresh(d)' => Fresh(d)
    BY <1>1 DEF clientVars, Fresh, Handling
  <2>2. QED
    BY <1>1, <2>1, OwedIs, OwedNext DEF Quiet, FreshQuiet, KeptInv
<1>4. QED
  BY <1>1, <1>2, <1>3 DEF Quiet, SendsToHandle, AtBoot

LEMMA QuietStep == NoCloses /\ KeptInv /\ Quiet /\ [Next]_vars => Quiet'
<1> SUFFICES ASSUME NoCloses, KeptInv, Quiet, [Next]_vars PROVE Quiet'
    OBVIOUS
<1>0. Inv /\ Inv'
  BY InvStep DEF KeptInv
<1>1. CASE \E k \in Caller : Connecting(k)
  BY <1>0, <1>1, QuietConnecting
<1>2. CASE CreateQueue
  <2>1. /\ queueCreated' = TRUE /\ loop' = [loop EXCEPT !.pc = "receive"]
        /\ UNCHANGED <<clientVars, websocket_client_handle, reply_evt_queue, data, trigger_evt_queue, engine>>
    BY <1>2 DEF CreateQueue
  <2>2. loop'.pc = "receive"
    BY <1>0, <2>1 DEF Inv, TypeOK
  <2>3. Owed' = Owed /\ \A d \in Client : Fresh(d)' => Fresh(d)
    BY <1>0, <2>1, OwedStill DEF clientVars, Fresh, Handling
  <2>4. QED
    BY <2>1, <2>2, <2>3 DEF Quiet, FreshQuiet, SendsToHandle, AtBoot
<1>3. CASE Loop
  BY <1>0, <1>3, QuietLoop
<1>4. ASSUME NEW c \in Client, (TaskStep(c) \/ Reconnects(c) \/ LinkBreaks(c)) /\ UNCHANGED own
      PROVE  Quiet'
  BY <1>0, <1>4, ClientMoves, QuietMove
<1>5. ASSUME NEW c \in Client, Handler(c) PROVE Quiet'
  BY <1>0, <1>5, QuietHandler
<1>6. ASSUME NEW c \in Client, ControlUnitSends(c) PROVE Quiet'
  <2>1. /\ UNCHANGED <<websocket_client_handle, loop, queueCreated, trigger_evt_queue, engine>>
        /\ UNCHANGED <<reply_evt_queue, data, state, task, handling>>
    BY <1>6 DEF ControlUnitSends, ServerSends
  <2>2. \A d \in Client : Fresh(d)' => Fresh(d)
    BY <2>1 DEF Fresh, Handling
  <2>3. \A d \in Client : ~queueCreated /\ state'[d] = "CONNECTED" => Handling(d, {"CONNECTED"})'
    BY <2>1 DEF Quiet, AtBoot, Handling
  <2>4. QED
    BY <1>0, <2>1, <2>2, <2>3, OwedStill, QuietStill
<1>7. CASE Engine \/ HitPosted
  BY <1>0, <1>7, QuietEngine
<1>8. CASE UNCHANGED vars
  <2>1. /\ UNCHANGED <<websocket_client_handle, loop, queueCreated, trigger_evt_queue, engine>>
        /\ UNCHANGED <<reply_evt_queue, data, state, task, handling>>
    BY <1>8 DEF vars, clientVars, own
  <2>2. \A d \in Client : Fresh(d)' => Fresh(d)
    BY <2>1 DEF Fresh, Handling
  <2>3. \A d \in Client : ~queueCreated /\ state'[d] = "CONNECTED" => Handling(d, {"CONNECTED"})'
    BY <2>1 DEF Quiet, AtBoot, Handling
  <2>4. QED
    BY <1>0, <2>1, <2>2, <2>3, OwedStill, QuietStill
<1>9. QED
  BY <1>1, <1>2, <1>3, <1>4, <1>5, <1>6, <1>7, <1>8 DEF Next

LEMMA QuietInit == Init => Quiet
<1> SUFFICES ASSUME Init PROVE Quiet
    OBVIOUS
<1>1. \A c \in Client : c # websocket_client_handle
  BY NoClientAssumption DEF Init
<1>2. \A c \in Client : state[c] = "UNKNOW"
  BY DEF Init, ClientInit
<1>3. loop.pc = "none" /\ trigger_evt_queue = <<>> /\ engine = "TS_IDLE"
  BY DEF Init
<1>4. QED
  BY <1>1, <1>2, <1>3 DEF Quiet, FreshQuiet, SendsToHandle, AtBoot

(* The report of a new connection finds room: the one reply that may be     *)
(* owed is that which reply_loop has in hand.                               *)
LEMMA RoomForAll ==
    ASSUME Window <= ReplyLen + 1, KeptInv, Quiet PROVE NoReplyDeadlock
<1>1. SUFFICES ASSUME NEW c \in Client, loop.pc = "lock", WaitsForRoom(c) \/ WaitsForEngine(c)
               PROVE  Room
  BY DEF NoReplyDeadlock, WaitsForRoom, WaitsForEngine
<1>2. CASE Handling(c, Request)
  BY <1>1, <1>2, RoomForRequest
<1>3. CASE Handling(c, {"CONNECTED"})
  <2>1. c = websocket_client_handle
    BY <1>3, RepliesFromHandle DEF KeptInv, Replying, Handling
  <2>2. Owed <= 1
    BY <1>3, <2>1 DEF Quiet, FreshQuiet, Fresh
  <2>3. data # NoReply
    BY <1>1 DEF KeptInv, Booted
  <2>4. Len(reply_evt_queue) = 0
    BY <2>2, <2>3, OwedIs DEF KeptInv
  <2>5. QED
    BY <2>4, ReplyLenAssumption DEF Room
<1>4. QED
  BY <1>1, <1>2, <1>3 DEF WaitsForRoom, WaitsForEngine, Replying, Posting, Handling, Request

(* A control unit that never closes a connection may have one request more  *)
(* under way than the queue of replies holds, sets that wait for their      *)
(* answer included: no handler, the engine and reply_loop then ever wait    *)
(* for each other, however often connections break and are made anew.       *)
THEOREM NoDeadlockWithoutCloses ==
    ASSUME Window <= ReplyLen + 1, Kinds \cap {"close", "close_other"} = {}
    PROVE  Spec => []NoReplyDeadlock
<1>1. NoCloses
  BY DEF NoCloses
<1>2. Init => KeptInv /\ Quiet
  BY KeptInit, QuietInit
<1>3. KeptInv /\ Quiet /\ [Next]_vars => (KeptInv /\ Quiet)'
  BY <1>1, KeptStep, QuietStep
<1>4. KeptInv /\ Quiet => NoReplyDeadlock
  BY RoomForAll
<1>5. QED
  BY <1>2, <1>3, <1>4, PTL DEF Spec

=============================================================================
