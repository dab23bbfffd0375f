----------------------------- MODULE WifiProofs -----------------------------
(***************************************************************************)
(* Proofs about the wifi connection, module Wifi, for every number of      *)
(* retries and however often an established connection is lost.            *)
(***************************************************************************)
EXTENDS Wifi, SequenceTheorems, TLAPS

(* What may wait for the handler, by what the station does, and how the     *)
(* handler's count compares with the attempts that failed: it lags behind   *)
(* by the attempt that is under way, and is reset when the last success is  *)
(* handled.                                                                 *)
Idle ==
    /\ events \in {<<>>, <<"STA_START">>, <<"STA_DISCONNECTED">>, <<"STA_GOT_IP", "STA_DISCONNECTED">>}
    /\ events = <<"STA_START">> => s_retry_num <= failed
    /\ events = <<"STA_DISCONNECTED">> => s_retry_num <= failed
    /\ events = <<>> /\ main = "starting" => s_retry_num <= failed
    /\ events = <<>> /\ main # "starting" =>
          failed >= connection_max_retry /\ "WIFI_FAIL_BIT" \in bits
    /\ events # <<>> => main # "starting"

Trying == events = <<>> /\ main # "starting" /\ s_retry_num <= failed + 1

Up ==
    /\ main # "starting"
    /\ events \in {<<>>, <<"STA_GOT_IP">>}
    /\ events = <<>> => s_retry_num = 0

Inv ==
    /\ TypeOK
    /\ driver = "idle" => Idle
    /\ driver \in {"connecting", "connected"} => Trying
    /\ driver = "up" => Up

LEMMA InvInit == Init => Inv
BY WifiAssumption DEF Init, Inv, TypeOK, Idle, Event

(* The events that wait, each way that the handler may take the first.      *)
LEMMA Handles ==
    ASSUME Inv, NEW event, Handle(event)
    PROVE  /\ driver \in {"idle", "up"} /\ main # "starting"
           /\ driver = "up" => event = "STA_GOT_IP" /\ events' = <<>>
           /\ driver = "idle" =>
                 \/ event = "STA_START" /\ events' = <<>> /\ s_retry_num <= failed
                 \/ event = "STA_DISCONNECTED" /\ events' = <<>> /\ s_retry_num <= failed
                 \/ event = "STA_GOT_IP" /\ events' = <<"STA_DISCONNECTED">>
           /\ events' \in Seq(Event)
<1>1. events # <<>> /\ event = Head(events) /\ events' = Tail(events)
  BY DEF Handle
<1>2. CASE driver = "idle"
  <2>1. Idle
    BY <1>2 DEF Inv
  <2>2. CASE events = <<"STA_START">>
    BY <1>1, <1>2, <2>1, <2>2 DEF Idle, Event
  <2>3. CASE events = <<"STA_DISCONNECTED">>
    BY <1>1, <1>2, <2>1, <2>3 DEF Idle, Event
  <2>4. CASE events = <<"STA_GOT_IP", "STA_DISCONNECTED">>
    BY <1>1, <1>2, <2>1, <2>4 DEF Idle, Event
  <2>5. QED
    BY <1>1, <2>1, <2>2, <2>3, <2>4 DEF Idle
<1>3. CASE driver = "up"
  BY <1>1, <1>3 DEF Inv, Up, Event
<1>4. QED
  BY <1>1, <1>2, <1>3 DEF Inv, TypeOK, Trying

LEMMA AppendSecond == ASSUME NEW first, NEW second PROVE Append(<<first>>, second) = <<first, second>>
<1>1. <<first>> \in Seq({first, second}) /\ <<first, second>> \in Seq({first, second})
  OBVIOUS
<1>2. PICK one \in Seq({first, second}) : one = <<first>> /\ Len(one) = 1 /\ one[1] = first
  BY <1>1
<1>3. PICK two \in Seq({first, second}) :
          two = <<first, second>> /\ Len(two) = 2 /\ two[1] = first /\ two[2] = second
  BY <1>1
<1>4. PICK longer : longer = Append(one, second)
  OBVIOUS
<1>5. /\ longer \in Seq({first, second}) /\ Len(longer) = 2
      /\ longer[1] = first /\ longer[2] = second
  BY <1>2, <1>4, AppendProperties
<1>6. \A i \in 1..2 : longer[i] = two[i]
  <2>1. \A i \in 1..2 : i = 1 \/ i = 2
    OBVIOUS
  <2>2. QED
    BY <1>3, <1>5, <2>1
<1>7. longer = two
  BY <1>3, <1>5, <1>6, SeqEqual
<1>8. QED
  BY <1>2, <1>3, <1>4, <1>7

LEMMA InvStep == Inv /\ [Next]_vars => Inv'
<1> SUFFICES ASSUME Inv, [Next]_vars PROVE Inv'
    OBVIOUS
<1> USE WifiAssumption
<1>1. CASE esp_wifi_start
  <2>1. main = "starting" /\ driver = "idle"
    BY <1>1 DEF esp_wifi_start, Inv, TypeOK, Trying, Up
  <2>2. events = <<>> /\ s_retry_num <= failed
    BY <2>1 DEF Inv, Idle
  <2>3. events' = <<"STA_START">>
    BY <1>1, <2>2 DEF esp_wifi_start
  <2>4. QED
    BY <1>1, <2>1, <2>2, <2>3 DEF esp_wifi_start, Inv, TypeOK, Idle, Event
<1>2. CASE WaitEnds
  BY <1>2 DEF WaitEnds, Inv, TypeOK, Idle, Trying, Up
<1>3. CASE Joins
  BY <1>3 DEF Joins, Inv, TypeOK, Trying
<1>4. CASE GetsAddress
  <2>1. events = <<>> /\ main # "starting"
    BY <1>4 DEF GetsAddress, Inv, Trying
  <2>2. events' = <<"STA_GOT_IP">>
    BY <1>4, <2>1 DEF GetsAddress
  <2>3. QED
    BY <1>4, <2>1, <2>2 DEF GetsAddress, Inv, TypeOK, Up, Event
<1>5. CASE AttemptFails
  <2>1. events = <<>> /\ main # "starting" /\ s_retry_num <= failed + 1
    BY <1>5 DEF AttemptFails, Inv, Trying
  <2>2. events' = <<"STA_DISCONNECTED">>
    BY <1>5, <2>1 DEF AttemptFails, Disconnects
  <2>3. QED
    BY <1>5, <2>1, <2>2 DEF AttemptFails, Disconnects, Inv, TypeOK, Idle, Event
<1>6. CASE Loses
  <2>1. Up
    BY <1>6 DEF Loses, Inv
  <2>2. \/ events = <<>> /\ s_retry_num = 0 /\ events' = <<"STA_DISCONNECTED">>
        \/ events' = <<"STA_GOT_IP", "STA_DISCONNECTED">>
    <3>1. events' = Append(events, "STA_DISCONNECTED")
      BY <1>6 DEF Loses, Disconnects
    <3>2. CASE events = <<>>
      BY <2>1, <3>1, <3>2 DEF Up
    <3>3. CASE events = <<"STA_GOT_IP">>
      BY <3>1, <3>3, AppendSecond
    <3>4. QED
      BY <2>1, <3>2, <3>3 DEF Up
  <2>3. TypeOK'
    BY <1>6, <2>2 DEF Loses, Disconnects, Inv, TypeOK, Event
  <2>4. Idle'
    BY <1>6, <2>1, <2>2 DEF Loses, Disconnects, Inv, TypeOK, Idle, Up
  <2>5. QED
    BY <1>6, <2>3, <2>4 DEF Loses, Disconnects, Inv
<1>7. CASE HandleStart
  <2>1. events' = <<>> /\ main # "starting" /\ s_retry_num <= failed /\ events' \in Seq(Event)
    BY <1>7, Handles DEF HandleStart
  <2>2. QED
    BY <1>7, <2>1 DEF HandleStart, esp_wifi_connect, Inv, TypeOK, Trying
<1>8. CASE HandleDisconnected
  <2>1. /\ events' = <<>> /\ main # "starting" /\ s_retry_num <= failed /\ events' \in Seq(Event)
        /\ driver = "idle"
    BY <1>8, Handles DEF HandleDisconnected
  <2>2. /\ s_retry_num \in Nat /\ failed \in Nat /\ bits \subseteq {"WIFI_CONNECTED_BIT", "WIFI_FAIL_BIT"}
        /\ UNCHANGED <<main, failed, losses>>
    BY <1>8 DEF HandleDisconnected, Inv, TypeOK
  <2>3. CASE s_retry_num < connection_max_retry
    <3>1. driver' = "connecting" /\ s_retry_num' = s_retry_num + 1 /\ UNCHANGED bits
      BY <1>8, <2>3 DEF HandleDisconnected, MayRetry, esp_wifi_connect
    <3>2. TypeOK'
      BY <2>1, <2>2, <2>3, <3>1 DEF Inv, TypeOK
    <3>3. QED
      BY <2>1, <2>2, <3>1, <3>2 DEF Inv, Trying
  <2>4. CASE ~(s_retry_num < connection_max_retry)
    <3>1. bits' = bits \cup {"WIFI_FAIL_BIT"} /\ UNCHANGED <<driver, s_retry_num>>
      BY <1>8, <2>4 DEF HandleDisconnected, MayRetry
    <3>2. bits' \subseteq {"WIFI_CONNECTED_BIT", "WIFI_FAIL_BIT"} /\ "WIFI_FAIL_BIT" \in bits'
      BY <2>2, <3>1
    <3>3. TypeOK'
      BY <2>1, <2>2, <3>1, <3>2 DEF Inv, TypeOK
    <3>4. failed >= connection_max_retry
      BY <2>1, <2>2, <2>4
    <3>5. QED
      BY <2>1, <2>2, <3>1, <3>2, <3>3, <3>4 DEF Inv, Idle
  <2>5. QED
    BY <2>3, <2>4
<1>9. CASE HandleGotIp
  <2>1. /\ main # "starting" /\ events' \in Seq(Event)
        /\ \/ driver = "up" /\ events' = <<>>
           \/ driver = "idle" /\ events' = <<"STA_DISCONNECTED">>
    BY <1>9, Handles DEF HandleGotIp
  <2>2. TypeOK'
    BY <1>9, <2>1 DEF HandleGotIp, ResetRetries, Inv, TypeOK
  <2>3. s_retry_num' = 0 /\ failed' = failed /\ failed \in Nat /\ driver' = driver /\ main' = main
    BY <1>9 DEF HandleGotIp, ResetRetries, Inv, TypeOK
  <2>4. QED
    BY <2>1, <2>2, <2>3 DEF Inv, Idle, Up
<1>10. CASE UNCHANGED vars
  BY <1>10 DEF vars, Inv, TypeOK, Idle, Trying, Up
<1>11. QED
  BY <1>1, <1>2, <1>3, <1>4, <1>5, <1>6, <1>7, <1>8, <1>9, <1>10 DEF Next, Driver, Handler

LEMMA AlwaysInv == Spec => []Inv
BY InvInit, InvStep, PTL DEF Spec

(* The handler counts its retries within their limit.                       *)
THEOREM WifiTypeCorrect == Spec => []TypeOK
<1>1. Inv => TypeOK
  BY DEF Inv
<1>2. QED
  BY <1>1, AlwaysInv, PTL

(* The station stays away from the access point only after as many retries  *)
(* in succession have failed as the configuration asks for, and app_main is *)
(* told.                                                                    *)
THEOREM WifiGivesUpAfterRetries == Spec => []GivesUpAfterRetries
<1>1. Inv => GivesUpAfterRetries
  BY DEF Inv, Idle, GivesUpAfterRetries, GaveUp
<1>2. QED
  BY <1>1, AlwaysInv, PTL
=============================================================================
