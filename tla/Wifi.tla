-------------------------------- MODULE Wifi --------------------------------
(***************************************************************************)
(* The wifi connection of the element, src/main/wifi_fixed_config.c: the   *)
(* event handler, which retries a failed connection a number of times, and *)
(* app_main, which waits for its verdict before it goes on to the control  *)
(* unit.  The driver posts its events to a queue and the handler takes     *)
(* them one by one.                                                        *)
(***************************************************************************)
EXTENDS Naturals, Sequences

CONSTANTS
    connection_max_retry,  \* 5
    MaxLosses              \* bound on the losses of an established connection

ASSUME WifiAssumption == connection_max_retry \in Nat /\ MaxLosses \in Nat

VARIABLES
    driver,        \* what the station does
    events,        \* events posted and not handled
    s_retry_num,
    bits,          \* s_wifi_event_group
    main,          \* app_main: waits in hbf_connect_wifi_in_station_mode, or went on
    failed,        \* history: connection attempts that failed since the last success
    losses

vars == <<driver, events, s_retry_num, bits, main, failed, losses>>

Event == {"STA_START", "STA_DISCONNECTED", "STA_GOT_IP"}

TypeOK ==
    /\ driver \in {"idle", "connecting", "connected", "up"}
    /\ events \in Seq(Event)
    /\ s_retry_num \in 0..connection_max_retry
    /\ bits \subseteq {"WIFI_CONNECTED_BIT", "WIFI_FAIL_BIT"}
    /\ main \in {"starting", "waiting", "online", "offline"}
    /\ failed \in Nat /\ losses \in 0..MaxLosses

Init ==
    /\ driver = "idle" /\ events = <<>>
    /\ s_retry_num = 0 /\ bits = {}
    /\ main = "starting"
    /\ failed = 0 /\ losses = 0

-----------------------------------------------------------------------------
(* hbf_connect_wifi_in_station_mode.                                        *)

esp_wifi_start ==
    /\ main = "starting"
    /\ main' = "waiting"
    /\ events' = Append(events, "STA_START")
    /\ UNCHANGED <<driver, s_retry_num, bits, failed, losses>>

AllBitsSet == bits = {"WIFI_CONNECTED_BIT", "WIFI_FAIL_BIT"}

(* xEventGroupWaitBits returns when either bit is set, and clears none.     *)
AnyBitSet == bits # {}

WaitEnds ==
    /\ main = "waiting" /\ AnyBitSet
    /\ main' = IF "WIFI_CONNECTED_BIT" \in bits THEN "online" ELSE "offline"
    /\ UNCHANGED <<driver, events, s_retry_num, bits, failed, losses>>

-----------------------------------------------------------------------------
(* The driver: it joins the access point, is given an address, and may fail *)
(* or lose the connection at any time.                                      *)

Disconnects ==
    /\ driver' = "idle"
    /\ events' = Append(events, "STA_DISCONNECTED")

Joins ==
    /\ driver = "connecting"
    /\ driver' = "connected"
    /\ UNCHANGED <<events, s_retry_num, bits, main, failed, losses>>

GetsAddress ==
    /\ driver = "connected"
    /\ driver' = "up"
    /\ events' = Append(events, "STA_GOT_IP")
    /\ failed' = 0
    /\ UNCHANGED <<s_retry_num, bits, main, losses>>

AttemptFails ==
    /\ driver \in {"connecting", "connected"}
    /\ Disconnects
    /\ failed' = failed + 1
    /\ UNCHANGED <<s_retry_num, bits, main, losses>>

Loses ==
    /\ driver = "up" /\ losses < MaxLosses
    /\ Disconnects
    /\ losses' = losses + 1
    /\ UNCHANGED <<s_retry_num, bits, main, failed>>

-----------------------------------------------------------------------------
(* event_handler.                                                           *)

Handle(event) == events # <<>> /\ Head(events) = event /\ events' = Tail(events)

esp_wifi_connect == driver' = "connecting"

HandleStart ==
    /\ Handle("STA_START")
    /\ esp_wifi_connect
    /\ UNCHANGED <<s_retry_num, bits, main, failed, losses>>

MayRetryOnceMore == s_retry_num <= connection_max_retry

MayRetry == s_retry_num < connection_max_retry

HandleDisconnected ==
    /\ Handle("STA_DISCONNECTED")
    /\ IF MayRetry
         THEN esp_wifi_connect /\ s_retry_num' = s_retry_num + 1 /\ UNCHANGED bits
         ELSE bits' = bits \cup {"WIFI_FAIL_BIT"} /\ UNCHANGED <<driver, s_retry_num>>
    /\ UNCHANGED <<main, failed, losses>>

RetriesKept == UNCHANGED s_retry_num

ResetRetries == s_retry_num' = 0

HandleGotIp ==
    /\ Handle("STA_GOT_IP")
    /\ ResetRetries
    /\ bits' = bits \cup {"WIFI_CONNECTED_BIT"}
    /\ UNCHANGED <<driver, main, failed, losses>>

-----------------------------------------------------------------------------
Driver == Joins \/ GetsAddress \/ AttemptFails
Handler == HandleStart \/ HandleDisconnected \/ HandleGotIp

(* The connection is up, or given up, and nobody has anything left to do.   *)
AtRest ==
    /\ main \in {"online", "offline"}
    /\ driver \in {"idle", "up"} /\ events = <<>>

Next == esp_wifi_start \/ WaitEnds \/ Driver \/ Loses \/ Handler \/ (AtRest /\ UNCHANGED vars)

Spec == Init /\ [][Next]_vars

(* The driver ends every attempt to join the access point, one way or the   *)
(* other, and both tasks run when they are ready.  Nothing obliges anybody  *)
(* to give a station that has joined an address, and nothing in the code    *)
(* ends its wait for one.                                                   *)
FairSpec ==
    /\ Spec
    /\ WF_vars(esp_wifi_start) /\ WF_vars(WaitEnds) /\ WF_vars(Handler)
    /\ WF_vars(driver = "connecting" /\ Driver)

-----------------------------------------------------------------------------
(* The station stays away from the access point only after connection_max_  *)
(* retry retries in succession have failed: an established connection that  *)
(* is lost gets as many retries as the first one, and a loss while the      *)
(* events of the last success still wait costs none of them.                *)
GaveUp == driver = "idle" /\ events = <<>> /\ main # "starting"
GivesUpAfterRetries == GaveUp => failed >= connection_max_retry /\ "WIFI_FAIL_BIT" \in bits

(* app_main goes on in the end, connected or not, however attempts fail and *)
(* connections are lost: except when the station has joined the access      *)
(* point and never gets an address, for which xEventGroupWaitBits has no    *)
(* bit and no timeout.                                                      *)
WithoutAddress == driver = "connected"
MainGoesOn == <>(main \in {"online", "offline"}) \/ <>[]WithoutAddress
=============================================================================
