----------------------------- MODULE MCLedStrip -----------------------------
(* Instances of LedStrip for TLC.                                           *)
EXTENDS LedStrip

AllColours == {"off", "red", "green", "blue", "bright_green"}

(* The loop lights a path and flashes, the client's task draws a bar.       *)
SomeCalls ==
    [t \in Caller |->
        IF t = "trigger" THEN {PathLights("red", "green"), FreeLights, hbf_led_strip_start_animation("LSA_RUNNING_BLUE"),
                               hbf_led_strip_start_animation("LSA_FLASHING_GREEN")}
                         ELSE {hbf_led_strip_rgb("blue", 1)}]
=============================================================================
