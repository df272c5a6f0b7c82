------------------------------ MODULE Channels ------------------------------
(***************************************************************************)
(* The channel guards of the notifier (src/tinohelm/notifier/runner.py):   *)
(* which Discord channel may address which strategy.  A registry is a      *)
(* function from the control handles known so far to the mode each one     *)
(* last announced; a handle outside its domain is unknown.                 *)
(***************************************************************************)

\* The three registered channels; any other channel id has no mode and every
\* command from it is refused before the registry is consulted.
ChannelModes == {"sandbox", "live", "logging"}
NoChannel == "unregistered"

\* registry.get(strategy, "sandbox"), anything that is not live being sandbox.
EffectiveMode(registry, sid) ==
    IF sid \in DOMAIN registry /\ registry[sid] = "live" THEN "live" ELSE "sandbox"

\* validate_command_channel returns without raising ChannelMismatch.
CommandAllowed(registry, sid, channel) ==
    /\ channel # "logging"
    /\ EffectiveMode(registry, sid) = channel

\* The strategies a fan-out report command from a channel addresses.
StrategiesForChannel(registry, channel) ==
    IF channel \in {"live", "sandbox"}
    THEN {s \in DOMAIN registry : registry[s] = channel}
    ELSE DOMAIN registry
=============================================================================
