------------------------------ MODULE MCConfig ------------------------------
(***************************************************************************)
(* The configuration for TLC, with integers of 12 bits and a second of 4   *)
(* units, so that both products overflow: to a negative number, to zero and *)
(* to a small positive one.  Every option takes each of its forms in the   *)
(* environment, on top of three environments that start a program without  *)
(* a bridge, with a bridge, and with all its features; the command line    *)
(* sets options two of the environments leave to their defaults.           *)
(***************************************************************************)
EXTENDS Config

Junk == [form |-> "junk", n |-> 0]
Blank == [form |-> "blank", n |-> 0]
Slashes == [form |-> "slashes", n |-> 0]
Hex == [form |-> "prefixed", n |-> 16]

Lowest == [o \in Options |-> IF o \in {"MQTTHost", "DeviceID"} THEN Word
                             ELSE Empty]
Bridged == [Lowest EXCEPT !["ESP32BaseURL"] = Word]
Full == [Bridged EXCEPT !["ESP32MetricsFallback"] = Number(1),
                        !["BatteryWiFiSSID"] = Word,
                        !["BatteryWiFiPassword"] = Word,
                        !["MQTTPasswordFile"] = Word]

Values(o) ==
    IF o \in Texts THEN {Empty, Blank, Slashes, Word, Junk}
    ELSE IF o \in Bools THEN {Empty, Junk, Number(0), Number(1)}
    ELSE IF o \in Durations
         THEN {Empty, Junk, Number(-4), Number(0), Number(40), Number(700),
               Number(1400)}
    ELSE {Empty, Junk, Hex, Number(0), Number(2), Number(600), Number(1024)}

MCEnvironments ==
    UNION {{[e EXCEPT ![o] = v] : v \in Values(o)} :
              e \in {Lowest, Bridged, Full}, o \in Options}

Set(o, v) == [kind |-> "set", opt |-> o, raw |-> v]

MCArguments ==
    {[kind |-> "unknown"], [kind |-> "positional"],
     Set("PollInterval", Number(40)), Set("PollInterval", Number(0)),
     Set("ESP32BaseURL", Slashes), Set("ESP32BaseURL", Empty),
     Set("BatteryWiFiSSID", Blank), Set("BatteryWiFiPassword", Blank),
     Set("ESP32MetricsFallback", Number(1)), Set("ESP32MetricsFallback", Junk),
     Set("ESP32RecoveryMissedPolls", Hex)}

MCCommandLines ==
    {<<>>} \cup {<<a>> : a \in MCArguments}
           \cup {<<a, b>> : a \in MCArguments, b \in MCArguments}

MCFileSecret == [form |-> "word", n |-> 2]
=============================================================================
