------------------------------- MODULE Config -------------------------------
(***************************************************************************)
(* config/config.go: how the exporter gets its configuration, from the     *)
(* defaults, the environment and the command line, and what it checks      *)
(* before main builds the rest of the program from it.                     *)
(*                                                                         *)
(* A setting arrives as a text.  A raw value keeps what load and the       *)
(* parsers it calls can tell of it: its form, and the number it reads as.  *)
(* Durations are counted in the unit of time.Duration, Second of them to   *)
(* the second, in integers that wrap beyond MaxInt.  The words "1" and     *)
(* "true" of a switch are both the number 1.                               *)
(***************************************************************************)
EXTENDS Integers, Sequences, FiniteSets

CONSTANTS
    MaxInt,         \* the largest int64, which int and time.Duration share
    Second,         \* time.Second
    FileSecret,     \* what the password file holds, without its line end
    Environments,   \* the environments the program may be started in
    CommandLines    \* the command lines it may be started with

Texts == {"MQTTHost", "MQTTUsername", "MQTTPassword", "MQTTPasswordFile",
          "MQTTClientID", "DeviceType", "DeviceID", "ListenAddr", "LogLevel",
          "LogFormat", "ESP32BaseURL", "BatteryWiFiSSID",
          "BatteryWiFiPassword", "EmulatorListenAddr", "EmulatorTZ"}
Durations == {"PollInterval", "ResponseTimeout", "MetricTTL"}
Ints == {"MQTTPort", "ESP32CheckIntervalSeconds", "ESP32RecoveryMissedPolls",
         "ESP32MaxRecoveryAttempts"}
Bools == {"LogSource", "ESP32MetricsFallback"}
Options == Texts \cup Durations \cup Ints \cup Bools

\* "word" is a text the option knows (a log level, a time zone, a file that can
\* be read, any host), "junk" one it does not; "slashes" has nothing else but
\* blanks; "prefixed" is a number written 0x10 or 1_000.
Forms == {"empty", "blank", "slashes", "word", "junk", "number", "prefixed"}

Integer == -MaxInt - 1 .. MaxInt
Raw == [form : Forms, n : Integer]

Empty == [form |-> "empty", n |-> 0]
Word == [form |-> "word", n |-> 0]
Number(i) == [form |-> "number", n |-> i]
Generated == [form |-> "word", n |-> 1]     \* marstek-exporter-<host>-<pid>

\* An argument of the command line: a flag and its value, a flag nobody
\* defined (-h is one), or a word that is no flag.
Argument == [kind : {"set"}, opt : Options, raw : Raw]
              \cup [kind : {"unknown", "positional"}]

ASSUME ConfigInputs ==
    /\ MaxInt \in Nat /\ Second \in Nat \ {0} /\ 300 * Second <= MaxInt
    /\ MaxInt >= 1883
    /\ FileSecret \in Raw
    /\ Environments \subseteq [Options -> Raw]
    /\ CommandLines \subseteq Seq(Argument)

VARIABLES
    stage,      \* how far load has got
    env,        \* the environment; a variable that is not set reads as Empty
    args,       \* the command line
    next,       \* the argument fs.Parse looks at
    flags,      \* the variables of the flag set
    cfg         \* what load returned, once it has

vars == <<stage, env, args, next, flags, cfg>>

-----------------------------------------------------------------------------
(* Defaults and the environment: the values fs.String, fs.Int and fs.Bool
   are called with. *)

Default == [o \in Options |->
    CASE o = "MQTTPort" -> Number(1883)
      [] o = "PollInterval" -> Number(30 * Second)
      [] o = "ResponseTimeout" -> Number(8 * Second)
      [] o = "ESP32CheckIntervalSeconds" -> Number(300)
      [] o \in {"ESP32RecoveryMissedPolls", "ESP32MaxRecoveryAttempts"}
           -> Number(3)
      [] o \in Bools -> Number(0)
      [] o \in {"DeviceType", "ListenAddr", "LogLevel", "LogFormat"} -> Word
      [] OTHER -> Empty]

\* Atoi and ParseBool, as envOrInt and envOrBool use them.
EnvReads(o, r) ==
    /\ r.form # "empty"
    /\ o \in Ints \cup Bools => r.form = "number"
    /\ o \in Bools => r.n \in {0, 1}

\* envOr, envOrInt, envOrBool: what cannot be read is replaced in silence.
EnvOr(e, o) == IF EnvReads(o, e[o]) THEN e[o] ELSE Default[o]

\* The Set method of the flag's value; fs.Int reads a base prefix.
FlagReads(o, r) ==
    /\ o \in Ints => r.form \in {"number", "prefixed"}
    /\ o \in Bools => r.form = "number" /\ r.n \in {0, 1}

-----------------------------------------------------------------------------
(* The checks after fs.Parse.  Each returns with an error at once, and none
   changes anything, so their order shows only in the message. *)

\* strings.TrimSpace(r) is not empty.
Given(r) == r.form \notin {"empty", "blank"}

\* Faulty on purpose: 0 passes.
NotNegative(r) == r.form = "number" /\ r.n >= 0

\* A duration that ParseDuration reads, or an int.
Positive(r) == r.form \in {"number", "prefixed"} /\ r.n > 0

PositiveDuration(r) == r.form = "number" /\ r.n > 0

FeaturesNeedBridge(f) ==
    (Given(f["BatteryWiFiSSID"]) \/ f["ESP32MetricsFallback"].n = 1)
        => Given(f["ESP32BaseURL"])

Checks(f) ==
    /\ Given(f["MQTTHost"]) /\ Given(f["DeviceID"])
    /\ PositiveDuration(f["PollInterval"])
    /\ PositiveDuration(f["ResponseTimeout"])
    /\ f["MetricTTL"].form = "empty" \/ PositiveDuration(f["MetricTTL"])
    /\ \A o \in Ints \ {"MQTTPort"} : Positive(f[o])
    /\ Given(f["BatteryWiFiSSID"]) <=> Given(f["BatteryWiFiPassword"])
    /\ FeaturesNeedBridge(f)
    /\ f["MQTTPasswordFile"].form \in {"empty", "word"}
    /\ f["LogLevel"].form = "word" /\ f["LogFormat"].form = "word"
    /\ f["EmulatorTZ"].form \in {"empty", "word"}

-----------------------------------------------------------------------------
(* The Config that is returned. *)

\* Arithmetic of int64, for a product of positive numbers.
Wrap(i) == IF i <= MaxInt THEN i
           ELSE ((i + MaxInt + 1) % (2 * (MaxInt + 1))) - (MaxInt + 1)

\* Faulty on purpose: the cache lives for two intervals.
ShortTTL(f) ==
    IF f["MetricTTL"].form = "empty" THEN Wrap(2 * f["PollInterval"].n)
                                     ELSE f["MetricTTL"].n

MetricTTL(f) ==
    IF f["MetricTTL"].form = "empty" THEN Wrap(3 * f["PollInterval"].n)
                                     ELSE f["MetricTTL"].n

\* TrimRight(TrimSpace(r), "/")
TrimURL(r) == IF r.form \in {"empty", "blank", "slashes"} THEN Empty ELSE r

Resolve(f) ==
    [PollInterval |-> f["PollInterval"].n,
     ResponseTimeout |-> f["ResponseTimeout"].n,
     MetricTTL |-> MetricTTL(f),
     ESP32CheckInterval |-> Wrap(f["ESP32CheckIntervalSeconds"].n * Second),
     ESP32RecoveryMissedPolls |-> f["ESP32RecoveryMissedPolls"].n,
     ESP32MaxRecoveryAttempts |-> f["ESP32MaxRecoveryAttempts"].n,
     ESP32MetricsFallback |-> f["ESP32MetricsFallback"].n = 1,
     ESP32BaseURL |-> TrimURL(f["ESP32BaseURL"]),
     BatteryWiFiSSID |-> f["BatteryWiFiSSID"],
     BatteryWiFiPassword |-> f["BatteryWiFiPassword"],
     MQTTPassword |-> IF f["MQTTPasswordFile"].form = "empty"
                      THEN f["MQTTPassword"] ELSE FileSecret,
     MQTTClientID |-> IF f["MQTTClientID"].form = "empty" THEN Generated
                      ELSE f["MQTTClientID"]]

-----------------------------------------------------------------------------
(* How long marstek_up can outlive its payload: PollLoop's UpBound. *)

UpBound(interval, timeout, c) ==
    interval + timeout + 2 * c +
        (IF timeout + c > interval THEN timeout + c ELSE interval)

-----------------------------------------------------------------------------
(* load *)

Init ==
    /\ stage = "parse"
    /\ env \in Environments
    /\ args \in CommandLines
    /\ next = 1
    /\ flags = [o \in Options |-> EnvOr(env, o)]
    /\ cfg = <<>>

AtArgument == stage = "parse" /\ next <= Len(args)

\* Faulty on purpose: the environment wins over a flag.
EnvWins ==
    /\ AtArgument /\ args[next].kind = "set"
    /\ LET a == args[next]
       IN /\ FlagReads(a.opt, a.raw)
          /\ flags' = IF EnvReads(a.opt, env[a.opt]) THEN flags
                      ELSE [flags EXCEPT ![a.opt] = a.raw]
    /\ next' = next + 1
    /\ UNCHANGED <<stage, env, args, cfg>>

SetFlag ==
    /\ AtArgument /\ args[next].kind = "set"
    /\ LET a == args[next]
       IN /\ FlagReads(a.opt, a.raw)
          /\ flags' = [flags EXCEPT ![a.opt] = a.raw]
    /\ next' = next + 1
    /\ UNCHANGED <<stage, env, args, cfg>>

RefuseFlag ==
    /\ AtArgument
    /\ LET a == args[next]
       IN \/ a.kind = "unknown"
          \/ a.kind = "set" /\ ~FlagReads(a.opt, a.raw)
    /\ stage' = "refused"
    /\ UNCHANGED <<env, args, next, flags, cfg>>

\* fs.Parse stops at the first word that is no flag; nobody asks what is left.
EndOfFlags ==
    /\ stage = "parse"
    /\ next <= Len(args) => args[next].kind = "positional"
    /\ stage' = "check"
    /\ UNCHANGED <<env, args, next, flags, cfg>>

RefuseValues ==
    /\ stage = "check" /\ ~Checks(flags)
    /\ stage' = "refused"
    /\ UNCHANGED <<env, args, next, flags, cfg>>

Accept ==
    /\ stage = "check" /\ Checks(flags)
    /\ cfg' = Resolve(flags)
    /\ stage' = "loaded"
    /\ UNCHANGED <<env, args, next, flags>>

Done == stage \in {"refused", "loaded"} /\ UNCHANGED vars

Next ==
    \/ SetFlag \/ RefuseFlag \/ EndOfFlags
    \/ RefuseValues \/ Accept \/ Done

Spec == Init /\ [][Next]_vars
-----------------------------------------------------------------------------
(* What the rest of the program takes for granted. *)

\* The sums that do not fit: a very long interval, and no TTL or a very long
\* check interval.
Overflows ==
    \/ flags["MetricTTL"].form = "empty" /\ 3 * flags["PollInterval"].n > MaxInt
    \/ flags["ESP32CheckIntervalSeconds"].n * Second > MaxInt

\* What the poll loop, the supervisor and main assume of a configuration
\* (their ConfigAssumption, MaxAssumption and BridgeAssumption) holds of each
\* one that loads: positive numbers for the tickers and the thresholds, a
\* bridge for the fallback, a bridge for the credentials, both or none of them.
\* The exceptions are all there are: sums that overflow, a URL of nothing but
\* slashes (main builds no bridge from it), and two blank credentials (which
\* load takes for none and hasWiFiProvisioningConfig for two).
LoadedIsUsable ==
    stage = "loaded" =>
        /\ {cfg.PollInterval, cfg.ResponseTimeout, cfg.ESP32RecoveryMissedPolls,
            cfg.ESP32MaxRecoveryAttempts} \subseteq Nat \ {0}
        /\ Overflows
             \/ {cfg.MetricTTL, cfg.ESP32CheckInterval} \subseteq Nat \ {0}
        /\ \/ flags["ESP32BaseURL"].form = "slashes"
           \/ cfg.ESP32MetricsFallback => cfg.ESP32BaseURL.form # "empty"
        /\ \/ flags["ESP32BaseURL"].form = "slashes"
           \/ Given(cfg.BatteryWiFiSSID) => cfg.ESP32BaseURL.form # "empty"
        /\ \/ {cfg.BatteryWiFiSSID.form, cfg.BatteryWiFiPassword.form}
                 \subseteq {"empty", "blank"}
           \/ cfg.BatteryWiFiSSID.form # "empty"
                 /\ cfg.BatteryWiFiPassword.form # "empty"

\* load, "defaults -> env vars -> CLI flags (flags win)": a configuration that
\* loads was read from a command line without a mistake up to its first plain
\* word, and an option has the value of the last flag there that sets it, or,
\* without such a flag, the value of the environment or the default.
FlagsWin ==
    stage = "loaded" =>
        LET read == {i \in 1 .. Len(args) :
                        \A j \in 1 .. i : args[j].kind # "positional"}
            Sets(i, o) == args[i].kind = "set" /\ args[i].opt = o
        IN /\ \A i \in read : args[i].kind = "set"
                                /\ FlagReads(args[i].opt, args[i].raw)
           /\ \A o \in Options :
                \/ /\ \A i \in read : ~Sets(i, o)
                   /\ flags[o] = EnvOr(env, o)
                \/ \E i \in read :
                      /\ Sets(i, o) /\ flags[o] = args[i].raw
                      /\ \A j \in read : Sets(j, o) => j <= i

\* README, MARSTEK_METRIC_TTL: without one the gauges are kept for three
\* intervals.  That is long enough for PollLoop's UpMeansExported: marstek_up is
\* 1 for UpBound after a payload at most, whatever the calls take, as long as a
\* timeout and two calls fit into an interval.
DefaultTTLCovers ==
    (stage = "loaded" /\ flags["MetricTTL"].form = "empty" /\ ~Overflows) =>
        LET pi == cfg.PollInterval
            rt == cfg.ResponseTimeout
        IN \A c \in {x \in 0 .. MaxInt : 2 * x <= pi - rt} :
               cfg.MetricTTL >= UpBound(pi, rt, c)
=============================================================================
