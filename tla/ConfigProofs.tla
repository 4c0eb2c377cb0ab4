---------------------------- MODULE ConfigProofs ----------------------------
(***************************************************************************)
(* Theorems about Config, for every environment, command line and width of *)
(* the integers.  What load checks is a fact about `flags` when it has been *)
(* accepted; which argument each flag comes from is an invariant of the     *)
(* loop over the arguments.                                                 *)
(***************************************************************************)
EXTENDS Config, TLAPS

\* The form of the flags: fs.Int and fs.Bool hold numbers.
FlagsOK ==
    /\ flags \in [Options -> Raw]
    /\ \A o \in Ints : flags[o].form \in {"number", "prefixed"}

\* What accepting a configuration says.
AcceptedOK == stage = "loaded" => Checks(flags) /\ cfg = Resolve(flags)

Sets(i, o) == args[i].kind = "set" /\ args[i].opt = o

\* Where the loop over the arguments stands.
ReadOK ==
    /\ args \in Seq(Argument)
    /\ next \in 1 .. Len(args) + 1
    /\ stage \in {"check", "loaded"} /\ next <= Len(args)
         => args[next].kind = "positional"
    /\ stage \in {"check", "loaded", "parse", "refused"}
    /\ \A i \in 1 .. next - 1 :
          args[i].kind = "set" /\ FlagReads(args[i].opt, args[i].raw)
    /\ \A o \in Options :
          \/ (\A i \in 1 .. next - 1 : ~Sets(i, o)) /\ flags[o] = EnvOr(env, o)
          \/ \E i \in 1 .. next - 1 :
                /\ Sets(i, o) /\ flags[o] = args[i].raw
                /\ \A j \in 1 .. next - 1 : Sets(j, o) => j <= i

IInv == env \in [Options -> Raw] /\ FlagsOK /\ AcceptedOK /\ ReadOK

-----------------------------------------------------------------------------
\* The settings the code names are raw settings.
LEMMA RawFacts ==
    /\ Empty \in Raw /\ Word \in Raw /\ \A i \in Integer : Number(i) \in Raw
    /\ \A r \in Raw : r.form \in Forms /\ r.n \in Int
BY ConfigInputs DEF Raw, Empty, Word, Number, Forms, Integer

\* Whatever the environment holds, an option starts with a value of its kind.
LEMMA EnvOrOK ==
    ASSUME NEW e \in [Options -> Raw], NEW o \in Options
    PROVE  /\ EnvOr(e, o) \in Raw
           /\ o \in Ints => EnvOr(e, o).form \in {"number", "prefixed"}
<1>1. Default[o] \in Raw /\ (o \in Ints => Default[o].form = "number")
  <2>1. {1883, 30 * Second, 8 * Second, 300, 3, 0} \subseteq Integer
    BY ConfigInputs DEF Integer
  <2> QED
    BY <2>1, RawFacts DEF Default, Number, Empty, Word, Ints
<1> QED
  BY <1>1 DEF EnvOr, EnvReads

\* Whatever the environment, the initial state satisfies the invariant.
LEMMA InitOK == Init => IInv
<1> SUFFICES ASSUME Init PROVE IInv
  OBVIOUS
<1>1. env \in [Options -> Raw] /\ args \in Seq(Argument)
  BY ConfigInputs DEF Init
<1>2. FlagsOK
  BY <1>1, EnvOrOK DEF Init, FlagsOK, Options
<1>3. ReadOK
  BY <1>1 DEF Init, ReadOK
<1> QED
  BY <1>1, <1>2, <1>3 DEF IInv, AcceptedOK, Init

\* One more argument: it is the last one that sets its option.
LEMMA SetFlagOK ==
    ASSUME IInv, SetFlag
    PROVE  FlagsOK' /\ ReadOK'
<1> DEFINE a == args[next]
<1>1. /\ next \in 1 .. Len(args) /\ a \in Argument /\ a.kind = "set"
      /\ FlagReads(a.opt, a.raw) /\ flags' = [flags EXCEPT ![a.opt] = a.raw]
      /\ next' = next + 1 /\ UNCHANGED <<stage, env, args>>
      /\ stage = "parse"
  BY DEF SetFlag, AtArgument, IInv, ReadOK
<1>2. a.opt \in Options /\ a.raw \in Raw
  BY <1>1 DEF Argument
<1>3. FlagsOK'
  BY <1>1, <1>2 DEF IInv, FlagsOK, FlagReads, Options
<1>4. ASSUME NEW o \in Options
      PROVE  \/ /\ \A i \in 1 .. next : ~Sets(i, o)
                /\ flags'[o] = EnvOr(env, o)
             \/ \E i \in 1 .. next :
                   /\ Sets(i, o) /\ flags'[o] = args[i].raw
                   /\ \A j \in 1 .. next : Sets(j, o) => j <= i
  <2>1. CASE o = a.opt
    <3>1. Sets(next, o) /\ flags'[o] = args[next].raw
      BY <1>1, <1>2, <2>1 DEF Sets, IInv, FlagsOK
    <3> QED
      BY <1>1, <3>1
  <2>2. CASE o # a.opt
    <3>1. flags'[o] = flags[o] /\ ~Sets(next, o)
      BY <1>1, <1>2, <2>2 DEF Sets, IInv, FlagsOK
    <3>2. \/ (\A i \in 1 .. next - 1 : ~Sets(i, o)) /\ flags[o] = EnvOr(env, o)
          \/ \E i \in 1 .. next - 1 :
                /\ Sets(i, o) /\ flags[o] = args[i].raw
                /\ \A j \in 1 .. next - 1 : Sets(j, o) => j <= i
      BY DEF IInv, ReadOK
    <3>3. CASE (\A i \in 1 .. next - 1 : ~Sets(i, o))
                 /\ flags[o] = EnvOr(env, o)
      BY <1>1, <3>1, <3>3
    <3>4. ASSUME NEW i \in 1 .. next - 1, Sets(i, o), flags[o] = args[i].raw,
                 \A j \in 1 .. next - 1 : Sets(j, o) => j <= i
          PROVE  /\ i \in 1 .. next /\ flags'[o] = args[i].raw
                 /\ \A j \in 1 .. next : Sets(j, o) => j <= i
      BY <1>1, <3>1, <3>4
    <3> QED
      BY <3>2, <3>3, <3>4
  <2> QED
    BY <2>1, <2>2
<1>5. ReadOK'
  <2>1. \A i \in 1 .. next : args[i].kind = "set"
                               /\ FlagReads(args[i].opt, args[i].raw)
    BY <1>1 DEF IInv, ReadOK
  <2>2. (next + 1) - 1 = next /\ next + 1 \in 1 .. Len(args) + 1
    BY <1>1
  <2> QED
    BY <1>1, <1>4, <2>1, <2>2 DEF IInv, ReadOK, Sets
<1> QED
  BY <1>3, <1>5

\* Every step of load keeps the invariant.
LEMMA Inductive == IInv /\ [Next]_vars => IInv'
<1> SUFFICES ASSUME IInv, [Next]_vars PROVE IInv'
  OBVIOUS
<1>1. CASE SetFlag
  BY <1>1, SetFlagOK DEF SetFlag, AtArgument, IInv, AcceptedOK
<1>2. CASE RefuseFlag
  BY <1>2 DEF RefuseFlag, AtArgument, IInv, FlagsOK, AcceptedOK, ReadOK, Sets
<1>3. CASE EndOfFlags
  BY <1>3 DEF EndOfFlags, IInv, FlagsOK, AcceptedOK, ReadOK, Sets
<1>4. CASE RefuseValues
  BY <1>4 DEF RefuseValues, IInv, FlagsOK, AcceptedOK, ReadOK, Sets
<1>5. CASE Accept
  BY <1>5 DEF Accept, IInv, FlagsOK, AcceptedOK, ReadOK, Sets
<1>6. CASE Done \/ UNCHANGED vars
  <2>1. UNCHANGED vars
    BY <1>6 DEF Done
  <2> QED
    BY <2>1 DEF vars, IInv, FlagsOK, AcceptedOK, ReadOK, Sets
<1> QED
  BY <1>1, <1>2, <1>3, <1>4, <1>5, <1>6 DEF Next

\* The invariant holds in every reachable state.
LEMMA Invariant == Spec => []IInv
BY InitOK, Inductive, PTL DEF Spec

-----------------------------------------------------------------------------
\* The product of two positive numbers is positive.
LEMMA ProductPositive ==
    ASSUME NEW a \in Int, NEW b \in Int, a > 0, b > 0
    PROVE  a * b \in Int /\ a * b > 0
OBVIOUS

\* A product that fits is what it is.
LEMMA WrapFits == ASSUME NEW i \in Int, i <= MaxInt PROVE Wrap(i) = i
BY DEF Wrap

\* load: an option has the value of the last flag that sets it, or else of the
\* environment or the default.
THEOREM FlagsWinOverEnv == Spec => []FlagsWin
<1>1. IInv => FlagsWin
  <2> SUFFICES ASSUME IInv, stage = "loaded" PROVE FlagsWin
    BY DEF FlagsWin
  <2> DEFINE read == {i \in 1 .. Len(args) :
                         \A j \in 1 .. i : args[j].kind # "positional"}
  <2>1. /\ next \in 1 .. Len(args) + 1 /\ Len(args) \in Nat
        /\ next <= Len(args) => args[next].kind = "positional"
        /\ \A i \in 1 .. next - 1 : args[i].kind = "set"
    BY DEF IInv, ReadOK
  <2>2. read = 1 .. next - 1
    <3>1. ASSUME NEW i \in read PROVE i \in 1 .. next - 1
      BY <2>1, <3>1
    <3>2. ASSUME NEW i \in 1 .. next - 1 PROVE i \in read
      BY <2>1, <3>2
    <3> QED
      BY <3>1, <3>2
  <2> HIDE DEF read
  <2>3. /\ \A i \in read : args[i].kind = "set"
                             /\ FlagReads(args[i].opt, args[i].raw)
        /\ \A o \in Options :
             \/ (\A i \in read : ~Sets(i, o)) /\ flags[o] = EnvOr(env, o)
             \/ \E i \in read : /\ Sets(i, o) /\ flags[o] = args[i].raw
                                /\ \A j \in read : Sets(j, o) => j <= i
    BY <2>2 DEF IInv, ReadOK
  <2> QED
    BY <2>3 DEF FlagsWin, read, Sets
<1> QED
  BY <1>1, Invariant, PTL

\* load, "Exits with code 2 on any invalid value": what loads is what the other
\* modules assume, but for the exceptions LoadedIsUsable names.
THEOREM LoadedUsable == Spec => []LoadedIsUsable
<1>1. IInv => LoadedIsUsable
  <2> SUFFICES ASSUME IInv, stage = "loaded" PROVE LoadedIsUsable
    BY DEF LoadedIsUsable
  <2> DEFINE n(o) == flags[o].n
  <2>1. Checks(flags) /\ cfg = Resolve(flags)
    BY DEF IInv, AcceptedOK
  <2>2. \A o \in Options : flags[o] \in Raw /\ n(o) \in Int
    BY RawFacts DEF IInv, FlagsOK
  <2>3. /\ n("PollInterval") > 0 /\ n("ResponseTimeout") > 0
        /\ n("ESP32CheckIntervalSeconds") > 0
        /\ n("ESP32RecoveryMissedPolls") > 0
        /\ n("ESP32MaxRecoveryAttempts") > 0
        /\ flags["MetricTTL"].form = "empty" \/ n("MetricTTL") > 0
    BY <2>1 DEF Checks, Positive, PositiveDuration, Ints
  <2>4. {"PollInterval", "ResponseTimeout", "MetricTTL", "ESP32BaseURL",
         "ESP32CheckIntervalSeconds", "ESP32RecoveryMissedPolls",
         "ESP32MaxRecoveryAttempts"} \subseteq Options
    BY DEF Options, Texts, Durations, Ints
  <2>5. {cfg.PollInterval, cfg.ResponseTimeout, cfg.ESP32RecoveryMissedPolls,
         cfg.ESP32MaxRecoveryAttempts} \subseteq Nat \ {0}
    BY <2>1, <2>2, <2>3, <2>4 DEF Resolve
  <2>6. Overflows \/ {cfg.MetricTTL, cfg.ESP32CheckInterval} \subseteq Nat \ {0}
    <3> SUFFICES ASSUME ~Overflows
                 PROVE  cfg.MetricTTL > 0 /\ cfg.MetricTTL \in Int
                        /\ cfg.ESP32CheckInterval > 0
                        /\ cfg.ESP32CheckInterval \in Int
      OBVIOUS
    <3>1. n("ESP32CheckIntervalSeconds") * Second \in Int
          /\ n("ESP32CheckIntervalSeconds") * Second > 0
          /\ n("ESP32CheckIntervalSeconds") * Second <= MaxInt
      <4>1. n("ESP32CheckIntervalSeconds") \in Int /\ Second \in Int
            /\ Second > 0
        BY <2>2, <2>4, ConfigInputs
      <4>2. n("ESP32CheckIntervalSeconds") * Second <= MaxInt
        BY <4>1, ProductPositive, <2>3, ConfigInputs DEF Overflows
      <4> QED
        BY <4>1, <4>2, <2>3, ProductPositive
    <3>2. cfg.ESP32CheckInterval = n("ESP32CheckIntervalSeconds") * Second
      BY <2>1, <3>1, WrapFits DEF Resolve
    <3>3. cfg.MetricTTL > 0 /\ cfg.MetricTTL \in Int
      BY <2>1, <2>2, <2>3, <2>4, WrapFits, ConfigInputs
      DEF Resolve, MetricTTL, Overflows
    <3> QED
      BY <3>1, <3>2, <3>3
  <2>7. \/ flags["ESP32BaseURL"].form = "slashes"
        \/ Given(flags["ESP32BaseURL"]) => cfg.ESP32BaseURL.form # "empty"
    BY <2>1 DEF Resolve, TrimURL, Given
  <2> QED
    BY <2>1, <2>5, <2>6, <2>7
    DEF LoadedIsUsable, Checks, FeaturesNeedBridge, Resolve, Given
<1> QED
  BY <1>1, Invariant, PTL

\* README, MARSTEK_METRIC_TTL: the default TTL is at least PollLoop's UpBound.
THEOREM DefaultTTLEnough == Spec => []DefaultTTLCovers
<1>1. IInv => DefaultTTLCovers
  <2> SUFFICES ASSUME IInv, stage = "loaded",
                      flags["MetricTTL"].form = "empty", ~Overflows
               PROVE  DefaultTTLCovers
    BY DEF DefaultTTLCovers
  <2> DEFINE i == flags["PollInterval"].n
             t == flags["ResponseTimeout"].n
  <2>1. cfg = Resolve(flags) /\ i > 0 /\ t > 0
    BY DEF IInv, AcceptedOK, Checks, PositiveDuration
  <2>2. i \in Int /\ t \in Int
    BY RawFacts DEF IInv, FlagsOK, Options, Durations
  <2>3. cfg.PollInterval = i /\ cfg.ResponseTimeout = t /\ cfg.MetricTTL = 3 * i
    BY <2>1, <2>2, WrapFits, ConfigInputs DEF Resolve, MetricTTL, Overflows
  <2>4. ASSUME NEW c \in 0 .. MaxInt, 2 * c <= i - t
        PROVE  3 * i >= UpBound(i, t, c)
    <3>1. c \in Int /\ c >= 0
      BY <2>4, ConfigInputs
    <3>2. CASE t + c > i
      BY <2>1, <2>2, <2>4, <3>1, <3>2 DEF UpBound
    <3>3. CASE ~(t + c > i)
      BY <2>1, <2>2, <2>4, <3>1, <3>3 DEF UpBound
    <3> QED
      BY <3>2, <3>3
  <2> QED
    BY <2>3, <2>4 DEF DefaultTTLCovers
<1> QED
  BY <1>1, Invariant, PTL
=============================================================================
