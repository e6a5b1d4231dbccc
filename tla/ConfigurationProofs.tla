------------------------ MODULE ConfigurationProofs ------------------------
(***************************************************************************)
(* Theorems about Configuration, for any word width and any settings of    *)
(* config/default, the file and the variables.                             *)
(***************************************************************************)
EXTENDS Configuration, WellFoundedInduction, TLAPS

-----------------------------------------------------------------------------
(* The powers of two. *)

\* Induction over the natural numbers, stated of a set.
LEMMA InductionOverNat ==
    ASSUME NEW S, 0 \in S, \A n \in Nat : n \in S => n + 1 \in S
    PROVE  Nat \subseteq S
<1> DEFINE Missing == Nat \ S
<1> SUFFICES ASSUME Missing # {} PROVE FALSE
  OBVIOUS
<1>1. PICK n \in Missing : \A k \in Missing : <<k, n>> \notin OpToRel(<, Nat)
  BY NatLessThanWellFounded, WFMin
<1>2. \A k \in Missing : ~(k < n)
  BY <1>1 DEF OpToRel
<1>3. n # 0 /\ n - 1 \in Nat
  OBVIOUS
<1>4. n - 1 \in S
  BY <1>2, <1>3
<1>5. QED
  BY <1>3, <1>4

\* The first values of ShiftedOne.
Doubles(f, k) ==
    f \in [0 .. k -> Nat] /\ f[0] = 1 /\ \A n \in 1 .. k : f[n] = 2 * f[n - 1]

LEMMA DoublesExist == \A k \in Nat : \E f : Doubles(f, k)
<1> DEFINE S == {k \in Nat : \E f : Doubles(f, k)}
<1>1. 0 \in S
  <2>1. Doubles([n \in 0 .. 0 |-> 1], 0)
    BY DEF Doubles
  <2>2. QED
    BY <2>1
<1>2. ASSUME NEW k \in Nat, k \in S PROVE k + 1 \in S
  <2>1. PICK f : Doubles(f, k)
    BY <1>2
  <2> DEFINE g == [n \in 0 .. k + 1 |-> IF n = k + 1 THEN 2 * f[k] ELSE f[n]]
  <2>2. g \in [0 .. k + 1 -> Nat] /\ g[0] = 1
    BY <2>1 DEF Doubles
  <2>3. \A n \in 1 .. k + 1 : g[n] = 2 * g[n - 1]
    BY <2>1 DEF Doubles
  <2>4. Doubles(g, k + 1)
    BY <2>2, <2>3 DEF Doubles
  <2>5. QED
    BY <2>4
<1> HIDE DEF S
<1>3. Nat \subseteq S
  BY <1>1, <1>2, InductionOverNat
<1>4. QED
  BY <1>3 DEF S

LEMMA DoublesAgree ==
    ASSUME NEW k \in Nat, NEW l \in Nat, NEW f, NEW g, Doubles(f, k), Doubles(g, l), k <= l
    PROVE  \A n \in 0 .. k : f[n] = g[n]
<1> DEFINE S == {n \in Nat : n \in 0 .. k => f[n] = g[n]}
<1>1. 0 \in S
  BY DEF Doubles
<1>2. ASSUME NEW n \in Nat, n \in S PROVE n + 1 \in S
  <2>1. SUFFICES ASSUME n + 1 <= k PROVE f[n + 1] = g[n + 1]
    OBVIOUS
  <2>2. n \in 0 .. k /\ n + 1 \in 1 .. k /\ n + 1 \in 1 .. l /\ (n + 1) - 1 = n
    BY <2>1
  <2>3. f[n] = g[n]
    BY <1>2, <2>2
  <2>4. QED
    BY <2>2, <2>3 DEF Doubles
<1> HIDE DEF S
<1>3. Nat \subseteq S
  BY <1>1, <1>2, InductionOverNat
<1>4. QED
  BY <1>3 DEF S

\* ShiftedOne is what its definition says: the function it chooses exists.
LEMMA ShiftedOneUnfolds ==
    ShiftedOne = [n \in Nat |-> IF n = 0 THEN 1 ELSE 2 * ShiftedOne[n - 1]]
<1> DEFINE Table(k) == CHOOSE f : Doubles(f, k)
           F == [n \in Nat |-> Table(n)[n]]
<1>1. \A k \in Nat : Doubles(Table(k), k)
  BY DoublesExist
<1>2. F[0] = 1
  BY <1>1 DEF Doubles
<1>3. ASSUME NEW n \in Nat, n # 0 PROVE F[n] = 2 * F[n - 1]
  <2>1. n - 1 \in Nat /\ n - 1 <= n /\ n - 1 \in 0 .. n - 1 /\ n \in 1 .. n
    BY <1>3
  <2>2. Doubles(Table(n - 1), n - 1) /\ Doubles(Table(n), n)
    BY <1>1, <2>1
  <2> HIDE DEF Table
  <2>3. Table(n - 1)[n - 1] = Table(n)[n - 1]
    BY <2>1, <2>2, DoublesAgree
  <2>4. Table(n)[n] = 2 * Table(n)[n - 1]
    BY <2>1, <2>2 DEF Doubles
  <2>5. QED
    BY <2>1, <2>3, <2>4
<1> HIDE DEF F
<1>4. F = [n \in Nat |-> IF n = 0 THEN 1 ELSE 2 * F[n - 1]]
  <2>1. F = [n \in Nat |-> F[n]]
    BY DEF F
  <2>2. \A n \in Nat : F[n] = IF n = 0 THEN 1 ELSE 2 * F[n - 1]
    BY <1>2, <1>3
  <2>3. QED
    BY <2>1, <2>2
<1>5. QED
  BY <1>4 DEF ShiftedOne

LEMMA ShiftedOneAt ==
    /\ ShiftedOne[0] = 1
    /\ \A n \in Nat : ShiftedOne[n + 1] = 2 * ShiftedOne[n]
<1>1. ShiftedOne[0] = 1
  BY ShiftedOneUnfolds
<1>2. ASSUME NEW n \in Nat PROVE ShiftedOne[n + 1] = 2 * ShiftedOne[n]
  <2> DEFINE m == n + 1
  <2>1. m \in Nat /\ m # 0 /\ m - 1 = n
    OBVIOUS
  <2> HIDE DEF m
  <2>2. ShiftedOne[m] = 2 * ShiftedOne[m - 1]
    BY <2>1, ShiftedOneUnfolds
  <2>3. QED
    BY <2>1, <2>2 DEF m
<1>3. QED
  BY <1>1, <1>2

LEMMA ShiftedOneType == \A n \in Nat : ShiftedOne[n] \in Nat \ {0}
<1> DEFINE S == {n \in Nat : ShiftedOne[n] \in Nat \ {0}}
<1>1. 0 \in S /\ \A n \in Nat : n \in S => n + 1 \in S
  BY ShiftedOneAt
<1> HIDE DEF S
<1>2. Nat \subseteq S
  BY <1>1, InductionOverNat
<1>3. QED
  BY <1>2 DEF S

LEMMA ShiftedOneGrows ==
    \A n, d \in Nat : ShiftedOne[n] <= ShiftedOne[n + d]
<1> SUFFICES ASSUME NEW n \in Nat PROVE \A d \in Nat : ShiftedOne[n] <= ShiftedOne[n + d]
  OBVIOUS
<1> DEFINE S == {d \in Nat : ShiftedOne[n] <= ShiftedOne[n + d]}
<1>1. 0 \in S
  BY ShiftedOneType
<1>2. ASSUME NEW d \in Nat, d \in S PROVE d + 1 \in S
  <2>1. ShiftedOne[(n + d) + 1] = 2 * ShiftedOne[n + d]
    BY ShiftedOneAt
  <2>2. n + (d + 1) = (n + d) + 1 /\ n + d \in Nat
    OBVIOUS
  <2>3. QED
    BY <1>2, <2>1, <2>2, ShiftedOneType
<1> HIDE DEF S
<1>3. Nat \subseteq S
  BY <1>1, <1>2, InductionOverNat
<1>4. QED
  BY <1>3 DEF S

-----------------------------------------------------------------------------
(* The sleep before a retry. *)

LEMMA MaxWordType == MaxWord \in Nat \ {0} /\ ShiftedOne[WordBits] = MaxWord + 1
<1>1. WordBits - 1 \in Nat /\ WordBits \in Nat /\ (WordBits - 1) + 1 = WordBits
  BY WordBitsAssumption
<1>2. ShiftedOne[WordBits] = 2 * ShiftedOne[WordBits - 1]
  BY <1>1, ShiftedOneAt
<1>3. QED
  BY <1>1, <1>2, ShiftedOneType DEF MaxWord

\* A product with a factor that is not zero is no less than the other factor.
LEMMA ProductGrows == \A x \in Nat \ {0}, y \in Nat : x * y \in Nat /\ y <= x * y
<1> SUFFICES ASSUME NEW x \in Nat \ {0}, NEW y \in Nat PROVE x * y \in Nat /\ y <= x * y
  OBVIOUS
<1>1. x * y = (x - 1) * y + y /\ x - 1 \in Nat
  OBVIOUS
<1>2. \A a, b \in Nat : a * b \in Nat
  OBVIOUS
<1>3. (x - 1) * y \in Nat
  BY <1>1, <1>2
<1>4. QED
  BY <1>1, <1>3

\* For every word width, every pair of delays that fits and every retry number,
\* retry_delay is the doubling of the initial delay cut off at the maximum: where
\* its shift or its multiplication saturates the maximum is reached anyway.
THEOREM DelayExact ==
    ASSUME NEW initial \in Word \ {0}, NEW maximum \in Word, NEW n \in Nat \ {0}
    PROVE  LET exact == initial * ShiftedOne[n - 1]
           IN  RetryDelay(initial, maximum, n) = IF exact <= maximum THEN exact ELSE maximum
<1> DEFINE power == ShiftedOne[n - 1]
           exact == initial * power
           capped == IF exact <= maximum THEN exact ELSE maximum
<1> SUFFICES RetryDelay(initial, maximum, n) = capped
  OBVIOUS
<1>1. /\ initial \in Nat \ {0} /\ maximum \in Nat /\ maximum <= MaxWord
      /\ MaxWord \in Nat \ {0}
  BY MaxWordType DEF Word
<1>2. n - 1 \in Nat /\ SaturatingPred(n) = n - 1
  BY DEF SaturatingPred
<1>3. power \in Nat \ {0} /\ exact \in Nat /\ power <= exact
  BY <1>1, <1>2, ShiftedOneType, ProductGrows
<1>4. CASE n - 1 < WordBits
  <2>1. Multiplier(n) = power
    BY <1>2, <1>4 DEF Multiplier
  <2>2. RetryDelay(initial, maximum, n) =
          LET millis == IF exact > MaxWord THEN MaxWord ELSE exact
          IN  IF millis <= maximum THEN millis ELSE maximum
    BY <2>1 DEF RetryDelay, Product
  <2> HIDE DEF exact
  <2>3. QED
    BY <1>1, <1>3, <2>2
<1>5. CASE ~(n - 1 < WordBits)
  <2>1. Multiplier(n) = MaxWord
    BY <1>2, <1>5 DEF Multiplier
  <2> DEFINE product == initial * MaxWord
  <2>2. product \in Nat /\ MaxWord <= product
    BY <1>1, ProductGrows
  <2>3. RetryDelay(initial, maximum, n) =
          LET millis == IF product > MaxWord THEN MaxWord ELSE product
          IN  IF millis <= maximum THEN millis ELSE maximum
    BY <2>1 DEF RetryDelay, Product
  <2>4. MaxWord < exact
    <3>1. PICK d \in Nat : n - 1 = WordBits + d
      <4>1. n - 1 = WordBits + ((n - 1) - WordBits) /\ (n - 1) - WordBits \in Nat
        BY <1>2, <1>5, WordBitsAssumption
      <4>2. QED
        BY <4>1
    <3>2. ShiftedOne[WordBits] <= power
      BY <3>1, ShiftedOneGrows, WordBitsAssumption
    <3>3. QED
      BY <1>1, <1>3, <3>2, MaxWordType
  <2> HIDE DEF exact, product
  <2>5. QED
    BY <1>1, <1>3, <2>2, <2>3, <2>4
<1>6. QED
  BY <1>4, <1>5

-----------------------------------------------------------------------------
(* What each stage knows of the settings. *)

\* Every setting is one of those there are, and none of the embedded ones lacks.
Loaded == IsSource(settings) /\ DOMAIN EMBEDDED_DEFAULTS \subseteq DOMAIN settings

\* validate() has accepted the settings.
Accepted == Loaded /\ Deserializes /\ Valid

AfterValidate ==
    {"build", "start", "running", "forwarding", "stopping", "panicked",
     "take", "maintain", "maintained"}

ConfigInv ==
    /\ IsSource(local) /\ IsSource(file) /\ IsSource(env)
    /\ stage \in {"load", "deserialize", "validate", "refused"} \cup AfterValidate
    /\ stage = "deserialize" => Loaded
    /\ stage = "validate" => Loaded /\ Deserializes
    /\ stage \in AfterValidate => Accepted
    /\ stage = "maintain" => DuckDB /\ DuckLake /\ settings.catalog_type # "duckdb" /\ Retention
    /\ stage # "refused" => refusedAt = "none"
    /\ RefusedEarly

LEMMA KeyNames ==
    Key = {"sink_type", "path", "table_name", "batch_size", "max_latency",
           "ducklake_enabled", "catalog_type", "catalog_path", "data_path",
           "expire_older_than", "memory_limit", "threads", "max_write_retries",
           "initial_delay", "max_delay", "shutdown_timeout", "unknown_key"}
BY DEF Key, Values

LEMMA DefaultNames ==
    DOMAIN EMBEDDED_DEFAULTS =
        {"sink_type", "path", "table_name", "batch_size", "max_latency",
         "ducklake_enabled", "catalog_type", "catalog_path", "data_path",
         "max_write_retries", "initial_delay", "max_delay", "shutdown_timeout"}
BY DEF EMBEDDED_DEFAULTS

LEMMA DefaultsTyped == IsSource(EMBEDDED_DEFAULTS)
<1> DEFINE Typed(k) == EMBEDDED_DEFAULTS[k] \in Values[k]
<1>1. /\ Typed("sink_type") /\ Typed("path") /\ Typed("table_name")
      /\ Typed("ducklake_enabled") /\ Typed("catalog_type") /\ Typed("catalog_path")
      /\ Typed("data_path")
  BY DEF EMBEDDED_DEFAULTS, Values
<1>2. Typed("batch_size") /\ Typed("max_write_retries")
  BY DEF EMBEDDED_DEFAULTS, Values, Sizes, Numbers
<1>3. Typed("max_latency") /\ Typed("shutdown_timeout")
  BY DEF EMBEDDED_DEFAULTS, Values, Seconds
<1>4. Typed("initial_delay") /\ Typed("max_delay")
  <2>1. EMBEDDED_DEFAULTS.initial_delay = 1 /\ EMBEDDED_DEFAULTS.max_delay = 10
    BY DEF EMBEDDED_DEFAULTS
  <2>2. 1 \in Word /\ 10 \in Word
    BY <2>1, ConfigurationAssumption, MaxWordType DEF Word
  <2>3. Values.initial_delay = {-1} \cup Word /\ Values.max_delay = {-1} \cup Word
    BY DEF Values
  <2>4. QED
    BY <2>1, <2>2, <2>3
<1> HIDE DEF Typed
<1>5. \A k \in DOMAIN EMBEDDED_DEFAULTS : Typed(k)
  BY <1>1, <1>2, <1>3, <1>4, DefaultNames
<1>6. DOMAIN EMBEDDED_DEFAULTS \subseteq Key
  BY KeyNames, DefaultNames
<1>7. QED
  BY <1>5, <1>6 DEF IsSource, Typed

LEMMA Overlaid ==
    ASSUME NEW f, NEW g, IsSource(f), IsSource(g)
    PROVE  IsSource(Over(f, g)) /\ DOMAIN g \subseteq DOMAIN Over(f, g)
BY DEF IsSource, Over

LEMMA LayeredLoaded ==
    ASSUME IsSource(local), IsSource(file), IsSource(env)
    PROVE  IsSource(Layered) /\ DOMAIN EMBEDDED_DEFAULTS \subseteq DOMAIN Layered
BY DefaultsTyped, Overlaid DEF Layered

-----------------------------------------------------------------------------
(* The invariant. *)

LEMMA InitConfig == ConfigInit => ConfigInv
<1> SUFFICES ASSUME ConfigInit PROVE ConfigInv
  OBVIOUS
<1>1. IsSource(local) /\ IsSource(file) /\ IsSource(env)
  BY ConfigurationAssumption DEF ConfigInit
<1>2. stage = "load" /\ refusedAt = "none"
  BY DEF ConfigInit
<1>3. QED
  BY <1>1, <1>2 DEF ConfigInv, RefusedEarly, AfterValidate

\* With settings that are validated only DuckDB can refuse the connection.
LEMMA AcceptedOpens == Accepted /\ DuckDB => Opens \/ LeftToDuckDB
<1>1. Values["memory_limit"] = {"200MB", "a lot", "too much"}
  BY DEF Values
<1>2. Accepted /\ Has("memory_limit") => settings["memory_limit"] \in Values["memory_limit"]
  BY DEF Accepted, Loaded, IsSource, Has
<1>3. QED
  BY <1>1, <1>2 DEF Accepted, Valid, DatabaseValid, LakeValid, Opens, LeftToDuckDB, Is, Has

LEMMA AcceptedRuns ==
    ASSUME Accepted
    PROVE  BatchSize > 0 /\ Latency > 0
<1>1. DuckDB => settings.batch_size > 0 /\ settings.max_latency > 0
  BY DEF Accepted, Valid, DatabaseValid
<1>2. QED
  BY <1>1 DEF BatchSize, Latency, Day

LEMMA SettingsTyped ==
    Accepted =>
        /\ settings.table_name \in {"name", "no name"}
        /\ settings.initial_delay \in Word \ {0}
        /\ settings.max_delay \in Word
        /\ settings.shutdown_timeout \in Seconds
        /\ settings.max_latency \in Seconds
        /\ settings.batch_size \in Sizes
<1> SUFFICES ASSUME Accepted
             PROVE  /\ settings.table_name \in {"name", "no name"}
                    /\ settings.initial_delay \in Word \ {0}
                    /\ settings.max_delay \in Word
                    /\ settings.shutdown_timeout \in Seconds
                    /\ settings.max_latency \in Seconds
                    /\ settings.batch_size \in Sizes
  OBVIOUS
<1>1. \A k \in DOMAIN EMBEDDED_DEFAULTS : k \in DOMAIN settings /\ settings[k] \in Values[k]
  BY DEF Accepted, Loaded, IsSource
<1>2. /\ settings["table_name"] \in Values["table_name"]
      /\ settings["initial_delay"] \in Values["initial_delay"]
      /\ settings["max_delay"] \in Values["max_delay"]
      /\ settings["shutdown_timeout"] \in Values["shutdown_timeout"]
      /\ settings["max_latency"] \in Values["max_latency"]
      /\ settings["batch_size"] \in Values["batch_size"]
  BY <1>1, DefaultNames
<1>3. /\ Values["table_name"] = {"name", "no name"}
      /\ Values["initial_delay"] = {-1} \cup Word
      /\ Values["max_delay"] = {-1} \cup Word
      /\ Values["shutdown_timeout"] = Seconds
      /\ Values["max_latency"] = Seconds
      /\ Values["batch_size"] = Sizes
  BY DEF Values
<1>4. settings.initial_delay > 0 /\ settings.max_delay >= settings.initial_delay
  BY DEF Accepted, Valid, PipelineValid
<1>5. \A a, b \in {-1} \cup Word : a > 0 /\ b >= a => a \in Word \ {0} /\ b \in Word
  BY MaxWordType DEF Word
<1>6. settings.initial_delay \in Word \ {0} /\ settings.max_delay \in Word
  BY <1>2, <1>3, <1>4, <1>5, Zenon
<1>7. QED
  BY <1>2, <1>3, <1>6, Zenon

\* A duration that takes the clock past its end, or a batch that memory cannot
\* hold, is the one above every limit.
LEMMA PanicsOnHuge ==
    ASSUME Accepted
    PROVE  /\ ~(Latency < Huge) => Latency = Huge
           /\ ~(settings.shutdown_timeout < Huge) => settings.shutdown_timeout = Huge
           /\ ~(BatchSize < Huge) => BatchSize = Huge
<1>1. Huge \in Nat /\ Huge > Day
  BY ConfigurationAssumption
<1>2. \A s \in Seconds \cup Sizes \cup {1, Day} : ~(s < Huge) => s = Huge
  BY <1>1 DEF Seconds, Sizes, Numbers, Day
<1>3. /\ settings.shutdown_timeout \in Seconds /\ settings.max_latency \in Seconds
      /\ settings.batch_size \in Sizes
  BY SettingsTyped, Zenon
<1>4. Latency \in Seconds \cup {Day} /\ BatchSize \in Sizes \cup {1}
  BY <1>3, Zenon DEF Latency, BatchSize
<1>5. QED
  BY <1>2, <1>3, <1>4, Zenon

\* Beyond Load no step changes the settings, nor what is said of them.
LEMMA SettingsKept ==
    ASSUME UNCHANGED settings
    PROVE  /\ Loaded' = Loaded /\ Deserializes' = Deserializes /\ Accepted' = Accepted
           /\ DuckDB' = DuckDB /\ DuckLake' = DuckLake /\ Retention' = Retention
           /\ Latency' = Latency /\ BatchSize' = BatchSize /\ LeftToDuckDB' = LeftToDuckDB
BY DEF Loaded, Deserializes, Accepted, Valid, PipelineValid, DatabaseValid, LakeValid,
       DuckDB, DuckLake, Retention, Latency, BatchSize, LeftToDuckDB, Has, Is, IsSource

LEMMA NextConfig == ConfigInv /\ [ConfigNext]_configVars => ConfigInv'
<1> SUFFICES ASSUME ConfigInv, [ConfigNext]_configVars PROVE ConfigInv'
  OBVIOUS
<1> USE DEF ConfigInv, RefusedEarly, AfterValidate, Goes, Refuses, Check, given
<1>1. CASE Load
  <2>1. settings' = Layered /\ stage' = "deserialize" /\ UNCHANGED <<refusedAt, given>>
    BY <1>1 DEF Load
  <2>2. Loaded'
    BY <2>1, LayeredLoaded DEF Loaded, IsSource
  <2>3. refusedAt = "none"
    BY <1>1 DEF Load
  <2>4. QED
    BY <2>1, <2>2, <2>3 DEF IsSource
<1>2. CASE UNCHANGED settings /\ [ConfigNext]_configVars
  <2> USE <1>2
  <2>1. /\ Loaded' = Loaded /\ Deserializes' = Deserializes /\ Accepted' = Accepted
        /\ DuckDB' = DuckDB /\ DuckLake' = DuckLake /\ Retention' = Retention
        /\ Latency' = Latency /\ BatchSize' = BatchSize /\ LeftToDuckDB' = LeftToDuckDB
    BY SettingsKept
  <2>2. CASE FileUnreadable
    BY <2>1, <2>2 DEF FileUnreadable, IsSource
  <2>3. CASE Deserialize
    BY <2>1, <2>3 DEF Deserialize, IsSource
  <2>4. CASE Validate
    BY <2>1, <2>4 DEF Validate, Accepted, IsSource
  <2>5. CASE Build
    <3>1. ~SinkValid /\ DuckDB => settings.table_name = "no name"
      <4>1. Accepted
        BY <2>5 DEF Build
      <4>2. QED
        BY <4>1, SettingsTyped DEF SinkValid, Accepted, Valid, DatabaseValid
    <3>2. QED
      BY <2>1, <2>5, <3>1 DEF Build, IsSource
  <2>6. CASE Start
    <3>1. Accepted
      BY <2>6 DEF Start
    <3>2. BatchSize > 0 /\ Latency > 0 /\ (DuckDB => Opens \/ LeftToDuckDB)
      BY <3>1, AcceptedRuns, AcceptedOpens
    <3>3. ~(BatchSize < Huge) => BatchSize = Huge
      BY <3>1, PanicsOnHuge
    <3>4. QED
      BY <2>1, <2>6, <3>1, <3>2, <3>3 DEF Start, IsSource
  <2>7. CASE FirstRecord
    <3>1. Accepted
      BY <2>7 DEF FirstRecord
    <3>2. ~(Latency < Huge) => Latency = Huge
      BY <3>1, PanicsOnHuge
    <3>3. QED
      BY <2>1, <2>7, <3>1, <3>2 DEF FirstRecord, Deadline, IsSource
  <2>8. CASE Shutdown
    <3>1. Accepted
      BY <2>8 DEF Shutdown
    <3>2. ~(settings.shutdown_timeout < Huge) => settings.shutdown_timeout = Huge
      BY <3>1, PanicsOnHuge
    <3>3. QED
      BY <2>1, <2>8, <3>1, <3>2 DEF Shutdown, Deadline, IsSource
  <2>9. CASE TakeSettings
    BY <2>1, <2>9 DEF TakeSettings, IsSource
  <2>10. CASE Maintain
    <3>1. Accepted /\ DuckDB /\ settings.catalog_type # "duckdb"
          /\ settings.expire_older_than # "blank"
      BY <2>10 DEF Maintain, Retention
    <3>2. Opens \/ LeftToDuckDB
      BY <3>1, AcceptedOpens
    <3>3. QED
      BY <2>1, <2>10, <3>1, <3>2 DEF Maintain, IsSource
  <2>11. CASE UNCHANGED configVars
    BY <2>1, <2>11 DEF configVars, IsSource
  <2>12. CASE Load
    BY <1>1, <2>12
  <2>13. QED
    BY <2>2, <2>3, <2>4, <2>5, <2>6, <2>7, <2>8, <2>9, <2>10, <2>11, <2>12
       DEF ConfigNext, Stopped
<1>3. UNCHANGED settings \/ Load
  BY DEF ConfigNext, Stopped, configVars, FileUnreadable, Deserialize, Validate, Build, Start,
         FirstRecord, Shutdown, Deadline, TakeSettings, Maintain
<1>4. QED
  BY <1>1, <1>2, <1>3

LEMMA ConfigAlways == ConfigSpec => []ConfigInv
BY InitConfig, NextConfig, PTL DEF ConfigSpec

-----------------------------------------------------------------------------
(* Theorems. *)

\* What validate() accepts is refused later only for a table name, a limit that DuckDB
\* refuses or a retention that is no interval, and stops a forwarder only by a batch
\* size, a latency or a timeout above every limit: for any settings of the three
\* sources, whichever of them override others.
THEOREM RefusesEarly == ConfigSpec => []RefusedEarly
<1>1. ConfigInv => RefusedEarly
  BY DEF ConfigInv
<1>2. QED
  BY <1>1, ConfigAlways, PTL

\* retry_delay is the capped exponential for every word width, every pair of
\* delays that validate() accepts and every retry number of the property.
THEOREM DelaysExactly == ConfigSpec => []DelayIsExact
<1>1. ConfigInv => DelayIsExact
  <2> SUFFICES ASSUME ConfigInv, stage = "running", NEW n \in 1 .. 2 * WordBits
               PROVE  LET exact == settings.initial_delay * ShiftedOne[n - 1]
                      IN  RetryDelay(settings.initial_delay, settings.max_delay, n)
                            = IF exact <= settings.max_delay THEN exact ELSE settings.max_delay
    BY DEF DelayIsExact
  <2>1. Accepted
    BY DEF ConfigInv, AfterValidate
  <2>2. settings.initial_delay \in Word \ {0} /\ settings.max_delay \in Word
    BY <2>1, SettingsTyped
  <2>3. n \in Nat \ {0}
    BY WordBitsAssumption
  <2>4. QED
    BY <2>2, <2>3, DelayExact
<1>2. QED
  BY <1>1, ConfigAlways, PTL
=============================================================================
