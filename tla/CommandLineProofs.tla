-------------------------- MODULE CommandLineProofs --------------------------
(***************************************************************************)
(* Theorems about the command line, for command lines of every length and  *)
(* arguments of every kind.                                                *)
(***************************************************************************)
EXTENDS Process, InductionLemmas

-----------------------------------------------------------------------------
(* Greatest elements *)

\* A set of positions that is not empty has a greatest one.
LEMMA MaxOf ==
    ASSUME NEW len \in Nat, NEW S \in SUBSET (1..len), S # {}
    PROVE  Max(S) \in S
<1> DEFINE Above == {n \in Nat : \A i \in S : i <= n}
<1>1. len \in Above
  OBVIOUS
<1>2. PICK m \in Above : \A k \in Above : m <= k
  BY <1>1, LeastNatural
<1>3. m \in S
  <2> SUFFICES ASSUME m \notin S PROVE FALSE
    OBVIOUS
  <2>1. m \in Nat /\ \A i \in S : i \in Nat /\ i <= m /\ i # m /\ i >= 1
    BY <1>2
  <2>2. m - 1 \in Nat /\ \A i \in S : i <= m - 1
    <3>1. \A i \in S : i <= m - 1
      BY <2>1
    <3>2. PICK i \in S : TRUE
      OBVIOUS
    <3>3. i \in Nat /\ i <= m /\ i # m
      BY <2>1
    <3>4. m - 1 \in Nat
      BY <2>1, <3>3
    <3>5. QED
      BY <3>1, <3>4
  <2>3. m - 1 \in Above
    BY <2>2
  <2>4. m <= m - 1
    BY <1>2, <2>3
  <2>5. QED
    BY <2>1, <2>4
<1>4. \A i \in S : m >= i
  BY <1>2
<1>5. QED
  BY <1>3, <1>4 DEF Max

-----------------------------------------------------------------------------
(* Which arguments are read as options *)

\* The loop comes to the first argument, to the one after an argument that is
\* no option with a stored argument, and to the second after one that is.
LEMMA VisitedPositions ==
    ASSUME NEW args \in Seq(Seq(STRING))
    PROVE  /\ Visited(args) \subseteq 1..Len(args)
           /\ \A i \in 1..Len(args) :
                 i \in Visited(args) <=>
                    \/ i = 1
                    \/ i > 1 /\ i - 1 \in Visited(args) /\ ~ Skips(args[i - 1])
                    \/ i > 2 /\ i - 2 \in Visited(args) /\ Skips(args[i - 2])
<1> DEFINE len == Len(args)
           From(f, i) == IF i = 0 THEN FALSE
                         ELSE i = 1 \/ (f[i - 1] /\ ~ Skips(args[i - 1]))
                                    \/ (i > 2 /\ f[i - 2] /\ Skips(args[i - 2]))
           IsAt(m, f) == f = [i \in 0..m |-> From(f, i)]
           S == {m \in Nat : \E f : IsAt(m, f)}
<1>0. len \in Nat /\ DOMAIN args = 1..len
  OBVIOUS
<1>1. 0 \in S
  <2>1. IsAt(0, [i \in 0..0 |-> FALSE])
    OBVIOUS
  <2>2. QED
    BY <2>1
<1>2. ASSUME NEW m \in Nat, m \in S PROVE m + 1 \in S
  <2>1. PICK f : IsAt(m, f)
    BY <1>2
  <2> DEFINE g == [i \in 0..(m + 1) |-> From(f, i)]
  <2>2. \A i \in 0..m : g[i] = f[i]
    <3> HIDE DEF From
    <3>1. QED
      BY <2>1
  <2>3. \A i \in 0..(m + 1) : From(g, i) = From(f, i)
    <3> SUFFICES ASSUME NEW i \in 0..(m + 1), i # 0 PROVE From(g, i) = From(f, i)
      OBVIOUS
    <3>0. i - 1 \in 0..m /\ (i > 2 => i - 2 \in 0..m)
      OBVIOUS
    <3>1. g[i - 1] = f[i - 1]
      BY <2>2, <3>0
    <3>2. CASE i > 2
      <4>1. g[i - 2] = f[i - 2]
        BY <2>2, <3>0, <3>2
      <4> HIDE DEF g
      <4>2. QED
        BY <3>1, <4>1
    <3> HIDE DEF g
    <3>3. QED
      BY <3>1, <3>2
  <2>4. IsAt(m + 1, g)
    <3> DEFINE h == g
    <3>1. h = [i \in 0..(m + 1) |-> From(f, i)]
      OBVIOUS
    <3>2. \A i \in 0..(m + 1) : From(h, i) = From(f, i)
      BY <2>3
    <3> HIDE DEF h, From
    <3>3. h = [i \in 0..(m + 1) |-> From(h, i)]
      BY <3>1, <3>2
    <3> USE DEF h
    <3>4. QED
      BY <3>3
  <2> HIDE DEF g, IsAt
  <2>5. \E h : IsAt(m + 1, h)
    BY <2>4
  <2>6. QED
    BY <2>5
<1> HIDE DEF S
<1>3. len \in S
  BY <1>0, <1>1, <1>2, EveryNatural
<1> DEFINE at == CHOOSE f : IsAt(len, f)
<1>4. IsAt(len, at)
  BY <1>3 DEF S
<1>5. Visited(args) = {i \in DOMAIN args : at[i]}
  BY DEF Visited
<1> HIDE DEF at
<1>6. \A i \in 1..len : i \in Visited(args) <=> at[i]
  BY <1>0, <1>5
<1>7. Visited(args) \subseteq 1..len
  BY <1>0, <1>5
<1>8. ASSUME NEW i \in 1..len
      PROVE  i \in Visited(args) <=>
                    \/ i = 1
                    \/ i > 1 /\ i - 1 \in Visited(args) /\ ~ Skips(args[i - 1])
                    \/ i > 2 /\ i - 2 \in Visited(args) /\ Skips(args[i - 2])
  <2>1. i \in 0..len /\ i # 0
    BY <1>0
  <2>2. at[i] = From(at, i)
    <3> HIDE DEF From
    <3>1. QED
      BY <1>4, <2>1
  <2>3. i > 1 => (i - 1 \in Visited(args) <=> at[i - 1])
    <3>1. i > 1 => i - 1 \in 1..len
      BY <1>0
    <3>2. QED
      BY <1>6, <3>1
  <2>4. i > 2 => (i - 2 \in Visited(args) <=> at[i - 2])
    <3>1. i > 2 => i - 2 \in 1..len
      BY <1>0
    <3>2. QED
      BY <1>6, <3>1
  <2>5. i = 1 \/ i > 1
    BY <1>0
  <2> HIDE DEF IsAt
  <2>6. i \in Visited(args) <=> From(at, i)
    BY <1>6, <2>2
  <2>7. QED
    BY <2>1, <2>3, <2>4, <2>5, <2>6
<1>9. QED
  BY <1>7, <1>8

\* An argument is an option of one letter only.
LEMMA OneLetter ==
    ASSUME NEW arg, NEW a, NEW b, IsOption(arg, a), IsOption(arg, b)
    PROVE  a = b
BY DEF IsOption

\* In a command line as the help text has it the loop comes to every odd
\* position, and what it finds at an even one is no option.
LEMMA OddAreVisited ==
    ASSUME NEW args \in Seq(Seq(STRING)), WellFormed(args)
    PROVE  /\ \A i \in 1..Len(args) : i % 2 = 1 => i \in Visited(args)
           /\ \A i \in Visited(args) : i % 2 = 0 => \A letter : ~ IsOption(args[i], letter)
<1> DEFINE len == Len(args)
           V == Visited(args)
<1>0. /\ len \in Nat
      /\ DOMAIN args = 1..len
      /\ len % 2 = 0
      /\ V \subseteq 1..len
  BY VisitedPositions DEF WellFormed
<1>1. \A i \in 1..len : i \in V <=>
            \/ i = 1
            \/ i > 1 /\ i - 1 \in V /\ ~ Skips(args[i - 1])
            \/ i > 2 /\ i - 2 \in V /\ Skips(args[i - 2])
  BY VisitedPositions
\* After an option that does not skip its argument comes no option.
<1>2. ASSUME NEW i \in 1..len, i % 2 = 1, ~ Skips(args[i])
      PROVE  i + 1 \in 1..len /\ \A letter : ~ IsOption(args[i + 1], letter)
  <2>1. i + 1 \in 1..len
    <3>1. i % 2 = 1 /\ len % 2 = 0 /\ len \in Nat
      BY <1>0, <1>2
    <3> HIDE DEF len
    <3>2. i # len
      BY <3>1
    <3>3. QED
      BY <3>1, <3>2
  <2>2. PICK letter \in Letters : IsOption(args[i], letter)
    BY <1>0, <1>2 DEF WellFormed
  <2>3. letter = "l"
    BY <1>2, <2>2 DEF Letters, Skips
  <2>4. args[i + 1] # <<>> /\ args[i + 1][1] # "-"
    BY <1>0, <1>2, <2>2, <2>3 DEF WellFormed
  <2>5. QED
    BY <2>1, <2>4 DEF IsOption
<1> HIDE DEF V, len
<1> DEFINE Odd == {n \in Nat : 2 * n + 1 <= len => 2 * n + 1 \in V}
           Even == {n \in Nat : 2 * n \in V => \A letter : ~ IsOption(args[2 * n], letter)}
<1>3. 0 \in Even
  BY <1>0
<1>4. ASSUME NEW n \in Nat, n \in Even PROVE n + 1 \in Even
  <2> DEFINE i == 2 * (n + 1)
  <2> SUFFICES ASSUME i \in V PROVE \A letter : ~ IsOption(args[i], letter)
    OBVIOUS
  <2>1. /\ i \in 1..len
        /\ i # 1
        /\ i - 1 \in 1..len /\ (i - 1) % 2 = 1 /\ (i - 1) + 1 = i
        /\ i - 2 = 2 * n
    BY <1>0
  <2>2. (i - 1 \in V /\ ~ Skips(args[i - 1])) \/ (i - 2 \in V /\ Skips(args[i - 2]))
    BY <1>1, <2>1
  <2>3. ~ (i - 2 \in V /\ Skips(args[i - 2]))
    BY <1>4, <2>1 DEF Skips
  <2> HIDE DEF i
  <2>4. QED
    BY <1>2, <2>1, <2>2, <2>3
<1> HIDE DEF Even
<1>5. Nat \subseteq Even
  BY <1>3, <1>4, EveryNatural
<1>6. ASSUME NEW i \in V, i % 2 = 0 PROVE \A letter : ~ IsOption(args[i], letter)
  <2>1. PICK n \in Nat : i = 2 * n
    <3>1. i \in Nat /\ i = 2 * (i \div 2) /\ i \div 2 \in Nat
      BY <1>0, <1>6
    <3>2. QED
      BY <3>1
  <2>2. n \in Even
    BY <1>5
  <2>3. QED
    BY <1>6, <2>1, <2>2 DEF Even
<1>7. 0 \in Odd
  BY <1>0, <1>1
<1>8. ASSUME NEW n \in Nat, n \in Odd PROVE n + 1 \in Odd
  <2> DEFINE i == 2 * n + 1
  <2> SUFFICES ASSUME i + 2 <= len PROVE i + 2 \in V
    <3>1. 2 * (n + 1) + 1 = i + 2
      OBVIOUS
    <3>2. QED
      BY <3>1
  <2>1. /\ i \in 1..len /\ i + 1 \in 1..len /\ i + 2 \in 1..len
        /\ i % 2 = 1 /\ (i + 1) % 2 = 0
        /\ (i + 1) - 1 = i /\ (i + 2) - 1 = i + 1 /\ (i + 2) - 2 = i
        /\ i + 1 > 1 /\ i + 2 > 2 /\ i + 2 > 1
    BY <1>0
  <2>2. i \in V
    BY <1>8, <2>1
  <2> HIDE DEF i
  <2>3. CASE Skips(args[i])
    BY <1>1, <2>1, <2>2, <2>3
  <2>4. CASE ~ Skips(args[i])
    <3>1. i + 1 \in V
      BY <1>1, <2>1, <2>2, <2>4
    <3>2. ~ Skips(args[i + 1])
      BY <1>2, <2>1, <2>4 DEF Skips
    <3>3. QED
      BY <1>1, <2>1, <3>1, <3>2
  <2>5. QED
    BY <2>3, <2>4
<1> HIDE DEF Odd
<1>9. Nat \subseteq Odd
  BY <1>7, <1>8, EveryNatural
<1>10. ASSUME NEW i \in 1..len, i % 2 = 1 PROVE i \in V
  <2>1. PICK n \in Nat : i = 2 * n + 1
    <3>1. i \in Nat /\ i = 2 * (i \div 2) + 1 /\ i \div 2 \in Nat
      BY <1>0, <1>10
    <3>2. QED
      BY <3>1
  <2>2. n \in Odd
    BY <1>9
  <2>3. 2 * n + 1 <= len
    BY <1>0, <2>1
  <2>4. QED
    BY <2>1, <2>2, <2>3 DEF Odd
<1>11. QED
  BY <1>6, <1>10 DEF V, len

\* So the options are what the help text calls options, and none stops the loop.
LEMMA OptionsAreSettings ==
    ASSUME NEW args \in Seq(Seq(STRING)), WellFormed(args)
    PROVE  /\ \A letter : Options(args, letter) = Settings(args, letter)
           /\ Stops(args) = {}
<1>0. Len(args) \in Nat /\ DOMAIN args = 1..Len(args) /\ Visited(args) \subseteq 1..Len(args)
  BY VisitedPositions
<1>1. ASSUME NEW letter PROVE Options(args, letter) = Settings(args, letter)
  <2>1. \A i : i \in Options(args, letter) => i \in Settings(args, letter)
    <3>1. \A i \in 1..Len(args) : i % 2 = 1 \/ i % 2 = 0
      BY <1>0
    <3>2. QED
      BY <1>0, <3>1, OddAreVisited DEF Options, Settings
  <2>2. \A i : i \in Settings(args, letter) => i \in Options(args, letter)
    BY <1>0, OddAreVisited DEF Options, Settings
  <2>3. QED
    BY <2>1, <2>2
<1>2. Settings(args, "h") = {}
  <2> SUFFICES ASSUME NEW i \in Settings(args, "h") PROVE FALSE
    OBVIOUS
  <2>1. i \in DOMAIN args /\ i % 2 = 1 /\ IsOption(args[i], "h")
    BY DEF Settings
  <2>2. PICK letter \in Letters : IsOption(args[i], letter)
    BY <2>1 DEF WellFormed
  <2>3. letter = "h"
    BY <2>1, <2>2, OneLetter
  <2>4. QED
    BY <2>2, <2>3 DEF Letters, Stored, Letter
<1>3. \A i \in Settings(args, "l") : i # Len(args)
  BY DEF Settings, WellFormed
<1>4. QED
  BY <1>1, <1>2, <1>3 DEF Stops

-----------------------------------------------------------------------------
(* What is read *)

\* The last argument given to an option is what is stored for it.
LEMMA ValueIsAsSaid ==
    ASSUME NEW args \in Seq(Seq(STRING)), WellFormed(args), NEW field \in DOMAIN Letter
    PROVE  Value(args, field) = LastSetting(args, Letter[field], Default[field])
<1> DEFINE given == Settings(args, Letter[field])
<1>1. Options(args, Letter[field]) = given
  BY OptionsAreSettings
<1>2. given \in SUBSET (1..Len(args)) /\ Len(args) \in Nat /\ Len(args) \notin given
  BY DEF Settings, WellFormed
<1>3. CASE given = {}
  BY <1>1, <1>3 DEF Value, LastSetting
<1>4. CASE given # {}
  <2> HIDE DEF given
  <2>1. Max(given) \in given
    BY <1>2, <1>4, MaxOf
  <2>2. ArgumentAt(args, Max(given)) = args[Max(given) + 1]
    <3> DEFINE last == Max(given)
    <3>1. last \in 1..Len(args) /\ last # Len(args)
      BY <1>2, <2>1
    <3> HIDE DEF last
    <3>2. last < Len(args)
      BY <1>2, <3>1
    <3>3. ArgumentAt(args, last) = args[last + 1]
      BY <3>2 DEF ArgumentAt
    <3>4. QED
      BY <3>3 DEF last
  <2>3. Value(args, field) = args[Max(given) + 1]
    BY <1>1, <1>4, <2>2 DEF Value
  <2>4. LastSetting(args, Letter[field], Default[field]) = args[Max(given) + 1]
    BY <1>4 DEF LastSetting, given
  <2>5. QED
    BY <2>3, <2>4
<1>5. QED
  BY <1>3, <1>4

\* The level is that of the last -l whose argument begins with a level.
LEMMA LevelIsAsSaid ==
    ASSUME NEW args \in Seq(Seq(STRING)), WellFormed(args)
    PROVE  LET levels == {i \in Settings(args, "l") : IsLevel(args[i + 1])} IN
           LoggingLevel(args) =
              IF levels = {} THEN Default.logging_level ELSE LevelOf(args[Max(levels) + 1])
<1> DEFINE levels == {i \in Settings(args, "l") : IsLevel(args[i + 1])}
           given == {i \in Options(args, "l") : IsLevel(ArgumentAt(args, i))}
<1>1. /\ Settings(args, "l") \subseteq 1..Len(args)
      /\ Len(args) \in Nat
      /\ Len(args) \notin Settings(args, "l")
  BY DEF Settings, WellFormed
<1>2. \A i \in Settings(args, "l") : ArgumentAt(args, i) = args[i + 1]
  BY <1>1 DEF ArgumentAt
<1>3. given = levels
  BY <1>2, OptionsAreSettings
<1>4. levels # {} => Max(levels) \in Settings(args, "l")
  <2>1. levels \in SUBSET (1..Len(args))
    BY <1>1
  <2>2. levels # {} => Max(levels) \in levels
    <3> HIDE DEF levels
    <3>1. QED
      BY <1>1, <2>1, MaxOf
  <2>3. QED
    BY <2>2
<1>5. LoggingLevel(args) =
         IF given = {} THEN Default.logging_level ELSE LevelOf(ArgumentAt(args, Max(given)))
  BY DEF LoggingLevel
<1> HIDE DEF given, levels
<1>6. LoggingLevel(args) =
         IF levels = {} THEN Default.logging_level ELSE LevelOf(args[Max(levels) + 1])
  BY <1>2, <1>3, <1>4, <1>5
<1>7. QED
  BY <1>6 DEF levels

\* config_init reads a command line as the help text has it the way the help
\* text says: nothing stops it, and every option has its last argument.
THEOREM ReadsAsSaid ==
    ASSUME NEW args \in Seq(Seq(STRING)), WellFormed(args)
    PROVE  IsAsSaid(args, config_init(args))
<1> DEFINE c == config_init(args)
<1>1. c = [outcome |-> "run",
           upstream_name |-> Value(args, "upstream_name"),
           ipv4_config_file |-> Value(args, "ipv4_config_file"),
           ipv6_config_file |-> Value(args, "ipv6_config_file"),
           cname_config_file |-> Value(args, "cname_config_file"),
           logging_level |-> LoggingLevel(args)]
  BY OptionsAreSettings DEF config_init
<1>2. DOMAIN Letter =
         {"upstream_name", "ipv4_config_file", "ipv6_config_file", "cname_config_file"}
  BY DEF Letter
<1> HIDE DEF c
<1>3. \A field \in DOMAIN Letter : c[field] = Value(args, field)
  BY <1>1, <1>2
<1>4. \A field \in DOMAIN Letter :
         c[field] = LastSetting(args, Letter[field], Default[field])
  BY <1>3, ValueIsAsSaid
<1>5. c.outcome = "run" /\ c.logging_level = LoggingLevel(args)
  BY <1>1
<1>6. IsAsSaid(args, c)
  BY <1>4, <1>5, LevelIsAsSaid DEF IsAsSaid
<1>7. QED
  BY <1>6 DEF c

-----------------------------------------------------------------------------
(* The configuration of the program *)

\* The command line is kept until it is read, and then the configuration is
\* what config_init makes of it, until the sockets have used it.
ConfigRead ==
    /\ stage = "config_init" => argv \in ArgVectors
    /\ stage = "socket_init" => argv \in ArgVectors /\ config = config_init(argv)

\* The configuration is that of the command line in every initial state, and
\* after every step from a state where it is.
LEMMA ConfigStep ==
    /\ Init => ConfigRead
    /\ ConfigRead /\ [Next]_vars => ConfigRead'
<1>1. Init => ConfigRead
  BY DEF Init, ConfigRead
<1>2. ASSUME ConfigRead, [Next]_vars PROVE ConfigRead'
  <2>1. CASE ReadCommandLine
    BY <1>2, <2>1 DEF ReadCommandLine, ConfigRead
  <2>2. CASE socket_init
    BY <2>2 DEF socket_init, ConfigRead
  <2>3. CASE StartHandles
    BY <2>3 DEF StartHandles, ConfigRead
  <2>4. CASE UNCHANGED <<argv, config, stage>>
    BY <1>2, <2>4 DEF ConfigRead
  <2>5. uv_run \/ Killed \/ Exited \/ UNCHANGED vars => UNCHANGED <<argv, config, stage>>
    BY DEF uv_run, Killed, Exited, vars
  <2>6. QED
    BY <1>2, <2>1, <2>2, <2>3, <2>4, <2>5 DEF Next, Main
<1>3. QED
  BY <1>1, <1>2

\* Whatever command line the program is started with, if it is one that the
\* help text allows then the configuration it opens its sockets with is the
\* one that the help text says.
THEOREM ConfigAlwaysAsSaid == Spec => []ConfigIsAsSaid
<1>1. ConfigRead => ConfigIsAsSaid
  BY ProcessAssumption, ReadsAsSaid DEF ConfigRead, ConfigIsAsSaid
<1>2. QED
  BY <1>1, ConfigStep, PTL DEF Spec
=============================================================================
