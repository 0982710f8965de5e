----------------------------- MODULE CommandLine -----------------------------
(***************************************************************************)
(* config_init (config.c): which arguments are read as options, and what   *)
(* comes out. An argument is a sequence of characters; argv is counted from*)
(* 1 and leaves out the name of the program.                               *)
(***************************************************************************)
EXTENDS Integers, Sequences, FiniteSetsExt

NULL == "NULL"

Default ==
    [upstream_name |-> "10.3.9.44", ipv4_config_file |-> NULL, ipv6_config_file |-> NULL,
     cname_config_file |-> NULL, logging_level |-> 1]

\* The letter of each option that stores its argument, and where.
Letter ==
    [upstream_name |-> "s", ipv4_config_file |-> "4", ipv6_config_file |-> "6",
     cname_config_file |-> "c"]

Stored == {Letter[field] : field \in DOMAIN Letter}

IsOption(arg, letter) == Len(arg) >= 2 /\ arg[1] = "-" /\ arg[2] = letter

\* Mutant: the argument of -6 is read as an option too.
Skips_but6(arg) == \E letter \in Stored \ {"6"} : IsOption(arg, letter)

\* The argument of such an option is not read as an option; that of -l is.
Skips(arg) == \E letter \in Stored : IsOption(arg, letter)

\* The positions that the loop comes to.
Visited(argv) ==
    LET at[i \in 0..Len(argv)] ==
            IF i = 0 THEN FALSE
            ELSE i = 1 \/ (at[i - 1] /\ ~ Skips(argv[i - 1]))
                       \/ (i > 2 /\ at[i - 2] /\ Skips(argv[i - 2]))
    IN  {i \in DOMAIN argv : at[i]}

Options(argv, letter) == {i \in Visited(argv) : IsOption(argv[i], letter)}

ArgumentAt(argv, i) == IF i < Len(argv) THEN argv[i + 1] ELSE NULL

LevelOf(arg) ==
    CASE arg[1] = "0" -> 0 [] arg[1] = "1" -> 1 [] arg[1] = "2" -> 2 [] arg[1] = "3" -> 3

\* Other characters are a number above 3 to the unsigned comparison.
IsLevel(arg) == arg # <<>> /\ arg[1] \in {"0", "1", "2", "3"}

\* Where -h ends the program, or -l reads the argument after the last.
Stops(argv) ==
    Options(argv, "h") \cup {i \in Options(argv, "l") : i = Len(argv)}

Value(argv, field) ==
    LET given == Options(argv, Letter[field]) IN
    IF given = {} THEN Default[field] ELSE ArgumentAt(argv, Max(given))

LoggingLevel(argv) ==
    LET given == {i \in Options(argv, "l") : IsLevel(ArgumentAt(argv, i))} IN
    IF given = {} THEN Default.logging_level ELSE LevelOf(ArgumentAt(argv, Max(given)))

config_init(argv) ==
    IF Stops(argv) # {}
    THEN [outcome |-> IF IsOption(argv[Min(Stops(argv))], "h") THEN "help" ELSE "undefined"]
    ELSE [outcome |-> "run",
          upstream_name |-> Value(argv, "upstream_name"),
          ipv4_config_file |-> Value(argv, "ipv4_config_file"),
          ipv6_config_file |-> Value(argv, "ipv6_config_file"),
          cname_config_file |-> Value(argv, "cname_config_file"),
          logging_level |-> LoggingLevel(argv)]

-----------------------------------------------------------------------------
(* What the help text says: options, each followed by its argument *)

Letters == Stored \cup {"l"}

\* That of -l must not look like an option.
WellFormed(argv) ==
    /\ Len(argv) % 2 = 0
    /\ \A i \in DOMAIN argv : i % 2 = 1 =>
          /\ \E letter \in Letters : IsOption(argv[i], letter)
          /\ IsOption(argv[i], "l") => argv[i + 1] # <<>> /\ argv[i + 1][1] # "-"

Settings(argv, letter) == {i \in DOMAIN argv : i % 2 = 1 /\ IsOption(argv[i], letter)}

LastSetting(argv, letter, default) ==
    IF Settings(argv, letter) = {} THEN default ELSE argv[Max(Settings(argv, letter)) + 1]

IsAsSaid(argv, config) ==
    LET levels == {i \in Settings(argv, "l") : IsLevel(argv[i + 1])} IN
    /\ config.outcome = "run"
    /\ \A field \in DOMAIN Letter :
          config[field] = LastSetting(argv, Letter[field], Default[field])
    /\ config.logging_level =
          IF levels = {} THEN Default.logging_level ELSE LevelOf(argv[Max(levels) + 1])
=============================================================================
