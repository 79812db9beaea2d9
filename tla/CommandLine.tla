---------------------------- MODULE CommandLine ----------------------------
(***************************************************************************)
(* The command lines of the server (ConfigParser), of the load generator   *)
(* and of the profiler.  The three parsers share one shape: an option is   *)
(* a request for help, a flag, or takes the next argument as its value,    *)
(* whatever that looks like; the settings are validated together at the    *)
(* end.  They differ in what they accept, and when.                        *)
(*                                                                         *)
(* An argument is its text; Number tells what std::from_chars reads in it. *)
(***************************************************************************)
EXTENDS StoreConfig, Sequences

CONSTANTS Arguments,     \* the texts that occur on each program's command line
          Number,        \* the number a text is the decimal form of, or NaN
          SizeMax,       \* largest std::size_t
          MaxArgs        \* bound: arguments of a command line

NaN == -1

ASSUME CommandLineAssumption ==
  /\ SizeMax \in Nat /\ MaxArgs \in Nat
  /\ \A p \in DOMAIN Arguments : \A t \in Arguments[p] : Number[t] \in Nat \cup {NaN}

VARIABLES program,       \* whose command line it is
          argv,          \* the arguments after the program's name
          index,         \* the argument parsed next
          config,        \* the settings so far
          status         \* "parsing", "success", "help" or "error"

parserVars == <<program, argv, index, config, status>>
Programs == DOMAIN Arguments
Texts == UNION {Arguments[p] : p \in Programs}

(* parseUnsigned(), parseNumber(): a whole text that is a number in range. *)
Numbers(low, high) == {t \in Texts : low <= Number[t] /\ Number[t] <= high}

(* The values of a flag.                                                   *)
Off == FALSE
On == TRUE

-----------------------------------------------------------------------------
(* What each parser accepts: numbers, as numbers, and texts, as they are.  *)
ServerSyntax ==
  [help |-> {"--help", "-h"}, flags |-> {"--quiet"},
   numbers |-> [o \in {"--port", "--segment-bytes", "--sync-bytes"} |->
                  IF o = "--port" THEN Numbers(1, 65535) ELSE Numbers(0, SizeMax)],
   texts |-> [o \in {"--data-file"} |-> Texts \ {""}],
   default |-> [o \in {"--port", "--data-file", "--segment-bytes", "--sync-bytes", "--quiet"} |->
                  CASE o = "--port" -> 9000 [] o = "--data-file" -> "telemetry.bin"
                    [] o = "--segment-bytes" -> 67108864 [] o = "--sync-bytes" -> 1048576
                    [] o = "--quiet" -> Off]]
LoadSyntax ==
  [help |-> {"--help"}, flags |-> {},
   numbers |-> [o \in {"--frames", "--batch-frames", "--port"} |->
                  IF o = "--port" THEN Numbers(0, 65535) ELSE Numbers(0, SizeMax)],
   texts |-> <<>>,
   default |-> [o \in {"--frames", "--batch-frames", "--port"} |->
                  CASE o = "--frames" -> 100000 [] o = "--batch-frames" -> 128
                    [] o = "--port" -> 19000]]
ProfilerFlags == {"--check", "--self-test", "--self-check-workload"}
ProfilerNumbers ==
  [o \in {"--frames", "--batch", "--repeat", "--port", "--timeout"} |->
     CASE o = "--frames" -> Numbers(1, 1000000) [] o = "--batch" -> Numbers(1, 4096)
       [] o = "--repeat" -> Numbers(1, 20) [] o = "--port" -> Numbers(1, 65535)
       [] o = "--timeout" -> Numbers(1, 3600)]
ProfilerTexts ==
  [o \in {"--mode", "--output", "--perf", "--python"} |->
     IF o = "--mode" THEN {"record", "stat", "both"} ELSE Texts]
ProfilerText(o) ==
  CASE o = "--mode" -> "record" [] o = "--output" -> "build-perf/cpu-profile"
    [] o = "--perf" -> "perf" [] o = "--python" -> "python3"
ProfilerDefault ==
  [o \in DOMAIN ProfilerNumbers \cup DOMAIN ProfilerTexts \cup ProfilerFlags |->
     CASE o = "--frames" -> 1000000 [] o = "--batch" -> 128 [] o = "--port" -> 19000
       [] o = "--repeat" -> 20 [] o = "--timeout" -> 300
       [] o \in DOMAIN ProfilerTexts -> ProfilerText(o) [] o \in ProfilerFlags -> Off]
ProfilerSyntax ==
  [help |-> {"--help", "-h"}, flags |-> ProfilerFlags, numbers |-> ProfilerNumbers,
   texts |-> ProfilerTexts, default |-> ProfilerDefault]

Syntax ==
  CASE program = "server" -> ServerSyntax [] program = "load" -> LoadSyntax
    [] program = "profiler" -> ProfilerSyntax

(* Faulty Validate: the sync interval is compared with the default size.   *)
ValidateDefault(c) ==
  /\ c["--port"] # 0 /\ c["--data-file"] # ""
  /\ c["--segment-bytes"] >= FrameUnits /\ c["--segment-bytes"] % FrameUnits = 0
  /\ c["--sync-bytes"] <= ServerSyntax.default["--segment-bytes"]

(* validate(), and the ranges the load generator checks at the end.        *)
Validate(c) ==
  /\ c["--port"] # 0 /\ c["--data-file"] # ""
  /\ c["--segment-bytes"] >= FrameUnits /\ c["--segment-bytes"] % FrameUnits = 0
  /\ c["--sync-bytes"] # 0 => c["--sync-bytes"] <= c["--segment-bytes"]
LoadValidate(frames, batch, port) ==
  /\ 1 <= frames /\ frames <= 1000000
  /\ 1 <= batch /\ batch <= 4096
  /\ 1 <= port
Valid(p, c) ==
  CASE p = "server" -> Validate(c)
    [] p = "load" -> LoadValidate(c["--frames"], c["--batch-frames"], c["--port"])
    [] p = "profiler" -> TRUE

-----------------------------------------------------------------------------
Init ==
  /\ program \in Programs
  /\ argv \in UNION {[1..n -> Arguments[program]] : n \in 0..MaxArgs}
  /\ index = 1
  /\ config = Syntax.default
  /\ status = "parsing"

Set(option, value) == config' = [config EXCEPT ![option] = value]

(* The options that take a value, the values they accept, and what is kept *)
(* of one.                                                                 *)
TakesValue(option) ==
  /\ option \notin Syntax.help \cup Syntax.flags
  /\ option \in DOMAIN Syntax.numbers \cup DOMAIN Syntax.texts
Accepted(option) ==
  IF option \in DOMAIN Syntax.numbers THEN Syntax.numbers[option] ELSE Syntax.texts[option]
Kept(option, text) == IF option \in DOMAIN Syntax.numbers THEN Number[text] ELSE text

(* Faulty ConsumeValue: the value is looked at, not consumed.              *)
ConsumeValueNot == index' = index + 1

(* nextValue(): the argument after the option is its value.                *)
ConsumeValue == index' = index + 2

(* One turn of the parser's loop.                                          *)
ParseArgument ==
  /\ status = "parsing" /\ index <= Len(argv)
  /\ LET a == argv[index] IN
     \/ /\ a \in Syntax.help
        /\ status' = "help" /\ UNCHANGED <<index, config>>
     \/ /\ a \in Syntax.flags \ Syntax.help
        /\ Set(a, On) /\ index' = index + 1 /\ UNCHANGED status
     \/ /\ a \notin Syntax.help \cup Syntax.flags
        /\ IF TakesValue(a) /\ index < Len(argv) /\ argv[index + 1] \in Accepted(a)
             THEN /\ Set(a, Kept(a, argv[index + 1]))
                  /\ ConsumeValue /\ UNCHANGED status
             ELSE status' = "error" /\ UNCHANGED <<index, config>>
  /\ UNCHANGED <<program, argv>>

(* The loop is over: the settings are validated together.                  *)
FinishParsing ==
  /\ status = "parsing" /\ index > Len(argv)
  /\ status' = IF Valid(program, config) THEN "success" ELSE "error"
  /\ UNCHANGED <<program, argv, index, config>>

Parsed == status # "parsing" /\ UNCHANGED parserVars
Next == ParseArgument \/ FinishParsing \/ Parsed
Spec == Init /\ [][Next]_parserVars

-----------------------------------------------------------------------------
(* The positions of options among the first n arguments: all that are not  *)
(* the value of the option before.                                         *)
OptionsAre(options, n) ==
  \A i \in 1..n : i \in options <=> ~(i - 1 \in options /\ TakesValue(argv[i - 1]))

Refused(i) ==
  /\ argv[i] \notin Syntax.help \cup Syntax.flags
  /\ ~(TakesValue(argv[i]) /\ i < Len(argv) /\ argv[i + 1] \in Accepted(argv[i]))
Stops(i) == argv[i] \in Syntax.help \/ Refused(i)

(* What the option at position i sets.                                     *)
Given(i) == IF argv[i] \in Syntax.flags THEN On ELSE Kept(argv[i], argv[i + 1])

(* The value of the option's last occurrence, or its default.              *)
LastGiven(options, o, value) ==
  \/ (\A i \in options : argv[i] # o) /\ value = Syntax.default[o]
  \/ \E i \in options :
       /\ argv[i] = o /\ \A j \in options : argv[j] = o => j <= i
       /\ value = Given(i)

(* Help and errors end the parsing where the first of them stands.  Else   *)
(* the order of the options does not matter but for the last occurrence of *)
(* each, and the settings are validated together.                          *)
ParsesAsDocumented ==
  status # "parsing" =>
    \E n \in 0..Len(argv) : \E options \in SUBSET (1..n) :
      /\ OptionsAre(options, n)
      /\ \/ /\ n = Len(argv) /\ \A i \in options : ~Stops(i)
            /\ \A o \in DOMAIN config : LastGiven(options, o, config[o])
            /\ status = IF Valid(program, config) THEN "success" ELSE "error"
         \/ /\ n \in options /\ \A i \in options \ {n} : ~Stops(i)
            /\ Stops(n)
            /\ status = IF Refused(n) THEN "error" ELSE "help"

(* Limits that two programs check on their own agree.  When all options of *)
(* the server are well-formed, its parser accepts segment size and sync    *)
(* interval exactly if the reader's store does, so that no pair is found   *)
(* to be wrong only after fork(), and none is refused that would do.  And  *)
(* the load generator accepts the numbers the profiler accepted for it.    *)
(* Nothing is said of the path of the data file: one without a file name,  *)
(* or in no directory, is found by the reader when it opens its store.     *)
LimitsAgree ==
  /\ program = "server" /\ status # "parsing" /\ index > Len(argv) =>
       (status = "success" <=> ValidConfig(config["--segment-bytes"], config["--sync-bytes"]))
  /\ program = "profiler" /\ status = "success" =>
       /\ LoadValidate(config["--frames"], config["--batch"], config["--port"])
       /\ config["--port"] <= 65535
=============================================================================
