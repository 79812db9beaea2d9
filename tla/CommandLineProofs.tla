------------------------ MODULE CommandLineProofs ------------------------
(***************************************************************************)
(* Proofs about CommandLine, for every command line of every length: what  *)
(* the parsers make of it, and what the settings they accept are worth.    *)
(***************************************************************************)
EXTENDS CommandLine, TLAPS

(* The parser is within its arguments, or just behind them.                *)
ParserTypes ==
  /\ argv \in Seq(Arguments[program]) /\ program \in Programs
  /\ index \in 1..(Len(argv) + 1)

(* What the first n arguments have led to, given the options among them.   *)
ParsedTo(options, n) ==
  /\ OptionsAre(options, n) /\ \A i \in options : ~Stops(i)
  /\ \A o \in DOMAIN config : LastGiven(options, o, config[o])

(* While it is parsing, the parser stands at an option, and has done what  *)
(* the documentation says of a command line that ends here.                *)
ParsedSoFar ==
  status = "parsing" =>
    \E n \in Nat : \E options \in SUBSET (1..n) :
      /\ index = n + 1 /\ ParsedTo(options, n)
      /\ ~(n \in options /\ TakesValue(argv[n]))

(* The numbers of a benchmark are within the limits of the load generator. *)
InRange(c) == /\ LoadValidate(c["--frames"], c["--batch"], c["--port"])
              /\ c["--port"] <= 65535

(* What the load generator demands of the value of one option.             *)
Within(option, value) ==
  /\ 1 <= value /\ (option = "--frames" => value <= 1000000)
  /\ option = "--batch" => value <= 4096
  /\ option = "--port" => value <= 65535

(* The profiler checks its numbers at once, so they are always in range.   *)
ProfilerRanges ==
  program = "profiler" =>
    {"--frames", "--batch", "--port"} \subseteq DOMAIN config /\ InRange(config)

(* The server's port and path are checked at once as well, so that at the  *)
(* end only the sizes can be wrong.                                        *)
ServerSettings ==
  program = "server" =>
    /\ {"--port", "--data-file"} \subseteq DOMAIN config
    /\ config["--port"] # 0 /\ config["--data-file"] # ""

(* What the server demands of the value of one of these options.           *)
Proper(option, value) ==
  (option = "--port" => value # 0) /\ (option = "--data-file" => value # "")

(* Parsed to the end, the settings together decide.                        *)
Judged ==
  /\ status = "success" => Valid(program, config)
  /\ status # "parsing" /\ index > Len(argv) /\ Valid(program, config) => status = "success"

(* The inductive invariant.  What is documented of the result needs that   *)
(* the parser never stops at the value of an option.                       *)
ParserInv ==
  /\ ParserTypes /\ ParsedSoFar /\ ParsesAsDocumented
  /\ ProfilerRanges /\ ServerSettings /\ Judged

-----------------------------------------------------------------------------
(* Nothing that is read of a command line changes while it is parsed.      *)
LEMMA SyntaxSame ==
  ASSUME UNCHANGED <<program, argv>>
  PROVE  /\ Syntax' = Syntax
         /\ \A o : TakesValue(o)' <=> TakesValue(o)
         /\ \A o : Accepted(o)' = Accepted(o)
         /\ \A i : (Refused(i)' <=> Refused(i)) /\ (Stops(i)' <=> Stops(i))
         /\ \A s, n : OptionsAre(s, n)' <=> OptionsAre(s, n)
         /\ \A s, o, v : LastGiven(s, o, v)' <=> LastGiven(s, o, v)
<1>1. Syntax' = Syntax
  BY DEF Syntax
<1>2. \A o : TakesValue(o)' <=> TakesValue(o)
  BY <1>1 DEF TakesValue
<1>3. \A o : Accepted(o)' = Accepted(o)
  BY <1>1 DEF Accepted
<1>4. \A i : Given(i)' = Given(i)
  <2>1. \A o, t : Kept(o, t)' = Kept(o, t)
    BY <1>1 DEF Kept
  <2>. QED BY <1>1, <2>1, Zenon DEF Given
<1>5. \A i : Refused(i)' <=> Refused(i)
  BY <1>1, <1>2, <1>3 DEF Refused
<1>6. \A i : Stops(i)' <=> Stops(i)
  BY <1>1, <1>5 DEF Stops
<1>7. \A s, n : OptionsAre(s, n)' <=> OptionsAre(s, n)
  BY <1>2 DEF OptionsAre
<1>8. \A s, o, v : LastGiven(s, o, v)' <=> LastGiven(s, o, v)
  BY <1>1, <1>4 DEF LastGiven
<1>. QED BY <1>1, <1>2, <1>3, <1>5, <1>6, <1>7, <1>8

(* An option that is taken becomes the last of its kind.                   *)
LEMMA OptionTaken ==
  ASSUME NEW n \in Nat, NEW options \in SUBSET (1..n), ParsedTo(options, n),
         NEW o \in DOMAIN config,
         NEW w, w = IF o = argv[n + 1] THEN Given(n + 1) ELSE config[o]
  PROVE  LastGiven(options \cup {n + 1}, o, w)
<1>1. \A i \in options : i \in Nat /\ i < n + 1
  <2>1. \A i \in 1..n : i \in Nat /\ i < n + 1
    OBVIOUS
  <2>. QED BY <2>1, Zenon
<1>2. CASE o = argv[n + 1]
  <2>1. w = Given(n + 1) /\ \A j \in options \cup {n + 1} : j <= n + 1
    BY <1>1, <1>2
  <2>. QED BY <1>2, <2>1 DEF LastGiven
<1>3. CASE o # argv[n + 1]
  <2>1. LastGiven(options, o, w)
    BY <1>3 DEF ParsedTo
  <2>2. CASE (\A i \in options : argv[i] # o) /\ w = Syntax.default[o]
    BY <1>3, <2>2 DEF LastGiven
  <2>3. CASE \E i \in options :
               /\ argv[i] = o /\ \A j \in options : argv[j] = o => j <= i
               /\ w = Given(i)
    <3>1. PICK i \in options :
               /\ argv[i] = o /\ \A j \in options : argv[j] = o => j <= i
               /\ w = Given(i)
      BY <2>3
    <3>2. \A j \in options \cup {n + 1} : argv[j] = o => j <= i
      BY <1>3, <3>1
    <3>. QED BY <3>1, <3>2 DEF LastGiven
  <2>. QED BY <2>1, <2>2, <2>3 DEF LastGiven
<1>. QED BY <1>2, <1>3

(* What is taken as an option, up to its value, joins the options.         *)
LEMMA OptionsGrow ==
  ASSUME NEW n \in Nat, NEW options \in SUBSET (1..n), OptionsAre(options, n),
         ~(n \in options /\ TakesValue(argv[n]))
  PROVE  /\ OptionsAre(options \cup {n + 1}, n + 1)
         /\ TakesValue(argv[n + 1]) => OptionsAre(options \cup {n + 1}, n + 2)
<1>. DEFINE more == options \cup {n + 1}
<1>1. \A i \in 1..n : (i \in more <=> i \in options) /\ (i - 1 \in more <=> i - 1 \in options)
  OBVIOUS
<1>2. n \in more <=> n \in options
  OBVIOUS
<1>3. n + 1 \in more /\ n + 2 \notin more
  OBVIOUS
<1>. HIDE DEF more
<1>4. ASSUME NEW i \in 1..n PROVE i \in more <=> ~(i - 1 \in more /\ TakesValue(argv[i - 1]))
  BY <1>1 DEF OptionsAre
<1>5. n + 1 \in more <=> ~((n + 1) - 1 \in more /\ TakesValue(argv[(n + 1) - 1]))
  <2>1. (n + 1) - 1 = n
    OBVIOUS
  <2>. QED BY <1>2, <1>3, <2>1
<1>6. OptionsAre(more, n + 1)
  <2>1. \A i \in 1..(n + 1) : i \in 1..n \/ i = n + 1
    OBVIOUS
  <2>. QED BY <1>4, <1>5, <2>1 DEF OptionsAre
<1>7. ASSUME TakesValue(argv[n + 1]) PROVE OptionsAre(more, n + 2)
  <2>1. \A i \in 1..(n + 2) : i \in 1..n \/ i = n + 1 \/ i = n + 2
    OBVIOUS
  <2>2. (n + 2) - 1 = n + 1
    OBVIOUS
  <2>3. n + 2 \in more <=> ~((n + 2) - 1 \in more /\ TakesValue(argv[(n + 2) - 1]))
    BY <1>3, <1>7, <2>2
  <2>. QED BY <1>4, <1>5, <2>1, <2>3 DEF OptionsAre
<1>. QED BY <1>6, <1>7 DEF more

-----------------------------------------------------------------------------
(* The loop ends at the first request for help or the first error.         *)
LEMMA ParserStops ==
  ASSUME ParserInv, status = "parsing", index <= Len(argv), Stops(index),
         status' = IF Refused(index) THEN "error" ELSE "help",
         UNCHANGED <<program, argv, index, config>>
  PROVE  ParserInv'
<1>0. index \in Nat \ {0} /\ Len(argv) \in Nat /\ argv \in Seq(Arguments[program])
  BY DEF ParserInv, ParserTypes
<1>1. PICK n \in Nat : \E options \in SUBSET (1..n) :
        index = n + 1 /\ ParsedTo(options, n) /\ ~(n \in options /\ TakesValue(argv[n]))
  BY DEF ParserInv, ParsedSoFar
<1>3. PICK options \in SUBSET (1..n) : ParsedTo(options, n) /\ ~(n \in options /\ TakesValue(argv[n]))
  BY <1>1
<1>. DEFINE more == options \cup {n + 1}
<1>4. OptionsAre(more, n + 1)
  BY <1>3, OptionsGrow DEF ParsedTo
<1>5. more \in SUBSET (1..(n + 1)) /\ n + 1 \in more /\ n + 1 \in 0..Len(argv)
  BY <1>0, <1>1
<1>6. \A i \in more \ {n + 1} : ~Stops(i)
  BY <1>3 DEF ParsedTo
<1>7. ParsesAsDocumented'
  <2>1. PICK k, seen : k = n + 1 /\ seen = more
    OBVIOUS
  <2>. HIDE DEF more
  <2>2. OptionsAre(seen, k) /\ Stops(k) /\ \A i \in seen \ {k} : ~Stops(i)
    BY <1>1, <1>4, <1>6, <2>1
  <2>3. /\ OptionsAre(seen, k)' /\ Stops(k)' /\ (\A i \in seen \ {k} : ~Stops(i)')
        /\ (Refused(k)' <=> Refused(k))
    BY <2>2, SyntaxSame
  <2>4. status' = IF Refused(k)' THEN "error" ELSE "help"
    BY <1>1, <2>1, <2>3
  <2>5. seen \in SUBSET (1..k) /\ k \in seen /\ k \in 0..Len(argv)
    BY <1>5, <2>1
  <2>. QED BY <2>3, <2>4, <2>5 DEF ParsesAsDocumented
<1>8. ParserTypes' /\ ProfilerRanges' /\ ServerSettings'
  <2>1. ParserTypes'
    BY DEF ParserInv, ParserTypes
  <2>2. ProfilerRanges'
    BY Zenon DEF ParserInv, ProfilerRanges
  <2>3. ServerSettings'
    BY Zenon DEF ParserInv, ServerSettings
  <2>. QED BY <2>1, <2>2, <2>3
<1>9. status' # "parsing" /\ status' # "success" /\ ~(index' > Len(argv'))
  BY <1>0
<1>10. Judged'
  BY <1>9, Zenon DEF Judged
<1>. QED BY <1>7, <1>8, <1>9, <1>10, Zenon DEF ParserInv, ParsedSoFar

(* An option is taken, alone or with its value.                            *)
LEMMA ParserTakes ==
  ASSUME ParserInv, status = "parsing", index <= Len(argv), ~Stops(index),
         UNCHANGED <<program, argv, status>>,
         config' = [config EXCEPT ![argv[index]] = Given(index)],
         \/ index' = index + 1 /\ ~TakesValue(argv[index])
         \/ index' = index + 2 /\ TakesValue(argv[index]) /\ index < Len(argv)
  PROVE  ParserTypes' /\ ParsedSoFar'
<1>0. index \in Nat \ {0} /\ Len(argv) \in Nat /\ argv \in Seq(Arguments[program])
  BY DEF ParserInv, ParserTypes
<1>1. PICK n \in Nat : \E options \in SUBSET (1..n) :
        index = n + 1 /\ ParsedTo(options, n) /\ ~(n \in options /\ TakesValue(argv[n]))
  BY DEF ParserInv, ParsedSoFar
<1>3. PICK options \in SUBSET (1..n) : ParsedTo(options, n) /\ ~(n \in options /\ TakesValue(argv[n]))
  BY <1>1
<1>. DEFINE more == options \cup {n + 1}
<1>4. OptionsAre(more, n + 1) /\ (TakesValue(argv[n + 1]) => OptionsAre(more, n + 2))
  BY <1>3, OptionsGrow DEF ParsedTo
<1>5. \A i \in more : ~Stops(i)
  BY <1>1, <1>3 DEF ParsedTo
<1>6. DOMAIN config' = DOMAIN config /\ \A o \in DOMAIN config : config'[o] = IF o = argv[n + 1] THEN Given(n + 1) ELSE config[o]
  BY <1>1
<1>7. \A o \in DOMAIN config' : LastGiven(more, o, config'[o])
  <2>1. ASSUME NEW o \in DOMAIN config PROVE LastGiven(more, o, config'[o])
    <3>1. PICK w : w = config'[o]
      OBVIOUS
    <3>2. w = IF o = argv[n + 1] THEN Given(n + 1) ELSE config[o]
      BY <1>6, <3>1
    <3>3. ParsedTo(options, n)
      BY <1>3
    <3>4. LastGiven(more, o, w)
      BY <3>2, <3>3, OptionTaken, Zenon
    <3>. QED BY <3>1, <3>4
  <2>. QED BY <1>6, <2>1, Zenon
<1>8. PICK m \in Nat : m + 1 = index'
  BY <1>0
<1>9. OptionsAre(more, m) /\ more \in SUBSET (1..m) /\ ~(m \in more /\ TakesValue(argv[m]))
  <2>1. CASE index' = index + 1 /\ ~TakesValue(argv[index])
    <3>1. m = n + 1
      BY <1>1, <1>8, <2>1
    <3>. QED BY <1>1, <1>4, <2>1, <3>1
  <2>2. CASE index' = index + 2 /\ TakesValue(argv[index])
    <3>1. m = n + 2
      BY <1>1, <1>8, <2>2
    <3>2. more \in SUBSET (1..m) /\ m \notin more
      BY <3>1
    <3>. QED BY <1>1, <1>4, <2>2, <3>1, <3>2
  <2>. QED BY <2>1, <2>2
<1>10. m = index' - 1 /\ index' \in 1..(Len(argv) + 1)
  BY <1>0, <1>8
<1>11. PICK seen : seen = more
  OBVIOUS
<1>. HIDE DEF more
<1>12. ParsedTo(seen, m)'
  <2>1. OptionsAre(seen, m)' /\ \A i \in seen : ~Stops(i)'
    BY <1>5, <1>9, <1>11, SyntaxSame
  <2>2. ASSUME NEW o \in DOMAIN config' PROVE LastGiven(seen, o, config[o])'
    <3>1. PICK w : w = config'[o]
      OBVIOUS
    <3>2. LastGiven(seen, o, w)
      BY <1>7, <1>11, <3>1
    <3>3. LastGiven(seen, o, w)'
      BY <3>2, SyntaxSame
    <3>. QED BY <3>1, <3>3 DEF LastGiven
  <2>. QED BY <2>1, <2>2 DEF ParsedTo
<1>13. ~(m \in seen /\ TakesValue(argv[m])')
  <2>1. PICK a : a = argv[m]
    OBVIOUS
  <2>2. TakesValue(a)' <=> TakesValue(a)
    BY SyntaxSame
  <2>3. TakesValue(argv[m])' <=> TakesValue(a)'
    BY <2>1 DEF TakesValue
  <2>. QED BY <1>9, <1>11, <2>1, <2>2, <2>3
<1>14. ParserTypes'
  BY <1>10 DEF ParserInv, ParserTypes
<1>15. ParsedSoFar'
  <2>1. seen \in SUBSET (1..m) /\ index' = m + 1
    BY <1>8, <1>9, <1>11
  <2>. QED BY <1>12, <1>13, <2>1, Zenon DEF ParsedSoFar
<1>. QED BY <1>14, <1>15

-----------------------------------------------------------------------------
(* The profiler's settings at first.                                       *)
LEMMA ProfilerStart ==
  ASSUME program = "profiler"
  PROVE  /\ {"--frames", "--batch", "--port"} \subseteq DOMAIN Syntax.default
         /\ InRange(Syntax.default)
<1>1. Syntax.default = ProfilerDefault
  BY DEF Syntax, ProfilerSyntax
<1>2. ASSUME NEW o \in {"--frames", "--batch", "--port"}
      PROVE  /\ o \in DOMAIN ProfilerNumbers
             /\ o \notin DOMAIN ProfilerTexts /\ o \notin ProfilerFlags
  BY DEF ProfilerNumbers, ProfilerTexts, ProfilerFlags
<1>3. /\ ProfilerDefault["--frames"] = 1000000 /\ ProfilerDefault["--batch"] = 128
      /\ ProfilerDefault["--port"] = 19000
  BY <1>2, SMT DEF ProfilerDefault
<1>4. InRange(ProfilerDefault)
  BY <1>3, SMT DEF InRange, LoadValidate
<1>5. {"--frames", "--batch", "--port"} \subseteq DOMAIN ProfilerDefault
  <2>1. DOMAIN ProfilerNumbers \subseteq DOMAIN ProfilerDefault
    BY DEF ProfilerDefault
  <2>. QED BY <1>2, <2>1
<1>. QED BY <1>1, <1>4, <1>5, Zenon

(* What the profiler takes for its numbers.                                *)
LEMMA ProfilerAccepts ==
  ASSUME program = "profiler", NEW a \in {"--frames", "--batch", "--port"}, NEW t \in Accepted(a)
  PROVE  Within(a, Kept(a, t))
<1>1. Syntax.numbers = ProfilerNumbers
  BY DEF Syntax, ProfilerSyntax
<1>2. a \in DOMAIN ProfilerNumbers
  BY SMT DEF ProfilerNumbers
<1>3. Accepted(a) = ProfilerNumbers[a] /\ Kept(a, t) = Number[t]
  BY <1>1, <1>2, Zenon DEF Accepted, Kept
<1>4. CASE a = "--frames"
  <2>1. ProfilerNumbers[a] = Numbers(1, 1000000)
    BY <1>4, SMT DEF ProfilerNumbers
  <2>. QED BY <1>3, <1>4, <2>1, SMT DEF Numbers, Within
<1>5. CASE a = "--batch"
  <2>1. ProfilerNumbers[a] = Numbers(1, 4096)
    BY <1>5, SMT DEF ProfilerNumbers
  <2>. QED BY <1>3, <1>5, <2>1, SMT DEF Numbers, Within
<1>6. CASE a = "--port"
  <2>1. ProfilerNumbers[a] = Numbers(1, 65535)
    BY <1>6, SMT DEF ProfilerNumbers
  <2>. QED BY <1>3, <1>6, <2>1, SMT DEF Numbers, Within
<1>. QED BY <1>4, <1>5, <1>6, SMT

(* A benchmark's numbers stay in range: an option is accepted in range.    *)
LEMMA ProfilerRangesKept ==
  ASSUME ProfilerRanges, program' = program, NEW a, NEW v,
         config' = [config EXCEPT ![a] = v],
         ASSUME program = "profiler", a \in {"--frames", "--batch", "--port"}
         PROVE  Within(a, v)
  PROVE  ProfilerRanges'
<1>1. SUFFICES ASSUME program = "profiler"
      PROVE  {"--frames", "--batch", "--port"} \subseteq DOMAIN config' /\ InRange(config')
  BY DEF ProfilerRanges
<1>2. {"--frames", "--batch", "--port"} \subseteq DOMAIN config /\ InRange(config)
  BY <1>1 DEF ProfilerRanges
<1>3. DOMAIN config' = DOMAIN config
  OBVIOUS
<1>4. ASSUME NEW o \in {"--frames", "--batch", "--port"}
      PROVE  config'[o] = config[o] \/ (o = a /\ config'[o] = v)
  <2>1. o \in DOMAIN config
    BY <1>2
  <2>. QED BY <2>1
<1>5. InRange(config')
  <2>1. 1 <= config'["--frames"] /\ config'["--frames"] <= 1000000
    BY <1>1, <1>2, <1>4, SMT DEF InRange, LoadValidate, Within
  <2>2. 1 <= config'["--batch"] /\ config'["--batch"] <= 4096
    BY <1>1, <1>2, <1>4, SMT DEF InRange, LoadValidate, Within
  <2>3. 1 <= config'["--port"] /\ config'["--port"] <= 65535
    BY <1>1, <1>2, <1>4, SMT DEF InRange, LoadValidate, Within
  <2>. QED BY <2>1, <2>2, <2>3, SMT DEF InRange, LoadValidate
<1>. QED BY <1>2, <1>3, <1>5

(* The server's port and path at first.                                    *)
LEMMA ServerStart ==
  ASSUME program = "server"
  PROVE  /\ {"--port", "--data-file"} \subseteq DOMAIN Syntax.default
         /\ Syntax.default["--port"] # 0 /\ Syntax.default["--data-file"] # ""
<1>1. Syntax = ServerSyntax
  BY DEF Syntax
<1>2. /\ {"--port", "--data-file"} \subseteq DOMAIN ServerSyntax.default
      /\ ServerSyntax.default["--port"] = 9000
      /\ ServerSyntax.default["--data-file"] = "telemetry.bin"
  BY SMT DEF ServerSyntax
<1>. QED BY <1>1, <1>2, SMT

(* What the server takes for them.                                         *)
LEMMA ServerAccepts ==
  ASSUME program = "server", NEW a \in {"--port", "--data-file"}, NEW t \in Accepted(a)
  PROVE  Proper(a, Kept(a, t))
<1>1. Syntax = ServerSyntax
  BY DEF Syntax
<1>2. CASE a = "--port"
  <2>1. a \in DOMAIN ServerSyntax.numbers /\ ServerSyntax.numbers[a] = Numbers(1, 65535)
    BY <1>2, SMT DEF ServerSyntax
  <2>2. a \in DOMAIN ServerSyntax.numbers
    BY <2>1
  <2>3. t \in ServerSyntax.numbers[a] /\ Kept(a, t) = Number[t]
    BY <1>1, <2>2, Zenon DEF Accepted, Kept
  <2>4. Number[t] # 0
    BY <2>1, <2>3, SMT DEF Numbers
  <2>. QED BY <1>2, <2>3, <2>4 DEF Proper
<1>3. CASE a = "--data-file"
  <2>1. a \notin DOMAIN ServerSyntax.numbers /\ ServerSyntax.texts[a] = Texts \ {""}
    BY <1>3, SMT DEF ServerSyntax
  <2>2. t \in Texts \ {""} /\ Kept(a, t) = t
    BY <1>1, <2>1, Zenon DEF Accepted, Kept
  <2>. QED BY <1>3, <2>2 DEF Proper
<1>. QED BY <1>2, <1>3

(* Port and path stay what they must be.                                   *)
LEMMA ServerSettingsKept ==
  ASSUME ServerSettings, program' = program, NEW a, NEW v,
         config' = [config EXCEPT ![a] = v],
         ASSUME program = "server", a \in {"--port", "--data-file"}
         PROVE  Proper(a, v)
  PROVE  ServerSettings'
<1>1. SUFFICES ASSUME program = "server"
      PROVE  /\ {"--port", "--data-file"} \subseteq DOMAIN config'
             /\ config'["--port"] # 0 /\ config'["--data-file"] # ""
  BY DEF ServerSettings
<1>2. /\ {"--port", "--data-file"} \subseteq DOMAIN config
      /\ config["--port"] # 0 /\ config["--data-file"] # ""
  BY <1>1 DEF ServerSettings
<1>3. DOMAIN config' = DOMAIN config
  OBVIOUS
<1>4. ASSUME NEW o \in {"--port", "--data-file"}
      PROVE  config'[o] = config[o] \/ (o = a /\ config'[o] = v)
  <2>1. o \in DOMAIN config
    BY <1>2
  <2>. QED BY <2>1
<1>5. config'["--port"] # 0
  BY <1>1, <1>2, <1>4 DEF Proper
<1>6. config'["--data-file"] # ""
  BY <1>1, <1>2, <1>4 DEF Proper
<1>. QED BY <1>2, <1>3, <1>5, <1>6

-----------------------------------------------------------------------------
(* What the program starts with has been parsed to the first argument.     *)
LEMMA ParserInit == Init => ParserInv
<1>1. SUFFICES ASSUME Init PROVE ParserInv
  OBVIOUS
<1>2. ParserTypes
  <2>1. PICK n \in 0..MaxArgs : argv \in [1..n -> Arguments[program]]
    BY <1>1 DEF Init
  <2>2. argv \in Seq(Arguments[program]) /\ Len(argv) = n
    BY <2>1, CommandLineAssumption
  <2>. QED BY <1>1, <2>2, CommandLineAssumption DEF Init, ParserTypes
<1>3. ParsedSoFar
  <2>1. OptionsAre({}, 0)
    BY DEF OptionsAre
  <2>2. \A o : LastGiven({}, o, Syntax.default[o])
    BY DEF LastGiven
  <2>3. ParsedTo({}, 0)
    BY <1>1, <2>1, <2>2 DEF Init, ParsedTo
  <2>4. index = 0 + 1 /\ {} \in SUBSET (1..0) /\ 0 \in Nat
    BY <1>1 DEF Init
  <2>. QED BY <2>3, <2>4 DEF ParsedSoFar
<1>4. ProfilerRanges
  BY <1>1, ProfilerStart, Zenon DEF Init, ProfilerRanges
<1>5. status = "parsing"
  BY <1>1 DEF Init
<1>6. ServerSettings
  BY <1>1, ServerStart, Zenon DEF Init, ServerSettings
<1>7. ParsesAsDocumented /\ Judged
  BY <1>5 DEF ParsesAsDocumented, Judged
<1>. QED BY <1>2, <1>3, <1>4, <1>6, <1>7 DEF ParserInv

(* One turn of the loop.                                                   *)
LEMMA ParseArgumentKeeps ==
  ASSUME ParserInv, ParseArgument
  PROVE  ParserInv'
<1>. DEFINE a == argv[index]
<1>1. /\ status = "parsing" /\ index <= Len(argv) /\ UNCHANGED <<program, argv>>
  BY DEF ParseArgument
<1>2. ProfilerRanges /\ ServerSettings
  BY DEF ParserInv
<1>3. CASE a \in Syntax.help /\ status' = "help" /\ UNCHANGED <<index, config>>
  <2>1. Stops(index) /\ ~Refused(index)
    BY <1>3 DEF Stops, Refused
  <2>2. status' = IF Refused(index) THEN "error" ELSE "help"
    BY <1>3, <2>1
  <2>. QED BY <1>1, <1>3, <2>1, <2>2, ParserStops
<1>4. CASE /\ a \notin Syntax.help \cup Syntax.flags
           /\ ~(TakesValue(a) /\ index < Len(argv) /\ argv[index + 1] \in Accepted(a))
           /\ status' = "error" /\ UNCHANGED <<index, config>>
  <2>1. Stops(index) /\ Refused(index)
    BY <1>4 DEF Stops, Refused
  <2>2. status' = IF Refused(index) THEN "error" ELSE "help"
    BY <1>4, <2>1
  <2>. QED BY <1>1, <1>4, <2>1, <2>2, ParserStops
<1>5. CASE a \in Syntax.flags \ Syntax.help /\ Set(a, On) /\ index' = index + 1 /\ UNCHANGED status
  <2>1. ~Stops(index) /\ ~TakesValue(a) /\ Given(index) = On
    BY <1>5 DEF Stops, Refused, TakesValue, Given
  <2>2. config' = [config EXCEPT ![a] = Given(index)]
    BY <1>5, <2>1 DEF Set
  <2>3. ParserTypes' /\ ParsedSoFar'
    BY <1>1, <1>5, <2>1, <2>2, ParserTakes
  <2>4. ProfilerRanges'
    <3>1. ASSUME program = "profiler" PROVE a \notin {"--frames", "--batch", "--port"}
      <4>1. Syntax.flags = ProfilerFlags
        BY <3>1 DEF Syntax, ProfilerSyntax
      <4>. QED BY <1>5, <4>1 DEF ProfilerFlags
    <3>. QED BY <1>1, <1>2, <1>5, <3>1, ProfilerRangesKept DEF Set
  <2>5. ServerSettings'
    <3>1. ASSUME program = "server" PROVE a \notin {"--port", "--data-file"}
      <4>1. Syntax = ServerSyntax
        BY <3>1 DEF Syntax
      <4>2. ServerSyntax.flags = {"--quiet"}
        BY SMT DEF ServerSyntax
      <4>. QED BY <1>5, <4>1, <4>2
    <3>2. config' = [config EXCEPT ![a] = On]
      BY <1>5 DEF Set
    <3>. QED BY <1>1, <1>2, <3>1, <3>2, ServerSettingsKept
  <2>6. status' = "parsing"
    BY <1>1, <1>5
  <2>7. ParsesAsDocumented' /\ Judged'
    BY <2>6 DEF ParsesAsDocumented, Judged
  <2>. QED BY <2>3, <2>4, <2>5, <2>7 DEF ParserInv
<1>6. CASE /\ a \notin Syntax.help \cup Syntax.flags
           /\ TakesValue(a) /\ index < Len(argv) /\ argv[index + 1] \in Accepted(a)
           /\ Set(a, Kept(a, argv[index + 1])) /\ ConsumeValue /\ UNCHANGED status
  <2>1. ~Stops(index) /\ Given(index) = Kept(a, argv[index + 1])
    BY <1>6 DEF Stops, Refused, Given
  <2>2. config' = [config EXCEPT ![a] = Given(index)]
    BY <1>6, <2>1 DEF Set
  <2>3. ParserTypes' /\ ParsedSoFar'
    BY <1>1, <1>6, <2>1, <2>2, ParserTakes DEF ConsumeValue
  <2>4. ProfilerRanges'
    <3>. DEFINE v == Kept(a, argv[index + 1])
    <3>1. ASSUME program = "profiler", a \in {"--frames", "--batch", "--port"}
          PROVE  Within(a, v)
      BY <1>6, <3>1, ProfilerAccepts, SMT
    <3>2. config' = [config EXCEPT ![a] = v]
      BY <1>6 DEF Set
    <3>. QED BY <1>1, <1>2, <3>1, <3>2, ProfilerRangesKept
  <2>5. ServerSettings'
    <3>. DEFINE v == Kept(a, argv[index + 1])
    <3>1. ASSUME program = "server", a \in {"--port", "--data-file"}
          PROVE  Proper(a, v)
      BY <1>6, <3>1, ServerAccepts, SMT
    <3>2. config' = [config EXCEPT ![a] = v]
      BY <1>6 DEF Set
    <3>. QED BY <1>1, <1>2, <3>1, <3>2, ServerSettingsKept
  <2>6. status' = "parsing"
    BY <1>1, <1>6
  <2>7. ParsesAsDocumented' /\ Judged'
    BY <2>6 DEF ParsesAsDocumented, Judged
  <2>. QED BY <2>3, <2>4, <2>5, <2>7 DEF ParserInv
<1>. QED BY <1>3, <1>4, <1>5, <1>6 DEF ParseArgument

(* The end of the loop.                                                    *)
LEMMA FinishParsingKeeps ==
  ASSUME ParserInv, FinishParsing
  PROVE  ParserInv'
<1>0. index \in 1..(Len(argv) + 1) /\ Len(argv) \in Nat
  BY DEF ParserInv, ParserTypes
<1>1. index = Len(argv) + 1 /\ status = "parsing" /\ UNCHANGED <<program, argv, index, config>>
  BY <1>0 DEF FinishParsing
<1>2. Valid(program, config)' <=> Valid(program, config)
  BY <1>1, Zenon DEF Valid, Validate
<1>3. status' = IF Valid(program, config)' THEN "success" ELSE "error"
  BY <1>2 DEF FinishParsing
<1>4. PICK n, options :
        n = Len(argv) /\ options \in SUBSET (1..n) /\ ParsedTo(options, n)
  <2>1. PICK n \in Nat : \E options \in SUBSET (1..n) : index = n + 1 /\ ParsedTo(options, n)
    BY <1>1 DEF ParserInv, ParsedSoFar
  <2>2. n = Len(argv)
    BY <1>0, <1>1, <2>1
  <2>. QED BY <2>1, <2>2
<1>5. ParsesAsDocumented'
  <2>1. OptionsAre(options, n)' /\ \A i \in options : ~Stops(i)'
    BY <1>1, <1>4, SyntaxSame DEF ParsedTo
  <2>2. ASSUME NEW o \in DOMAIN config' PROVE LastGiven(options, o, config[o])'
    <3>1. PICK w : w = config[o]
      OBVIOUS
    <3>2. LastGiven(options, o, w)'
      BY <1>1, <1>4, <3>1, SyntaxSame DEF ParsedTo
    <3>. QED BY <1>1, <3>1, <3>2 DEF LastGiven
  <2>3. n \in 0..Len(argv') /\ n = Len(argv') /\ options \in SUBSET (1..n)
    BY <1>0, <1>1, <1>4
  <2>. QED BY <1>3, <2>1, <2>2, <2>3 DEF ParsesAsDocumented
<1>6. ParserTypes' /\ ProfilerRanges' /\ ServerSettings'
  <2>1. ParserTypes'
    BY <1>1 DEF ParserInv, ParserTypes
  <2>2. ProfilerRanges'
    BY <1>1, Zenon DEF ParserInv, ProfilerRanges
  <2>3. ServerSettings'
    BY <1>1, Zenon DEF ParserInv, ServerSettings
  <2>. QED BY <2>1, <2>2, <2>3
<1>7. /\ status' # "parsing" /\ (status' = "success" => Valid(program, config)')
      /\ Valid(program, config)' => status' = "success"
  BY <1>3
<1>8. ParsedSoFar' /\ Judged'
  BY <1>7, Zenon DEF ParsedSoFar, Judged
<1>. QED BY <1>5, <1>6, <1>8, Zenon DEF ParserInv

(* A step that changes nothing.                                            *)
LEMMA ParserStutters ==
  ASSUME ParserInv, UNCHANGED parserVars
  PROVE  ParserInv'
<1>1. UNCHANGED <<program, argv, index, config, status>>
  BY DEF parserVars
<1>2. ASSUME NEW o, NEW s, LastGiven(s, o, config[o]) PROVE LastGiven(s, o, config[o])'
  <2>1. PICK w : w = config[o]
    OBVIOUS
  <2>2. LastGiven(s, o, w)'
    BY <1>1, <1>2, <2>1, SyntaxSame
  <2>. QED BY <1>1, <2>1, <2>2 DEF LastGiven
<1>3. ASSUME NEW i, TakesValue(argv[i])' PROVE TakesValue(argv[i])
  BY <1>1, <1>3 DEF TakesValue, Syntax
<1>4. Valid(program, config)' <=> Valid(program, config)
  BY <1>1, Zenon DEF Valid, Validate
<1>5. ParserTypes'
  BY <1>1 DEF ParserInv, ParserTypes
<1>6. ProfilerRanges'
  BY <1>1, Zenon DEF ParserInv, ProfilerRanges
<1>7. ParsedSoFar'
  <2>1. SUFFICES ASSUME status' = "parsing" PROVE ParsedSoFar'
    BY DEF ParsedSoFar
  <2>2. PICK n \in Nat : \E options \in SUBSET (1..n) :
          index = n + 1 /\ ParsedTo(options, n) /\ ~(n \in options /\ TakesValue(argv[n]))
    BY <1>1, <2>1 DEF ParserInv, ParsedSoFar
  <2>3. PICK options \in SUBSET (1..n) :
          ParsedTo(options, n) /\ ~(n \in options /\ TakesValue(argv[n]))
    BY <2>2
  <2>4. ParsedTo(options, n)'
    BY <1>1, <1>2, <2>3, SyntaxSame DEF ParsedTo
  <2>. QED BY <1>1, <1>3, <2>2, <2>3, <2>4 DEF ParsedSoFar
<1>8. ParsesAsDocumented'
  <2>1. SUFFICES ASSUME status' # "parsing" PROVE ParsesAsDocumented'
    BY DEF ParsesAsDocumented
  <2>2. PICK n, options :
      /\ n \in 0..Len(argv) /\ options \in SUBSET (1..n) /\ OptionsAre(options, n)
      /\ \/ /\ n = Len(argv) /\ \A i \in options : ~Stops(i)
            /\ \A o \in DOMAIN config : LastGiven(options, o, config[o])
            /\ status = IF Valid(program, config) THEN "success" ELSE "error"
         \/ /\ n \in options /\ \A i \in options \ {n} : ~Stops(i)
            /\ Stops(n)
            /\ status = IF Refused(n) THEN "error" ELSE "help"
    BY <1>1, <2>1 DEF ParserInv, ParsesAsDocumented
  <2>3. OptionsAre(options, n)' /\ \A i : (Refused(i)' <=> Refused(i)) /\ (Stops(i)' <=> Stops(i))
    BY <1>1, <2>2, SyntaxSame
  <2>4. CASE /\ n = Len(argv) /\ \A i \in options : ~Stops(i)
             /\ \A o \in DOMAIN config : LastGiven(options, o, config[o])
             /\ status = IF Valid(program, config) THEN "success" ELSE "error"
    <3>1. n = Len(argv') /\ \A i \in options : ~Stops(i)'
      BY <1>1, <2>3, <2>4
    <3>2. \A o \in DOMAIN config' : LastGiven(options, o, config[o])'
      BY <1>1, <1>2, <2>4
    <3>3. status' = IF Valid(program, config)' THEN "success" ELSE "error"
      BY <1>1, <1>4, <2>4
    <3>4. n \in 0..Len(argv')
      BY <1>1, <2>2
    <3>. QED BY <2>2, <2>3, <3>1, <3>2, <3>3, <3>4 DEF ParsesAsDocumented
  <2>5. CASE /\ n \in options /\ \A i \in options \ {n} : ~Stops(i)
             /\ Stops(n)
             /\ status = IF Refused(n) THEN "error" ELSE "help"
    <3>1. \A i \in options \ {n} : ~Stops(i)'
      BY <2>3, <2>5
    <3>2. n \in options /\ Stops(n)' /\ status' = IF Refused(n)' THEN "error" ELSE "help"
      BY <1>1, <2>3, <2>5
    <3>3. n \in 0..Len(argv')
      BY <1>1, <2>2
    <3>. QED BY <2>2, <2>3, <3>1, <3>2, <3>3 DEF ParsesAsDocumented
  <2>. QED BY <2>2, <2>4, <2>5
<1>9. ServerSettings'
  BY <1>1, Zenon DEF ParserInv, ServerSettings
<1>10. Judged'
  BY <1>1, <1>4, Zenon DEF ParserInv, Judged
<1>. QED BY <1>5, <1>6, <1>7, <1>8, <1>9, <1>10, Zenon DEF ParserInv

-----------------------------------------------------------------------------
(* Every state of every parser satisfies the invariant.                    *)
THEOREM ParserInvariant == Spec => []ParserInv
<1>1. ParserInv /\ [Next]_parserVars => ParserInv'
  BY ParseArgumentKeeps, FinishParsingKeeps, ParserStutters, Zenon DEF Next, Parsed
<1>. QED BY ParserInit, <1>1, PTL DEF Spec

(* Whatever the arguments are, and however many: help and errors end the   *)
(* parsing where the first of them stands, and else each setting is what   *)
(* its last occurrence says, or its default (parseArguments() and the two  *)
(* parsers of the bench programs).                                         *)
THEOREM ParsesAsDocumentedHolds == Spec => []ParsesAsDocumented
<1>1. ParserInv => ParsesAsDocumented
  BY DEF ParserInv
<1>. QED BY ParserInvariant, <1>1, PTL

(* Of a segment size and a sync interval, the server's validate() accepts  *)
(* what the store's validateConfig() accepts, no more and no less; and the *)
(* numbers the profiler accepts are in the load generator's limits.        *)
THEOREM LimitsAgreeHolds == Spec => []LimitsAgree
<1>1. ParserInv => LimitsAgree
  <2>1. SUFFICES ASSUME ParserInv PROVE LimitsAgree
    OBVIOUS
  <2>2. ASSUME program = "server", status # "parsing", index > Len(argv)
        PROVE  status = "success" <=>
                 ValidConfig(config["--segment-bytes"], config["--sync-bytes"])
    <3>1. Valid(program, config) <=> Validate(config)
      BY <2>2, Zenon DEF Valid
    <3>2. config["--port"] # 0 /\ config["--data-file"] # ""
      BY <2>1, <2>2, Zenon DEF ParserInv, ServerSettings
    <3>3. Validate(config) <=> ValidConfig(config["--segment-bytes"], config["--sync-bytes"])
      BY <3>2, Zenon DEF Validate, ValidConfig
    <3>4. status = "success" <=> Valid(program, config)
      BY <2>1, <2>2, Zenon DEF ParserInv, Judged
    <3>. QED BY <3>1, <3>3, <3>4, Zenon
  <2>3. ASSUME program = "profiler"
        PROVE  InRange(config)
    BY <2>1, <2>3, Zenon DEF ParserInv, ProfilerRanges
  <2>. QED BY <2>2, <2>3, SMT DEF LimitsAgree, InRange
<1>. QED BY ParserInvariant, <1>1, PTL
=============================================================================
