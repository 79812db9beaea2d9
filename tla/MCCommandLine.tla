--------------------------- MODULE MCCommandLine ---------------------------
(* The texts that tell the three command lines apart: values below, at and *)
(* above every limit, texts that are no numbers, and unknown options.      *)
EXTENDS CommandLine, TLC

Values == "0" :> 0 @@ "1" :> 1 @@ "32" :> 32 @@ "33" :> 33 @@ "64" :> 64 @@ "4097" :> 4097
            @@ "65535" :> 65535 @@ "65536" :> 65536 @@ "1000001" :> 1000001
            @@ "18446744073709551616" :> SizeMax + 1

MCArguments ==
  [server |-> {"--port", "--data-file", "--segment-bytes", "--sync-bytes", "--quiet", "--help",
               "0", "32", "33", "64", "65535", "65536", "18446744073709551616", "9x", ""},
   load |-> {"--frames", "--batch-frames", "--port", "--help", "-h",
             "0", "1", "4097", "65535", "65536", "1000001", "9x", ""},
   profiler |-> {"--frames", "--batch", "--repeat", "--timeout", "--port", "--mode", "--perf",
                 "--check", "-h", "record", "0", "1", "33", "4097", "65536", "1000001"}]

MCNumber == [t \in Texts |-> IF t \in DOMAIN Values THEN Values[t] ELSE NaN]
=============================================================================
