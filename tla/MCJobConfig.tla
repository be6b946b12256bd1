---------------------------- MODULE MCJobConfig -----------------------------
(***************************************************************************)
(* Model checking of JobConfig: every combination of absent, empty and     *)
(* given payload flags with some settings of the load, over files with     *)
(* each payload source, two at once, unreadable or incomplete ones, and    *)
(* with values a command line has to round, cut, spell otherwise or refuse. *)
(***************************************************************************)
EXTENDS JobConfig, TLC

MCBodies == [f |-> "b3", g |-> "long", h |-> ""]
MCDirs == [d |-> <<"p1", "p2">>, e |-> << >>]

\* "t" is a host and a port; "u" and "v" also pass as gRPC targets.
MCSpellings == [method |-> ("post" :> "POST"), headers |-> ("spaced" :> "plain"),
                protocol |-> ("GRPC" :> "grpc"), format |-> ("SSE" :> "sse")]
MCMethods == {"GET", "POST", "post"}
MCWebURLs == {"u", "v"}
MCHostPorts == {"t", "u", "v"}

Plain == [FlagDefaults EXCEPT !.url = "u", !.method = "POST", !.protocol = "", !.format = "",
                              !.timeout = 0, !.requests = 3]

MCDocuments ==
    [body    |-> [Plain EXCEPT !.body = "b1", !.timeout = 10],
     file    |-> [Plain EXCEPT !.bodyFile = "f", !.qps = 128],
     dir     |-> [Plain EXCEPT !.payloadDir = "d", !.timeout = 10],
     both    |-> [Plain EXCEPT !.body = "b1", !.payloadDir = "d"],
     blank   |-> [Plain EXCEPT !.bodyFile = "h", !.requests = 2],
     unread  |-> [Plain EXCEPT !.bodyFile = "x"],
     empty   |-> [Plain EXCEPT !.payloadDir = "e"],
     none    |-> [Plain EXCEPT !.url = ""],
     long    |-> [Plain EXCEPT !.bodyFile = "g"],
     header  |-> [Plain EXCEPT !.headers = "comma", !.qps = 4],
     lower   |-> [Plain EXCEPT !.method = "post", !.price = 4],
     spaced  |-> [Plain EXCEPT !.headers = "spaced", !.price = 4],
     slow    |-> [Plain EXCEPT !.headers = "plain", !.qps = 4, !.duration = 8, !.rampUp = 2],
     grpc    |-> [Plain EXCEPT !.url = "t", !.method = "", !.protocol = "grpc", !.service = "s",
                               !.timeout = 5, !.price = 128],
     stream  |-> [Plain EXCEPT !.streaming = TRUE, !.format = "sse", !.requests = 0, !.duration = 8]]

PayloadChoices == [PayloadFlags -> {"absent", "", "value"}]
PayloadValues == [body |-> "b2", bodyFile |-> "f", payloadDir |-> "d"]
PayloadFlagSets ==
    {[f \in {g \in PayloadFlags : c[g] # "absent"} |-> IF c[f] = "" THEN "" ELSE PayloadValues[f]] :
        c \in PayloadChoices}

Loads == {[requests |-> 5], [url |-> "v", method |-> "post", requests |-> 1],
          [url |-> "v", duration |-> 6, requests |-> 1, price |-> 37],
          [url |-> "v", duration |-> 6, rampUp |-> 7],
          [url |-> "v", protocol |-> "GRPC", method |-> "PATH", requests |-> 4],
          [url |-> "v", protocol |-> "websocket", concurrency |-> 0, requests |-> 4],
          [streaming |-> TRUE, format |-> "SSE"], NoFlags}

MCFlagSets == {p @@ l : p \in PayloadFlagSets, l \in Loads}
=============================================================================
