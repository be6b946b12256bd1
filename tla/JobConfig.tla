------------------------------ MODULE JobConfig ------------------------------
(***************************************************************************)
(* The way of a configuration: from a JSON file and command line flags     *)
(* (internal/config, internal/cli/parse.go) or a job submitted to the      *)
(* master's API, to the engine of this process or, in shards and over the  *)
(* wire, to the engines of the workers, to the payloads they send          *)
(* (internal/engine/payloads.go), and back to a command line in the report *)
(* of the run (internal/output/agent.go).                                  *)
(*                                                                         *)
(* A configuration keeps the fields that some rule treats differently.     *)
(* Fields that are only copied (the other gRPC, WebSocket and stream       *)
(* options, output paths, port) behave as service does.  "" is the empty   *)
(* string and the zero value; a body or a path is not just white space and *)
(* a path has none around it.  The rate and the price are in tenths of the *)
(* last decimal that a report prints.                                      *)
(***************************************************************************)
EXTENDS Integers, Sequences, FiniteSets, FiniteSetsExt

CONSTANTS N,          \* number of worker addresses
          Documents,  \* JSON documents: the --config files and API jobs, by name
          FlagSets,   \* command lines: records of the flags that are given
          Bodies,     \* content of the files that --body-file may name, by path
          Dirs,       \* sorted payload files in the directories, by path
          Secrets,    \* values of --auth-secret, "" for none
          Spellings,  \* of a flag's texts that Parse trims or changes the case of, the result
          Methods,    \* texts that name an HTTP method, in any case
          WebURLs,    \* texts with a scheme and a host
          HostPorts,  \* gRPC targets
          MaxSends    \* bound on the requests of an engine that are looked at

VARIABLES
    via,      \* "cli" or "api"
    path,     \* the --config file, "" for none; the submitted job
    flags,    \* the flags given
    secrets,  \* of the master and of the workers
    stage,    \* "start", "loaded", "accepted", "rejected", "running", "reported", "again"
    cfg,      \* config.Config
    engine,   \* per engine: "idle", "offered", "running", "refused", "unbuilt"; 0 is local
    job,      \* the configuration each engine was given
    sent,     \* the payloads each engine has sent
    retest,   \* the flags of the command in the report
    second    \* the configuration that this command runs, Zero if it is refused

inputs == <<via, path, flags, secrets>>
report == <<retest, second>>
vars == <<inputs, stage, cfg, engine, job, sent, report>>

Workers == 1..N
Engines == 0..N

PayloadFlags == {"body", "bodyFile", "payloadDir"}
NoFlags == [f \in {} |-> ""]

\* The flag defaults, and what is written in a document or on a command line.
FlagDefaults ==
    [url |-> "", method |-> "GET", headers |-> "none", body |-> "", bodyFile |-> "",
     payloadDir |-> "", protocol |-> "http", service |-> "", streaming |-> FALSE,
     format |-> "auto", concurrency |-> 1, duration |-> 0, requests |-> 0, timeout |-> 30,
     qps |-> 0, rampUp |-> 0, price |-> 0]
FlagNames == DOMAIN FlagDefaults
Settings ==
    [url : STRING, method : STRING, headers : STRING, body : STRING, bodyFile : STRING,
     payloadDir : STRING, protocol : STRING, service : STRING, streaming : BOOLEAN,
     format : STRING, concurrency : Int, duration : Int, requests : Int, timeout : Int,
     qps : Int, rampUp : Int, price : Int]

\* TrimSpace, and ToUpper of the method, ToLower of the protocol and the format.
Clean(f, text) ==
    IF f \in DOMAIN Spellings /\ text \in DOMAIN Spellings[f] THEN Spellings[f][text] ELSE text

WithDefaults(given) ==
    [f \in FlagNames |-> IF f \in DOMAIN given THEN Clean(f, given[f]) ELSE FlagDefaults[f]]

ASSUME NAssumption == N \in Nat \ {0} /\ MaxSends \in Nat
ASSUME DocumentsAssumption == \A d \in DOMAIN Documents : Documents[d] \in Settings
ASSUME FlagSetsAssumption ==
    \A g \in FlagSets : DOMAIN g \subseteq FlagNames /\ WithDefaults(g) \in Settings
\* Rounding a rate or a price meets no ties.
ASSUME RateAssumption ==
    \A v \in {Documents[d] : d \in DOMAIN Documents} \cup {WithDefaults(g) : g \in FlagSets} :
        v.qps % 10 # 5 /\ v.price % 10 # 5
\* Trimming and changing the case a second time changes nothing.
ASSUME SpellingsAssumption ==
    /\ DOMAIN Spellings \subseteq {"url", "method", "headers", "protocol", "service", "format"}
    /\ \A f \in DOMAIN Spellings : \A text \in DOMAIN Spellings[f] :
          Spellings[f][text] \in STRING \ DOMAIN Spellings[f]
ASSUME MethodsAssumption == "GET" \in Methods /\ "" \notin Methods
ASSUME TargetsAssumption == "" \notin WebURLs \cup HostPorts
ASSUME BodiesAssumption == \A f \in DOMAIN Bodies : Bodies[f] \in STRING
\* The files of a directory have different names.
ASSUME DirsAssumption ==
    \A d \in DOMAIN Dirs :
        /\ Dirs[d] \in Seq(STRING)
        /\ \A i, k \in 1..Len(Dirs[d]) : Dirs[d][i] = Dirs[d][k] => i = k

\* A Config has the settings and what was read for them.
Loaded(v, content, files) ==
    [f \in FlagNames \cup {"bodyText", "payloadFiles"} |->
        CASE f \in {"body", "bodyText"} -> content
          [] f = "payloadFiles" -> files
          [] OTHER -> v[f]]

\* The zero value of Config.
Zero ==
    Loaded([FlagDefaults EXCEPT !.method = "", !.protocol = "", !.format = "",
                                !.concurrency = 0, !.timeout = 0], "", << >>)

Init ==
    /\ via \in {"cli", "api"}
    /\ path \in DOMAIN Documents \cup (IF via = "cli" THEN {"", "missing"} ELSE {})
    /\ flags \in IF via = "cli" THEN FlagSets ELSE {NoFlags}
    /\ secrets \in [master : Secrets, worker : Secrets]
    /\ stage = "start"
    /\ cfg = Zero
    /\ engine = [e \in Engines |-> "idle"]
    /\ job = [e \in Engines |-> Zero]
    /\ sent = [e \in Engines |-> << >>]
    /\ retest = NoFlags
    /\ second = Zero

-----------------------------------------------------------------------------
(* Validate.                                                               *)

GRPC(c) == c.protocol \in {"grpc", "grpc-stream"}

Valid(c) ==
    /\ c.url \in IF GRPC(c) THEN HostPorts ELSE WebURLs
    /\ c.protocol \in {"", "http"} => c.method \in Methods
    /\ c.concurrency > 0
    /\ c.duration >= 0 /\ c.requests >= 0 /\ c.duration + c.requests > 0
    /\ c.timeout > 0
    /\ c.format \in {"", "auto", "sse", "jsonl", "raw"}
    /\ c.protocol \in {"", "http", "grpc", "grpc-stream", "websocket"}
    /\ GRPC(c) => c.service # ""
    /\ c.qps >= 0
    /\ c.rampUp >= 0 /\ (c.duration > 0 => c.rampUp <= c.duration)
    /\ c.payloadDir # "" => c.payloadFiles # << >>

-----------------------------------------------------------------------------
(* The file.                                                               *)

ReadsBodyFile(d) == d.bodyFile # "" /\ d.body = ""
Listed(dir) == IF dir = "" THEN << >> ELSE Dirs[dir]

Readable(d) ==
    /\ ReadsBodyFile(d) => d.bodyFile \in DOMAIN Bodies
    /\ d.payloadDir \in DOMAIN Dirs \cup {""}

\* A body in the document goes before a body file; a payload directory is
\* listed beside them.
ToConfig(d) ==
    LET content == IF ReadsBodyFile(d) THEN Bodies[d.bodyFile] ELSE d.body
    IN  [Loaded(d, content, Listed(d.payloadDir)) EXCEPT !.timeout = IF @ = 0 THEN 30 ELSE @]

\* LoadFile: the file must be valid by itself, before any flag is applied.
LoadFile ==
    /\ via = "cli" /\ path # "" /\ stage = "start"
    /\ IF /\ path \in DOMAIN Documents
          /\ Readable(Documents[path])
          /\ Valid(ToConfig(Documents[path]))
       THEN stage' = "loaded" /\ cfg' = ToConfig(Documents[path])
       ELSE stage' = "rejected" /\ UNCHANGED cfg
    /\ UNCHANGED <<inputs, engine, job, sent, report>>

-----------------------------------------------------------------------------
(* The flags.                                                              *)

\* The texts are clean already.  loadPayloadSource: a directory, else a file, else
\* the inline body.
FromFlags(v) ==
    LET content == CASE v.payloadDir # "" -> ""
                     [] v.payloadDir = "" /\ v.bodyFile # "" -> Bodies[v.bodyFile]
                     [] OTHER -> v.body
    IN  Loaded(v, content, Listed(v.payloadDir))

\* Merge: flags that were given replace the value of the file.
MergePlain(base, overlay, explicit) ==
    [f \in DOMAIN base |-> IF f \in explicit \ PayloadFlags THEN overlay[f] ELSE base[f]]

\* Mutant: a body on the command line leaves the directory of the file.
MergeBodyBeside(base, overlay, explicit) ==
    IF {"body", "bodyFile"} \cap explicit = {} THEN base
    ELSE [base EXCEPT !.body = overlay.body, !.bodyText = overlay.bodyText]

\* The three payload sources replace each other, ...
MergeBody(base, overlay, explicit) ==
    IF {"body", "bodyFile"} \cap explicit = {} THEN base
    ELSE [base EXCEPT
            !.body = overlay.body, !.bodyText = overlay.bodyText,
            !.bodyFile = IF "bodyFile" \in explicit THEN overlay.bodyFile ELSE "",
            !.payloadDir = "", !.payloadFiles = << >>]

\* ... the directory last: one that is given as "" clears the others.
MergeDir(base, overlay, explicit) ==
    IF "payloadDir" \notin explicit THEN base
    ELSE [base EXCEPT !.body = "", !.bodyText = "", !.bodyFile = "",
                      !.payloadDir = overlay.payloadDir, !.payloadFiles = overlay.payloadFiles]

Merge(base, overlay, explicit) ==
    MergeDir(MergeBody(MergePlain(base, overlay, explicit), overlay, explicit), overlay, explicit)

\* At most one payload source, well-formed headers, files that can be read.
Parsable(v) ==
    /\ Cardinality({f \in PayloadFlags : v[f] # ""}) <= 1
    /\ v.headers # "comma"
    /\ v.bodyFile \in DOMAIN Bodies \cup {""}
    /\ v.payloadDir \in DOMAIN Dirs \cup {""}

\* The part of Parse behind the flag package, with a file or without one.
Parse(given, withFile, base) ==
    LET fromFlags == FromFlags(WithDefaults(given))
    IN  IF withFile THEN Merge(base, fromFlags, DOMAIN given) ELSE fromFlags

Accepted(given, withFile, base) ==
    Parsable(WithDefaults(given)) /\ Valid(Parse(given, withFile, base))

ParseFlags ==
    /\ via = "cli"
    /\ stage = IF path = "" THEN "start" ELSE "loaded"
    /\ IF Accepted(flags, path # "", cfg)
       THEN stage' = "accepted" /\ cfg' = Parse(flags, path # "", cfg)
       ELSE stage' = "rejected" /\ UNCHANGED cfg
    /\ UNCHANGED <<inputs, engine, job, sent, report>>

-----------------------------------------------------------------------------
(* The wire.                                                               *)

\* Encoded to JSON and decoded again, a configuration has lost the fields that
\* are not encoded.
Wire(c) == [c EXCEPT !.body = "", !.payloadFiles = << >>]

\* A job in the body of POST /api/jobs is decoded straight into a Config.
SubmitJob ==
    /\ via = "api" /\ stage = "start"
    /\ cfg' = Wire(Loaded(Documents[path], Documents[path].body, << >>))
    /\ stage' = IF Valid(cfg') THEN "accepted" ELSE "rejected"
    /\ UNCHANGED <<inputs, engine, job, sent, report>>

\* Mutant: one request too many when they do not divide evenly.
ShardConfigOver(c, index) ==
    IF N <= 1 \/ c.requests = 0 THEN c
    ELSE [c EXCEPT !.requests = (@ \div N) + (IF index <= (@ % N) THEN 1 ELSE 0)]

\* The part of the job for the worker at this index of the address list.
ShardConfig(c, index) ==
    IF N <= 1 \/ c.requests = 0 THEN c
    ELSE [c EXCEPT !.requests = (@ \div N) + (IF index < (@ % N) THEN 1 ELSE 0)]

\* SignJob of the one job there is.
SignJob(secret) == IF secret = "" THEN "" ELSE secret
VerifyJob(signature, secret) == secret = "" \/ signature = SignJob(secret)

\* The factories that the protocol packages register.  Those of gRPC dial the
\* target and ask it for the method, and fail when that does not succeed.
Factories == {"http", "grpc", "grpc-stream", "websocket"}
Built(c, resolved) == c.protocol \in Factories \cup {""} /\ (GRPC(c) => resolved)

\* The main function of the local program, which ends if there is no runner.
RunLocal(resolved) ==
    /\ stage = "accepted" /\ via = "cli"
    /\ IF Built(cfg, resolved)
       THEN /\ stage' = "running"
            /\ engine' = [engine EXCEPT ![0] = "running"]
            /\ job' = [job EXCEPT ![0] = cfg]
       ELSE stage' = "rejected" /\ UNCHANGED <<engine, job>>
    /\ UNCHANGED <<inputs, cfg, sent, report>>

\* Master.Run and dispatch: every worker is sent its part.
Dispatch ==
    /\ stage = "accepted"
    /\ stage' = "running"
    /\ engine' = [e \in Engines |-> IF e \in Workers THEN "offered" ELSE "idle"]
    /\ job' = [e \in Engines |-> IF e \in Workers THEN Wire(ShardConfig(cfg, e - 1)) ELSE Zero]
    /\ UNCHANGED <<inputs, cfg, sent, report>>

\* handleRun decodes, validates and verifies the job, and builds the runner.  (The
\* capacity is in WorkerNode.)
Admissible(w) == Valid(job[w]) /\ VerifyJob(SignJob(secrets.master), secrets.worker)

HandleRun(w, resolved) ==
    /\ engine[w] = "offered"
    /\ engine' = [engine EXCEPT ![w] =
          CASE ~Admissible(w) -> "refused"
            [] Admissible(w) /\ ~Built(job[w], resolved) -> "unbuilt"
            [] OTHER -> "running"]
    /\ UNCHANGED <<inputs, stage, cfg, job, sent, report>>

-----------------------------------------------------------------------------
(* The payloads.                                                           *)

\* newPayloadPicker: files, or the body, or nothing.
Picker(c) ==
    IF c.payloadFiles # << >> THEN c.payloadFiles
    ELSE IF c.body # "" THEN <<c.body>> ELSE << >>

\* Mutant: the last payload has no turn.
NextPayloadShort(payloads, index) ==
    IF payloads = << >> THEN "" ELSE payloads[(index % Max({1, Len(payloads) - 1})) + 1]

\* payloadPicker.Next, with the counter at index.
NextPayload(payloads, index) ==
    IF payloads = << >> THEN "" ELSE payloads[(index % Len(payloads)) + 1]

\* An engine sends its next request.  (How many it sends is in Engine.)
SendRequest(e) ==
    /\ engine[e] = "running" /\ stage = "running"
    /\ Len(sent[e]) < MaxSends
    /\ sent' = [sent EXCEPT ![e] = Append(@, NextPayload(Picker(job[e]), Len(@)))]
    /\ UNCHANGED <<inputs, stage, cfg, engine, job, report>>

-----------------------------------------------------------------------------
(* The report.                                                             *)

\* A body of more than 4000 bytes is cut; the rate has one decimal and the price
\* four.
Rounded(number) == ((number + 5) \div 10) * 10
Printed(c) ==
    [c EXCEPT !.body = IF @ = "long" THEN "cut" ELSE @, !.qps = Rounded(@), !.price = Rounded(@)]

\* The flags that the command has: those that differ from their defaults, and one
\* payload source.
RequestFlags(c) ==
    [url |-> TRUE, timeout |-> TRUE,
     method     |-> c.method \notin {"", "GET"},
     headers    |-> c.headers # "none",
     body       |-> c.body # "",
     bodyFile   |-> c.body = "" /\ c.bodyFile # "",
     payloadDir |-> c.body = "" /\ c.bodyFile = "" /\ c.payloadDir # "",
     protocol   |-> c.protocol \notin {"", "http"},
     service    |-> GRPC(c),
     streaming  |-> c.streaming,
     format     |-> c.streaming /\ c.format \notin {"", "auto"},
     price      |-> c.price > 0]

\* Mutant: a run with a duration has its number of requests left out.
LoadFlagsEither(c) ==
    [concurrency |-> TRUE, duration |-> c.duration > 0,
     requests |-> c.requests > 0 /\ c.duration = 0, qps |-> c.qps > 0, rampUp |-> c.rampUp > 0]

LoadFlags(c) ==
    [concurrency |-> TRUE, duration |-> c.duration > 0, requests |-> c.requests > 0,
     qps |-> c.qps > 0, rampUp |-> c.rampUp > 0]

\* buildRetestCommand.
Named(flagSet) == {f \in DOMAIN flagSet : flagSet[f]}
RetestCommand(c) ==
    [f \in Named(RequestFlags(c)) \cup Named(LoadFlags(c)) |-> Printed(c)[f]]

\* The run is over and its report is written.
WriteReport ==
    /\ stage = "running" /\ via = "cli"
    /\ \A e \in Engines : engine[e] # "offered"
    /\ stage' = "reported"
    /\ retest' = RetestCommand(cfg)
    /\ UNCHANGED <<inputs, cfg, engine, job, sent, second>>

\* The command of the report is given to the local program: only flags, no file
\* and no workers.
Retest ==
    /\ stage = "reported"
    /\ stage' = "again"
    /\ second' = IF Accepted(retest, FALSE, Zero) THEN Parse(retest, FALSE, Zero) ELSE Zero
    /\ UNCHANGED <<inputs, cfg, engine, job, sent, retest>>

Next ==
    \/ LoadFile \/ ParseFlags \/ SubmitJob \/ Dispatch
    \/ \E resolved \in BOOLEAN : RunLocal(resolved)
    \/ \E w \in Workers, resolved \in BOOLEAN : HandleRun(w, resolved)
    \/ \E e \in Engines : SendRequest(e)
    \/ WriteReport \/ Retest

Spec == Init /\ [][Next]_vars

-----------------------------------------------------------------------------
(* Properties.                                                             *)

\* What a source provides: an empty body is none.
Alone(body) == IF body = "" THEN << >> ELSE <<body>>
Source(v) ==
    CASE v.payloadDir # "" -> Dirs[v.payloadDir]
      [] v.payloadDir = "" /\ v.body = "" /\ v.bodyFile # "" -> Alone(Bodies[v.bodyFile])
      [] OTHER -> Alone(v.body)

\* The requests carry the payload of one place: the source named on the command
\* line or, if none of the three flags is given, that of the file, never a
\* mixture of the two (TestMergePayloadSourceOverridesAreExclusive).  The one
\* exception is an empty --payload-dir over a file, which also clears a body
\* given beside it.
OneSource ==
    stage = "accepted" /\ via = "cli" =>
        LET given == PayloadFlags \cap DOMAIN flags
            named == WithDefaults(flags)
        IN  /\ Picker(cfg) =
                 CASE given = {} /\ path # "" -> Source(Documents[path])
                   [] given = {} /\ path = "" -> << >>
                   [] path # "" /\ "payloadDir" \in given /\ named.payloadDir = "" -> << >>
                   [] OTHER -> Source(named)
            /\ given # {} /\ cfg.payloadFiles # << >> => cfg.body = ""

\* Two validators agree: a worker runs its part of every job that the master
\* accepted, and the parts add up to the requests of the job.  Refused are only
\* the parts of a job with a payload directory, a part of no requests when
\* nothing else limits it, and jobs signed with another secret; and only a gRPC
\* job can fail for want of a runner, when its target does not answer.
Offered == {w \in Workers : engine[w] # "idle"}
Parts == [w \in Offered |-> job[w].requests]

PartsAccepted ==
    /\ \A w \in Workers : engine[w] = "refused" =>
          \/ cfg.payloadDir # ""
          \/ cfg.requests < N /\ cfg.duration = 0
          \/ secrets.worker # "" /\ secrets.master # secrets.worker
    /\ \A w \in Workers : engine[w] = "unbuilt" => GRPC(cfg)
    /\ stage = "running" /\ Offered # {} /\ cfg.requests > 0 /\ N > 1 =>
          MapThenSumSet(LAMBDA w : Parts[w], Offered) = cfg.requests

\* The payloads of the configuration take turns: each has been sent as often
\* as any other or once less, and a run without files sends its body alone.
Times(e, p) == Cardinality({k \in 1..Len(sent[e]) : sent[e][k] = p})
Payloads(c) == {Picker(c)[k] : k \in 1..Len(Picker(c))}

PayloadsTakeTurns ==
    engine[0] = "running" =>
        /\ \A k \in 1..Len(sent[0]) :
              IF Picker(cfg) = << >> THEN sent[0][k] = "" ELSE sent[0][k] \in Payloads(cfg)
        /\ \A p, q \in Payloads(cfg) : Times(0, p) <= Times(0, q) + 1

\* What a run does, with the choices the runners make for what is left open.
Effective(c) ==
    [url |-> c.url, headers |-> c.headers, payloads |-> Picker(c),
     method |-> IF c.protocol \in {"", "http"} THEN c.method ELSE "",
     protocol |-> IF c.protocol = "" THEN "http" ELSE c.protocol,
     service |-> IF GRPC(c) THEN c.service ELSE "",
     format |-> IF ~c.streaming THEN "none" ELSE IF c.format = "" THEN "auto" ELSE c.format,
     price |-> IF c.price > 0 THEN Rounded(c.price) ELSE 0,
     load |-> <<c.concurrency, c.duration, c.requests, c.timeout, c.rampUp, Rounded(c.qps)>>]

\* The command in the report repeats the run of this process (agent.go:116: "Run
\* this after making fixes to verify improvement"), to the decimals of rate and
\* price, if the command line can say what the file said: one payload source, no
\* text that Parse would trim or change the case of, no comma in a header, a body
\* that is not cut, and a rate and a price that do not round to none.
Repeatable(c) ==
    /\ c.payloadDir # "" => c.body = "" /\ c.bodyFile = ""
    /\ \A f \in FlagNames : Clean(f, c[f]) = c[f]
    /\ c.headers # "comma" /\ c.body # "long"
    /\ c.qps > 0 => Rounded(c.qps) > 0
    /\ c.price > 0 => Rounded(c.price) > 0

RetestRepeats ==
    stage = "again" /\ engine[0] = "running" /\ Repeatable(cfg) => Effective(second) = Effective(cfg)

\* docs/advanced/distributed.md:15 starts a distributed run with --body, and
\* README.md:89 describes it as "The JSON payload sent on every request": the
\* engines of the workers send the payloads of the configuration.
WorkersSendPayload ==
    \A w \in Workers : sent[w] # << >> =>
        /\ Picker(cfg) # << >> => sent[w][1] = Picker(cfg)[1]
        /\ cfg.bodyText # "" /\ cfg.payloadDir = "" => sent[w][1] = cfg.bodyText
=============================================================================
