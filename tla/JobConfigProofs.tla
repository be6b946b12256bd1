--------------------------- MODULE JobConfigProofs ---------------------------
(***************************************************************************)
(* Proofs about JobConfig, for any files, flags, directories and secrets   *)
(* and any number of workers: a configuration keeps one payload source, a  *)
(* job is split into parts that the workers accept, payloads take turns,   *)
(* and the command in the report repeats the run.                          *)
(*                                                                         *)
(* Induction is done with sets, and sums are those of parts of a finite    *)
(* set, both as in StatsProofs.                                            *)
(***************************************************************************)
EXTENDS JobConfig, FiniteSetTheorems, FunctionTheorems, SequenceTheorems, WellFoundedInduction, TLAPS

-----------------------------------------------------------------------------
(* The inductive invariant.                                                *)

\* The strings; the literals are named because the provers take them for no more
\* than different values.
Texts == STRING \cup {"", "GET", "none", "http", "auto", "cut"}

ConfigFields == FlagNames \cup {"bodyText", "payloadFiles"}

\* What is written in a document, on a command line or in a configuration has
\* these types.
HasTypes(v) ==
    /\ v.url \in Texts /\ v.method \in Texts /\ v.headers \in Texts /\ v.protocol \in Texts
    /\ v.service \in Texts /\ v.streaming \in BOOLEAN /\ v.format \in Texts
    /\ v.body \in Texts /\ v.bodyFile \in Texts /\ v.payloadDir \in Texts
    /\ v.concurrency \in Int /\ v.duration \in Int /\ v.requests \in Int /\ v.timeout \in Int
    /\ v.qps \in Int /\ v.rampUp \in Int /\ v.price \in Int

IsConfig(c) ==
    /\ DOMAIN c = ConfigFields
    /\ HasTypes(c) /\ c.bodyText \in Texts /\ c.payloadFiles \in Seq(Texts)

TypeInv ==
    /\ via \in {"cli", "api"}
    /\ via = "api" => path \in DOMAIN Documents
    /\ via = "cli" => flags \in FlagSets
    /\ stage \in {"start", "loaded", "accepted", "rejected", "running", "reported", "again"}
    /\ IsConfig(cfg)
    /\ engine \in [Engines -> {"idle", "offered", "running", "refused", "unbuilt"}]
    /\ DOMAIN job = Engines /\ \A e \in Engines : IsConfig(job[e])
    /\ sent \in [Engines -> Seq(Texts)]

\* Where the configuration comes from.
FileConfig == IF path = "" THEN Zero ELSE ToConfig(Documents[path])
FileRead == path # "" => path \in DOMAIN Documents /\ Readable(Documents[path])
Submitted == Wire(Loaded(Documents[path], Documents[path].body, << >>))
Ran == stage \in {"running", "reported", "again"}

ConfigInv ==
    /\ stage = "start" => cfg = Zero
    /\ stage = "loaded" => via = "cli" /\ path # "" /\ FileRead /\ cfg = FileConfig
    /\ stage = "accepted" \/ Ran =>
          /\ Valid(cfg)
          /\ via = "cli" =>
                /\ FileRead /\ Parsable(WithDefaults(flags))
                /\ cfg = Parse(flags, path # "", FileConfig)

\* The job runs in the local engine or in those of the workers.
EngineInv ==
    /\ ~Ran => \A e \in Engines : engine[e] = "idle"
    /\ engine[0] \in {"idle", "running"}
    /\ engine[0] = "running" =>
          via = "cli" /\ job[0] = cfg /\ \A w \in Workers : engine[w] = "idle"
    /\ \A w \in Workers : engine[w] # "idle" =>
          /\ \A v \in Workers : engine[v] # "idle"
          /\ job[w] = Wire(ShardConfig(cfg, w - 1))
          /\ engine[w] = "refused" => ~Admissible(w)
          /\ engine[w] = "unbuilt" => Admissible(w) /\ ~Built(job[w], FALSE)

\* The counter of the picker is the number of requests sent.
SentInv ==
    /\ engine[0] = "idle" => sent[0] = << >>
    /\ \A k \in 1..Len(sent[0]) : sent[0][k] = NextPayload(Picker(cfg), k - 1)

\* The command in the report is that of the configuration that ran.
ReportInv ==
    /\ stage \in {"reported", "again"} => via = "cli" /\ retest = RetestCommand(cfg)
    /\ stage = "again" =>
          second = IF Accepted(retest, FALSE, Zero) THEN Parse(retest, FALSE, Zero) ELSE Zero

JobInv == TypeInv /\ ConfigInv /\ EngineInv /\ SentInv /\ ReportInv

-----------------------------------------------------------------------------
(* The fields of configurations.                                           *)

LEMMA LoadedFields ==
    ASSUME NEW v, NEW content, NEW files, NEW c, c = Loaded(v, content, files)
    PROVE  /\ DOMAIN c = ConfigFields
           /\ c.body = content /\ c.bodyText = content /\ c.payloadFiles = files
           /\ \A f \in FlagNames \ {"body"} : c[f] = v[f]
  BY DEF Loaded, ConfigFields, FlagNames, FlagDefaults

\* The names of the fields other than the body.
LEMMA Names ==
    /\ {"url", "method", "headers", "bodyFile", "payloadDir", "protocol", "service", "streaming",
        "format", "concurrency", "duration", "requests", "timeout", "qps", "rampUp",
        "price"}
          = FlagNames \ {"body"}
    /\ "body" \in FlagNames
    /\ "bodyText" \notin FlagNames /\ "payloadFiles" \notin FlagNames
  BY DEF FlagNames, FlagDefaults

LEMMA LoadedTypes ==
    ASSUME NEW v, HasTypes(v), NEW content \in Texts, NEW files \in Seq(Texts)
    PROVE  IsConfig(Loaded(v, content, files))
  <1> DEFINE c == Loaded(v, content, files)
  <1>1. /\ DOMAIN c = ConfigFields
        /\ c.body = content /\ c.bodyText = content /\ c.payloadFiles = files
        /\ \A f \in FlagNames \ {"body"} : c[f] = v[f]
    BY LoadedFields
  <1> HIDE DEF c
  <1>2. /\ c.url = v.url /\ c.method = v.method /\ c.headers = v.headers
        /\ c.bodyFile = v.bodyFile /\ c.payloadDir = v.payloadDir /\ c.protocol = v.protocol
        /\ c.service = v.service /\ c.streaming = v.streaming /\ c.format = v.format
        /\ c.concurrency = v.concurrency /\ c.duration = v.duration /\ c.requests = v.requests
        /\ c.timeout = v.timeout /\ c.qps = v.qps /\ c.rampUp = v.rampUp /\ c.price = v.price
    BY <1>1, Names
  <1>3. IsConfig(c)
    BY <1>1, <1>2 DEF IsConfig, HasTypes
  <1> QED
    BY <1>3 DEF c

LEMMA SettingsTypes ==
    ASSUME NEW v \in Settings
    PROVE  HasTypes(v)
  BY DEF Settings, HasTypes, Texts

LEMMA EmptySequence ==
    ASSUME NEW S
    PROVE  << >> \in Seq(S)
  OBVIOUS

LEMMA OneSequence ==
    ASSUME NEW S, NEW x \in S
    PROVE  <<x>> \in Seq(S) /\ Len(<<x>>) = 1 /\ <<x>>[1] = x /\ <<x>> # << >>
  OBVIOUS

LEMMA WiderSequence ==
    ASSUME NEW S, NEW T, S \subseteq T, NEW s \in Seq(S)
    PROVE  s \in Seq(T)
  OBVIOUS

LEMMA ListedType ==
    ASSUME NEW dir \in DOMAIN Dirs \cup {""}
    PROVE  Listed(dir) \in Seq(Texts)
  <1>1. CASE dir = ""
    BY <1>1, EmptySequence DEF Listed
  <1>2. CASE dir # ""
    <2>1. Dirs[dir] \in Seq(STRING) /\ STRING \subseteq Texts
      BY <1>2, DirsAssumption DEF Texts
    <2> QED
      BY <1>2, <2>1, WiderSequence DEF Listed
  <1> QED
    BY <1>1, <1>2

\* The defaults have the types that are written down.
LEMMA ZeroTypes == IsConfig(Zero)
  <1> DEFINE v == [FlagDefaults EXCEPT !.method = "", !.protocol = "", !.format = "",
                                       !.concurrency = 0, !.timeout = 0]
  <1>1. HasTypes(v)
    BY DEF HasTypes, FlagDefaults, Texts
  <1>2. << >> \in Seq(Texts) /\ "" \in Texts
    BY EmptySequence DEF Texts
  <1> HIDE DEF v
  <1>3. IsConfig(Loaded(v, "", << >>))
    BY <1>1, <1>2, LoadedTypes
  <1> QED
    BY <1>3 DEF Zero, v

\* A file gives a configuration, ...
LEMMA ToConfigFields ==
    ASSUME NEW d \in Settings, Readable(d)
    PROVE  LET c == ToConfig(d) IN
           /\ IsConfig(c)
           /\ c.body = IF ReadsBodyFile(d) THEN Bodies[d.bodyFile] ELSE d.body
           /\ c.bodyFile = d.bodyFile /\ c.payloadDir = d.payloadDir
           /\ c.payloadFiles = Listed(d.payloadDir)
  <1> DEFINE content == IF ReadsBodyFile(d) THEN Bodies[d.bodyFile] ELSE d.body
             l == Loaded(d, content, Listed(d.payloadDir))
             c == [l EXCEPT !.timeout = IF @ = 0 THEN 30 ELSE @]
  <1>1. HasTypes(d)
    BY SettingsTypes
  <1>2. content \in Texts
    BY <1>1, BodiesAssumption DEF Readable, HasTypes, Texts
  <1>3. Listed(d.payloadDir) \in Seq(Texts)
    BY ListedType DEF Readable
  <1> HIDE DEF content
  <1>4. IsConfig(l)
    BY <1>1, <1>2, <1>3, LoadedTypes
  <1>5. /\ l.body = content /\ l.payloadFiles = Listed(d.payloadDir)
        /\ l.bodyFile = d.bodyFile /\ l.payloadDir = d.payloadDir
    BY LoadedFields, Names
  <1> HIDE DEF l
  <1>6. "timeout" \in ConfigFields
    BY Names DEF ConfigFields
  <1>7. IsConfig(c)
    BY <1>4, <1>6 DEF IsConfig, HasTypes
  <1>8. c.body = l.body /\ c.payloadFiles = l.payloadFiles /\ c.bodyFile = l.bodyFile
        /\ c.payloadDir = l.payloadDir
    BY <1>4, Names DEF IsConfig, ConfigFields
  <1>9. ToConfig(d) = c
    BY DEF ToConfig, c, l, content
  <1> HIDE DEF c
  <1> QED
    BY <1>5, <1>7, <1>8, <1>9 DEF content

\* ... and so do flags, ...
LEMMA FlagFields ==
    ASSUME NEW v
    PROVE  /\ FromFlags(v).body = CASE v.payloadDir # "" -> ""
                                    [] v.payloadDir = "" /\ v.bodyFile # "" -> Bodies[v.bodyFile]
                                    [] OTHER -> v.body
           /\ FromFlags(v).payloadFiles = Listed(v.payloadDir)
           /\ \A f \in FlagNames \ {"body"} : FromFlags(v)[f] = v[f]
  <1> DEFINE content == CASE v.payloadDir # "" -> ""
                          [] v.payloadDir = "" /\ v.bodyFile # "" -> Bodies[v.bodyFile]
                          [] OTHER -> v.body
             l == Loaded(v, content, Listed(v.payloadDir))
  <1>1. FromFlags(v) = l
    BY DEF FromFlags
  <1> HIDE DEF content
  <1>2. /\ l.body = content /\ l.payloadFiles = Listed(v.payloadDir)
        /\ \A f \in FlagNames \ {"body"} : l[f] = v[f]
    BY LoadedFields
  <1> HIDE DEF l
  <1> QED
    BY <1>1, <1>2 DEF content

LEMMA FlagTypes ==
    ASSUME NEW v, HasTypes(v), Parsable(v)
    PROVE  IsConfig(FromFlags(v))
  <1> DEFINE content == CASE v.payloadDir # "" -> ""
                          [] v.payloadDir = "" /\ v.bodyFile # "" -> Bodies[v.bodyFile]
                          [] OTHER -> v.body
  <1>1. content \in Texts
    <2>1. "" \in Texts /\ v.body \in Texts
      BY DEF HasTypes, Texts
    <2>2. v.bodyFile # "" => Bodies[v.bodyFile] \in Texts
      BY BodiesAssumption DEF Parsable, Texts
    <2> QED
      BY <2>1, <2>2
  <1>2. Listed(v.payloadDir) \in Seq(Texts)
    BY ListedType DEF Parsable
  <1>3. FromFlags(v) = Loaded(v, content, Listed(v.payloadDir))
    BY DEF FromFlags
  <1> HIDE DEF content
  <1> QED
    BY <1>1, <1>2, <1>3, LoadedTypes

\* ... and flags over a file.
LEMMA MergePlainFields ==
    ASSUME NEW base, IsConfig(base), NEW overlay, IsConfig(overlay),
           NEW explicit \in SUBSET FlagNames
    PROVE  LET c == MergePlain(base, overlay, explicit) IN
           /\ IsConfig(c)
           /\ c.body = base.body /\ c.bodyFile = base.bodyFile
           /\ c.payloadDir = base.payloadDir /\ c.payloadFiles = base.payloadFiles
  <1> DEFINE c == [f \in DOMAIN base |-> IF f \in explicit \ PayloadFlags THEN overlay[f] ELSE base[f]]
  <1>1. DOMAIN c = ConfigFields /\ DOMAIN base = ConfigFields
    BY DEF IsConfig
  <1>2. \A f \in ConfigFields : c[f] = base[f] \/ c[f] = overlay[f]
    BY <1>1
  <1>3. \A f \in ConfigFields : f \notin FlagNames \ PayloadFlags => c[f] = base[f]
    BY <1>1
  <1>6. MergePlain(base, overlay, explicit) = c
    BY DEF MergePlain
  <1> HIDE DEF c
  <1>4. /\ c.body = base.body /\ c.bodyFile = base.bodyFile /\ c.payloadDir = base.payloadDir
        /\ c.payloadFiles = base.payloadFiles /\ c.bodyText = base.bodyText
    BY <1>3, Names DEF ConfigFields, PayloadFlags
  <1>5. IsConfig(c)
    BY <1>1, <1>2, <1>4, Names DEF IsConfig, HasTypes, ConfigFields
  <1> QED
    BY <1>4, <1>5, <1>6

\* Where the payload of a merged configuration comes from.
MergedPayload(c, base, overlay, explicit) ==
    /\ "payloadDir" \in explicit =>
          /\ c.body = "" /\ c.bodyFile = ""
          /\ c.payloadDir = overlay.payloadDir /\ c.payloadFiles = overlay.payloadFiles
    /\ "payloadDir" \notin explicit /\ {"body", "bodyFile"} \cap explicit # {} =>
          /\ c.body = overlay.body
          /\ c.bodyFile = IF "bodyFile" \in explicit THEN overlay.bodyFile ELSE ""
          /\ c.payloadDir = "" /\ c.payloadFiles = << >>
    /\ "payloadDir" \notin explicit /\ {"body", "bodyFile"} \cap explicit = {} =>
          /\ c.body = base.body /\ c.bodyFile = base.bodyFile
          /\ c.payloadDir = base.payloadDir /\ c.payloadFiles = base.payloadFiles

LEMMA MergeFields ==
    ASSUME NEW base, IsConfig(base), NEW overlay, IsConfig(overlay),
           NEW explicit \in SUBSET FlagNames
    PROVE  /\ IsConfig(Merge(base, overlay, explicit))
           /\ MergedPayload(Merge(base, overlay, explicit), base, overlay, explicit)
  <1> DEFINE p == MergePlain(base, overlay, explicit)
             b == MergeBody(p, overlay, explicit)
             m == MergeDir(b, overlay, explicit)
             inBody == {"body", "bodyFile"} \cap explicit # {}
             inDir == "payloadDir" \in explicit
  <1>1. /\ IsConfig(p)
        /\ p.body = base.body /\ p.bodyFile = base.bodyFile
        /\ p.payloadDir = base.payloadDir /\ p.payloadFiles = base.payloadFiles
    BY MergePlainFields
  <1> HIDE DEF p
  <1>2. "" \in Texts /\ << >> \in Seq(Texts)
    BY EmptySequence DEF Texts
  <1>3. {"body", "bodyText", "bodyFile", "payloadDir", "payloadFiles"} \subseteq ConfigFields
    BY Names DEF ConfigFields
  <1>4. /\ IsConfig(b)
        /\ b.body = IF inBody THEN overlay.body ELSE base.body
        /\ b.bodyFile = IF inBody THEN IF "bodyFile" \in explicit THEN overlay.bodyFile ELSE ""
                        ELSE base.bodyFile
        /\ b.payloadDir = IF inBody THEN "" ELSE base.payloadDir
        /\ b.payloadFiles = IF inBody THEN << >> ELSE base.payloadFiles
    <2>1. CASE ~inBody
      BY <1>1, <2>1 DEF MergeBody
    <2>2. CASE inBody
      <3> DEFINE file == IF "bodyFile" \in explicit THEN overlay.bodyFile ELSE ""
                 r == [p EXCEPT !.body = overlay.body, !.bodyText = overlay.bodyText,
                                !.bodyFile = file, !.payloadDir = "", !.payloadFiles = << >>]
      <3>1. b = r
        BY <2>2 DEF MergeBody
      <3>2. file \in Texts
        BY <1>2 DEF IsConfig, HasTypes
      <3> HIDE DEF file
      <3>3. /\ DOMAIN r = ConfigFields
            /\ r.body = overlay.body /\ r.bodyText = overlay.bodyText /\ r.bodyFile = file
            /\ r.payloadDir = "" /\ r.payloadFiles = << >>
            /\ \A f \in ConfigFields \ {"body", "bodyText", "bodyFile", "payloadDir", "payloadFiles"} :
                  r[f] = p[f]
        BY <1>1, <1>3 DEF IsConfig
      <3> HIDE DEF r
      <3>4. IsConfig(r)
        BY <1>1, <1>2, <3>2, <3>3, Names DEF IsConfig, HasTypes, ConfigFields
      <3> QED
        BY <2>2, <3>1, <3>3, <3>4 DEF file
    <2> QED
      BY <2>1, <2>2
  <1> HIDE DEF b
  <1>5. /\ IsConfig(m)
        /\ m.body = IF inDir THEN "" ELSE b.body
        /\ m.bodyFile = IF inDir THEN "" ELSE b.bodyFile
        /\ m.payloadDir = IF inDir THEN overlay.payloadDir ELSE b.payloadDir
        /\ m.payloadFiles = IF inDir THEN overlay.payloadFiles ELSE b.payloadFiles
    <2>1. CASE ~inDir
      BY <1>4, <2>1 DEF MergeDir
    <2>2. CASE inDir
      <3> DEFINE r == [b EXCEPT !.body = "", !.bodyText = "", !.bodyFile = "",
                                !.payloadDir = overlay.payloadDir, !.payloadFiles = overlay.payloadFiles]
      <3>1. m = r
        BY <2>2 DEF MergeDir
      <3>2. /\ DOMAIN r = ConfigFields
            /\ r.body = "" /\ r.bodyText = "" /\ r.bodyFile = ""
            /\ r.payloadDir = overlay.payloadDir /\ r.payloadFiles = overlay.payloadFiles
            /\ \A f \in ConfigFields \ {"body", "bodyText", "bodyFile", "payloadDir", "payloadFiles"} :
                  r[f] = b[f]
        BY <1>3, <1>4 DEF IsConfig
      <3> HIDE DEF r
      <3>3. IsConfig(r)
        BY <1>2, <1>4, <3>2, Names DEF IsConfig, HasTypes, ConfigFields
      <3> QED
        BY <2>2, <3>1, <3>2, <3>3
    <2> QED
      BY <2>1, <2>2
  <1>6. Merge(base, overlay, explicit) = m
    BY DEF Merge, m, b, p
  <1> HIDE DEF m
  <1>7. MergedPayload(m, base, overlay, explicit)
    BY <1>4, <1>5 DEF MergedPayload
  <1> QED
    BY <1>5, <1>6, <1>7

LEMMA ParseType ==
    ASSUME NEW given, DOMAIN given \subseteq FlagNames, HasTypes(WithDefaults(given)),
           Parsable(WithDefaults(given)), NEW base, IsConfig(base), NEW withFile \in BOOLEAN
    PROVE  IsConfig(Parse(given, withFile, base))
  <1> DEFINE overlay == FromFlags(WithDefaults(given))
  <1>1. IsConfig(overlay)
    BY FlagTypes
  <1> HIDE DEF overlay
  <1>2. IsConfig(Merge(base, overlay, DOMAIN given))
    BY <1>1, MergeFields
  <1> QED
    BY <1>1, <1>2 DEF Parse, overlay

LEMMA WireFields ==
    ASSUME NEW c, IsConfig(c)
    PROVE  /\ IsConfig(Wire(c))
           /\ Wire(c).body = "" /\ Wire(c).payloadFiles = << >>
           /\ \A f \in ConfigFields \ {"body", "payloadFiles"} : Wire(c)[f] = c[f]
  <1>1. "body" \in ConfigFields /\ "payloadFiles" \in ConfigFields
    BY Names DEF ConfigFields
  <1>2. /\ DOMAIN Wire(c) = ConfigFields
        /\ Wire(c).body = "" /\ Wire(c).payloadFiles = << >>
        /\ \A f \in ConfigFields \ {"body", "payloadFiles"} : Wire(c)[f] = c[f]
    BY <1>1 DEF Wire, IsConfig
  <1>3. "" \in Texts /\ << >> \in Seq(Texts)
    BY EmptySequence DEF Texts
  <1>4. IsConfig(Wire(c))
    BY <1>2, <1>3, Names DEF IsConfig, HasTypes, ConfigFields
  <1> QED
    BY <1>2, <1>4

\* The part of a job differs from the job in its requests.
Share(c, index) == (c.requests \div N) + (IF index < c.requests % N THEN 1 ELSE 0)

LEMMA ShardFields ==
    ASSUME NEW c, IsConfig(c), c.requests >= 0, NEW index \in Nat
    PROVE  LET s == ShardConfig(c, index) IN
           /\ IsConfig(s)
           /\ s.requests = IF N <= 1 \/ c.requests = 0 THEN c.requests ELSE Share(c, index)
           /\ \A f \in ConfigFields \ {"requests"} : s[f] = c[f]
  <1>1. CASE N <= 1 \/ c.requests = 0
    BY <1>1 DEF ShardConfig
  <1>2. CASE ~(N <= 1 \/ c.requests = 0)
    <2> DEFINE s == [c EXCEPT !.requests = Share(c, index)]
    <2>1. ShardConfig(c, index) = s
      BY <1>2, Names DEF ShardConfig, Share, IsConfig, ConfigFields
    <2>2. "requests" \in ConfigFields
      BY Names DEF ConfigFields
    <2>3. /\ DOMAIN s = ConfigFields /\ s.requests = Share(c, index)
          /\ \A f \in ConfigFields \ {"requests"} : s[f] = c[f]
      BY <2>2 DEF IsConfig
    <2>4. Share(c, index) \in Int
      <3>1. c.requests \in Int /\ N \in Nat \ {0}
        BY NAssumption DEF IsConfig, HasTypes
      <3> QED
        BY <3>1 DEF Share
    <2> HIDE DEF s
    <2>5. IsConfig(s)
      BY <2>3, <2>4, Names DEF IsConfig, HasTypes, ConfigFields
    <2> QED
      BY <1>2, <2>1, <2>3, <2>5
  <1> QED
    BY <1>1, <1>2

\* What is sent is a string.
LEMMA PickerType ==
    ASSUME NEW c, IsConfig(c)
    PROVE  Picker(c) \in Seq(Texts)
  <1>1. c.body \in Texts /\ c.payloadFiles \in Seq(Texts)
    BY DEF IsConfig, HasTypes
  <1>2. <<c.body>> \in Seq(Texts) /\ << >> \in Seq(Texts)
    BY <1>1, EmptySequence, OneSequence
  <1> QED
    BY <1>1, <1>2 DEF Picker

LEMMA NextType ==
    ASSUME NEW s \in Seq(Texts), NEW index \in Nat
    PROVE  NextPayload(s, index) \in Texts
  <1>1. CASE s = << >>
    BY <1>1 DEF NextPayload, Texts
  <1>2. CASE s # << >>
    <2>1. Len(s) \in Nat \ {0}
      BY <1>2
    <2>2. index % Len(s) \in 0..(Len(s) - 1)
      BY <2>1
    <2>3. (index % Len(s)) + 1 \in 1..Len(s)
      BY <2>1, <2>2
    <2> QED
      BY <1>2, <2>3 DEF NextPayload
  <1> QED
    BY <1>1, <1>2

-----------------------------------------------------------------------------
(* The invariant.                                                          *)

LEMMA EnginesFacts ==
    /\ Engines = Workers \cup {0} /\ 0 \notin Workers /\ 0 \in Engines
    /\ \A w \in Workers : w \in Engines /\ w - 1 \in Nat
  BY NAssumption DEF Engines, Workers

LEMMA FileConfigType ==
    ASSUME FileRead
    PROVE  IsConfig(FileConfig)
  <1>1. CASE path = ""
    BY <1>1, ZeroTypes DEF FileConfig
  <1>2. CASE path # ""
    BY <1>2, ToConfigFields, DocumentsAssumption DEF FileConfig, FileRead
  <1> QED
    BY <1>1, <1>2

LEMMA OnlyOne ==
    \A i, k \in 1..1 : i = k
  OBVIOUS

LEMMA NothingSent ==
    \A k \in 1..Len(<< >>) : FALSE
  OBVIOUS

LEMMA InitInv == Init => JobInv
  <1> SUFFICES ASSUME Init PROVE JobInv
    OBVIOUS
  <1> USE DEF Init
  <1>1. TypeInv
    <2>1. via \in {"cli", "api"} /\ (via = "api" => path \in DOMAIN Documents)
      OBVIOUS
    <2>2. via = "cli" => flags \in FlagSets
      OBVIOUS
    <2>3. DOMAIN job = Engines /\ \A e \in Engines : IsConfig(job[e])
      BY ZeroTypes
    <2>4. sent \in [Engines -> Seq(Texts)]
      BY EmptySequence
    <2>5. engine \in [Engines -> {"idle", "offered", "running", "refused", "unbuilt"}]
      OBVIOUS
    <2> QED
      BY <2>1, <2>2, <2>3, <2>4, <2>5, ZeroTypes DEF TypeInv
  <1>2. ConfigInv
    BY DEF ConfigInv, Ran
  <1>3. EngineInv
    BY EnginesFacts DEF EngineInv, Ran
  <1>4. SentInv
    <2>1. sent[0] = << >>
      BY EnginesFacts
    <2> QED
      BY <2>1, NothingSent DEF SentInv
  <1>5. ReportInv
    BY DEF ReportInv
  <1> QED
    BY <1>1, <1>2, <1>3, <1>4, <1>5 DEF JobInv


\* Before a job runs, the engines do not matter.
LEMMA Waiting ==
    ASSUME JobInv, ~Ran, ~Ran', engine' = engine, sent' = sent
    PROVE  EngineInv' /\ SentInv'
  <1>1. \A e \in Engines : engine[e] = "idle"
    BY DEF JobInv, EngineInv
  <1>2. engine[0] = "idle" /\ \A w \in Workers : engine[w] = "idle"
    BY <1>1, EnginesFacts
  <1>3. EngineInv'
    BY <1>1, <1>2 DEF EngineInv
  <1>4. sent[0] = << >>
    BY <1>2 DEF JobInv, SentInv
  <1>5. SentInv'
    <2>1. \A k \in 1..Len(sent'[0]) : FALSE
      BY <1>4, NothingSent
    <2> QED
      BY <1>2, <1>4, <2>1 DEF SentInv
  <1> QED
    BY <1>3, <1>5

LEMMA LoadFileInv == JobInv /\ LoadFile => JobInv'
  <1> SUFFICES ASSUME JobInv, LoadFile PROVE JobInv'
    OBVIOUS
  <1>1. /\ via = "cli" /\ path # "" /\ stage = "start"
        /\ via' = via /\ path' = path /\ flags' = flags /\ secrets' = secrets
        /\ engine' = engine /\ job' = job /\ sent' = sent
    BY DEF LoadFile, inputs
  <1>2. \/ stage' = "loaded" /\ FileRead /\ cfg' = FileConfig
        \/ stage' = "rejected" /\ cfg' = cfg
    BY <1>1 DEF LoadFile, FileRead, FileConfig
  <1>3. TypeInv'
    <2>1. IsConfig(cfg')
      BY <1>2, FileConfigType DEF JobInv, TypeInv
    <2>2. stage' \in {"loaded", "rejected"}
      BY <1>2
    <2> QED
      BY <1>1, <2>1, <2>2 DEF JobInv, TypeInv
  <1>4. FileRead' = FileRead /\ FileConfig' = FileConfig
    BY <1>1 DEF FileRead, FileConfig
  <1>5. ConfigInv'
    BY <1>1, <1>2, <1>4 DEF ConfigInv, Ran
  <1>6. EngineInv' /\ SentInv'
    BY <1>1, <1>2, Waiting DEF Ran
  <1>7. ReportInv'
    BY <1>2 DEF ReportInv
  <1> QED
    BY <1>3, <1>5, <1>6, <1>7 DEF JobInv

LEMMA ParseFlagsInv == JobInv /\ ParseFlags => JobInv'
  <1> SUFFICES ASSUME JobInv, ParseFlags PROVE JobInv'
    OBVIOUS
  <1>1. /\ via = "cli" /\ stage = IF path = "" THEN "start" ELSE "loaded"
        /\ via' = via /\ path' = path /\ flags' = flags /\ secrets' = secrets
        /\ engine' = engine /\ job' = job /\ sent' = sent
    BY DEF ParseFlags, inputs
  <1>2. FileRead /\ cfg = FileConfig
    <2>1. CASE path = ""
      BY <1>1, <2>1 DEF JobInv, ConfigInv, FileRead, FileConfig
    <2>2. CASE path # ""
      BY <1>1, <2>2 DEF JobInv, ConfigInv
    <2> QED
      BY <2>1, <2>2
  <1>3. \/ /\ stage' = "accepted" /\ Parsable(WithDefaults(flags))
           /\ cfg' = Parse(flags, path # "", FileConfig) /\ Valid(cfg')
        \/ stage' = "rejected" /\ cfg' = cfg
    BY <1>2 DEF ParseFlags, Accepted
  <1>4. FileRead' = FileRead /\ FileConfig' = FileConfig
    BY <1>1 DEF FileRead, FileConfig
  <1>5. TypeInv'
    <2>1. DOMAIN flags \subseteq FlagNames /\ HasTypes(WithDefaults(flags))
      BY <1>1, FlagSetsAssumption, SettingsTypes DEF JobInv, TypeInv
    <2>2. IsConfig(FileConfig)
      BY <1>2, FileConfigType
    <2>3. Parsable(WithDefaults(flags)) => IsConfig(Parse(flags, path # "", FileConfig))
      <3>1. (path # "") \in BOOLEAN
        OBVIOUS
      <3> QED
        BY <2>1, <2>2, <3>1, ParseType
    <2>4. IsConfig(cfg')
      BY <1>3, <2>3 DEF JobInv, TypeInv
    <2>5. stage' \in {"accepted", "rejected"}
      BY <1>3
    <2> QED
      BY <1>1, <2>4, <2>5 DEF JobInv, TypeInv
  <1>6. ConfigInv'
    <2>1. CASE stage' = "accepted"
      BY <1>1, <1>2, <1>3, <1>4, <2>1 DEF ConfigInv, Ran
    <2>2. CASE stage' = "rejected"
      BY <2>2 DEF ConfigInv, Ran
    <2> QED
      BY <1>3, <2>1, <2>2
  <1>7. EngineInv' /\ SentInv'
    BY <1>1, <1>3, Waiting DEF Ran
  <1>8. ReportInv'
    BY <1>3 DEF ReportInv
  <1> QED
    BY <1>5, <1>6, <1>7, <1>8 DEF JobInv

LEMMA SubmitJobInv == JobInv /\ SubmitJob => JobInv'
  <1> SUFFICES ASSUME JobInv, SubmitJob PROVE JobInv'
    OBVIOUS
  <1>1. /\ via = "api" /\ stage = "start"
        /\ via' = via /\ path' = path /\ flags' = flags /\ secrets' = secrets
        /\ engine' = engine /\ job' = job /\ sent' = sent
    BY DEF SubmitJob, inputs
  <1>2. /\ cfg' = Submitted
        /\ (stage' = "accepted" /\ Valid(cfg')) \/ stage' = "rejected"
    BY DEF SubmitJob, Submitted
  <1>3. IsConfig(cfg')
    <2>1. path \in DOMAIN Documents
      BY <1>1 DEF JobInv, TypeInv
    <2>2. HasTypes(Documents[path])
      BY <2>1, DocumentsAssumption, SettingsTypes
    <2>3. Documents[path].body \in Texts /\ << >> \in Seq(Texts)
      BY <2>2, EmptySequence DEF HasTypes
    <2>4. IsConfig(Loaded(Documents[path], Documents[path].body, << >>))
      BY <2>2, <2>3, LoadedTypes
    <2> QED
      BY <1>2, <2>4, WireFields DEF Submitted
  <1>4. TypeInv'
    <2>1. stage' \in {"accepted", "rejected"}
      BY <1>2
    <2> QED
      BY <1>1, <1>3, <2>1 DEF JobInv, TypeInv
  <1>5. ConfigInv'
    BY <1>1, <1>2 DEF ConfigInv, Ran
  <1>6. EngineInv' /\ SentInv'
    BY <1>1, <1>2, Waiting DEF Ran
  <1>7. ReportInv'
    BY <1>2 DEF ReportInv
  <1> QED
    BY <1>4, <1>5, <1>6, <1>7 DEF JobInv

\* An accepted configuration stays what it is.
LEMMA ConfigKept ==
    ASSUME JobInv, stage = "accepted" \/ Ran, Ran', cfg' = cfg,
           via' = via, path' = path, flags' = flags
    PROVE  ConfigInv' /\ IsConfig(cfg) /\ Valid(cfg)
  <1>1. FileRead' = FileRead /\ FileConfig' = FileConfig
    BY DEF FileRead, FileConfig
  <1>2. stage' # "start" /\ stage' # "loaded"
    BY DEF Ran
  <1> QED
    BY <1>1, <1>2 DEF JobInv, TypeInv, ConfigInv

LEMMA RunLocalInv == JobInv /\ (\E resolved \in BOOLEAN : RunLocal(resolved)) => JobInv'
  <1> SUFFICES ASSUME JobInv, NEW resolved \in BOOLEAN, RunLocal(resolved) PROVE JobInv'
    OBVIOUS
  <1>1. /\ stage = "accepted" /\ via = "cli"
        /\ via' = via /\ path' = path /\ flags' = flags /\ secrets' = secrets
        /\ cfg' = cfg /\ sent' = sent
        /\ \/ /\ stage' = "running"
              /\ engine' = [engine EXCEPT ![0] = "running"] /\ job' = [job EXCEPT ![0] = cfg]
           \/ stage' = "rejected" /\ engine' = engine /\ job' = job
    BY DEF RunLocal, inputs
  <1>2. /\ DOMAIN engine = Engines /\ DOMAIN job = Engines
        /\ \A e \in Engines : engine[e] = "idle"
    BY <1>1 DEF JobInv, TypeInv, EngineInv, Ran
  <1>3. ReportInv'
    BY <1>1 DEF ReportInv
  <1>4. CASE stage' = "running"
    <2>1. engine' = [engine EXCEPT ![0] = "running"] /\ job' = [job EXCEPT ![0] = cfg]
      BY <1>1, <1>4
    <2>2. ConfigInv' /\ IsConfig(cfg)
      BY <1>1, <1>4, ConfigKept DEF Ran
    <2>3. /\ engine'[0] = "running" /\ job'[0] = cfg
          /\ \A w \in Workers : engine'[w] = "idle"
      BY <1>2, <2>1, EnginesFacts
    <2>4. TypeInv'
      <3>1. engine' \in [Engines -> {"idle", "offered", "running", "refused", "unbuilt"}]
        BY <2>1 DEF JobInv, TypeInv
      <3>2. DOMAIN job' = Engines /\ \A e \in Engines : IsConfig(job'[e])
        BY <2>1, <2>2 DEF JobInv, TypeInv
      <3> QED
        BY <1>1, <1>4, <3>1, <3>2 DEF JobInv, TypeInv
    <2>5. EngineInv'
      BY <1>1, <1>4, <2>3 DEF EngineInv, Ran
    <2>6. SentInv'
      <3>1. sent[0] = << >>
        BY <1>2, EnginesFacts DEF JobInv, SentInv
      <3>2. \A k \in 1..Len(sent'[0]) : FALSE
        BY <1>1, <3>1, NothingSent
      <3> QED
        BY <2>3, <3>2 DEF SentInv
    <2> QED
      BY <1>3, <2>2, <2>4, <2>5, <2>6 DEF JobInv
  <1>5. CASE stage' = "rejected"
    <2>1. engine' = engine /\ job' = job
      BY <1>1, <1>5
    <2>2. TypeInv'
      BY <1>1, <1>5, <2>1 DEF JobInv, TypeInv
    <2>3. ConfigInv'
      BY <1>5 DEF ConfigInv, Ran
    <2>4. EngineInv' /\ SentInv'
      BY <1>1, <1>5, <2>1, Waiting DEF Ran
    <2> QED
      BY <1>3, <2>2, <2>3, <2>4 DEF JobInv
  <1> QED
    BY <1>1, <1>4, <1>5

LEMMA DispatchInv == JobInv /\ Dispatch => JobInv'
  <1> SUFFICES ASSUME JobInv, Dispatch PROVE JobInv'
    OBVIOUS
  <1>1. /\ stage = "accepted" /\ stage' = "running"
        /\ via' = via /\ path' = path /\ flags' = flags /\ secrets' = secrets
        /\ cfg' = cfg /\ sent' = sent
        /\ engine' = [e \in Engines |-> IF e \in Workers THEN "offered" ELSE "idle"]
        /\ job' = [e \in Engines |-> IF e \in Workers THEN Wire(ShardConfig(cfg, e - 1)) ELSE Zero]
    BY DEF Dispatch, inputs
  <1>2. ConfigInv' /\ IsConfig(cfg) /\ Valid(cfg)
    BY <1>1, ConfigKept DEF Ran
  <1>3. /\ engine'[0] = "idle"
        /\ \A w \in Workers : engine'[w] = "offered" /\ job'[w] = Wire(ShardConfig(cfg, w - 1))
    BY <1>1, EnginesFacts
  <1>4. TypeInv'
    <2>1. engine' \in [Engines -> {"idle", "offered", "running", "refused", "unbuilt"}]
      BY <1>1
    <2>2. ASSUME NEW e \in Engines PROVE IsConfig(job'[e])
      <3>1. CASE e \in Workers
        <4>1. IsConfig(ShardConfig(cfg, e - 1))
          <5>1. cfg.requests >= 0 /\ e - 1 \in Nat
            BY <1>2, <3>1, EnginesFacts DEF Valid
          <5> QED
            BY <1>2, <5>1, ShardFields
        <4> QED
          BY <1>3, <3>1, <4>1, WireFields
      <3>2. CASE e \notin Workers
        BY <1>1, <3>2, ZeroTypes
      <3> QED
        BY <3>1, <3>2
    <2>3. DOMAIN job' = Engines
      BY <1>1
    <2> QED
      BY <1>1, <2>1, <2>2, <2>3 DEF JobInv, TypeInv
  <1>5. EngineInv'
    BY <1>1, <1>3 DEF EngineInv, Ran
  <1>6. SentInv'
    <2>1. engine[0] = "idle"
      BY <1>1, EnginesFacts DEF JobInv, EngineInv, Ran
    <2>2. sent[0] = << >>
      BY <2>1 DEF JobInv, SentInv
    <2>3. \A k \in 1..Len(sent'[0]) : FALSE
      BY <1>1, <2>2, NothingSent
    <2> QED
      BY <1>1, <2>2, <2>3 DEF SentInv
  <1>7. ReportInv'
    BY <1>1 DEF ReportInv
  <1> QED
    BY <1>2, <1>4, <1>5, <1>6, <1>7 DEF JobInv

LEMMA HandleRunInv ==
    JobInv /\ (\E w \in Workers, resolved \in BOOLEAN : HandleRun(w, resolved)) => JobInv'
  <1> SUFFICES ASSUME JobInv, NEW w \in Workers, NEW resolved \in BOOLEAN, HandleRun(w, resolved)
               PROVE  JobInv'
    OBVIOUS
  <1> DEFINE answer == CASE ~Admissible(w) -> "refused"
                         [] Admissible(w) /\ ~Built(job[w], resolved) -> "unbuilt"
                         [] OTHER -> "running"
  <1>1. /\ engine[w] = "offered" /\ engine' = [engine EXCEPT ![w] = answer]
        /\ via' = via /\ path' = path /\ flags' = flags /\ secrets' = secrets
        /\ cfg' = cfg /\ sent' = sent /\ stage' = stage /\ job' = job
        /\ retest' = retest /\ second' = second
    BY DEF HandleRun, inputs, report
  <1>2. /\ answer \in {"running", "refused", "unbuilt"}
        /\ answer = "refused" => ~Admissible(w)
        /\ answer = "unbuilt" => Admissible(w) /\ ~Built(job[w], FALSE)
    BY DEF Built
  <1> HIDE DEF answer
  <1>3. DOMAIN engine = Engines /\ w \in Engines /\ w # 0
    BY EnginesFacts DEF JobInv, TypeInv
  <1>4. engine'[w] = answer /\ \A e \in Engines : e # w => engine'[e] = engine[e]
    BY <1>1, <1>3
  <1>5. Ran
    BY <1>1, <1>3 DEF JobInv, EngineInv
  <1>6. TypeInv'
    <2>1. engine' \in [Engines -> {"idle", "offered", "running", "refused", "unbuilt"}]
      BY <1>1, <1>2 DEF JobInv, TypeInv
    <2> QED
      BY <1>1, <2>1 DEF JobInv, TypeInv
  <1>7. ConfigInv'
    BY <1>1, <1>5, ConfigKept DEF Ran
  <1>8. \A v \in Workers : Admissible(v)' = Admissible(v)
    BY <1>1 DEF Admissible
  <1>9. engine'[0] = engine[0] /\ engine[0] # "running"
    BY <1>1, <1>3, <1>4, EnginesFacts DEF JobInv, EngineInv
  <1>10. EngineInv'
    <2>1. \A v \in Workers : engine[v] # "idle" /\ engine'[v] # "idle"
      BY <1>1, <1>2, <1>4, EnginesFacts DEF JobInv, EngineInv
    <2>2. \A v \in Workers : job[v] = Wire(ShardConfig(cfg, v - 1))
      BY <2>1 DEF JobInv, EngineInv
    <2>3. ASSUME NEW v \in Workers
          PROVE  /\ engine'[v] = "refused" => ~Admissible(v)
                 /\ engine'[v] = "unbuilt" => Admissible(v) /\ ~Built(job[v], FALSE)
      <3>1. CASE v = w
        BY <1>2, <1>4, <3>1
      <3>2. CASE v # w
        BY <1>4, <2>1, <3>2, EnginesFacts DEF JobInv, EngineInv
      <3> QED
        BY <3>1, <3>2
    <2>4. Ran' /\ engine'[0] = "idle"
      BY <1>1, <1>5, <1>9 DEF Ran, JobInv, EngineInv
    <2> QED
      BY <1>1, <1>8, <2>1, <2>2, <2>3, <2>4 DEF EngineInv
  <1>11. SentInv'
    BY <1>1, <1>9 DEF JobInv, SentInv
  <1>12. ReportInv'
    BY <1>1 DEF JobInv, ReportInv
  <1> QED
    BY <1>6, <1>7, <1>10, <1>11, <1>12 DEF JobInv

LEMMA SendRequestInv == JobInv /\ (\E e \in Engines : SendRequest(e)) => JobInv'
  <1> SUFFICES ASSUME JobInv, NEW e \in Engines, SendRequest(e) PROVE JobInv'
    OBVIOUS
  <1> DEFINE next == NextPayload(Picker(job[e]), Len(sent[e]))
  <1>1. /\ engine[e] = "running" /\ stage = "running"
        /\ via' = via /\ path' = path /\ flags' = flags /\ secrets' = secrets
        /\ cfg' = cfg /\ stage' = stage /\ job' = job /\ engine' = engine
        /\ retest' = retest /\ second' = second
        /\ sent' = [sent EXCEPT ![e] = Append(@, next)]
    BY DEF SendRequest, inputs, report
  <1>2. sent[e] \in Seq(Texts) /\ Len(sent[e]) \in Nat
    BY DEF JobInv, TypeInv
  <1>3. next \in Texts
    <2>1. IsConfig(job[e])
      BY DEF JobInv, TypeInv
    <2> QED
      BY <1>2, <2>1, PickerType, NextType
  <1> HIDE DEF next
  <1>4. Append(sent[e], next) \in Seq(Texts)
    BY <1>2, <1>3
  <1>5. TypeInv'
    <2>1. sent' \in [Engines -> Seq(Texts)]
      BY <1>1, <1>4 DEF JobInv, TypeInv
    <2> QED
      BY <1>1, <2>1 DEF JobInv, TypeInv
  <1>6. ConfigInv'
    BY <1>1, ConfigKept DEF Ran
  <1>7. EngineInv'
    <2>1. \A w \in Workers : Admissible(w)' = Admissible(w)
      BY <1>1 DEF Admissible
    <2>2. Ran' = Ran
      BY <1>1 DEF Ran
    <2> QED
      BY <1>1, <2>1, <2>2 DEF JobInv, EngineInv
  <1>8. SentInv'
    <2>1. CASE e = 0
      <3>1. job[0] = cfg
        BY <1>1, <2>1 DEF JobInv, EngineInv
      <3>2. sent'[0] = Append(sent[0], next) /\ next = NextPayload(Picker(cfg), Len(sent[0]))
        BY <1>1, <2>1, <3>1 DEF JobInv, TypeInv, next
      <3>3. \A k \in 1..Len(sent[0]) : sent[0][k] = NextPayload(Picker(cfg), k - 1)
        BY DEF JobInv, SentInv
      <3>4. sent[0] \in Seq(Texts)
        BY <1>2, <2>1
      <3>5. ASSUME NEW k \in 1..Len(sent'[0]) PROVE sent'[0][k] = NextPayload(Picker(cfg), k - 1)
        <4>1. Len(sent'[0]) = Len(sent[0]) + 1 /\ Len(sent[0]) \in Nat
          BY <1>3, <3>2, <3>4
        <4>2. CASE k \in 1..Len(sent[0])
          <5>1. sent'[0][k] = sent[0][k]
            BY <1>3, <3>2, <3>4, <4>2
          <5> QED
            BY <3>3, <4>2, <5>1
        <4>3. CASE k = Len(sent[0]) + 1
          <5>1. sent'[0][k] = next /\ k - 1 = Len(sent[0])
            BY <1>3, <3>2, <3>4, <4>1, <4>3
          <5> QED
            BY <3>2, <5>1
        <4> QED
          BY <3>5, <4>1, <4>2, <4>3
      <3>6. engine'[0] # "idle"
        BY <1>1, <2>1
      <3> QED
        BY <1>1, <3>5, <3>6 DEF SentInv
    <2>2. CASE e # 0
      <3>1. sent'[0] = sent[0]
        BY <1>1, <2>2, EnginesFacts DEF JobInv, TypeInv
      <3> QED
        BY <1>1, <3>1 DEF JobInv, SentInv
    <2> QED
      BY <2>1, <2>2
  <1>9. ReportInv'
    BY <1>1 DEF JobInv, ReportInv
  <1> QED
    BY <1>5, <1>6, <1>7, <1>8, <1>9 DEF JobInv

\* The report changes nothing that runs.
LEMMA ReportKept ==
    ASSUME JobInv, Ran, Ran', via' = via, path' = path, flags' = flags, secrets' = secrets,
           cfg' = cfg, engine' = engine, job' = job, sent' = sent
    PROVE  TypeInv' /\ ConfigInv' /\ EngineInv' /\ SentInv'
  <1>1. TypeInv'
    BY DEF JobInv, TypeInv, Ran
  <1>2. ConfigInv'
    BY ConfigKept
  <1>3. \A w \in Workers : Admissible(w)' = Admissible(w)
    BY DEF Admissible
  <1>4. EngineInv'
    BY <1>3 DEF JobInv, EngineInv
  <1>5. SentInv'
    BY DEF JobInv, SentInv
  <1> QED
    BY <1>1, <1>2, <1>4, <1>5

LEMMA WriteReportInv == JobInv /\ WriteReport => JobInv'
  <1> SUFFICES ASSUME JobInv, WriteReport PROVE JobInv'
    OBVIOUS
  <1>1. /\ stage = "running" /\ via = "cli" /\ stage' = "reported" /\ retest' = RetestCommand(cfg)
        /\ via' = via /\ path' = path /\ flags' = flags /\ secrets' = secrets
        /\ cfg' = cfg /\ engine' = engine /\ job' = job /\ sent' = sent
    BY DEF WriteReport, inputs
  <1>2. TypeInv' /\ ConfigInv' /\ EngineInv' /\ SentInv'
    BY <1>1, ReportKept DEF Ran
  <1>3. ReportInv'
    BY <1>1 DEF ReportInv
  <1> QED
    BY <1>2, <1>3 DEF JobInv

LEMMA RetestInv == JobInv /\ Retest => JobInv'
  <1> SUFFICES ASSUME JobInv, Retest PROVE JobInv'
    OBVIOUS
  <1>1. /\ stage = "reported" /\ stage' = "again" /\ retest' = retest
        /\ second' = IF Accepted(retest, FALSE, Zero) THEN Parse(retest, FALSE, Zero) ELSE Zero
        /\ via' = via /\ path' = path /\ flags' = flags /\ secrets' = secrets
        /\ cfg' = cfg /\ engine' = engine /\ job' = job /\ sent' = sent
    BY DEF Retest, inputs
  <1>2. TypeInv' /\ ConfigInv' /\ EngineInv' /\ SentInv'
    BY <1>1, ReportKept DEF Ran
  <1>3. ReportInv'
    BY <1>1 DEF JobInv, ReportInv
  <1> QED
    BY <1>2, <1>3 DEF JobInv

\* The invariant of the whole: the configuration is the one its sources give,
\* the engines have it or their parts of it, and what is sent and reported is
\* computed from it.
THEOREM Invariant == Spec => []JobInv
  <1>1. Init => JobInv
    BY InitInv
  <1>2. JobInv /\ [Next]_vars => JobInv'
    <2> SUFFICES ASSUME JobInv, [Next]_vars PROVE JobInv'
      OBVIOUS
    <2>1. CASE LoadFile \/ ParseFlags \/ SubmitJob
      BY <2>1, LoadFileInv, ParseFlagsInv, SubmitJobInv
    <2>2. CASE \/ Dispatch \/ \E resolved \in BOOLEAN : RunLocal(resolved)
               \/ \E w \in Workers, resolved \in BOOLEAN : HandleRun(w, resolved)
      BY <2>2, RunLocalInv, DispatchInv, HandleRunInv
    <2>3. CASE \E e \in Engines : SendRequest(e)
      BY <2>3, SendRequestInv
    <2>4. CASE WriteReport \/ Retest
      BY <2>4, WriteReportInv, RetestInv
    <2>5. CASE UNCHANGED vars
      BY <2>5 DEF vars, inputs, report, JobInv, TypeInv, ConfigInv, EngineInv, SentInv, ReportInv,
                  Ran, FileRead, FileConfig, Admissible
    <2> QED
      BY <2>1, <2>2, <2>3, <2>4, <2>5 DEF Next
  <1> QED
    BY <1>1, <1>2, PTL DEF Spec

-----------------------------------------------------------------------------
(* One payload source.                                                     *)

LEMMA PickerAlone ==
    ASSUME NEW c
    PROVE  Picker(c) = IF c.payloadFiles # << >> THEN c.payloadFiles ELSE Alone(c.body)
  BY DEF Picker, Alone

\* Two members are more than one.
LEMMA AtMostOne ==
    ASSUME NEW S, IsFiniteSet(S), Cardinality(S) <= 1, NEW x \in S, NEW y \in S
    PROVE  x = y
  <1> SUFFICES ASSUME x # y PROVE FALSE
    OBVIOUS
  <1>1. IsFiniteSet({x}) /\ Cardinality({x}) = 1
    BY FS_Singleton
  <1>2. IsFiniteSet({x, y}) /\ Cardinality({x, y}) = 2
    <2>1. {x, y} = {x} \cup {y} /\ y \notin {x}
      OBVIOUS
    <2> QED
      BY <1>1, <2>1, FS_AddElement
  <1>3. {x, y} \subseteq S
    OBVIOUS
  <1>4. Cardinality({x, y}) <= Cardinality(S) /\ Cardinality(S) \in Nat
    BY <1>3, FS_Subset, FS_CardinalityType
  <1> QED
    BY <1>2, <1>4

\* At most one of the three flags says something.
LEMMA OnePayload ==
    ASSUME NEW v, Parsable(v)
    PROVE  /\ v.payloadDir # "" => v.body = "" /\ v.bodyFile = ""
           /\ v.bodyFile # "" => v.body = ""
  <1> DEFINE S == {f \in PayloadFlags : v[f] # ""}
  <1>1. IsFiniteSet(PayloadFlags)
    <2>1. IsFiniteSet({"body"}) /\ IsFiniteSet({"bodyFile"}) /\ IsFiniteSet({"payloadDir"})
      BY FS_Singleton
    <2>2. PayloadFlags = ({"body"} \cup {"bodyFile"}) \cup {"payloadDir"}
      BY DEF PayloadFlags
    <2>3. IsFiniteSet({"body"} \cup {"bodyFile"})
      BY <2>1, FS_Union
    <2> QED
      BY <2>1, <2>2, <2>3, FS_Union
  <1>2. IsFiniteSet(S) /\ Cardinality(S) <= 1
    <2>1. S \subseteq PayloadFlags
      OBVIOUS
    <2>2. Cardinality(S) <= 1
      BY DEF Parsable
    <2> QED
      BY <1>1, <2>1, <2>2, FS_Subset
  <1>3. \A x, y \in S : x = y
    <2> HIDE DEF S
    <2> QED
      BY <1>2, AtMostOne
  <1>4. /\ v.body # "" => "body" \in S
        /\ v.bodyFile # "" => "bodyFile" \in S
        /\ v.payloadDir # "" => "payloadDir" \in S
    BY DEF PayloadFlags
  <1> HIDE DEF S
  <1> QED
    BY <1>3, <1>4

\* A flag that is not given has its default.
LEMMA NotGiven ==
    ASSUME NEW given
    PROVE  /\ "body" \notin DOMAIN given => WithDefaults(given).body = ""
           /\ "bodyFile" \notin DOMAIN given => WithDefaults(given).bodyFile = ""
           /\ "payloadDir" \notin DOMAIN given => WithDefaults(given).payloadDir = ""
  <1>1. {"body", "bodyFile", "payloadDir"} \subseteq FlagNames
    BY Names
  <1>2. FlagDefaults.body = "" /\ FlagDefaults.bodyFile = "" /\ FlagDefaults.payloadDir = ""
    BY DEF FlagDefaults
  <1> QED
    BY <1>1, <1>2 DEF WithDefaults

\* The flags alone choose what they say.
LEMMA FlagSource ==
    ASSUME NEW v, HasTypes(v), Parsable(v), v.payloadDir # "" => Listed(v.payloadDir) # << >>
    PROVE  /\ Picker(FromFlags(v)) = Source(v)
           /\ FromFlags(v).payloadFiles # << >> => FromFlags(v).body = ""
  <1> DEFINE c == FromFlags(v)
  <1>1. /\ c.body = CASE v.payloadDir # "" -> ""
                      [] v.payloadDir = "" /\ v.bodyFile # "" -> Bodies[v.bodyFile]
                      [] OTHER -> v.body
        /\ c.payloadFiles = Listed(v.payloadDir)
    BY FlagFields
  <1> HIDE DEF c
  <1>2. CASE v.payloadDir # ""
    <2>1. c.payloadFiles = Dirs[v.payloadDir] /\ c.payloadFiles # << >> /\ c.body = ""
      BY <1>1, <1>2 DEF Listed
    <2>2. Source(v) = Dirs[v.payloadDir]
      BY <1>2 DEF Source
    <2> QED
      BY <2>1, <2>2, PickerAlone DEF c
  <1>3. CASE v.payloadDir = "" /\ v.bodyFile # ""
    <2>1. c.payloadFiles = << >> /\ c.body = Bodies[v.bodyFile] /\ v.body = ""
      BY <1>1, <1>3, OnePayload DEF Listed
    <2>2. Source(v) = Alone(Bodies[v.bodyFile])
      BY <1>3, <2>1 DEF Source
    <2> QED
      BY <2>1, <2>2, PickerAlone DEF c
  <1>4. CASE v.payloadDir = "" /\ v.bodyFile = ""
    <2>1. c.payloadFiles = << >> /\ c.body = v.body
      BY <1>1, <1>4 DEF Listed
    <2>2. Source(v) = Alone(v.body)
      BY <1>4 DEF Source
    <2> QED
      BY <2>1, <2>2, PickerAlone DEF c
  <1> QED
    BY <1>2, <1>3, <1>4

\* And so does a file.
LEMMA FileSource ==
    ASSUME NEW d \in Settings, Readable(d), d.payloadDir # "" => Listed(d.payloadDir) # << >>
    PROVE  Picker(ToConfig(d)) = Source(d)
  <1> DEFINE c == ToConfig(d)
  <1>1. /\ c.body = IF ReadsBodyFile(d) THEN Bodies[d.bodyFile] ELSE d.body
        /\ c.payloadFiles = Listed(d.payloadDir)
    BY ToConfigFields
  <1> HIDE DEF c
  <1>2. CASE d.payloadDir # ""
    <2>1. c.payloadFiles = Dirs[d.payloadDir] /\ c.payloadFiles # << >>
      BY <1>1, <1>2 DEF Listed
    <2>2. Source(d) = Dirs[d.payloadDir]
      BY <1>2 DEF Source
    <2> QED
      BY <2>1, <2>2, PickerAlone DEF c
  <1>3. CASE d.payloadDir = "" /\ ReadsBodyFile(d)
    <2>1. c.payloadFiles = << >> /\ c.body = Bodies[d.bodyFile]
      BY <1>1, <1>3 DEF Listed
    <2>2. Source(d) = Alone(Bodies[d.bodyFile])
      BY <1>3 DEF Source, ReadsBodyFile
    <2> QED
      BY <2>1, <2>2, PickerAlone DEF c
  <1>4. CASE d.payloadDir = "" /\ ~ReadsBodyFile(d)
    <2>1. c.payloadFiles = << >> /\ c.body = d.body
      BY <1>1, <1>4 DEF Listed
    <2>2. Source(d) = Alone(d.body)
      BY <1>4 DEF Source, ReadsBodyFile
    <2> QED
      BY <2>1, <2>2, PickerAlone DEF c
  <1> QED
    BY <1>2, <1>3, <1>4

\* A configuration has one payload source, that of the flags or that of the file.
LEMMA InvOneSource == JobInv => OneSource
  <1> SUFFICES ASSUME JobInv, stage = "accepted", via = "cli"
               PROVE  LET given == PayloadFlags \cap DOMAIN flags
                          named == WithDefaults(flags)
                      IN  /\ Picker(cfg) =
                               CASE given = {} /\ path # "" -> Source(Documents[path])
                                 [] given = {} /\ path = "" -> << >>
                                 [] path # "" /\ "payloadDir" \in given /\ named.payloadDir = "" -> << >>
                                 [] OTHER -> Source(named)
                          /\ given # {} /\ cfg.payloadFiles # << >> => cfg.body = ""
    BY DEF OneSource
  <1> DEFINE given == PayloadFlags \cap DOMAIN flags
             named == WithDefaults(flags)
             overlay == FromFlags(named)
  <1>1. /\ Valid(cfg) /\ FileRead /\ Parsable(named)
        /\ cfg = Parse(flags, path # "", FileConfig)
    BY DEF JobInv, ConfigInv
  <1>2. HasTypes(named) /\ DOMAIN flags \subseteq FlagNames
    BY FlagSetsAssumption, SettingsTypes DEF JobInv, TypeInv
  <1>3. /\ named.body = "" \/ "body" \in DOMAIN flags
        /\ named.bodyFile = "" \/ "bodyFile" \in DOMAIN flags
        /\ named.payloadDir = "" \/ "payloadDir" \in DOMAIN flags
    BY NotGiven
  <1> HIDE DEF named
  <1>4. /\ IsConfig(overlay)
        /\ overlay.body = CASE named.payloadDir # "" -> ""
                            [] named.payloadDir = "" /\ named.bodyFile # "" -> Bodies[named.bodyFile]
                            [] OTHER -> named.body
        /\ overlay.payloadFiles = Listed(named.payloadDir)
        /\ overlay.payloadDir = named.payloadDir
    BY <1>1, <1>2, FlagTypes, FlagFields, Names
  <1>5. cfg.payloadDir # "" => cfg.payloadFiles # << >>
    BY <1>1 DEF Valid
  <1>6. CASE path = ""
    <2>1. cfg = overlay
      BY <1>1, <1>6 DEF Parse, named
    <2>2. Picker(cfg) = Source(named) /\ (cfg.payloadFiles # << >> => cfg.body = "")
      BY <1>1, <1>2, <1>4, <1>5, <2>1, FlagSource
    <2>3. given = {} => Source(named) = << >>
      BY <1>3 DEF Source, Alone, PayloadFlags
    <2> QED
      BY <1>6, <2>2, <2>3 DEF named
  <1>7. CASE path # ""
    <2> DEFINE d == Documents[path]
               base == ToConfig(d)
               inBody == {"body", "bodyFile"} \cap DOMAIN flags # {}
               inDir == "payloadDir" \in DOMAIN flags
    <2>1. d \in Settings /\ Readable(d)
      BY <1>1, <1>7, DocumentsAssumption DEF FileRead
    <2>2. /\ IsConfig(base) /\ base.payloadDir = d.payloadDir
          /\ base.payloadFiles = Listed(d.payloadDir)
      BY <2>1, ToConfigFields
    <2>3. cfg = Merge(base, overlay, DOMAIN flags)
      BY <1>1, <1>7 DEF Parse, FileConfig, named
    <2> HIDE DEF base, overlay
    <2>4. /\ inDir => /\ cfg.body = "" /\ cfg.payloadDir = overlay.payloadDir
                      /\ cfg.payloadFiles = overlay.payloadFiles
          /\ ~inDir /\ inBody => /\ cfg.body = overlay.body
                                 /\ cfg.payloadDir = "" /\ cfg.payloadFiles = << >>
          /\ ~inDir /\ ~inBody => /\ cfg.body = base.body /\ cfg.payloadDir = base.payloadDir
                                  /\ cfg.payloadFiles = base.payloadFiles
      <3>1. MergedPayload(cfg, base, overlay, DOMAIN flags)
        BY <1>2, <1>4, <2>2, <2>3, MergeFields
      <3> QED
        BY <3>1 DEF MergedPayload
    <2>5. /\ given = {} <=> ~inDir /\ ~inBody
          /\ "payloadDir" \in given <=> inDir
      BY DEF PayloadFlags
    <2>6. CASE inDir
      <3>1. cfg.body = "" /\ cfg.payloadFiles = Listed(named.payloadDir)
            /\ cfg.payloadDir = named.payloadDir
        BY <1>4, <2>4, <2>6
      <3>2. Picker(cfg) = IF named.payloadDir = "" THEN << >> ELSE Source(named)
        <4>1. CASE named.payloadDir = ""
          BY <3>1, <4>1, PickerAlone DEF Alone, Listed
        <4>2. CASE named.payloadDir # ""
          <5>1. Source(named) = Dirs[named.payloadDir]
            BY <4>2 DEF Source
          <5>2. cfg.payloadFiles = Dirs[named.payloadDir]
            BY <3>1, <4>2 DEF Listed
          <5>3. cfg.payloadFiles # << >>
            BY <1>5, <3>1, <4>2
          <5> QED
            BY <4>2, <5>1, <5>2, <5>3, PickerAlone
        <4> QED
          BY <4>1, <4>2
      <3> QED
        BY <1>7, <2>5, <2>6, <3>1, <3>2 DEF named
    <2>7. CASE ~inDir /\ inBody
      <3>1. named.payloadDir = ""
        BY <1>3, <2>7
      <3>2. cfg.body = overlay.body /\ cfg.payloadFiles = << >> /\ overlay.payloadFiles = << >>
        BY <1>4, <2>4, <2>7, <3>1 DEF Listed
      <3>3. Picker(cfg) = Picker(overlay)
        BY <3>2, PickerAlone
      <3>4. Picker(overlay) = Source(named)
        BY <1>1, <1>2, <3>1, FlagSource DEF overlay
      <3> QED
        BY <2>5, <2>7, <3>2, <3>3, <3>4 DEF named
    <2>8. CASE ~inDir /\ ~inBody
      <3>1. cfg.body = base.body /\ cfg.payloadFiles = base.payloadFiles
            /\ cfg.payloadDir = base.payloadDir
        BY <2>4, <2>8
      <3>2. d.payloadDir # "" => Listed(d.payloadDir) # << >>
        BY <1>5, <2>2, <3>1
      <3>3. Picker(cfg) = Picker(base)
        BY <3>1, PickerAlone
      <3>4. Picker(base) = Source(d)
        BY <2>1, <3>2, FileSource DEF base
      <3> QED
        BY <1>7, <2>5, <2>8, <3>3, <3>4
    <2> QED
      BY <2>6, <2>7, <2>8
  <1> QED
    BY <1>6, <1>7

\* The requests of a local run carry the payload of one place (Merge and
\* loadPayloadSource), for any documents, command lines and payload files: the
\* accepted configuration is computed from its file and its flags by Parse, and
\* each rule of Merge that sets one source clears the other two.
THEOREM OneSourceCorrect == Spec => []OneSource
  BY Invariant, InvOneSource, PTL

-----------------------------------------------------------------------------
(* Induction and sums.                                                     *)

\* A set of natural numbers that is not empty has a least member.
LEMMA LeastNumber ==
    ASSUME NEW T \in SUBSET Nat, T # {}
    PROVE  \E n \in T : \A m \in T : n <= m
  <1>1. IsWellFoundedOn(OpToRel(<, Nat), Nat)
    BY NatLessThanWellFounded
  <1>2. PICK n \in T : \A m \in T : <<m, n>> \notin OpToRel(<, Nat)
    BY <1>1, WFMin
  <1>3. \A m \in T : ~(m < n)
    BY <1>2 DEF OpToRel
  <1> QED
    BY <1>3

\* Induction on natural numbers, for a set.
LEMMA NatSet ==
    ASSUME NEW T \in SUBSET Nat, 0 \in T, \A n \in T : n + 1 \in T
    PROVE  T = Nat
  <1> SUFFICES ASSUME Nat \ T # {} PROVE FALSE
    OBVIOUS
  <1>1. PICK n \in Nat \ T : \A m \in Nat \ T : n <= m
    BY LeastNumber
  <1>2. n # 0 /\ n - 1 \in Nat
    BY <1>1
  <1>3. n - 1 \in T
    BY <1>1, <1>2
  <1>4. (n - 1) + 1 \in T
    BY <1>3
  <1> QED
    BY <1>1, <1>4

\* Induction on the subsets of a finite set, for a set of subsets: one that has
\* the empty set, and every subset of which it has a part with one member less,
\* has all of them.
LEMMA SubsetSet ==
    ASSUME NEW S, IsFiniteSet(S), NEW P, {} \in P,
           \A t \in SUBSET S : t # {} /\ (\A x \in t : t \ {x} \in P) => t \in P
    PROVE  SUBSET S \subseteq P
  <1> DEFINE T == {n \in Nat : \A t \in SUBSET S : Cardinality(t) = n => t \in P}
  <1>1. \A t \in SUBSET S : IsFiniteSet(t) /\ Cardinality(t) \in Nat
    BY FS_Subset, FS_CardinalityType
  <1>2. 0 \in T
    BY <1>1, FS_EmptySet
  <1>3. ASSUME NEW n \in T PROVE n + 1 \in T
    <2>1. SUFFICES ASSUME NEW t \in SUBSET S, Cardinality(t) = n + 1 PROVE t \in P
      OBVIOUS
    <2>2. t # {}
      BY <2>1, FS_EmptySet
    <2>3. ASSUME NEW x \in t PROVE t \ {x} \in P
      <3>1. Cardinality(t \ {x}) = n
        BY <1>1, <2>1, FS_RemoveElement
      <3> QED
        BY <3>1
    <2> QED
      BY <2>2, <2>3
  <1>4. T = Nat
    <2> HIDE DEF T
    <2> QED
      BY <1>2, <1>3, NatSet DEF T
  <1> QED
    BY <1>1, <1>4

SumOf(f, S) == MapThenSumSet(LAMBDA x : f[x], S)

\* There is a function that gives every part of a finite set its sum, whichever
\* member is added last, and the fold computes it.
LEMMA PartSums ==
    ASSUME NEW S, IsFiniteSet(S), NEW f, \A x \in S : f[x] \in Nat
    PROVE  \E F \in [SUBSET S -> Nat] :
              /\ F[{}] = 0
              /\ \A t \in SUBSET S : \A x \in t : F[t] = f[x] + F[t \ {x}]
              /\ F[S] = SumOf(f, S)
  <1> DEFINE Adds(F, s) == /\ F \in [SUBSET s -> Nat] /\ F[{}] = 0
                           /\ \A t \in SUBSET s : \A x \in t : F[t] = f[x] + F[t \ {x}]
             P == {s \in SUBSET S : \E F : Adds(F, s)}
  <1>1. {} \in P
    <2>1. Adds([t \in SUBSET {} |-> 0], {})
      OBVIOUS
    <2> QED
      BY <2>1
  <1>2. ASSUME NEW s \in SUBSET S, s # {}, \A x \in s : s \ {x} \in P PROVE s \in P
    <2>1. PICK y \in s : TRUE
      BY <1>2
    <2>2. PICK F : Adds(F, s \ {y})
      BY <1>2
    <2> DEFINE G == [t \in SUBSET s |-> IF y \in t THEN f[y] + F[t \ {y}] ELSE F[t]]
    <2>3. \A t \in SUBSET s :
             /\ t \ {y} \in SUBSET (s \ {y}) /\ F[t \ {y}] \in Nat
             /\ y \notin t => t \in SUBSET (s \ {y}) /\ F[t] \in Nat
      BY <2>2
    <2>4. G \in [SUBSET s -> Nat]
      <3>1. ASSUME NEW t \in SUBSET s PROVE G[t] \in Nat
        <4>1. f[y] \in Nat
          BY <2>1
        <4>2. CASE y \in t
          <5>1. F[t \ {y}] \in Nat
            BY <2>3
          <5>2. G[t] = f[y] + F[t \ {y}]
            BY <4>2
          <5> HIDE DEF G, Adds
          <5> QED
            BY <4>1, <5>1, <5>2
        <4>3. CASE y \notin t
          <5>1. F[t] \in Nat
            BY <2>3, <4>3
          <5> QED
            BY <4>3, <5>1
        <4> QED
          BY <4>2, <4>3
      <3> QED
        BY <3>1
    <2>5. G[{}] = 0
      BY <2>2
    <2>6. ASSUME NEW t \in SUBSET s, NEW x \in t PROVE G[t] = f[x] + G[t \ {x}]
      <3>1. CASE x = y
        BY <3>1, <2>3
      <3>2. CASE x # y /\ y \notin t
        BY <3>2, <2>2
      <3>3. CASE x # y /\ y \in t
        <4>1. G[t] = f[y] + F[t \ {y}] /\ G[t \ {x}] = f[y] + F[(t \ {x}) \ {y}]
          BY <3>3
        <4>2. F[t \ {y}] = f[x] + F[(t \ {y}) \ {x}]
          BY <2>2, <2>3, <3>3
        <4>3. F[(t \ {y}) \ {x}] = F[(t \ {x}) \ {y}]
          <5>1. (t \ {y}) \ {x} = (t \ {x}) \ {y}
            OBVIOUS
          <5> QED
            BY <5>1
        <4>4. f[x] \in Nat /\ f[y] \in Nat /\ F[(t \ {x}) \ {y}] \in Nat
          <5>1. t \ {x} \in SUBSET s /\ x \in S /\ y \in S
            BY <1>2, <2>1
          <5>2. f[x] \in Nat /\ f[y] \in Nat
            BY <5>1
          <5> HIDE DEF G, Adds
          <5>3. F[(t \ {x}) \ {y}] \in Nat
            BY <2>3, <5>1
          <5> QED
            BY <5>2, <5>3
        <4> HIDE DEF G, Adds
        <4> QED
          BY <4>1, <4>2, <4>3, <4>4
      <3> QED
        BY <3>1, <3>2, <3>3
    <2>7. Adds(G, s)
      BY <2>4, <2>5, <2>6
    <2> QED
      BY <2>7
  <1>3. S \in P
    <2>1. \A t \in SUBSET S : t # {} /\ (\A x \in t : t \ {x} \in P) => t \in P
      BY <1>2
    <2> HIDE DEF P
    <2> QED
      BY <1>1, <2>1, SubsetSet
  <1>4. PICK F : Adds(F, S)
    BY <1>3
  <1> DEFINE Step(g) == [t \in SUBSET S |-> IF t = {} THEN 0
                                            ELSE f[CHOOSE x \in t : TRUE] + g[t \ {CHOOSE x \in t : TRUE}]]
             iter == CHOOSE g : g = Step(g)
  <1>5. F = Step(F)
    <2>1. ASSUME NEW t \in SUBSET S PROVE F[t] = Step(F)[t]
      <3>1. CASE t = {}
        BY <1>4, <3>1
      <3>2. CASE t # {}
        <4>1. (CHOOSE x \in t : TRUE) \in t
          BY <3>2
        <4> QED
          BY <1>4, <3>2, <4>1
      <3> QED
        BY <3>1, <3>2
    <2>2. DOMAIN F = SUBSET S /\ F = [t \in SUBSET S |-> F[t]]
      BY <1>4
    <2> QED
      BY <2>1, <2>2
  <1>6. iter = Step(iter)
    <2> HIDE DEF Step
    <2> QED
      BY <1>5
  <1> DEFINE Q == {t \in SUBSET S : iter[t] = F[t]}
  <1>7. {} \in Q
    <2>1. iter[{}] = Step(iter)[{}]
      BY <1>6
    <2>2. Step(iter)[{}] = 0
      <3> HIDE DEF iter
      <3> QED
        OBVIOUS
    <2> QED
      BY <1>4, <2>1, <2>2
  <1>8. ASSUME NEW t \in SUBSET S, t # {}, \A x \in t : t \ {x} \in Q PROVE t \in Q
    <2> DEFINE x == CHOOSE y \in t : TRUE
    <2>1. x \in t
      BY <1>8
    <2>2. iter[t \ {x}] = F[t \ {x}]
      BY <1>8, <2>1
    <2>3. iter[t] = Step(iter)[t]
      BY <1>6
    <2>4. Step(iter)[t] = f[x] + iter[t \ {x}]
      <3> HIDE DEF iter
      <3> QED
        BY <1>8
    <2>5. F[t] = f[x] + F[t \ {x}]
      BY <1>4, <2>1
    <2> QED
      BY <2>2, <2>3, <2>4, <2>5
  <1>9. S \in Q
    <2> HIDE DEF Q
    <2> QED
      BY <1>7, <1>8, SubsetSet
  <1>10. SumOf(f, S) = iter[S]
    BY DEF SumOf, MapThenSumSet, MapThenFoldSet
  <1> QED
    BY <1>4, <1>9, <1>10
-----------------------------------------------------------------------------
(* The parts of a job.                                                     *)

LEMMA Division ==
    ASSUME NEW r \in Nat
    PROVE  /\ r \div N \in Nat /\ r % N \in Nat /\ r % N < N
           /\ r = N * (r \div N) + (r % N)
           /\ r >= N => r \div N > 0
  <1>1. N \in Nat /\ N > 0
    BY NAssumption
  <1>2. /\ r \div N \in Int /\ r % N \in Nat /\ r % N < N
        /\ r = N * (r \div N) + (r % N)
    BY <1>1
  <1>3. r \div N >= 0
    BY <1>1, <1>2
  <1>4. r >= N => r \div N > 0
    BY <1>1, <1>2
  <1> QED
    BY <1>2, <1>3, <1>4

\* A sum in which the first terms are one more than the others.
LEMMA StairSum ==
    ASSUME NEW f, NEW q \in Nat, NEW m \in Nat, m <= N,
           \A w \in Workers : f[w] = q + (IF w - 1 < m THEN 1 ELSE 0)
    PROVE  SumOf(f, Workers) = N * q + m
  <1>1. N \in Nat /\ Workers = 1..N
    BY NAssumption DEF Workers
  <1>2. \A w \in Workers : f[w] \in Nat
    BY <1>1
  <1>3. IsFiniteSet(Workers)
    BY <1>1, FS_Interval
  <1>4. PICK F \in [SUBSET Workers -> Nat] :
            /\ F[{}] = 0 /\ \A t \in SUBSET Workers : \A x \in t : F[t] = f[x] + F[t \ {x}]
            /\ F[Workers] = SumOf(f, Workers)
    BY <1>2, <1>3, PartSums
  <1> DEFINE T == {n \in Nat : n <= N => F[1..n] = n * q + (IF n < m THEN n ELSE m)}
  <1>5. 0 \in T
    <2>1. 1..0 = {}
      OBVIOUS
    <2>2. F[1..0] = 0
      BY <1>4, <2>1
    <2>3. 0 * q + (IF 0 < m THEN 0 ELSE m) = 0
      OBVIOUS
    <2> QED
      BY <2>2, <2>3
  <1>6. ASSUME NEW n \in T PROVE n + 1 \in T
    <2>1. SUFFICES ASSUME n + 1 <= N
                   PROVE  F[1..(n + 1)] = (n + 1) * q + (IF n + 1 < m THEN n + 1 ELSE m)
      OBVIOUS
    <2>2. n \in Nat /\ n <= N
      BY <1>1, <2>1
    <2>3. F[1..n] = n * q + (IF n < m THEN n ELSE m)
      BY <2>2
    <2> DEFINE t == 1..(n + 1)
    <2>4. t \in SUBSET Workers /\ n + 1 \in t /\ n + 1 \in Workers /\ t \ {n + 1} = 1..n
      BY <1>1, <2>1, <2>2
    <2> HIDE DEF t
    <2>5. F[t] = f[n + 1] + F[t \ {n + 1}]
      BY <1>4, <2>4
    <2>6. f[n + 1] = q + (IF n < m THEN 1 ELSE 0)
      <3>1. (n + 1) - 1 = n
        BY <2>2
      <3> QED
        BY <2>4, <3>1
    <2>7. (n + 1) * q = n * q + q /\ n * q \in Nat
      BY <2>2
    <2>8. F[t] = (n + 1) * q + (IF n + 1 < m THEN n + 1 ELSE m)
      <3> DEFINE a == n * q
                 b == (n + 1) * q
      <3>1. F[t] = (q + (IF n < m THEN 1 ELSE 0)) + (a + (IF n < m THEN n ELSE m))
        BY <2>3, <2>4, <2>5, <2>6
      <3>2. b = a + q /\ a \in Nat
        BY <2>7
      <3> HIDE DEF a, b, T
      <3>3. F[t] = b + (IF n + 1 < m THEN n + 1 ELSE m)
        BY <2>2, <3>1, <3>2
      <3> QED
        BY <3>3 DEF b
    <2> QED
      BY <2>8 DEF t
  <1>7. T = Nat
    <2> HIDE DEF T
    <2> QED
      BY <1>5, <1>6, NatSet DEF T
  <1>8. F[1..N] = N * q + (IF N < m THEN N ELSE m)
    <2>1. N \in T
      BY <1>1, <1>7
    <2> QED
      BY <1>1, <2>1
  <1>9. (IF N < m THEN N ELSE m) = m
    BY <1>1
  <1> QED
    BY <1>1, <1>4, <1>8, <1>9

\* The parts add up to the whole.
LEMMA SharesAddUp ==
    ASSUME NEW c, c.requests \in Nat, NEW f, f = [w \in Workers |-> Share(c, w - 1)]
    PROVE  SumOf(f, Workers) = c.requests
  <1> DEFINE q == c.requests \div N
             m == c.requests % N
  <1>1. q \in Nat /\ m \in Nat /\ m < N /\ N \in Nat /\ c.requests = N * q + m
    BY Division, NAssumption
  <1>2. \A w \in Workers : f[w] = q + (IF w - 1 < m THEN 1 ELSE 0)
    BY DEF Share
  <1>3. m <= N
    <2> HIDE DEF m
    <2> QED
      BY <1>1
  <1> HIDE DEF q, m
  <1> QED
    BY <1>1, <1>2, <1>3, StairSum

LEMMA NotLess ==
    ASSUME NEW a \in Nat, ~(a < N)
    PROVE  a >= N
  BY NAssumption

\* A part is limited if the job is, unless it has no requests.
LEMMA PartLimited ==
    ASSUME NEW c, c.requests \in Nat, c.duration \in Nat, c.duration + c.requests > 0,
           c.requests >= N \/ c.duration # 0, NEW index \in Nat, NEW n,
           n = IF N <= 1 \/ c.requests = 0 THEN c.requests ELSE Share(c, index)
    PROVE  n >= 0 /\ c.duration + n > 0
  <1>1. CASE N <= 1 \/ c.requests = 0
    BY <1>1
  <1>2. CASE ~(N <= 1 \/ c.requests = 0)
    <2> DEFINE q == c.requests \div N
               m == c.requests % N
    <2>1. q \in Nat /\ N \in Nat /\ (c.requests >= N => q > 0)
      BY Division, NAssumption
    <2>2. n = q + (IF index < m THEN 1 ELSE 0)
      BY <1>2 DEF Share
    <2> HIDE DEF q, m
    <2> QED
      BY <2>1, <2>2
  <1> QED
    BY <1>1, <1>2

\* Validation looks at the requests of a part and at fields that it shares with
\* the job.
LEMMA PartValid ==
    ASSUME NEW c, Valid(c), c.payloadDir = "", NEW p,
           \A f \in FlagNames \ {"body", "requests"} : p[f] = c[f],
           p.requests >= 0, p.duration + p.requests > 0
    PROVE  Valid(p)
  <1>1. /\ p.url = c.url /\ p.method = c.method /\ p.protocol = c.protocol
        /\ p.concurrency = c.concurrency /\ p.duration = c.duration /\ p.timeout = c.timeout
        /\ p.format = c.format /\ p.service = c.service /\ p.qps = c.qps /\ p.rampUp = c.rampUp
        /\ p.payloadDir = c.payloadDir
    BY Names
  <1>2. GRPC(p) <=> GRPC(c)
    BY <1>1 DEF GRPC
  <1> QED
    BY <1>1, <1>2 DEF Valid

\* The fields of the part that a worker is sent.
PartOf(p, c, index) ==
    /\ p.requests = IF N <= 1 \/ c.requests = 0 THEN c.requests ELSE Share(c, index)
    /\ \A f \in FlagNames \ {"body", "requests"} : p[f] = c[f]

LEMMA PartFields ==
    ASSUME NEW c, IsConfig(c), Valid(c), NEW w \in Workers
    PROVE  PartOf(Wire(ShardConfig(c, w - 1)), c, w - 1)
  <1> DEFINE s == ShardConfig(c, w - 1)
             p == Wire(s)
  <1>1. c.requests >= 0 /\ w - 1 \in Nat
    BY EnginesFacts DEF Valid
  <1>2. /\ IsConfig(s)
        /\ s.requests = IF N <= 1 \/ c.requests = 0 THEN c.requests ELSE Share(c, w - 1)
        /\ \A f \in ConfigFields \ {"requests"} : s[f] = c[f]
    BY <1>1, ShardFields
  <1> HIDE DEF s
  <1>3. \A f \in ConfigFields \ {"body", "payloadFiles"} : p[f] = s[f]
    BY <1>2, WireFields
  <1> HIDE DEF p
  <1>4. /\ "requests" \in ConfigFields \ {"body", "payloadFiles"}
        /\ \A f \in FlagNames \ {"body", "requests"} :
              f \in ConfigFields \ {"requests"} /\ f \in ConfigFields \ {"body", "payloadFiles"}
    BY Names DEF ConfigFields
  <1>5. PartOf(p, c, w - 1)
    BY <1>2, <1>3, <1>4 DEF PartOf
  <1> QED
    BY <1>5 DEF p, s

\* A valid configuration limits the run.
LEMMA ValidLoad ==
    ASSUME NEW c, IsConfig(c), Valid(c)
    PROVE  /\ c.requests \in Nat /\ c.duration \in Nat
           /\ c.duration + c.requests > 0
  <1>1. /\ c.requests \in Int /\ c.duration \in Int
        /\ c.duration >= 0 /\ c.requests >= 0 /\ c.duration + c.requests > 0
    BY DEF IsConfig, HasTypes, Valid
  <1> QED
    BY <1>1

\* What the master accepts, the workers run, and their parts are the whole.
LEMMA InvPartsAccepted == JobInv => PartsAccepted
  <1> SUFFICES ASSUME JobInv PROVE PartsAccepted
    OBVIOUS
  <1>1. \A w \in Workers : engine[w] # "idle" =>
           /\ IsConfig(cfg) /\ Valid(cfg)
           /\ \A v \in Workers : engine[v] # "idle"
           /\ \A v \in Workers : job[v] = Wire(ShardConfig(cfg, v - 1))
    BY EnginesFacts DEF JobInv, TypeInv, ConfigInv, EngineInv
  <1>2. ASSUME NEW w \in Workers, engine[w] = "refused"
        PROVE  \/ cfg.payloadDir # ""
               \/ cfg.requests < N /\ cfg.duration = 0
               \/ secrets.worker # "" /\ secrets.master # secrets.worker
    <2> SUFFICES ASSUME cfg.payloadDir = "", ~(cfg.requests < N /\ cfg.duration = 0),
                        ~(secrets.worker # "" /\ secrets.master # secrets.worker)
                 PROVE  FALSE
      OBVIOUS
    <2> DEFINE p == job[w]
    <2>1. /\ IsConfig(cfg) /\ Valid(cfg) /\ p = Wire(ShardConfig(cfg, w - 1)) /\ ~Admissible(w)
      BY <1>1, <1>2 DEF JobInv, EngineInv
    <2>2. PartOf(p, cfg, w - 1)
      BY <2>1, PartFields
    <2>3. p.duration = cfg.duration
      BY <2>2, Names DEF PartOf
    <2>4. p.requests >= 0 /\ p.duration + p.requests > 0
      <3>1. cfg.requests \in Nat /\ cfg.duration \in Nat /\ cfg.duration + cfg.requests > 0
        BY <2>1, ValidLoad
      <3>2. cfg.requests >= N \/ cfg.duration # 0
        BY <1>2, <3>1, NotLess, NAssumption
      <3>3. w - 1 \in Nat
        BY EnginesFacts
      <3> HIDE DEF p
      <3>4. p.requests >= 0 /\ cfg.duration + p.requests > 0
        BY <2>2, <3>1, <3>2, <3>3, PartLimited DEF PartOf
      <3> QED
        BY <2>3, <3>4
    <2>5. Valid(p)
      <3> HIDE DEF p
      <3> QED
        BY <2>1, <2>2, <2>4, PartValid DEF PartOf
    <2>6. VerifyJob(SignJob(secrets.master), secrets.worker)
      BY DEF VerifyJob, SignJob
    <2> QED
      BY <2>1, <2>5, <2>6 DEF Admissible
  <1>3. ASSUME stage = "running", Offered # {}, cfg.requests > 0, N > 1
        PROVE  MapThenSumSet(LAMBDA w : Parts[w], Offered) = cfg.requests
    <2>1. PICK v \in Workers : engine[v] # "idle"
      BY <1>3 DEF Offered
    <2>2. /\ IsConfig(cfg) /\ Valid(cfg) /\ Offered = Workers
          /\ \A w \in Workers : job[w] = Wire(ShardConfig(cfg, w - 1))
      BY <1>1, <2>1 DEF Offered
    <2>3. cfg.requests \in Nat
      BY <2>2, ValidLoad
    <2>4. ~(N <= 1 \/ cfg.requests = 0)
      BY <1>3, <2>3, NAssumption
    <2>5. ASSUME NEW w \in Workers PROVE job[w].requests = Share(cfg, w - 1)
      <3>1. job[w] = Wire(ShardConfig(cfg, w - 1))
        BY <2>2
      <3>2. PartOf(job[w], cfg, w - 1)
        BY <2>2, <3>1, PartFields
      <3> QED
        BY <2>4, <3>2 DEF PartOf
    <2>6. Parts = [w \in Workers |-> Share(cfg, w - 1)]
      BY <2>2, <2>5 DEF Parts
    <2>7. SumOf(Parts, Workers) = cfg.requests
      BY <2>3, <2>6, SharesAddUp
    <2> QED
      BY <2>2, <2>7 DEF SumOf
  <1>4. ASSUME NEW w \in Workers, engine[w] = "unbuilt"
        PROVE  GRPC(cfg)
    <2>1. /\ IsConfig(cfg) /\ Valid(cfg) /\ job[w] = Wire(ShardConfig(cfg, w - 1))
          /\ ~Built(job[w], FALSE)
      BY <1>1, <1>4 DEF JobInv, EngineInv
    <2>2. PartOf(job[w], cfg, w - 1)
      BY <2>1, PartFields
    <2>3. job[w].protocol = cfg.protocol
      BY <2>2, Names DEF PartOf
    <2> QED
      BY <2>1, <2>3 DEF Valid, Built, Factories, GRPC
  <1> QED
    BY <1>2, <1>3, <1>4 DEF PartsAccepted

\* The workers run what the master accepted (handleRun and shardConfig), for any
\* number of workers: an engine refuses only the parts named, only a gRPC job has no
\* runner, and the parts that were sent add up to the requests of the job.
THEOREM PartsAcceptedCorrect == Spec => []PartsAccepted
  BY Invariant, InvPartsAccepted, PTL

-----------------------------------------------------------------------------
(* The payloads take turns.                                                *)

\* What was read is what the configuration names.
SourcesRead(c) ==
    /\ c.payloadDir \in DOMAIN Dirs \cup {""}
    /\ c.payloadFiles = Listed(c.payloadDir)
    /\ c.body = "" /\ c.bodyFile # "" /\ c.payloadDir = "" =>
          c.bodyFile \in DOMAIN Bodies /\ Bodies[c.bodyFile] = ""

LEMMA FlagSourcesRead ==
    ASSUME NEW v, HasTypes(v), Parsable(v)
    PROVE  SourcesRead(FromFlags(v))
  <1> DEFINE c == FromFlags(v)
  <1>1. /\ c.body = CASE v.payloadDir # "" -> ""
                      [] v.payloadDir = "" /\ v.bodyFile # "" -> Bodies[v.bodyFile]
                      [] OTHER -> v.body
        /\ c.payloadFiles = Listed(v.payloadDir)
        /\ c.payloadDir = v.payloadDir /\ c.bodyFile = v.bodyFile
    BY FlagFields, Names
  <1>2. v.bodyFile \in DOMAIN Bodies \cup {""} /\ v.payloadDir \in DOMAIN Dirs \cup {""}
    BY DEF Parsable
  <1> HIDE DEF c
  <1>3. SourcesRead(c)
    BY <1>1, <1>2 DEF SourcesRead
  <1> QED
    BY <1>3 DEF c

LEMMA FileSourcesRead ==
    ASSUME NEW d \in Settings, Readable(d)
    PROVE  SourcesRead(ToConfig(d))
  <1> DEFINE c == ToConfig(d)
  <1>1. /\ c.body = IF ReadsBodyFile(d) THEN Bodies[d.bodyFile] ELSE d.body
        /\ c.bodyFile = d.bodyFile /\ c.payloadDir = d.payloadDir
        /\ c.payloadFiles = Listed(d.payloadDir)
    BY ToConfigFields
  <1> HIDE DEF c
  <1>2. /\ d.payloadDir \in DOMAIN Dirs \cup {""}
        /\ ReadsBodyFile(d) => d.bodyFile \in DOMAIN Bodies
    BY DEF Readable
  <1>3. c.body = "" /\ c.bodyFile # "" => ReadsBodyFile(d)
    <2>1. CASE d.body = ""
      BY <1>1, <2>1 DEF ReadsBodyFile
    <2>2. CASE d.body # ""
      <3>1. ~ReadsBodyFile(d)
        BY <2>2 DEF ReadsBodyFile
      <3> QED
        BY <1>1, <2>2, <3>1
    <2> QED
      BY <2>1, <2>2
  <1>4. c.body = "" /\ c.bodyFile # "" => c.bodyFile \in DOMAIN Bodies /\ Bodies[c.bodyFile] = ""
    BY <1>1, <1>2, <1>3
  <1>5. SourcesRead(c)
    BY <1>1, <1>2, <1>4 DEF SourcesRead
  <1> QED
    BY <1>5 DEF c

LEMMA ConfigSourcesRead ==
    ASSUME JobInv, stage = "accepted" \/ Ran, via = "cli"
    PROVE  SourcesRead(cfg)
  <1> DEFINE named == WithDefaults(flags)
             overlay == FromFlags(named)
  <1>1. /\ FileRead /\ Parsable(named)
        /\ cfg = Parse(flags, path # "", FileConfig)
    BY DEF JobInv, ConfigInv
  <1>2. HasTypes(named) /\ DOMAIN flags \in SUBSET FlagNames
    BY FlagSetsAssumption, SettingsTypes DEF JobInv, TypeInv
  <1>3. "payloadDir" \notin DOMAIN flags => named.payloadDir = ""
    BY NotGiven
  <1> HIDE DEF named
  <1>4. IsConfig(overlay) /\ SourcesRead(overlay) /\ overlay.payloadDir = named.payloadDir
    BY <1>1, <1>2, FlagTypes, FlagFields, FlagSourcesRead, Names
  <1>5. CASE path = ""
    <2>1. cfg = overlay
      BY <1>1, <1>5 DEF Parse, named
    <2> HIDE DEF overlay
    <2> QED
      BY <1>4, <2>1
  <1>6. CASE path # ""
    <2> DEFINE base == ToConfig(Documents[path])
    <2>1. Documents[path] \in Settings /\ Readable(Documents[path])
      BY <1>1, <1>6, DocumentsAssumption DEF FileRead
    <2>2. IsConfig(base) /\ SourcesRead(base)
      BY <2>1, ToConfigFields, FileSourcesRead
    <2>3. cfg = Merge(base, overlay, DOMAIN flags)
      BY <1>1, <1>6 DEF Parse, FileConfig, named
    <2> HIDE DEF base, overlay
    <2>4. MergedPayload(cfg, base, overlay, DOMAIN flags)
      BY <1>2, <1>4, <2>2, <2>3, MergeFields
    <2>5. CASE "payloadDir" \in DOMAIN flags
      <3>1. /\ cfg.body = "" /\ cfg.bodyFile = ""
            /\ cfg.payloadDir = overlay.payloadDir /\ cfg.payloadFiles = overlay.payloadFiles
        BY <2>4, <2>5 DEF MergedPayload
      <3> QED
        BY <1>4, <3>1 DEF SourcesRead
    <2>6. CASE "payloadDir" \notin DOMAIN flags /\ {"body", "bodyFile"} \cap DOMAIN flags # {}
      <3>1. /\ cfg.body = overlay.body
            /\ cfg.bodyFile = IF "bodyFile" \in DOMAIN flags THEN overlay.bodyFile ELSE ""
            /\ cfg.payloadDir = "" /\ cfg.payloadFiles = << >>
        BY <2>4, <2>6 DEF MergedPayload
      <3>2. overlay.payloadDir = ""
        BY <1>3, <1>4, <2>6
      <3> QED
        BY <1>4, <3>1, <3>2 DEF SourcesRead, Listed
    <2>7. CASE "payloadDir" \notin DOMAIN flags /\ {"body", "bodyFile"} \cap DOMAIN flags = {}
      <3>1. /\ cfg.body = base.body /\ cfg.bodyFile = base.bodyFile
            /\ cfg.payloadDir = base.payloadDir /\ cfg.payloadFiles = base.payloadFiles
        BY <2>4, <2>7 DEF MergedPayload
      <3> QED
        BY <2>2, <3>1 DEF SourcesRead
    <2> QED
      BY <2>5, <2>6, <2>7
  <1> QED
    BY <1>5, <1>6

\* No payload is in the list of a picker twice.
LEMMA Distinct ==
    ASSUME NEW c, SourcesRead(c)
    PROVE  \A i, k \in 1..Len(Picker(c)) : Picker(c)[i] = Picker(c)[k] => i = k
  <1>1. CASE c.payloadFiles # << >>
    <2>1. Picker(c) = Dirs[c.payloadDir] /\ c.payloadDir \in DOMAIN Dirs
      BY <1>1 DEF Picker, SourcesRead, Listed
    <2> QED
      BY <2>1, DirsAssumption
  <1>2. CASE c.payloadFiles = << >> /\ c.body # ""
    <2>1. Picker(c) = <<c.body>>
      BY <1>2 DEF Picker
    <2>2. Len(Picker(c)) = 1
      BY <2>1, OneSequence
    <2> QED
      BY <2>2, OnlyOne
  <1>3. CASE c.payloadFiles = << >> /\ c.body = ""
    <2>1. Picker(c) = << >>
      BY <1>3 DEF Picker
    <2> QED
      BY <2>1, NothingSent
  <1> QED
    BY <1>1, <1>2, <1>3

\* A remainder comes from one quotient.
LEMMA Remainder ==
    ASSUME NEW L \in Nat \ {0}, NEW m \in Nat, NEW r \in 0..(L - 1)
    PROVE  (m * L + r) % L = r
  <1> DEFINE x == m * L + r
             q == x \div L
             s == x % L
  <1>1. x \in Nat
    OBVIOUS
  <1>2. q \in Int /\ s \in Nat /\ s < L /\ x = L * q + s
    <2> HIDE DEF x
    <2> QED
      BY <1>1
  <1>3. L * q + s = L * m + r
    BY <1>2
  <1> HIDE DEF x, q, s
  <1>4. ~(q > m)
    <2> SUFFICES ASSUME q >= m + 1 PROVE FALSE
      BY <1>2
    <2>1. L * q >= L * (m + 1)
      BY <1>2
    <2> QED
      BY <1>2, <1>3, <2>1
  <1>5. ~(q < m)
    <2> SUFFICES ASSUME m >= q + 1 PROVE FALSE
      BY <1>2
    <2>1. L * m >= L * (q + 1)
      BY <1>2
    <2> QED
      BY <1>2, <1>3, <2>1
  <1>6. q = m
    BY <1>2, <1>4, <1>5
  <1>7. s = r
    BY <1>2, <1>3, <1>6
  <1> QED
    BY <1>7 DEF s, x

\* The turns of the payload at a position, among n requests.
Turns(n, size, i) == {k \in 1..n : ((k - 1) % size) + 1 = i}

\* They are a whole number of rounds apart.
LEMMA TurnIs ==
    ASSUME NEW n \in Nat, NEW L \in Nat \ {0}, NEW i \in 1..L, NEW k \in Turns(n, L, i)
    PROVE  k \in 1..n /\ \E m \in Nat : k = m * L + i
  <1> DEFINE x == k - 1
             m == x \div L
  <1>1. k \in 1..n /\ x \in Nat /\ x % L = i - 1
    BY DEF Turns
  <1>2. m \in Nat /\ x = L * m + (x % L)
    <2> HIDE DEF x
    <2> QED
      BY <1>1
  <1>3. k = m * L + i
    <2>1. k = x + 1
      BY <1>1
    <2> HIDE DEF x, m
    <2> QED
      BY <1>1, <1>2, <2>1
  <1> QED
    BY <1>1, <1>2, <1>3

LEMMA IsTurn ==
    ASSUME NEW n \in Nat, NEW L \in Nat \ {0}, NEW i \in 1..L, NEW m \in Nat,
           NEW k \in 1..n, k = m * L + i
    PROVE  k \in Turns(n, L, i)
  <1>1. i - 1 \in 0..(L - 1) /\ k - 1 = m * L + (i - 1)
    OBVIOUS
  <1>2. (k - 1) % L = i - 1
    BY <1>1, Remainder
  <1> QED
    BY <1>2 DEF Turns

\* Every payload has had as many turns as any other, or one less.
LEMMA TurnsEven ==
    ASSUME NEW n \in Nat, NEW L \in Nat \ {0}, NEW i \in 1..L, NEW j \in 1..L
    PROVE  Cardinality(Turns(n, L, i)) <= Cardinality(Turns(n, L, j)) + 1
  <1> DEFINE A == Turns(n, L, i)
             B == Turns(n, L, j)
             R == A \ {i}
  <1>1. A \subseteq 1..n /\ B \subseteq 1..n
    BY DEF Turns
  <1>2. /\ IsFiniteSet(A) /\ Cardinality(A) \in Nat
        /\ IsFiniteSet(B) /\ Cardinality(B) \in Nat
        /\ IsFiniteSet(R) /\ Cardinality(R) \in Nat
    <2>1. IsFiniteSet(1..n)
      BY FS_Interval
    <2> QED
      BY <1>1, <2>1, FS_Subset, FS_CardinalityType
  <1>3. Cardinality(A) <= Cardinality(R) + 1
    <2>1. CASE i \in A
      <3>1. Cardinality(R) = Cardinality(A) - 1
        BY <1>2, <2>1, FS_RemoveElement
      <3> HIDE DEF A, R
      <3> QED
        BY <1>2, <3>1
    <2>2. CASE i \notin A
      <3>1. R = A
        BY <2>2
      <3> HIDE DEF A, R
      <3> QED
        BY <1>2, <3>1
    <2> QED
      BY <2>1, <2>2
  <1>4. Cardinality(R) <= Cardinality(B)
    <2> DEFINE shift == IF j <= i THEN j - i ELSE j - i - L
               g == [k \in R |-> k + shift]
    <2>1. shift \in Int
      OBVIOUS
    <2>2. ASSUME NEW k \in R PROVE k + shift \in B
      <3>1. k \in 1..n /\ k # i /\ k \in Turns(n, L, i)
        BY <1>1
      <3> HIDE DEF A, B, R, shift
      <3>2. PICK m \in Nat : k = m * L + i
        BY <3>1, TurnIs
      <3>3. m # 0
        BY <3>1, <3>2
      <3>4. CASE j <= i
        <4>1. k + shift = m * L + j
          BY <3>2, <3>4 DEF shift
        <4>2. k + shift \in 1..n
          <5>1. shift = j - i
            BY <3>4 DEF shift
          <5>2. m * L \in Nat
            OBVIOUS
          <5> QED
            BY <3>1, <3>4, <4>1, <5>1, <5>2
        <4> QED
          BY <4>1, <4>2, IsTurn DEF B
      <3>5. CASE ~(j <= i)
        <4>1. m - 1 \in Nat /\ k + shift = (m - 1) * L + j
          BY <3>2, <3>3, <3>5 DEF shift
        <4>2. k + shift \in 1..n
          <5>1. shift = j - i - L
            BY <3>5 DEF shift
          <5>2. (m - 1) * L \in Nat
            BY <4>1
          <5> QED
            BY <3>1, <3>5, <4>1, <5>1, <5>2
        <4> QED
          BY <4>1, <4>2, IsTurn DEF B
      <3> QED
        BY <3>4, <3>5
    <2>3. \A k \in R : k \in Int
      BY <1>1
    <2> HIDE DEF shift, A, B, R
    <2>4. g \in [R -> B]
      BY <2>2
    <2>5. ASSUME NEW a \in R, NEW b \in R, g[a] = g[b] PROVE a = b
      <3>1. a + shift = b + shift
        BY <2>5
      <3>2. a \in Int /\ b \in Int
        BY <2>3
      <3> QED
        BY <2>1, <3>1, <3>2
    <2>6. g \in Injection(R, B)
      BY <2>4, <2>5 DEF Injection, IsInjective
    <2> QED
      BY <1>2, <2>6, FS_Injection
  <1> HIDE DEF A, B, R
  <1>5. Cardinality(A) <= Cardinality(B) + 1
    BY <1>2, <1>3, <1>4
  <1> QED
    BY <1>5 DEF A, B

\* The position of a turn is one of the list.
LEMMA Position ==
    ASSUME NEW S, NEW s \in Seq(S), s # << >>, NEW n \in Nat, NEW k \in 1..n
    PROVE  ((k - 1) % Len(s)) + 1 \in 1..Len(s)
  <1>1. Len(s) \in Nat /\ Len(s) > 0
    OBVIOUS
  <1>2. (k - 1) % Len(s) \in 0..(Len(s) - 1)
    BY <1>1
  <1> QED
    BY <1>1, <1>2

LEMMA SomeOf ==
    ASSUME NEW n \in Nat, NEW i \in 1..n
    PROVE  n \in Nat \ {0}
  OBVIOUS

\* The payloads of a run take turns.
LEMMA InvPayloadsTakeTurns == JobInv => PayloadsTakeTurns
  <1> SUFFICES ASSUME JobInv, engine[0] = "running"
               PROVE  /\ \A k \in 1..Len(sent[0]) :
                            IF Picker(cfg) = << >> THEN sent[0][k] = ""
                            ELSE sent[0][k] \in Payloads(cfg)
                      /\ \A p, q \in Payloads(cfg) : Times(0, p) <= Times(0, q) + 1
    BY DEF PayloadsTakeTurns
  <1> DEFINE s == sent[0]
             P == Picker(cfg)
             n == Len(s)
             L == Len(P)
  <1>1. /\ \A k \in 1..n : s[k] = NextPayload(P, k - 1)
        /\ n \in Nat /\ P \in Seq(Texts) /\ L \in Nat
    <2>1. s \in Seq(Texts)
      BY EnginesFacts DEF JobInv, TypeInv
    <2>2. P \in Seq(Texts)
      BY PickerType DEF JobInv, TypeInv
    <2>3. \A k \in 1..n : s[k] = NextPayload(P, k - 1)
      BY DEF JobInv, SentInv
    <2> HIDE DEF s, P
    <2> QED
      BY <2>1, <2>2, <2>3
  <1>2. \A i, k \in 1..L : P[i] = P[k] => i = k
    <2>1. SourcesRead(cfg)
      <3>1. via = "cli" /\ Ran
        BY EnginesFacts DEF JobInv, EngineInv
      <3> QED
        BY <3>1, ConfigSourcesRead
    <2> QED
      BY <2>1, Distinct
  <1>3. ASSUME NEW k \in 1..n
        PROVE  IF P = << >> THEN s[k] = "" ELSE s[k] \in Payloads(cfg)
    <2>1. CASE P = << >>
      BY <1>1, <2>1 DEF NextPayload
    <2>2. CASE P # << >>
      <3>1. ((k - 1) % L) + 1 \in 1..L
        BY <1>1, <2>2, Position
      <3>2. s[k] = P[((k - 1) % L) + 1]
        BY <1>1, <2>2 DEF NextPayload
      <3> QED
        BY <2>2, <3>1, <3>2 DEF Payloads
    <2> QED
      BY <2>1, <2>2
  <1>4. ASSUME NEW i \in 1..L PROVE Times(0, P[i]) = Cardinality(Turns(n, L, i))
    <2>1. P # << >>
      BY <1>1, NothingSent
    <2>2. ASSUME NEW k \in 1..n PROVE s[k] = P[i] <=> ((k - 1) % L) + 1 = i
      <3>1. ((k - 1) % L) + 1 \in 1..L
        BY <1>1, <2>1, Position
      <3>2. s[k] = P[((k - 1) % L) + 1]
        BY <1>1, <2>1 DEF NextPayload
      <3> QED
        BY <1>2, <3>1, <3>2
    <2>3. {k \in 1..n : s[k] = P[i]} = Turns(n, L, i)
      BY <2>2 DEF Turns
    <2> QED
      BY <2>3 DEF Times
  <1>5. ASSUME NEW p \in Payloads(cfg), NEW q \in Payloads(cfg)
        PROVE  Times(0, p) <= Times(0, q) + 1
    <2>1. PICK i \in 1..L : p = P[i]
      BY DEF Payloads
    <2>2. PICK j \in 1..L : q = P[j]
      BY DEF Payloads
    <2>3. Cardinality(Turns(n, L, i)) <= Cardinality(Turns(n, L, j)) + 1
      <3>1. L \in Nat \ {0}
        BY <1>1, SomeOf
      <3> HIDE DEF n, L
      <3> QED
        BY <1>1, <3>1, TurnsEven
    <2> QED
      BY <1>4, <2>1, <2>2, <2>3
  <1> QED
    BY <1>3, <1>5

\* The payloads of a local run take turns (payloadPicker.Next), for any number
\* of files and requests: the numbers of times two of them are sent
\* differ by one at most.
THEOREM PayloadsTakeTurnsCorrect == Spec => []PayloadsTakeTurns
  BY Invariant, InvPayloadsTakeTurns, PTL

-----------------------------------------------------------------------------
(* The command of the report.                                              *)

\* A flag is in the command when the configuration differs from the default.
CommandNames(given, c) ==
    /\ "url" \in given /\ "timeout" \in given /\ "concurrency" \in given
    /\ "method" \in given <=> c.method \notin {"", "GET"}
    /\ "headers" \in given <=> c.headers # "none"
    /\ "body" \in given <=> c.body # ""
    /\ "bodyFile" \in given <=> c.body = "" /\ c.bodyFile # ""
    /\ "payloadDir" \in given <=> c.body = "" /\ c.bodyFile = "" /\ c.payloadDir # ""
    /\ "protocol" \in given <=> c.protocol \notin {"", "http"}
    /\ "service" \in given <=> GRPC(c)
    /\ "streaming" \in given <=> c.streaming
    /\ "format" \in given <=> c.streaming /\ c.format \notin {"", "auto"}
    /\ "duration" \in given <=> c.duration > 0
    /\ "requests" \in given <=> c.requests > 0
    /\ "qps" \in given <=> c.qps > 0
    /\ "rampUp" \in given <=> c.rampUp > 0
    /\ "price" \in given <=> c.price > 0

LEMMA CommandFlags ==
    ASSUME NEW c
    PROVE  CommandNames(DOMAIN RetestCommand(c), c)
  <1> DEFINE R == RequestFlags(c)
             L == LoadFlags(c)
             given == DOMAIN RetestCommand(c)
  <1>1. given = {f \in DOMAIN R : R[f]} \cup {f \in DOMAIN L : L[f]}
    BY DEF RetestCommand, Named
  <1>2. /\ DOMAIN R = {"url", "timeout", "method", "headers", "body", "bodyFile", "payloadDir",
                       "protocol", "service", "streaming", "format", "price"}
        /\ DOMAIN L = {"concurrency", "duration", "requests", "qps", "rampUp"}
    BY DEF RequestFlags, LoadFlags
  <1>3. /\ R.url = TRUE /\ R.timeout = TRUE
        /\ R.method = (c.method \notin {"", "GET"})
        /\ R.headers = (c.headers # "none")
        /\ R.body = (c.body # "")
        /\ R.bodyFile = (c.body = "" /\ c.bodyFile # "")
        /\ R.payloadDir = (c.body = "" /\ c.bodyFile = "" /\ c.payloadDir # "")
        /\ R.protocol = (c.protocol \notin {"", "http"})
        /\ R.service = GRPC(c)
        /\ R.streaming = c.streaming
        /\ R.format = (c.streaming /\ c.format \notin {"", "auto"})
        /\ R.price = (c.price > 0)
    BY DEF RequestFlags
  <1>4. /\ L.concurrency = TRUE
        /\ L.duration = (c.duration > 0) /\ L.requests = (c.requests > 0)
        /\ L.qps = (c.qps > 0) /\ L.rampUp = (c.rampUp > 0)
    BY DEF LoadFlags
  <1> HIDE DEF R, L, given
  <1>5. \A f \in DOMAIN R : f \in given <=> R[f]
    <2>1. DOMAIN R \cap DOMAIN L = {}
      BY <1>2
    <2> QED
      BY <1>1, <2>1
  <1>6. \A f \in DOMAIN L : f \in given <=> L[f]
    <2>1. DOMAIN R \cap DOMAIN L = {}
      BY <1>2
    <2> QED
      BY <1>1, <2>1
  <1>7. /\ "url" \in given /\ "timeout" \in given /\ "concurrency" \in given
    BY <1>2, <1>3, <1>4, <1>5, <1>6
  <1>8. /\ "method" \in given <=> c.method \notin {"", "GET"}
        /\ "headers" \in given <=> c.headers # "none"
        /\ "body" \in given <=> c.body # ""
        /\ "bodyFile" \in given <=> c.body = "" /\ c.bodyFile # ""
        /\ "payloadDir" \in given <=> c.body = "" /\ c.bodyFile = "" /\ c.payloadDir # ""
        /\ "protocol" \in given <=> c.protocol \notin {"", "http"}
        /\ "service" \in given <=> GRPC(c)
        /\ "streaming" \in given <=> c.streaming
        /\ "format" \in given <=> c.streaming /\ c.format \notin {"", "auto"}
        /\ "price" \in given <=> c.price > 0
    BY <1>2, <1>3, <1>5
  <1>9. /\ "duration" \in given <=> c.duration > 0
        /\ "requests" \in given <=> c.requests > 0
        /\ "qps" \in given <=> c.qps > 0
        /\ "rampUp" \in given <=> c.rampUp > 0
    BY <1>2, <1>4, <1>6
  <1> QED
    BY <1>7, <1>8, <1>9 DEF given, CommandNames

\* Rounding twice is rounding once.
LEMMA RoundedTwice ==
    ASSUME NEW q \in Nat
    PROVE  /\ Rounded(q) \in Nat /\ Rounded(Rounded(q)) = Rounded(q)
           /\ q = 0 => Rounded(q) = 0
  BY DEF Rounded

\* What the flags of the command say.
CommandValues(v, c) ==
    /\ v.url = c.url /\ v.timeout = c.timeout /\ v.concurrency = c.concurrency
    /\ v.headers = c.headers /\ v.body = c.body
    /\ v.method = IF c.method \in {"", "GET"} THEN "GET" ELSE c.method
    /\ v.bodyFile = IF c.body = "" THEN c.bodyFile ELSE ""
    /\ v.payloadDir = IF c.body = "" /\ c.bodyFile = "" THEN c.payloadDir ELSE ""
    /\ v.protocol = IF c.protocol \in {"", "http"} THEN "http" ELSE c.protocol
    /\ v.service = IF GRPC(c) THEN c.service ELSE ""
    /\ v.streaming = c.streaming
    /\ v.format = IF c.streaming /\ c.format \notin {"", "auto"} THEN c.format ELSE "auto"
    /\ v.duration = c.duration /\ v.requests = c.requests /\ v.rampUp = c.rampUp
    /\ v.qps = Rounded(c.qps)
    /\ v.price = IF c.price > 0 THEN Rounded(c.price) ELSE 0

\* The numbers of a valid configuration are not negative.
LEMMA ValidNumbers ==
    ASSUME NEW c, IsConfig(c), Valid(c)
    PROVE  /\ c.duration \in Nat /\ c.requests \in Nat /\ c.qps \in Nat /\ c.rampUp \in Nat
           /\ c.streaming \in BOOLEAN
  <1>1. /\ c.requests \in Int /\ c.duration \in Int /\ c.qps \in Int /\ c.rampUp \in Int
        /\ c.duration >= 0 /\ c.requests >= 0 /\ c.qps >= 0 /\ c.rampUp >= 0
        /\ c.streaming \in BOOLEAN
    BY DEF IsConfig, HasTypes, Valid
  <1> QED
    BY <1>1

LEMMA NotPositive ==
    ASSUME NEW n \in Nat, ~(n > 0)
    PROVE  n = 0
  OBVIOUS

LEMMA RoundedNotNegative ==
    ASSUME NEW q \in Nat
    PROVE  Rounded(q) >= 0
  BY RoundedTwice

LEMMA CommandSays ==
    ASSUME NEW c, IsConfig(c), Valid(c), Repeatable(c)
    PROVE  CommandValues(WithDefaults(RetestCommand(c)), c)
  <1> DEFINE g == RetestCommand(c)
             given == DOMAIN g
             v == WithDefaults(g)
             p == Printed(c)
             d == FlagDefaults
  <1>1. CommandNames(given, c)
    BY CommandFlags
  <1>2. \A f \in given : g[f] = p[f]
    BY DEF RetestCommand
  <1> HIDE DEF g
  <1>3. /\ p.body = c.body /\ p.qps = Rounded(c.qps) /\ p.price = Rounded(c.price)
        /\ \A f \in FlagNames \ {"body", "qps", "price"} : p[f] = c[f]
    BY Names DEF Printed, Repeatable, IsConfig, ConfigFields
  <1>4. \A f \in FlagNames : v[f] = IF f \in given THEN p[f] ELSE d[f]
    <2>1. Clean("qps", p.qps) = p.qps /\ Clean("price", p.price) = p.price
      BY SpellingsAssumption DEF Clean
    <2>2. \A f \in FlagNames \ {"qps", "price"} : p[f] = c[f] /\ Clean(f, c[f]) = c[f]
      BY <1>3, Names DEF Repeatable
    <2> HIDE DEF p
    <2>3. \A f \in FlagNames : Clean(f, p[f]) = p[f]
      BY <2>1, <2>2
    <2> QED
      BY <1>2, <2>3 DEF WithDefaults
  <1>5. /\ d.method = "GET" /\ d.headers = "none" /\ d.body = "" /\ d.bodyFile = ""
        /\ d.payloadDir = "" /\ d.protocol = "http" /\ d.service = "" /\ d.streaming = FALSE
        /\ d.format = "auto" /\ d.duration = 0 /\ d.requests = 0 /\ d.qps = 0 /\ d.rampUp = 0
        /\ d.price = 0
    BY DEF FlagDefaults
  <1>6. /\ c.duration \in Nat /\ c.requests \in Nat /\ c.qps \in Nat /\ c.rampUp \in Nat
        /\ c.streaming \in BOOLEAN
    BY ValidNumbers
  <1> HIDE DEF given, v, p, d
  <1>7. v.url = c.url /\ v.timeout = c.timeout /\ v.concurrency = c.concurrency
    BY <1>1, <1>3, <1>4, Names DEF CommandNames
  <1>8. v.headers = c.headers /\ v.body = c.body
    BY <1>1, <1>3, <1>4, <1>5, Names DEF CommandNames
  <1>9. v.method = IF c.method \in {"", "GET"} THEN "GET" ELSE c.method
    BY <1>1, <1>3, <1>4, <1>5, Names DEF CommandNames
  <1>10. v.bodyFile = IF c.body = "" THEN c.bodyFile ELSE ""
    BY <1>1, <1>3, <1>4, <1>5, Names DEF CommandNames
  <1>11. v.payloadDir = IF c.body = "" /\ c.bodyFile = "" THEN c.payloadDir ELSE ""
    BY <1>1, <1>3, <1>4, <1>5, Names DEF CommandNames
  <1>12. v.protocol = IF c.protocol \in {"", "http"} THEN "http" ELSE c.protocol
    BY <1>1, <1>3, <1>4, <1>5, Names DEF CommandNames
  <1>13. v.service = IF GRPC(c) THEN c.service ELSE ""
    BY <1>1, <1>3, <1>4, <1>5, Names DEF CommandNames
  <1>14. v.streaming = c.streaming
    BY <1>1, <1>3, <1>4, <1>5, <1>6, Names DEF CommandNames
  <1>15. v.format = IF c.streaming /\ c.format \notin {"", "auto"} THEN c.format ELSE "auto"
    BY <1>1, <1>3, <1>4, <1>5, Names DEF CommandNames
  <1>16. v.duration = c.duration /\ v.requests = c.requests /\ v.rampUp = c.rampUp
    <2>1. /\ ~(c.duration > 0) => c.duration = 0
          /\ ~(c.requests > 0) => c.requests = 0
          /\ ~(c.rampUp > 0) => c.rampUp = 0
      BY <1>6, NotPositive
    <2>2. v.duration = c.duration
      BY <1>1, <1>3, <1>4, <1>5, <2>1, Names DEF CommandNames
    <2>3. v.requests = c.requests
      BY <1>1, <1>3, <1>4, <1>5, <2>1, Names DEF CommandNames
    <2>4. v.rampUp = c.rampUp
      BY <1>1, <1>3, <1>4, <1>5, <2>1, Names DEF CommandNames
    <2> QED
      BY <2>2, <2>3, <2>4
  <1>17. v.qps = Rounded(c.qps)
    <2>1. ~(c.qps > 0) => Rounded(c.qps) = 0
      BY <1>6, NotPositive, RoundedTwice
    <2> QED
      BY <1>1, <1>3, <1>4, <1>5, <2>1, Names DEF CommandNames
  <1>18. v.price = IF c.price > 0 THEN Rounded(c.price) ELSE 0
    <2>1. "price" \in given <=> c.price > 0
      BY <1>1 DEF CommandNames
    <2>2. v.price = IF "price" \in given THEN Rounded(c.price) ELSE 0
      BY <1>3, <1>4, <1>5, Names
    <2> QED
      BY <2>1, <2>2
  <1>19. CommandValues(v, c)
    BY <1>7, <1>8, <1>9, <1>10, <1>11, <1>12, <1>13, <1>14, <1>15, <1>16, <1>17, <1>18
       DEF CommandValues
  <1> QED
    BY <1>19 DEF v, g

\* The command can be parsed: it has one payload source and its files exist.
LEMMA CommandParsable ==
    ASSUME NEW c, SourcesRead(c), Repeatable(c), NEW v, CommandValues(v, c)
    PROVE  Parsable(v)
  <1> DEFINE S == {f \in PayloadFlags : v[f] # ""}
  <1>1. /\ v.body = c.body
        /\ v.bodyFile = IF c.body = "" THEN c.bodyFile ELSE ""
        /\ v.payloadDir = IF c.body = "" /\ c.bodyFile = "" THEN c.payloadDir ELSE ""
        /\ v.headers = c.headers
    BY DEF CommandValues
  <1>2. /\ c.payloadDir # "" => c.body = "" /\ c.bodyFile = ""
        /\ c.headers # "comma"
    BY DEF Repeatable
  <1>3. /\ v.body # "" => v.bodyFile = "" /\ v.payloadDir = ""
        /\ v.bodyFile # "" => v.payloadDir = ""
    BY <1>1
  <1>4. \E x \in PayloadFlags : S \subseteq {x}
    <2>1. CASE v.body # ""
      BY <1>3, <2>1 DEF PayloadFlags
    <2>2. CASE v.body = "" /\ v.bodyFile # ""
      BY <1>3, <2>2 DEF PayloadFlags
    <2>3. CASE v.body = "" /\ v.bodyFile = ""
      BY <2>3 DEF PayloadFlags
    <2> QED
      BY <2>1, <2>2, <2>3
  <1>5. Cardinality(S) <= 1
    <2>1. PICK x \in PayloadFlags : S \subseteq {x}
      BY <1>4
    <2> HIDE DEF S
    <2>2. IsFiniteSet({x}) /\ Cardinality({x}) = 1
      BY FS_Singleton
    <2>3. Cardinality(S) <= Cardinality({x})
      BY <2>1, <2>2, FS_Subset
    <2> QED
      BY <2>2, <2>3
  <1>6. v.bodyFile \in DOMAIN Bodies \cup {""}
    <2>1. CASE v.bodyFile = ""
      BY <2>1
    <2>2. CASE v.bodyFile # ""
      <3>1. c.body = "" /\ c.bodyFile # "" /\ v.bodyFile = c.bodyFile
        BY <1>1, <2>2
      <3>2. c.payloadDir = ""
        BY <1>2, <3>1
      <3> QED
        BY <3>1, <3>2 DEF SourcesRead
    <2> QED
      BY <2>1, <2>2
  <1>7. v.payloadDir \in DOMAIN Dirs \cup {""}
    BY <1>1 DEF SourcesRead
  <1>8. v.headers # "comma"
    BY <1>1, <1>2
  <1> QED
    BY <1>5, <1>6, <1>7, <1>8 DEF Parsable

\* The command gives the payloads of the configuration.
LEMMA CommandPayloads ==
    ASSUME NEW c, Valid(c), SourcesRead(c), Repeatable(c), NEW v, CommandValues(v, c)
    PROVE  /\ Picker(FromFlags(v)) = Picker(c)
           /\ v.payloadDir # "" => FromFlags(v).payloadFiles # << >>
  <1> DEFINE w == FromFlags(v)
  <1>1. /\ v.body = c.body
        /\ v.bodyFile = IF c.body = "" THEN c.bodyFile ELSE ""
        /\ v.payloadDir = IF c.body = "" /\ c.bodyFile = "" THEN c.payloadDir ELSE ""
    BY DEF CommandValues
  <1>2. c.payloadDir # "" => c.body = "" /\ c.bodyFile = ""
    BY DEF Repeatable
  <1>3. /\ w.body = CASE v.payloadDir # "" -> ""
                      [] v.payloadDir = "" /\ v.bodyFile # "" -> Bodies[v.bodyFile]
                      [] OTHER -> v.body
        /\ w.payloadFiles = Listed(v.payloadDir)
    BY FlagFields
  <1>4. /\ c.payloadFiles = Listed(c.payloadDir)
        /\ c.payloadDir # "" => c.payloadFiles # << >>
    BY DEF SourcesRead, Valid
  <1> HIDE DEF w
  <1>5. CASE c.body # ""
    <2>1. v.payloadDir = "" /\ v.bodyFile = "" /\ c.payloadDir = ""
      BY <1>1, <1>2, <1>5
    <2>2. w.body = c.body /\ w.payloadFiles = c.payloadFiles
      BY <1>1, <1>3, <1>4, <2>1
    <2> QED
      BY <2>1, <2>2, PickerAlone DEF w
  <1>6. CASE c.body = "" /\ c.bodyFile # ""
    <2>1. v.payloadDir = "" /\ v.bodyFile = c.bodyFile /\ c.payloadDir = ""
      BY <1>1, <1>2, <1>6
    <2>2. Bodies[c.bodyFile] = ""
      BY <1>6, <2>1 DEF SourcesRead
    <2>3. w.body = c.body /\ w.payloadFiles = c.payloadFiles
      BY <1>3, <1>4, <1>6, <2>1, <2>2
    <2> QED
      BY <2>1, <2>3, PickerAlone DEF w
  <1>7. CASE c.body = "" /\ c.bodyFile = ""
    <2>1. v.payloadDir = c.payloadDir /\ v.bodyFile = "" /\ v.body = ""
      BY <1>1, <1>7
    <2>2. w.body = c.body /\ w.payloadFiles = c.payloadFiles
      BY <1>3, <1>4, <1>7, <2>1
    <2> QED
      BY <1>4, <2>1, <2>2, PickerAlone DEF w
  <1> QED
    BY <1>5, <1>6, <1>7

\* It is accepted ...
LEMMA CommandValid ==
    ASSUME NEW c, IsConfig(c), Valid(c), SourcesRead(c), Repeatable(c), NEW v, CommandValues(v, c)
    PROVE  Valid(FromFlags(v))
  <1> DEFINE w == FromFlags(v)
  <1>1. \A f \in FlagNames \ {"body"} : w[f] = v[f]
    BY FlagFields
  <1>2. v.payloadDir # "" => w.payloadFiles # << >>
    BY CommandPayloads
  <1> HIDE DEF w
  <1>3. /\ w.url = c.url /\ w.timeout = c.timeout /\ w.concurrency = c.concurrency
        /\ w.method = IF c.method \in {"", "GET"} THEN "GET" ELSE c.method
        /\ w.protocol = IF c.protocol \in {"", "http"} THEN "http" ELSE c.protocol
        /\ w.service = IF GRPC(c) THEN c.service ELSE ""
        /\ w.format = IF c.streaming /\ c.format \notin {"", "auto"} THEN c.format ELSE "auto"
        /\ w.duration = c.duration /\ w.requests = c.requests /\ w.rampUp = c.rampUp
        /\ w.qps = Rounded(c.qps) /\ w.payloadDir = v.payloadDir
    BY <1>1, Names DEF CommandValues
  <1>4. GRPC(w) <=> GRPC(c)
    BY <1>3 DEF GRPC
  <1>5. w.qps >= 0
    <2>1. Rounded(c.qps) >= 0
      BY ValidNumbers, RoundedNotNegative
    <2> QED
      BY <1>3, <2>1
  <1>6. w.url \in (IF GRPC(w) THEN HostPorts ELSE WebURLs) /\ w.timeout > 0 /\ w.concurrency > 0
    BY <1>3, <1>4 DEF Valid
  <1>7. w.protocol \in {"", "http"} => w.method \in Methods
    BY <1>3, MethodsAssumption DEF Valid
  <1>8. w.duration >= 0 /\ w.requests >= 0 /\ w.duration + w.requests > 0
    BY <1>3 DEF Valid
  <1>9. w.format \in {"", "auto", "sse", "jsonl", "raw"}
    BY <1>3 DEF Valid
  <1>10. w.protocol \in {"", "http", "grpc", "grpc-stream", "websocket"}
    BY <1>3 DEF Valid
  <1>11. GRPC(w) => w.service # ""
    BY <1>3, <1>4 DEF Valid
  <1>12. w.rampUp >= 0 /\ (w.duration > 0 => w.rampUp <= w.duration)
    BY <1>3 DEF Valid
  <1>13. w.payloadDir # "" => w.payloadFiles # << >>
    BY <1>2, <1>3
  <1>14. Valid(w)
    BY <1>5, <1>6, <1>7, <1>8, <1>9, <1>10, <1>11, <1>12, <1>13 DEF Valid
  <1> QED
    BY <1>14 DEF w

\* ... and does the same.
LEMMA CommandEffect ==
    ASSUME NEW c, IsConfig(c), Valid(c), SourcesRead(c), Repeatable(c), NEW v, CommandValues(v, c)
    PROVE  Effective(FromFlags(v)) = Effective(c)
  <1> DEFINE w == FromFlags(v)
  <1>1. \A f \in FlagNames \ {"body"} : w[f] = v[f]
    BY FlagFields
  <1>2. Picker(w) = Picker(c)
    BY CommandPayloads
  <1> HIDE DEF w
  <1>3. /\ w.url = c.url /\ w.headers = c.headers /\ w.streaming = c.streaming
        /\ w.method = IF c.method \in {"", "GET"} THEN "GET" ELSE c.method
        /\ w.protocol = IF c.protocol \in {"", "http"} THEN "http" ELSE c.protocol
        /\ w.service = IF GRPC(c) THEN c.service ELSE ""
        /\ w.format = IF c.streaming /\ c.format \notin {"", "auto"} THEN c.format ELSE "auto"
        /\ w.timeout = c.timeout /\ w.concurrency = c.concurrency
        /\ w.duration = c.duration /\ w.requests = c.requests /\ w.rampUp = c.rampUp
        /\ w.qps = Rounded(c.qps)
        /\ w.price = IF c.price > 0 THEN Rounded(c.price) ELSE 0
    BY <1>1, Names DEF CommandValues
  <1>4. GRPC(w) <=> GRPC(c)
    BY <1>3 DEF GRPC
  <1>5. (IF w.protocol \in {"", "http"} THEN w.method ELSE "")
           = IF c.protocol \in {"", "http"} THEN c.method ELSE ""
    BY <1>3, MethodsAssumption DEF Valid
  <1>6. (IF w.protocol = "" THEN "http" ELSE w.protocol) = IF c.protocol = "" THEN "http" ELSE c.protocol
    BY <1>3
  <1>7. (IF GRPC(w) THEN w.service ELSE "") = IF GRPC(c) THEN c.service ELSE ""
    BY <1>3, <1>4
  <1>8. (IF ~w.streaming THEN "none" ELSE IF w.format = "" THEN "auto" ELSE w.format)
           = IF ~c.streaming THEN "none" ELSE IF c.format = "" THEN "auto" ELSE c.format
    BY <1>3
  <1>9. Rounded(w.qps) = Rounded(c.qps)
    BY <1>3, ValidNumbers, RoundedTwice
  <1>10. (IF w.price > 0 THEN Rounded(w.price) ELSE 0) = IF c.price > 0 THEN Rounded(c.price) ELSE 0
    <2>1. CASE c.price > 0
      <3>1. c.price \in Nat
        BY <2>1 DEF IsConfig, HasTypes
      <3>2. w.price = Rounded(c.price) /\ w.price > 0
        BY <1>3, <2>1 DEF Repeatable
      <3>3. Rounded(w.price) = Rounded(c.price)
        BY <3>1, <3>2, RoundedTwice
      <3> QED
        BY <2>1, <3>2, <3>3
    <2>2. CASE ~(c.price > 0)
      <3>1. ~(0 > 0)
        OBVIOUS
      <3>2. w.price = 0
        BY <1>3, <2>2
      <3> QED
        BY <2>2, <3>1, <3>2
    <2> QED
      BY <2>1, <2>2
  <1>11. Effective(w) = Effective(c)
    BY <1>2, <1>3, <1>5, <1>6, <1>7, <1>8, <1>9, <1>10 DEF Effective
  <1> QED
    BY <1>11 DEF w

\* The command in the report repeats the run.
LEMMA InvRetestRepeats == JobInv => RetestRepeats
  <1> SUFFICES ASSUME JobInv, stage = "again", Repeatable(cfg)
               PROVE  Effective(second) = Effective(cfg)
    BY DEF RetestRepeats
  <1> DEFINE v == WithDefaults(retest)
  <1>1. /\ via = "cli" /\ retest = RetestCommand(cfg)
        /\ second = IF Accepted(retest, FALSE, Zero) THEN Parse(retest, FALSE, Zero) ELSE Zero
    BY DEF JobInv, ReportInv
  <1>2. IsConfig(cfg) /\ Valid(cfg)
    BY DEF JobInv, TypeInv, ConfigInv, Ran
  <1>3. SourcesRead(cfg)
    BY <1>1, ConfigSourcesRead DEF Ran
  <1>4. CommandValues(v, cfg)
    BY <1>1, <1>2, CommandSays
  <1>5. Parse(retest, FALSE, Zero) = FromFlags(v)
    BY DEF Parse
  <1> HIDE DEF v
  <1>6. Parsable(v) /\ Valid(FromFlags(v)) /\ Effective(FromFlags(v)) = Effective(cfg)
    BY <1>2, <1>3, <1>4, CommandParsable, CommandValid, CommandEffect
  <1>7. Accepted(retest, FALSE, Zero)
    BY <1>5, <1>6 DEF Accepted, v
  <1> QED
    BY <1>1, <1>5, <1>6, <1>7

\* The command in the report of a local run (buildRetestCommand) is accepted by
\* Parse and runs what the report is about, for every configuration that a
\* command line can express: in particular no text that Parse cleans.
THEOREM RetestRepeatsCorrect == Spec => []RetestRepeats
  BY Invariant, InvRetestRepeats, PTL

=============================================================================
