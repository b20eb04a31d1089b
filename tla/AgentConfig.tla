---------------------------- MODULE AgentConfig ----------------------------
(***************************************************************************)
(* How the host metrics agent gets its configuration                       *)
(* (cmd/statok-hostmetrics/config.go and main.go) and where it finds nginx *)
(* (internal/collectors/nginx/probe.go), as functions of what the process  *)
(* meets when it starts.                                                   *)
(*                                                                         *)
(* A string is "blank" (empty once trimmed), "bad" (does not validate),    *)
(* "ref" (a ${VAR}), or any other value; Absent is a key that is not there.*)
(***************************************************************************)
EXTENDS Naturals, Sequences, FiniteSets

CONSTANTS
  Strings,           \* what files, flags and variables may hold
  Absent,
  Fatal,             \* log.Fatal: the agent does not start
  CollectTimeout,    \* time a probe has
  RequestTimeout     \* defaultTimeout of the nginx probe

\* A file, once it is parsed: its keys and what its env files say of VAR
Config ==
  [workload : Strings \cup {Absent}, envFiles : Seq(Strings \cup {"missing", "other"}),
   mongo : BOOLEAN \cup {Absent}, instances : Seq(Strings),
   nginx : BOOLEAN \cup {Absent}, endpoint : Strings]

\* A request may fail and the probe still have time (nginx/collector.go:19,
\* agent/settings.go:6).
ASSUME ConfigAssumption ==
  /\ {"blank", "bad", "ref"} \subseteq Strings
  /\ Absent \notin Strings /\ Absent \notin BOOLEAN /\ Absent \notin Config
  /\ Fatal \notin Config /\ Fatal # Absent
  /\ RequestTimeout \in Nat \ {0}
  /\ CollectTimeout \in Nat /\ RequestTimeout < CollectTimeout

-----------------------------------------------------------------------------
(* The file                                                                *)

\* What os.Stat and, a moment later, os.ReadFile make of a file.  One that
\* "vanishes" is there for the first only; one that is "hidden" is in a directory
\* the agent may not search.
FileStates ==
  {"missing", "hidden", "vanishes", "unreadable", "malformed", "empty", "yaml"}

\* What the process meets: is there a --config, a STATOK_CONFIG, is it root; the
\* files in the four places, one content for the one that is read; --workload, the
\* host's name, VAR in the environment; the answers of the nginx endpoints.
Input ==
  [flag : BOOLEAN, env : BOOLEAN, root : BOOLEAN, apiKey : {"empty", "ok"},
   files : [{"flag", "env", "user", "system"} -> FileStates], yaml : Config,
   workload : Strings \cup {Absent}, hostname : Strings, process : Strings,
   nginx : Seq({"ok", "refused", "hangs"})]

fileExists(f) == f \in {"vanishes", "unreadable", "malformed", "empty", "yaml"}
NotExist(f) == f \in {"missing", "vanishes"}

defaultConfigPaths(in) ==
  IF in.root THEN <<"system", "user">> ELSE <<"user", "system">>

\* Mutant: the environment wins over the flag.
resolveConfigSource_EnvFirst(in) ==
  LET paths == defaultConfigPaths(in)
      there == {i \in 1..Len(paths) : fileExists(in.files[paths[i]])}
  IN  IF in.env THEN [path |-> "env", explicit |-> TRUE]
      ELSE IF in.flag THEN [path |-> "flag", explicit |-> TRUE]
      ELSE IF there = {} THEN [path |-> "none", explicit |-> FALSE]
      ELSE [path |-> paths[CHOOSE i \in there : \A j \in there : i <= j],
            explicit |-> FALSE]

\* --config, then STATOK_CONFIG, then the first default location that is there
resolveConfigSource(in) ==
  LET paths == defaultConfigPaths(in)
      there == {i \in 1..Len(paths) : fileExists(in.files[paths[i]])}
  IN  IF in.flag THEN [path |-> "flag", explicit |-> TRUE]
      ELSE IF in.env THEN [path |-> "env", explicit |-> TRUE]
      ELSE IF there = {} THEN [path |-> "none", explicit |-> FALSE]
      ELSE [path |-> paths[CHOOSE i \in there : \A j \in there : i <= j],
            explicit |-> FALSE]

\* An empty file, or one without any of the keys
EmptyConfig ==
  [workload |-> Absent, envFiles |-> <<>>, mongo |-> Absent, instances |-> <<>>,
   nginx |-> Absent, endpoint |-> "blank"]

\* loadEnvFiles: a file that is not there is skipped, one that cannot be read or
\* parsed is fatal, and of the files that define VAR the last one counts.
EnvFilesFail(cfg) == \E i \in 1..Len(cfg.envFiles) : cfg.envFiles[i] = "bad"

Defining(cfg) ==
  {i \in 1..Len(cfg.envFiles) : cfg.envFiles[i] \notin {"missing", "other", "bad"}}

\* What os.Expand puts in the place of ${VAR}
Lookup(cfg, in) ==
  IF Defining(cfg) = {} THEN in.process
  ELSE cfg.envFiles[CHOOSE i \in Defining(cfg) : \A j \in Defining(cfg) : j <= i]

\* expandEnvStringsWithMap, for the strings the agent looks at
expandEnvStrings(cfg, in) ==
  LET Expand(v) == IF v = "ref" THEN Lookup(cfg, in) ELSE v IN
    [cfg EXCEPT !.workload = Expand(@), !.endpoint = Expand(@),
                !.instances = [i \in 1..Len(@) |-> Expand(@[i])]]

\* The result is Absent, a configuration, or Fatal.
loadFileConfig(source, in) ==
  IF source.path = "none" THEN Absent
  ELSE LET f == in.files[source.path] IN
    CASE NotExist(f) -> IF source.explicit THEN Fatal ELSE Absent
      [] f \in {"hidden", "unreadable", "malformed"} -> Fatal
      [] f = "empty" -> EmptyConfig
      [] f = "yaml" -> IF EnvFilesFail(in.yaml) THEN Fatal
                       ELSE expandEnvStrings(in.yaml, in)

-----------------------------------------------------------------------------
(* What the agent makes of it                                              *)

\* The file's workload, or the flag's, or the host's name
resolveWorkload(cfg, in) ==
  LET given == IF cfg # Absent /\ cfg.workload # Absent THEN cfg.workload
               ELSE IF in.workload # Absent THEN in.workload
               ELSE in.hostname
  IN  IF given = "blank" THEN Fatal ELSE given

\* Mongo is asked for and cannot be set up; instances that are listed ask for it
\* unless it is disabled.
MongoFails(cfg) ==
  \/ cfg.mongo = TRUE /\ cfg.instances = <<>>
  \/ cfg.mongo # FALSE /\ \E i \in 1..Len(cfg.instances) :
                            cfg.instances[i] \in {"blank", "bad"}

NginxFails(cfg) == cfg.nginx # FALSE /\ cfg.endpoint = "bad"

resolveRuntimeConfig(cfg, in) ==
  LET workload == resolveWorkload(cfg, in) IN
  IF workload = Fatal \/ (cfg # Absent /\ (MongoFails(cfg) \/ NginxFails(cfg)))
    THEN Fatal
    ELSE [workload |-> workload,
          mongo    |-> cfg # Absent /\ cfg.mongo # FALSE /\ cfg.instances # <<>>,
          nginx    |-> cfg = Absent \/ cfg.nginx # FALSE,
          endpoint |-> IF cfg = Absent \/ cfg.nginx = FALSE THEN "blank"
                       ELSE cfg.endpoint]

\* A name of at most 100 letters, digits and .-_/
validateWorkload(workload) == workload \notin {"blank", "bad"}

\* initClient and, in the library, NewClient: nothing but an empty key is refused.
InitFails(workload, apiKey) == ~validateWorkload(workload) \/ apiKey = "empty"

\* main up to agent.Run
startup(in) ==
  LET cfg == loadFileConfig(resolveConfigSource(in), in)
      run == IF cfg = Fatal THEN Fatal ELSE resolveRuntimeConfig(cfg, in)
  IN  IF run = Fatal THEN Fatal
      ELSE IF InitFails(run.workload, in.apiKey) THEN Fatal ELSE run

-----------------------------------------------------------------------------
(* nginx                                                                   *)

\* An endpoint that hangs takes the request's timeout or what is left of the probe's,
\* and the search ends when nothing is left.
InTime(answers, i) ==
  RequestTimeout * Cardinality({j \in 1..(i - 1) : answers[j] = "hangs"})
    < CollectTimeout

\* Mutant: one endpoint that does not answer ends the search.
autoProbeEndpoint_FirstError(answers) ==
  IF answers[1] = "ok" THEN 1 ELSE 0

\* autoProbeEndpoint: the first endpoint, in order, that answers; 0 when none
\* does or the deadline comes first.
autoProbeEndpoint(answers) ==
  LET found == {i \in 1..Len(answers) : answers[i] = "ok" /\ InTime(answers, i)}
  IN  IF found = {} THEN 0 ELSE CHOOSE i \in found : \A j \in found : i <= j

\* Detect: a configured endpoint is not searched for; it stands for the first.
detectNginx(cfg, answers) ==
  IF cfg.endpoint = "blank" THEN autoProbeEndpoint(answers)
  ELSE IF answers[1] = "ok" THEN 1 ELSE 0

-----------------------------------------------------------------------------
(* Properties                                                              *)

\* What was overridden has no influence, and what was asked for is done or the
\* agent does not start; only for nginx, asked for or not, the probe decides (a
\* server that is not reached is left out, without an error).  With a file named by the flag neither STATOK_CONFIG nor
\* the default locations matter, and a named file is never passed over; a workload
\* in the file makes flag and host name irrelevant, a last env file that defines
\* VAR the others and the process environment; a Mongo that is enabled runs, an
\* integration that is disabled does not, and no workload is empty or malformed
\* (config.go:66-84, 131-243, 287-335).
Honours(in) ==
  LET result == startup(in)
      Same(other) == startup(other) = result
      named == IF in.flag THEN "flag" ELSE "env"
      y     == in.yaml
      files == Len(y.envFiles)
  IN
  /\ in.flag => \A f \in FileStates :
       Same([in EXCEPT !.env = ~@, !.files["env"] = f, !.files["user"] = f,
                       !.files["system"] = f])
  /\ in.flag \/ in.env =>
       /\ \A f \in FileStates : Same([in EXCEPT !.files["user"] = f,
                                               !.files["system"] = f])
       /\ result # Fatal => in.files[named] \in {"empty", "yaml"}
  /\ result # Fatal => result.workload \notin {"blank", "bad", Absent}
  /\ (in.flag \/ in.env) /\ in.files[named] = "yaml" =>
       /\ y.workload # Absent =>
            \A w \in {"blank", Absent} : Same([in EXCEPT !.workload = w,
                                                         !.hostname = w])
       /\ files > 0 /\ y.envFiles[files] \notin {"missing", "other", "bad"}
             /\ ~EnvFilesFail(y) =>
            Same([in EXCEPT !.process = "blank",
                            !.yaml.envFiles = <<y.envFiles[files]>>])
       /\ result # Fatal => /\ y.mongo = TRUE => result.mongo
                            /\ y.mongo = FALSE => ~result.mongo
                            /\ y.nginx = FALSE => ~result.nginx

\* The search stops at the first endpoint that answers; it misses one that would
\* have answered only if two before it used up the probe's time
\* (nginx/probe.go:45-73).
FindsFirst(answers) ==
  LET found == autoProbeEndpoint(answers)
      ok    == {i \in 1..Len(answers) : answers[i] = "ok"}
  IN
  /\ found # 0 => found \in ok /\ \A i \in ok : found <= i
  /\ found = 0 => \A i \in ok : \E j, k \in 1..(i - 1) :
       j < k /\ answers[j] = "hangs" /\ answers[k] = "hangs"

=============================================================================
