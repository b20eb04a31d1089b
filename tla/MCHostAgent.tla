---------------------------- MODULE MCHostAgent ----------------------------
(***************************************************************************)
(* Instances of HostAgent for TLC.                                         *)
(***************************************************************************)
EXTENDS HostAgent

CoreCollectors == {"cpu"}
Integrations == {"mongo", "nginx"}
ClosableCollectors == {"mongo"}
SlowCollectors == {"mongo"}
TotalCollectors == {"nginx"}
SampleCollectors == {"cpu"}

Values ==
  {"blank", "bad", "ref", "name", "wflag", "host", "uri", "url", "value", "value2",
   "process"}

\* A file that asks for nothing unusual, and the process that reads it by default
PlainFile ==
  [workload |-> "name", envFiles |-> <<>>, mongo |-> Absent,
   instances |-> <<"uri">>, nginx |-> Absent, endpoint |-> "blank"]

Plain ==
  [flag |-> FALSE, env |-> FALSE, root |-> FALSE, apiKey |-> "ok",
   files |-> [f \in {"flag", "env", "user", "system"} |-> "missing"],
   yaml |-> PlainFile, workload |-> "wflag", hostname |-> "host",
   process |-> "blank", nginx |-> <<"refused", "ok", "refused">>]

\* Everything about where the file is
Places ==
  {[Plain EXCEPT !.flag = f, !.env = e, !.root = r, !.files = fs] :
     f, e, r \in BOOLEAN,
     fs \in [{"flag", "env", "user", "system"} -> {"missing", "vanishes", "yaml"}]}
  \cup
  {[Plain EXCEPT !.flag = f, !.files["flag"] = s, !.files["user"] = s] :
     f \in BOOLEAN, s \in FileStates}

Named == [Plain EXCEPT !.flag = TRUE, !.files["flag"] = "yaml"]

\* Everything about what is in it, and about what it overrides
Contents ==
  {[Named EXCEPT !.yaml.workload = w, !.workload = f, !.hostname = h,
                 !.apiKey = k] :
     w \in {Absent, "blank", "bad", "name"}, f \in {Absent, "blank", "wflag"},
     h \in {"blank", "bad", "host"}, k \in {"empty", "ok"}}
  \cup
  {[Named EXCEPT !.yaml.mongo = m, !.yaml.instances = s, !.yaml.nginx = n,
                 !.yaml.endpoint = e] :
     m, n \in {Absent, TRUE, FALSE}, e \in {"blank", "bad", "url"},
     s \in {<<>>, <<"uri">>, <<"uri", "blank">>, <<"bad">>}}
  \cup
  {[Named EXCEPT !.yaml.workload = "ref", !.yaml.endpoint = "ref",
                 !.yaml.instances = <<"ref">>, !.yaml.envFiles = <<a, b>>,
                 !.process = p] :
     a, b \in {"missing", "bad", "other", "blank", "value", "value2"},
     p \in {"blank", "process"}}

\* Everything about nginx
Searches == {[Plain EXCEPT !.nginx = a] : a \in [1..4 -> {"ok", "refused", "hangs"}]}

MCInputs == Places \cup Contents \cup Searches

=============================================================================
