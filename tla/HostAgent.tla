----------------------------- MODULE HostAgent -----------------------------
(***************************************************************************)
(* The host metrics agent (cmd/statok-hostmetrics): AgentRunner composed   *)
(* with the configuration it starts from, the probes it makes and the      *)
(* counters its collectors read.                                           *)
(***************************************************************************)
EXTENDS AgentRunner, AgentConfig, HostMetrics

CONSTANTS
  Inputs,      \* what the process may meet at startup: files, flags, variables,
               \* and how nginx endpoints answer, in the order of the search
  Forgotten    \* startup is over and nothing reads its inputs again

ASSUME HostAssumption == Inputs \subseteq Input

VARIABLE inputs

hostVars == <<vars, metrics, inputs>>

HostInit ==
  /\ Init /\ MetricsInit
  /\ inputs \in Inputs

-----------------------------------------------------------------------------

\* main up to agent.Run: the probes are Docker's and the ones configured.
Startup ==
  /\ main = "config"
  /\ LET cfg == startup(inputs) IN
       IF cfg = Fatal THEN Refuse
       ELSE Configure({p \in Probes : \/ p = "docker"
                                      \/ p = "mongo" /\ cfg.mongo
                                      \/ p = "nginx" /\ cfg.nginx})
  /\ UNCHANGED <<metrics, inputs>>

\* The order in which main appends the probes
ProbeOrder == <<"docker", "mongo", "nginx">>

NextProbe(p) ==
  /\ p \in unprobed
  /\ \E i \in 1..3 : ProbeOrder[i] = p /\ \A j \in 1..(i - 1) :
                                            ProbeOrder[j] \notin unprobed

\* What the probe's Detect and New can come to.  Docker's looks for the daemon's
\* socket, Mongo's is certain; nginx's requests fail once the signal has come.
Detected(p) ==
  CASE p = "docker" -> BOOLEAN
    [] p = "mongo" -> {TRUE}
    [] p = "nginx" -> {~cancelled /\ detectNginx(startup(inputs), inputs.nginx) # 0}

Detect(p) ==
  /\ main = "probe"
  /\ NextProbe(p)
  /\ \E detected \in Detected(p) : Probe(p, detected)
  /\ UNCHANGED <<metrics, inputs>>

Launch ==
  /\ Start
  /\ inputs' = Forgotten
  /\ UNCHANGED metrics

\* The rest of main
Shutdown ==
  /\ WaitAll \/ Stopped \/ flushAndClose \/ \E c \in Collectors : CloseCollector(c)
  /\ UNCHANGED <<metrics, inputs>>

\* A collection succeeds, or fails before it has recorded anything.
Collected(c) ==
  /\ Finish(c)
  /\ Collect(c) \/ UNCHANGED metrics
  /\ UNCHANGED inputs

Loop(c) ==
  /\ Begin(c) \/ Skip(c) \/ Tick(c) \/ Leave(c) \/ Fire(c)
  /\ UNCHANGED <<metrics, inputs>>

HostNext ==
  \/ Signal /\ UNCHANGED <<metrics, inputs>>
  \/ Startup \/ \E p \in Probes : Detect(p)
  \/ Launch \/ Shutdown
  \/ \E c \in Collectors : Collected(c) \/ Loop(c)
  \/ Work /\ main = "run" /\ UNCHANGED <<vars, inputs>>
  \/ Exited /\ UNCHANGED <<metrics, inputs>>

(***************************************************************************)
(* Goroutines that can run do run, time passes, and a collection ends: the *)
(* integrations pass their context to their requests, and the core         *)
(* collectors read files of the kernel (a file system that hangs in statfs *)
(* would break this, see the README).  A select among several ready cases  *)
(* picks one at random, so a case that is ready again and again is picked: *)
(* strong fairness of Leave.                                               *)
(***************************************************************************)
HostSpec ==
  /\ HostInit /\ [][HostNext]_hostVars
  /\ WF_hostVars(Startup \/ (\E p \in Probes : Detect(p)) \/ Launch \/ Shutdown)
  /\ \A c \in Collectors :
       /\ WF_hostVars(Collected(c))
       /\ WF_hostVars((Begin(c) \/ Skip(c)) /\ UNCHANGED <<metrics, inputs>>)
       /\ WF_hostVars((Tick(c) \/ Leave(c)) /\ UNCHANGED <<metrics, inputs>>)
       /\ SF_hostVars(Leave(c) /\ UNCHANGED <<metrics, inputs>>)
       /\ WF_hostVars(Fire(c) /\ UNCHANGED <<metrics, inputs>>)

-----------------------------------------------------------------------------
(* Properties                                                              *)

\* Whatever files, flags and variables the agent meets: what was overridden has
\* no influence, and the agent sets up what was asked for or does not start, see
\* Honours (cmd/statok-hostmetrics/config.go, main.go:55-91), which for nginx is
\* the probe: a server that is not reached at startup is left out; and however the
\* endpoints answer, nginx is found at the first that does, unless two that hang
\* use up the probe's time, see FindsFirst (nginx/probe.go:45-73).
StartsAsAsked ==
  inputs # Forgotten => Honours(inputs) /\ FindsFirst(inputs.nginx)

=============================================================================
