--------------------------- MODULE HTTPTransport ---------------------------
(***************************************************************************)
(* The HTTP transport (transport.go) and its line protocol with a reusable *)
(* dictionary (line_protocol_v4.go).  Clients that share one transport     *)
(* send under its mutex.  A body names series by id; a definition travels  *)
(* only with the first body that uses the series, so the transport and the *)
(* ingester each keep a dictionary, and the two drift apart when a request *)
(* is lost, delayed or refused or when the ingester forgets a session.     *)
(*                                                                         *)
(* A payload is the sequence of the series of its events, in the order of  *)
(* encoding; its batch id is a number, and a batch that is sent again      *)
(* keeps it.  A session is the number of the dictionary that opened it:    *)
(* its name is the clock in nanoseconds and is taken to be unique.         *)
(*                                                                         *)
(* The ingester is not part of this repository.  It is modelled from what  *)
(* the transport expects of it: it keeps the definitions it has accepted   *)
(* per session, answers unknown_series_dictionary when it cannot resolve   *)
(* an id, may take any part of a body and still answer 2xx, may refuse any *)
(* request and may forget any session.  From what it refuses it takes      *)
(* nothing, and it does not deduplicate.                                   *)
(***************************************************************************)
EXTENDS Naturals, Sequences, FiniteSets

CONSTANTS
  Senders,                 \* worker goroutines of the clients
  Series,
  Payloads,                \* the payloads they send
  MaxSends,                \* bound: calls of Send in all, the retries included
  MaxDictionarySeries,     \* defaultMaxDictionarySeries
  Misconfigured,           \* senders with an invalid workload name
  Nobody

Elements(s) == {s[i] : i \in 1..Len(s)}

ASSUME TransportAssumption ==
  /\ Payloads \subseteq Seq(Series) \ {<<>>}
  /\ MaxSends \in Nat
  /\ MaxDictionarySeries \in Nat \ {0}
  /\ Misconfigured \subseteq Senders
  /\ Nobody \notin Senders

VARIABLES
  \* the transport
  mu,        \* who holds the mutex
  dict,      \* session, revision and seriesMap of the current dictionary
  sends,     \* how many calls of Send there have been
  \* the clients
  batches,   \* batch id -> its payload, its client, the requests made for it
  retries,   \* sender -> batches it may send again
  \* per sender
  pc,        \* "idle", "lock", "first", "resync", or a verdict, see Verdicts
  batch,     \* the batch it sends
  body,      \* the body of its outstanding request
  reply,     \* what the ingester answered to it, or None
  \* the network and the ingester
  late,      \* requests whose sender has given up and which may still arrive
  table,     \* session -> id -> series, for the sessions the ingester knows
  \* history, for the properties only
  encoded,   \* every header with the dictionary it stands for
  accepted,  \* requests the ingester processed, taking all, a part or nothing
  unanswered \* requests whose sender gave up before it had an answer

clients == <<batches, retries>>
senders == <<pc, batch, body, reply>>
vars == <<mu, dict, sends, batches, retries, pc, batch, body, reply, late, table,
          encoded, accepted, unanswered>>

\* An answer of the ingester: its status, the code in its body if there is one,
\* and whether its headers say that events were dropped or rejected.
Answer(status, code) == [status |-> status, code |-> code, dropped |-> FALSE]

None == Answer(0, "none")
Accepted == Answer(204, "none")
Partial == [Accepted EXCEPT !.dropped = TRUE]
Miss == Answer(409, "unknown_series_dictionary")
TooLarge == Answer(413, "none")

\* What Send returns: nil, an error that is retried, one that is not, one that
\* disables the client.
Verdicts == {"ok", "retry", "drop", "stop"}

-----------------------------------------------------------------------------
(* The dictionary and the encoder                                          *)

\* A dictionary without series, under a session that was never used.
newDictionaryState(d) ==
  [session |-> d.session + 1, revision |-> 0, ids |-> <<>>]

Size(d) == Cardinality(DOMAIN d.ids)

\* ensureDictionaryLocked; session 0 is the transport without a dictionary.
ensureDictionary(d) ==
  IF d.session = 0 \/ Size(d) >= MaxDictionarySeries
    THEN newDictionaryState(d) ELSE d

\* Positions of p that getSeriesID gives a new id: the first of a new series.
FirstUses(p, d) ==
  {i \in 1..Len(p) : /\ p[i] \notin DOMAIN d.ids
                     /\ \A j \in 1..(i - 1) : p[j] # p[i]}

\* Mutant: the ids of a body start at 0 again.
NewIds_PerBody(p, d) ==
  [x \in DOMAIN d.ids \cup Elements(p) |->
     IF x \in DOMAIN d.ids THEN d.ids[x]
     ELSE LET i == CHOOSE i \in FirstUses(p, d) : p[i] = x
          IN  Cardinality({j \in FirstUses(p, d) : j < i})]

\* The ids after the payload: new series are numbered on from the old ones.
NewIds(p, d) ==
  [x \in DOMAIN d.ids \cup Elements(p) |->
     IF x \in DOMAIN d.ids THEN d.ids[x]
     ELSE LET i == CHOOSE i \in FirstUses(p, d) : p[i] = x
          IN  Size(d) + Cardinality({j \in FirstUses(p, d) : j < i})]

\* Mutant: the revision stays although series were added.
NextRevision_Stuck(p, d) == IF d.revision = 0 THEN 1 ELSE d.revision

\* state.revision after the encoding
NextRevision(p, d) ==
  IF FirstUses(p, d) # {} THEN d.revision + 1 ELSE d.revision

\* The dictionary after encodeLinePayloadV4.
Encode(p, d) ==
  [session |-> d.session, revision |-> NextRevision(p, d), ids |-> NewIds(p, d)]

\* The body: the definitions of the new series, then one id per event.
Body(p, d) ==
  LET after == Encode(p, d) IN
    [session |-> after.session, revision |-> after.revision,
     defs |-> {<<after.ids[p[i]], p[i]>> : i \in FirstUses(p, d)},
     refs |-> [i \in 1..Len(p) |-> after.ids[p[i]]],
     meant |-> p]

NoBody == [session |-> 0, revision |-> 0, defs |-> {}, refs |-> <<>>,
           meant |-> <<>>]

\* What a header stands for: the series of every id of its dictionary.
Header(d) ==
  [session |-> d.session, revision |-> d.revision,
   series |-> {<<d.ids[x], x>> : x \in DOMAIN d.ids}]

Init ==
  /\ mu = Nobody
  /\ dict = [session |-> 0, revision |-> 0, ids |-> <<>>]
  /\ sends = 0
  /\ batches = <<>>
  /\ retries = [s \in Senders |-> {}]
  /\ pc = [s \in Senders |-> "idle"]
  /\ batch = [s \in Senders |-> 0]
  /\ body = [s \in Senders |-> NoBody]
  /\ reply = [s \in Senders |-> None]
  /\ late = {}
  /\ table = <<>>
  /\ encoded = {}
  /\ accepted = {}
  /\ unanswered = {}

-----------------------------------------------------------------------------
(* send                                                                    *)

\* A worker calls Send and waits for the mutex, whatever its deadline; an
\* invalid configuration is refused before that.
Call(s, n) ==
  /\ pc[s] \in {"idle"} \cup Verdicts
  /\ sends < MaxSends
  /\ sends' = sends + 1
  /\ pc' = [pc EXCEPT ![s] = IF s \in Misconfigured THEN "drop" ELSE "lock"]
  /\ batch' = [batch EXCEPT ![s] = n]
  /\ UNCHANGED <<mu, dict, body, reply, late, table, encoded, accepted, unanswered>>

\* It sends a new batch, which is never empty.
SendNew(s, p) ==
  /\ Call(s, Len(batches) + 1)
  /\ batches' = Append(batches, [payload |-> p, by |-> s, requests |-> 0])
  /\ UNCHANGED retries

\* It sends a batch of its retry queue again.
SendAgain(s) ==
  /\ \E n \in retries[s] : /\ Call(s, n)
                           /\ retries' = [retries EXCEPT ![s] = @ \ {n}]
  /\ UNCHANGED batches

\* The last request for the batch of s: its batch id and its number
Request(s) == <<batch[s], batches[batch[s]].requests>>

\* Encode the payload with dictionary d and send the body.
Post(s, d, next) ==
  LET p == batches[batch[s]].payload IN
    /\ dict' = Encode(p, d)
    /\ body' = [body EXCEPT ![s] = Body(p, d)]
    /\ encoded' = encoded \cup {Header(Encode(p, d))}
    /\ pc' = [pc EXCEPT ![s] = next]
    /\ reply' = [reply EXCEPT ![s] = None]
    /\ batches' = [batches EXCEPT ![batch[s]].requests = @ + 1]
    /\ UNCHANGED retries

\* The mutex is free: ensure a dictionary, encode, send.
Lock(s) ==
  /\ pc[s] = "lock"
  /\ mu = Nobody
  /\ mu' = s
  /\ Post(s, ensureDictionary(dict), "first")
  /\ UNCHANGED <<sends, batch, late, table, accepted, unanswered>>

\* send returns, with the dictionary it leaves behind.
Unlock(s, verdict, d) ==
  /\ mu' = Nobody
  /\ dict' = d
  /\ pc' = [pc EXCEPT ![s] = verdict]
  /\ body' = [body EXCEPT ![s] = NoBody]
  /\ reply' = [reply EXCEPT ![s] = None]
  /\ retries' = IF verdict = "retry"
                  THEN [retries EXCEPT ![s] = @ \cup {batch[s]}] ELSE retries
  /\ UNCHANGED <<batches, encoded>>

\* The defaults of StopStatusCodes and StopResponseCodes
shouldStopOnStatus(status) == status = 401

shouldStopOnResponseCode(code) ==
  code \in {"unauthorized", "unsupported_protocol_version"}

Stops(r) == shouldStopOnStatus(r.status) \/ shouldStopOnResponseCode(r.code)

\* The ingester is overloaded or down, and has not said to stop.
shouldRetryTransport(r) ==
  ~Stops(r) /\ r.status \in {408, 429, 500, 502, 503, 504}

\* Mutant: what was not accepted in whole is sent again.
Verdict_PartialRetried(r) ==
  CASE r.status \in 200..299 /\ ~r.dropped -> "ok"
    [] Stops(r) -> "stop"
    [] shouldRetryTransport(r) \/ r.dropped -> "retry"
    [] OTHER -> "drop"

\* What sendBody makes of an answer, and sendPayload of the error.  A 2xx is nil
\* whatever the headers say was dropped.
Verdict(r) ==
  CASE r.status \in 200..299 -> "ok"
    [] Stops(r) -> "stop"
    [] shouldRetryTransport(r) -> "retry"
    [] OTHER -> "drop"

\* Mutant: the resync keeps the dictionary that the ingester misses.
ResyncDictionary_Kept == dict

\* The dictionary the resync encodes with.
ResyncDictionary == newDictionaryState(dict)

\* The response arrives.  A dictionary miss of the first request is answered
\* with one more request, from an empty dictionary; a body that was too large
\* also drops the dictionary.
Response(s) ==
  /\ pc[s] \in {"first", "resync"}
  /\ reply[s] # None
  /\ \/ /\ pc[s] = "first" /\ reply[s] = Miss
        /\ Post(s, ResyncDictionary, "resync")
        /\ UNCHANGED mu
     \/ /\ ~(pc[s] = "first" /\ reply[s] = Miss)
        /\ Unlock(s, Verdict(reply[s]),
                  IF reply[s].status = 413 THEN newDictionaryState(dict)
                                           ELSE dict)
  /\ UNCHANGED <<sends, batch, late, table, accepted, unanswered>>

\* The request of s gets no answer; unless it was processed it may be on its way.
GiveUp(s) ==
  /\ late' \in IF reply[s] = None
                 THEN {late, late \cup {<<body[s], Request(s)>>}} ELSE {late}
  /\ unanswered' = unanswered \cup {Request(s)}

\* Mutant: the request is repeated under the mutex until it is answered.
Fail_Repeats(s) ==
  /\ pc[s] \in {"first", "resync"}
  /\ GiveUp(s)
  /\ reply' = [reply EXCEPT ![s] = None]
  /\ UNCHANGED <<mu, dict, sends, clients, pc, batch, body, table, encoded, accepted>>

\* client.Do fails: the deadline passed or the connection broke, before or after
\* the ingester saw the request.
Fail(s) ==
  /\ pc[s] \in {"first", "resync"}
  /\ GiveUp(s)
  /\ Unlock(s, "retry", dict)
  /\ UNCHANGED <<sends, batch, table, accepted>>

-----------------------------------------------------------------------------
(* The ingester (external)                                                 *)

\* How it refuses: too large, overloaded, a key it does not know, a protocol or a
\* body it does not understand
Refusals ==
  {TooLarge, Answer(503, "none"), Answer(401, "none"),
   Answer(400, "unsupported_protocol_version"), Answer(409, "none")}

Known(session) == IF session \in DOMAIN table THEN table[session] ELSE {}

\* The definitions the ingester has once it has read those of the body; a
\* definition it reads replaces the one it had.
Merged(b) ==
  b.defs \cup {e \in Known(b.session) : \A f \in b.defs : f[1] # e[1]}

Resolvable(b) == \A i \in 1..Len(b.refs) : \E e \in Merged(b) : e[1] = b.refs[i]

\* What the ingester reads in the i-th event of b
Reading(b, i) == (CHOOSE e \in Merged(b) : e[1] = b.refs[i])[2]

\* It takes b, which was sent in that request, or whatever part of its events it
\* does not drop or reject.
Ingest(b, request) ==
  /\ Resolvable(b)
  /\ table' = [x \in DOMAIN table \cup {b.session} |->
                 IF x = b.session THEN Merged(b) ELSE table[x]]
  /\ accepted' = accepted \cup {request}

\* The ingester processes the outstanding request of s.
Process(s) ==
  /\ pc[s] \in {"first", "resync"}
  /\ reply[s] = None
  /\ \/ /\ Ingest(body[s], Request(s))
        /\ \E r \in {Accepted, Partial} : reply' = [reply EXCEPT ![s] = r]
     \/ /\ ~Resolvable(body[s])
        /\ reply' = [reply EXCEPT ![s] = Miss]
        /\ UNCHANGED <<table, accepted>>
     \/ /\ \E r \in Refusals : reply' = [reply EXCEPT ![s] = r]
        /\ UNCHANGED <<table, accepted>>
  /\ UNCHANGED <<mu, dict, sends, clients, pc, batch, body, late, encoded,
                 unanswered>>

\* A request arrives after its sender has given up: nobody reads the answer.
ProcessLate ==
  /\ \E m \in late :
       /\ late' = late \ {m}
       /\ Ingest(m[1], m[2]) \/ UNCHANGED <<table, accepted>>
  /\ UNCHANGED <<mu, dict, sends, clients, senders, encoded, unanswered>>

\* The ingester restarts or evicts a session.
Forget ==
  /\ \E session \in DOMAIN table :
       table' = [x \in DOMAIN table \ {session} |-> table[x]]
  /\ UNCHANGED <<mu, dict, sends, clients, senders, late, encoded, accepted,
                 unanswered>>

\* Every call has returned and nothing is on its way.
Quiet ==
  /\ sends = MaxSends
  /\ \A s \in Senders : pc[s] \in {"idle"} \cup Verdicts
  /\ UNCHANGED vars

Next ==
  \/ \E s \in Senders : \E p \in Payloads : SendNew(s, p)
  \/ \E s \in Senders : \/ SendAgain(s) \/ Lock(s) \/ Response(s) \/ Fail(s)
                         \/ Process(s)
  \/ ProcessLate \/ Forget \/ Quiet

Spec == Init /\ [][Next]_vars

(***************************************************************************)
(* A request ends: its context has a deadline of 5 s (client.go:455).      *)
(* sync.Mutex hands itself to a waiter that has waited for long, so a      *)
(* Lock that is possible again and again happens.                          *)
(***************************************************************************)
FairSpec ==
  /\ Spec
  /\ \A s \in Senders : WF_vars(Response(s) \/ Fail(s)) /\ SF_vars(Lock(s))

-----------------------------------------------------------------------------
(* Properties                                                              *)

\* Type correctness of the transport and of its senders.
TypeOK ==
  /\ mu \in Senders \cup {Nobody}
  /\ dict.session \in Nat /\ dict.revision \in Nat
  /\ DOMAIN dict.ids \subseteq Series
  /\ \A x \in DOMAIN dict.ids : dict.ids[x] \in 0..(Size(dict) - 1)
  /\ sends \in 0..MaxSends
  /\ batches \in Seq([payload : Payloads, by : Senders, requests : Nat])
  /\ retries \in [Senders -> SUBSET (1..Len(batches))]
  /\ batch \in [Senders -> 0..Len(batches)]
  /\ pc \in [Senders -> {"idle", "lock", "first", "resync"} \cup Verdicts]
  /\ \A s \in Senders : pc[s] \in {"first", "resync"} => mu = s

\* The bodies the ingester may still process
OnTheWire ==
  {m[1] : m \in late}
    \cup {body[s] : s \in {t \in Senders : pc[t] \in {"first", "resync"}}}

\* No event is booked on a wrong series: whatever requests are lost, delayed or
\* refused, whatever the ingester forgets and whatever part of a body it takes,
\* the ids it can resolve stand for the series the encoder meant
\* (transport.go:214-247, line_protocol_v4.go:56-99).
NoMisattribution ==
  \A b \in OnTheWire :
    Resolvable(b) => \A i \in 1..Len(b.refs) : Reading(b, i) = b.meant[i]

\* The header identifies the dictionary: two bodies with the same session and
\* revision were encoded with the same series ids, and a later revision only
\* adds to an earlier one (line_protocol_v4.go:97-108).
DictionaryVersioned ==
  \A g, h \in encoded :
    g.session = h.session /\ g.revision <= h.revision
      => /\ g.series \subseteq h.series
         /\ g.revision = h.revision => g = h

\* The resync cannot miss again: it defines every series it refers to, so a
\* batch is not dropped because of the dictionary alone (transport.go:232-246).
ResyncSelfContained ==
  \A s \in Senders :
    pc[s] = "resync" => \A i \in 1..Len(body[s].refs) :
                          \E e \in body[s].defs : e[1] = body[s].refs[i]

\* A batch is sent again only if the ingester took nothing of it or its answer
\* never came: once an answer says 2xx, of the whole batch or of a part of it, no
\* resync, retry or late arrival makes the client repeat what was taken.  And nil
\* is returned for what the ingester accepted, dropped events or not
\* (transport.go:223-247, 303-321, client.go:455-478).
ReplayOnlyUnanswered ==
  /\ TypeOK
  /\ \A r \in accepted :
       \/ r \in unanswered
       \/ /\ r[2] = batches[r[1]].requests
          /\ \A s \in Senders : r[1] \notin retries[s]
  /\ \A s \in Senders : pc[s] = "ok" => Request(s) \in accepted

\* Every call of Send returns: the mutex is free again after every outcome
\* (transport.go:214-215).
SendReturns == \A s \in Senders : pc[s] = "lock" ~> pc[s] \in Verdicts

=============================================================================
