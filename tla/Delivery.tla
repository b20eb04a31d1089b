------------------------------ MODULE Delivery ------------------------------
(***************************************************************************)
(* What the client promises its application, without queue sizes, the      *)
(* ticker, backoff or retry passes.  An event that is recorded is accepted *)
(* into one ordered intake or rejected; the intake is cut into batches     *)
(* from the front, so that a batch is a run of consecutive events; a batch *)
(* keeps its number and its events, is tried a bounded number of times and *)
(* is delivered or given up as a whole; a client that was told to stop     *)
(* ingesting tries nothing more; a client that closes has first taken      *)
(* everything accepted before the request out of its intake.               *)
(***************************************************************************)
EXTENDS Naturals, Sequences

CONSTANTS
  MaxCalls,      \* bound: events the application records
  MaxBatch,      \* events of one batch
  MaxTries       \* times one batch is tried

VARIABLES
  recorded,      \* number of events recorded so far; they are numbered
  held,          \* recorded, neither accepted nor rejected yet
  intake,        \* accepted and in no batch yet, in order
  open,          \* batches neither delivered nor given up
  formed,        \* number of batches formed so far
  rejected, absorbed, delivered, lost,     \* the four ends of an event
  stopped,       \* ingestion has been disabled
  closing, due,  \* Close was called; what was accepted before that
  closed

vars == <<recorded, held, intake, open, formed, rejected, absorbed, delivered,
          lost, stopped, closing, due, closed>>

ends == <<rejected, absorbed, delivered, lost>>
life == <<stopped, closing, due, closed>>

Elements(s) == {s[i] : i \in 1..Len(s)}

\* s without its i-th element
Skip(s, i) == SubSeq(s, 1, i - 1) \o SubSeq(s, i + 1, Len(s))

Init ==
  /\ recorded = 0 /\ held = {} /\ intake = <<>> /\ open = {} /\ formed = 0
  /\ rejected = {} /\ absorbed = {} /\ delivered = {} /\ lost = {}
  /\ stopped = FALSE /\ closing = FALSE /\ due = {} /\ closed = FALSE

Record ==
  /\ recorded < MaxCalls
  /\ ~stopped /\ ~closed
  /\ recorded' = recorded + 1
  /\ held' = held \cup {recorded + 1}
  /\ UNCHANGED <<intake, open, formed, ends, life>>

Accept ==
  \E e \in held :
    /\ held' = held \ {e}
    /\ intake' = Append(intake, e)
    /\ due' = IF closing THEN due ELSE due \cup {e}
    /\ UNCHANGED <<recorded, open, formed, ends, stopped, closing, closed>>

Reject ==
  \E e \in held :
    /\ held' = held \ {e}
    /\ rejected' = rejected \cup {e}
    /\ UNCHANGED <<recorded, intake, open, formed, absorbed, delivered, lost,
                   life>>

\* A total that only moves a baseline is no event of any batch.
Absorb ==
  /\ ~closed
  /\ \E i \in 1..Len(intake) :
       /\ intake' = Skip(intake, i)
       /\ absorbed' = absorbed \cup {intake[i]}
  /\ UNCHANGED <<recorded, held, open, formed, rejected, delivered, lost, life>>

\* The front of the intake becomes a batch, or is thrown away once stopped.
Cut ==
  /\ ~closed
  /\ \E n \in 1..Len(intake) :
       /\ n <= MaxBatch
       /\ intake' = SubSeq(intake, n + 1, Len(intake))
       /\ LET events == Elements(SubSeq(intake, 1, n)) IN
            \/ /\ ~stopped
               /\ formed' = formed + 1
               /\ open' = open \cup {[batch |-> formed + 1, events |-> events,
                                      tries |-> 0]}
               /\ UNCHANGED lost
            \/ /\ stopped
               /\ lost' = lost \cup events
               /\ UNCHANGED <<formed, open>>
  /\ UNCHANGED <<recorded, held, rejected, absorbed, delivered, life>>

Try ==
  /\ ~stopped /\ ~closed
  /\ \E b \in open :
       /\ b.tries < MaxTries
       /\ open' = (open \ {b}) \cup {[b EXCEPT !.tries = @ + 1]}
  /\ UNCHANGED <<recorded, held, intake, formed, ends, life>>

Deliver ==
  /\ ~stopped /\ ~closed
  /\ \E b \in open :
       /\ b.tries > 0
       /\ open' = open \ {b}
       /\ delivered' = delivered \cup b.events
  /\ UNCHANGED <<recorded, held, intake, formed, rejected, absorbed, lost, life>>

\* Only the answer to a batch that was tried disables ingestion.
GiveUp ==
  /\ ~closed
  /\ \E b \in open :
       /\ open' = open \ {b}
       /\ lost' = lost \cup b.events
       /\ \/ UNCHANGED stopped
          \/ b.tries > 0 /\ stopped' = TRUE
  /\ UNCHANGED <<recorded, held, intake, formed, rejected, absorbed, delivered,
                 closing, due, closed>>

Close ==
  /\ ~closing
  /\ closing' = TRUE
  /\ UNCHANGED <<recorded, held, intake, open, formed, ends, stopped, due, closed>>

Closed ==
  /\ closing /\ ~closed
  /\ due \cap Elements(intake) = {}
  /\ closed' = TRUE
  /\ UNCHANGED <<recorded, held, intake, open, formed, ends, stopped, closing, due>>

Next == \/ Record \/ Accept \/ Reject \/ Absorb \/ Cut \/ Try \/ Deliver
        \/ GiveUp \/ Close \/ Closed

Spec == Init /\ [][Next]_vars

=============================================================================
