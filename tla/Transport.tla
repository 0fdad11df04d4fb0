----------------------------- MODULE Transport -----------------------------
(***************************************************************************)
(* A queue driver as the workflow engine sees it: at-least-once delivery   *)
(* of envelopes to handlers, settlement by the handler's decision, and the *)
(* provenance and settlement boundary (busruntime) a handler runs under.   *)
(*                                                                         *)
(* It condenses DatabaseQueue: an envelope is one row, a generation is one *)
(* claim.  A claim may be lost while its handler still runs, so several    *)
(* deliveries of one envelope can be in progress at once.  Drivers without *)
(* generations (Provenance = FALSE) deliver the same way but hand the      *)
(* engine no identity.  The workflow modules extend this module and add    *)
(* the handlers.                                                           *)
(***************************************************************************)
EXTENDS Attempt, FiniteSets, Sequences

CONSTANTS MaxEnvelopes,   \* bound: envelopes ever dispatched
          MaxGenerations, \* bound: deliveries ever started
          MaxDisruptions, \* bound: crashes, lost claims, failed statements
          Provenance,     \* TRUE: deliveries carry generation ids (SQL)
          Deferring,      \* TRUE: facts wait for settlement (SQL, SQS, RabbitMQ)
          Homes           \* {TRUE}: all handlers share the builder's process

ASSUME TransportAssumption ==
  /\ MaxEnvelopes \in Nat /\ MaxGenerations \in Nat /\ MaxDisruptions \in Nat
  /\ Provenance \in BOOLEAN /\ Deferring \in BOOLEAN
  /\ Provenance => Deferring
  /\ Homes \subseteq BOOLEAN

VARIABLES msgs,        \* the envelopes in the queue
          dels,        \* the deliveries in progress, by generation
          disruptions  \* number of disruptions so far

Envelopes == 1..MaxEnvelopes
Generations == 1..MaxGenerations
NoGeneration == 0

\* token: the claim that holds the envelope, or the recovery proof it carries.
Message(kind, member) ==
  [kind |-> kind, member |-> member, state |-> "queued", attempt |-> 0, token |-> NoGeneration]

\* member: chain node or batch member; next: the successor to dispatch; work:
\* the callbacks to dispatch, in order; facts: positive facts waiting for
\* settlement.
NewDelivery(e, home) ==
  [pc |-> "start", env |-> e, kind |-> msgs[e].kind, member |-> msgs[e].member,
   attempt |-> msgs[e].attempt, proof |-> msgs[e].token, committed |-> FALSE,
   home |-> home, err |-> "nil", next |-> 0, work |-> <<>>, facts |-> {}]

Over == [pc |-> "over", env |-> 0, kind |-> "none", member |-> 0, attempt |-> 0,
         proof |-> NoGeneration, committed |-> FALSE, home |-> FALSE, err |-> "nil",
         next |-> 0, work |-> <<>>, facts |-> {}]
Free == [Over EXCEPT !.pc = "free"]
Running == {g \in Generations : dels[g].pc \notin {"free", "over"}}

MessageType(kinds, members) ==
  [kind: kinds \cup {"none"}, member: members \cup {0}, attempt: Nat,
   state: {"none", "queued", "held", "done", "dead"}, token: Generations \cup {NoGeneration}]
DeliveryType(pcs, kinds, members, works, fs) ==
  [pc: pcs \cup {"free", "start", "settle", "over"}, env: Envelopes \cup {0},
   kind: kinds \cup {"none"}, member: members \cup {0}, attempt: Nat,
   proof: Generations \cup {NoGeneration}, committed: BOOLEAN, home: BOOLEAN,
   err: Errors, next: members \cup {0}, work: works, facts: SUBSET fs]

TransportInit ==
  /\ msgs = [e \in Envelopes |-> [Message("none", 0) EXCEPT !.state = "none"]]
  /\ dels = [g \in Generations |-> Free]
  /\ disruptions = 0

Disrupt == disruptions < MaxDisruptions /\ disruptions' = disruptions + 1

\* How a call to the store or to the queue ends: it takes effect, it fails, or
\* it takes effect and reports an error.
Results == {"ok", "failed", "ambiguous"}
Fault(db) == IF db = "ok" THEN UNCHANGED disruptions ELSE Disrupt

Recovered(g) == dels[g].proof # NoGeneration

\* The decision the driver takes on what the handler returned.
DecisionOf(m, maxRetry) == ClassifyAttempt(m.attempt, maxRetry, m.err)

\* The recovery proof left for a redelivery of the same attempt.
PendingProof(g) ==
  IF ~Provenance THEN NoGeneration
  ELSE IF dels[g].committed THEN g ELSE dels[g].proof

Holds(g) == msgs[dels[g].env].state = "held" /\ msgs[dels[g].env].token = g

(***************************************************************************)
(* Steps.  Each is conjoined with what the handler does.                   *)
(***************************************************************************)
\* Dispatch puts one new envelope in the queue.
Unused == {e \in Envelopes : msgs[e].state = "none"}
BusDispatch(kind, member, db) ==
  IF db = "failed" THEN UNCHANGED msgs
  ELSE \E e \in Unused : /\ \A f \in Unused : e <= f
                         /\ msgs' = [msgs EXCEPT ![e] = Message(kind, member)]

Deliver(g, e, home) ==
  /\ dels[g].pc = "free" /\ \A h \in Generations : h < g => dels[h].pc # "free"
  /\ msgs[e].state = "queued"
  /\ msgs' = [msgs EXCEPT ![e].state = "held", ![e].token = g]
  /\ dels' = [dels EXCEPT ![g] = NewDelivery(e, home)]
  /\ UNCHANGED disruptions

\* The claim is lost: its lease ran out.  Its handler, if any, runs on.
LoseClaim(e) ==
  /\ msgs[e].state = "held"
  /\ IF msgs[e].token \in Running THEN Disrupt ELSE UNCHANGED disruptions
  /\ msgs' = [msgs EXCEPT ![e].state = "queued",
                          ![e].token = IF Provenance THEN @ ELSE NoGeneration]
  /\ UNCHANGED dels

\* An operator puts the envelope back, or the driver delivers it twice; no
\* provenance survives.
Requeue(e) ==
  /\ msgs[e].state \in {"held", "dead"}
  /\ Disrupt
  /\ msgs' = [msgs EXCEPT ![e].state = "queued", ![e].token = NoGeneration]
  /\ UNCHANGED dels

\* The envelope after delivery g is settled: gone, archived, or queued again,
\* for a retry with the next attempt, for a redelivery with its proof.
Settlement(g, maxRetry) ==
  LET d == DecisionOf(dels[g], maxRetry)
      m == msgs[dels[g].env]
  IN  IF d = "succeeded" THEN [m EXCEPT !.state = "done", !.token = NoGeneration]
      ELSE IF d = "redeliver" THEN [m EXCEPT !.state = "queued", !.token = PendingProof(g)]
      ELSE [m EXCEPT !.state = IF d = "retry" THEN "queued" ELSE "dead",
                     !.attempt = dels[g].attempt + 1, !.token = NoGeneration]

\* One settlement, fenced by the claim; the driver's blind retries of a failed
\* statement are DatabaseQueue's business.
SettleDelivery(g, maxRetry, db) ==
  /\ dels[g].pc = "settle"
  /\ Fault(db)
  /\ msgs' = IF Holds(g) /\ db # "failed"
             THEN [msgs EXCEPT ![dels[g].env] = Settlement(g, maxRetry)] ELSE msgs
  /\ dels' = [dels EXCEPT ![g] = Over]

\* Commit of the settlement boundary: the facts it publishes.
Committed(g, db) == IF Holds(g) /\ db = "ok" THEN dels[g].facts ELSE {}
=============================================================================
