--------------------------- MODULE WorkflowStore ---------------------------
(***************************************************************************)
(* What a workflow store promises the engine, with every operation in one  *)
(* step: the memory store under its mutex.  A call asks to record one      *)
(* outcome of one member (a batch member or a chain node).  The first      *)
(* writer of a member wins, one writer ends the workflow, and every answer *)
(* agrees with what was recorded.                                          *)
(***************************************************************************)
EXTENDS Integers
CONSTANTS Members, \* 1..n: batch members, or chain nodes in order
          Calls    \* store calls, one for each delivery that settles

VARIABLES
  rule,     \* what ends the workflow: "all", "failfast" or "chain"
  request,  \* the member and the outcome each call asks for
  outcome,  \* the recorded outcome of each member
  writer,   \* the call that recorded it, or Nobody
  ender,    \* the call that ended the workflow, Nobody or Stopped
  answer    \* what each call returned

vars == <<rule, request, outcome, writer, ender, answer>>

Nobody == 0
Stopped == -1  \* CancelBatch or FailChain, on behalf of no member
Outcomes == {"succeeded", "failed"}
Answers == {"ended", "claimed", "wrote", "owned", "lost", "error"}
NoRequest == [member |-> 0, outcome |-> "none"]

Init ==
  /\ rule \in {"all", "failfast", "chain"}
  /\ request = [c \in Calls |-> NoRequest]
  /\ outcome = [m \in Members |-> "pending"]
  /\ writer = [m \in Members |-> Nobody]
  /\ ender = Nobody
  /\ answer = [c \in Calls |-> "none"]

Invoke(c, m, o) ==
  /\ request[c] = NoRequest
  /\ answer[c] = "none"
  /\ request' = [request EXCEPT ![c] = [member |-> m, outcome |-> o]]
  /\ UNCHANGED <<rule, outcome, writer, ender, answer>>

Ends(recorded) ==
  \/ \A m \in Members : recorded[m] # "pending"
  \/ rule # "all" /\ \E m \in Members : recorded[m] = "failed"

\* A batch still counts the members that settle after it ended; a chain is
\* written in order and only while it is open.
Writable(m) ==
  /\ outcome[m] = "pending"
  /\ rule = "chain" => /\ ender = Nobody
                       /\ \A k \in Members : k < m => outcome[k] = "succeeded"

Record(c) ==
  LET m == request[c].member IN
  /\ m \in Members
  /\ answer[c] = "none"
  /\ Writable(m)
  /\ outcome' = [outcome EXCEPT ![m] = request[c].outcome]
  /\ writer' = [writer EXCEPT ![m] = c]
  /\ ender' = IF ender = Nobody /\ Ends(outcome') THEN c ELSE ender
  /\ UNCHANGED rule

Write(c) == Record(c) /\ UNCHANGED <<request, answer>>

Answered(c, a) ==
  /\ answer' = [answer EXCEPT ![c] = a]
  /\ request' = [request EXCEPT ![c] = NoRequest]

\* The write and its answer may be one step.
WriteAndReturn(c) ==
  /\ Record(c)
  /\ \E a \in {"error", "wrote", IF ender' = c THEN "ended" ELSE "claimed"} :
       Answered(c, a)

\* CancelBatch ends the batch; FailChain fails the node the chain has reached.
Stop ==
  /\ ender = Nobody
  /\ ender' = Stopped
  /\ IF rule = "chain"
     THEN \E m \in Members : /\ Writable(m)
                             /\ outcome' = [outcome EXCEPT ![m] = "failed"]
                             /\ writer' = [writer EXCEPT ![m] = Stopped]
     ELSE UNCHANGED <<outcome, writer>>
  /\ UNCHANGED <<rule, request, answer>>

\* An error says nothing.  Any other answer is about the recorded outcome.
Truthful(c, a) ==
  LET m == request[c].member IN
  CASE a = "ended"   -> writer[m] = c /\ ender = c
    [] a = "claimed" -> writer[m] = c /\ ender # c
    [] a = "wrote"   -> writer[m] = c \* no receipt: silent about the end
    [] a = "owned"   -> writer[m] # c /\ outcome[m] = request[c].outcome
    [] a = "lost"    -> writer[m] # c /\ outcome[m] # request[c].outcome
    [] a = "error"   -> TRUE

Return(c, a) ==
  /\ request[c] # NoRequest
  /\ answer[c] = "none"
  /\ Truthful(c, a)
  /\ Answered(c, a)
  /\ UNCHANGED <<rule, outcome, writer, ender>>

Next ==
  \/ \E c \in Calls, m \in Members, o \in Outcomes : Invoke(c, m, o)
  \/ \E c \in Calls : Write(c) \/ WriteAndReturn(c)
  \/ \E c \in Calls, a \in Answers : Return(c, a)
  \/ Stop

Spec == Init /\ [][Next]_vars
=============================================================================
