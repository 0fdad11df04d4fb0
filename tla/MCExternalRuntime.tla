-------------------------- MODULE MCExternalRuntime --------------------------
(***************************************************************************)
(* Instances of ExternalRuntime for TLC: two jobs, the first with one      *)
(* retry, under each driver.                                               *)
(***************************************************************************)
EXTENDS ExternalRuntime

V(driver, maxFaults, keyed, delayed, backoff, children) ==
  [driver |-> driver, faults |-> maxFaults, keyed |-> keyed, delayed |-> delayed, backoff |-> backoff,
   children |-> children]

OneRetry == [j \in Jobs |-> IF j = 1 THEN 1 ELSE 0]

\* RabbitMQ and Redis: a continuation of a job (with backoff, except Redis), and
\* two jobs that share a unique key, the first with a delay.  A backoff that
\* Redis refuses.  SQS: a delayed continuation that shares the key of its parent.
\* NATS, whose delays are timers of the worker: a delayed continuation, and two
\* jobs that share a key.
AllVariants ==
  {V("rabbitmq", 1, FALSE, {}, {1}, {2}), V("rabbitmq", 1, TRUE, {1}, {}, {}),
   V("redis", 1, FALSE, {}, {}, {2}), V("redis", 1, TRUE, {1}, {}, {}), V("redis", 1, TRUE, {}, {1}, {}),
   V("sqs", 1, TRUE, {2}, {1}, {2}),
   V("nats", 2, FALSE, {2}, {1}, {2}), V("nats", 2, TRUE, {1}, {}, {})}
=============================================================================
