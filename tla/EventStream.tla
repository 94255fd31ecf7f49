---- MODULE EventStream ----
(***************************************************************************)
(* The event bus of redis_bus.py: publish appends to a Redis stream, and a *)
(* consumer of a group reads the entries nobody of the group was given,    *)
(* batch by batch, and acknowledges them one by one.  publish writes the   *)
(* fields of the event; consume_stream looks for "type" and "data", finds  *)
(* neither, yields nothing and acknowledges.  Nobody subscribes handlers.  *)
(*                                                                         *)
(* Nothing in the repository calls create_consumer_group or consume_stream:*)
(* the consumer starts when a caller from outside starts it, if ever.      *)
(***************************************************************************)
EXTENDS Integers, Sequences, FiniteSets

CONSTANTS BatchSize, \* entries of one read
          MaxMishaps \* bound: calls that fail, answers and processes that get lost

ASSUME StreamAssumption == BatchSize \in Nat \ {0} /\ MaxMishaps \in Nat

VARIABLES stream,    \* the entries
          group,     \* the consumer group exists
          delivered, \* number of entries given to the group
          batch,     \* those the consumer has still to acknowledge, in order
          consumer,  \* the await the consumer is at
          acked,     \* entries acknowledged
          dropped,   \* history: entries given to the consumer when it failed
          mishaps    \* mishaps so far

reading == <<group, delivered, batch, consumer, acked, dropped>>
streamVars == <<stream, reading, mishaps>>

Ids == DOMAIN stream
Held == {batch[i] : i \in DOMAIN batch}

StreamInit ==
  /\ stream = <<>> /\ group = FALSE
  /\ delivered = 0 /\ batch = <<>> /\ consumer = "off"
  /\ acked = {} /\ dropped = {}
  /\ mishaps = 0

Mishap == mishaps < MaxMishaps /\ mishaps' = mishaps + 1

\* publish: the entry is the event's own fields.
XAdd(event) == stream' = Append(stream, event)

\* Somebody calls create_consumer_group and consume_stream.
StartConsumer ==
  /\ consumer = "off"
  /\ consumer' = "create"
  /\ UNCHANGED <<stream, group, delivered, batch, acked, dropped, mishaps>>

\* create_consumer_group, whose failure is suppressed.
CreateGroup ==
  /\ consumer = "create"
  /\ consumer' = "read"
  /\ \/ group' = TRUE /\ UNCHANGED mishaps
     \/ Mishap /\ UNCHANGED group
  /\ UNCHANGED <<stream, delivered, batch, acked, dropped>>

\* The entries of the next read.
Fresh == LET n == IF Len(stream) - delivered < BatchSize THEN Len(stream) - delivered ELSE BatchSize
         IN [i \in 1 .. n |-> delivered + i]

\* xreadgroup with ">": entries no read of the group returned before.
ReadBatch ==
  /\ consumer = "read" /\ group
  /\ Fresh # <<>>
  /\ batch' = Fresh /\ delivered' = delivered + Len(Fresh)
  /\ consumer' = "ack"
  /\ UNCHANGED <<stream, group, acked, dropped, mishaps>>

\* Without a group, or when Redis does not answer, the read raises; its entries may be given away all the same.
ReadFails ==
  /\ consumer = "read"
  /\ \/ ~group /\ UNCHANGED <<delivered, dropped, mishaps>>
     \/ Mishap /\ UNCHANGED <<delivered, dropped>>
     \/ /\ Mishap /\ group
        /\ delivered' = delivered + Len(Fresh)
        /\ dropped' = dropped \cup {Fresh[i] : i \in DOMAIN Fresh}
  /\ consumer' = "sleep"
  /\ UNCHANGED <<stream, group, batch, acked>>

\* Slip: what no handler is known for is not acknowledged.
AcknowledgedIfHandled(id) == acked

Acknowledged(id) == acked \cup {id}

\* An entry is acknowledged, at the first or the second try.
Ack ==
  /\ consumer \in {"ack", "retry"}
  /\ acked' = Acknowledged(Head(batch))
  /\ batch' = Tail(batch)
  /\ consumer' = IF Tail(batch) = <<>> THEN "read" ELSE "ack"
  /\ UNCHANGED <<stream, group, delivered, dropped, mishaps>>

\* Acknowledging fails, perhaps after it took effect.  It is tried once more, by
\* the handler of the failure; when that fails as well (one mishap with the first)
\* the rest of the batch is given up.
AckFails ==
  /\ consumer \in {"ack", "retry"}
  /\ acked' \in {acked, Acknowledged(Head(batch))}
  /\ \/ consumer = "ack" /\ Mishap /\ consumer' = "retry" /\ UNCHANGED <<batch, dropped>>
     \/ /\ consumer = "retry" /\ consumer' = "sleep" /\ UNCHANGED mishaps
        /\ batch' = <<>> /\ dropped' = dropped \cup Held
  /\ UNCHANGED <<stream, group, delivered>>

Wakes ==
  /\ consumer = "sleep"
  /\ consumer' = "read"
  /\ UNCHANGED <<stream, group, delivered, batch, acked, dropped, mishaps>>

\* Its process is stopped and started again.
RestartConsumer ==
  /\ consumer \notin {"off", "create"} /\ Mishap
  /\ consumer' = "create"
  /\ batch' = <<>> /\ dropped' = dropped \cup Held
  /\ UNCHANGED <<stream, group, delivered, acked>>

Consume == CreateGroup \/ ReadBatch \/ ReadFails \/ Ack \/ AckFails \/ Wakes

StreamTypeOK ==
  /\ group \in BOOLEAN /\ delivered \in 0 .. Len(stream)
  /\ batch \in Seq(Ids) /\ consumer \in {"off", "create", "read", "ack", "retry", "sleep"}
  /\ acked \in SUBSET Ids /\ dropped \in SUBSET Ids
  /\ mishaps \in 0 .. MaxMishaps
====
