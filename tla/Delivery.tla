------------------------------ MODULE Delivery ------------------------------
(***************************************************************************)
(* What the control plane sends and hears more than once: commands that a  *)
(* client repeats under one idempotency key, and the events they leave in  *)
(* the outbox, which workers publish at least once.  The API process and   *)
(* the workers may die at any moment.                                      *)
(*                                                                         *)
(* The route between claim and complete, and the tables behind OutboxStore *)
(* are not in the repository: the route executes a command in one          *)
(* transaction, and the store gives the oldest events that are not marked. *)
(***************************************************************************)
EXTENDS Naturals, Sequences, SequencesExt

CONSTANTS
  Keys,      \* idempotency keys within a scope and an actor
  Hashes,    \* fingerprints of commands
  Handlers,  \* requests that the API works on at a time
  Workers,   \* outbox publishers
  Null,      \* no record, no command
  BatchSize  \* OutboxPublisherOptions.batchSize

Responses == {"done", "refused"}
Records   == [hash : Hashes, response : Responses \cup {Null}]
Commands  == [key : Keys, hash : Hashes, response : Responses \cup {Null}]

ASSUME DeliveryAssumption ==
  /\ Null \notin Responses \cup Records \cup Commands
  /\ BatchSize \in Nat \ {0}

VARIABLES
  records,    \* idempotency_records: key -> Null, or hash and response
  handlers,   \* handler -> Null, or its key, hash and response so far
  effects,    \* history: key -> hashes of the commands that were executed
  answers,    \* history: the responses that clients were given
  outbox,     \* outbox_events: the keys of the commands that stored them
  marked,     \* events with a publishedAt
  batch,      \* worker -> the events of runOnce it still has to publish
  sent,       \* worker -> whether the first of them is published
  delivered   \* history: the events that were published

vars == <<records, handlers, effects, answers, outbox, marked, batch, sent,
          delivered>>
api    == <<records, handlers, effects, answers>>
worker == <<marked, batch, sent, delivered>>

Init ==
  /\ records = [k \in Keys |-> Null]
  /\ handlers = [h \in Handlers |-> Null]
  /\ effects = [k \in Keys |-> <<>>]
  /\ answers = {}
  /\ outbox = <<>>
  /\ marked = {}
  /\ batch = [w \in Workers |-> <<>>]
  /\ sent = [w \in Workers |-> FALSE]
  /\ delivered = {}

-----------------------------------------------------------------------------
(* The API. *)

\* A wrong version: a record without a response is taken over.
BadIsFree(k, hash) ==
  records[k] = Null \/ records[k] = [hash |-> hash, response |-> Null]

\* The insert meets no record of the key.
IsFree(k, hash) == records[k] = Null

\* IdempotencyRepository.claim that is answered claimed.  A key with another
\* fingerprint, and a command that is in progress, change nothing.
Claim(h, k, hash) ==
  /\ handlers[h] = Null
  /\ IsFree(k, hash)
  /\ records' = [records EXCEPT ![k] = [hash |-> hash, response |-> Null]]
  /\ handlers' = [handlers EXCEPT ![h] =
                    [key |-> k, hash |-> hash, response |-> Null]]
  /\ UNCHANGED <<effects, answers, outbox, worker>>

\* claim that is answered replay.
Replay(k, hash) ==
  /\ records[k] # Null
  /\ records[k].hash = hash /\ records[k].response # Null
  /\ answers' = answers \cup
       {[key |-> k, hash |-> hash, response |-> records[k].response]}
  /\ UNCHANGED <<records, handlers, effects, outbox, worker>>

\* The route executes the command, with its event, or refuses it.
Execute(h) ==
  /\ handlers[h] # Null /\ handlers[h].response = Null
  /\ \/ /\ effects' = [effects EXCEPT ![handlers[h].key] =
                         Append(@, handlers[h].hash)]
        /\ outbox' = Append(outbox, handlers[h].key)
        /\ handlers' = [handlers EXCEPT ![h].response = "done"]
     \/ /\ handlers' = [handlers EXCEPT ![h].response = "refused"]
        /\ UNCHANGED <<effects, outbox>>
  /\ UNCHANGED <<records, answers, worker>>

\* complete finds the record of its command without a response, or throws.
Complete(h) ==
  /\ handlers[h] # Null /\ handlers[h].response # Null
  /\ LET command == handlers[h]
         open == [hash |-> command.hash, response |-> Null]
     IN IF records[command.key] = open
        THEN /\ records' = [records EXCEPT ![command.key].response =
                              command.response]
             /\ answers' = answers \cup {command}
        ELSE UNCHANGED <<records, answers>>
  /\ handlers' = [handlers EXCEPT ![h] = Null]
  /\ UNCHANGED <<effects, outbox, worker>>

\* The process of the API ends: its requests are gone.
Die ==
  /\ handlers' = [h \in Handlers |-> Null]
  /\ UNCHANGED <<records, effects, answers, outbox, worker>>

-----------------------------------------------------------------------------
(* The workers. *)

Pending == SelectSeq(outbox, LAMBDA k : k \notin marked)

\* runOnce claims a batch.  Nothing keeps another worker from the same events.
ClaimBatch(w) ==
  /\ batch[w] = <<>>
  /\ Pending # <<>>
  /\ batch' = [batch EXCEPT ![w] =
       SubSeq(Pending, 1, IF Len(Pending) < BatchSize THEN Len(Pending)
                          ELSE BatchSize)]
  /\ UNCHANGED <<api, outbox, marked, sent, delivered>>

Publish(w) ==
  /\ batch[w] # <<>> /\ ~sent[w]
  /\ sent' = [sent EXCEPT ![w] = TRUE]
  /\ delivered' = delivered \cup {Head(batch[w])}
  /\ UNCHANGED <<api, outbox, marked, batch>>

\* A wrong version: the batch is marked with its first event.
BadDone(events) == ToSet(events)

\* What markPublished marks.
Done(events) == {Head(events)}

MarkPublished(w) ==
  /\ batch[w] # <<>> /\ sent[w]
  /\ marked' = marked \cup Done(batch[w])
  /\ batch' = [batch EXCEPT ![w] = Tail(@)]
  /\ sent' = [sent EXCEPT ![w] = FALSE]
  /\ UNCHANGED <<api, outbox, delivered>>

\* runOnce throws, or its process ends: the rest of the batch waits.
Abandon(w) ==
  /\ batch[w] # <<>>
  /\ batch' = [batch EXCEPT ![w] = <<>>]
  /\ sent' = [sent EXCEPT ![w] = FALSE]
  /\ UNCHANGED <<api, outbox, marked, delivered>>

-----------------------------------------------------------------------------

Next ==
  \/ \E h \in Handlers :
        \/ \E k \in Keys, hash \in Hashes : Claim(h, k, hash)
        \/ Execute(h) \/ Complete(h)
  \/ \E k \in Keys, hash \in Hashes : Replay(k, hash)
  \/ Die
  \/ \E w \in Workers :
        ClaimBatch(w) \/ Publish(w) \/ MarkPublished(w) \/ Abandon(w)

\* Some worker is called again and again, and neither publish nor
\* markPublished fails for ever.
Fairness == \E w \in Workers :
  WF_vars(ClaimBatch(w)) /\ SF_vars(Publish(w)) /\ SF_vars(MarkPublished(w))

Spec == Init /\ [][Next]_vars /\ Fairness

-----------------------------------------------------------------------------
(* Properties. *)

(* A key stands for one command: it is executed at most once, however often  *)
(* it is repeated and whenever the API dies, and every answer under the key  *)
(* is the one answer to that command and says what became of it.             *)
KeysActOnce ==
  \A k \in Keys :
    /\ Len(effects[k]) <= 1
    /\ \A a \in answers : a.key = k =>
         effects[k] = IF a.response = "done" THEN <<a.hash>> ELSE <<>>
    /\ \A a, b \in answers : a.key = k /\ b.key = k => a = b

(* Every event that was committed is published in the end: a batch that is   *)
(* abandoned after any of its events loses none of the rest.                 *)
EventsGetOut == \A k \in Keys : effects[k] # <<>> ~> k \in delivered

=============================================================================
