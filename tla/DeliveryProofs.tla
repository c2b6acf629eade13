--------------------------- MODULE DeliveryProofs ---------------------------
(***************************************************************************)
(* Theorems about idempotency records and the outbox, for any keys,        *)
(* commands, requests and workers.  That the record of a key is written    *)
(* before its command is executed, and never removed, is what lets one     *)
(* request at most work on a key at any time: RecordMatches says what a    *)
(* record tells of the requests, the effects and the answers of its key.   *)
(* The deduplicator of the agent knows the end of what was accepted, for   *)
(* any capacity, and its backoff grows with a shift of any width.          *)
(***************************************************************************)
EXTENDS MCDelivery, WellFoundedInduction, TLAPS

(* The values of the API's variables.                                        *)
ApiTypeOK ==
  /\ records \in [Keys -> Records \cup {Null}]
  /\ handlers \in [Handlers -> Commands \cup {Null}]
  /\ effects \in [Keys -> Seq(Hashes)]
  /\ answers \subseteq Commands

(* What is known of a key from its record and the request that works on it.  *)
Untouched(k) == effects[k] = <<>> /\ \A a \in answers : a.key # k

Effect(hash, response) == IF response = "done" THEN <<hash>> ELSE <<>>

RecordMatches ==
  /\ \A k \in Keys : records[k] = Null => Untouched(k)
  /\ \A k \in Keys :
       records[k] # Null /\ records[k].response = Null =>
         /\ \A a \in answers : a.key # k
         /\ effects[k] \in {<<>>, <<records[k].hash>>}
  /\ \A k \in Keys :
       records[k] # Null /\ records[k].response # Null =>
         /\ effects[k] = Effect(records[k].hash, records[k].response)
         /\ \A a \in answers : a.key = k =>
              a.hash = records[k].hash /\ a.response = records[k].response

(* A request in progress owns the open record of its key.                    *)
RequestOwnsKey ==
  /\ \A h \in Handlers : handlers[h] # Null =>
       /\ records[handlers[h].key] =
            [hash |-> handlers[h].hash, response |-> Null]
       /\ effects[handlers[h].key] =
            Effect(handlers[h].hash, handlers[h].response)
  /\ \A g, h \in Handlers :
       handlers[g] # Null /\ handlers[h] # Null
         /\ handlers[g].key = handlers[h].key => g = h

ApiInv == ApiTypeOK /\ RecordMatches /\ RequestOwnsKey

(* What a worker marks next it has published.                                *)
SentIsDelivered ==
  /\ batch = [w \in Workers |-> batch[w]]
  /\ sent = [w \in Workers |-> sent[w]]
  /\ \A w \in Workers :
       sent[w] => batch[w] # <<>> /\ Head(batch[w]) \in delivered
  /\ marked \subseteq delivered

-----------------------------------------------------------------------------
(* The API. *)

(* A command in progress is one, and its key and hash are.                   *)
LEMMA CommandTypes ==
  ASSUME ApiTypeOK, NEW h \in Handlers, handlers[h] # Null
  PROVE  /\ handlers[h] \in Commands
         /\ handlers[h].key \in Keys
         /\ handlers[h].hash \in Hashes
         /\ handlers[h].response \in Responses \cup {Null}
         /\ handlers[h] = [key |-> handlers[h].key, hash |-> handlers[h].hash,
                           response |-> handlers[h].response]
<1>1. handlers[h] \in Commands
  BY DEF ApiTypeOK
<1> QED
  BY <1>1 DEF Commands

(* A claim begins the only request of an untouched key.                      *)
LEMMA ClaimKeepsApiInv ==
  ASSUME ApiInv, NEW h \in Handlers, NEW k \in Keys, NEW hash \in Hashes,
         Claim(h, k, hash)
  PROVE  ApiInv'
<1> DEFINE record == [hash |-> hash, response |-> Null]
<1> DEFINE command == [key |-> k, hash |-> hash, response |-> Null]
<1>1. /\ record \in Records /\ record # Null
      /\ command \in Commands /\ command # Null
  BY DeliveryAssumption DEF Records, Commands
<1>2. /\ handlers[h] = Null /\ records[k] = Null
      /\ records' = [records EXCEPT ![k] = record]
      /\ handlers' = [handlers EXCEPT ![h] = command]
      /\ effects' = effects /\ answers' = answers
  BY DEF Claim, IsFree
<1>3. ApiTypeOK'
  BY <1>1, <1>2 DEF ApiInv, ApiTypeOK
<1>4. Null \notin Responses
  BY DeliveryAssumption
<1>5. RecordMatches'
  <2>1. \A j \in Keys : j # k => records'[j] = records[j]
    BY <1>2 DEF ApiInv, ApiTypeOK
  <2>2. records'[k] = record
    BY <1>2 DEF ApiInv, ApiTypeOK
  <2>3. Untouched(k)
    BY <1>2 DEF ApiInv, RecordMatches
  <2> QED
    BY <1>1, <1>2, <2>1, <2>2, <2>3 DEF ApiInv, RecordMatches, Untouched
<1>6. RequestOwnsKey'
  <2>1. ASSUME NEW g \in Handlers, handlers[g] # Null
        PROVE  handlers[g].key # k
    <3> DEFINE open == [hash |-> handlers[g].hash, response |-> Null]
    <3>1. open \in Records
      BY <2>1, CommandTypes DEF ApiInv, Records
    <3>2. open # Null
      BY <3>1, DeliveryAssumption
    <3>3. records[handlers[g].key] = open
      BY <2>1 DEF ApiInv, RequestOwnsKey
    <3> QED
      BY <1>2, <3>2, <3>3
  <2>2. \A g \in Handlers : g # h => handlers'[g] = handlers[g]
    BY <1>2 DEF ApiInv, ApiTypeOK
  <2>3. handlers'[h] = command /\ records'[k] = record
    BY <1>2 DEF ApiInv, ApiTypeOK
  <2>4. \A j \in Keys : j # k => records'[j] = records[j]
    BY <1>2 DEF ApiInv, ApiTypeOK
  <2>5. effects'[k] = Effect(hash, Null)
    BY <1>2, <1>4 DEF ApiInv, RecordMatches, Untouched, Effect, Responses
  <2>6. \A g \in Handlers : handlers[g] # Null => handlers[g].key \in Keys
    BY CommandTypes DEF ApiInv
  <2>7. ASSUME NEW g \in Handlers, handlers'[g] # Null
        PROVE  /\ records'[handlers'[g].key] =
                    [hash |-> handlers'[g].hash, response |-> Null]
               /\ effects'[handlers'[g].key] =
                    Effect(handlers'[g].hash, handlers'[g].response)
    <3>1. CASE g = h
      BY <2>3, <2>5, <3>1
    <3>2. CASE g # h
      BY <1>2, <2>1, <2>2, <2>4, <2>6, <2>7, <3>2 DEF ApiInv, RequestOwnsKey
    <3> QED
      BY <3>1, <3>2
  <2>8. ASSUME NEW g \in Handlers, NEW i \in Handlers,
               handlers'[g] # Null, handlers'[i] # Null,
               handlers'[g].key = handlers'[i].key
        PROVE  g = i
    BY <2>1, <2>2, <2>3, <2>8 DEF ApiInv, RequestOwnsKey
  <2> QED
    BY <2>7, <2>8 DEF RequestOwnsKey
<1> QED
  BY <1>3, <1>5, <1>6 DEF ApiInv

(* A replay repeats the answer that the record has.                          *)
LEMMA ReplayKeepsApiInv ==
  ASSUME ApiInv, NEW k \in Keys, NEW hash \in Hashes, Replay(k, hash)
  PROVE  ApiInv'
<1> DEFINE answer == [key |-> k, hash |-> hash, response |-> records[k].response]
<1>1. /\ records[k] # Null /\ records[k].hash = hash
      /\ records[k].response # Null
      /\ answers' = answers \cup {answer}
      /\ records' = records /\ handlers' = handlers /\ effects' = effects
  BY DEF Replay
<1>2. answer \in Commands
  <2>1. records[k] \in Records
    BY <1>1 DEF ApiInv, ApiTypeOK
  <2> QED
    BY <2>1 DEF Records, Commands
<1>3. ApiTypeOK'
  BY <1>1, <1>2 DEF ApiInv, ApiTypeOK
<1>4. RecordMatches'
  BY <1>1 DEF ApiInv, RecordMatches, Untouched
<1>5. RequestOwnsKey'
  BY <1>1 DEF ApiInv, RequestOwnsKey
<1> QED
  BY <1>3, <1>4, <1>5 DEF ApiInv

(* The command of a request is executed once.                                *)
LEMMA ExecuteKeepsApiInv ==
  ASSUME ApiInv, NEW h \in Handlers, Execute(h)
  PROVE  ApiInv'
<1> DEFINE k == handlers[h].key
<1> DEFINE hash == handlers[h].hash
<1>1. /\ handlers[h] # Null /\ handlers[h].response = Null
      /\ records' = records /\ answers' = answers
  BY DEF Execute
<1>2. /\ k \in Keys /\ hash \in Hashes
      /\ handlers[h] = [key |-> k, hash |-> hash, response |-> Null]
  BY <1>1, CommandTypes DEF ApiInv
<1>3. Null \notin Responses
  BY DeliveryAssumption
<1>4. /\ records[k] = [hash |-> hash, response |-> Null]
      /\ effects[k] = <<>>
      /\ \A g \in Handlers : handlers[g] # Null /\ g # h => handlers[g].key # k
  BY <1>1, <1>2, <1>3 DEF ApiInv, RequestOwnsKey, Effect, Responses
<1>5. PICK response \in Responses :
        /\ handlers' = [handlers EXCEPT ![h].response = response]
        /\ effects' = [effects EXCEPT ![k] = Effect(hash, response)]
  <2>1. CASE /\ effects' = [effects EXCEPT ![k] = Append(@, hash)]
             /\ handlers' = [handlers EXCEPT ![h].response = "done"]
    <3>1. Append(effects[k], hash) = <<hash>>
      BY <1>4
    <3> QED
      BY <2>1, <3>1 DEF Effect, Responses
  <2>2. CASE /\ handlers' = [handlers EXCEPT ![h].response = "refused"]
             /\ effects' = effects
    <3>1. effects' = [effects EXCEPT ![k] = <<>>]
      BY <1>2, <1>4, <2>2 DEF ApiInv, ApiTypeOK
    <3> QED
      BY <2>2, <3>1 DEF Effect, Responses
  <2> QED
    BY <2>1, <2>2 DEF Execute
<1>6. /\ handlers'[h] = [key |-> k, hash |-> hash, response |-> response]
      /\ handlers'[h] \in Commands
      /\ \A g \in Handlers : g # h => handlers'[g] = handlers[g]
      /\ effects'[k] = Effect(hash, response)
      /\ \A j \in Keys : j # k => effects'[j] = effects[j]
  BY <1>2, <1>5 DEF ApiInv, ApiTypeOK, Commands
<1>7. ApiTypeOK'
  <2>1. Effect(hash, response) \in Seq(Hashes)
    BY <1>2 DEF Effect
  <2>2. effects' \in [Keys -> Seq(Hashes)]
    BY <1>5, <2>1 DEF ApiInv, ApiTypeOK
  <2>3. handlers' \in [Handlers -> Commands \cup {Null}]
    BY <1>5, <1>6 DEF ApiInv, ApiTypeOK
  <2> QED
    BY <1>1, <2>2, <2>3 DEF ApiInv, ApiTypeOK
<1>8. RecordMatches'
  <2>1. records[k] # Null /\ records[k].response = Null
    BY <1>2, <1>4, DeliveryAssumption DEF Records
  <2>2. effects'[k] \in {<<>>, <<records[k].hash>>}
    BY <1>4, <1>6 DEF Effect
  <2> QED
    BY <1>1, <1>6, <2>1, <2>2 DEF ApiInv, RecordMatches, Untouched
<1>9. RequestOwnsKey'
  <2>1. ASSUME NEW g \in Handlers, handlers'[g] # Null
        PROVE  /\ records'[handlers'[g].key] =
                    [hash |-> handlers'[g].hash, response |-> Null]
               /\ effects'[handlers'[g].key] =
                    Effect(handlers'[g].hash, handlers'[g].response)
    <3>1. CASE g = h
      BY <1>1, <1>4, <1>6, <3>1
    <3>2. CASE g # h
      <4>1. handlers'[g] = handlers[g] /\ handlers[g] # Null
        BY <1>6, <2>1, <3>2
      <4>2. handlers[g].key \in Keys /\ handlers[g].key # k
        BY <1>4, <3>2, <4>1, CommandTypes DEF ApiInv
      <4> QED
        BY <1>1, <1>6, <4>1, <4>2 DEF ApiInv, RequestOwnsKey
    <3> QED
      BY <3>1, <3>2
  <2>2. ASSUME NEW g \in Handlers, NEW i \in Handlers,
               handlers'[g] # Null, handlers'[i] # Null,
               handlers'[g].key = handlers'[i].key
        PROVE  g = i
    BY <1>1, <1>4, <1>6, <2>2 DEF ApiInv, RequestOwnsKey
  <2> QED
    BY <2>1, <2>2 DEF RequestOwnsKey
<1> QED
  BY <1>7, <1>8, <1>9 DEF ApiInv

(* The answer of a request closes its record.                                *)
LEMMA CompleteKeepsApiInv ==
  ASSUME ApiInv, NEW h \in Handlers, Complete(h)
  PROVE  ApiInv'
<1> DEFINE command == handlers[h]
<1> DEFINE k == command.key
<1>1. /\ command # Null /\ command.response # Null
      /\ handlers' = [handlers EXCEPT ![h] = Null]
      /\ effects' = effects
  BY DEF Complete
<1>2. /\ command \in Commands /\ k \in Keys /\ command.hash \in Hashes
      /\ command.response \in Responses
      /\ command = [key |-> k, hash |-> command.hash,
                    response |-> command.response]
  BY <1>1, CommandTypes DEF ApiInv
<1>3. /\ records[k] = [hash |-> command.hash, response |-> Null]
      /\ effects[k] = Effect(command.hash, command.response)
      /\ \A g \in Handlers : handlers[g] # Null /\ g # h => handlers[g].key # k
  BY <1>1 DEF ApiInv, RequestOwnsKey
<1>4. /\ records' = [records EXCEPT ![k].response = command.response]
      /\ answers' = answers \cup {command}
  BY <1>3 DEF Complete
<1>5. /\ records'[k] = [hash |-> command.hash, response |-> command.response]
      /\ records'[k] \in Records
      /\ \A j \in Keys : j # k => records'[j] = records[j]
  BY <1>2, <1>3, <1>4 DEF ApiInv, ApiTypeOK, Records
<1>6. ApiTypeOK'
  <2>1. records' \in [Keys -> Records \cup {Null}]
    BY <1>4, <1>5 DEF ApiInv, ApiTypeOK
  <2>2. handlers' \in [Handlers -> Commands \cup {Null}]
    BY <1>1 DEF ApiInv, ApiTypeOK
  <2> QED
    BY <1>1, <1>2, <1>4, <2>1, <2>2 DEF ApiInv, ApiTypeOK
<1>7. \A a \in answers : a.key # k
  <2>1. records[k] # Null /\ records[k].response = Null
    BY <1>2, <1>3, DeliveryAssumption DEF Records
  <2> QED
    BY <1>2, <2>1 DEF ApiInv, RecordMatches
<1>8. RecordMatches'
  <2>1. ASSUME NEW j \in Keys, records'[j] = Null
        PROVE  Untouched(j)'
    <3>1. j # k
      BY <1>5, <2>1, DeliveryAssumption
    <3> QED
      BY <1>1, <1>2, <1>4, <1>5, <2>1, <3>1 DEF ApiInv, RecordMatches, Untouched
  <2>2. ASSUME NEW j \in Keys, records'[j] # Null, records'[j].response = Null
        PROVE  /\ \A a \in answers' : a.key # j
               /\ effects'[j] \in {<<>>, <<records'[j].hash>>}
    <3>1. j # k
      BY <1>1, <1>5, <2>2
    <3> QED
      BY <1>1, <1>2, <1>4, <1>5, <2>2, <3>1 DEF ApiInv, RecordMatches
  <2>3. ASSUME NEW j \in Keys, records'[j] # Null, records'[j].response # Null
        PROVE  /\ effects'[j] = Effect(records'[j].hash, records'[j].response)
               /\ \A a \in answers' : a.key = j =>
                    a.hash = records'[j].hash
                      /\ a.response = records'[j].response
    <3>1. CASE j = k
      BY <1>1, <1>3, <1>4, <1>5, <1>7, <3>1
    <3>2. CASE j # k
      BY <1>1, <1>4, <1>5, <2>3, <3>2 DEF ApiInv, RecordMatches
    <3> QED
      BY <3>1, <3>2
  <2> QED
    BY <2>1, <2>2, <2>3 DEF RecordMatches
<1>9. RequestOwnsKey'
  <2>1. ASSUME NEW g \in Handlers, handlers'[g] # Null
        PROVE  g # h /\ handlers'[g] = handlers[g]
    BY <1>1, <2>1 DEF ApiInv, ApiTypeOK
  <2>2. ASSUME NEW g \in Handlers, handlers'[g] # Null
        PROVE  /\ records'[handlers'[g].key] =
                    [hash |-> handlers'[g].hash, response |-> Null]
               /\ effects'[handlers'[g].key] =
                    Effect(handlers'[g].hash, handlers'[g].response)
    <3>1. g # h /\ handlers'[g] = handlers[g] /\ handlers[g] # Null
      BY <2>1, <2>2
    <3>2. handlers[g].key \in Keys /\ handlers[g].key # k
      BY <1>3, <3>1, CommandTypes DEF ApiInv
    <3> QED
      BY <1>1, <1>5, <3>1, <3>2 DEF ApiInv, RequestOwnsKey
  <2> QED
    BY <2>1, <2>2 DEF ApiInv, RequestOwnsKey
<1> QED
  BY <1>6, <1>8, <1>9 DEF ApiInv

(* Every step keeps it.                                                      *)
LEMMA NextApiInv == ASSUME ApiInv, [Next]_vars PROVE ApiInv'
<1>1. ASSUME NEW h \in Handlers, NEW k \in Keys, NEW hash \in Hashes,
             Claim(h, k, hash)
      PROVE  ApiInv'
  BY <1>1, ClaimKeepsApiInv
<1>2. ASSUME NEW k \in Keys, NEW hash \in Hashes, Replay(k, hash)
      PROVE  ApiInv'
  BY <1>2, ReplayKeepsApiInv
<1>3. ASSUME NEW h \in Handlers, Execute(h)
      PROVE  ApiInv'
  BY <1>3, ExecuteKeepsApiInv
<1>4. ASSUME NEW h \in Handlers, Complete(h)
      PROVE  ApiInv'
  BY <1>4, CompleteKeepsApiInv
<1>5. CASE Die
  BY <1>5 DEF Die, ApiInv, ApiTypeOK, RecordMatches, Untouched, RequestOwnsKey
<1>6. CASE UNCHANGED api
  BY <1>6 DEF api, ApiInv, ApiTypeOK, RecordMatches, Untouched, RequestOwnsKey
<1>7. CASE UNCHANGED vars
  BY <1>6, <1>7 DEF vars, api
<1> QED
  BY <1>1, <1>2, <1>3, <1>4, <1>5, <1>6, <1>7
  DEF Next, ClaimBatch, Publish, MarkPublished, Abandon

(* Nothing and one command are at most one.                                  *)
LEMMA AtMostOne ==
  ASSUME NEW s, NEW hash, s = <<>> \/ s = <<hash>>
  PROVE  Len(s) <= 1
<1>1. Len(<<>>) = 0 /\ Len(<<hash>>) = 1
  OBVIOUS
<1>2. CASE s = <<>>
  BY <1>1, <1>2
<1>3. CASE s = <<hash>>
  BY <1>1, <1>3
<1> QED
  BY <1>2, <1>3

(* A key stands for one command: it is executed at most once, and every      *)
(* answer under the key says what became of it.                              *)
THEOREM KeysActOnceAlways == Spec => []KeysActOnce
<1>1. Init => ApiInv
  BY DEF Init, ApiInv, ApiTypeOK, RecordMatches, Untouched, RequestOwnsKey
<1>2. ASSUME ApiInv
      PROVE  KeysActOnce
  <2> SUFFICES ASSUME NEW k \in Keys
               PROVE  /\ Len(effects[k]) <= 1
                      /\ \A a \in answers : a.key = k =>
                           effects[k] = Effect(a.hash, a.response)
                      /\ \A a, b \in answers : a.key = k /\ b.key = k => a = b
    BY DEF KeysActOnce, Effect
  <2>1. \A a, b \in answers :
          a.key = b.key /\ a.hash = b.hash /\ a.response = b.response => a = b
    BY <1>2 DEF ApiInv, ApiTypeOK, Commands
  <2>2. CASE records[k] = Null
    BY <1>2, <2>2 DEF ApiInv, RecordMatches, Untouched
  <2>3. CASE records[k] # Null /\ records[k].response = Null
    <3>1. /\ effects[k] = <<>> \/ effects[k] = <<records[k].hash>>
          /\ \A a \in answers : a.key # k
      BY <1>2, <2>3 DEF ApiInv, RecordMatches
    <3>2. Len(effects[k]) <= 1
      BY <3>1, AtMostOne
    <3> QED
      BY <3>1, <3>2
  <2>4. CASE records[k] # Null /\ records[k].response # Null
    <3>1. \A a \in answers : a.key = k =>
            a.hash = records[k].hash /\ a.response = records[k].response
      BY <1>2, <2>4 DEF ApiInv, RecordMatches
    <3>2. effects[k] = Effect(records[k].hash, records[k].response)
      BY <1>2, <2>4 DEF ApiInv, RecordMatches
    <3>3. effects[k] = <<>> \/ effects[k] = <<records[k].hash>>
      BY <3>2 DEF Effect
    <3>4. Len(effects[k]) <= 1
      BY <3>3, AtMostOne
    <3> QED
      BY <2>1, <3>1, <3>2, <3>4
  <2> QED
    BY <2>2, <2>3, <2>4
<1> QED
  BY <1>1, <1>2, NextApiInv, PTL DEF Spec

-----------------------------------------------------------------------------
(* The workers. *)

(* A worker marks what it has published, whoever else works on the event.    *)
LEMMA NextSentIsDelivered ==
  ASSUME SentIsDelivered, [Next]_vars
  PROVE  SentIsDelivered'
<1> USE DEF SentIsDelivered
<1>1. CASE UNCHANGED worker
  BY <1>1 DEF worker
<1>2. ASSUME NEW w \in Workers, ClaimBatch(w)
      PROVE  SentIsDelivered'
  BY <1>2 DEF ClaimBatch
<1>3. ASSUME NEW w \in Workers, Publish(w)
      PROVE  SentIsDelivered'
  BY <1>3 DEF Publish
<1>4. ASSUME NEW w \in Workers, MarkPublished(w)
      PROVE  SentIsDelivered'
  BY <1>4 DEF MarkPublished, Done
<1>5. ASSUME NEW w \in Workers, Abandon(w)
      PROVE  SentIsDelivered'
  BY <1>5 DEF Abandon
<1>6. CASE UNCHANGED vars
  BY <1>1, <1>6 DEF vars, worker
<1> QED
  BY <1>1, <1>2, <1>3, <1>4, <1>5, <1>6
  DEF Next, Claim, Replay, Execute, Complete, Die

(* No event is marked that was not published, so that a failure at any point *)
(* leaves it to be published again and never loses it.                       *)
THEOREM MarkedIsDelivered == Spec => [](marked \subseteq delivered)
<1>1. Init => SentIsDelivered
  BY DEF Init, SentIsDelivered
<1>2. SentIsDelivered => marked \subseteq delivered
  BY DEF SentIsDelivered
<1> QED
  BY <1>1, <1>2, NextSentIsDelivered, PTL DEF Spec

-----------------------------------------------------------------------------
(* The agent's deduplicator. *)

(* The jobs that the deduplicator knows are the last ones that were accepted *)
(* by this process, all of them or as many as it holds.                      *)
KnowsTheLatest(known, accepted) ==
  /\ known \in Seq(Jobs) /\ accepted \in Seq(Jobs)
  /\ Len(known) <= Len(accepted)
  /\ Len(known) <= Capacity
  /\ Len(known) < Capacity => Len(known) = Len(accepted)
  /\ \A i \in 1..Len(known) :
       known[i] = accepted[Len(accepted) - Len(known) + i]

FarApart(accepted) ==
  \A i, j \in 1..Len(accepted) :
    i < j /\ accepted[i] = accepted[j] => j - i > Capacity

DeduplicatorInv == KnowsTheLatest(order, log) /\ FarApart(log)

(* What is known after a job was accepted that was not known before.         *)
LEMMA AcceptedIsKnown ==
  ASSUME NEW known, NEW accepted, KnowsTheLatest(known, accepted),
         NEW j \in Jobs
  PROVE  KnowsTheLatest(
           Append(IF Len(known) = Capacity THEN Tail(known) ELSE known, j),
           Append(accepted, j))
<1> DEFINE rest == IF Len(known) = Capacity THEN Tail(known) ELSE known
           n == Len(accepted)
           then == Append(rest, j)
           all  == Append(accepted, j)
<1>1. /\ known \in Seq(Jobs) /\ accepted \in Seq(Jobs)
      /\ Len(known) \in Nat /\ n \in Nat /\ Capacity \in Nat \ {0}
      /\ all \in Seq(Jobs) /\ Len(all) = n + 1
      /\ all[n + 1] = j /\ \A i \in 1..n : all[i] = accepted[i]
  BY AgentAssumption DEF KnowsTheLatest
<1>2. CASE Len(known) = Capacity
  <2>1. /\ rest \in Seq(Jobs)
        /\ Len(rest) = Capacity - 1
        /\ \A i \in 1..Len(rest) : rest[i] = known[i + 1]
    BY <1>1, <1>2
  <2>2. /\ then \in Seq(Jobs) /\ Len(then) = Capacity
        /\ then[Capacity] = j
        /\ \A i \in 1..Capacity - 1 : then[i] = rest[i]
    BY <1>1, <2>1
  <2>3. Capacity <= n
    BY <1>2 DEF KnowsTheLatest
  <2> HIDE DEF rest, n, then, all
  <2>4. ASSUME NEW i \in 1..Capacity
        PROVE  then[i] = all[(n + 1) - Capacity + i]
    <3>1. CASE i = Capacity
      <4>1. (n + 1) - Capacity + i = n + 1
        BY <1>1, <3>1
      <4> QED
        BY <1>1, <2>2, <3>1, <4>1
    <3>2. CASE i < Capacity
      <4>1. then[i] = known[i + 1] /\ i + 1 \in 1..Len(known)
        BY <1>1, <1>2, <2>1, <2>2, <3>2
      <4>2. known[i + 1] = accepted[n - Capacity + (i + 1)]
        BY <4>1, <1>2 DEF KnowsTheLatest, n
      <4>3. /\ n - Capacity + (i + 1) = (n + 1) - Capacity + i
            /\ (n + 1) - Capacity + i \in 1..n
        BY <1>1, <2>3, <3>2
      <4> QED
        BY <1>1, <4>1, <4>2, <4>3
    <3> QED
      BY <1>1, <3>1, <3>2
  <2>5. KnowsTheLatest(then, all)
    BY <1>1, <2>2, <2>3, <2>4 DEF KnowsTheLatest
  <2> QED
    BY <2>5 DEF rest, then, all
<1>3. CASE Len(known) # Capacity
  <2>1. Len(known) < Capacity /\ Len(known) = n /\ rest = known
    BY <1>1, <1>3 DEF KnowsTheLatest
  <2>2. /\ then \in Seq(Jobs) /\ Len(then) = n + 1
        /\ then[n + 1] = j
        /\ \A i \in 1..n : then[i] = known[i]
    BY <1>1, <2>1
  <2> HIDE DEF rest, n, then, all
  <2>3. ASSUME NEW i \in 1..n + 1
        PROVE  then[i] = all[(n + 1) - (n + 1) + i]
    <3>1. (n + 1) - (n + 1) + i = i
      BY <1>1
    <3>2. CASE i \in 1..n
      <4>1. known[i] = accepted[n - n + i] /\ n - n + i = i
        BY <1>1, <2>1, <3>2 DEF KnowsTheLatest, n
      <4> QED
        BY <1>1, <2>2, <3>1, <3>2, <4>1
    <3>3. CASE i = n + 1
      BY <1>1, <2>2, <3>1, <3>3
    <3> QED
      BY <1>1, <3>2, <3>3
  <2>4. KnowsTheLatest(then, all)
    BY <1>1, <2>1, <2>2, <2>3 DEF KnowsTheLatest
  <2> QED
    BY <2>4 DEF rest, then, all
<1> QED
  BY <1>2, <1>3

(* A job that is not known is not among the last ones.                       *)
LEMMA UnknownIsFar ==
  ASSUME NEW known, NEW accepted, KnowsTheLatest(known, accepted),
         FarApart(accepted), NEW j \in Jobs, j \notin ToSet(known)
  PROVE  FarApart(Append(accepted, j))
<1> DEFINE n == Len(accepted)
<1>1. /\ known \in Seq(Jobs) /\ accepted \in Seq(Jobs)
      /\ Len(known) \in Nat /\ n \in Nat /\ Capacity \in Nat
      /\ Len(Append(accepted, j)) = n + 1
      /\ Append(accepted, j)[n + 1] = j
      /\ \A i \in 1..n : Append(accepted, j)[i] = accepted[i]
  BY AgentAssumption DEF KnowsTheLatest
<1>2. ASSUME NEW i \in 1..n, accepted[i] = j
      PROVE  (n + 1) - i > Capacity
  <2> SUFFICES ASSUME (n + 1) - i <= Capacity
               PROVE  FALSE
    BY <1>1
  <2> DEFINE k == i - (n - Len(known))
  <2>1. k \in 1..Len(known) /\ n - Len(known) + k = i
    BY <1>1 DEF KnowsTheLatest
  <2>2. known[k] = j
    BY <1>2, <2>1 DEF KnowsTheLatest
  <2>3. k \in DOMAIN known
    BY <1>1, <2>1
  <2> QED
    BY <2>2, <2>3 DEF ToSet
<1>3. ASSUME NEW a \in 1..n + 1, NEW b \in 1..n + 1, a < b,
             Append(accepted, j)[a] = Append(accepted, j)[b]
      PROVE  b - a > Capacity
  <2>1. CASE b = n + 1
    <3>1. a \in 1..n /\ accepted[a] = j
      BY <1>1, <1>3, <2>1
    <3> QED
      BY <1>2, <2>1, <3>1
  <2>2. CASE b # n + 1
    <3>1. a \in 1..n /\ b \in 1..n /\ accepted[a] = accepted[b]
      BY <1>1, <1>3, <2>2
    <3> QED
      BY <1>3, <3>1 DEF FarApart
  <2> QED
    BY <2>1, <2>2
<1> QED
  BY <1>1, <1>3 DEF FarApart

(* A restart empties both, and nothing else but an acceptance changes them.  *)
LEMMA NextDeduplicatorInv ==
  ASSUME DeduplicatorInv, [MCNext]_<<side, vars, agentVars>>
  PROVE  DeduplicatorInv'
<1>1. CASE UNCHANGED agentVars
  BY <1>1 DEF DeduplicatorInv, agentVars, KnowsTheLatest, FarApart
<1>2. ASSUME NEW j \in Jobs, agent!Accept(j)
      PROVE  DeduplicatorInv'
  <2>1. /\ j \notin ToSet(order)
        /\ order' = Append(IF Len(order) = Capacity THEN Tail(order) ELSE order, j)
        /\ log' = Append(log, j)
    <3>1. agent!Evicted = Tail(order)
      BY DEF agent!Evicted
    <3> QED
      BY <1>2, <3>1 DEF agent!Accept, agent!ToSet, ToSet
  <2>2. KnowsTheLatest(order, log)' 
    BY <2>1, AcceptedIsKnown DEF DeduplicatorInv
  <2>3. FarApart(log)'
    BY <2>1, UnknownIsFar DEF DeduplicatorInv
  <2> QED
    BY <2>2, <2>3 DEF DeduplicatorInv
<1>3. CASE agent!Restart
  BY <1>3, AgentAssumption
  DEF agent!Restart, DeduplicatorInv, KnowsTheLatest, FarApart
<1>4. CASE UNCHANGED <<order, log>>
  BY <1>4 DEF DeduplicatorInv, KnowsTheLatest, FarApart
<1> QED
  BY <1>1, <1>2, <1>3, <1>4
  DEF MCNext, agent!Next, agent!SessionFails, agent!SessionReconnects,
      agent!RetryWebSocket, agent!End

(* A process of the agent does not act on a job again that is delivered      *)
(* again, unless it has accepted as many others since as it remembers.       *)
THEOREM RepeatsAreAlwaysFarApart == MCSpec => []RepeatsAreFarApart
<1>1. MCInit => DeduplicatorInv
  BY AgentAssumption
  DEF MCInit, agent!Init, DeduplicatorInv, KnowsTheLatest, FarApart
<1>2. DeduplicatorInv => RepeatsAreFarApart
  BY DEF DeduplicatorInv, FarApart, RepeatsAreFarApart, agent!RepeatsAreFarApart
<1> QED
  BY <1>1, <1>2, NextDeduplicatorInv, PTL DEF MCSpec

-----------------------------------------------------------------------------
(* The agent's backoff. *)

(* A set of naturals that is not empty has a least element.                  *)
LEMMA LeastNatural ==
  ASSUME NEW T \in SUBSET Nat, T # {}
  PROVE  \E x \in T : \A y \in T : x <= y
<1>1. PICK x \in T : \A y \in T : ~ (<<y, x>> \in OpToRel(<, Nat))
  BY NatLessThanWellFounded, WFMin
<1>2. ASSUME NEW y \in T
      PROVE  x <= y
  <2>1. x \in Nat /\ y \in Nat
    BY <1>1
  <2>2. ~ (y < x)
    BY <1>1, <2>1 DEF OpToRel
  <2> QED
    BY <2>1, <2>2
<1> QED
  BY <1>1, <1>2

(* A set with 0 and each successor of its elements has every natural number. *)
LEMMA AllNaturals ==
  ASSUME NEW T, 0 \in T, \A n \in Nat : n \in T => n + 1 \in T
  PROVE  \A n \in Nat : n \in T
<1> SUFFICES ASSUME Nat \ T # {} PROVE FALSE
  OBVIOUS
<1>1. PICK x \in Nat \ T : \A y \in Nat \ T : x <= y
  BY LeastNatural
<1>2. x # 0 /\ x \in Nat
  BY <1>1
<1>3. x - 1 \in Nat /\ x - 1 < x /\ (x - 1) + 1 = x
  BY <1>2
<1>4. x - 1 \in T
  BY <1>1, <1>3
<1> QED
  BY <1>1, <1>3, <1>4

(* The powers of two up to the n-th.                                         *)
IsShifted(f, n) ==
  /\ f \in [0..n -> Nat \ {0}]
  /\ f[0] = 1
  /\ \A k \in 1..n : f[k] = 2 * f[k - 1]

(* There are such powers, and only one sequence of them.                     *)
LEMMA ShiftedExists ==
  /\ \A n \in Nat : \E f : IsShifted(f, n)
  /\ \A n \in Nat : \A m \in 0..n : \A f, g :
       IsShifted(f, m) /\ IsShifted(g, n) => \A k \in 0..m : f[k] = g[k]
<1>1. \A n \in Nat : \E f : IsShifted(f, n)
  <2> DEFINE T == {n \in Nat : \E f : IsShifted(f, n)}
  <2>1. 0 \in T
    <3>1. IsShifted([k \in 0..0 |-> 1], 0)
      BY DEF IsShifted
    <3> QED
      BY <3>1
  <2>2. ASSUME NEW n \in Nat, n \in T
        PROVE  n + 1 \in T
    <3>1. PICK f : IsShifted(f, n)
      BY <2>2
    <3> DEFINE g == [k \in 0..n + 1 |-> IF k = n + 1 THEN 2 * f[n] ELSE f[k]]
    <3>2. IsShifted(g, n + 1)
      BY <3>1 DEF IsShifted
    <3> QED
      BY <3>2
  <2> HIDE DEF T
  <2>3. \A n \in Nat : n \in T
    BY <2>1, <2>2, AllNaturals
  <2> QED
    BY <2>3 DEF T
<1>2. ASSUME NEW n \in Nat, NEW m \in 0..n, NEW f, NEW g,
             IsShifted(f, m), IsShifted(g, n)
      PROVE  \A k \in 0..m : f[k] = g[k]
  <2> DEFINE T == {k \in Nat : k <= m => f[k] = g[k]}
  <2>1. 0 \in T
    BY <1>2 DEF IsShifted
  <2>2. ASSUME NEW k \in Nat, k \in T
        PROVE  k + 1 \in T
    <3> SUFFICES ASSUME k + 1 <= m
                 PROVE  f[k + 1] = g[k + 1]
      OBVIOUS
    <3>1. k <= m /\ k + 1 \in 1..m /\ k + 1 \in 1..n /\ (k + 1) - 1 = k
      OBVIOUS
    <3>2. f[k] = g[k]
      BY <2>2, <3>1
    <3> QED
      BY <1>2, <3>1, <3>2 DEF IsShifted
  <2> HIDE DEF T
  <2>3. \A k \in Nat : k \in T
    BY <2>1, <2>2, AllNaturals
  <2> QED
    BY <2>3 DEF T
<1> QED
  BY <1>1, <1>2

(* The multiplier doubles with each failure.                                 *)
LEMMA ShiftedDoubles ==
  /\ agent!Shifted[0] = 1
  /\ \A n \in Nat : /\ agent!Shifted[n] \in Nat \ {0}
                    /\ agent!Shifted[n + 1] = 2 * agent!Shifted[n]
<1> DEFINE Upto(n) == CHOOSE f : IsShifted(f, n)
           h == [n \in Nat |-> Upto(n)[n]]
<1>1. \A n \in Nat : IsShifted(Upto(n), n)
  BY ShiftedExists
<1>2. ASSUME NEW n \in Nat
      PROVE  /\ h[n] = IF n = 0 THEN 1 ELSE 2 * h[n - 1]
             /\ h[n] \in Nat \ {0}
  <2>0. IsShifted(Upto(n), n) /\ h[n] = Upto(n)[n]
    BY <1>1
  <2>1. CASE n = 0
    BY <2>0, <2>1 DEF IsShifted
  <2>2. CASE n # 0
    <3>1. n - 1 \in Nat /\ n - 1 \in 0..n /\ n - 1 \in 0..n - 1 /\ n \in 1..n
      BY <2>2
    <3>2. IsShifted(Upto(n - 1), n - 1) /\ h[n - 1] = Upto(n - 1)[n - 1]
      BY <1>1, <3>1
    <3>3. ASSUME NEW f, NEW g, IsShifted(f, n - 1), IsShifted(g, n)
          PROVE  f[n - 1] = g[n - 1]
      BY <3>1, <3>3, ShiftedExists
    <3> HIDE DEF Upto, h
    <3>4. Upto(n - 1)[n - 1] = Upto(n)[n - 1]
      BY <2>0, <3>2, <3>3
    <3> QED
      BY <2>0, <2>2, <3>1, <3>2, <3>4 DEF IsShifted
  <2> QED
    BY <2>1, <2>2
<1>3. h = [n \in Nat |-> h[n]]
  OBVIOUS
<1> HIDE DEF h
<1>4. h = [n \in Nat |-> IF n = 0 THEN 1 ELSE 2 * h[n - 1]]
  BY <1>2, <1>3
<1>5. agent!Shifted = [n \in Nat |-> IF n = 0 THEN 1 ELSE 2 * agent!Shifted[n - 1]]
  BY <1>4 DEF agent!Shifted
<1>6. agent!Shifted[0] = 1
  BY <1>5
<1>7. ASSUME NEW n \in Nat
      PROVE  agent!Shifted[n + 1] = 2 * agent!Shifted[n]
  <2>1. n + 1 \in Nat /\ n + 1 # 0 /\ (n + 1) - 1 = n
    OBVIOUS
  <2> QED
    BY <1>5, <2>1
<1> DEFINE T == {n \in Nat : agent!Shifted[n] \in Nat \ {0}}
<1>8. 0 \in T
  BY <1>6
<1>9. ASSUME NEW n \in Nat, n \in T
      PROVE  n + 1 \in T
  BY <1>7, <1>9
<1> HIDE DEF T
<1>10. \A n \in Nat : n \in T
  BY <1>8, <1>9, AllNaturals
<1> QED
  BY <1>6, <1>7, <1>10 DEF T

(* A later multiplier is at least as large.                                  *)
LEMMA MultiplierGrows ==
  ASSUME NEW a \in 0..Width - 1
  PROVE  /\ agent!Multiplier(a) \in Nat \ {0}
         /\ agent!Multiplier(agent!Least(a + 1, Width - 1)) >= agent!Multiplier(a)
<1>1. Width \in Nat \ {0} /\ Width - 1 \in Nat /\ a \in Nat /\ a <= Width - 1
  BY AgentAssumption
<1>2. agent!Multiplier(a) = agent!Shifted[a]
  BY <1>1 DEF agent!Multiplier, agent!Least
<1>3. agent!Shifted[a] \in Nat \ {0}
  BY <1>1, ShiftedDoubles
<1>4. CASE a = Width - 1
  <2>1. agent!Least(a + 1, Width - 1) = a
    BY <1>1, <1>4 DEF agent!Least
  <2> QED
    BY <1>2, <1>3, <2>1
<1>5. CASE a # Width - 1
  <2>1. agent!Least(a + 1, Width - 1) = a + 1 /\ a + 1 \in Nat /\ a + 1 <= Width - 1
    BY <1>1, <1>5 DEF agent!Least
  <2>2. agent!Multiplier(a + 1) = agent!Shifted[a + 1]
    BY <1>1, <2>1 DEF agent!Multiplier, agent!Least
  <2>3. agent!Shifted[a + 1] = 2 * agent!Shifted[a]
    BY <1>1, ShiftedDoubles
  <2> QED
    BY <1>2, <1>3, <2>1, <2>2, <2>3
<1> QED
  BY <1>4, <1>5

(* The cap for a number of failed attempts.                                  *)
CapAfter(n) == agent!Least(Base * agent!Multiplier(n), Maximum)

(* What the agent waited for at most is below what it may wait for next.     *)
BackoffInv ==
  /\ attempt \in 0..Width - 1
  /\ cap \in Nat
  /\ cap <= CapAfter(attempt)
  /\ mode = "polling" => cap > 0

LEMMA CapGrows ==
  ASSUME NEW a \in 0..Width - 1
  PROVE  /\ CapAfter(a) \in Nat \ {0}
         /\ agent!Least(a + 1, Width - 1) \in 0..Width - 1
         /\ CapAfter(agent!Least(a + 1, Width - 1)) >= CapAfter(a)
<1> DEFINE b == agent!Least(a + 1, Width - 1)
           m == agent!Multiplier(a)
           n == agent!Multiplier(b)
<1>1. b \in 0..Width - 1
  BY AgentAssumption DEF agent!Least
<1> HIDE DEF b
<1>2. m \in Nat \ {0} /\ n \in Nat \ {0} /\ n >= m
  BY <1>1, MultiplierGrows DEF b
<1> HIDE DEF m, n
<1>3. Base \in Nat \ {0} /\ Maximum \in Nat \ {0}
  BY AgentAssumption
<1>4. /\ Base * m \in Nat \ {0} /\ Base * n \in Nat
      /\ Base * n >= Base * m
  BY <1>2, <1>3
<1>5. CapAfter(a) = agent!Least(Base * m, Maximum)
  BY DEF CapAfter, m
<1>6. CapAfter(b) = agent!Least(Base * n, Maximum)
  BY DEF CapAfter, n
<1>7. CapAfter(a) \in Nat \ {0} /\ CapAfter(b) >= CapAfter(a)
  BY <1>3, <1>4, <1>5, <1>6 DEF agent!Least
<1> QED
  BY <1>1, <1>7 DEF b

(* A failure takes the next cap; only a reset and a restart begin again, and *)
(* after them the agent does not poll.                                       *)
LEMMA NextBackoffInv ==
  ASSUME BackoffInv, [MCNext]_<<side, vars, agentVars>>
  PROVE  /\ BackoffInv'
         /\ UNCHANGED agentVars
              \/ (mode' = "polling" => cap' >= cap /\ cap' > 0)
<1>1. CASE UNCHANGED agentVars
  BY <1>1 DEF BackoffInv, agentVars
<1>2. CASE agent!SessionFails
  <2>1. /\ cap' = CapAfter(attempt)
        /\ attempt' = agent!Least(attempt + 1, Width - 1)
    BY <1>2 DEF agent!SessionFails, agent!CurrentCap, CapAfter
  <2>2. /\ CapAfter(attempt) \in Nat \ {0}
        /\ attempt' \in 0..Width - 1
        /\ CapAfter(attempt') >= CapAfter(attempt)
    BY <2>1, CapGrows DEF BackoffInv
  <2> QED
    BY <2>1, <2>2 DEF BackoffInv
<1>3. CASE agent!SessionReconnects
  <2>1. attempt' = 0 /\ cap' = 0 /\ mode' = "websocket"
    BY <1>3 DEF agent!SessionReconnects
  <2>2. 0 \in 0..Width - 1
    BY AgentAssumption
  <2>3. CapAfter(0) \in Nat
    BY <2>2, CapGrows
  <2> QED
    BY <2>1, <2>2, <2>3 DEF BackoffInv
<1>4. CASE agent!Restart
  <2>1. attempt' = 0 /\ cap' = 0 /\ mode' = "websocket"
    BY <1>4 DEF agent!Restart
  <2>2. 0 \in 0..Width - 1
    BY AgentAssumption
  <2>3. CapAfter(0) \in Nat
    BY <2>2, CapGrows
  <2> QED
    BY <2>1, <2>2, <2>3 DEF BackoffInv
<1>5. CASE agent!RetryWebSocket
  BY <1>5 DEF agent!RetryWebSocket, BackoffInv
<1>6. CASE agent!End
  BY <1>6 DEF agent!End, BackoffInv
<1>7. ASSUME NEW j \in Jobs, agent!Accept(j)
      PROVE  /\ BackoffInv'
             /\ mode' = "polling" => cap' >= cap /\ cap' > 0
  BY <1>7 DEF agent!Accept, BackoffInv
<1> QED
  BY <1>1, <1>2, <1>3, <1>4, <1>5, <1>6, <1>7 DEF MCNext, agent!Next

(* However many sessions fail in a row, the time the agent may wait before   *)
(* the next one does not fall and does not come to zero, at any width of the *)
(* multiplier.                                                               *)
THEOREM BackoffNeverFalls == MCSpec => CapNeverFalls
<1>1. MCInit => BackoffInv
  <2>1. 0 \in 0..Width - 1
    BY AgentAssumption
  <2>2. CapAfter(0) \in Nat
    BY <2>1, CapGrows
  <2> QED
    BY <2>1, <2>2 DEF MCInit, agent!Init, BackoffInv
<1>2. BackoffInv /\ [MCNext]_<<side, vars, agentVars>>
        => BackoffInv' /\ [mode' = "polling" => cap' >= cap /\ cap' > 0]_agentVars
  BY NextBackoffInv
<1> QED
  BY <1>1, <1>2, PTL DEF MCSpec, CapNeverFalls, agent!CapNeverFalls, agent!vars, agentVars

=============================================================================
