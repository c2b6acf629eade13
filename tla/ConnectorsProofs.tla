-------------------------- MODULE ConnectorsProofs --------------------------
(***************************************************************************)
(* Theorems about the connectors, for any requests, records, calls and     *)
(* items, any window of acceptance and any size of a page.                 *)
(*                                                                         *)
(* The HTTP adapter acts once on a request because its nonce is known as   *)
(* long as a copy of it could be accepted: NoncesOK says where it is known *)
(* while the memory of the store is there, purged or lost.  Its exports    *)
(* are whole because what the sink does not have is still in the stream.   *)
(* The pages of the Supabase connector cover the resource because whatever *)
(* stayed is beyond the cursor, on the page or handled (SweepOK).          *)
(***************************************************************************)
EXTENDS Connectors, FiniteSetTheorems, SequenceTheorems,
        WellFoundedInduction, TLAPS

-----------------------------------------------------------------------------
(* What holds of the HTTP adapter. *)

Phases == {"idle", "run", "act", "done", "over"}
Answers == {"none", "waiting", "complete", "ok", "failed"}
Frames == [type : {"data"}, item : Nat] \cup [type : {"complete", "error"}]
Places == [id : Requests, at : Nat]

IsTimes(f) == DOMAIN f \subseteq Requests /\ \A r \in DOMAIN f : f[r] \in Nat

(* The values of the variables, of the client, the nonce store and the       *)
(* handlers.                                                                 *)
ClientTypeOK ==
  /\ now \in Nat
  /\ sent \in [Requests -> http!SentRows \cup {Null}]
  /\ answer \in [Requests -> Answers]
  /\ sink \in [Requests -> Seq(Nat)]

StoreTypeOK ==
  /\ queue \in Seq(Places)
  /\ writing \in BOOLEAN /\ loaded \in BOOLEAN
  /\ IsTimes(nonces) /\ IsTimes(file)

HandlerTypeOK ==
  /\ phase \in [Requests -> Phases]
  /\ written \in [Requests -> 0..Records]
  /\ stream \in [Requests -> Seq(Frames)]
  /\ acted \in [Requests -> 0..1]

(* A request is known to the client from the time it is sent.                *)
SentOK ==
  \A r \in Requests :
    /\ answer[r] = "none" <=> sent[r] = Null
    /\ sent[r] # Null => sent[r].stamp <= now

(* The time until which copies of a request are accepted.                    *)
Limit(r) == sent[r].stamp + Window

(* Requests are in the queue in the order of time, and in their window.      *)
QueueOK ==
  /\ \A i \in 1..Len(queue) :
       /\ sent[queue[i].id] # Null
       /\ sent[queue[i].id].stamp <= queue[i].at
       /\ queue[i].at <= Limit(queue[i].id)
       /\ queue[i].at <= now
  /\ \A i, j \in 1..Len(queue) : i < j => queue[i].at <= queue[j].at

(* No copy of the request can come to the store any more.                    *)
Passed(r) ==
  /\ now > Limit(r)
  /\ \A i \in 1..Len(queue) : queue[i].id # r

(* The nonce of a request that went to its handler is in the file, and in    *)
(* memory until its window has passed.                                       *)
NoncesOK ==
  \A r \in Requests : phase[r] # "idle" =>
    /\ sent[r] # Null
    /\ r \in DOMAIN file /\ file[r] >= Limit(r)
    /\ loaded => \/ r \in DOMAIN nonces /\ nonces[r] >= Limit(r)
                 \/ Passed(r)

(* What is being written is not with its handler yet.                        *)
WritingOK ==
  writing => loaded /\ queue # <<>> /\ phase[Head(queue).id] = "idle"

ActedOK ==
  \A r \in Requests :
    /\ phase[r] \in {"idle", "run"} => acted[r] = 0
    /\ phase[r] \in {"act", "done"} => acted[r] = 1

(* Of w records that a handler wrote the sink has the first ones and the     *)
(* stream the others; a last frame follows when the handler is at its end,   *)
(* and it says complete when these are all records.                          *)
StreamOK(w, got, frames, p) ==
  /\ Len(got) <= w
  /\ \A i \in 1..Len(got) : got[i] = i
  /\ Len(frames) \in {w - Len(got), w - Len(got) + 1}
  /\ \A i \in 1..Len(frames) :
       /\ frames[i].type = "data" <=> i <= w - Len(got)
       /\ frames[i].type = "data" => frames[i].item = Len(got) + i
       /\ frames[i].type # "data" => p \in {"done", "over"}
       /\ frames[i].type = "complete" => w = Records /\ p = "done"

StreamsOK ==
  \A r \in Requests : StreamOK(written[r], sink[r], stream[r], phase[r])

(* The client takes a request for done when it is.                           *)
AnswersOK ==
  \A r \in Requests :
    /\ answer[r] = "complete" => acted[r] = 1 /\ Len(sink[r]) = Records
    /\ answer[r] = "ok" => acted[r] = 1
    /\ answer[r] = "ok" /\ sent[r].kind = "export" => Len(sink[r]) = Records

HttpInv ==
  /\ ClientTypeOK /\ StoreTypeOK /\ HandlerTypeOK
  /\ SentOK /\ QueueOK /\ NoncesOK /\ WritingOK /\ ActedOK
  /\ StreamsOK /\ AnswersOK

-----------------------------------------------------------------------------
(* What holds of the Supabase connector. *)

Has(s, n) == \E i \in 1..Len(s) : s[i] = n

Distinct(s) == \A i, j \in 1..Len(s) : s[i] = s[j] => i = j

SupabaseTypeOK ==
  /\ items \subseteq Names
  /\ kind \in [Calls -> supabase!CallKinds \cup {"none"}]
  /\ outcome \in [Calls -> {"none", "running", "ok", "failed"}]
  /\ after \in [Calls -> Nat]
  /\ page \in [Calls -> Seq(Names)]
  /\ ends \in [Calls -> BOOLEAN]
  /\ exported \in [Calls -> Seq(Names)]
  /\ steady \in [Calls -> SUBSET Names]

(* Of the items that stayed none is behind the cursor that is not on the     *)
(* page or handled, and none beyond it when the page is the last; what is on *)
(* the page and what was handled are apart.                                  *)
SweepOK(stayed, cursor, names, last, handled) ==
  /\ Distinct(names) /\ Distinct(handled)
  /\ \A n \in Names : Has(names, n) => n <= cursor /\ ~Has(handled, n)
  /\ \A n \in Names : Has(handled, n) => n <= cursor
  /\ \A n \in stayed : n > cursor \/ Has(names, n) \/ Has(handled, n)
  /\ last /\ names # <<>> => \A n \in stayed : n <= cursor

(* What is known of a call before it begins, while it runs, and after it     *)
(* succeeded.                                                                *)
CallOK(c) ==
  /\ steady[c] \subseteq items
  /\ outcome[c] = "none" => after[c] = 0 /\ page[c] = <<>> /\ exported[c] = <<>>
  /\ outcome[c] = "running" =>
       SweepOK(steady[c], after[c], page[c], ends[c], exported[c])
  /\ outcome[c] = "running" /\ kind[c] # "export" => exported[c] = <<>>
  /\ outcome[c] = "ok" /\ kind[c] = "erase" => steady[c] = {}
  /\ outcome[c] = "ok" /\ kind[c] = "export" =>
       /\ \A n \in steady[c] : Has(exported[c], n)
       /\ Distinct(exported[c])

SupabaseInv == SupabaseTypeOK /\ \A c \in Calls : CallOK(c)

-----------------------------------------------------------------------------
(* Sequences. *)

(* What is left of a sequence without its first element.                     *)
LEMMA TailIs ==
  ASSUME NEW S, NEW q \in Seq(S), q # <<>>
  PROVE  /\ Head(q) = q[1] /\ 1 \in 1..Len(q) /\ Head(q) \in S
         /\ Tail(q) \in Seq(S) /\ Len(Tail(q)) = Len(q) - 1
         /\ \A i \in 1..Len(Tail(q)) : i + 1 \in 1..Len(q) /\ Tail(q)[i] = q[i + 1]
  OBVIOUS

(* A sequence with one element more.                                         *)
LEMMA AppendIs ==
  ASSUME NEW S, NEW q \in Seq(S), NEW e \in S
  PROVE  /\ Append(q, e) \in Seq(S) /\ Len(Append(q, e)) = Len(q) + 1
         /\ Len(q) \in Nat
         /\ Append(q, e)[Len(q) + 1] = e
         /\ \A i \in 1..Len(q) : Append(q, e)[i] = q[i]
         /\ q # <<>> => Head(Append(q, e)) = Head(q)
  OBVIOUS

-----------------------------------------------------------------------------
(* The nonce store. *)

(* A nonce is added, or its time replaced.                                   *)
Adds(g, f, r, t) ==
  /\ IsTimes(g)
  /\ DOMAIN g = DOMAIN f \cup {r}
  /\ g[r] = t
  /\ \A q \in DOMAIN f : q # r => g[q] = f[q]

LEMMA LaterAdds ==
  ASSUME NEW f, IsTimes(f), NEW r \in Requests, NEW t \in Nat
  PROVE  Adds(http!Later(f, r, t), f, r, t)
  BY DEF IsTimes, http!Later, Adds

(* A place in the queue has a request and a time.                            *)
LEMMA PlaceIs ==
  ASSUME StoreTypeOK, NEW i \in 1..Len(queue)
  PROVE  queue[i].id \in Requests /\ queue[i].at \in Nat
<1>1. queue[i] \in Places
  BY DEF StoreTypeOK
<1> QED
  BY <1>1 DEF Places

(* The head of the queue was sent, and is remembered for its whole window.   *)
LEMMA HeadIs ==
  ASSUME ClientTypeOK, StoreTypeOK, QueueOK, queue # <<>>
  PROVE  /\ Head(queue) = queue[1] /\ 1 \in 1..Len(queue)
         /\ Head(queue).id \in Requests /\ Head(queue).at \in Nat
         /\ sent[Head(queue).id] # Null
         /\ http!Expiry \in Nat
         /\ http!Expiry >= Limit(Head(queue).id)
         /\ Head(queue).at <= now
         /\ Head(queue).at <= Limit(Head(queue).id)
         /\ \A i \in 1..Len(queue) : Head(queue).at <= queue[i].at
<1>1. /\ Head(queue) = queue[1] /\ 1 \in 1..Len(queue)
      /\ Head(queue) \in Places
  BY TailIs DEF StoreTypeOK
<1>2. Head(queue).id \in Requests /\ Head(queue).at \in Nat
  BY <1>1 DEF Places
<1>3. /\ sent[Head(queue).id] # Null
      /\ sent[Head(queue).id].stamp <= Head(queue).at
      /\ Head(queue).at <= now
      /\ Head(queue).at <= Limit(Head(queue).id)
  BY <1>1 DEF QueueOK
<1>4. sent[Head(queue).id].stamp \in Nat
  BY <1>2, <1>3 DEF ClientTypeOK, http!SentRows
<1>5. http!Expiry \in Nat /\ http!Expiry >= Limit(Head(queue).id)
  BY <1>2, <1>3, <1>4, ConnectorsAssumption DEF http!Expiry, Limit
<1>6. ASSUME NEW i \in 1..Len(queue)
      PROVE  Head(queue).at <= queue[i].at
  <2>1. CASE i = 1
    BY <1>1, <1>2, <2>1
  <2>2. CASE i # 1
    <3>1. 1 < i
      BY <2>2
    <3> QED
      BY <1>1, <3>1 DEF QueueOK
  <2> QED
    BY <2>1, <2>2
<1> QED
  BY <1>1, <1>2, <1>3, <1>5, <1>6

(* A request that was sent has a time until which it is accepted.            *)
LEMMA LimitIs ==
  ASSUME ClientTypeOK, NEW r \in Requests, sent[r] # Null
  PROVE  /\ sent[r] \in http!SentRows /\ sent[r].stamp \in Nat
         /\ Limit(r) \in Nat
  BY ConnectorsAssumption DEF ClientTypeOK, http!SentRows, Limit

(* The queue without its head is in order, and what has passed has passed.   *)
LEMMA QueueGoesOn ==
  ASSUME StoreTypeOK, QueueOK, queue # <<>>, queue' = Tail(queue),
         UNCHANGED <<now, sent>>
  PROVE  /\ QueueOK'
         /\ \A r \in Requests : Passed(r) => Passed(r)'
<1>1. /\ queue' \in Seq(Places) /\ Len(queue') = Len(queue) - 1
      /\ Len(queue) \in Nat
      /\ \A i \in 1..Len(queue') : i + 1 \in 1..Len(queue) /\ queue'[i] = queue[i + 1]
  BY TailIs DEF StoreTypeOK
<1>2. ASSUME NEW i \in 1..Len(queue'), NEW j \in 1..Len(queue'), i < j
      PROVE  queue'[i].at <= queue'[j].at
  <2>1. i + 1 < j + 1
    BY <1>2
  <2> QED
    BY <1>1, <2>1 DEF QueueOK
<1>3. QueueOK'
  BY <1>1, <1>2 DEF QueueOK, Limit
<1> QED
  BY <1>1, <1>3 DEF Passed, Limit

(* The queue has requests in their window, in the order of time.             *)
LEMMA NextQueueOK ==
  ASSUME HttpInv, http!Next
  PROVE  QueueOK'
<1> USE DEF HttpInv
<1>1. ASSUME NEW r \in Requests, NEW k \in http!Kinds, http!Send(r, k)
      PROVE  QueueOK'
  <2>1. /\ sent[r] = Null
        /\ UNCHANGED <<now, queue>>
        /\ \A q \in Requests : q # r => sent'[q] = sent[q]
    BY <1>1 DEF http!Send, http!store, ClientTypeOK
  <2>2. \A i \in 1..Len(queue) : queue[i].id \in Requests /\ queue[i].id # r
    BY <2>1, PlaceIs DEF QueueOK
  <2>3. \A i \in 1..Len(queue) : sent'[queue[i].id] = sent[queue[i].id]
    BY <2>1, <2>2
  <2> QED
    BY <2>1, <2>3 DEF QueueOK, Limit
<1>2. ASSUME NEW r \in Requests, http!Arrive(r)
      PROVE  QueueOK'
  <2> DEFINE e == [id |-> r, at |-> now]
  <2>1. /\ queue' = Append(queue, e) /\ UNCHANGED <<now, sent>>
        /\ sent[r] # Null /\ now - sent[r].stamp <= Window
    BY <1>2 DEF http!Arrive, http!client, http!InWindow
  <2>2. e \in Places /\ e.id = r /\ e.at = now
    BY DEF Places, ClientTypeOK
  <2> HIDE DEF e
  <2>3. /\ Len(queue') = Len(queue) + 1 /\ Len(queue) \in Nat
        /\ queue'[Len(queue) + 1] = e
        /\ \A i \in 1..Len(queue) : queue'[i] = queue[i]
    BY <2>1, <2>2, AppendIs DEF StoreTypeOK
  <2>4. sent[r].stamp \in Nat /\ sent[r].stamp <= now /\ now <= Limit(r) /\ now \in Nat
    BY <2>1, LimitIs, ConnectorsAssumption DEF SentOK, Limit, ClientTypeOK
  <2>5. ASSUME NEW i \in 1..Len(queue')
        PROVE  /\ sent[queue'[i].id] # Null
               /\ sent[queue'[i].id].stamp <= queue'[i].at
               /\ queue'[i].at <= Limit(queue'[i].id)
               /\ queue'[i].at <= now
    <3>1. CASE i = Len(queue) + 1
      BY <2>1, <2>2, <2>3, <2>4, <3>1
    <3>2. CASE i \in 1..Len(queue)
      BY <2>3, <3>2 DEF QueueOK
    <3> QED
      BY <2>3, <3>1, <3>2
  <2>6. ASSUME NEW i \in 1..Len(queue'), NEW j \in 1..Len(queue'), i < j
        PROVE  queue'[i].at <= queue'[j].at
    <3>1. CASE j = Len(queue) + 1
      BY <2>2, <2>3, <2>5, <3>1
    <3>2. CASE j \in 1..Len(queue)
      <4>1. i \in 1..Len(queue)
        BY <2>3, <2>6, <3>2
      <4> QED
        BY <2>3, <2>6, <3>2, <4>1 DEF QueueOK
    <3> QED
      BY <2>3, <3>1, <3>2
  <2> QED
    BY <2>1, <2>5, <2>6 DEF QueueOK, Limit
<1>3. CASE queue' = Tail(queue) /\ queue # <<>> /\ UNCHANGED <<now, sent>>
  BY <1>3, QueueGoesOn
<1>4. CASE UNCHANGED <<queue, now, sent>>
  BY <1>4 DEF QueueOK, Limit
<1>5. CASE http!Look
  BY <1>3, <1>4, <1>5 DEF http!Look, http!client
<1>6. CASE http!LoadFails
  BY <1>3, <1>6 DEF http!LoadFails, http!client
<1>7. CASE http!Remember
  BY <1>3, <1>7 DEF http!Remember, http!client, WritingOK
<1>8. CASE http!AppendFails
  BY <1>3, <1>8 DEF http!AppendFails, http!client, WritingOK
<1>9. CASE http!Crash
  <2>1. queue' = <<>>
    BY <1>9 DEF http!Crash
  <2>2. Len(queue') = 0
    BY <2>1
  <2> QED
    BY <2>2 DEF QueueOK
<1>10. CASE http!Tick
  <2>1. now' = now + 1 /\ UNCHANGED <<queue, sent>>
    BY <1>10 DEF http!Tick, http!client, http!store
  <2>2. ASSUME NEW i \in 1..Len(queue)
        PROVE  queue[i].at <= now'
    <3>1. queue[i].at \in Nat
      BY PlaceIs
    <3> QED
      BY <2>1, <3>1 DEF QueueOK, ClientTypeOK
  <2> QED
    BY <2>1, <2>2 DEF QueueOK, Limit
<1> QED
  BY <1>1, <1>2, <1>4, <1>5, <1>6, <1>7, <1>8, <1>9, <1>10
  DEF http!Next, http!Succeed, http!ReadFrame, http!EndOfStream, http!Fail,
      http!Refuse, http!Act, http!Write, http!Return, http!Throw, http!client,
      http!store

(* What a look at the store finds: what it forgets has passed, and a request *)
(* that has been with its handler is not written again.                      *)
LEMMA LookFinds ==
  ASSUME HttpInv, http!Look
  PROVE  /\ \A r \in Requests : phase[r] # "idle" =>
              \/ r \in DOMAIN nonces' /\ nonces'[r] >= Limit(r)
              \/ Passed(r)'
         /\ WritingOK'
<1> USE DEF HttpInv
<1> DEFINE known == IF loaded THEN nonces ELSE file
           at == Head(queue).at
           kept == {r \in DOMAIN known : known[r] >= at}
<1>1. /\ queue # <<>> /\ ~writing /\ loaded' = TRUE
      /\ nonces' = [r \in kept |-> known[r]]
      /\ writing' = (Head(queue).id \notin kept)
      /\ queue' = IF Head(queue).id \in kept THEN Tail(queue) ELSE queue
      /\ UNCHANGED <<now, sent, phase>>
  BY DEF http!Look, http!IsKept, http!client, http!handler
<1>2. IsTimes(known) /\ at \in Nat
  BY <1>1, HeadIs DEF StoreTypeOK
<1>3. \A r \in Requests : Passed(r) => Passed(r)'
  <2>1. CASE queue' = Tail(queue)
    BY <1>1, <2>1, QueueGoesOn
  <2>2. CASE queue' = queue
    BY <1>1, <2>2 DEF Passed, Limit
  <2> QED
    BY <1>1, <2>1, <2>2
<1>4. ASSUME NEW r \in Requests, phase[r] # "idle", ~Passed(r)
      PROVE  r \in DOMAIN known /\ known[r] >= Limit(r)
  BY <1>4 DEF NoncesOK
<1>5. ASSUME NEW r \in Requests, phase[r] # "idle", ~Passed(r)
      PROVE  r \in kept
  <2>1. sent[r] # Null /\ Limit(r) \in Nat
    BY <1>5, LimitIs DEF NoncesOK
  <2>2. r \in DOMAIN known /\ known[r] >= Limit(r) /\ known[r] \in Nat
    BY <1>2, <1>4, <1>5 DEF IsTimes
  <2>3. CASE now <= Limit(r)
    <3>1. at <= now /\ now \in Nat
      BY <1>1, HeadIs DEF ClientTypeOK
    <3> QED
      BY <1>2, <2>1, <2>2, <2>3, <3>1
  <2>4. CASE \E i \in 1..Len(queue) : queue[i].id = r
    <3>1. PICK i \in 1..Len(queue) : queue[i].id = r
      BY <2>4
    <3>2. at <= queue[i].at /\ queue[i].at <= Limit(r) /\ queue[i].at \in Nat
      BY <1>1, <3>1, HeadIs, PlaceIs DEF QueueOK
    <3> QED
      BY <1>2, <2>1, <2>2, <3>2
  <2>5. now \in Nat
    BY DEF ClientTypeOK
  <2> QED
    BY <1>5, <2>1, <2>3, <2>4, <2>5 DEF Passed
<1> HIDE DEF kept, known, at
<1>6. ASSUME NEW r \in Requests, phase[r] # "idle"
      PROVE  \/ r \in DOMAIN nonces' /\ nonces'[r] >= Limit(r)
             \/ Passed(r)'
  <2>1. CASE Passed(r)
    BY <1>3, <2>1
  <2>2. CASE ~Passed(r)
    BY <1>1, <1>4, <1>5, <1>6, <2>2
  <2> QED
    BY <2>1, <2>2
<1>7. writing' => phase[Head(queue).id] = "idle" /\ queue' = queue
  <2> SUFFICES ASSUME writing'
               PROVE  phase[Head(queue).id] = "idle" /\ queue' = queue
    OBVIOUS
  <2>1. Head(queue).id \in Requests /\ Head(queue) = queue[1] /\ 1 \in 1..Len(queue)
    BY <1>1, HeadIs
  <2>2. ~Passed(Head(queue).id)
    BY <2>1 DEF Passed
  <2> QED
    BY <1>1, <1>5, <2>1, <2>2
<1> QED
  BY <1>1, <1>6, <1>7 DEF WritingOK

(* The nonce of a request outlives the time in which it is accepted.         *)
LEMMA NextNoncesOK ==
  ASSUME HttpInv, http!Next
  PROVE  NoncesOK'
<1> USE DEF HttpInv
<1>1. ASSUME NEW r \in Requests, NEW k \in http!Kinds, http!Send(r, k)
      PROVE  NoncesOK'
  <2>1. /\ sent[r] = Null
        /\ UNCHANGED <<now, queue, nonces, loaded, file, phase>>
        /\ \A q \in Requests : q # r => sent'[q] = sent[q]
    BY <1>1 DEF http!Send, http!store, http!handler, ClientTypeOK
  <2>2. phase[r] = "idle"
    BY <2>1 DEF NoncesOK
  <2> QED
    BY <2>1, <2>2 DEF NoncesOK, Limit, Passed
<1>2. ASSUME NEW r \in Requests, http!Arrive(r)
      PROVE  NoncesOK'
  <2> DEFINE e == [id |-> r, at |-> now]
  <2>1. /\ queue' = Append(queue, e)
        /\ UNCHANGED <<now, sent, nonces, loaded, file, phase>>
        /\ sent[r] # Null /\ now - sent[r].stamp <= Window
    BY <1>2 DEF http!Arrive, http!client, http!InWindow, http!handler
  <2>2. e \in Places /\ e.id = r
    BY DEF Places, ClientTypeOK
  <2> HIDE DEF e
  <2>3. /\ Len(queue') = Len(queue) + 1 /\ Len(queue) \in Nat
        /\ queue'[Len(queue) + 1] = e
        /\ \A i \in 1..Len(queue) : queue'[i] = queue[i]
    BY <2>1, <2>2, AppendIs DEF StoreTypeOK
  <2>4. now <= Limit(r) /\ now \in Nat /\ Limit(r) \in Nat
    BY <2>1, LimitIs, ConnectorsAssumption DEF Limit, ClientTypeOK
  <2>5. ASSUME NEW q \in Requests, Passed(q)
        PROVE  Passed(q)'
    <3>1. q # r
      BY <2>4, <2>5 DEF Passed
    <3>2. \A i \in 1..Len(queue') : queue'[i].id # q
      BY <2>2, <2>3, <2>5, <3>1 DEF Passed
    <3> QED
      BY <2>1, <2>5, <3>2 DEF Passed, Limit
  <2> QED
    BY <2>1, <2>5 DEF NoncesOK, Limit
<1>3. CASE http!Look
  <2>1. UNCHANGED <<sent, file, phase>>
    BY <1>3 DEF http!Look, http!client, http!handler
  <2> QED
    BY <1>3, <2>1, LookFinds DEF NoncesOK, Limit
<1>4. CASE http!LoadFails
  <2>1. /\ queue # <<>> /\ queue' = Tail(queue)
        /\ UNCHANGED <<now, sent, nonces, loaded, file, phase>>
    BY <1>4 DEF http!LoadFails, http!client, http!handler
  <2> QED
    BY <2>1, QueueGoesOn DEF NoncesOK, Limit
<1>5. CASE http!Remember
  <2> DEFINE h == Head(queue).id
  <2>1. /\ queue # <<>> /\ queue' = Tail(queue)
        /\ file' = http!Later(file, h, http!Expiry)
        /\ nonces' = http!Later(nonces, h, http!Expiry)
        /\ phase' = [phase EXCEPT ![h] = "run"]
        /\ UNCHANGED <<now, sent, loaded>>
    BY <1>5 DEF http!Remember, http!client, WritingOK
  <2>2. /\ h \in Requests /\ sent[h] # Null
        /\ http!Expiry \in Nat /\ http!Expiry >= Limit(h)
    BY <2>1, HeadIs
  <2> HIDE DEF h
  <2>3. Adds(file', file, h, http!Expiry) /\ Adds(nonces', nonces, h, http!Expiry)
    BY <2>1, <2>2, LaterAdds DEF StoreTypeOK
  <2>4. \A q \in Requests : q # h => phase'[q] = phase[q]
    BY <2>1 DEF HandlerTypeOK
  <2>5. \A q \in Requests : Passed(q) => Passed(q)'
    BY <2>1, QueueGoesOn
  <2> QED
    BY <2>1, <2>2, <2>3, <2>4, <2>5 DEF NoncesOK, Limit, Adds
<1>6. ASSUME writing, UNCHANGED <<sent, phase>>,
             file' = file \/ file' = http!Later(file, Head(queue).id, http!Expiry)
      PROVE  \A r \in Requests : phase'[r] # "idle" =>
               /\ sent'[r] # Null
               /\ r \in DOMAIN file' /\ file'[r] >= Limit(r)'
  <2> DEFINE h == Head(queue).id
  <2>1. /\ h \in Requests /\ phase[h] = "idle" /\ http!Expiry \in Nat
    BY <1>6, HeadIs DEF WritingOK
  <2>2. CASE file' = http!Later(file, h, http!Expiry)
    <3> HIDE DEF h
    <3>1. Adds(file', file, h, http!Expiry)
      BY <2>1, <2>2, LaterAdds DEF StoreTypeOK
    <3> QED
      BY <1>6, <2>1, <3>1 DEF NoncesOK, Limit, Adds
  <2> QED
    BY <1>6, <2>2 DEF NoncesOK, Limit
<1>7. CASE http!AppendFails
  <2>1. /\ writing /\ queue # <<>> /\ queue' = Tail(queue)
        /\ file' = file \/ file' = http!Later(file, Head(queue).id, http!Expiry)
        /\ UNCHANGED <<now, sent, nonces, loaded, phase>>
    BY <1>7 DEF http!AppendFails, http!client, http!handler, WritingOK
  <2>2. \A q \in Requests : Passed(q) => Passed(q)'
    BY <2>1, QueueGoesOn
  <2> QED
    BY <1>6, <2>1, <2>2 DEF NoncesOK, Limit
<1>8. CASE http!Crash
  <2>1. /\ loaded' = FALSE /\ UNCHANGED sent
        /\ \A r \in Requests : phase'[r] # "idle" <=> phase[r] # "idle"
    BY <1>8 DEF http!Crash, http!client, HandlerTypeOK
  <2>2. \/ file' = file
        \/ writing /\ file' = http!Later(file, Head(queue).id, http!Expiry)
    BY <1>8 DEF http!Crash
  <2>3. CASE file' = file
    BY <2>1, <2>3 DEF NoncesOK, Limit
  <2>4. CASE writing /\ file' = http!Later(file, Head(queue).id, http!Expiry)
    <3> DEFINE h == Head(queue).id
    <3>1. /\ h \in Requests /\ phase[h] = "idle" /\ http!Expiry \in Nat
      BY <2>4, HeadIs DEF WritingOK
    <3>2. Adds(file', file, h, http!Expiry)
      BY <2>4, <3>1, LaterAdds DEF StoreTypeOK
    <3> HIDE DEF h
    <3> QED
      BY <2>1, <3>1, <3>2 DEF NoncesOK, Limit, Adds
  <2> QED
    BY <2>2, <2>3, <2>4
<1>9. CASE http!Tick
  <2>1. now' = now + 1 /\ UNCHANGED <<queue, sent, nonces, loaded, file, phase>>
    BY <1>9 DEF http!Tick, http!client, http!store, http!handler
  <2>2. ASSUME NEW r \in Requests, sent[r] # Null, Passed(r)
        PROVE  Passed(r)'
    BY <2>1, <2>2, LimitIs DEF Passed, Limit, ClientTypeOK
  <2> QED
    BY <2>1, <2>2 DEF NoncesOK, Limit
<1>10. ASSUME UNCHANGED <<now, sent, queue, nonces, loaded, file>>,
              \A r \in Requests : phase'[r] # "idle" => phase[r] # "idle"
       PROVE  NoncesOK'
  BY <1>10 DEF NoncesOK, Limit, Passed
<1>11. ASSUME NEW r \in Requests, http!Refuse(r) \/ http!Act(r)
                \/ http!Write(r) \/ http!Return(r) \/ http!Throw(r)
       PROVE  NoncesOK'
  <2>1. UNCHANGED <<now, sent, queue, nonces, loaded, file>>
    BY <1>11 DEF http!Refuse, http!Act, http!Write, http!Return, http!Throw,
                http!client, http!store
  <2>2. \A q \in Requests : phase'[q] # "idle" => phase[q] # "idle"
    BY <1>11 DEF http!Refuse, http!Act, http!Write, http!Return, http!Throw,
                HandlerTypeOK
  <2> QED
    BY <1>10, <2>1, <2>2
<1>12. ASSUME NEW r \in Requests, http!Succeed(r) \/ http!ReadFrame(r)
                \/ http!EndOfStream(r) \/ http!Fail(r)
       PROVE  NoncesOK'
  BY <1>10, <1>12
  DEF http!Succeed, http!ReadFrame, http!EndOfStream, http!Fail, http!store,
      http!handler
<1> QED
  BY <1>1, <1>2, <1>3, <1>4, <1>5, <1>7, <1>8, <1>9, <1>11, <1>12 DEF http!Next

-----------------------------------------------------------------------------
(* The client and the handlers. *)

(* What is being written is not with its handler yet.                        *)
LEMMA NextWritingOK ==
  ASSUME HttpInv, http!Next
  PROVE  WritingOK'
<1> USE DEF HttpInv
<1>1. ASSUME NEW r \in Requests, http!Arrive(r)
      PROVE  WritingOK'
  <2> DEFINE e == [id |-> r, at |-> now]
  <2>1. queue' = Append(queue, e) /\ UNCHANGED <<writing, loaded, phase>>
    BY <1>1 DEF http!Arrive, http!handler
  <2>2. e \in Places
    BY DEF Places, ClientTypeOK
  <2> HIDE DEF e
  <2>3. queue # <<>> => Head(queue') = Head(queue) /\ queue' # <<>>
    BY <2>1, <2>2, AppendIs DEF StoreTypeOK
  <2> QED
    BY <2>1, <2>3 DEF WritingOK
<1>2. CASE http!Look
  BY <1>2, LookFinds
<1>3. CASE ~writing'
  BY <1>3 DEF WritingOK
<1>4. ASSUME UNCHANGED <<writing, loaded, queue>>,
             \A r \in Requests : phase[r] = "idle" => phase'[r] = "idle"
      PROVE  WritingOK'
  BY <1>4, HeadIs DEF WritingOK
<1>5. ASSUME NEW r \in Requests, http!Refuse(r) \/ http!Act(r)
               \/ http!Write(r) \/ http!Return(r) \/ http!Throw(r)
      PROVE  WritingOK'
  <2>1. UNCHANGED <<writing, loaded, queue>>
    BY <1>5 DEF http!Refuse, http!Act, http!Write, http!Return, http!Throw,
               http!store
  <2>2. \A q \in Requests : phase[q] = "idle" => phase'[q] = "idle"
    BY <1>5 DEF http!Refuse, http!Act, http!Write, http!Return, http!Throw,
               HandlerTypeOK
  <2> QED
    BY <1>4, <2>1, <2>2
<1>6. ASSUME NEW r \in Requests, http!Succeed(r) \/ http!ReadFrame(r)
               \/ http!EndOfStream(r) \/ http!Fail(r)
      PROVE  WritingOK'
  BY <1>4, <1>6
  DEF http!Succeed, http!ReadFrame, http!EndOfStream, http!Fail, http!store,
      http!handler
<1>7. ASSUME NEW r \in Requests, NEW k \in http!Kinds, http!Send(r, k)
      PROVE  WritingOK'
  BY <1>4, <1>7 DEF http!Send, http!store, http!handler
<1>8. CASE http!Tick
  BY <1>4, <1>8 DEF http!Tick, http!store, http!handler
<1> QED
  BY <1>1, <1>2, <1>3, <1>5, <1>6, <1>7, <1>8
  DEF http!Next, http!LoadFails, http!Remember, http!AppendFails, http!Crash

(* A request is known to the client from the time it is sent.                *)
LEMMA NextSentOK ==
  ASSUME HttpInv, http!Next
  PROVE  SentOK'
<1> USE DEF HttpInv, ClientTypeOK, SentOK
<1>1. ASSUME NEW r \in Requests, NEW k \in http!Kinds, http!Send(r, k)
      PROVE  SentOK'
  BY <1>1, NullAssumption DEF http!Send, http!SentRows
<1>2. ASSUME NEW r \in Requests, http!Succeed(r) \/ http!ReadFrame(r)
               \/ http!EndOfStream(r) \/ http!Fail(r)
      PROVE  SentOK'
  BY <1>2 DEF http!Succeed, http!ReadFrame, http!EndOfStream, http!Fail
<1>3. CASE http!Tick
  <2>1. now' = now + 1 /\ UNCHANGED <<sent, answer>>
    BY <1>3 DEF http!Tick, http!client
  <2>2. ASSUME NEW r \in Requests, sent[r] # Null
        PROVE  sent[r].stamp <= now'
    BY <2>1, <2>2, LimitIs
  <2> QED
    BY <2>1, <2>2
<1>4. CASE UNCHANGED <<now, http!client>>
  BY <1>4 DEF http!client
<1> QED
  BY <1>1, <1>2, <1>3, <1>4
  DEF http!Next, http!Arrive, http!Refuse, http!Act, http!Write, http!Return,
      http!Throw, http!Look, http!LoadFails, http!Remember, http!AppendFails,
      http!Crash, http!client

(* A handler is called once.                                                 *)
LEMMA NextActedOK ==
  ASSUME HttpInv, http!Next
  PROVE  ActedOK'
<1> USE DEF HttpInv, HandlerTypeOK, ActedOK
<1>1. ASSUME NEW r \in Requests, http!Refuse(r) \/ http!Act(r)
               \/ http!Write(r) \/ http!Return(r) \/ http!Throw(r)
      PROVE  ActedOK'
  BY <1>1 DEF http!Refuse, http!Act, http!Write, http!Return, http!Throw
<1>2. CASE http!Remember
  <2>1. /\ phase' = [phase EXCEPT ![Head(queue).id] = "run"]
        /\ UNCHANGED acted
        /\ phase[Head(queue).id] = "idle"
    BY <1>2 DEF http!Remember, WritingOK
  <2> QED
    BY <2>1
<1>3. CASE http!Crash
  BY <1>3 DEF http!Crash
<1>4. CASE UNCHANGED <<phase, acted>>
  BY <1>4
<1> QED
  BY <1>1, <1>2, <1>3, <1>4
  DEF http!Next, http!Send, http!Succeed, http!ReadFrame, http!EndOfStream,
      http!Fail, http!Arrive, http!Look, http!LoadFails, http!AppendFails,
      http!Tick, http!handler

(* The client's variables keep their types.                                  *)
LEMMA NextClientTypeOK ==
  ASSUME HttpInv, http!Next
  PROVE  ClientTypeOK'
<1> USE DEF HttpInv, ClientTypeOK
<1>1. ASSUME NEW r \in Requests, NEW k \in http!Kinds, http!Send(r, k)
      PROVE  ClientTypeOK'
  <2>1. [kind |-> k, stamp |-> now] \in http!SentRows
    BY DEF http!SentRows
  <2> QED
    BY <1>1, <2>1 DEF http!Send, Answers
<1>2. ASSUME NEW r \in Requests, http!ReadFrame(r)
      PROVE  ClientTypeOK'
  <2>1. stream[r] # <<>> /\ UNCHANGED <<now, sent>>
    BY <1>2 DEF http!ReadFrame
  <2>2. Head(stream[r]) \in Frames
    BY <2>1, TailIs DEF HandlerTypeOK
  <2>3. Head(stream[r]).type = "data" => Head(stream[r]).item \in Nat
    BY <2>2 DEF Frames
  <2>4. answer' \in [Requests -> Answers]
    BY <1>2 DEF http!ReadFrame, Answers
  <2>5. Head(stream[r]).type = "data" =>
          Append(sink[r], Head(stream[r]).item) \in Seq(Nat)
    BY <2>3, AppendIs
  <2>6. sink' \in [Requests -> Seq(Nat)]
    BY <1>2, <2>5 DEF http!ReadFrame
  <2> QED
    BY <2>1, <2>4, <2>6
<1>3. ASSUME NEW r \in Requests,
             http!Succeed(r) \/ http!EndOfStream(r) \/ http!Fail(r)
      PROVE  ClientTypeOK'
  BY <1>3 DEF http!Succeed, http!EndOfStream, http!Fail, Answers
<1>4. CASE http!Tick
  BY <1>4 DEF http!Tick, http!client
<1>5. CASE UNCHANGED <<now, http!client>>
  BY <1>5 DEF http!client
<1> QED
  BY <1>1, <1>2, <1>3, <1>4, <1>5
  DEF http!Next, http!Arrive, http!Refuse, http!Act, http!Write, http!Return,
      http!Throw, http!Look, http!LoadFails, http!Remember, http!AppendFails,
      http!Crash

(* The nonce store's variables keep their types.                             *)
LEMMA NextStoreTypeOK ==
  ASSUME HttpInv, http!Next
  PROVE  StoreTypeOK'
<1> USE DEF HttpInv
<1>1. queue # <<>> => Tail(queue) \in Seq(Places)
  BY TailIs DEF StoreTypeOK
<1>2. writing => /\ queue # <<>> /\ Head(queue).id \in Requests
                 /\ http!Expiry \in Nat
  BY HeadIs DEF WritingOK
<1>3. writing =>
        /\ IsTimes(http!Later(file, Head(queue).id, http!Expiry))
        /\ IsTimes(http!Later(nonces, Head(queue).id, http!Expiry))
  BY <1>2, LaterAdds DEF StoreTypeOK, Adds
<1>4. ASSUME NEW r \in Requests, http!Arrive(r)
      PROVE  StoreTypeOK'
  <2>1. [id |-> r, at |-> now] \in Places
    BY DEF Places, ClientTypeOK
  <2>2. queue' \in Seq(Places)
    BY <1>4, <2>1, AppendIs DEF http!Arrive, StoreTypeOK
  <2> QED
    BY <1>4, <2>2 DEF http!Arrive, StoreTypeOK
<1>5. CASE http!Look
  <2>1. queue' \in Seq(Places) /\ writing' \in BOOLEAN /\ loaded' \in BOOLEAN
    BY <1>1, <1>5 DEF http!Look, StoreTypeOK
  <2>2. IsTimes(nonces')
    BY <1>5 DEF http!Look, StoreTypeOK, IsTimes
  <2>3. IsTimes(file')
    BY <1>5 DEF http!Look, StoreTypeOK
  <2> QED
    BY <2>1, <2>2, <2>3 DEF StoreTypeOK
<1>6. CASE http!LoadFails
  BY <1>1, <1>6 DEF http!LoadFails, StoreTypeOK
<1>7. CASE http!Remember
  BY <1>1, <1>2, <1>3, <1>7 DEF http!Remember, StoreTypeOK
<1>8. CASE http!AppendFails
  <2>1. \/ file' = file
        \/ file' = http!Later(file, Head(queue).id, http!Expiry)
    BY <1>8 DEF http!AppendFails
  <2>2. IsTimes(file')
    BY <1>3, <1>8, <2>1 DEF http!AppendFails, StoreTypeOK
  <2>3. /\ queue' = Tail(queue) /\ writing' = FALSE /\ writing
        /\ UNCHANGED <<nonces, loaded>>
    BY <1>8 DEF http!AppendFails
  <2> QED
    BY <1>1, <1>2, <2>2, <2>3 DEF StoreTypeOK
<1>9. CASE http!Crash
  <2>1. /\ queue' = <<>> /\ writing' = FALSE /\ loaded' = FALSE
        /\ nonces' = http!NoNonces
        /\ \/ file' = file
           \/ writing /\ file' = http!Later(file, Head(queue).id, http!Expiry)
    BY <1>9 DEF http!Crash
  <2>2. IsTimes(file')
    BY <1>3, <2>1 DEF StoreTypeOK
  <2>3. IsTimes(nonces')
    BY <2>1 DEF IsTimes, http!NoNonces
  <2>4. queue' \in Seq(Places)
    BY <2>1
  <2> QED
    BY <2>1, <2>2, <2>3, <2>4 DEF StoreTypeOK
<1>10. CASE UNCHANGED http!store
  BY <1>10 DEF http!store, StoreTypeOK
<1> QED
  BY <1>4, <1>5, <1>6, <1>7, <1>8, <1>9, <1>10
  DEF http!Next, http!Send, http!Succeed, http!ReadFrame, http!EndOfStream,
      http!Fail, http!Refuse, http!Act, http!Write, http!Return, http!Throw,
      http!Tick

(* The handlers' variables keep their types.                                 *)
LEMMA NextHandlerTypeOK ==
  ASSUME HttpInv, http!Next
  PROVE  HandlerTypeOK'
<1> USE DEF HttpInv, HandlerTypeOK
<1>0. /\ \A n \in Nat : [type |-> "data", item |-> n] \in Frames
      /\ [type |-> "complete"] \in Frames
      /\ [type |-> "error"] \in Frames
  BY DEF Frames
<1>1. ASSUME NEW r \in Requests, http!ReadFrame(r)
      PROVE  HandlerTypeOK'
  <2>1. stream[r] # <<>> /\ stream[r] \in Seq(Frames)
    BY <1>1 DEF http!ReadFrame
  <2>2. Tail(stream[r]) \in Seq(Frames)
    BY <2>1, TailIs
  <2> QED
    BY <1>1, <2>2 DEF http!ReadFrame
<1>2. ASSUME NEW r \in Requests, http!Refuse(r)
      PROVE  HandlerTypeOK'
  BY <1>2 DEF http!Refuse, Phases
<1>3. ASSUME NEW r \in Requests, http!Act(r)
      PROVE  HandlerTypeOK'
  <2>1. acted[r] = 0
    BY <1>3 DEF http!Act, ActedOK
  <2>2. acted[r] + 1 = 1
    BY <2>1
  <2> QED
    BY <1>3, <2>2 DEF http!Act, Phases
<1>4. ASSUME NEW r \in Requests, http!Write(r)
      PROVE  HandlerTypeOK'
  <2>1. written[r] + 1 \in 0..Records /\ written[r] + 1 \in Nat
    BY <1>4, ConnectorsAssumption DEF http!Write
  <2>2. [type |-> "data", item |-> written[r] + 1] \in Frames
    BY <1>0, <2>1
  <2>3. Append(stream[r], [type |-> "data", item |-> written[r] + 1]) \in Seq(Frames)
    BY <2>2, AppendIs
  <2>4. /\ written' = [written EXCEPT ![r] = written[r] + 1]
        /\ stream' = [stream EXCEPT ![r] =
             Append(stream[r], [type |-> "data", item |-> written[r] + 1])]
        /\ UNCHANGED <<phase, acted>>
    BY <1>4 DEF http!Write
  <2> QED
    BY <2>1, <2>3, <2>4
<1>5. ASSUME NEW r \in Requests, http!Return(r) \/ http!Throw(r)
      PROVE  HandlerTypeOK'
  <2>1. /\ Append(stream[r], [type |-> "complete"]) \in Seq(Frames)
        /\ Append(stream[r], [type |-> "error"]) \in Seq(Frames)
    BY <1>0, AppendIs
  <2>2. /\ UNCHANGED <<written, acted>>
        /\ phase' = [phase EXCEPT ![r] = "done"] \/ phase' = [phase EXCEPT ![r] = "over"]
        /\ \/ stream' = stream
           \/ stream' = [stream EXCEPT ![r] = Append(stream[r], [type |-> "complete"])]
           \/ stream' = [stream EXCEPT ![r] = Append(stream[r], [type |-> "error"])]
    BY <1>5 DEF http!Return, http!Throw
  <2>3. phase' \in [Requests -> Phases]
    BY <2>2 DEF Phases
  <2>4. stream' \in [Requests -> Seq(Frames)]
    BY <2>1, <2>2
  <2> QED
    BY <2>2, <2>3, <2>4
<1>6. CASE http!Remember
  BY <1>6 DEF http!Remember, Phases
<1>7. CASE http!Crash
  BY <1>7 DEF http!Crash, Phases
<1>8. CASE UNCHANGED http!handler
  BY <1>8 DEF http!handler
<1> QED
  BY <1>1, <1>2, <1>3, <1>4, <1>5, <1>6, <1>7, <1>8
  DEF http!Next, http!Send, http!Succeed, http!EndOfStream, http!Fail,
      http!Arrive, http!Look, http!LoadFails, http!AppendFails, http!Tick

-----------------------------------------------------------------------------
(* Exports. *)

(* The client reads a record.                                                *)
LEMMA RecordIsRead ==
  ASSUME NEW w \in Nat, NEW got \in Seq(Nat), NEW frames \in Seq(Frames),
         NEW p, StreamOK(w, got, frames, p),
         frames # <<>>, Head(frames).type = "data"
  PROVE  StreamOK(w, Append(got, Head(frames).item), Tail(frames), p)
<1> DEFINE n == Len(got)
           item == Head(frames).item
           then == Append(got, item)
           rest == Tail(frames)
<1>1. /\ Head(frames) = frames[1] /\ 1 \in 1..Len(frames) /\ Head(frames) \in Frames
      /\ rest \in Seq(Frames) /\ Len(rest) = Len(frames) - 1 /\ Len(frames) \in Nat
      /\ \A i \in 1..Len(rest) : i + 1 \in 1..Len(frames) /\ rest[i] = frames[i + 1]
  BY TailIs
<1>2. n \in Nat /\ n + 1 <= w /\ item = n + 1
  BY <1>1 DEF StreamOK
<1>3. /\ Len(then) = n + 1 /\ then[n + 1] = n + 1
      /\ \A i \in 1..n : then[i] = i
  BY <1>2, AppendIs DEF StreamOK
<1>4. /\ \A i \in 1..Len(then) : then[i] = i
      /\ w - Len(then) = (w - n) - 1
  BY <1>2, <1>3
<1> HIDE DEF n, item, then, rest
<1>5. Len(rest) \in {w - Len(then), w - Len(then) + 1}
  <2>1. Len(frames) = w - n \/ Len(frames) = w - n + 1
    BY DEF StreamOK, n
  <2> QED
    BY <1>1, <1>2, <1>3, <1>4, <2>1
<1>6. ASSUME NEW i \in 1..Len(rest)
      PROVE  /\ rest[i].type = "data" <=> i <= w - Len(then)
             /\ rest[i].type = "data" => rest[i].item = Len(then) + i
             /\ rest[i].type # "data" => p \in {"done", "over"}
             /\ rest[i].type = "complete" => w = Records /\ p = "done"
  <2>1. /\ i + 1 \in 1..Len(frames) /\ rest[i] = frames[i + 1]
        /\ i + 1 <= w - n <=> i <= w - Len(then)
        /\ n + (i + 1) = Len(then) + i
    BY <1>1, <1>2, <1>3, <1>4
  <2> QED
    BY <2>1 DEF StreamOK, n
<1>7. StreamOK(w, then, rest, p)
  BY <1>2, <1>3, <1>4, <1>5, <1>6 DEF StreamOK
<1> QED
  BY <1>7 DEF then, rest, item

(* The client reads the last frame.                                          *)
LEMMA EndIsRead ==
  ASSUME NEW w \in Nat, NEW got \in Seq(Nat), NEW frames \in Seq(Frames),
         NEW p, StreamOK(w, got, frames, p),
         frames # <<>>, Head(frames).type # "data"
  PROVE  /\ StreamOK(w, got, Tail(frames), p)
         /\ Head(frames).type = "complete" => Len(got) = Records /\ p = "done"
<1>1. /\ Head(frames) = frames[1] /\ 1 \in 1..Len(frames)
      /\ Len(Tail(frames)) = Len(frames) - 1 /\ Len(frames) \in Nat
      /\ Len(got) \in Nat
  BY TailIs
<1>2. ~ (1 <= w - Len(got))
  BY <1>1 DEF StreamOK
<1>3. Len(got) = w
  BY <1>1, <1>2 DEF StreamOK
<1>4. Len(frames) = 1 /\ Len(Tail(frames)) = 0
  BY <1>1, <1>3 DEF StreamOK
<1>5. StreamOK(w, got, Tail(frames), p)
  <2>1. /\ Len(got) <= w /\ w - Len(got) = 0
        /\ \A i \in 1..Len(got) : got[i] = i
    BY <1>1, <1>3 DEF StreamOK
  <2> DEFINE rest == Tail(frames)
  <2>2. Len(rest) = 0
    BY <1>4
  <2> HIDE DEF rest
  <2>3. \A i \in 1..Len(rest) : FALSE
    BY <2>2
  <2>4. StreamOK(w, got, rest, p)
    BY <2>1, <2>2, <2>3 DEF StreamOK
  <2> QED
    BY <2>4 DEF rest
<1>6. Head(frames).type = "complete" => w = Records /\ p = "done"
  BY <1>1 DEF StreamOK
<1> QED
  BY <1>3, <1>5, <1>6

(* A handler that has not ended puts a frame on the stream: its next record, *)
(* or, with its end, the last one.                                           *)
LEMMA FrameIsWritten ==
  ASSUME NEW w \in Nat, NEW got \in Seq(Nat), NEW frames \in Seq(Frames),
         NEW p, StreamOK(w, got, frames, p), p \notin {"done", "over"},
         NEW frame \in Frames, NEW p2, NEW w2 \in Nat,
         \/ /\ frame.type = "data" /\ frame.item = w + 1 /\ w2 = w + 1
         \/ /\ frame.type # "data" /\ w2 = w /\ p2 \in {"done", "over"}
            /\ frame.type = "complete" => w = Records /\ p2 = "done"
  PROVE  StreamOK(w2, got, Append(frames, frame), p2)
<1> DEFINE n == Len(got)
           then == Append(frames, frame)
<1>1. /\ n \in Nat /\ Len(frames) \in Nat
      /\ Len(then) = Len(frames) + 1 /\ then[Len(frames) + 1] = frame
      /\ \A i \in 1..Len(frames) : then[i] = frames[i]
  BY AppendIs
<1>2. \A i \in 1..Len(frames) : frames[i].type = "data"
  BY DEF StreamOK
<1>3. Len(frames) = w - n /\ n <= w
  <2>1. CASE Len(frames) = w - n + 1
    <3>1. Len(frames) \in 1..Len(frames)
      BY <1>1, <2>1 DEF StreamOK
    <3>2. Len(frames) <= w - n
      BY <1>2, <3>1 DEF StreamOK
    <3> QED
      BY <1>1, <2>1, <3>2
  <2>2. Len(frames) = w - n \/ Len(frames) = w - n + 1
    BY DEF StreamOK
  <2>3. n <= w
    BY DEF StreamOK
  <2> QED
    BY <2>1, <2>2, <2>3
<1> HIDE DEF n, then
<1>4. Len(then) \in {w2 - n, w2 - n + 1}
  BY <1>1, <1>3
<1>5. ASSUME NEW i \in 1..Len(then)
      PROVE  /\ then[i].type = "data" <=> i <= w2 - n
             /\ then[i].type = "data" => then[i].item = n + i
             /\ then[i].type # "data" => p2 \in {"done", "over"}
             /\ then[i].type = "complete" => w2 = Records /\ p2 = "done"
  <2>1. CASE i = Len(frames) + 1
    BY <1>1, <1>3, <2>1
  <2>2. CASE i \in 1..Len(frames)
    <3>1. then[i].type = "data" /\ then[i].item = n + i
      BY <1>1, <1>2, <2>2 DEF StreamOK, n
    <3>2. i <= w2 - n
      BY <1>1, <1>3, <2>2
    <3> QED
      BY <3>1, <3>2
  <2>3. i = Len(frames) + 1 \/ i \in 1..Len(frames)
    BY <1>1
  <2> QED
    BY <2>1, <2>2, <2>3
<1>6. StreamOK(w2, got, then, p2)
  BY <1>1, <1>3, <1>4, <1>5 DEF StreamOK, n
<1> QED
  BY <1>6 DEF then

(* The handler goes on, or ends without a frame.                             *)
LEMMA PhaseGoesOn ==
  ASSUME NEW w, NEW got, NEW frames, NEW p, NEW p2,
         StreamOK(w, got, frames, p), p \notin {"done", "over"}
  PROVE  StreamOK(w, got, frames, p2)
  BY DEF StreamOK

(* What the sink does not have yet is in the stream.                         *)
LEMMA NextStreamsOK ==
  ASSUME HttpInv, http!Next
  PROVE  StreamsOK'
<1> USE DEF HttpInv
<1>1. \A r \in Requests :
        /\ written[r] \in Nat /\ sink[r] \in Seq(Nat) /\ stream[r] \in Seq(Frames)
        /\ StreamOK(written[r], sink[r], stream[r], phase[r])
  BY ConnectorsAssumption DEF ClientTypeOK, HandlerTypeOK, StreamsOK
<1>2. ASSUME NEW r \in Requests,
             \A q \in Requests : q # r =>
               /\ written'[q] = written[q] /\ sink'[q] = sink[q]
               /\ stream'[q] = stream[q] /\ phase'[q] = phase[q],
             StreamOK(written'[r], sink'[r], stream'[r], phase'[r])
      PROVE  StreamsOK'
  BY <1>1, <1>2 DEF StreamsOK
<1>3. ASSUME NEW r \in Requests, http!ReadFrame(r)
      PROVE  StreamsOK'
  <2> DEFINE frame == Head(stream[r])
  <2>1. /\ stream[r] # <<>> /\ UNCHANGED <<written, phase>>
        /\ stream'[r] = Tail(stream[r])
        /\ \A q \in Requests : q # r => stream'[q] = stream[q] /\ sink'[q] = sink[q]
        /\ \/ frame.type = "data" /\ sink'[r] = Append(sink[r], frame.item)
           \/ frame.type # "data" /\ sink'[r] = sink[r]
    BY <1>3 DEF http!ReadFrame, ClientTypeOK, HandlerTypeOK
  <2>2. StreamOK(written[r], sink'[r], stream'[r], phase[r])
    BY <1>1, <2>1, RecordIsRead, EndIsRead
  <2> QED
    BY <1>2, <2>1, <2>2
<1>4. ASSUME NEW r \in Requests, http!Write(r)
      PROVE  StreamsOK'
  <2> DEFINE frame == [type |-> "data", item |-> written[r] + 1]
  <2>1. /\ phase[r] = "act" /\ UNCHANGED <<sink, phase>>
        /\ written'[r] = written[r] + 1
        /\ stream'[r] = Append(stream[r], frame)
        /\ \A q \in Requests : q # r => stream'[q] = stream[q] /\ written'[q] = written[q]
    BY <1>4 DEF http!Write, HandlerTypeOK, http!client
  <2>2. frame \in Frames /\ frame.type = "data" /\ frame.item = written[r] + 1
    BY <1>1 DEF Frames
  <2> HIDE DEF frame
  <2>3. written[r] + 1 \in Nat
    BY <1>1
  <2>4. StreamOK(written[r] + 1, sink[r], Append(stream[r], frame), phase[r])
    BY <1>1, <2>1, <2>2, <2>3, FrameIsWritten
  <2> QED
    BY <1>2, <2>1, <2>4
<1>5. ASSUME NEW r \in Requests, http!Return(r) \/ http!Throw(r)
      PROVE  StreamsOK'
  <2>1. /\ phase[r] = "act" /\ UNCHANGED <<sink, written>>
        /\ \A q \in Requests : q # r => stream'[q] = stream[q] /\ phase'[q] = phase[q]
        /\ phase'[r] \in {"done", "over"}
        /\ \/ stream'[r] = stream[r]
           \/ /\ stream'[r] = Append(stream[r], [type |-> "complete"])
              /\ written[r] = Records /\ phase'[r] = "done"
           \/ stream'[r] = Append(stream[r], [type |-> "error"])
    BY <1>5 DEF http!Return, http!Throw, HandlerTypeOK, http!client
  <2>2. CASE stream'[r] = stream[r]
    BY <1>1, <1>2, <2>1, <2>2, PhaseGoesOn
  <2>3. ASSUME NEW frame \in Frames, frame.type # "data",
               frame.type = "complete" => written[r] = Records /\ phase'[r] = "done",
               stream'[r] = Append(stream[r], frame)
        PROVE  StreamsOK'
    <3>1. StreamOK(written[r], sink[r], Append(stream[r], frame), phase'[r])
      BY <1>1, <2>1, <2>3, FrameIsWritten
    <3> QED
      BY <1>2, <2>1, <2>3, <3>1
  <2>4. /\ [type |-> "complete"] \in Frames /\ [type |-> "complete"].type # "data"
        /\ [type |-> "error"] \in Frames
        /\ [type |-> "error"].type # "data" /\ [type |-> "error"].type # "complete"
    BY DEF Frames
  <2> QED
    BY <2>1, <2>2, <2>3, <2>4
<1>6. ASSUME UNCHANGED <<written, sink, stream>>,
             \A q \in Requests : phase'[q] = phase[q] \/ phase[q] \notin {"done", "over"}
      PROVE  StreamsOK'
  BY <1>1, <1>6, PhaseGoesOn DEF StreamsOK
<1>7. ASSUME NEW r \in Requests, http!Refuse(r) \/ http!Act(r)
      PROVE  StreamsOK'
  BY <1>6, <1>7 DEF http!Refuse, http!Act, http!client, HandlerTypeOK
<1>8. CASE http!Remember
  BY <1>6, <1>8 DEF http!Remember, http!client, HandlerTypeOK, WritingOK
<1>9. CASE http!Crash
  BY <1>6, <1>9 DEF http!Crash, http!client, HandlerTypeOK
<1>10. CASE UNCHANGED <<written, sink, stream, phase>>
  BY <1>6, <1>10
<1> QED
  BY <1>3, <1>4, <1>5, <1>7, <1>8, <1>9, <1>10
  DEF http!Next, http!Send, http!Succeed, http!EndOfStream, http!Fail,
      http!Arrive, http!Look, http!LoadFails, http!AppendFails, http!Tick,
      http!client, http!handler

(* An answer tells what became of the request.                               *)
LEMMA NextAnswersOK ==
  ASSUME HttpInv, http!Next
  PROVE  AnswersOK'
<1> USE DEF HttpInv
<1>1. ASSUME NEW r \in Requests, NEW k \in http!Kinds, http!Send(r, k)
      PROVE  AnswersOK'
  <2>1. /\ UNCHANGED <<acted, sink>> /\ answer'[r] = "waiting"
        /\ \A q \in Requests : q # r => answer'[q] = answer[q] /\ sent'[q] = sent[q]
    BY <1>1 DEF http!Send, http!handler, ClientTypeOK
  <2> QED
    BY <2>1 DEF AnswersOK
<1>2. ASSUME NEW r \in Requests, http!Succeed(r)
      PROVE  AnswersOK'
  <2>1. /\ UNCHANGED <<acted, sink, sent>> /\ sent[r].kind = "erase"
        /\ phase[r] = "done"
        /\ \A q \in Requests : q # r => answer'[q] = answer[q]
        /\ answer'[r] = "ok"
    BY <1>2 DEF http!Succeed, http!handler, ClientTypeOK
  <2> QED
    BY <2>1 DEF AnswersOK, ActedOK
<1>3. ASSUME NEW r \in Requests, http!ReadFrame(r)
      PROVE  AnswersOK'
  <2> DEFINE frame == Head(stream[r])
  <2>1. /\ stream[r] # <<>> /\ UNCHANGED <<acted, sent>>
        /\ \A q \in Requests : q # r => answer'[q] = answer[q] /\ sink'[q] = sink[q]
        /\ \/ answer'[r] = "waiting"
           \/ answer'[r] = "failed"
           \/ frame.type = "complete" /\ answer'[r] = "complete" /\ sink'[r] = sink[r]
    BY <1>3 DEF http!ReadFrame, ClientTypeOK
  <2>2. frame.type = "complete" => Len(sink[r]) = Records /\ phase[r] = "done"
    <3>1. /\ written[r] \in Nat /\ sink[r] \in Seq(Nat) /\ stream[r] \in Seq(Frames)
          /\ StreamOK(written[r], sink[r], stream[r], phase[r])
      BY ConnectorsAssumption DEF StreamsOK, ClientTypeOK, HandlerTypeOK
    <3> SUFFICES ASSUME frame.type = "complete"
                 PROVE  Len(sink[r]) = Records /\ phase[r] = "done"
      OBVIOUS
    <3>2. frame.type # "data"
      OBVIOUS
    <3> QED
      BY <2>1, <3>1, <3>2, EndIsRead
  <2>3. answer'[r] = "complete" => acted[r] = 1 /\ Len(sink'[r]) = Records
    BY <2>1, <2>2 DEF ActedOK
  <2> QED
    BY <2>1, <2>3 DEF AnswersOK
<1>4. ASSUME NEW r \in Requests, http!EndOfStream(r) \/ http!Fail(r)
      PROVE  AnswersOK'
  BY <1>4 DEF http!EndOfStream, http!Fail, http!IsWhole, http!handler,
             ClientTypeOK, AnswersOK
<1>5. ASSUME NEW r \in Requests, http!Act(r)
      PROVE  AnswersOK'
  <2>1. /\ phase[r] = "run" /\ UNCHANGED <<answer, sent, sink>>
        /\ acted' = [acted EXCEPT ![r] = acted[r] + 1]
    BY <1>5 DEF http!Act, http!client
  <2>2. acted[r] = 0
    BY <2>1 DEF ActedOK
  <2> QED
    BY <2>1, <2>2 DEF AnswersOK, HandlerTypeOK
<1>6. CASE UNCHANGED <<answer, sent, sink, acted>>
  BY <1>6 DEF AnswersOK
<1> QED
  BY <1>1, <1>2, <1>3, <1>4, <1>5, <1>6
  DEF http!Next, http!Arrive, http!Refuse, http!Write, http!Return,
      http!Throw, http!Look, http!LoadFails, http!Remember, http!AppendFails,
      http!Crash, http!Tick, http!client, http!handler

-----------------------------------------------------------------------------
(* The HTTP adapter keeps the contract of a connector. *)

(* The answer as the contract has it.                                        *)
Shown == [r \in Requests |-> IF answer[r] = "complete" THEN "waiting" ELSE answer[r]]

(* A step of the protocol is a step of the contract, or none.                *)
LEMMA StepKeepsContract ==
  ASSUME HttpInv, http!Next
  PROVE  [http!Contract!Next]_<<Shown, acted>>
<1> USE DEF HttpInv, ClientTypeOK, HandlerTypeOK
<1>1. ASSUME NEW r \in Requests, NEW k \in http!Kinds, http!Send(r, k)
      PROVE  http!Contract!Make(r)
  <2>1. /\ answer[r] = "none" /\ UNCHANGED acted
        /\ answer' = [answer EXCEPT ![r] = "waiting"]
    BY <1>1 DEF http!Send, http!handler, SentOK
  <2>2. Shown[r] = "none"
    BY <2>1 DEF Shown
  <2>3. Shown' = [Shown EXCEPT ![r] = "waiting"]
    BY <2>1 DEF Shown
  <2> QED
    BY <2>1, <2>2, <2>3 DEF http!Contract!Make, Shown
<1>2. ASSUME NEW r \in Requests, http!Act(r)
      PROVE  http!Contract!Act(r)
  <2>1. /\ phase[r] = "run" /\ UNCHANGED answer
        /\ acted' = [acted EXCEPT ![r] = acted[r] + 1]
    BY <1>2 DEF http!Act, http!client
  <2>2. acted[r] = 0 /\ sent[r] # Null
    BY <2>1 DEF ActedOK, NoncesOK
  <2>3. acted' = [acted EXCEPT ![r] = 1]
    BY <2>1, <2>2
  <2>4. Shown[r] # "none" /\ UNCHANGED Shown
    BY <2>1, <2>2 DEF Shown, SentOK
  <2> QED
    BY <2>2, <2>3, <2>4 DEF http!Contract!Act, Shown
<1>3. ASSUME NEW r \in Requests,
             answer[r] \in {"waiting", "complete"}, UNCHANGED acted,
             \/ answer' = [answer EXCEPT ![r] = "failed"]
             \/ answer' = [answer EXCEPT ![r] = "ok"] /\ acted[r] = 1
      PROVE  http!Contract!Answer(r)
  <2>1. Shown[r] = "waiting"
    BY <1>3 DEF Shown
  <2>2. \/ Shown' = [Shown EXCEPT ![r] = "failed"]
        \/ Shown' = [Shown EXCEPT ![r] = "ok"] /\ acted[r] = 1
    BY <1>3 DEF Shown
  <2> QED
    BY <1>3, <2>1, <2>2 DEF http!Contract!Answer, Shown
<1>4. ASSUME NEW r \in Requests, http!Succeed(r)
      PROVE  http!Contract!Answer(r)
  <2>1. phase[r] = "done" => acted[r] = 1
    BY DEF ActedOK
  <2> QED
    BY <1>3, <1>4, <2>1 DEF http!Succeed, http!handler
<1>5. ASSUME NEW r \in Requests, http!EndOfStream(r)
      PROVE  http!Contract!Answer(r)
  <2>1. answer[r] = "complete" => acted[r] = 1
    BY DEF AnswersOK
  <2> QED
    BY <1>3, <1>5, <2>1 DEF http!EndOfStream, http!IsWhole, http!handler
<1>6. ASSUME NEW r \in Requests, http!Fail(r)
      PROVE  http!Contract!Answer(r)
  BY <1>3, <1>6 DEF http!Fail, http!handler
<1>7. ASSUME NEW r \in Requests, http!ReadFrame(r)
      PROVE  http!Contract!Answer(r) \/ UNCHANGED <<Shown, acted>>
  <2>1. answer[r] = "waiting" /\ UNCHANGED acted
    BY <1>7 DEF http!ReadFrame
  <2>2. CASE UNCHANGED answer
    BY <2>1, <2>2 DEF Shown
  <2>3. CASE answer' = [answer EXCEPT ![r] = "complete"]
    BY <2>1, <2>3 DEF Shown
  <2>4. CASE answer' = [answer EXCEPT ![r] = "failed"]
    BY <1>3, <2>1, <2>4
  <2> QED
    BY <1>7, <2>2, <2>3, <2>4 DEF http!ReadFrame
<1>8. CASE UNCHANGED <<answer, acted>>
  BY <1>8 DEF Shown
<1> QED
  BY <1>1, <1>2, <1>4, <1>5, <1>6, <1>7, <1>8
  DEF http!Next, http!Arrive, http!Refuse, http!Write, http!Return,
      http!Throw, http!Look, http!LoadFails, http!Remember, http!AppendFails,
      http!Crash, http!Tick, http!client, http!handler, http!Contract!Next

(* What holds of the adapter in the beginning, and goes on to hold.          *)
LEMMA InitHttpInv ==
  ASSUME http!Init
  PROVE  HttpInv
<1> USE DEF http!Init
<1>1. ClientTypeOK
  BY DEF ClientTypeOK, Answers
<1>2. StoreTypeOK
  <2>1. IsTimes(http!NoNonces)
    BY DEF IsTimes, http!NoNonces
  <2>2. queue \in Seq(Places)
    OBVIOUS
  <2> QED
    BY <2>1, <2>2 DEF StoreTypeOK
<1>3. HandlerTypeOK
  BY ConnectorsAssumption DEF HandlerTypeOK, Phases
<1>4. SentOK /\ QueueOK /\ NoncesOK /\ WritingOK /\ ActedOK
  BY DEF SentOK, QueueOK, NoncesOK, WritingOK, ActedOK
<1>5. StreamsOK /\ AnswersOK
  BY DEF StreamsOK, StreamOK, AnswersOK
<1> QED
  BY <1>1, <1>2, <1>3, <1>4, <1>5 DEF HttpInv

LEMMA NextHttpInv ==
  ASSUME HttpInv, [Next]_vars
  PROVE  HttpInv'
<1>1. CASE http!Next
  <2>1. ClientTypeOK' /\ StoreTypeOK' /\ HandlerTypeOK'
    BY <1>1, NextClientTypeOK, NextStoreTypeOK, NextHandlerTypeOK
  <2>2. SentOK' /\ QueueOK' /\ NoncesOK' /\ WritingOK' /\ ActedOK'
    BY <1>1, NextSentOK, NextQueueOK, NextNoncesOK, NextWritingOK, NextActedOK
  <2>3. StreamsOK' /\ AnswersOK'
    BY <1>1, NextStreamsOK, NextAnswersOK
  <2> QED
    BY <2>1, <2>2, <2>3 DEF HttpInv
<1>2. CASE UNCHANGED httpVars
  <2> USE <1>2 DEF httpVars
  <2>1. ClientTypeOK' = ClientTypeOK
    BY DEF ClientTypeOK
  <2>2. StoreTypeOK' = StoreTypeOK
    BY DEF StoreTypeOK, IsTimes
  <2>3. HandlerTypeOK' = HandlerTypeOK
    BY DEF HandlerTypeOK
  <2>4. SentOK' = SentOK /\ WritingOK' = WritingOK /\ ActedOK' = ActedOK
    BY DEF SentOK, WritingOK, ActedOK
  <2>5. QueueOK' = QueueOK /\ NoncesOK' = NoncesOK
    BY DEF QueueOK, NoncesOK, Limit, Passed
  <2>6. StreamsOK' = StreamsOK /\ AnswersOK' = AnswersOK
    BY DEF StreamsOK, AnswersOK
  <2> QED
    BY <2>1, <2>2, <2>3, <2>4, <2>5, <2>6 DEF HttpInv
<1> QED
  BY <1>1, <1>2 DEF Next, vars

(* A request acts at most once, and is answered ok only when it acted, for   *)
(* any number of requests, copies and crashes.                               *)
THEOREM TheContractIsKept == Spec => KeepsContract
<1>1. Init => HttpInv
  BY InitHttpInv DEF Init
<1>2. HttpInv /\ [Next]_vars => HttpInv'
  BY NextHttpInv
<1>3. Init => http!Contract!Init
  BY DEF Init, http!Init, http!Contract!Init
<1>4. HttpInv /\ [Next]_vars => [http!Contract!Next]_<<Shown, acted>>
  <2>1. UNCHANGED httpVars => UNCHANGED <<Shown, acted>>
    BY DEF httpVars, Shown
  <2> QED
    BY <2>1, StepKeepsContract DEF Next, vars
<1> QED
  BY <1>1, <1>2, <1>3, <1>4, PTL
  DEF Spec, KeepsContract, http!KeepsContract, http!Contract!Spec, Shown

-----------------------------------------------------------------------------
(* Items in order. *)

(* A set of naturals that is not empty has a least element.                  *)
LEMMA LeastNatural ==
  ASSUME NEW T \in SUBSET Nat, T # {}
  PROVE  \E x \in T : \A y \in T : x <= y
<1>1. PICK x \in T : \A y \in T : ~ (<<y, x>> \in OpToRel(<, Nat))
  BY NatLessThanWellFounded, WFMin
<1>2. ASSUME NEW y \in T
      PROVE  x <= y
  <2>1. x \in Nat /\ y \in Nat
    BY <1>1
  <2>2. ~ (y < x)
    BY <1>1, <2>1 DEF OpToRel
  <2> QED
    BY <2>1, <2>2
<1> QED
  BY <1>1, <1>2

(* A set with 0 and each successor of its elements has every natural number. *)
LEMMA AllNaturals ==
  ASSUME NEW T, 0 \in T, \A n \in Nat : n \in T => n + 1 \in T
  PROVE  \A n \in Nat : n \in T
<1> SUFFICES ASSUME Nat \ T # {} PROVE FALSE
  OBVIOUS
<1>1. PICK x \in Nat \ T : \A y \in Nat \ T : x <= y
  BY LeastNatural
<1>2. x # 0 /\ x \in Nat
  BY <1>1
<1>3. x - 1 \in Nat /\ x - 1 < x /\ (x - 1) + 1 = x
  BY <1>2
<1>4. x - 1 \in T
  BY <1>1, <1>3
<1> QED
  BY <1>1, <1>3, <1>4

(* The elements of a set, each once, in their order.                         *)
Ordered(s, S, n) ==
  /\ s \in [1..n -> S]
  /\ \A x \in S : \E i \in 1..n : s[i] = x
  /\ \A i, j \in 1..n : i < j => s[i] < s[j]

(* The elements of a finite set of naturals can be put in order.             *)
LEMMA OrderExists ==
  ASSUME NEW S \in SUBSET Nat, IsFiniteSet(S)
  PROVE  \E s : Ordered(s, S, Cardinality(S))
<1> DEFINE T == {n \in Nat : \A R \in SUBSET Nat :
                   IsFiniteSet(R) /\ Cardinality(R) = n => \E s : Ordered(s, R, n)}
<1>1. 0 \in T
  <2>1. ASSUME NEW R \in SUBSET Nat, IsFiniteSet(R), Cardinality(R) = 0
        PROVE  \E s : Ordered(s, R, 0)
    <3>1. R = {}
      BY <2>1, FS_EmptySet
    <3>2. Ordered([i \in 1..0 |-> 0], R, 0)
      BY <3>1 DEF Ordered
    <3> QED
      BY <3>2
  <2> QED
    BY <2>1
<1>2. ASSUME NEW n \in Nat, n \in T
      PROVE  n + 1 \in T
  <2>1. ASSUME NEW R \in SUBSET Nat, IsFiniteSet(R), Cardinality(R) = n + 1
        PROVE  \E s : Ordered(s, R, n + 1)
    <3>1. R # {}
      BY <2>1, FS_EmptySet
    <3>2. PICK x \in R : \A y \in R : x <= y
      BY <3>1, LeastNatural
    <3>3. IsFiniteSet(R \ {x}) /\ Cardinality(R \ {x}) = n
      BY <2>1, FS_RemoveElement
    <3>4. PICK f : Ordered(f, R \ {x}, n)
      BY <1>2, <3>3
    <3> DEFINE s == [i \in 1..n + 1 |-> IF i = 1 THEN x ELSE f[i - 1]]
    <3>5. \A i \in 1..n + 1 : i # 1 => i - 1 \in 1..n
      OBVIOUS
    <3>6. s \in [1..n + 1 -> R]
      BY <3>4, <3>5 DEF Ordered
    <3>7. ASSUME NEW y \in R
          PROVE  \E i \in 1..n + 1 : s[i] = y
      <4>1. CASE y = x
        <5>1. 1 \in 1..n + 1 /\ s[1] = y
          BY <4>1
        <5> QED
          BY <5>1
      <4>2. CASE y # x
        <5>1. PICK i \in 1..n : f[i] = y
          BY <3>4, <4>2 DEF Ordered
        <5>2. i + 1 \in 1..n + 1 /\ i + 1 # 1 /\ (i + 1) - 1 = i
          OBVIOUS
        <5>3. s[i + 1] = y
          BY <5>1, <5>2
        <5> QED
          BY <5>2, <5>3
      <4> QED
        BY <4>1, <4>2
    <3>8. ASSUME NEW i \in 1..n + 1, NEW j \in 1..n + 1, i < j
          PROVE  s[i] < s[j]
      <4>1. j # 1 /\ j - 1 \in 1..n /\ s[j] = f[j - 1]
        BY <3>8
      <4>2. CASE i = 1
        <5>1. s[i] = x /\ s[j] \in R \ {x}
          BY <3>4, <4>1, <4>2 DEF Ordered
        <5>2. x \in Nat /\ s[j] \in Nat /\ x <= s[j] /\ x # s[j]
          BY <3>2, <5>1
        <5> QED
          BY <5>1, <5>2
      <4>3. CASE i # 1
        <5>1. i - 1 \in 1..n /\ i - 1 < j - 1 /\ s[i] = f[i - 1]
          BY <3>8, <4>3
        <5> QED
          BY <3>4, <4>1, <5>1 DEF Ordered
      <4> QED
        BY <4>2, <4>3
    <3> HIDE DEF s
    <3>9. Ordered(s, R, n + 1)
      BY <3>6, <3>7, <3>8 DEF Ordered
    <3> QED
      BY <3>9
  <2>2. n + 1 \in Nat
    OBVIOUS
  <2> QED
    BY <2>1, <2>2
<1> HIDE DEF T
<1>3. \A n \in Nat : n \in T
  BY <1>1, <1>2, AllNaturals
<1>4. Cardinality(S) \in Nat
  BY FS_CardinalityType
<1> QED
  BY <1>3, <1>4 DEF T

(* InOrder is such an order.                                                 *)
LEMMA InOrderIs ==
  ASSUME NEW S \in SUBSET Names
  PROVE  /\ supabase!InOrder(S) \in Seq(S)
         /\ \A x : x \in S <=> Has(supabase!InOrder(S), x)
         /\ \A i, j \in 1..Len(supabase!InOrder(S)) :
              i < j => supabase!InOrder(S)[i] < supabase!InOrder(S)[j]
         /\ Distinct(supabase!InOrder(S))
<1> DEFINE n == Cardinality(S)
           s == supabase!InOrder(S)
<1>1. S \in SUBSET Nat /\ IsFiniteSet(S) /\ n \in Nat
  BY ConnectorsAssumption, FS_Subset, FS_CardinalityType
<1>2. PICK f : Ordered(f, S, n)
  BY <1>1, OrderExists
<1>3. /\ f \in [1..n -> S] /\ supabase!ToSet(f) = S
      /\ \A i, j \in 1..n : i < j => f[i] < f[j]
  BY <1>2 DEF Ordered, supabase!ToSet
<1>4. /\ s \in [1..n -> S] /\ supabase!ToSet(s) = S
      /\ \A i, j \in 1..n : i < j => s[i] < s[j]
  <2> DEFINE P(t) == /\ supabase!ToSet(t) = S
                     /\ \A i, j \in 1..n : i < j => t[i] < t[j]
  <2>1. s = CHOOSE t \in [1..n -> S] : P(t)
    BY DEF supabase!InOrder, supabase!Cardinality, Cardinality
  <2>2. \E t \in [1..n -> S] : P(t)
    BY <1>3
  <2> HIDE DEF P, s
  <2>3. s \in [1..n -> S] /\ P(s)
    BY <2>1, <2>2
  <2> QED
    BY <2>3 DEF P
<1> HIDE DEF s, n
<1>5. s \in Seq(S) /\ Len(s) = n
  BY <1>1, <1>4
<1>6. \A x : x \in S <=> Has(s, x)
  BY <1>4, <1>5 DEF Has, supabase!ToSet
<1>7. ASSUME NEW i \in 1..n, NEW j \in 1..n, s[i] = s[j]
      PROVE  i = j
  <2>1. s[i] \in Nat /\ s[j] \in Nat
    BY <1>1, <1>4
  <2>2. ~ (i < j) /\ ~ (j < i)
    BY <1>4, <1>7, <2>1
  <2> QED
    BY <2>2
<1>8. Distinct(s)
  BY <1>5, <1>7 DEF Distinct
<1> QED
  BY <1>4, <1>5, <1>6, <1>8 DEF s

-----------------------------------------------------------------------------
(* Pages. *)

(* What is a sequence of some things is a sequence of more things.           *)
LEMMA SeqOfSubset ==
  ASSUME NEW A, NEW B, A \subseteq B, NEW s \in Seq(A)
  PROVE  s \in Seq(B)
<1>1. s \in [1..Len(s) -> A] /\ Len(s) \in Nat
  OBVIOUS
<1>2. \A i \in 1..Len(s) : s[i] \in B
  BY <1>1
<1>3. s = [i \in 1..Len(s) |-> s[i]]
  BY <1>1
<1>4. s \in [1..Len(s) -> B]
  BY <1>2, <1>3
<1> QED
  BY <1>1, <1>4

(* The page of S beyond the cursor.                                          *)
PageOf(S, cursor) ==
  SubSeq(supabase!InOrder({n \in S : n > cursor}), 1,
    IF Len(supabase!InOrder({n \in S : n > cursor})) < Batch
    THEN Len(supabase!InOrder({n \in S : n > cursor}))
    ELSE Batch)

(* A page covers what lies beyond the cursor up to its last item, and        *)
(* everything when it is not full.                                           *)
Covers(S, cursor, names) ==
  /\ names \in Seq(Names) /\ Distinct(names)
  /\ names = <<>> => \A n \in S : n <= cursor
  /\ names # <<>> =>
       /\ supabase!Last(names) \in Names
       /\ \A n \in Names : Has(names, n) =>
            n > cursor /\ n <= supabase!Last(names)
       /\ \A n \in S : n > cursor => n > supabase!Last(names) \/ Has(names, n)
       /\ Len(names) < Batch => \A n \in S : n <= supabase!Last(names)

(* The page that is listed covers its part.                                  *)
LEMMA PageCovers ==
  ASSUME NEW S \in SUBSET Names, NEW cursor \in Nat
  PROVE  Covers(S, cursor, PageOf(S, cursor))
<1> DEFINE names == PageOf(S, cursor)
<1> DEFINE R == {n \in S : n > cursor}
           rest == supabase!InOrder(R)
           m == IF Len(rest) < Batch THEN Len(rest) ELSE Batch
<1>1. /\ rest \in Seq(R) /\ Distinct(rest)
      /\ \A x : x \in R <=> Has(rest, x)
      /\ \A i, j \in 1..Len(rest) : i < j => rest[i] < rest[j]
  BY InOrderIs
<1>2. names = SubSeq(rest, 1, m)
  BY DEF PageOf
<1>3. R \in SUBSET Names /\ \A n \in Names : n \in Nat
  BY ConnectorsAssumption
<1>4. /\ R = {n \in S : n > cursor} /\ Batch \in Nat \ {0}
  BY ConnectorsAssumption
<1> SUFFICES Covers(S, cursor, names)
  OBVIOUS
<1> HIDE DEF R, rest, names
<1>11. rest \in Seq(R) /\ Len(rest) \in Nat
  BY <1>1
<1>12. ASSUME NEW i \in 1..Len(rest)
       PROVE  rest[i] \in R /\ rest[i] \in Names /\ rest[i] \in Nat
  <2>1. rest[i] \in R
    BY <1>11
  <2> QED
    BY <1>3, <2>1
<1>5. m \in 0..Len(rest) /\ Len(rest) \in Nat /\ m <= Batch
  BY <1>1, <1>4
<1>6. /\ names \in Seq(R) /\ Len(names) = m
      /\ \A i \in 1..m : names[i] = rest[i]
  <2> HIDE DEF m
  <2>1. \A i \in 1..m : rest[i] \in R
    BY <1>5, <1>12
  <2>2. /\ SubSeq(rest, 1, m) \in Seq(R)
        /\ Len(SubSeq(rest, 1, m)) = IF 1 <= m THEN m - 1 + 1 ELSE 0
        /\ \A i \in 1..m - 1 + 1 : SubSeq(rest, 1, m)[i] = rest[1 + i - 1]
    BY <1>5, <2>1, SubSeqProperties
  <2>3. m \in Nat /\ (IF 1 <= m THEN m - 1 + 1 ELSE 0) = m
    BY <1>5
  <2>4. \A i \in 1..m : i \in 1..m - 1 + 1 /\ 1 + i - 1 = i
    BY <1>5
  <2>5. Len(names) = m
    BY <1>2, <2>2, <2>3
  <2>6. \A i \in 1..m : names[i] = rest[i]
    BY <1>2, <2>2, <2>4
  <2> QED
    BY <1>2, <2>2, <2>5, <2>6
<1>7. m < Batch => m = Len(rest)
  BY <1>4
<1> HIDE DEF m
<1>8. names \in Seq(Names) /\ Distinct(names)
  <2>2. names \in Seq(Names)
    BY <1>3, <1>6, SeqOfSubset
  <2>3. Distinct(names)
    BY <1>1, <1>5, <1>6 DEF Distinct
  <2> QED
    BY <2>2, <2>3
<1>9. CASE names = <<>>
  <2>1. Len(rest) = 0
    <3>1. m = 0
      BY <1>6, <1>9
    <3> QED
      BY <1>4, <1>7, <3>1
  <2>2. R = {}
    BY <1>1, <2>1 DEF Has
  <2>3. \A n \in S : n <= cursor
    BY <1>3, <1>4, <2>2
  <2> QED
    BY <1>8, <1>9, <2>3 DEF Covers
<1>10. CASE names # <<>>
  <2> DEFINE last == supabase!Last(names)
  <2>1. m \in 1..Len(rest) /\ last = rest[m] /\ last = names[m]
    BY <1>5, <1>6, <1>10 DEF supabase!Last
  <2> HIDE DEF last
  <2>2. last \in R /\ last \in Nat
    BY <1>12, <2>1
  <2>3. ASSUME NEW n \in Names, Has(names, n)
        PROVE  n > cursor /\ n <= last
    <3>1. PICK i \in 1..m : names[i] = n
      BY <1>6, <2>3 DEF Has
    <3>2. n \in R /\ n = rest[i] /\ i \in 1..Len(rest)
      BY <1>5, <1>6, <1>12, <3>1
    <3>5. n \in Nat /\ n > cursor
      BY <1>3, <1>4, <3>2
    <3>3. ASSUME i < m
          PROVE  n < last
      <4>1. rest[i] < rest[m]
        BY <1>1, <2>1, <3>2, <3>3
      <4> QED
        BY <2>1, <3>2, <4>1
    <3>4. ASSUME i = m
          PROVE  n = last
      BY <2>1, <3>2, <3>4
    <3>6. i < m \/ i = m
      <4>1. m \in Nat
        BY <1>5
      <4> QED
        BY <4>1
    <3>7. n <= last
      BY <2>2, <3>3, <3>4, <3>5, <3>6
    <3> QED
      BY <3>5, <3>7
  <2>4. ASSUME NEW n \in S, n > cursor
        PROVE  /\ n > last \/ Has(names, n)
               /\ m < Batch => Has(names, n)
    <3>1. n \in R
      BY <1>4, <2>4
    <3>2. PICK i \in 1..Len(rest) : rest[i] = n
      BY <1>1, <3>1 DEF Has
    <3>3. CASE i <= m
      <4>1. i \in 1..m /\ names[i] = n
        BY <1>5, <1>6, <3>2, <3>3
      <4>2. Has(names, n)
        BY <1>6, <4>1 DEF Has
      <4> QED
        BY <4>2
    <3>4. CASE m < i
      <4>1. rest[m] < rest[i]
        BY <1>1, <2>1, <3>4
      <4>2. ~ (m < Batch)
        BY <1>5, <1>7, <3>4
      <4>3. last < n /\ last \in Nat /\ n \in Nat
        BY <1>3, <2>1, <2>2, <3>1, <3>2, <4>1
      <4> QED
        BY <4>2, <4>3
    <3> QED
      BY <1>5, <3>3, <3>4
  <2>5. ASSUME m < Batch, NEW n \in S
        PROVE  n <= last
    <3>1. n \in Nat /\ n \in Names /\ last \in Nat /\ last > cursor
      BY <1>3, <1>4, <2>2
    <3>2. CASE n > cursor
      BY <2>3, <2>4, <2>5, <3>1, <3>2
    <3>3. CASE n <= cursor
      BY <3>1, <3>3
    <3> QED
      BY <3>1, <3>2, <3>3
  <2>6. last \in Names
    BY <1>3, <2>2
  <2> QED
    BY <1>6, <1>8, <1>10, <2>3, <2>4, <2>5, <2>6 DEF last, Covers
<1> QED
  BY <1>9, <1>10
-----------------------------------------------------------------------------
(* The sweep of a call. *)

(* Nothing is on an empty sequence.                                          *)
LEMMA NothingIsOnNone == Distinct(<<>>) /\ \A n : ~Has(<<>>, n)
<1>1. 1..Len(<<>>) = {}
  OBVIOUS
<1> QED
  BY <1>1 DEF Distinct, Has

(* What is on a sequence is its head, or on its tail.                        *)
LEMMA TailHas ==
  ASSUME NEW S, NEW q \in Seq(S), q # <<>>, Distinct(q)
  PROVE  /\ Distinct(Tail(q))
         /\ \A n : Has(q, n) <=> n = Head(q) \/ Has(Tail(q), n)
         /\ ~Has(Tail(q), Head(q))
<1>1. /\ Head(q) = q[1] /\ 1 \in 1..Len(q) /\ Len(q) \in Nat
      /\ Len(Tail(q)) = Len(q) - 1
      /\ \A i \in 1..Len(Tail(q)) : i + 1 \in 1..Len(q) /\ Tail(q)[i] = q[i + 1]
  BY TailIs
<1> DEFINE t == Tail(q)
           h == Head(q)
<1> HIDE DEF t, h
<1>2. /\ h = q[1] /\ Len(t) = Len(q) - 1
      /\ \A i \in 1..Len(t) : i + 1 \in 1..Len(q) /\ t[i] = q[i + 1]
  BY <1>1 DEF t, h
<1>3. ASSUME NEW i \in 1..Len(t), NEW j \in 1..Len(t), t[i] = t[j]
      PROVE  i = j
  <2>1. i + 1 = j + 1
    BY <1>2, <1>3 DEF Distinct
  <2> QED
    BY <2>1
<1>4. ASSUME NEW n, Has(q, n), n # h
      PROVE  Has(t, n)
  <2>1. PICK i \in 1..Len(q) : q[i] = n
    BY <1>4 DEF Has
  <2>2. i # 1
    BY <1>2, <1>4, <2>1
  <2>3. i - 1 \in 1..Len(t) /\ (i - 1) + 1 = i
    BY <1>1, <1>2, <2>2
  <2>4. t[i - 1] = n
    BY <1>2, <2>1, <2>3
  <2> QED
    BY <2>3, <2>4 DEF Has
<1>5. ASSUME NEW n, Has(t, n)
      PROVE  Has(q, n) /\ n # h
  <2>1. PICK i \in 1..Len(t) : t[i] = n
    BY <1>5 DEF Has
  <2>2. i + 1 \in 1..Len(q) /\ q[i + 1] = n /\ i + 1 # 1
    BY <1>2, <2>1
  <2> QED
    BY <1>1, <1>2, <2>2 DEF Has, Distinct
<1>6. Has(q, h)
  BY <1>1, <1>2 DEF Has
<1> QED
  BY <1>3, <1>4, <1>5, <1>6 DEF Distinct, t, h

(* What is on a sequence with one element more.                              *)
LEMMA AppendHas ==
  ASSUME NEW S, NEW q \in Seq(S), NEW e \in S
  PROVE  /\ \A n : Has(Append(q, e), n) <=> Has(q, n) \/ n = e
         /\ Distinct(q) /\ ~Has(q, e) => Distinct(Append(q, e))
<1> DEFINE a == Append(q, e)
<1>1. /\ Len(a) = Len(q) + 1 /\ Len(q) \in Nat
      /\ a[Len(q) + 1] = e
      /\ \A i \in 1..Len(q) : a[i] = q[i]
  BY AppendIs
<1> HIDE DEF a
<1>2. \A i \in 1..Len(a) : i \in 1..Len(q) \/ i = Len(q) + 1
  BY <1>1
<1>3. \A i \in 1..Len(q) : i \in 1..Len(a)
  BY <1>1
<1>4. Len(q) + 1 \in 1..Len(a)
  BY <1>1
<1>5. \A n : Has(a, n) <=> Has(q, n) \/ n = e
  BY <1>1, <1>2, <1>3, <1>4 DEF Has
<1>6. Distinct(q) /\ ~Has(q, e) => Distinct(a)
  BY <1>1, <1>2 DEF Distinct, Has
<1> QED
  BY <1>5, <1>6 DEF a

(* Less that stayed is covered too.                                          *)
LEMMA SweepShrinks ==
  ASSUME NEW stayed, NEW fewer \in SUBSET stayed, NEW cursor, NEW names,
         NEW last, NEW handled, SweepOK(stayed, cursor, names, last, handled)
  PROVE  SweepOK(fewer, cursor, names, last, handled)
  BY DEF SweepOK

(* A call has everything beyond the cursor when it begins.                   *)
LEMMA SweepBegins ==
  ASSUME NEW S \in SUBSET Names, NEW last
  PROVE  SweepOK(S, 0, <<>>, last, <<>>)
<1>1. \A n \in S : n > 0
  BY ConnectorsAssumption
<1> QED
  BY <1>1, NothingIsOnNone DEF SweepOK

(* With no page left, a page is listed, and the cursor moves to its end.     *)
LEMMA SweepTurns ==
  ASSUME NEW S \in SUBSET Names, NEW stayed \in SUBSET S, NEW cursor \in Nat,
         NEW handled, NEW ended, SweepOK(stayed, cursor, <<>>, ended, handled),
         PageOf(S, cursor) # <<>>
  PROVE  /\ SweepOK(stayed, supabase!Last(PageOf(S, cursor)), PageOf(S, cursor),
                    supabase!IsLast(PageOf(S, cursor)), handled)
         /\ supabase!Last(PageOf(S, cursor)) \in Nat
         /\ PageOf(S, cursor) \in Seq(Names)
<1> DEFINE names == PageOf(S, cursor)
           last == supabase!Last(names)
<1>1. /\ names \in Seq(Names) /\ Distinct(names)
      /\ last \in Names
      /\ \A n \in Names : Has(names, n) => n > cursor /\ n <= last
      /\ \A n \in S : n > cursor => n > last \/ Has(names, n)
      /\ Len(names) < Batch => \A n \in S : n <= last
  BY PageCovers DEF Covers
<1>2. Has(names, last)
  <2>1. Len(names) \in 1..Len(names) /\ last = names[Len(names)]
    BY <1>1 DEF supabase!Last
  <2> QED
    BY <2>1 DEF Has
<1>3. \A n \in Names : n \in Nat
  BY ConnectorsAssumption
<1> HIDE DEF names, last
<1>4. last \in Nat /\ cursor < last
  BY <1>1, <1>2, <1>3
<1>5. /\ Distinct(handled)
      /\ \A n \in Names : Has(handled, n) => n <= cursor
      /\ \A n \in stayed : n > cursor \/ Has(handled, n)
  BY NothingIsOnNone DEF SweepOK
<1>6. ASSUME NEW n \in Names, Has(names, n)
      PROVE  n <= last /\ ~Has(handled, n)
  <2>1. n > cursor /\ n <= last /\ n \in Nat
    BY <1>1, <1>3, <1>6
  <2> QED
    BY <1>5, <2>1
<1>7. ASSUME NEW n \in Names, Has(handled, n)
      PROVE  n <= last
  <2>1. n <= cursor /\ n \in Nat
    BY <1>3, <1>5, <1>7
  <2> QED
    BY <1>4, <2>1
<1>8. \A n \in stayed : n > last \/ Has(names, n) \/ Has(handled, n)
  BY <1>1, <1>5
<1>9. SweepOK(stayed, last, names, supabase!IsLast(names), handled)
  BY <1>1, <1>5, <1>6, <1>7, <1>8 DEF SweepOK, supabase!IsLast
<1> QED
  BY <1>1, <1>4, <1>9 DEF names, last

(* With nothing to list, everything that stayed was handled.                 *)
LEMMA SweepEnds ==
  ASSUME NEW S \in SUBSET Names, NEW stayed \in SUBSET S, NEW cursor \in Nat,
         NEW handled, NEW ended, SweepOK(stayed, cursor, <<>>, ended, handled),
         PageOf(S, cursor) = <<>>
  PROVE  \A n \in stayed : Has(handled, n)
<1>1. \A n \in S : n <= cursor
  BY PageCovers DEF Covers
<1>2. ASSUME NEW n \in stayed
      PROVE  Has(handled, n)
  <2>1. n \in Nat /\ n <= cursor
    BY <1>1, ConnectorsAssumption
  <2>2. ~ (n > cursor)
    BY <2>1
  <2> QED
    BY <2>2, NothingIsOnNone DEF SweepOK
<1> QED
  BY <1>2

(* The next object of the page is exported.                                  *)
LEMMA PageGoesOn ==
  ASSUME NEW stayed \in SUBSET Names, NEW cursor \in Nat,
         NEW names \in Seq(Names), NEW last, NEW handled \in Seq(Names),
         SweepOK(stayed, cursor, names, last, handled), names # <<>>
  PROVE  LET more == Append(handled, Head(names)) IN
         /\ SweepOK(stayed, cursor, Tail(names), last, more)
         /\ last /\ Tail(names) = <<>> => \A n \in stayed : Has(more, n)
<1> DEFINE h == Head(names)
           t == Tail(names)
           more == Append(handled, h)
<1>1. h \in Names /\ t \in Seq(Names)
  BY TailIs
<1>2. /\ Distinct(names) /\ Distinct(handled)
      /\ \A n \in Names : Has(names, n) => n <= cursor /\ ~Has(handled, n)
      /\ \A n \in Names : Has(handled, n) => n <= cursor
      /\ \A n \in stayed : n > cursor \/ Has(names, n) \/ Has(handled, n)
      /\ last => \A n \in stayed : n <= cursor
  BY DEF SweepOK
<1>3. /\ Distinct(t) /\ ~Has(t, h)
      /\ \A n : Has(names, n) <=> n = h \/ Has(t, n)
  BY <1>2, TailHas
<1>4. /\ \A n : Has(more, n) <=> Has(handled, n) \/ n = h
      /\ Distinct(handled) /\ ~Has(handled, h) => Distinct(more)
  BY <1>1, AppendHas
<1> HIDE DEF h, t, more
<1>5. Distinct(more)
  BY <1>1, <1>2, <1>3, <1>4
<1>6. SweepOK(stayed, cursor, t, last, more)
  BY <1>1, <1>2, <1>3, <1>4, <1>5 DEF SweepOK
<1>7. ASSUME last, t = <<>>, NEW n \in stayed
      PROVE  Has(more, n)
  <2>1. n \in Nat /\ n <= cursor
    BY <1>2, <1>7, ConnectorsAssumption
  <2>2. ~ (n > cursor)
    BY <2>1
  <2> QED
    BY <1>2, <1>3, <1>4, <1>7, <2>2, NothingIsOnNone
<1> QED
  BY <1>6, <1>7 DEF h, t, more

-----------------------------------------------------------------------------
(* The steps of the Supabase connector. *)

(* What leaves the subject leaves what stayed too.                           *)
LEMMA LeaveIs ==
  ASSUME SupabaseTypeOK, NEW gone, supabase!Leave(gone)
  PROVE  /\ items' = items \ gone /\ items' \subseteq Names
         /\ steady' \in [Calls -> SUBSET Names]
         /\ \A c \in Calls : steady'[c] = steady[c] \ gone
         /\ \A c \in Calls : steady[c] \subseteq items => steady'[c] \subseteq items'
  BY DEF supabase!Leave, SupabaseTypeOK

(* The values of the variables.                                              *)
LEMMA NextSupabaseTypeOK ==
  ASSUME SupabaseInv, supabase!Next
  PROVE  SupabaseTypeOK'
<1>1. SupabaseTypeOK
  BY DEF SupabaseInv
<1>2. CASE \E n \in Names : supabase!Upload(n)
  BY <1>1, <1>2 DEF SupabaseTypeOK, supabase!Upload, supabase!sweep
<1>3. ASSUME NEW gone, supabase!Leave(gone), UNCHANGED <<kind, after, exported>>,
             outcome' \in [Calls -> {"none", "running", "ok", "failed"}],
             page' \in [Calls -> Seq(Names)], UNCHANGED ends
      PROVE  SupabaseTypeOK'
  BY <1>1, <1>3, LeaveIs DEF SupabaseTypeOK
<1>4. \A c \in Calls, o \in {"ok", "failed"} :
        [outcome EXCEPT ![c] = o] \in [Calls -> {"none", "running", "ok", "failed"}]
  BY <1>1 DEF SupabaseTypeOK
<1>5. CASE \E n \in Names : supabase!Withdraw(n)
  BY <1>1, <1>3, <1>5 DEF SupabaseTypeOK, supabase!Withdraw, supabase!sweep
<1>6. ASSUME NEW c \in Calls, supabase!EraseTable(c) \/ supabase!EraseUser(c)
      PROVE  SupabaseTypeOK'
  <2>1. /\ supabase!Leave(items) /\ UNCHANGED <<kind, after, page, ends, exported>>
        /\ outcome' \in {[outcome EXCEPT ![c] = o] : o \in {"ok", "failed"}}
    BY <1>6 DEF supabase!EraseTable, supabase!EraseUser, supabase!sweep
  <2>2. outcome' \in [Calls -> {"none", "running", "ok", "failed"}]
    BY <1>4, <2>1
  <2>3. page' \in [Calls -> Seq(Names)] /\ UNCHANGED ends
    BY <1>1, <2>1 DEF SupabaseTypeOK
  <2> QED
    BY <1>3, <2>1, <2>2, <2>3
<1>7. ASSUME NEW c \in Calls, supabase!DeletePage(c)
      PROVE  SupabaseTypeOK'
  <2>1. page' \in [Calls -> Seq(Names)] /\ UNCHANGED <<kind, after, ends, exported>>
    BY <1>1, <1>7 DEF SupabaseTypeOK, supabase!DeletePage
  <2>2. outcome' \in [Calls -> {"none", "running", "ok", "failed"}]
    BY <1>1, <1>4, <1>7 DEF SupabaseTypeOK, supabase!DeletePage, supabase!PageDone
  <2> QED
    BY <1>3, <1>7, <2>1, <2>2 DEF supabase!DeletePage
<1>8. ASSUME NEW c \in Calls, supabase!DeletePageFails(c)
      PROVE  SupabaseTypeOK'
  BY <1>1, <1>3, <1>4, <1>8
  DEF SupabaseTypeOK, supabase!DeletePageFails, supabase!sweep
<1>9. ASSUME NEW c \in Calls, NEW k \in supabase!CallKinds, supabase!Begin(c, k)
      PROVE  SupabaseTypeOK'
  BY <1>1, <1>9 DEF SupabaseTypeOK, supabase!Begin, supabase!sweep
<1>10. ASSUME NEW c \in Calls, supabase!Fail(c) \/ supabase!Verify(c)
       PROVE  SupabaseTypeOK'
  BY <1>1, <1>10 DEF SupabaseTypeOK, supabase!Fail, supabase!Verify, supabase!sweep
<1>11. ASSUME NEW c \in Calls, supabase!ExportTable(c) \/ supabase!ExportUser(c)
       PROVE  SupabaseTypeOK'
  <2>1. supabase!InOrder(items) \in Seq(Names)
    BY <1>1, InOrderIs, SeqOfSubset DEF SupabaseTypeOK
  <2> QED
    BY <1>1, <1>11, <2>1
    DEF SupabaseTypeOK, supabase!ExportTable, supabase!ExportUser, supabase!sweep
<1>12. ASSUME NEW c \in Calls, supabase!List(c)
       PROVE  SupabaseTypeOK'
  <2> DEFINE names == PageOf(items, after[c])
  <2>1. \/ /\ outcome' = [outcome EXCEPT ![c] = "ok"]
           /\ UNCHANGED <<after, page, ends>>
        \/ /\ names # <<>>
           /\ page' = [page EXCEPT ![c] = names]
           /\ after' = [after EXCEPT ![c] = supabase!Last(names)]
           /\ ends' = [ends EXCEPT ![c] = supabase!IsLast(names)]
           /\ UNCHANGED outcome
    BY <1>12 DEF supabase!List, supabase!Beyond, PageOf, supabase!sweep
  <2>2. names # <<>> => names \in Seq(Names) /\ supabase!Last(names) \in Nat
    BY <1>1, PageCovers, ConnectorsAssumption DEF Covers, SupabaseTypeOK
  <2>3. supabase!IsLast(names) \in BOOLEAN
    BY DEF supabase!IsLast
  <2>4. UNCHANGED <<items, kind, exported, steady>>
    BY <1>12 DEF supabase!List
  <2> HIDE DEF names
  <2>5. /\ outcome' \in [Calls -> {"none", "running", "ok", "failed"}]
        /\ page' \in [Calls -> Seq(Names)] /\ after' \in [Calls -> Nat]
        /\ ends' \in [Calls -> BOOLEAN]
    BY <1>1, <2>1, <2>2, <2>3 DEF SupabaseTypeOK
  <2> QED
    BY <1>1, <2>4, <2>5 DEF SupabaseTypeOK
<1>13. ASSUME NEW c \in Calls, supabase!Download(c)
       PROVE  SupabaseTypeOK'
  <2>1. page[c] \in Seq(Names) /\ page[c] # <<>> /\ exported[c] \in Seq(Names)
    BY <1>1, <1>13 DEF SupabaseTypeOK, supabase!Download
  <2>2. /\ Tail(page[c]) \in Seq(Names)
        /\ Append(exported[c], Head(page[c])) \in Seq(Names)
    BY <2>1, TailIs, AppendIs
  <2>3. /\ page' = [page EXCEPT ![c] = Tail(page[c])]
        /\ exported' = [exported EXCEPT ![c] = Append(exported[c], Head(page[c]))]
        /\ UNCHANGED <<items, kind, after, ends, steady>>
    BY <1>13 DEF supabase!Download
  <2>4. outcome' \in [Calls -> {"none", "running", "ok", "failed"}]
    BY <1>1, <1>4, <1>13 DEF SupabaseTypeOK, supabase!Download, supabase!PageDone
  <2> QED
    BY <1>1, <2>2, <2>3, <2>4 DEF SupabaseTypeOK
<1> QED
  BY <1>2, <1>5, <1>6, <1>7, <1>8, <1>9, <1>10, <1>11, <1>12, <1>13
  DEF supabase!Next

(* A call whose own state does not change: what stayed may become less.      *)
Keeps(c) ==
  /\ steady'[c] \subseteq steady[c] /\ steady'[c] \subseteq items'
  /\ kind'[c] = kind[c] /\ outcome'[c] = outcome[c] /\ after'[c] = after[c]
  /\ page'[c] = page[c] /\ ends'[c] = ends[c] /\ exported'[c] = exported[c]

LEMMA CallGoesOn ==
  ASSUME NEW c \in Calls, CallOK(c), Keeps(c)
  PROVE  CallOK(c)'
<1>1. outcome[c] = "running" =>
        SweepOK(steady'[c], after'[c], page'[c], ends'[c], exported'[c])
  BY SweepShrinks DEF CallOK, Keeps
<1> QED
  BY <1>1 DEF CallOK, Keeps

(* What is known of the calls goes on to hold.                               *)
LEMMA NextCallOK ==
  ASSUME SupabaseInv, supabase!Next, NEW d \in Calls
  PROVE  CallOK(d)'
<1>1. /\ SupabaseTypeOK /\ CallOK(d) /\ steady[d] \subseteq items
      /\ items \subseteq Names /\ steady[d] \subseteq Names
      /\ after[d] \in Nat /\ page[d] \in Seq(Names) /\ exported[d] \in Seq(Names)
  BY DEF SupabaseInv, CallOK, SupabaseTypeOK
<1>2. ASSUME NEW n \in Names, supabase!Upload(n)
      PROVE  CallOK(d)'
  <2>1. Keeps(d)
    BY <1>1, <1>2 DEF Keeps, supabase!Upload, supabase!sweep
  <2> QED
    BY <1>1, <2>1, CallGoesOn
<1>3. ASSUME NEW gone, supabase!Leave(gone), UNCHANGED <<kind, exported>>,
             outcome'[d] = outcome[d], page'[d] = page[d],
             after'[d] = after[d], ends'[d] = ends[d]
      PROVE  CallOK(d)'
  <2>1. steady'[d] \subseteq steady[d] /\ steady'[d] \subseteq items'
    BY <1>1, <1>3, LeaveIs
  <2>2. Keeps(d)
    BY <1>3, <2>1 DEF Keeps
  <2> QED
    BY <1>1, <2>2, CallGoesOn
<1>4. ASSUME NEW n \in Names, supabase!Withdraw(n)
      PROVE  CallOK(d)'
  BY <1>3, <1>4 DEF supabase!Withdraw, supabase!sweep
<1>5. ASSUME NEW c \in Calls, NEW k \in supabase!CallKinds, supabase!Begin(c, k)
      PROVE  CallOK(d)'
  <2>1. /\ outcome[c] = "none" /\ UNCHANGED <<items, after, page, ends, exported>>
        /\ kind' = [kind EXCEPT ![c] = k]
        /\ outcome' = [outcome EXCEPT ![c] = "running"]
        /\ steady' = [steady EXCEPT ![c] = items]
    BY <1>5 DEF supabase!Begin, supabase!sweep
  <2>2. CASE d = c
    <3>1. /\ after'[d] = 0 /\ page'[d] = <<>> /\ exported'[d] = <<>>
          /\ outcome'[d] = "running" /\ steady'[d] = items' /\ items' = items
      BY <1>1, <2>1, <2>2 DEF CallOK, SupabaseTypeOK
    <3>2. SweepOK(steady'[d], after'[d], page'[d], ends'[d], exported'[d])
      BY <1>1, <3>1, SweepBegins
    <3> QED
      BY <3>1, <3>2 DEF CallOK
  <2>3. CASE d # c
    <3>1. Keeps(d)
      BY <1>1, <2>1, <2>3 DEF Keeps, SupabaseTypeOK
    <3> QED
      BY <1>1, <3>1, CallGoesOn
  <2> QED
    BY <2>2, <2>3
<1>6. ASSUME NEW c \in Calls, supabase!Fail(c) \/ supabase!Verify(c)
      PROVE  CallOK(d)'
  <2>1. /\ UNCHANGED <<items, kind, after, page, ends, exported, steady>>
        /\ \/ outcome' = [outcome EXCEPT ![c] = "failed"]
           \/ kind[c] = "verify" /\ outcome' = [outcome EXCEPT ![c] = "ok"]
    BY <1>6 DEF supabase!Fail, supabase!Verify, supabase!sweep, supabase!Runs
  <2>2. CASE d = c
    BY <1>1, <2>1, <2>2 DEF CallOK, SupabaseTypeOK
  <2>3. CASE d # c
    <3>1. Keeps(d)
      BY <1>1, <2>1, <2>3 DEF Keeps, SupabaseTypeOK
    <3> QED
      BY <1>1, <3>1, CallGoesOn
  <2> QED
    BY <2>2, <2>3
<1>7. ASSUME NEW c \in Calls, supabase!EraseTable(c) \/ supabase!EraseUser(c)
      PROVE  CallOK(d)'
  <2>1. /\ supabase!Leave(items) /\ UNCHANGED <<kind, after, page, ends, exported>>
        /\ kind[c] = "erase"
        /\ \E o \in {"ok", "failed"} : outcome' = [outcome EXCEPT ![c] = o]
    BY <1>7 DEF supabase!EraseTable, supabase!EraseUser, supabase!sweep, supabase!Runs
  <2>2. CASE d = c
    <3>1. steady'[d] = {}
      BY <1>1, <2>1, LeaveIs
    <3>2. outcome'[d] \in {"ok", "failed"} /\ kind'[d] = "erase"
      BY <1>1, <2>1, <2>2 DEF SupabaseTypeOK
    <3> QED
      BY <3>1, <3>2 DEF CallOK
  <2>3. CASE d # c
    BY <1>1, <1>3, <2>1, <2>3 DEF SupabaseTypeOK
  <2> QED
    BY <2>2, <2>3
<1>8. ASSUME NEW c \in Calls, supabase!ExportTable(c) \/ supabase!ExportUser(c)
      PROVE  CallOK(d)'
  <2>1. /\ UNCHANGED <<items, kind, after, page, ends, steady>> /\ kind[c] = "export"
        /\ exported' = [exported EXCEPT ![c] = supabase!InOrder(items)]
        /\ outcome' = [outcome EXCEPT ![c] = "ok"]
    BY <1>8 DEF supabase!ExportTable, supabase!ExportUser, supabase!sweep, supabase!Runs
  <2>2. CASE d = c
    <3>1. /\ \A n : n \in items <=> Has(supabase!InOrder(items), n)
          /\ Distinct(supabase!InOrder(items))
      BY <1>1, InOrderIs
    <3>2. /\ exported'[d] = supabase!InOrder(items) /\ outcome'[d] = "ok"
          /\ kind'[d] = "export" /\ steady'[d] = steady[d] /\ items' = items
      BY <1>1, <2>1, <2>2 DEF SupabaseTypeOK
    <3> QED
      BY <1>1, <3>1, <3>2 DEF CallOK
  <2>3. CASE d # c
    <3>1. Keeps(d)
      BY <1>1, <2>1, <2>3 DEF Keeps, SupabaseTypeOK
    <3> QED
      BY <1>1, <3>1, CallGoesOn
  <2> QED
    BY <2>2, <2>3
<1>9. ASSUME NEW c \in Calls, supabase!List(c)
      PROVE  CallOK(d)'
  <2> DEFINE names == PageOf(items, after[c])
  <2>1. /\ \/ /\ names = <<>>
              /\ outcome' = [outcome EXCEPT ![c] = "ok"]
              /\ UNCHANGED <<after, page, ends>>
           \/ /\ names # <<>>
              /\ page' = [page EXCEPT ![c] = names]
              /\ after' = [after EXCEPT ![c] = supabase!Last(names)]
              /\ ends' = [ends EXCEPT ![c] = supabase!IsLast(names)]
              /\ UNCHANGED outcome
        /\ UNCHANGED <<items, kind, exported, steady>>
        /\ outcome[c] = "running" /\ page[c] = <<>>
        /\ kind[c] \in {"erase", "export"}
    BY <1>9 DEF supabase!List, supabase!Beyond, PageOf, supabase!sweep
  <2>2. CASE d # c
    <3> HIDE DEF names
    <3>1. Keeps(d)
      BY <1>1, <2>1, <2>2 DEF Keeps, SupabaseTypeOK
    <3> QED
      BY <1>1, <3>1, CallGoesOn
  <2>3. CASE d = c
    <3>1. /\ SweepOK(steady[d], after[d], <<>>, ends[d], exported[d])
          /\ kind[d] # "export" => exported[d] = <<>>
      BY <1>1, <2>1, <2>3 DEF CallOK
    <3>2. CASE names = <<>>
      <4>1. \A n \in steady[d] : Has(exported[d], n)
        BY <1>1, <2>3, <3>1, <3>2, SweepEnds
      <4>2. kind[d] = "erase" => steady[d] = {}
        BY <3>1, <4>1, NothingIsOnNone
      <4>3. /\ outcome'[d] = "ok" /\ kind'[d] = kind[d] /\ items' = items
            /\ steady'[d] = steady[d] /\ exported'[d] = exported[d]
        BY <1>1, <2>1, <2>3, <3>2 DEF SupabaseTypeOK
      <4>4. Distinct(exported[d])
        BY <3>1 DEF SweepOK
      <4> QED
        BY <1>1, <4>1, <4>2, <4>3, <4>4 DEF CallOK
    <3>3. CASE names # <<>>
      <4>1. SweepOK(steady[d], supabase!Last(names), names,
                    supabase!IsLast(names), exported[d])
        BY <1>1, <2>3, <3>1, <3>3, SweepTurns
      <4> HIDE DEF names
      <4>2. /\ outcome'[d] = "running" /\ kind'[d] = kind[d] /\ items' = items
            /\ steady'[d] = steady[d] /\ exported'[d] = exported[d]
            /\ page'[d] = names /\ after'[d] = supabase!Last(names)
            /\ ends'[d] = supabase!IsLast(names)
        BY <1>1, <2>1, <2>3, <3>3 DEF SupabaseTypeOK
      <4>3. SweepOK(steady'[d], after'[d], page'[d], ends'[d], exported'[d])
        BY <4>1, <4>2
      <4> QED
        BY <1>1, <3>1, <4>2, <4>3 DEF CallOK
    <3> QED
      BY <3>2, <3>3
  <2> QED
    BY <2>2, <2>3
<1>10. ASSUME NEW c \in Calls, supabase!DeletePage(c)
       PROVE  CallOK(d)'
  <2> DEFINE gone == supabase!ToSet(page[c])
  <2>1. /\ outcome[c] = "running" /\ kind[c] = "erase" /\ page[c] # <<>>
        /\ supabase!Leave(gone) /\ page' = [page EXCEPT ![c] = <<>>]
        /\ outcome' = IF ends[c] THEN [outcome EXCEPT ![c] = "ok"] ELSE outcome
        /\ UNCHANGED <<kind, after, ends, exported>>
    BY <1>10 DEF supabase!DeletePage, supabase!PageDone, supabase!Runs
  <2>2. CASE d # c
    <3>1. outcome'[d] = outcome[d] /\ page'[d] = page[d]
      BY <1>1, <2>1, <2>2 DEF SupabaseTypeOK
    <3> QED
      BY <1>3, <2>1, <3>1
  <2>3. CASE d = c
    <3>1. /\ SweepOK(steady[d], after[d], page[d], ends[d], exported[d])
          /\ exported[d] = <<>> /\ page[d] # <<>>
      BY <1>1, <2>1, <2>3 DEF CallOK
    <3>2. \A n \in Names : Has(page[d], n) => n \in gone
      BY <1>1, <2>3 DEF Has, supabase!ToSet
    <3> HIDE DEF gone
    <3>7. \A n \in steady[d] \ gone : n \in Names /\ n > after[d]
      BY <1>1, <3>1, <3>2, NothingIsOnNone DEF SweepOK
    <3>8. ASSUME ends[d], NEW n \in steady[d] \ gone
          PROVE  FALSE
      <4>1. n <= after[d]
        BY <3>1, <3>8 DEF SweepOK
      <4>2. n \in Nat /\ n > after[d]
        BY <3>7, ConnectorsAssumption
      <4> QED
        BY <1>1, <4>1, <4>2
    <3>9. SweepOK(steady[d] \ gone, after[d], <<>>, ends[d], exported[d])
      BY <3>1, <3>7, NothingIsOnNone DEF SweepOK
    <3>3. ends[d] => steady[d] \ gone = {}
      BY <3>8
    <3>4. steady'[d] = steady[d] \ gone /\ steady'[d] \subseteq items'
      BY <1>1, <2>1, LeaveIs
    <3>5. /\ page'[d] = <<>> /\ kind'[d] = "erase" /\ exported'[d] = <<>>
          /\ after'[d] = after[d] /\ ends'[d] = ends[d]
          /\ outcome'[d] = IF ends[d] THEN "ok" ELSE "running"
      BY <1>1, <2>1, <2>3, <3>1 DEF SupabaseTypeOK
    <3>6. SweepOK(steady'[d], after'[d], page'[d], ends'[d], exported'[d])
      BY <3>1, <3>4, <3>5, <3>9
    <3> QED
      BY <3>3, <3>4, <3>5, <3>6 DEF CallOK
  <2> QED
    BY <2>2, <2>3
<1>11. ASSUME NEW c \in Calls, supabase!DeletePageFails(c)
       PROVE  CallOK(d)'
  <2>1. PICK gone \in SUBSET supabase!ToSet(page[c]) : supabase!Leave(gone)
    BY <1>11 DEF supabase!DeletePageFails
  <2>2. /\ outcome' = [outcome EXCEPT ![c] = "failed"]
        /\ UNCHANGED <<kind, after, page, ends, exported>>
    BY <1>11 DEF supabase!DeletePageFails, supabase!sweep
  <2>3. CASE d # c
    BY <1>1, <1>3, <2>1, <2>2, <2>3 DEF SupabaseTypeOK
  <2>4. CASE d = c
    <3>1. steady'[d] \subseteq items' /\ outcome'[d] = "failed"
      BY <1>1, <2>1, <2>2, <2>4, LeaveIs DEF SupabaseTypeOK
    <3> QED
      BY <3>1 DEF CallOK
  <2> QED
    BY <2>3, <2>4
<1>12. ASSUME NEW c \in Calls, supabase!Download(c)
       PROVE  CallOK(d)'
  <2> DEFINE more == Append(exported[c], Head(page[c]))
             left == Tail(page[c])
  <2>1. /\ outcome[c] = "running" /\ kind[c] = "export" /\ page[c] # <<>>
        /\ exported' = [exported EXCEPT ![c] = more]
        /\ page' = [page EXCEPT ![c] = left]
        /\ outcome' = IF left = <<>> /\ ends[c]
                      THEN [outcome EXCEPT ![c] = "ok"] ELSE outcome
        /\ UNCHANGED <<items, kind, after, ends, steady>>
    BY <1>12 DEF supabase!Download, supabase!PageDone, supabase!Runs
  <2>2. CASE d # c
    <3> HIDE DEF more, left
    <3>1. Keeps(d)
      BY <1>1, <2>1, <2>2 DEF Keeps, SupabaseTypeOK
    <3> QED
      BY <1>1, <3>1, CallGoesOn
  <2>3. CASE d = c
    <3>1. SweepOK(steady[d], after[d], page[d], ends[d], exported[d])
      BY <1>1, <2>1, <2>3 DEF CallOK
    <3>2. /\ SweepOK(steady[d], after[d], left, ends[d], more)
          /\ ends[d] /\ left = <<>> => \A n \in steady[d] : Has(more, n)
      BY <1>1, <2>1, <2>3, <3>1, PageGoesOn
    <3> HIDE DEF more, left
    <3>3. /\ page'[d] = left /\ kind'[d] = "export" /\ exported'[d] = more
          /\ after'[d] = after[d] /\ ends'[d] = ends[d] /\ steady'[d] = steady[d]
          /\ outcome'[d] = IF left = <<>> /\ ends[d] THEN "ok" ELSE "running"
          /\ items' = items
      BY <1>1, <2>1, <2>3 DEF SupabaseTypeOK
    <3>4. SweepOK(steady'[d], after'[d], page'[d], ends'[d], exported'[d])
      BY <3>2, <3>3
    <3>5. Distinct(more)
      BY <3>2 DEF SweepOK
    <3> QED
      BY <1>1, <3>2, <3>3, <3>4, <3>5 DEF CallOK
  <2> QED
    BY <2>2, <2>3
<1> QED
  BY <1>2, <1>4, <1>5, <1>6, <1>7, <1>8, <1>9, <1>10, <1>11, <1>12
  DEF supabase!Next

(* What holds of the Supabase connector in the beginning, and goes on to     *)
(* hold.                                                                     *)
LEMMA InitSupabaseInv ==
  ASSUME supabase!Init
  PROVE  SupabaseInv
<1>1. SupabaseTypeOK
  BY DEF SupabaseTypeOK, supabase!Init, supabase!CallKinds
<1>2. ASSUME NEW c \in Calls
      PROVE  CallOK(c)
  BY DEF CallOK, supabase!Init
<1> QED
  BY <1>1, <1>2 DEF SupabaseInv

LEMMA NextSupabaseInv ==
  ASSUME SupabaseInv, [Next]_vars
  PROVE  SupabaseInv'
<1>1. CASE supabase!Next
  BY <1>1, NextSupabaseTypeOK, NextCallOK DEF SupabaseInv
<1>2. CASE UNCHANGED supabaseVars
  <2> USE <1>2 DEF supabaseVars
  <2>1. SupabaseTypeOK' = SupabaseTypeOK
    BY DEF SupabaseTypeOK
  <2>2. \A c \in Calls : CallOK(c)' = CallOK(c)
    BY DEF CallOK
  <2> QED
    BY <2>1, <2>2 DEF SupabaseInv
<1> QED
  BY <1>1, <1>2 DEF Next, vars

-----------------------------------------------------------------------------
(* The theorems about both connectors. *)

(* What each connector knows of its state holds whichever one the resource   *)
(* belongs to.                                                               *)
THEOREM ConnectorsInvariant == Spec => [](HttpInv /\ SupabaseInv)
<1>1. Init => HttpInv /\ SupabaseInv
  BY InitHttpInv, InitSupabaseInv DEF Init
<1>2. HttpInv /\ SupabaseInv /\ [Next]_vars => (HttpInv /\ SupabaseInv)'
  BY NextHttpInv, NextSupabaseInv
<1> QED
  BY <1>1, <1>2, PTL DEF Spec

(* An export that succeeds has every frame of the stream, or every item that *)
(* stayed, once: for any number of records, items and calls, and any size of *)
(* a page.                                                                   *)
THEOREM ExportsAreWholeAlways == Spec => []ExportsAreWhole
<1>1. HttpInv => http!ExportsAreWhole
  <2> SUFFICES ASSUME HttpInv, NEW r \in Requests,
                      answer[r] = "ok", sent[r].kind = "export"
               PROVE  sink[r] = [i \in 1..Records |-> i]
    BY DEF http!ExportsAreWhole
  <2>1. /\ Len(sink[r]) = Records /\ sink[r] \in Seq(Nat)
        /\ \A i \in 1..Len(sink[r]) : sink[r][i] = i
    BY DEF HttpInv, AnswersOK, StreamsOK, StreamOK, ClientTypeOK
  <2>2. sink[r] = [i \in 1..Len(sink[r]) |-> sink[r][i]]
    BY <2>1
  <2> QED
    BY <2>1, <2>2
<1>2. SupabaseInv => supabase!ExportsAreWhole
  <2> SUFFICES ASSUME SupabaseInv, NEW c \in Calls,
                      kind[c] = "export", outcome[c] = "ok"
               PROVE  /\ steady[c] \subseteq supabase!ToSet(exported[c])
                      /\ supabase!IsInjective(exported[c])
    BY DEF supabase!ExportsAreWhole
  <2>1. /\ \A n \in steady[c] : Has(exported[c], n)
        /\ Distinct(exported[c]) /\ exported[c] \in Seq(Names)
    BY DEF SupabaseInv, CallOK, SupabaseTypeOK
  <2>2. DOMAIN exported[c] = 1..Len(exported[c])
    BY <2>1
  <2> QED
    BY <2>1, <2>2 DEF Has, Distinct, supabase!ToSet, supabase!IsInjective
<1> QED
  BY <1>1, <1>2, ConnectorsInvariant, PTL DEF ExportsAreWhole

(* An erasure by the Supabase connector that succeeds leaves nothing that    *)
(* was there when it began and stayed, whatever comes, goes and is deleted   *)
(* by another call meanwhile.                                                *)
THEOREM ErasuresAreWholeAlways == Spec => []ErasuresAreWhole
<1>1. SupabaseInv => ErasuresAreWhole
  BY DEF SupabaseInv, CallOK, ErasuresAreWhole, supabase!ErasuresAreWhole
<1> QED
  BY <1>1, ConnectorsInvariant, PTL

=============================================================================
