----------------------------- MODULE HttpAdapter -----------------------------
(***************************************************************************)
(* The HTTP adapter protocol: the agent's client, a network that loses,    *)
(* delays and duplicates requests, and the adapter of the TypeScript SDK   *)
(* with its persistent nonce store, which may crash at any moment.         *)
(*                                                                         *)
(* A request is known by its nonce.  Signatures, sizes and routes refuse a *)
(* request before anything happens and are left out; a status that is not  *)
(* a success, a broken connection and an unusable body are one answer,     *)
(* failed, whatever their kind.  The client has the adapter's clock: one   *)
(* that is behind only shortens the life of its requests.                  *)
(***************************************************************************)
EXTENDS Naturals, Sequences

CONSTANTS
  Requests,   \* nonces of requests
  Null,       \* no request
  Window,     \* ADAPTER_ACCEPTANCE_WINDOW_MS
  Records,    \* how many records an export has
  MaxCopies,  \* bound: copies of a request that arrive
  MaxTime     \* bound: the clock

VARIABLES
  now,      \* the clock of the adapter
  sent,     \* request -> its kind and timestamp, or Null
  answer,   \* request -> what the client knows of it
  sink,     \* request -> the records that the client wrote into its sink
  copies,   \* request -> how many copies of it arrived
  queue,    \* FileNonceStore.queue: requests with the time they arrived
  writing,  \* whether the first of the queue is being appended to the file
  nonces,   \* FileNonceStore.nonces: nonce -> when it may be forgotten
  loaded,   \* FileNonceStore.loaded
  file,     \* the nonces in the file, with the same times
  torn,     \* whether the file has a line that cannot be read
  phase,    \* request -> where its handler is
  written,  \* request -> how many records its export wrote
  stream,   \* request -> the frames the client has not read yet
  acted     \* history: how often the handler of a request was called

vars == <<now, sent, answer, sink, copies, queue, writing, nonces, loaded,
          file, torn, phase, written, stream, acted>>
client  == <<sent, answer, sink>>
store   == <<queue, writing, nonces, loaded, file, torn>>
handler == <<phase, written, stream, acted>>

Kinds   == {"erase", "export"}
SentRows == [kind : Kinds, stamp : Nat]
NoNonces == [r \in {} |-> 0]
Later(f, r, time) == [q \in DOMAIN f \cup {r} |-> IF q = r THEN time ELSE f[q]]

Init ==
  /\ now = 0
  /\ sent = [r \in Requests |-> Null]
  /\ answer = [r \in Requests |-> "none"]
  /\ sink = [r \in Requests |-> <<>>]
  /\ copies = [r \in Requests |-> 0]
  /\ queue = <<>>
  /\ writing = FALSE
  /\ nonces = NoNonces
  /\ loaded = FALSE
  /\ file = NoNonces
  /\ torn = FALSE
  /\ phase = [r \in Requests |-> "idle"]
  /\ written = [r \in Requests |-> 0]
  /\ stream = [r \in Requests |-> <<>>]
  /\ acted = [r \in Requests |-> 0]

-----------------------------------------------------------------------------
(* The client. *)

\* AdapterHttpConnector.send.
Send(r, kind) ==
  /\ sent[r] = Null
  /\ sent' = [sent EXCEPT ![r] = [kind |-> kind, stamp |-> now]]
  /\ answer' = [answer EXCEPT ![r] = "waiting"]
  /\ UNCHANGED <<now, sink, copies, store, handler>>

\* The answer to an erasure is a success with a body.
Succeed(r) ==
  /\ answer[r] = "waiting"
  /\ sent[r].kind = "erase"
  /\ phase[r] = "done"
  /\ answer' = [answer EXCEPT ![r] = "ok"]
  /\ UNCHANGED <<now, sent, sink, copies, store, handler>>

\* read_export_frames, for one frame.  A frame after the complete one, which
\* this adapter never sends, would be refused.
ReadFrame(r) ==
  /\ answer[r] = "waiting"
  /\ stream[r] # <<>>
  /\ LET frame == Head(stream[r])
     IN \/ /\ frame.type = "data"
           /\ sink' = [sink EXCEPT ![r] = Append(@, frame.item)]
           /\ UNCHANGED answer
        \/ /\ frame.type \in {"complete", "error"}
           /\ answer' = [answer EXCEPT ![r] =
                           IF frame.type = "error" THEN "failed"
                           ELSE "complete"]
           /\ UNCHANGED sink
  /\ stream' = [stream EXCEPT ![r] = Tail(@)]
  /\ UNCHANGED <<now, sent, copies, store, phase, written, acted>>

\* The stream is at its end, because the adapter closed it or the connection
\* was cut: it was whole if it was complete.
IsWhole(r) == answer[r] = "complete"

EndOfStream(r) ==
  /\ sent[r] # Null /\ sent[r].kind = "export"
  /\ answer[r] \in {"waiting", "complete"}
  /\ answer' = [answer EXCEPT ![r] = IF IsWhole(r) THEN "ok" ELSE "failed"]
  /\ UNCHANGED <<now, sent, sink, copies, store, handler>>

\* No answer that the client can use: a refusal, an error of the handler, a
\* broken connection, a body that is cut, malformed or too large.
Fail(r) ==
  /\ answer[r] \in {"waiting", "complete"}
  /\ answer' = [answer EXCEPT ![r] = "failed"]
  /\ UNCHANGED <<now, sent, sink, copies, store, handler>>

-----------------------------------------------------------------------------
(* The adapter: verifyAdapterSignature and the nonce store. *)

InWindow(r) == now - sent[r].stamp <= Window

\* A copy of the request arrives in time: its place in the queue of the store
\* is taken at once, with the time that was read.
Arrive(r) ==
  /\ sent[r] # Null
  /\ copies[r] < MaxCopies
  /\ InWindow(r)
  /\ queue' = Append(queue, [id |-> r, at |-> now])
  /\ copies' = [copies EXCEPT ![r] = @ + 1]
  /\ UNCHANGED <<now, client, writing, nonces, loaded, file, torn, handler>>

\* A wrong version: a nonce is forgotten at the end of its window, when a
\* request of that age is still accepted.
BadIsKept(expires, at) == expires > at

IsKept(expires, at) == expires >= at

\* consumeExclusive up to the file: load, purge and look.  A file that cannot
\* be read fails this request and every later one.
Look ==
  /\ queue # <<>> /\ ~writing
  /\ loaded \/ ~torn
  /\ LET known == IF loaded THEN nonces ELSE file
         kept  == {r \in DOMAIN known : IsKept(known[r], Head(queue).at)}
     IN /\ nonces' = [r \in kept |-> known[r]]
        /\ writing' = (Head(queue).id \notin kept)
        /\ queue' = IF Head(queue).id \in kept THEN Tail(queue) ELSE queue
  /\ loaded' = TRUE
  /\ UNCHANGED <<now, client, copies, file, torn, handler>>

LoadFails ==
  /\ queue # <<>> /\ ~writing
  /\ ~loaded /\ torn
  /\ queue' = Tail(queue)
  /\ UNCHANGED <<now, client, copies, writing, nonces, loaded, file, torn,
                 handler>>

Expiry == Head(queue).at + Window

\* The line is appended and synced, the nonce remembered, and the request
\* goes to its handler.
Remember ==
  /\ writing
  /\ file' = Later(file, Head(queue).id, Expiry)
  /\ nonces' = Later(nonces, Head(queue).id, Expiry)
  /\ phase' = [phase EXCEPT ![Head(queue).id] = "run"]
  /\ queue' = Tail(queue)
  /\ writing' = FALSE
  /\ UNCHANGED <<now, client, copies, loaded, torn, written, stream, acted>>

\* The file cannot be opened, written or synced: the line may be there, or a
\* part of it.
AppendFails ==
  /\ writing
  /\ \/ UNCHANGED <<file, torn>>
     \/ file' = Later(file, Head(queue).id, Expiry) /\ UNCHANGED torn
     \/ torn' = TRUE /\ UNCHANGED file
  /\ queue' = Tail(queue)
  /\ writing' = FALSE
  /\ UNCHANGED <<now, client, copies, nonces, loaded, handler>>

-----------------------------------------------------------------------------
(* The adapter: the handlers. *)

\* A request that does not parse, a dry run, a resource without the capability.
\* EraseRequestSchema is strict, and AdapterHttpConnector repeats the resource
\* in the plan: its erasures end here, those of a client that fits do not.
Refuse(r) ==
  /\ phase[r] = "run"
  /\ phase' = [phase EXCEPT ![r] = "over"]
  /\ UNCHANGED <<now, client, copies, store, written, stream, acted>>

\* The handler of the resource is called.
Act(r) ==
  /\ phase[r] = "run"
  /\ phase' = [phase EXCEPT ![r] = "act"]
  /\ acted' = [acted EXCEPT ![r] = @ + 1]
  /\ UNCHANGED <<now, client, copies, store, written, stream>>

\* The handler of an export writes its next record.
Write(r) ==
  /\ phase[r] = "act" /\ sent[r].kind = "export"
  /\ written[r] < Records
  /\ written' = [written EXCEPT ![r] = @ + 1]
  /\ stream' = [stream EXCEPT ![r] =
                  Append(@, [type |-> "data", item |-> written[r] + 1])]
  /\ UNCHANGED <<now, client, copies, store, phase, acted>>

\* The handler returns a result that fits the request.
Return(r) ==
  /\ phase[r] = "act"
  /\ phase' = [phase EXCEPT ![r] = "done"]
  /\ \/ sent[r].kind = "erase" /\ UNCHANGED stream
     \/ /\ sent[r].kind = "export" /\ written[r] = Records
        /\ stream' = [stream EXCEPT ![r] = Append(@, [type |-> "complete"])]
  /\ UNCHANGED <<now, client, copies, store, written, acted>>

\* The handler throws, or returns the key of another operation or no count,
\* whatever it did until then; an export ends with an error frame.
Throw(r) ==
  /\ phase[r] = "act"
  /\ phase' = [phase EXCEPT ![r] = "over"]
  /\ \/ sent[r].kind = "erase" /\ UNCHANGED stream
     \/ /\ sent[r].kind = "export"
        /\ stream' = [stream EXCEPT ![r] = Append(@, [type |-> "error"])]
  /\ UNCHANGED <<now, client, copies, store, written, acted>>

\* The adapter ends and starts again: what it keeps in memory is gone, and a
\* line that was being appended is there, or not, or in part.
Crash ==
  /\ queue' = <<>>
  /\ writing' = FALSE
  /\ nonces' = NoNonces
  /\ loaded' = FALSE
  /\ \/ UNCHANGED <<file, torn>>
     \/ writing /\ file' = Later(file, Head(queue).id, Expiry) /\ UNCHANGED torn
     \/ writing /\ torn' = TRUE /\ UNCHANGED file
  /\ phase' = [r \in Requests |-> IF phase[r] \in {"run", "act"} THEN "over"
                                  ELSE phase[r]]
  /\ UNCHANGED <<now, client, copies, written, stream, acted>>

Tick ==
  /\ now < MaxTime
  /\ now' = now + 1
  /\ UNCHANGED <<client, copies, store, handler>>

-----------------------------------------------------------------------------

Next ==
  \/ \E r \in Requests, kind \in Kinds : Send(r, kind)
  \/ \E r \in Requests :
        \/ Succeed(r) \/ ReadFrame(r) \/ EndOfStream(r) \/ Fail(r)
        \/ Arrive(r)
        \/ Refuse(r) \/ Act(r) \/ Write(r) \/ Return(r) \/ Throw(r)
  \/ Look \/ LoadFails \/ Remember \/ AppendFails
  \/ Crash
  \/ Tick

Spec == Init /\ [][Next]_vars

-----------------------------------------------------------------------------
(* Properties. *)

(* The protocol keeps what the runner relies on: a request acts at most once *)
(* and is answered ok only when it acted, however often the network repeats  *)
(* it at any age that is still accepted, and whenever the adapter restarts.  *)
Contract == INSTANCE ConnectorCall WITH
  Calls  <- Requests,
  answer <- [r \in Requests |->
               IF answer[r] = "complete" THEN "waiting" ELSE answer[r]],
  acted  <- acted

KeepsContract == Contract!Spec

(* An export that is answered ok has all its records in the sink, in order   *)
(* and once, whatever the stream, the handler and the adapter went through.  *)
ExportsAreWhole ==
  \A r \in Requests :
    answer[r] = "ok" /\ sent[r].kind = "export" =>
      sink[r] = [i \in 1..Records |-> i]

=============================================================================
