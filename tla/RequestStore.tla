---------------------------- MODULE RequestStore ----------------------------
(***************************************************************************)
(* PrivacyRequestRepository.save and the tables it writes.  Several        *)
(* aggregates in memory may stand for one stored request: copies that were *)
(* created or loaded by different handlers.  Commands move a copy and      *)
(* leave an event on it; save writes the copy back in one transaction,     *)
(* whose statements are separate steps between which other handlers run,   *)
(* fail or die.                                                            *)
(*                                                                         *)
(* Copies move by the moves of module RequestMoves, which the aggregate of *)
(* module PrivacyRequest implements.  An attempt is told apart by its number and  *)
(* the copy that opened it (attempt ids are unique).  An event is the      *)
(* version it made and the status it left.  All requests belong to one     *)
(* environment, the scope of an audit chain.  An audit row's hash covers   *)
(* its content and its predecessor's hash; here it is its sequence number, *)
(* which a unique index keeps distinct, and prev is the hash it was        *)
(* chained to, 0 for none.  The outbox row written beside each audit row   *)
(* carries the same id and event and needs no variable of its own.         *)
(***************************************************************************)
EXTENDS RequestMoves

CONSTANTS
  Requests,            \* request ids
  Copies,              \* aggregates that handlers hold, each used once
  Saves,               \* concurrent calls of save
  Null,                \* no copy, no save
  Planned,             \* a request whose planning was stored before, or Null
  MaxVersion,          \* bound: the largest version of each request
  CommandsDuringSave   \* whether handlers command a copy that is being saved

ASSUME RequestStoreAssumption ==
  /\ Null \notin Requests
  /\ Planned \in Requests \cup {Null}
  /\ MaxVersion \in [Requests -> Nat]
  /\ Planned # Null => MaxVersion[Planned] >= 3
  /\ CommandsDuringSave \in BOOLEAN

VARIABLES
  copies,    \* copy -> the aggregate, or Null before its use and after
  unused,    \* the copies no handler has taken yet
  saves,     \* call of save -> its captured values and its progress, or Null
  rows,      \* privacy_requests: version 0 is no row yet; history is not a
             \* column but the attempts the aggregate had at that version
  attempts,  \* execution_attempts of a request, by number
  audit,     \* audit_events, in the order of their commits
  head       \* the environment's row of audit_chain_heads

vars == <<copies, unused, saves, rows, attempts, audit, head>>

-----------------------------------------------------------------------------
(* Copies in memory.                                                       *)

Live(c) == copies[c] # Null

BeingSaved(c) == \E x \in Saves : saves[x] # Null /\ saves[x].copy = c

\* The aggregate as the lifecycle sees it.
Lifecycle(agg) ==
  [status   |-> agg.status,
   attempts |-> [n \in DOMAIN agg.attempts |-> agg.attempts[n].status]]

\* Every operator named Bad... is a wrong version of the next one: a slip that
\* some property must notice.

\* The attempts of a copy that moved to r: those r adds were opened by c.
MovedAttempts(c, agg, r) ==
  [n \in DOMAIN r.attempts |->
     [by |-> IF n \in DOMAIN agg.attempts THEN agg.attempts[n].by ELSE c,
      status |-> r.attempts[n]]]

\* PrivacyRequestAggregate.create: version 1 and one event.
Create(c, q) ==
  /\ c \in unused
  /\ MaxVersion[q] > 0
  /\ unused' = unused \ {c}
  /\ copies' = [copies EXCEPT ![c] =
       [req |-> q, status |-> "created", attempts |-> << >>, version |-> 1,
        events |-> <<[version |-> 1, status |-> "created"]>>]]
  /\ UNCHANGED <<saves, rows, attempts, audit, head>>

\* A handler holds the aggregate as of the stored version, with no events:
\* built by the same commands, since no code reads one back from the tables.
Load(c, q) ==
  /\ c \in unused
  /\ rows[q].version > 0
  /\ unused' = unused \ {c}
  /\ copies' = [copies EXCEPT ![c] =
       [req |-> q, status |-> rows[q].status, attempts |-> rows[q].history,
        version |-> rows[q].version, events |-> << >>]]
  /\ UNCHANGED <<saves, rows, attempts, audit, head>>

Command(c) ==
  /\ Live(c)
  /\ CommandsDuringSave \/ ~BeingSaved(c)
  /\ copies[c].version < MaxVersion[copies[c].req]
  /\ LET agg == copies[c]
         v   == agg.version + 1
     IN \E r \in Moves(Lifecycle(agg)) :
          copies' = [copies EXCEPT ![c] =
            [req |-> agg.req, status |-> r.status,
             attempts |-> MovedAttempts(c, agg, r), version |-> v,
             events |-> Append(agg.events, [version |-> v,
                                            status |-> r.status])]]
  /\ UNCHANGED <<unused, saves, rows, attempts, audit, head>>

\* The process ends: its copy and its calls of save are gone; what the
\* database has committed stays, what it has not rolls back.
Crash(c) ==
  /\ Live(c)
  /\ copies' = [copies EXCEPT ![c] = Null]
  /\ saves' = [x \in Saves |->
       IF saves[x] # Null /\ saves[x].copy = c THEN Null ELSE saves[x]]
  /\ UNCHANGED <<unused, rows, attempts, audit, head>>

-----------------------------------------------------------------------------
(* The statements of one call of save.                                     *)

Reached(x, phase) == saves[x] # Null /\ saves[x].phase = phase

\* The version the row must have: the one before the captured events.
Expected(s) == s.snapshot.version - Len(s.snapshot.events)

\* x holds the lock of its request's row from its write to its end.
LocksRow(x, q) ==
  /\ saves[x] # Null
  /\ saves[x].phase \in {"row", "attempts", "head"}
  /\ saves[x].snapshot.req = q

End(x) == saves' = [saves EXCEPT ![x] = Null]

UnchangedTables == UNCHANGED <<rows, attempts, audit, head>>

\* snapshot() and pendingEvents() are taken before the first await.
BeginSave(x, c) ==
  /\ saves[x] = Null
  /\ Live(c)
  /\ copies[c].events # << >>
  /\ saves' = [saves EXCEPT ![x] =
       [copy |-> c, snapshot |-> copies[c], phase |-> "begun",
        attempts |-> << >>, audit |-> << >>]]
  /\ UNCHANGED <<copies, unused>> /\ UnchangedTables

\* Takes the status the copy has by now.
BadSnapshotOf(s) == [s.snapshot EXCEPT !.status = copies[s.copy].status]

\* The values that persistSnapshot writes.
SnapshotOf(s) == s.snapshot

\* Overwrites the row whatever its version.
BadRowMatches(s) == rows[s.snapshot.req].version >= Expected(s)

\* insert ... on conflict do nothing, or update ... where version = expected.
RowMatches(s) == rows[s.snapshot.req].version = Expected(s)

\* Waits for the expected version instead of throwing.
BadPersistSnapshot(x) ==
  /\ Reached(x, "begun")
  /\ \A y \in Saves \ {x} : ~LocksRow(y, saves[x].snapshot.req)
  /\ RowMatches(saves[x])
  /\ saves' = [saves EXCEPT ![x].phase = "row"]
  /\ UNCHANGED <<copies, unused>> /\ UnchangedTables

\* persistSnapshot waits for the row and then either writes or throws.
PersistSnapshot(x) ==
  /\ Reached(x, "begun")
  /\ \A y \in Saves \ {x} : ~LocksRow(y, saves[x].snapshot.req)
  /\ IF RowMatches(saves[x])
       THEN saves' = [saves EXCEPT ![x].phase = "row",
                                   ![x].snapshot = SnapshotOf(saves[x])]
       ELSE End(x)
  /\ UNCHANGED <<copies, unused>> /\ UnchangedTables

\* Two attempts of one request cannot share a number.
AttemptsClash(new, stored) ==
  \E n \in DOMAIN new \cap DOMAIN stored : new[n].by # stored[n].by

\* insert ... on conflict do update ... where completed_at is null.
Merged(new, stored) ==
  [n \in DOMAIN new \cup DOMAIN stored |->
     IF \/ n \notin DOMAIN new
        \/ n \in DOMAIN stored /\ stored[n].status \in ClosedAttempt
       THEN stored[n] ELSE new[n]]

\* Writes the attempts outside of the transaction.
BadPersistAttempts(x) ==
  /\ Reached(x, "row")
  /\ LET q   == saves[x].snapshot.req
         new == Merged(copies[saves[x].copy].attempts, attempts[q])
     IN /\ attempts' = [attempts EXCEPT ![q] = new]
        /\ saves' = [saves EXCEPT ![x].phase = "attempts",
                                  ![x].attempts = new]
  /\ UNCHANGED <<copies, unused, rows, audit, head>>

\* persistAttempts: executionAttempts() is evaluated here, after two awaits,
\* so the attempts are those the copy has now.
PersistAttempts(x) ==
  /\ Reached(x, "row")
  /\ LET new    == copies[saves[x].copy].attempts
         stored == attempts[saves[x].snapshot.req]
     IN IF AttemptsClash(new, stored)
          THEN End(x)
          ELSE saves' = [saves EXCEPT ![x].phase = "attempts",
                                      ![x].attempts = Merged(new, stored)]
  /\ UNCHANGED <<copies, unused>> /\ UnchangedTables

\* Chains every event of a save to the same predecessor.
BadChained(h, q, events) ==
  [i \in DOMAIN events |->
     [seq |-> h.seq + i, prev |-> h.hash, req |-> q,
      version |-> events[i].version, status |-> events[i].status]]

\* The audit rows of a save's events, chained to the head one by one.
Chained(h, q, events) ==
  [i \in DOMAIN events |->
     [seq  |-> h.seq + i,
      prev |-> IF i = 1 THEN h.hash ELSE h.seq + i - 1,
      req  |-> q, version |-> events[i].version,
      status |-> events[i].status]]

\* persistEvents: the head is read under its lock and then written.
PersistEvents(x) ==
  /\ Reached(x, "attempts")
  /\ \A y \in Saves \ {x} : ~Reached(y, "head")
  /\ LET captured == saves[x].snapshot
     IN saves' = [saves EXCEPT ![x].phase = "head",
                    ![x].audit = Chained(head, captured.req, captured.events)]
  /\ UNCHANGED <<copies, unused>> /\ UnchangedTables

Commit(x) ==
  /\ Reached(x, "head")
  /\ LET s == saves[x]
         q == s.snapshot.req
         last == s.audit[Len(s.audit)].seq
     IN /\ rows' = [rows EXCEPT ![q] =
             [version |-> s.snapshot.version, status |-> s.snapshot.status,
              history |-> s.snapshot.attempts]]
        /\ attempts' = [attempts EXCEPT ![q] = s.attempts]
        /\ audit' = audit \o s.audit
        /\ head' = [seq |-> last, hash |-> last]
  /\ saves' = [saves EXCEPT ![x].phase = "committed"]
  /\ UNCHANGED <<copies, unused>>

\* Drops the events that were recorded during the save as well.
BadRemaining(events, committed) == << >>

Remaining(events, committed) == SubSeq(events, committed + 1, Len(events))

\* markEventsCommitted: the captured events leave the copy.
Acknowledge(x) ==
  /\ Reached(x, "committed")
  /\ copies' = [copies EXCEPT ![saves[x].copy].events =
       Remaining(@, Len(saves[x].snapshot.events))]
  /\ End(x)
  /\ UNCHANGED unused /\ UnchangedTables

\* A statement fails and the transaction rolls back, or the answer to the
\* commit is lost: the caller sees an error and the copy keeps its events.
FailSave(x) ==
  /\ saves[x] # Null
  /\ End(x)
  /\ UNCHANGED <<copies, unused>> /\ UnchangedTables

-----------------------------------------------------------------------------
\* The steps that every request takes to its planning, one version each.
ToPlanning == <<"created", "identity_verified", "planning">>

Init ==
  /\ copies = [c \in Copies |-> Null]
  /\ unused = Copies
  /\ saves = [x \in Saves |-> Null]
  /\ rows = [q \in Requests |->
       IF q = Planned
         THEN [version |-> 3, status |-> "planning", history |-> << >>]
         ELSE [version |-> 0, status |-> "created", history |-> << >>]]
  /\ attempts = [q \in Requests |-> << >>]
  /\ audit = IF Planned = Null THEN << >> ELSE
       [v \in 1..3 |-> [seq |-> v, prev |-> v - 1, req |-> Planned,
                        version |-> v, status |-> ToPlanning[v]]]
  /\ head = [seq |-> Len(audit), hash |-> Len(audit)]

SaveStep(x) ==
  \/ PersistSnapshot(x)
  \/ PersistAttempts(x)
  \/ PersistEvents(x)
  \/ Commit(x)
  \/ Acknowledge(x)

Next ==
  \/ \E c \in Copies, q \in Requests : Create(c, q) \/ Load(c, q)
  \/ \E c \in Copies : Command(c) \/ Crash(c)
  \/ \E x \in Saves, c \in Copies : BeginSave(x, c)
  \/ \E x \in Saves : SaveStep(x) \/ FailSave(x)

\* The database answers every statement, and grants a lock that is waited for
\* in the order of the waiters.
Fairness == \A x \in Saves :
  /\ SF_vars(PersistSnapshot(x))
  /\ WF_vars(PersistAttempts(x))
  /\ SF_vars(PersistEvents(x))
  /\ WF_vars(Commit(x))
  /\ WF_vars(Acknowledge(x))

Spec == Init /\ [][Next]_vars
FairSpec == Spec /\ Fairness

-----------------------------------------------------------------------------
Events == [version : Nat \ {0}, status : Statuses]

AttemptRows == [by : Copies, status : OpenAttempt \cup ClosedAttempt]

Aggregates == [req : Requests, status : Statuses, attempts : Seq(AttemptRows),
               version : Nat \ {0}, events : Seq(Events)]

AuditRows == [seq : Nat \ {0}, prev : Nat, req : Requests,
              version : Nat \ {0}, status : Statuses]

SaveCalls ==
  [copy : Copies, snapshot : Aggregates, attempts : Seq(AttemptRows),
   phase : {"begun", "row", "attempts", "head", "committed"},
   audit : Seq(AuditRows)]

ASSUME NullAssumption == Null \notin Aggregates /\ Null \notin SaveCalls

(* The type invariant: memory, calls in progress and tables.               *)
TypeOK ==
  /\ copies \in [Copies -> Aggregates \cup {Null}]
  /\ unused \in SUBSET Copies
  /\ saves \in [Saves -> SaveCalls \cup {Null}]
  /\ rows \in [Requests -> [version : Nat, status : Statuses,
                            history : Seq(AttemptRows)]]
  /\ attempts \in [Requests -> Seq(AttemptRows)]
  /\ audit \in Seq(AuditRows)
  /\ head \in [seq : Nat, hash : Nat]

(* "Audit chains never fork under concurrent state transitions": whatever  *)
(* saves of whatever requests overlap, fail or die, the committed rows are *)
(* numbered without a gap, each is chained to the one before it, and the   *)
(* head is the last of them.                                               *)
ChainIsUnbroken ==
  /\ head = [seq |-> Len(audit), hash |-> Len(audit)]
  /\ \A i \in DOMAIN audit : audit[i].seq = i /\ audit[i].prev = i - 1

(* "Every state transition emits an append-only audit event", once: the    *)
(* audit rows of a request carry each of its versions exactly once and in  *)
(* order, although two copies may have reached the same version, and       *)
(* although a caller whose commit was not answered saves again.            *)
EachVersionAuditedOnce ==
  /\ \A i \in DOMAIN audit : audit[i].version <= rows[audit[i].req].version
  /\ \A i, j \in DOMAIN audit :
       i < j /\ audit[i].req = audit[j].req =>
         audit[i].version < audit[j].version
  /\ \A q \in Requests : \A v \in 1..rows[q].version :
       \E i \in DOMAIN audit : audit[i].req = q /\ audit[i].version = v

(* The audit trail of a request is a history the domain allows, and ends   *)
(* with the status the row shows: a save never grafts the events of one    *)
(* copy on the history of another.                                         *)
AuditIsLegalHistory ==
  \A i \in DOMAIN audit :
    LET a == audit[i]
    IN  /\ a.version = 1 => a.status = "created"
        /\ a.version = rows[a.req].version => a.status = rows[a.req].status
        /\ \A j \in DOMAIN audit :
             audit[j].req = a.req /\ audit[j].version = a.version + 1 =>
               \/ audit[j].status \in Transitions(a.status)
               \/ /\ audit[j].status = a.status
                  /\ a.status \in {"planning", "awaiting_approval"}

(* markEventsCommitted never drops an event that is not in the database:   *)
(* whatever was recorded while the save was under way stays pending.       *)
DroppedEventsAreStored ==
  \A c \in Copies : Live(c) =>
    copies[c].version - Len(copies[c].events) <= rows[copies[c].req].version

(* Request state, attempts and events are stored together: the stored      *)
(* attempts are the request's attempts at its stored version.  True as     *)
(* long as no command reaches a copy while it is saved.                    *)
AttemptsAgreeWithRow == \A q \in Requests : attempts[q] = rows[q].history

(* Every call of save ends: the locks it takes, a request's row and then   *)
(* the head of the chain, cannot keep two calls waiting for each other.    *)
SaveEnds == \A x \in Saves : saves[x] # Null ~> saves[x] = Null
=============================================================================
