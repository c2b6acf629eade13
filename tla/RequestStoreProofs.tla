------------------------- MODULE RequestStoreProofs -------------------------
(***************************************************************************)
(* Theorems about the repository, for any requests, copies and calls of    *)
(* save and for any bound: its types, that the audit chain is never        *)
(* broken, and that rows, attempts and audit trail are one history.        *)
(* None of them is inductive as it stands: what a call of save commits was *)
(* computed in earlier steps, from a head that must not have moved since   *)
(* (HeadIsLocked, AuditIsNext), and from a copy whose events must continue *)
(* what is stored (History, Fits, SaveKnows), whatever other copies of the *)
(* request and other calls of save did in between.                         *)
(***************************************************************************)
EXTENDS RequestStore, SequenceTheorems, TLAPS

AttemptStatuses == OpenAttempt \cup ClosedAttempt

Lifecycles == [status : Statuses, attempts : Seq(AttemptStatuses)]

(* A function on 1..n is a sequence of length n.                           *)
LEMMA FunctionIsSeq ==
  ASSUME NEW S, NEW n \in Nat, NEW f \in [1..n -> S]
  PROVE  f \in Seq(S) /\ Len(f) = n /\ DOMAIN f = 1..n
OBVIOUS

(* A sequence is a function on 1..n with values in its set.                *)
LEMMA SeqIsFunction ==
  ASSUME NEW S, NEW s \in Seq(S)
  PROVE  /\ Len(s) \in Nat /\ DOMAIN s = 1..Len(s)
         /\ s \in [1..Len(s) -> S]
         /\ \A i \in 1..Len(s) : s[i] \in S
BY LenProperties, ElementOfSeq

(* The table of transitions names statuses only.                           *)
LEMMA TransitionsTyped ==
  ASSUME NEW s PROVE Transitions(s) \subseteq Statuses
BY DEF Transitions, Statuses

(* Moving the newest attempt keeps a request well formed.                  *)
LEMMA MoveWithAttemptTyped ==
  ASSUME NEW r \in Lifecycles, NEW s \in Statuses, NEW a \in AttemptStatuses
  PROVE  MoveWithAttempt(r, s, a) \in Lifecycles
<1> DEFINE n == Len(r.attempts)
           f == [r.attempts EXCEPT ![n] = a]
<1>1. r.attempts \in Seq(AttemptStatuses)
  BY DEF Lifecycles
<1>2. f \in [1..n -> AttemptStatuses]
  BY <1>1, SeqIsFunction
<1>3. n \in Nat
  BY <1>1
<1>4. f \in Seq(AttemptStatuses)
  BY <1>2, <1>3, FunctionIsSeq
<1> QED BY <1>4 DEF MoveWithAttempt, Lifecycles

(* Every move of a request yields a request.                               *)
LEMMA MovesTyped ==
  ASSUME NEW r \in Lifecycles, NEW m \in Moves(r)
  PROVE  m \in Lifecycles
<1>1. r.status \in Statuses /\ r.attempts \in Seq(AttemptStatuses)
  BY DEF Lifecycles
<1>2. CASE m \in Proceed(r)
  <2>1. PICK s \in Transitions(r.status) : m = [r EXCEPT !.status = s]
    BY <1>2 DEF Proceed
  <2> QED BY <2>1, TransitionsTyped DEF Lifecycles
<1>3. CASE m \in Authorize(r)
  <2>1. m = [status |-> "execution_authorized",
             attempts |-> Append(r.attempts, "authorized")]
    BY <1>3 DEF Authorize
  <2>2. "execution_authorized" \in Statuses /\ "authorized" \in AttemptStatuses
    BY DEF Statuses, AttemptStatuses, OpenAttempt
  <2>3. Append(r.attempts, "authorized") \in Seq(AttemptStatuses)
    BY <1>1, <2>2
  <2> QED BY <2>1, <2>2, <2>3 DEF Lifecycles
<1>4. CASE m \in Start(r)
  <2>1. m = MoveWithAttempt(r, "executing", "running")
    BY <1>4 DEF Start
  <2>2. "executing" \in Statuses /\ "running" \in AttemptStatuses
    BY DEF Statuses, AttemptStatuses, OpenAttempt
  <2> QED BY <2>1, <2>2, MoveWithAttemptTyped
<1>5. CASE m \in Withdraw(r)
  <2>1. PICK s \in Transitions(r.status) : m = MoveWithAttempt(r, s, "cancelled")
    BY <1>5 DEF Withdraw
  <2>2. s \in Statuses /\ "cancelled" \in AttemptStatuses
    BY TransitionsTyped DEF AttemptStatuses, ClosedAttempt
  <2> QED BY <2>1, <2>2, MoveWithAttemptTyped
<1>6. CASE m \in Settle(r)
  <2>1. PICK s \in Transitions("executing") :
          m = MoveWithAttempt(r, s, OutcomeOf(s))
    BY <1>6 DEF Settle
  <2>2. OutcomeOf(s) \in AttemptStatuses
    BY DEF Transitions, OutcomeOf, AttemptStatuses, ClosedAttempt
  <2> QED BY <2>1, <2>2, TransitionsTyped, MoveWithAttemptTyped
<1>7. CASE m \in Annotate(r)
  BY <1>7 DEF Annotate
<1> QED BY <1>2, <1>3, <1>4, <1>5, <1>6, <1>7 DEF Moves

(* A copy looks like a request of the lifecycle.                           *)
LEMMA LifecycleTyped ==
  ASSUME NEW agg \in Aggregates
  PROVE  Lifecycle(agg) \in Lifecycles
<1> DEFINE n == Len(agg.attempts)
           f == [i \in DOMAIN agg.attempts |-> agg.attempts[i].status]
<1>1. agg.attempts \in Seq(AttemptRows) /\ agg.status \in Statuses
  BY DEF Aggregates
<1>2. n \in Nat /\ DOMAIN agg.attempts = 1..n
  BY <1>1
<1>3. \A i \in 1..n : agg.attempts[i].status \in AttemptStatuses
  <2>1. \A i \in 1..n : agg.attempts[i] \in AttemptRows
    BY <1>1, SeqIsFunction
  <2> QED BY <2>1 DEF AttemptRows, AttemptStatuses
<1>4. f \in [1..n -> AttemptStatuses]
  BY <1>2, <1>3
<1>5. f \in Seq(AttemptStatuses)
  BY <1>2, <1>4, FunctionIsSeq
<1> QED BY <1>1, <1>5 DEF Lifecycle, Lifecycles

(* The attempts of a copy after a move are attempts again.                 *)
LEMMA MovedAttemptsTyped ==
  ASSUME NEW c \in Copies, NEW agg \in Aggregates, NEW r \in Lifecycles
  PROVE  MovedAttempts(c, agg, r) \in Seq(AttemptRows)
<1> DEFINE n == Len(r.attempts)
           f == MovedAttempts(c, agg, r)
<1>1. r.attempts \in Seq(AttemptStatuses) /\ agg.attempts \in Seq(AttemptRows)
  BY DEF Lifecycles, Aggregates
<1>2. n \in Nat /\ DOMAIN r.attempts = 1..n
  BY <1>1
<1>3. \A i \in 1..n : r.attempts[i] \in AttemptStatuses
  BY <1>1
<1>4. \A i \in DOMAIN agg.attempts : agg.attempts[i].by \in Copies
  <2>1. \A i \in DOMAIN agg.attempts : agg.attempts[i] \in AttemptRows
    BY <1>1, SeqIsFunction
  <2> QED BY <2>1 DEF AttemptRows
<1>5. f \in [1..n -> AttemptRows]
  BY <1>2, <1>3, <1>4 DEF MovedAttempts, AttemptRows, AttemptStatuses
<1> QED BY <1>2, <1>5, FunctionIsSeq

(* What persistAttempts leaves in the table are attempts.                  *)
LEMMA MergedTyped ==
  ASSUME NEW new \in Seq(AttemptRows), NEW stored \in Seq(AttemptRows)
  PROVE  Merged(new, stored) \in Seq(AttemptRows)
<1> DEFINE n == IF Len(new) > Len(stored) THEN Len(new) ELSE Len(stored)
           f == Merged(new, stored)
<1>1. DOMAIN new = 1..Len(new) /\ DOMAIN stored = 1..Len(stored)
  OBVIOUS
<1>2. Len(new) \in Nat /\ Len(stored) \in Nat
  OBVIOUS
<1>3. n \in Nat /\ DOMAIN new \cup DOMAIN stored = 1..n
  BY <1>1, <1>2
<1>4. \A i \in 1..n :
        /\ i \in DOMAIN stored => stored[i] \in AttemptRows
        /\ i \in DOMAIN new => new[i] \in AttemptRows
  BY <1>1
<1> HIDE DEF n
<1>5. f \in [1..n -> AttemptRows]
  BY <1>3, <1>4 DEF Merged
<1> QED BY <1>3, <1>5, FunctionIsSeq

(* The audit rows of a save, one for each of its events, numbered on from  *)
(* the head.                                                               *)
LEMMA ChainedTyped ==
  ASSUME NEW h \in [seq : Nat, hash : Nat], NEW q \in Requests,
         NEW events \in Seq(Events)
  PROVE  /\ Chained(h, q, events) \in Seq(AuditRows)
         /\ Len(Chained(h, q, events)) = Len(events)
         /\ \A i \in 1..Len(events) :
              /\ Chained(h, q, events)[i].seq = h.seq + i
              /\ Chained(h, q, events)[i].prev =
                   IF i = 1 THEN h.hash ELSE h.seq + i - 1
<1> DEFINE n == Len(events)
           f == Chained(h, q, events)
<1>1. n \in Nat /\ DOMAIN events = 1..n
  OBVIOUS
<1>2. \A i \in 1..n :
        events[i].version \in Nat \ {0} /\ events[i].status \in Statuses
  <2>1. \A i \in 1..n : events[i] \in Events
    BY SeqIsFunction
  <2> QED BY <2>1 DEF Events
<1>3. f = [i \in 1..n |->
             [seq |-> h.seq + i,
              prev |-> IF i = 1 THEN h.hash ELSE h.seq + i - 1,
              req |-> q, version |-> events[i].version,
              status |-> events[i].status]]
  BY <1>1 DEF Chained
<1>4. \A i \in 1..n : f[i] \in AuditRows
  BY <1>2, <1>3 DEF AuditRows
<1>5. f \in [1..n -> AuditRows]
  BY <1>3, <1>4
<1>6. f \in Seq(AuditRows) /\ Len(f) = n
  BY <1>1, <1>5, FunctionIsSeq
<1> QED BY <1>3, <1>6

-----------------------------------------------------------------------------
(* Types.                                                                  *)

(* A process dies with its calls of save: each has its copy at hand.       *)
SaversAreLive == \A x \in Saves : saves[x] # Null => Live(saves[x].copy)

TypeInv == TypeOK /\ SaversAreLive

(* save returns at once when there is nothing to save.                     *)
EventsCaptured ==
  \A x \in Saves : saves[x] # Null => saves[x].snapshot.events # << >>

(* The lock on the environment's row of audit_chain_heads.                 *)
HeadIsLocked ==
  \A x, y \in Saves : Reached(x, "head") /\ Reached(y, "head") => x = y

(* What the holder of the lock commits still continues the chain.          *)
AuditIsNext ==
  \A x \in Saves : Reached(x, "head") =>
    saves[x].audit =
      Chained(head, saves[x].snapshot.req, saves[x].snapshot.events)

IInv ==
  /\ TypeInv
  /\ EventsCaptured
  /\ HeadIsLocked
  /\ AuditIsNext
  /\ ChainIsUnbroken

(* A live copy is an aggregate, and a call in progress a call.             *)
LEMMA LiveTyped ==
  ASSUME TypeOK
  PROVE  /\ \A c \in Copies : Live(c) => copies[c] \in Aggregates
         /\ \A x \in Saves : saves[x] # Null => saves[x] \in SaveCalls
  BY DEF TypeOK, Live

(* A command moves a copy to another well-formed copy.                     *)
LEMMA CommandTyped ==
  ASSUME TypeInv, NEW c \in Copies, Command(c)
  PROVE  TypeInv'
<1> DEFINE agg == copies[c]
           v == agg.version + 1
           moved(r) == [req |-> agg.req, status |-> r.status,
                        attempts |-> MovedAttempts(c, agg, r), version |-> v,
                        events |-> Append(agg.events, [version |-> v,
                                                       status |-> r.status])]
<1>1. agg \in Aggregates
  BY LiveTyped DEF Command, TypeInv
<1>2. PICK r \in Moves(Lifecycle(agg)) : copies' = [copies EXCEPT ![c] = moved(r)]
  BY DEF Command
<1>3. r \in Lifecycles
  BY <1>1, LifecycleTyped, MovesTyped
<1>4. /\ agg.req \in Requests /\ agg.events \in Seq(Events)
      /\ v \in Nat \ {0} /\ r.status \in Statuses
  BY <1>1, <1>3 DEF Aggregates, Lifecycles
<1>5. [version |-> v, status |-> r.status] \in Events
  BY <1>4 DEF Events
<1>6. Append(agg.events, [version |-> v, status |-> r.status]) \in Seq(Events)
  BY <1>4, <1>5
<1>7. moved(r) \in Aggregates
  BY <1>1, <1>3, <1>4, <1>6, MovedAttemptsTyped DEF Aggregates
<1>8. UNCHANGED <<unused, saves, rows, attempts, audit, head>>
  BY DEF Command
<1>9. TypeOK'
  BY <1>2, <1>7, <1>8 DEF TypeOK, TypeInv
<1>10. SaversAreLive'
  <2>1. moved(r) # Null
    BY <1>7, NullAssumption
  <2> HIDE DEF moved
  <2> QED BY <1>2, <1>8, <2>1 DEF SaversAreLive, Live, TypeInv, TypeOK
<1> QED BY <1>9, <1>10 DEF TypeInv

(* A step that only moves one call of save to a well-formed call.          *)
LEMMA SaveMoveTyped ==
  ASSUME TypeInv, NEW x \in Saves, NEW s \in SaveCalls \cup {Null},
         s # Null => Live(s.copy),
         saves' = [saves EXCEPT ![x] = s],
         UNCHANGED <<copies, unused, rows, attempts, audit, head>>
  PROVE  TypeInv'
<1>1. TypeOK'
  BY DEF TypeOK, TypeInv
<1>2. SaversAreLive'
  BY DEF SaversAreLive, Live, TypeInv, TypeOK
<1> QED BY <1>1, <1>2 DEF TypeInv

(* A handler takes a copy that nobody is saving.                           *)
LEMMA TakeTyped ==
  ASSUME TypeInv, NEW c \in Copies, NEW agg \in Aggregates,
         copies' = [copies EXCEPT ![c] = agg],
         unused' = unused \ {c},
         UNCHANGED <<saves, rows, attempts, audit, head>>
  PROVE  TypeInv'
<1>1. TypeOK'
  BY DEF TypeOK, TypeInv
<1>2. SaversAreLive'
  BY NullAssumption DEF SaversAreLive, Live, TypeInv, TypeOK
<1> QED BY <1>1, <1>2 DEF TypeInv

(* What the holder of the head lock is about to commit.                    *)
LEMMA CommitFacts ==
  ASSUME TypeInv, EventsCaptured, AuditIsNext,
         NEW x \in Saves, Reached(x, "head")
  PROVE  LET s == saves[x]
             n == Len(s.audit)
         IN  /\ s \in SaveCalls /\ s.audit \in Seq(AuditRows)
             /\ s.snapshot.req \in Requests
             /\ n \in Nat \ {0}
             /\ \A i \in 1..n :
                  /\ s.audit[i].seq = head.seq + i
                  /\ s.audit[i].prev = IF i = 1 THEN head.hash ELSE head.seq + i - 1
<1> DEFINE s == saves[x]
<1>1. s # Null /\ s \in SaveCalls
  BY LiveTyped DEF Reached, TypeInv
<1>2. /\ s.snapshot.req \in Requests /\ s.snapshot.events \in Seq(Events)
      /\ s.audit \in Seq(AuditRows)
  BY <1>1 DEF SaveCalls, Aggregates
<1>3. s.snapshot.events # << >>
  BY <1>1 DEF EventsCaptured
<1>4. Len(s.snapshot.events) \in Nat \ {0}
  BY <1>2, <1>3, EmptySeq
<1>5. head \in [seq : Nat, hash : Nat]
  BY DEF TypeInv, TypeOK
<1>6. s.audit = Chained(head, s.snapshot.req, s.snapshot.events)
  BY DEF AuditIsNext
<1>7. LET c == Chained(head, s.snapshot.req, s.snapshot.events)
      IN  /\ Len(c) = Len(s.snapshot.events)
          /\ \A i \in 1..Len(c) :
               /\ c[i].seq = head.seq + i
               /\ c[i].prev = IF i = 1 THEN head.hash ELSE head.seq + i - 1
  BY <1>2, <1>5, ChainedTyped
<1>8. /\ Len(s.audit) \in Nat \ {0}
      /\ \A i \in 1..Len(s.audit) :
           /\ s.audit[i].seq = head.seq + i
           /\ s.audit[i].prev = IF i = 1 THEN head.hash ELSE head.seq + i - 1
  BY <1>4, <1>6, <1>7
<1> HIDE DEF s
<1>9. s \in SaveCalls /\ s.audit \in Seq(AuditRows) /\ s.snapshot.req \in Requests
  BY <1>1, <1>2
<1> QED BY <1>8, <1>9 DEF s

(* Every action keeps the types and the copies of the calls in progress.   *)
LEMMA TypeStep ==
  ASSUME TypeInv, EventsCaptured, AuditIsNext, [Next]_vars PROVE TypeInv'
<1> USE DEF TypeInv
<1>1. ASSUME NEW c \in Copies, NEW q \in Requests, Create(c, q)
      PROVE  TypeInv'
  <2> DEFINE event == [version |-> 1, status |-> "created"]
             new == [req |-> q, status |-> "created", attempts |-> << >>,
                     version |-> 1, events |-> <<event>>]
  <2>1. event \in Events
    BY DEF Events, Statuses
  <2>2. <<event>> \in Seq(Events)
    BY <2>1
  <2>3. new \in Aggregates
    BY <2>2 DEF Aggregates, Statuses
  <2>4. copies' = [copies EXCEPT ![c] = new] /\ unused' = unused \ {c}
        /\ UNCHANGED <<saves, rows, attempts, audit, head>>
    BY <1>1 DEF Create
  <2> QED BY <2>3, <2>4, TakeTyped
<1>2. ASSUME NEW c \in Copies, NEW q \in Requests, Load(c, q)
      PROVE  TypeInv'
  <2> DEFINE new == [req |-> q, status |-> rows[q].status,
                     attempts |-> rows[q].history,
                     version |-> rows[q].version, events |-> << >>]
  <2>1. /\ rows[q].version \in Nat /\ rows[q].status \in Statuses
        /\ rows[q].history \in Seq(AttemptRows)
    BY DEF TypeOK
  <2>2. rows[q].version > 0
    BY <1>2 DEF Load
  <2>3. new \in Aggregates
    BY <2>1, <2>2 DEF Aggregates
  <2>4. copies' = [copies EXCEPT ![c] = new] /\ unused' = unused \ {c}
        /\ UNCHANGED <<saves, rows, attempts, audit, head>>
    BY <1>2 DEF Load
  <2> QED BY <2>3, <2>4, TakeTyped
<1>3. ASSUME NEW c \in Copies, Command(c) PROVE TypeInv'
  BY <1>3, CommandTyped
<1>4. ASSUME NEW c \in Copies, Crash(c) PROVE TypeInv'
  <2> DEFINE gone(x) == saves[x] # Null /\ saves[x].copy = c
  <2>1. /\ copies' = [copies EXCEPT ![c] = Null]
        /\ saves' = [x \in Saves |-> IF gone(x) THEN Null ELSE saves[x]]
        /\ UNCHANGED <<unused, rows, attempts, audit, head>>
    BY <1>4 DEF Crash
  <2>2. TypeOK'
    BY <2>1 DEF TypeOK
  <2>3. SaversAreLive'
    BY <2>1 DEF SaversAreLive, Live, TypeOK, SaveCalls
  <2> QED BY <2>2, <2>3
<1>5. ASSUME NEW x \in Saves, NEW c \in Copies, BeginSave(x, c)
      PROVE  TypeInv'
  <2> DEFINE new == [copy |-> c, snapshot |-> copies[c], phase |-> "begun",
                     attempts |-> << >>, audit |-> << >>]
  <2>1. copies[c] \in Aggregates
    BY <1>5, LiveTyped DEF BeginSave
  <2>2. new \in SaveCalls
    BY <2>1 DEF SaveCalls
  <2>3. saves' = [saves EXCEPT ![x] = new]
        /\ UNCHANGED <<copies, unused, rows, attempts, audit, head>>
    BY <1>5 DEF BeginSave, UnchangedTables
  <2>4. Live(c)
    BY <1>5 DEF BeginSave
  <2> QED BY <2>2, <2>3, <2>4, SaveMoveTyped
<1>6. ASSUME NEW x \in Saves, PersistSnapshot(x) PROVE TypeInv'
  <2>1. saves[x] \in SaveCalls
    BY <1>6, LiveTyped DEF PersistSnapshot, Reached
  <2>2. CASE RowMatches(saves[x])
    <3> DEFINE new == [saves[x] EXCEPT !.phase = "row"]
    <3>1. saves' = [saves EXCEPT ![x] = new]
      BY <1>6, <2>1, <2>2 DEF PersistSnapshot, SnapshotOf, TypeOK, SaveCalls
    <3>2. new \in SaveCalls /\ new.copy = saves[x].copy
      BY <2>1 DEF SaveCalls
    <3>3. Live(new.copy)
      BY <1>6, <3>2 DEF SaversAreLive, PersistSnapshot, Reached
    <3> QED BY <1>6, <3>1, <3>2, <3>3, SaveMoveTyped DEF PersistSnapshot, UnchangedTables
  <2>3. CASE ~RowMatches(saves[x])
    BY <1>6, <2>3, SaveMoveTyped DEF PersistSnapshot, End, UnchangedTables
  <2> QED BY <2>2, <2>3
<1>7. ASSUME NEW x \in Saves, PersistAttempts(x) PROVE TypeInv'
  <2> DEFINE new == copies[saves[x].copy].attempts
             stored == attempts[saves[x].snapshot.req]
             call == [saves[x] EXCEPT !.phase = "attempts",
                                      !.attempts = Merged(new, stored)]
  <2>1. saves[x] \in SaveCalls
    BY <1>7, LiveTyped DEF PersistAttempts, Reached
  <2>2. CASE AttemptsClash(new, stored)
    BY <1>7, <2>2, SaveMoveTyped DEF PersistAttempts, End, UnchangedTables
  <2>3. CASE ~AttemptsClash(new, stored)
    <3>1. saves' = [saves EXCEPT ![x] = call]
      BY <1>7, <2>1, <2>3 DEF PersistAttempts, TypeOK, SaveCalls
    <3>2. saves[x].copy \in Copies /\ Live(saves[x].copy)
      BY <1>7, <2>1 DEF SaversAreLive, PersistAttempts, Reached, SaveCalls
    <3>3. new \in Seq(AttemptRows)
      BY <3>2, LiveTyped DEF Aggregates
    <3>4. saves[x].snapshot.req \in Requests
      BY <2>1 DEF SaveCalls, Aggregates
    <3>5. stored \in Seq(AttemptRows)
      BY <3>4 DEF TypeOK
    <3>6. call \in SaveCalls /\ call.copy = saves[x].copy
      BY <2>1, <3>3, <3>5, MergedTyped DEF SaveCalls
    <3> QED BY <1>7, <3>1, <3>2, <3>6, SaveMoveTyped DEF PersistAttempts, UnchangedTables
  <2> QED BY <2>2, <2>3
<1>8. ASSUME NEW x \in Saves, PersistEvents(x) PROVE TypeInv'
  <2> DEFINE captured == saves[x].snapshot
             rowsOf == Chained(head, captured.req, captured.events)
             call == [saves[x] EXCEPT !.phase = "head", !.audit = rowsOf]
  <2>1. saves[x] \in SaveCalls /\ Live(saves[x].copy)
    BY <1>8, LiveTyped DEF PersistEvents, Reached, SaversAreLive
  <2>2. captured.req \in Requests /\ captured.events \in Seq(Events)
    BY <2>1 DEF SaveCalls, Aggregates
  <2>3. rowsOf \in Seq(AuditRows)
    BY <2>2, ChainedTyped DEF TypeOK
  <2>4. saves' = [saves EXCEPT ![x] = call]
    BY <1>8, <2>1 DEF PersistEvents, TypeOK, SaveCalls
  <2>5. call \in SaveCalls /\ call.copy = saves[x].copy
    BY <2>1, <2>3 DEF SaveCalls
  <2> QED BY <1>8, <2>1, <2>4, <2>5, SaveMoveTyped DEF PersistEvents, UnchangedTables
<1>9. ASSUME NEW x \in Saves, Commit(x) PROVE TypeInv'
  <2> DEFINE s == saves[x]
             q == s.snapshot.req
             last == s.audit[Len(s.audit)].seq
  <2>1. s \in SaveCalls /\ Live(s.copy)
    BY <1>9, LiveTyped DEF Commit, Reached, SaversAreLive
  <2>2. /\ rows' = [rows EXCEPT ![q] =
             [version |-> s.snapshot.version, status |-> s.snapshot.status,
              history |-> s.snapshot.attempts]]
        /\ attempts' = [attempts EXCEPT ![q] = s.attempts]
        /\ audit' = audit \o s.audit
        /\ head' = [seq |-> last, hash |-> last]
        /\ saves' = [saves EXCEPT ![x] = [s EXCEPT !.phase = "committed"]]
        /\ UNCHANGED <<copies, unused>>
    BY <1>9, <2>1 DEF Commit, TypeOK, SaveCalls
  <2>3. Reached(x, "head")
    BY <1>9 DEF Commit
  <2>4. /\ q \in Requests /\ s.audit \in Seq(AuditRows)
        /\ last = head.seq + Len(s.audit) /\ Len(s.audit) \in Nat
    BY <2>3, CommitFacts
  <2>5. last \in Nat
    BY <2>4 DEF TypeOK
  <2>6. /\ s.snapshot.version \in Nat /\ s.snapshot.status \in Statuses
        /\ s.snapshot.attempts \in Seq(AttemptRows)
        /\ s.attempts \in Seq(AttemptRows)
    BY <2>1 DEF SaveCalls, Aggregates
  <2>7. [s EXCEPT !.phase = "committed"] \in SaveCalls
    BY <2>1 DEF SaveCalls
  <2>8. audit \o s.audit \in Seq(AuditRows)
    BY <2>4, ConcatProperties DEF TypeOK
  <2> HIDE DEF s, q, last
  <2>9. TypeOK'
    BY <2>2, <2>4, <2>5, <2>6, <2>7, <2>8 DEF TypeOK
  <2>10. SaversAreLive'
    BY <2>1, <2>2 DEF SaversAreLive, Live, TypeOK, SaveCalls
  <2> QED BY <2>9, <2>10
<1>10. ASSUME NEW x \in Saves, Acknowledge(x) PROVE TypeInv'
  <2> DEFINE c == saves[x].copy
             n == Len(saves[x].snapshot.events)
             agg == copies[c]
             left == Remaining(agg.events, n)
             new == [agg EXCEPT !.events = left]
  <2>1. saves[x] \in SaveCalls /\ Live(c)
    BY <1>10, LiveTyped DEF Acknowledge, Reached, SaversAreLive
  <2>2. c \in Copies /\ n \in Nat
    BY <2>1 DEF SaveCalls, Aggregates
  <2>3. agg \in Aggregates
    BY <2>1, <2>2, LiveTyped
  <2>4. agg.events \in Seq(Events)
    BY <2>3 DEF Aggregates
  <2>5. left \in Seq(Events)
    <3>1. Len(agg.events) \in Nat
          /\ \A i \in n + 1 .. Len(agg.events) : agg.events[i] \in Events
      BY <2>2, <2>4, SeqIsFunction
    <3>2. n + 1 \in Int /\ Len(agg.events) \in Int
      BY <2>2, <3>1
    <3> QED BY <3>1, <3>2, SubSeqProperties DEF Remaining
  <2>6. new \in Aggregates
    BY <2>3, <2>5 DEF Aggregates
  <2>7. /\ copies' = [copies EXCEPT ![c] = new]
        /\ saves' = [saves EXCEPT ![x] = Null]
        /\ UNCHANGED <<unused, rows, attempts, audit, head>>
    BY <1>10, <2>2, <2>3 DEF Acknowledge, End, UnchangedTables, TypeOK, Aggregates
  <2> HIDE DEF new, c
  <2>8. TypeOK'
    BY <2>2, <2>6, <2>7 DEF TypeOK
  <2>9. SaversAreLive'
    BY <2>2, <2>6, <2>7, NullAssumption DEF SaversAreLive, Live, TypeOK
  <2> QED BY <2>8, <2>9
<1>11. ASSUME NEW x \in Saves, FailSave(x) PROVE TypeInv'
  BY <1>11, SaveMoveTyped DEF FailSave, End, UnchangedTables
<1>12. CASE UNCHANGED vars
  BY <1>12 DEF vars, TypeOK, SaversAreLive, Live
<1> QED
  BY <1>1, <1>2, <1>3, <1>4, <1>5, <1>6, <1>7, <1>8, <1>9, <1>10, <1>11, <1>12
  DEF Next, SaveStep

-----------------------------------------------------------------------------
(* The chain.                                                              *)

ChainInv == EventsCaptured /\ HeadIsLocked /\ AuditIsNext /\ ChainIsUnbroken

(* A step that neither takes the head lock nor commits.                    *)
LEMMA QuietStep ==
  ASSUME IInv, UNCHANGED <<audit, head>>,
         \A y \in Saves :
           \/ saves'[y] = saves[y]
           \/ saves'[y] = Null
           \/ /\ saves'[y].phase # "head"
              /\ saves'[y].snapshot.events # << >>
  PROVE  ChainInv'
<1>1. EventsCaptured'
  BY DEF IInv, EventsCaptured
<1>2. \A y \in Saves : Reached(y, "head")' =>
        Reached(y, "head") /\ saves'[y] = saves[y]
  BY DEF Reached
<1>3. HeadIsLocked'
  BY <1>2 DEF IInv, HeadIsLocked
<1>4. AuditIsNext'
  BY <1>2 DEF IInv, AuditIsNext
<1>5. ChainIsUnbroken'
  BY DEF IInv, ChainIsUnbroken
<1> QED BY <1>1, <1>3, <1>4, <1>5 DEF ChainInv

(* persistEvents computes its rows from the head it has locked.            *)
LEMMA PersistEventsStep ==
  ASSUME IInv, NEW x \in Saves, PersistEvents(x)
  PROVE  ChainInv'
<1> DEFINE s == saves[x]
           new == [s EXCEPT !.phase = "head",
                            !.audit = Chained(head, s.snapshot.req,
                                              s.snapshot.events)]
<1>1. s # Null /\ s \in SaveCalls
  BY LiveTyped DEF PersistEvents, Reached, IInv, TypeInv
<1>2. /\ saves' = [saves EXCEPT ![x] = new]
      /\ UNCHANGED <<audit, head>>
  BY <1>1 DEF PersistEvents, UnchangedTables, IInv, TypeInv, TypeOK, SaveCalls
<1>3. /\ new.snapshot = s.snapshot /\ new.phase = "head"
      /\ new.audit = Chained(head, s.snapshot.req, s.snapshot.events)
  BY <1>1 DEF SaveCalls
<1>4. saves'[x] = new /\ \A y \in Saves \ {x} : saves'[y] = saves[y]
  BY <1>2 DEF IInv, TypeInv, TypeOK
<1> HIDE DEF new
<1>5. EventsCaptured'
  BY <1>1, <1>3, <1>4 DEF IInv, EventsCaptured
<1>6. \A y \in Saves \ {x} : ~Reached(y, "head")'
  BY <1>4 DEF PersistEvents, Reached
<1>7. HeadIsLocked'
  BY <1>6 DEF HeadIsLocked
<1>8. AuditIsNext'
  BY <1>2, <1>3, <1>4, <1>6 DEF AuditIsNext
<1>9. ChainIsUnbroken'
  BY <1>2 DEF IInv, ChainIsUnbroken
<1> QED BY <1>5, <1>7, <1>8, <1>9 DEF ChainInv

(* The holder of the lock appends rows that continue the chain.            *)
LEMMA CommitStep ==
  ASSUME IInv, NEW x \in Saves, Commit(x)
  PROVE  ChainInv'
<1> DEFINE s == saves[x]
           k == Len(audit)
           n == Len(s.audit)
           last == s.audit[n].seq
<1>1. Reached(x, "head")
  BY DEF Commit
<1>2. /\ s # Null /\ s \in SaveCalls /\ s.audit \in Seq(AuditRows)
      /\ n \in Nat \ {0}
      /\ \A i \in 1..n :
           /\ s.audit[i].seq = head.seq + i
           /\ s.audit[i].prev = IF i = 1 THEN head.hash ELSE head.seq + i - 1
  BY <1>1, CommitFacts DEF IInv, Reached
<1>3. /\ audit \in Seq(AuditRows) /\ k \in Nat /\ DOMAIN audit = 1..k
      /\ head.seq = k /\ head.hash = k
      /\ \A i \in 1..k : audit[i].seq = i /\ audit[i].prev = i - 1
  <2>1. audit \in Seq(AuditRows)
    BY DEF IInv, TypeInv, TypeOK
  <2>2. k \in Nat /\ DOMAIN audit = 1..k
    BY <2>1, SeqIsFunction
  <2> QED BY <2>1, <2>2 DEF IInv, ChainIsUnbroken
<1>4. /\ audit' = audit \o s.audit
      /\ head' = [seq |-> last, hash |-> last]
      /\ saves'[x] = [s EXCEPT !.phase = "committed"]
      /\ \A y \in Saves \ {x} : saves'[y] = saves[y]
  BY <1>2 DEF Commit, IInv, TypeInv, TypeOK, SaveCalls
<1>5. /\ audit' \in Seq(AuditRows) /\ Len(audit') = k + n
      /\ \A i \in 1..(k + n) :
           audit'[i] = IF i <= k THEN audit[i] ELSE s.audit[i - k]
  BY <1>2, <1>3, <1>4, ConcatProperties
<1>6. last = k + n
  <2>1. n \in 1..n
    BY <1>2
  <2>2. s.audit[n].seq = head.seq + n
    BY <1>2, <2>1
  <2> QED BY <1>3, <2>2
<1>7. DOMAIN audit' = 1..(k + n)
  BY <1>5, SeqIsFunction
<1> HIDE DEF k, n, last
<1>8. ChainIsUnbroken'
  <2>1. head' = [seq |-> Len(audit'), hash |-> Len(audit')]
    BY <1>4, <1>5, <1>6
  <2>2. ASSUME NEW i \in 1..(k + n)
        PROVE  audit'[i].seq = i /\ audit'[i].prev = i - 1
    <3>1. CASE i <= k
      BY <1>3, <1>5, <3>1
    <3>2. CASE ~(i <= k)
      <4>1. i - k \in 1..n /\ audit'[i] = s.audit[i - k]
        BY <1>2, <1>3, <1>5, <3>2
      <4>2. s.audit[i - k].seq = k + (i - k)
        BY <1>2, <1>3, <4>1
      <4>3. s.audit[i - k].prev = IF i - k = 1 THEN k ELSE k + (i - k) - 1
        BY <1>2, <1>3, <4>1
      <4> QED BY <1>2, <1>3, <4>1, <4>2, <4>3
    <3> QED BY <3>1, <3>2
  <2> QED BY <1>7, <2>1, <2>2 DEF ChainIsUnbroken
<1>9. \A y \in Saves : ~Reached(y, "head")'
  <2>1. \A y \in Saves \ {x} : ~Reached(y, "head")
    BY <1>1 DEF IInv, HeadIsLocked
  <2>2. saves'[x].phase = "committed"
    BY <1>2, <1>4 DEF SaveCalls
  <2> QED BY <1>4, <2>1, <2>2 DEF Reached
<1>10. EventsCaptured'
  <2>1. saves'[x].snapshot = s.snapshot
    BY <1>2, <1>4 DEF SaveCalls
  <2> QED BY <1>2, <1>4, <2>1 DEF IInv, EventsCaptured
<1> QED BY <1>8, <1>9, <1>10 DEF ChainInv, HeadIsLocked, AuditIsNext

(* The initial states, with and without a request planned before.          *)
LEMMA InitIInv == ASSUME Init PROVE IInv
<1>1. /\ copies = [c \in Copies |-> Null]
      /\ saves = [x \in Saves |-> Null]
      /\ head = [seq |-> Len(audit), hash |-> Len(audit)]
  BY DEF Init
<1>2. /\ audit \in Seq(AuditRows)
      /\ \A i \in DOMAIN audit : audit[i].seq = i /\ audit[i].prev = i - 1
  <2>1. CASE Planned = Null
    BY <2>1 DEF Init
  <2>2. CASE Planned # Null
    <3> DEFINE row(v) == [seq |-> v, prev |-> v - 1, req |-> Planned,
                          version |-> v, status |-> ToPlanning[v]]
    <3>1. Planned \in Requests
      BY <2>2, RequestStoreAssumption
    <3>2. \A v \in 1..3 : ToPlanning[v] \in Statuses
      BY DEF ToPlanning, Statuses
    <3>3. \A v \in 1..3 : row(v) \in AuditRows
      BY <3>1, <3>2 DEF AuditRows
    <3>4. audit = [v \in 1..3 |-> row(v)]
      BY <2>2 DEF Init
    <3> HIDE DEF row
    <3>5. audit \in [1..3 -> AuditRows]
      BY <3>3, <3>4
    <3>6. audit \in Seq(AuditRows) /\ DOMAIN audit = 1..3
      BY <3>5, FunctionIsSeq
    <3> QED BY <3>4, <3>6 DEF row
  <2> QED BY <2>1, <2>2
<1>3. Len(audit) \in Nat
  BY <1>2, SeqIsFunction
<1>4. TypeOK
  <2>1. << >> \in Seq(AttemptRows)
    OBVIOUS
  <2>2. \A q \in Requests :
          rows[q] \in [version : Nat, status : Statuses,
                       history : Seq(AttemptRows)]
    BY <2>1 DEF Init, Statuses
  <2>3. rows \in [Requests -> [version : Nat, status : Statuses,
                               history : Seq(AttemptRows)]]
    BY <2>2 DEF Init
  <2>4. attempts \in [Requests -> Seq(AttemptRows)]
    BY <2>1 DEF Init
  <2> QED BY <1>1, <1>2, <1>3, <2>3, <2>4 DEF Init, TypeOK
<1>5. SaversAreLive /\ EventsCaptured /\ HeadIsLocked /\ AuditIsNext
  BY <1>1 DEF SaversAreLive, EventsCaptured, HeadIsLocked, AuditIsNext, Reached
<1> QED BY <1>1, <1>2, <1>4, <1>5 DEF IInv, TypeInv, ChainIsUnbroken

(* Every action keeps the chain.                                           *)
LEMMA ChainStep ==
  ASSUME IInv, [Next]_vars PROVE ChainInv'
<1> DEFINE quiet(y) == \/ saves'[y] = saves[y]
                       \/ saves'[y] = Null
                       \/ /\ saves'[y].phase # "head"
                          /\ saves'[y].snapshot.events # << >>
<1>1. ASSUME UNCHANGED <<saves, audit, head>> PROVE ChainInv'
  BY <1>1, QuietStep
<1>2. ASSUME NEW c \in Copies, Crash(c) PROVE ChainInv'
  BY <1>2, QuietStep DEF Crash
<1>3. ASSUME NEW x \in Saves, NEW c \in Copies, BeginSave(x, c)
      PROVE  ChainInv'
  <2>1. /\ saves' = [saves EXCEPT ![x] =
             [copy |-> c, snapshot |-> copies[c], phase |-> "begun",
              attempts |-> << >>, audit |-> << >>]]
        /\ copies[c].events # << >>
        /\ UNCHANGED <<audit, head>>
    BY <1>3 DEF BeginSave, UnchangedTables
  <2>2. \A y \in Saves : quiet(y)
    BY <2>1 DEF IInv, TypeInv, TypeOK
  <2> QED BY <2>1, <2>2, QuietStep
<1>4. ASSUME NEW x \in Saves, NEW s \in {saves[x]},
             NEW new, saves' = [saves EXCEPT ![x] = new],
             s # Null, new.phase # "head", new.snapshot = s.snapshot,
             UNCHANGED <<audit, head>>
      PROVE  ChainInv'
  <2>1. \A y \in Saves : quiet(y)
    BY <1>4 DEF IInv, TypeInv, TypeOK, EventsCaptured
  <2> QED BY <1>4, <2>1, QuietStep
<1>5. ASSUME NEW x \in Saves, saves' = [saves EXCEPT ![x] = Null],
             UNCHANGED <<audit, head>>
      PROVE  ChainInv'
  <2>1. \A y \in Saves : quiet(y)
    BY <1>5 DEF IInv, TypeInv, TypeOK
  <2> QED BY <1>5, <2>1, QuietStep
<1>6. ASSUME NEW x \in Saves, PersistSnapshot(x) PROVE ChainInv'
  <2>1. saves[x] # Null /\ saves[x] \in SaveCalls
    BY <1>6, LiveTyped DEF PersistSnapshot, Reached, IInv, TypeInv
  <2>2. CASE RowMatches(saves[x])
    <3> DEFINE new == [saves[x] EXCEPT !.phase = "row"]
    <3>1. saves' = [saves EXCEPT ![x] = new] /\ UNCHANGED <<audit, head>>
      BY <1>6, <2>1, <2>2 DEF PersistSnapshot, SnapshotOf, UnchangedTables,
           IInv, TypeInv, TypeOK, SaveCalls
    <3>2. new.phase = "row" /\ new.snapshot = saves[x].snapshot
      BY <2>1 DEF SaveCalls
    <3> QED BY <1>4, <2>1, <3>1, <3>2
  <2>3. CASE ~RowMatches(saves[x])
    BY <1>5, <1>6, <2>3 DEF PersistSnapshot, End, UnchangedTables
  <2> QED BY <2>2, <2>3
<1>7. ASSUME NEW x \in Saves, PersistAttempts(x) PROVE ChainInv'
  <2> DEFINE taken == copies[saves[x].copy].attempts
             stored == attempts[saves[x].snapshot.req]
             new == [saves[x] EXCEPT !.phase = "attempts",
                                     !.attempts = Merged(taken, stored)]
  <2>1. saves[x] # Null /\ saves[x] \in SaveCalls
    BY <1>7, LiveTyped DEF PersistAttempts, Reached, IInv, TypeInv
  <2>2. CASE AttemptsClash(taken, stored)
    BY <1>5, <1>7, <2>2 DEF PersistAttempts, End, UnchangedTables
  <2>3. CASE ~AttemptsClash(taken, stored)
    <3>1. saves' = [saves EXCEPT ![x] = new] /\ UNCHANGED <<audit, head>>
      BY <1>7, <2>1, <2>3 DEF PersistAttempts, UnchangedTables,
           IInv, TypeInv, TypeOK, SaveCalls
    <3>2. new.phase = "attempts" /\ new.snapshot = saves[x].snapshot
      BY <2>1 DEF SaveCalls
    <3> HIDE DEF new
    <3> QED BY <1>4, <2>1, <3>1, <3>2
  <2> QED BY <2>2, <2>3
<1>8. ASSUME NEW x \in Saves, PersistEvents(x) PROVE ChainInv'
  BY <1>8, PersistEventsStep
<1>9. ASSUME NEW x \in Saves, Commit(x) PROVE ChainInv'
  BY <1>9, CommitStep
<1>10. ASSUME NEW x \in Saves, Acknowledge(x) \/ FailSave(x) PROVE ChainInv'
  BY <1>5, <1>10 DEF Acknowledge, FailSave, End, UnchangedTables
<1>11. ASSUME NEW c \in Copies, NEW q \in Requests,
              Create(c, q) \/ Load(c, q)
       PROVE  ChainInv'
  BY <1>1, <1>11 DEF Create, Load
<1>12. ASSUME NEW c \in Copies, Command(c) PROVE ChainInv'
  BY <1>1, <1>12 DEF Command
<1>13. CASE UNCHANGED vars
  BY <1>1, <1>13 DEF vars
<1> QED
  BY <1>2, <1>3, <1>6, <1>7, <1>8, <1>9, <1>10, <1>11, <1>12, <1>13
  DEF Next, SaveStep

(* The inductive invariant holds in every reachable state.                 *)
THEOREM Inductive == Spec => []IInv
<1>1. Init => IInv
  BY InitIInv
<1>2. IInv /\ [Next]_vars => IInv'
  BY TypeStep, ChainStep DEF IInv, ChainInv
<1> QED
  BY <1>1, <1>2, PTL DEF Spec

(* Every reachable state of memory, calls and tables has its types.        *)
THEOREM TypeCorrect == Spec => []TypeOK
<1>1. IInv => TypeOK
  BY DEF IInv, TypeInv
<1> QED
  BY <1>1, Inductive, PTL

(* However many saves of however many requests overlap, fail or die, the   *)
(* audit chain of the environment has no gap and no fork.                  *)
THEOREM ChainIsUnbrokenAlways == Spec => []ChainIsUnbroken
<1>1. IInv => ChainIsUnbroken
  BY DEF IInv
<1> QED
  BY <1>1, Inductive, PTL
-----------------------------------------------------------------------------
(* The history of a request.  A copy is the version its events start from   *)
(* and the events since; what keeps the audit trail one history is that no  *)
(* copy starts from a version that is not stored, and that one which starts *)
(* from the stored version continues what is stored.                        *)

(* The version that the pending events of a start from.                      *)
Base(a) == a.version - Len(a.events)

(* An event with status t may follow one with status s.                      *)
Follows(s, t) ==
  \/ t \in Transitions(s)
  \/ t = s /\ s \in {"planning", "awaiting_approval"}

(* The newest attempt is open when the status says so.                       *)
OpenLast(status, list) ==
  status \in {"execution_authorized", "executing"} =>
    Len(list) \in DOMAIN list /\ list[Len(list)].status \in OpenAttempt

(* new has the attempts of old, and those that were closed as they were.     *)
Extends(old, new) ==
  \A n \in DOMAIN old :
    n \in DOMAIN new /\ (old[n].status \in ClosedAttempt => new[n] = old[n])

(* The pending events of a are its newest versions, each may follow the one  *)
(* before it, and the last left the status that a has.                       *)
History(a) ==
  /\ Len(a.events) <= a.version
  /\ \A i \in DOMAIN a.events : a.events[i].version = Base(a) + i
  /\ a.events # << >> => a.events[Len(a.events)].status = a.status
  /\ \A i \in DOMAIN a.events : i > 1 =>
       Follows(a.events[i - 1].status, a.events[i].status)
  /\ Base(a) = 0 => a.events[1].status = "created"
  /\ OpenLast(a.status, a.attempts)

(* The events of a start from a version that is stored; when that is the     *)
(* stored version, they continue what the row shows.                         *)
Fits(a, row) ==
  /\ Base(a) <= row.version
  /\ Base(a) = row.version =>
       /\ Extends(row.history, a.attempts)
       /\ Base(a) > 0 /\ a.events = << >> => a.status = row.status
       /\ Base(a) > 0 /\ a.events # << >> =>
            Follows(row.status, a.events[1].status)

(* What a call of save s knows of its copy c and of its request's row: the   *)
(* copy is a continuation of the snapshot; the row is at the expected        *)
(* version from the time it is locked, and at the snapshot's or later once   *)
(* it is committed.                                                          *)
SaveKnows(s, c, row) ==
  /\ History(s.snapshot)
  /\ s.snapshot.req = c.req
  /\ s.snapshot.version <= c.version
  /\ Base(s.snapshot) <= Base(c)
  /\ Extends(s.snapshot.attempts, c.attempts)
  /\ Base(s.snapshot) = Base(c) =>
       \A i \in DOMAIN s.snapshot.events : c.events[i] = s.snapshot.events[i]
  /\ s.phase # "committed" => Fits(s.snapshot, row)
  /\ s.phase \in {"row", "attempts", "head"} => row.version = Base(s.snapshot)
  /\ s.phase = "committed" =>
       /\ Base(c) = Base(s.snapshot)
       /\ s.snapshot.version <= row.version
       /\ s.snapshot.version = row.version =>
            row.status = s.snapshot.status /\ row.history = s.snapshot.attempts

(* No handler takes a copy twice.                                            *)
UnusedAreNull == \A c \in unused : copies[c] = Null

CopiesKnow ==
  \A c \in Copies : Live(c) =>
    History(copies[c]) /\ Fits(copies[c], rows[copies[c].req])

SavesKnow ==
  \A x \in Saves : saves[x] # Null =>
    SaveKnows(saves[x], copies[saves[x].copy], rows[saves[x].snapshot.req])

RowsAgree ==
  \A q \in Requests : /\ OpenLast(rows[q].status, rows[q].history)
                      /\ rows[q].version = 0 => rows[q].history = << >>

(* The lock on a request's row, and that a copy is not committed twice       *)
(* before the first commit is acknowledged.                                  *)
RowIsLocked ==
  \A x, y \in Saves : \A q \in Requests :
    LocksRow(x, q) /\ LocksRow(y, q) => x = y

CommitsAlone ==
  \A x, y \in Saves :
    /\ Reached(x, "committed") /\ Reached(y, "committed")
    /\ saves[x].copy = saves[y].copy
    => x = y

(* Everything that is known of copies, calls and rows, and the audit trail.  *)
KnownInv ==
  /\ UnusedAreNull /\ CopiesKnow /\ SavesKnow /\ RowsAgree
  /\ RowIsLocked /\ CommitsAlone

StoreInv ==
  IInv /\ KnownInv /\ EachVersionAuditedOnce /\ AuditIsLegalHistory

(* Where no handler commands a copy that is being saved, its attempts are    *)
(* those of the snapshot, and what is stored is what the row had.            *)
QuietInv ==
  /\ AttemptsAgreeWithRow
  /\ \A x \in Saves : saves[x] # Null =>
       /\ copies[saves[x].copy].attempts = saves[x].snapshot.attempts
       /\ saves[x].phase \in {"attempts", "head"} =>
            saves[x].attempts = saves[x].snapshot.attempts

(* Attempts that extend one another.                                         *)
LEMMA ExtendsSelf ==
  ASSUME NEW a
  PROVE  Extends(a, a)
BY DEF Extends

(* ... and are extended again.                                               *)
LEMMA ExtendsTransitive ==
  ASSUME NEW a, NEW b, NEW c, Extends(a, b), Extends(b, c)
  PROVE  Extends(a, c)
BY DEF Extends

(* Moving the newest attempt, when it is open, leaves those that are closed. *)
LEMMA MoveWithAttemptExtends ==
  ASSUME NEW r \in Lifecycles, NEW s \in Statuses, NEW a \in AttemptStatuses,
         Len(r.attempts) \in DOMAIN r.attempts,
         r.attempts[Len(r.attempts)] \in OpenAttempt,
         s \in {"execution_authorized", "executing"} => a \in OpenAttempt,
         NEW m, m = MoveWithAttempt(r, s, a)
  PROVE  /\ m.status = s
         /\ HasOpenAttempt(m) => /\ Len(m.attempts) \in DOMAIN m.attempts
                                 /\ m.attempts[Len(m.attempts)] \in OpenAttempt
         /\ \A n \in DOMAIN r.attempts :
              /\ n \in DOMAIN m.attempts
              /\ r.attempts[n] \in ClosedAttempt => m.attempts[n] = r.attempts[n]
<1> DEFINE k == Len(r.attempts)
<1>1. r.attempts \in Seq(AttemptStatuses) /\ k \in Nat
      /\ DOMAIN r.attempts = 1..k /\ r.attempts \in [1..k -> AttemptStatuses]
  BY SeqIsFunction DEF Lifecycles
<1>2. PICK t : t = [r.attempts EXCEPT ![k] = a]
  OBVIOUS
<1>3. t \in [1..k -> AttemptStatuses]
  BY <1>1, <1>2
<1>4. /\ Len(t) = k /\ DOMAIN t = 1..k /\ t[k] = a
      /\ \A n \in 1..k : n # k => t[n] = r.attempts[n]
  BY <1>1, <1>2, <1>3, FunctionIsSeq
<1>5. m = [status |-> s, attempts |-> t]
  BY <1>2 DEF MoveWithAttempt
<1>6. OpenAttempt \cap ClosedAttempt = {}
  BY DEF OpenAttempt, ClosedAttempt
<1> QED
  BY <1>1, <1>4, <1>5, <1>6 DEF HasOpenAttempt

(* A move follows the table, and leaves the closed attempts as they are.     *)
LEMMA MovesExtend ==
  ASSUME NEW r \in Lifecycles, NEW m \in Moves(r),
         HasOpenAttempt(r) => /\ Len(r.attempts) \in DOMAIN r.attempts
                              /\ r.attempts[Len(r.attempts)] \in OpenAttempt
  PROVE  /\ Follows(r.status, m.status)
         /\ HasOpenAttempt(m) => /\ Len(m.attempts) \in DOMAIN m.attempts
                                 /\ m.attempts[Len(m.attempts)] \in OpenAttempt
         /\ \A n \in DOMAIN r.attempts :
              /\ n \in DOMAIN m.attempts
              /\ r.attempts[n] \in ClosedAttempt => m.attempts[n] = r.attempts[n]
<1>1. r.status \in Statuses /\ r.attempts \in Seq(AttemptStatuses)
  BY DEF Lifecycles
<1>2. CASE m \in Proceed(r)
  <2>1. PICK s \in Transitions(r.status) \ {"execution_authorized"} :
          m = [r EXCEPT !.status = s]
    BY <1>2 DEF Proceed
  <2>2. ~HasOpenAttempt(r)
    BY <1>2 DEF Proceed
  <2>3. s # "executing"
    BY <2>1, <2>2 DEF Transitions, HasOpenAttempt
  <2>4. m.status = s /\ m.attempts = r.attempts
    BY <2>1 DEF Lifecycles
  <2> QED
    BY <2>1, <2>3, <2>4 DEF Follows, HasOpenAttempt
<1>3. CASE m \in Authorize(r)
  <2>1. PICK t : t = Append(r.attempts, "authorized")
    OBVIOUS
  <2>2. /\ m = [status |-> "execution_authorized", attempts |-> t]
        /\ "execution_authorized" \in Transitions(r.status)
    BY <1>3, <2>1 DEF Authorize
  <2>3. "authorized" \in AttemptStatuses /\ "authorized" \in OpenAttempt
    BY DEF AttemptStatuses, OpenAttempt
  <2>4. /\ Len(t) = Len(r.attempts) + 1 /\ Len(r.attempts) \in Nat
        /\ DOMAIN t = 1..(Len(r.attempts) + 1)
        /\ DOMAIN r.attempts = 1..Len(r.attempts)
        /\ t[Len(r.attempts) + 1] = "authorized"
        /\ \A i \in 1..Len(r.attempts) : t[i] = r.attempts[i]
    BY <1>1, <2>1, <2>3
  <2> QED
    BY <2>2, <2>3, <2>4 DEF Follows
<1>4. CASE m \in Start(r)
  <2>1. m = MoveWithAttempt(r, "executing", "running")
        /\ r.status = "execution_authorized"
    BY <1>4 DEF Start
  <2>2. "executing" \in Statuses /\ "running" \in AttemptStatuses
        /\ "running" \in OpenAttempt /\ "executing" \in Transitions(r.status)
    BY <2>1 DEF Statuses, AttemptStatuses, OpenAttempt, Transitions
  <2> QED
    BY <2>1, <2>2, MoveWithAttemptExtends DEF Follows, HasOpenAttempt
<1>5. CASE m \in Withdraw(r)
  <2>1. PICK s \in Transitions(r.status) \ {"executing"} :
          m = MoveWithAttempt(r, s, "cancelled")
    BY <1>5 DEF Withdraw
  <2>2. r.status = "execution_authorized" /\ HasOpenAttempt(r)
    BY <1>5 DEF Withdraw, HasOpenAttempt
  <2>3. "cancelled" \in AttemptStatuses /\ s \in Statuses
        /\ s \notin {"execution_authorized", "executing"}
    BY <2>1, <2>2 DEF Transitions, Statuses, AttemptStatuses, ClosedAttempt
  <2> QED
    BY <2>1, <2>2, <2>3, MoveWithAttemptExtends DEF Follows
<1>6. CASE m \in Settle(r)
  <2>1. PICK s \in Transitions(r.status) : m = MoveWithAttempt(r, s, OutcomeOf(s))
    BY <1>6 DEF Settle
  <2>2. r.status = "executing" /\ HasOpenAttempt(r)
    BY <1>6 DEF Settle, HasOpenAttempt
  <2>3. s \in {"completed", "partially_completed", "failed", "needs_review"}
    BY <2>1, <2>2 DEF Transitions
  <2>4. /\ s \in Statuses /\ OutcomeOf(s) \in AttemptStatuses
        /\ s \notin {"execution_authorized", "executing"}
    BY <2>3 DEF OutcomeOf, Statuses, AttemptStatuses, ClosedAttempt
  <2> QED
    BY <2>1, <2>2, <2>4, MoveWithAttemptExtends DEF Follows
<1>7. CASE m \in Annotate(r)
  BY <1>7 DEF Annotate, Follows
<1> QED
  BY <1>2, <1>3, <1>4, <1>5, <1>6, <1>7 DEF Moves

(* What a command makes of a copy a: a copy b with one event more.           *)
Commanded(a, b) ==
  /\ b \in Aggregates /\ b.req = a.req /\ b.version = a.version + 1
  /\ Len(b.events) = Len(a.events) + 1
  /\ \A i \in DOMAIN a.events : b.events[i] = a.events[i]
  /\ b.events[Len(a.events) + 1] = [version |-> b.version, status |-> b.status]
  /\ Follows(a.status, b.status)
  /\ OpenLast(b.status, b.attempts)
  /\ Extends(a.attempts, b.attempts)

(* That is what a command does.                                              *)
LEMMA CommandMakes ==
  ASSUME TypeInv, NEW c \in Copies, Command(c), History(copies[c])
  PROVE  /\ copies[c] \in Aggregates
         /\ Commanded(copies[c], copies'[c])
         /\ \A d \in Copies \ {c} : copies'[d] = copies[d]
         /\ copies'[c] # Null
<1>1. PICK a \in Aggregates : a = copies[c]
  BY LiveTyped DEF Command, TypeInv
<1>2. PICK v : v = a.version + 1
  OBVIOUS
<1>3. PICK r \in Moves(Lifecycle(a)) : copies' = [copies EXCEPT ![c] =
        [req |-> a.req, status |-> r.status,
         attempts |-> MovedAttempts(c, a, r), version |-> v,
         events |-> Append(a.events, [version |-> v, status |-> r.status])]]
  BY <1>1, <1>2 DEF Command
<1>4. PICK l \in Lifecycles : l = Lifecycle(a)
  BY LifecycleTyped
<1>5. r \in Lifecycles
  BY <1>4, MovesTyped
<1>6. /\ a.req \in Requests /\ a.events \in Seq(Events)
      /\ v \in Nat \ {0} /\ r.status \in Statuses
      /\ a.attempts \in Seq(AttemptRows)
  BY <1>2, <1>5 DEF Aggregates, Lifecycles
<1>7. PICK e \in Events : e = [version |-> v, status |-> r.status]
  BY <1>6 DEF Events
<1>8. PICK es : es = Append(a.events, e)
  OBVIOUS
<1>9. /\ es \in Seq(Events) /\ Len(es) = Len(a.events) + 1
      /\ es[Len(a.events) + 1] = e
      /\ \A i \in DOMAIN a.events : es[i] = a.events[i]
  BY <1>6, <1>7, <1>8
<1>10. PICK t \in Seq(AttemptRows) : t = MovedAttempts(c, a, r)
  BY <1>5, MovedAttemptsTyped
<1>11. PICK b : b = [req |-> a.req, status |-> r.status, attempts |-> t,
                     version |-> v, events |-> es]
  OBVIOUS
<1>12. /\ b.req = a.req /\ b.status = r.status /\ b.attempts = t
       /\ b.version = v /\ b.events = es
       /\ b \in Aggregates
  BY <1>6, <1>9, <1>10, <1>11 DEF Aggregates
<1>13. copies' = [copies EXCEPT ![c] = b]
  BY <1>3, <1>7, <1>8, <1>10, <1>11
<1>14. /\ l.status = a.status
       /\ l.attempts = [n \in DOMAIN a.attempts |-> a.attempts[n].status]
  BY <1>4 DEF Lifecycle
<1>15. Len(l.attempts) = Len(a.attempts) /\ DOMAIN l.attempts = DOMAIN a.attempts
  BY <1>4, <1>6, <1>14 DEF Lifecycles
<1>16. HasOpenAttempt(l) => /\ Len(l.attempts) \in DOMAIN l.attempts
                            /\ l.attempts[Len(l.attempts)] \in OpenAttempt
  BY <1>1, <1>14, <1>15 DEF History, OpenLast, HasOpenAttempt
<1>17. /\ Follows(l.status, r.status)
       /\ HasOpenAttempt(r) => /\ Len(r.attempts) \in DOMAIN r.attempts
                               /\ r.attempts[Len(r.attempts)] \in OpenAttempt
       /\ \A n \in DOMAIN l.attempts :
            /\ n \in DOMAIN r.attempts
            /\ l.attempts[n] \in ClosedAttempt => r.attempts[n] = l.attempts[n]
  BY <1>3, <1>4, <1>16, MovesExtend
<1>18. /\ DOMAIN t = DOMAIN r.attempts /\ Len(t) = Len(r.attempts)
       /\ \A n \in DOMAIN t : t[n] =
            [by |-> IF n \in DOMAIN a.attempts THEN a.attempts[n].by ELSE c,
             status |-> r.attempts[n]]
  <2>1. t = [n \in DOMAIN r.attempts |->
              [by |-> IF n \in DOMAIN a.attempts THEN a.attempts[n].by ELSE c,
               status |-> r.attempts[n]]]
    BY <1>10 DEF MovedAttempts
  <2>2. r.attempts \in Seq(AttemptStatuses)
    BY <1>5 DEF Lifecycles
  <2> QED
    BY <2>1, <2>2
<1>19. ASSUME NEW n \in DOMAIN t PROVE t[n].status = r.attempts[n]
  <2>1. t[n] = [by |-> IF n \in DOMAIN a.attempts THEN a.attempts[n].by ELSE c,
                status |-> r.attempts[n]]
    BY <1>18
  <2> QED
    BY <2>1
<1>20. OpenLast(b.status, b.attempts)
  BY <1>12, <1>17, <1>18, <1>19 DEF OpenLast, HasOpenAttempt
<1>21. ASSUME NEW n \in DOMAIN a.attempts
       PROVE  /\ n \in DOMAIN t
              /\ a.attempts[n].status \in ClosedAttempt => t[n] = a.attempts[n]
  <2>1. n \in DOMAIN t
    BY <1>15, <1>17, <1>18
  <2>2. a.attempts[n] \in AttemptRows
    BY <1>6
  <2>3. a.attempts[n] =
          [by |-> a.attempts[n].by, status |-> a.attempts[n].status]
    BY <2>2 DEF AttemptRows
  <2>4. a.attempts[n].status \in ClosedAttempt =>
          r.attempts[n] = a.attempts[n].status
    BY <1>14, <1>15, <1>17
  <2>5. t[n] = [by |-> a.attempts[n].by, status |-> r.attempts[n]]
    BY <1>18, <2>1
  <2> QED
    BY <2>1, <2>3, <2>4, <2>5
<1>22. Extends(a.attempts, b.attempts)
  BY <1>12, <1>21 DEF Extends
<1>23. Commanded(a, b)
  BY <1>2, <1>7, <1>9, <1>12, <1>14, <1>17, <1>20, <1>22 DEF Commanded
<1>24. copies'[c] = b /\ \A d \in Copies \ {c} : copies'[d] = copies[d]
  BY <1>13 DEF TypeInv, TypeOK
<1> QED
  BY <1>1, <1>12, <1>23, <1>24, NullAssumption

(* Lengths and versions are numbers.                                         *)
LEMMA Numbers ==
  ASSUME NEW a \in Aggregates
  PROVE  /\ a.version \in Nat \ {0} /\ Len(a.events) \in Nat
         /\ Base(a) \in Int /\ Base(a) + Len(a.events) = a.version
         /\ DOMAIN a.events = 1..Len(a.events)
         /\ a.events = << >> <=> Len(a.events) = 0
         /\ a.req \in Requests
<1>1. a.version \in Nat \ {0} /\ a.events \in Seq(Events) /\ a.req \in Requests
  BY DEF Aggregates
<1> QED
  BY <1>1 DEF Base

(* A copy that was commanded has a history that starts where it did,         *)
LEMMA CommandKeepsHistory ==
  ASSUME NEW a \in Aggregates, NEW b, Commanded(a, b), History(a)
  PROVE  History(b) /\ Base(b) = Base(a)
<1> DEFINE n == Len(a.events)
<1>1. /\ b \in Aggregates /\ b.version = a.version + 1 /\ Len(b.events) = n + 1
      /\ \A i \in DOMAIN a.events : b.events[i] = a.events[i]
      /\ b.events[n + 1].version = b.version
      /\ b.events[n + 1].status = b.status
      /\ Follows(a.status, b.status) /\ OpenLast(b.status, b.attempts)
  BY DEF Commanded
<1>2. /\ a.version \in Nat \ {0} /\ n \in Nat /\ Base(a) + n = a.version
      /\ DOMAIN a.events = 1..n /\ DOMAIN b.events = 1..(n + 1)
      /\ Base(a) \in Int /\ (a.events = << >> <=> n = 0)
  BY <1>1, Numbers
<1>3. Base(b) = Base(a)
  BY <1>1, <1>2 DEF Base
<1>4. ASSUME NEW i \in DOMAIN b.events
      PROVE  b.events[i].version = Base(b) + i
  <2>1. CASE i = n + 1
    <3>1. b.events[i].version = b.version
      BY <1>1, <2>1
    <3>2. Base(a) + (n + 1) = a.version + 1
      BY <1>2
    <3>3. b.version = Base(b) + i
      BY <1>1, <1>3, <2>1, <3>2
    <3> QED
      BY <3>1, <3>3
  <2>2. CASE i # n + 1
    <3>1. i \in DOMAIN a.events
      BY <1>2, <2>2
    <3> QED
      BY <1>1, <1>3, <3>1 DEF History
  <2> QED
    BY <2>1, <2>2
<1>5. ASSUME NEW i \in DOMAIN b.events, i > 1
      PROVE  Follows(b.events[i - 1].status, b.events[i].status)
  <2>1. i - 1 \in DOMAIN a.events
    BY <1>2, <1>5
  <2>2. CASE i = n + 1
    <3>1. a.events[n].status = a.status /\ i - 1 = n
      BY <1>2, <1>5, <2>2 DEF History
    <3> QED
      BY <1>1, <2>1, <2>2, <3>1
  <2>3. CASE i # n + 1
    <3>1. i \in DOMAIN a.events
      BY <1>2, <2>3
    <3> QED
      BY <1>1, <1>5, <2>1, <3>1 DEF History
  <2> QED
    BY <2>2, <2>3
<1>6. Base(b) = 0 => b.events[1].status = "created"
  <2>1. Base(a) = 0 => 1 \in DOMAIN a.events /\ a.events[1].status = "created"
    BY <1>2 DEF History
  <2> QED
    BY <1>1, <1>3, <2>1
<1>7. Len(b.events) <= b.version
  BY <1>1, <1>2 DEF History
<1>8. b.events[Len(b.events)].status = b.status
  BY <1>1
<1> QED
  BY <1>1, <1>3, <1>4, <1>5, <1>6, <1>7, <1>8 DEF History

(* ... and fits the row as it did.                                           *)
LEMMA CommandKeepsFit ==
  ASSUME NEW a \in Aggregates, NEW b, Commanded(a, b), History(a), NEW row,
         Fits(a, row)
  PROVE  Fits(b, row)
<1>1. Base(b) = Base(a)
  BY CommandKeepsHistory
<1>2. /\ Len(b.events) = Len(a.events) + 1
      /\ \A i \in DOMAIN a.events : b.events[i] = a.events[i]
      /\ b.events[Len(a.events) + 1].status = b.status
      /\ Follows(a.status, b.status) /\ b \in Aggregates
      /\ Extends(a.attempts, b.attempts)
  BY DEF Commanded
<1>3. /\ Len(a.events) \in Nat /\ DOMAIN a.events = 1..Len(a.events)
      /\ a.events = << >> <=> Len(a.events) = 0
  BY Numbers
<1>4. Extends(row.history, a.attempts) => Extends(row.history, b.attempts)
  BY <1>2, ExtendsTransitive
<1>5. b.events # << >>
  BY <1>2, <1>3, Numbers
<1>6. CASE a.events = << >>
  <2>1. b.events[1].status = b.status
    BY <1>2, <1>3, <1>6
  <2> QED
    BY <1>1, <1>2, <1>4, <1>5, <1>6, <2>1 DEF Fits
<1>7. CASE a.events # << >>
  <2>1. b.events[1] = a.events[1]
    BY <1>2, <1>3, <1>7
  <2> QED
    BY <1>1, <1>4, <1>5, <1>7, <2>1 DEF Fits
<1> QED
  BY <1>6, <1>7

(* A row that moves on leaves the copies behind that do not move with it.    *)
LEMMA NewRowKeepsFit ==
  ASSUME NEW a \in Aggregates, NEW row, NEW new, Fits(a, row),
         row.version \in Nat, new.version \in Nat, row.version < new.version
  PROVE  Fits(a, new)
<1>1. Base(a) \in Int
  BY Numbers
<1>2. Base(a) < new.version
  BY <1>1 DEF Fits
<1> QED
  BY <1>1, <1>2 DEF Fits

(* A call of save goes on knowing its copy when a command moves it.          *)
LEMMA CommandKeepsSave ==
  ASSUME NEW s, s.snapshot \in Aggregates, NEW a \in Aggregates, NEW b,
         Commanded(a, b), History(a), NEW row, SaveKnows(s, a, row)
  PROVE  SaveKnows(s, b, row)
<1>1. Base(b) = Base(a)
  BY CommandKeepsHistory
<1>2. /\ b.req = a.req /\ b.version = a.version + 1
      /\ \A i \in DOMAIN a.events : b.events[i] = a.events[i]
      /\ Extends(a.attempts, b.attempts)
  BY DEF Commanded
<1>3. PICK k : k = s.snapshot
  OBVIOUS
<1>4. /\ k.version \in Nat /\ Base(k) \in Int /\ Len(k.events) \in Nat
      /\ Base(k) + Len(k.events) = k.version
      /\ DOMAIN k.events = 1..Len(k.events)
  BY <1>3, Numbers
<1>5. /\ a.version \in Nat /\ Base(a) \in Int /\ Len(a.events) \in Nat
      /\ Base(a) + Len(a.events) = a.version
      /\ DOMAIN a.events = 1..Len(a.events)
  BY Numbers
<1>6. /\ k.version <= a.version /\ k.req = a.req
      /\ Extends(k.attempts, a.attempts)
      /\ Base(k) = Base(a) =>
           \A i \in DOMAIN k.events : a.events[i] = k.events[i]
  BY <1>3 DEF SaveKnows
<1>7. k.version <= b.version
  BY <1>2, <1>4, <1>5, <1>6
<1>8. Extends(k.attempts, b.attempts)
  BY <1>2, <1>6, ExtendsTransitive
<1>9. ASSUME Base(k) = Base(b), NEW i \in DOMAIN k.events
      PROVE  b.events[i] = k.events[i]
  <2>1. i \in DOMAIN a.events
    BY <1>1, <1>4, <1>5, <1>6, <1>9
  <2> QED
    BY <1>1, <1>2, <1>6, <1>9, <2>1
<1> QED
  BY <1>1, <1>2, <1>3, <1>6, <1>7, <1>8, <1>9 DEF SaveKnows

(* ... and its row when another call moves it on.                            *)
LEMMA NewRowKeepsSave ==
  ASSUME NEW s, s.snapshot \in Aggregates, NEW a, NEW row, NEW new,
         SaveKnows(s, a, row), row.version \in Nat, new.version \in Nat,
         row.version < new.version, s.phase \notin {"row", "attempts", "head"}
  PROVE  SaveKnows(s, a, new)
<1>1. s.phase # "committed" => Fits(s.snapshot, new)
  BY NewRowKeepsFit DEF SaveKnows
<1>2. s.snapshot.version \in Nat
  BY Numbers
<1>3. s.phase = "committed" => s.snapshot.version < new.version
  BY <1>2 DEF SaveKnows
<1>4. s.phase = "committed" =>
        s.snapshot.version <= new.version /\ s.snapshot.version # new.version
  BY <1>2, <1>3
<1> QED
  BY <1>1, <1>4 DEF SaveKnows

(* The snapshot of a call that begins is its copy.                           *)
LEMMA BegunKnows ==
  ASSUME NEW s, s.snapshot \in Aggregates, s.phase = "begun", NEW row,
         History(s.snapshot), Fits(s.snapshot, row)
  PROVE  SaveKnows(s, s.snapshot, row)
<1>1. s.snapshot.version <= s.snapshot.version /\ Base(s.snapshot) <= Base(s.snapshot)
  BY Numbers
<1> QED
  BY <1>1, ExtendsSelf DEF SaveKnows

(* A call that goes on with the row locked.                                  *)
LEMMA LockedKnows ==
  ASSUME NEW s, NEW t, t.snapshot = s.snapshot, s.phase # "committed",
         t.phase \in {"row", "attempts", "head"}, NEW a, NEW row,
         SaveKnows(s, a, row), row.version = Base(s.snapshot)
  PROVE  SaveKnows(t, a, row)
BY DEF SaveKnows

(* A call that commits leaves the row at its snapshot, and its copy starts   *)
(* from where the snapshot starts.                                           *)
LEMMA CommittedKnows ==
  ASSUME NEW s, s.snapshot \in Aggregates, NEW t, t.snapshot = s.snapshot,
         s.phase = "head", t.phase = "committed",
         NEW a \in Aggregates, NEW row, SaveKnows(s, a, row), Fits(a, row),
         NEW new, new.version = s.snapshot.version,
         new.status = s.snapshot.status, new.history = s.snapshot.attempts
  PROVE  SaveKnows(t, a, new)
<1>1. row.version = Base(s.snapshot) /\ Base(s.snapshot) <= Base(a)
      /\ Base(a) <= row.version
  BY DEF SaveKnows, Fits
<1>2. Base(s.snapshot) \in Int /\ Base(a) \in Int
      /\ s.snapshot.version \in Nat
  BY Numbers
<1>3. Base(a) = Base(s.snapshot)
  BY <1>1, <1>2
<1>4. s.snapshot.version <= new.version
  BY <1>2
<1> QED
  BY <1>3, <1>4 DEF SaveKnows

(* What an acknowledged save of n events makes of a copy a.                  *)
Acknowledged(a, b, n) ==
  /\ b \in Aggregates /\ b.req = a.req /\ b.version = a.version
  /\ b.status = a.status /\ b.attempts = a.attempts
  /\ n <= Len(a.events) /\ Len(b.events) = Len(a.events) - n
  /\ \A i \in DOMAIN b.events : b.events[i] = a.events[n + i]

(* The events that are left are the newest, and start from the snapshot.     *)
LEMMA AcknowledgeKeepsHistory ==
  ASSUME NEW a \in Aggregates, NEW b, NEW n \in Nat \ {0},
         Acknowledged(a, b, n), History(a)
  PROVE  History(b) /\ Base(b) = Base(a) + n /\ Base(b) > 0
<1> DEFINE k == Len(a.events)
           l == Len(b.events)
<1>1. /\ b \in Aggregates /\ b.version = a.version /\ b.status = a.status
      /\ b.attempts = a.attempts
      /\ n <= k /\ l = k - n
      /\ \A i \in DOMAIN b.events : b.events[i] = a.events[n + i]
  BY DEF Acknowledged
<1>2. /\ a.version \in Nat /\ k \in Nat /\ Base(a) \in Int
      /\ Base(a) + k = a.version /\ DOMAIN a.events = 1..k
      /\ (a.events = << >> <=> k = 0)
  BY Numbers
<1>3. /\ l \in Nat /\ DOMAIN b.events = 1..l /\ Base(b) \in Int
      /\ Base(b) + l = b.version /\ (b.events = << >> <=> l = 0)
  BY <1>1, Numbers
<1>4. /\ k <= a.version
      /\ \A i \in 1..k : a.events[i].version = Base(a) + i
      /\ a.events # << >> => a.events[k].status = a.status
      /\ \A i \in 1..k : i > 1 =>
           Follows(a.events[i - 1].status, a.events[i].status)
      /\ OpenLast(a.status, a.attempts)
  BY <1>2 DEF History
<1> HIDE DEF k, l
<1>5. Base(b) = Base(a) + n
  BY <1>1, <1>2, <1>3
<1>6. Base(b) > 0
  BY <1>1, <1>2, <1>3, <1>4, <1>5
<1>7. ASSUME NEW i \in DOMAIN b.events
      PROVE  /\ n + i \in 1..k /\ b.events[i] = a.events[n + i]
             /\ b.events[i].version = Base(b) + i
  <2>1. n + i \in 1..k /\ b.events[i] = a.events[n + i]
    BY <1>1, <1>2, <1>3
  <2>2. b.events[i].version = Base(a) + (n + i)
    BY <1>4, <2>1
  <2>3. Base(b) + i = Base(a) + (n + i)
    BY <1>2, <1>3, <1>5
  <2> QED
    BY <2>1, <2>2, <2>3
<1>8. ASSUME b.events # << >> PROVE b.events[l].status = b.status
  <2>1. l \in DOMAIN b.events /\ n + l = k /\ a.events # << >>
    BY <1>1, <1>2, <1>3, <1>8
  <2>2. b.events[l] = a.events[k]
    BY <1>7, <2>1
  <2> QED
    BY <1>1, <1>4, <2>1, <2>2
<1>9. ASSUME NEW i \in DOMAIN b.events, i > 1
      PROVE  Follows(b.events[i - 1].status, b.events[i].status)
  <2>1. /\ i - 1 \in DOMAIN b.events /\ n + (i - 1) = (n + i) - 1
        /\ n + i > 1
    BY <1>3, <1>9
  <2>2. /\ b.events[i] = a.events[n + i] /\ n + i \in 1..k
        /\ b.events[i - 1] = a.events[(n + i) - 1]
    BY <1>7, <2>1
  <2> QED
    BY <1>4, <2>1, <2>2
<1>10. l <= b.version
  BY <1>1, <1>2, <1>3, <1>4
<1>11. History(b)
  BY <1>1, <1>4, <1>6, <1>7, <1>8, <1>9, <1>10 DEF History, l
<1> QED
  BY <1>5, <1>6, <1>11

(* A copy whose save is acknowledged fits the row as that save or a later    *)
(* one left it.                                                              *)
LEMMA AcknowledgeKeepsFit ==
  ASSUME NEW a \in Aggregates, NEW s, s.snapshot \in Aggregates, NEW b,
         s.snapshot.events # << >>, History(a), NEW row, row.version \in Nat,
         SaveKnows(s, a, row), s.phase = "committed",
         Acknowledged(a, b, Len(s.snapshot.events))
  PROVE  Fits(b, row)
<1>1. PICK k : k = s.snapshot
  OBVIOUS
<1>2. PICK n : n = Len(k.events)
  OBVIOUS
<1>3. /\ k.version \in Nat /\ n \in Nat \ {0} /\ Base(k) \in Int
      /\ Base(k) + n = k.version /\ DOMAIN k.events = 1..n
  BY <1>1, <1>2, Numbers
<1>4. /\ History(k) /\ Base(a) = Base(k) /\ k.version <= row.version
      /\ k.version = row.version =>
           row.status = k.status /\ row.history = k.attempts
      /\ Extends(k.attempts, a.attempts)
      /\ \A i \in DOMAIN k.events : a.events[i] = k.events[i]
  BY <1>1 DEF SaveKnows
<1>5. Base(b) = Base(a) + n /\ Base(b) > 0 /\ b \in Aggregates
  <2>1. Acknowledged(a, b, n)
    BY <1>1, <1>2
  <2>2. Base(b) = Base(a) + n /\ Base(b) > 0
    BY <1>3, <2>1, AcknowledgeKeepsHistory
  <2> QED
    BY <2>1, <2>2 DEF Acknowledged
<1>6. Base(b) = k.version
  BY <1>3, <1>4, <1>5
<1>7. /\ a.events[n] = k.events[n] /\ k.events[n].status = k.status
  <2>1. n \in DOMAIN k.events /\ k.events # << >>
    BY <1>1, <1>3
  <2> QED
    BY <1>2, <1>4, <2>1 DEF History
<1>8. /\ b.status = a.status /\ b.attempts = a.attempts
      /\ n <= Len(a.events) /\ Len(b.events) = Len(a.events) - n
      /\ \A i \in DOMAIN b.events : b.events[i] = a.events[n + i]
  BY <1>1, <1>2 DEF Acknowledged
<1>9. /\ Len(a.events) \in Nat /\ DOMAIN a.events = 1..Len(a.events)
      /\ (a.events = << >> <=> Len(a.events) = 0)
  BY Numbers
<1>10. /\ Len(b.events) \in Nat /\ DOMAIN b.events = 1..Len(b.events)
       /\ (b.events = << >> <=> Len(b.events) = 0)
  BY <1>5, Numbers
<1>11. ASSUME k.version = row.version, b.events = << >>
       PROVE  b.status = row.status
  <2>1. n = Len(a.events) /\ a.events # << >>
    BY <1>3, <1>8, <1>9, <1>10, <1>11
  <2>2. a.events[n].status = a.status
    BY <2>1 DEF History
  <2> QED
    BY <1>4, <1>7, <1>8, <1>11, <2>2
<1>12. ASSUME k.version = row.version, b.events # << >>
       PROVE  Follows(row.status, b.events[1].status)
  <2>1. 1 \in DOMAIN b.events /\ n + 1 \in DOMAIN a.events /\ n + 1 > 1
        /\ (n + 1) - 1 = n
    BY <1>3, <1>8, <1>9, <1>10, <1>12
  <2>2. b.events[1] = a.events[n + 1]
    BY <1>8, <2>1
  <2>3. Follows(a.events[n].status, a.events[n + 1].status)
    BY <2>1 DEF History
  <2> QED
    BY <1>4, <1>7, <1>12, <2>2, <2>3
<1> QED
  BY <1>4, <1>6, <1>8, <1>11, <1>12 DEF Fits

(* Another call of the same copy knows that it came too late.                *)
LEMMA AcknowledgeKeepsSave ==
  ASSUME NEW a \in Aggregates, NEW b, NEW n \in Nat \ {0},
         Acknowledged(a, b, n), History(a), NEW y, y.snapshot \in Aggregates,
         y.phase # "committed", NEW row, SaveKnows(y, a, row)
  PROVE  SaveKnows(y, b, row)
<1>1. Base(b) = Base(a) + n
  BY AcknowledgeKeepsHistory
<1>2. Base(a) \in Int /\ Base(y.snapshot) \in Int
  BY Numbers
<1>3. Base(y.snapshot) <= Base(a)
  BY DEF SaveKnows
<1>4. Base(y.snapshot) <= Base(b) /\ Base(y.snapshot) # Base(b)
  BY <1>1, <1>2, <1>3
<1> QED
  BY <1>4 DEF SaveKnows, Acknowledged

-----------------------------------------------------------------------------
(* The steps of the repository keep what is known.                           *)

(* A call of save in progress, its copy and its row.                         *)
LEMMA SaveFacts ==
  ASSUME IInv, KnownInv, NEW x \in Saves, NEW s, s = saves[x], s # Null
  PROVE  /\ s \in SaveCalls /\ s.copy \in Copies /\ Live(s.copy)
         /\ s.snapshot \in Aggregates /\ s.snapshot.events # << >>
         /\ s.snapshot.req \in Requests
         /\ copies[s.copy] \in Aggregates
         /\ copies[s.copy].req = s.snapshot.req
         /\ History(copies[s.copy])
         /\ Fits(copies[s.copy], rows[s.snapshot.req])
         /\ SaveKnows(s, copies[s.copy], rows[s.snapshot.req])
         /\ rows[s.snapshot.req].version \in Nat
<1>1. s \in SaveCalls /\ Live(s.copy) /\ s.snapshot.events # << >>
  BY LiveTyped DEF IInv, TypeInv, SaversAreLive, EventsCaptured
<1>2. s.copy \in Copies /\ s.snapshot \in Aggregates
  BY <1>1 DEF SaveCalls
<1>3. copies[s.copy] \in Aggregates /\ s.snapshot.req \in Requests
  BY <1>1, <1>2, LiveTyped, Numbers DEF IInv, TypeInv
<1>4. SaveKnows(s, copies[s.copy], rows[s.snapshot.req])
  BY DEF KnownInv, SavesKnow
<1>5. copies[s.copy].req = s.snapshot.req
  BY <1>4 DEF SaveKnows
<1>6. History(copies[s.copy]) /\ Fits(copies[s.copy], rows[s.snapshot.req])
  BY <1>1, <1>2, <1>5 DEF KnownInv, CopiesKnow
<1>7. rows[s.snapshot.req].version \in Nat
  BY <1>3 DEF IInv, TypeInv, TypeOK
<1> QED
  BY <1>1, <1>2, <1>3, <1>4, <1>5, <1>6, <1>7

(* Copies are aggregates, and rows have versions.                            *)
LEMMA CopyFacts ==
  ASSUME IInv, KnownInv, NEW c \in Copies, Live(c)
  PROVE  /\ copies[c] \in Aggregates /\ copies[c].req \in Requests
         /\ History(copies[c]) /\ Fits(copies[c], rows[copies[c].req])
         /\ rows[copies[c].req].version \in Nat
<1>1. copies[c] \in Aggregates /\ copies[c].req \in Requests
  BY LiveTyped, Numbers DEF IInv, TypeInv
<1> QED
  BY <1>1 DEF IInv, TypeInv, TypeOK, KnownInv, CopiesKnow

(* A step of one call of save before its commit.                             *)
LEMMA CallKnown ==
  ASSUME IInv, KnownInv, UNCHANGED <<copies, unused, rows>>,
         NEW x \in Saves, NEW s, saves' = [saves EXCEPT ![x] = s],
         s # Null => /\ s.phase # "committed"
                     /\ SaveKnows(s, copies[s.copy], rows[s.snapshot.req]),
         s # Null /\ s.phase \in {"row", "attempts", "head"} =>
           \/ LocksRow(x, s.snapshot.req)
           \/ \A y \in Saves \ {x} : ~LocksRow(y, s.snapshot.req)
  PROVE  KnownInv'
<1>1. saves'[x] = s /\ \A y \in Saves \ {x} : saves'[y] = saves[y]
  BY DEF IInv, TypeInv, TypeOK
<1>2. UnusedAreNull' /\ CopiesKnow' /\ RowsAgree'
  BY DEF KnownInv, UnusedAreNull, CopiesKnow, RowsAgree, Live
<1>3. SavesKnow'
  BY <1>1 DEF KnownInv, SavesKnow
<1>4. \A y \in Saves \ {x} : \A q \in Requests :
        LocksRow(y, q)' <=> LocksRow(y, q)
  BY <1>1 DEF LocksRow
<1>5. \A q \in Requests : LocksRow(x, q)' =>
        LocksRow(x, q) \/ \A y \in Saves \ {x} : ~LocksRow(y, q)
  BY <1>1 DEF LocksRow
<1>6. RowIsLocked'
  BY <1>4, <1>5 DEF KnownInv, RowIsLocked
<1>7. CommitsAlone'
  BY <1>1 DEF KnownInv, CommitsAlone, Reached
<1> QED
  BY <1>2, <1>3, <1>6, <1>7 DEF KnownInv

(* The steps of a call before its commit, and its failure.                   *)
LEMMA CallStepsKnown ==
  ASSUME IInv, KnownInv, NEW x \in Saves,
         \/ \E c \in Copies : BeginSave(x, c)
         \/ PersistSnapshot(x) \/ PersistAttempts(x) \/ PersistEvents(x)
         \/ FailSave(x)
  PROVE  KnownInv'
<1>1. ASSUME NEW c \in Copies, BeginSave(x, c) PROVE KnownInv'
  <2>1. PICK s : s = [copy |-> c, snapshot |-> copies[c], phase |-> "begun",
                      attempts |-> << >>, audit |-> << >>]
    OBVIOUS
  <2>2. saves' = [saves EXCEPT ![x] = s] /\ UNCHANGED <<copies, unused, rows>>
        /\ Live(c)
    BY <1>1, <2>1 DEF BeginSave, UnchangedTables
  <2>3. s.phase = "begun" /\ s.copy = c /\ s.snapshot = copies[c]
    BY <2>1
  <2>4. SaveKnows(s, copies[s.copy], rows[s.snapshot.req])
    BY <2>2, <2>3, CopyFacts, BegunKnows
  <2> QED
    BY <2>2, <2>3, <2>4, CallKnown
<1>2. CASE UNCHANGED <<copies, unused, rows>> /\ End(x)
  BY <1>2, CallKnown DEF End
<1>3. ASSUME NEW s, s = saves[x], s # Null, NEW t, t.snapshot = s.snapshot,
             t.copy = s.copy, t.phase \in {"row", "attempts", "head"},
             s.phase # "committed",
             saves' = [saves EXCEPT ![x] = t],
             UNCHANGED <<copies, unused, rows>>,
             rows[s.snapshot.req].version = Base(s.snapshot),
             \/ LocksRow(x, s.snapshot.req)
             \/ \A y \in Saves \ {x} : ~LocksRow(y, s.snapshot.req)
      PROVE  KnownInv'
  <2>1. SaveKnows(s, copies[s.copy], rows[s.snapshot.req])
    BY <1>3, SaveFacts
  <2>2. SaveKnows(t, copies[s.copy], rows[s.snapshot.req])
    BY <1>3, <2>1, LockedKnows
  <2> QED
    BY <1>3, <2>2, CallKnown
<1>4. CASE PersistSnapshot(x)
  <2>1. PICK s : s = saves[x]
    OBVIOUS
  <2>2. s # Null /\ s.phase = "begun"
    BY <1>4, <2>1 DEF PersistSnapshot, Reached
  <2>3. s \in SaveCalls
    BY <2>1, <2>2, SaveFacts
  <2>4. CASE RowMatches(s)
    <3>1. PICK t : t = [s EXCEPT !.phase = "row"]
      OBVIOUS
    <3>2. t.phase = "row" /\ t.copy = s.copy /\ t.snapshot = s.snapshot
      BY <2>3, <3>1 DEF SaveCalls
    <3>3. /\ saves' = [saves EXCEPT ![x] = t] /\ UNCHANGED <<copies, unused, rows>>
          /\ \A y \in Saves \ {x} : ~LocksRow(y, s.snapshot.req)
      BY <1>4, <2>1, <2>3, <2>4, <3>1
      DEF PersistSnapshot, SnapshotOf, UnchangedTables, IInv, TypeInv, TypeOK,
          SaveCalls
    <3>4. rows[s.snapshot.req].version = Base(s.snapshot)
      BY <2>4 DEF RowMatches, Expected, Base
    <3> QED
      BY <1>3, <2>1, <2>2, <3>2, <3>3, <3>4
  <2>5. CASE ~RowMatches(s)
    BY <1>2, <1>4, <2>1, <2>5 DEF PersistSnapshot, UnchangedTables
  <2> QED
    BY <2>4, <2>5
<1>5. ASSUME NEW s, s = saves[x], s # Null, s.phase \in {"row", "attempts"}
      PROVE  /\ s \in SaveCalls /\ LocksRow(x, s.snapshot.req)
             /\ rows[s.snapshot.req].version = Base(s.snapshot)
  <2>1. s \in SaveCalls /\ SaveKnows(s, copies[s.copy], rows[s.snapshot.req])
    BY <1>5, SaveFacts
  <2> QED
    BY <1>5, <2>1 DEF SaveKnows, LocksRow
<1>6. CASE PersistAttempts(x)
  <2>1. PICK s : s = saves[x]
    OBVIOUS
  <2>2. s # Null /\ s.phase = "row"
    BY <1>6, <2>1 DEF PersistAttempts, Reached
  <2>3. /\ s \in SaveCalls /\ LocksRow(x, s.snapshot.req)
        /\ rows[s.snapshot.req].version = Base(s.snapshot)
    BY <1>5, <2>1, <2>2
  <2>4. PICK new : new = copies[s.copy].attempts
    OBVIOUS
  <2>5. PICK stored : stored = attempts[s.snapshot.req]
    OBVIOUS
  <2>6. CASE AttemptsClash(new, stored)
    BY <1>2, <1>6, <2>1, <2>4, <2>5, <2>6 DEF PersistAttempts, UnchangedTables
  <2>7. CASE ~AttemptsClash(new, stored)
    <3>1. PICK t : t = [s EXCEPT !.phase = "attempts",
                                 !.attempts = Merged(new, stored)]
      OBVIOUS
    <3>2. t.phase = "attempts" /\ t.copy = s.copy /\ t.snapshot = s.snapshot
      BY <2>3, <3>1 DEF SaveCalls
    <3>3. saves' = [saves EXCEPT ![x] = t] /\ UNCHANGED <<copies, unused, rows>>
      BY <1>6, <2>1, <2>3, <2>4, <2>5, <2>7, <3>1
      DEF PersistAttempts, UnchangedTables, IInv, TypeInv, TypeOK, SaveCalls
    <3> QED
      BY <1>3, <2>1, <2>2, <2>3, <3>2, <3>3
  <2> QED
    BY <2>6, <2>7
<1>7. CASE PersistEvents(x)
  <2>1. PICK s : s = saves[x]
    OBVIOUS
  <2>2. s # Null /\ s.phase = "attempts"
    BY <1>7, <2>1 DEF PersistEvents, Reached
  <2>3. /\ s \in SaveCalls /\ LocksRow(x, s.snapshot.req)
        /\ rows[s.snapshot.req].version = Base(s.snapshot)
    BY <1>5, <2>1, <2>2
  <2>4. PICK t : t = [s EXCEPT !.phase = "head",
                        !.audit = Chained(head, s.snapshot.req,
                                          s.snapshot.events)]
    OBVIOUS
  <2>5. t.phase = "head" /\ t.copy = s.copy /\ t.snapshot = s.snapshot
    BY <2>3, <2>4 DEF SaveCalls
  <2>6. saves' = [saves EXCEPT ![x] = t] /\ UNCHANGED <<copies, unused, rows>>
    BY <1>7, <2>1, <2>3, <2>4
    DEF PersistEvents, UnchangedTables, IInv, TypeInv, TypeOK, SaveCalls
  <2> QED
    BY <1>3, <2>1, <2>2, <2>3, <2>5, <2>6
<1>8. CASE FailSave(x)
  BY <1>2, <1>8 DEF FailSave, UnchangedTables
<1> QED
  BY <1>1, <1>4, <1>6, <1>7, <1>8

(* A command leaves the events it makes on its copy.                         *)
LEMMA CommandKnown ==
  ASSUME IInv, KnownInv, NEW c \in Copies, Command(c)
  PROVE  KnownInv'
<1>1. PICK a : a = copies[c]
  OBVIOUS
<1>2. PICK b : b = copies'[c]
  OBVIOUS
<1>3. /\ Live(c) /\ UNCHANGED <<unused, saves, rows>>
  BY DEF Command
<1>4. a \in Aggregates /\ History(a) /\ Fits(a, rows[a.req])
  BY <1>1, <1>3, CopyFacts
<1>5. /\ Commanded(a, b) /\ b # Null
      /\ \A d \in Copies \ {c} : copies'[d] = copies[d]
  BY <1>1, <1>2, <1>4, CommandMakes DEF IInv
<1>6. b.req = a.req
  BY <1>5 DEF Commanded
<1>7. History(b) /\ Fits(b, rows[b.req])
  BY <1>4, <1>5, <1>6, CommandKeepsHistory, CommandKeepsFit
<1>8. UnusedAreNull'
  BY <1>3, <1>5 DEF KnownInv, UnusedAreNull, IInv, TypeInv, TypeOK, Live
<1>9. CopiesKnow'
  BY <1>2, <1>3, <1>5, <1>7 DEF KnownInv, CopiesKnow, Live
<1>10. ASSUME NEW x \in Saves, NEW s, s = saves[x], s # Null
       PROVE  SaveKnows(s, copies'[s.copy], rows[s.snapshot.req])
  <2>1. /\ s.snapshot \in Aggregates /\ s.copy \in Copies
        /\ SaveKnows(s, copies[s.copy], rows[s.snapshot.req])
    BY <1>10, SaveFacts
  <2>2. CASE s.copy = c
    BY <1>1, <1>2, <1>4, <1>5, <2>1, <2>2, CommandKeepsSave
  <2>3. CASE s.copy # c
    BY <1>5, <2>1, <2>3
  <2> QED
    BY <2>2, <2>3
<1>11. SavesKnow'
  BY <1>3, <1>10 DEF SavesKnow
<1>12. RowsAgree' /\ RowIsLocked' /\ CommitsAlone'
  BY <1>3 DEF KnownInv, RowsAgree, RowIsLocked, CommitsAlone, LocksRow, Reached
<1> QED
  BY <1>8, <1>9, <1>11, <1>12 DEF KnownInv

(* A handler takes a copy that no call of save has.                          *)
LEMMA TakeKnown ==
  ASSUME IInv, KnownInv, NEW c \in unused, NEW b, copies' = [copies EXCEPT ![c] = b],
         History(b), Fits(b, rows[b.req]), unused' = unused \ {c},
         UNCHANGED <<saves, rows>>
  PROVE  KnownInv'
<1>1. copies[c] = Null /\ c \in Copies
  BY DEF KnownInv, UnusedAreNull, IInv, TypeInv, TypeOK
<1>2. copies'[c] = b /\ \A d \in Copies \ {c} : copies'[d] = copies[d]
  BY <1>1 DEF IInv, TypeInv, TypeOK
<1>3. UnusedAreNull'
  BY <1>2 DEF KnownInv, UnusedAreNull, IInv, TypeInv, TypeOK
<1>4. CopiesKnow'
  BY <1>2 DEF KnownInv, CopiesKnow, Live
<1>5. ASSUME NEW x \in Saves, NEW s, s = saves[x], s # Null
      PROVE  SaveKnows(s, copies'[s.copy], rows[s.snapshot.req])
  <2>1. /\ s.copy \in Copies /\ Live(s.copy)
        /\ SaveKnows(s, copies[s.copy], rows[s.snapshot.req])
    BY <1>5, SaveFacts
  <2> QED
    BY <1>1, <1>2, <2>1 DEF Live
<1>6. SavesKnow'
  BY <1>5 DEF SavesKnow
<1>7. RowsAgree' /\ RowIsLocked' /\ CommitsAlone'
  BY DEF KnownInv, RowsAgree, RowIsLocked, CommitsAlone, LocksRow, Reached
<1> QED
  BY <1>3, <1>4, <1>6, <1>7 DEF KnownInv

(* A new request, and one that was stored.                                   *)
LEMMA TakesKnown ==
  ASSUME IInv, KnownInv, NEW c \in Copies, NEW q \in Requests,
         Create(c, q) \/ Load(c, q)
  PROVE  KnownInv'
<1>1. /\ rows[q].version \in Nat /\ rows[q].status \in Statuses
      /\ rows[q].history \in Seq(AttemptRows)
      /\ OpenLast(rows[q].status, rows[q].history)
      /\ rows[q].version = 0 => rows[q].history = << >>
  BY DEF IInv, TypeInv, TypeOK, KnownInv, RowsAgree
<1>2. CASE Create(c, q)
  <2>1. PICK e : e = [version |-> 1, status |-> "created"]
    OBVIOUS
  <2>2. PICK b : b = [req |-> q, status |-> "created", attempts |-> << >>,
                      version |-> 1, events |-> <<e>>]
    OBVIOUS
  <2>3. /\ c \in unused /\ copies' = [copies EXCEPT ![c] = b]
        /\ unused' = unused \ {c} /\ UNCHANGED <<saves, rows>>
    BY <1>2, <2>1, <2>2 DEF Create
  <2>4. /\ b.req = q /\ b.status = "created" /\ b.attempts = << >>
        /\ b.version = 1 /\ b.events = <<e>>
        /\ e.version = 1 /\ e.status = "created"
    BY <2>1, <2>2
  <2>5. Len(b.events) = 1 /\ DOMAIN b.events = {1} /\ b.events[1] = e
    BY <2>4
  <2>6. Base(b) = 0
    BY <2>4, <2>5 DEF Base
  <2>7. OpenLast(b.status, b.attempts)
    BY <2>4 DEF OpenLast
  <2>8. History(b)
    BY <2>4, <2>5, <2>6, <2>7 DEF History
  <2>9. Fits(b, rows[b.req])
    BY <1>1, <2>4, <2>6 DEF Fits, Extends
  <2> QED
    BY <2>3, <2>8, <2>9, TakeKnown
<1>3. CASE Load(c, q)
  <2>1. PICK b : b = [req |-> q, status |-> rows[q].status,
                      attempts |-> rows[q].history,
                      version |-> rows[q].version, events |-> << >>]
    OBVIOUS
  <2>2. /\ c \in unused /\ copies' = [copies EXCEPT ![c] = b]
        /\ unused' = unused \ {c} /\ UNCHANGED <<saves, rows>>
        /\ rows[q].version > 0
    BY <1>3, <2>1 DEF Load
  <2>3. /\ b.req = q /\ b.status = rows[q].status
        /\ b.attempts = rows[q].history
        /\ b.version = rows[q].version /\ b.events = << >>
    BY <2>1
  <2>4. Len(b.events) = 0 /\ DOMAIN b.events = {}
    BY <2>3
  <2>5. Base(b) = rows[q].version
    BY <1>1, <2>3, <2>4 DEF Base
  <2>6. History(b)
    BY <1>1, <2>2, <2>3, <2>4, <2>5 DEF History
  <2>7. Fits(b, rows[b.req])
    BY <1>1, <2>3, <2>5, ExtendsSelf DEF Fits
  <2> QED
    BY <2>2, <2>6, <2>7, TakeKnown
<1> QED
  BY <1>2, <1>3

(* A process ends.                                                           *)
LEMMA CrashKnown ==
  ASSUME IInv, KnownInv, NEW c \in Copies, Crash(c)
  PROVE  KnownInv'
<1>1. /\ copies'[c] = Null /\ \A d \in Copies \ {c} : copies'[d] = copies[d]
      /\ UNCHANGED <<unused, rows>>
  BY DEF Crash, IInv, TypeInv, TypeOK
<1>2. \A x \in Saves : saves'[x] # Null =>
        saves'[x] = saves[x] /\ saves[x].copy # c
  BY DEF Crash
<1>3. UnusedAreNull' /\ CopiesKnow' /\ RowsAgree'
  BY <1>1 DEF KnownInv, UnusedAreNull, CopiesKnow, RowsAgree, Live, IInv,
     TypeInv, TypeOK
<1>4. ASSUME NEW x \in Saves, saves'[x] # Null
      PROVE  SaveKnows(saves[x], copies'[saves[x].copy],
                       rows[saves[x].snapshot.req])
  <2>1. PICK s : s = saves[x] /\ s # Null /\ s.copy # c
    BY <1>2, <1>4
  <2>2. s.copy \in Copies /\ SaveKnows(s, copies[s.copy], rows[s.snapshot.req])
    BY <2>1, SaveFacts
  <2> QED
    BY <1>1, <2>1, <2>2
<1>5. SavesKnow'
  BY <1>1, <1>2, <1>4 DEF SavesKnow
<1>6. \A x \in Saves : \A q \in Requests : LocksRow(x, q)' => LocksRow(x, q)
  BY <1>2 DEF LocksRow
<1>7. \A x \in Saves : Reached(x, "committed")' =>
        Reached(x, "committed") /\ saves'[x] = saves[x]
  BY <1>2 DEF Reached
<1>8. RowIsLocked' /\ CommitsAlone'
  BY <1>6, <1>7 DEF KnownInv, RowIsLocked, CommitsAlone
<1> QED
  BY <1>3, <1>5, <1>8 DEF KnownInv

(* What a commit does to the row, and with what it is written.               *)
LEMMA CommitMakes ==
  ASSUME IInv, KnownInv, NEW x \in Saves, Commit(x),
         NEW s, s = saves[x], NEW q, q = s.snapshot.req,
         NEW n, n = Len(s.snapshot.events)
  PROVE  /\ s # Null /\ s.phase = "head" /\ q \in Requests
         /\ n \in Nat \ {0} /\ DOMAIN s.snapshot.events = 1..n
         /\ rows[q].version = Base(s.snapshot)
         /\ rows'[q].version = rows[q].version + n
         /\ rows'[q] = [version |-> s.snapshot.version,
                        status |-> s.snapshot.status,
                        history |-> s.snapshot.attempts]
         /\ \A r \in Requests \ {q} : rows'[r] = rows[r]
         /\ saves'[x].phase = "committed" /\ saves'[x].copy = s.copy
         /\ saves'[x].snapshot = s.snapshot
         /\ \A y \in Saves \ {x} : saves'[y] = saves[y]
         /\ UNCHANGED <<copies, unused>>
<1>1. s # Null /\ s.phase = "head"
  BY DEF Commit, Reached
<1>2. /\ s \in SaveCalls /\ q \in Requests /\ s.snapshot \in Aggregates
      /\ s.snapshot.events # << >>
      /\ SaveKnows(s, copies[s.copy], rows[q])
  BY <1>1, SaveFacts
<1>3. PICK row : row = [version |-> s.snapshot.version,
                        status |-> s.snapshot.status,
                        history |-> s.snapshot.attempts]
  OBVIOUS
<1>4. PICK t : t = [s EXCEPT !.phase = "committed"]
  OBVIOUS
<1>5. t.phase = "committed" /\ t.copy = s.copy /\ t.snapshot = s.snapshot
  BY <1>2, <1>4 DEF SaveCalls
<1>6. /\ rows' = [rows EXCEPT ![q] = row]
      /\ saves' = [saves EXCEPT ![x] = t] /\ UNCHANGED <<copies, unused>>
  BY <1>2, <1>3, <1>4 DEF Commit, IInv, TypeInv, TypeOK, SaveCalls
<1>7. /\ rows'[q] = row /\ \A r \in Requests \ {q} : rows'[r] = rows[r]
      /\ saves'[x] = t /\ \A y \in Saves \ {x} : saves'[y] = saves[y]
  BY <1>2, <1>6 DEF IInv, TypeInv, TypeOK
<1>8. rows[q].version = Base(s.snapshot)
  BY <1>1, <1>2 DEF SaveKnows
<1>9. /\ n \in Nat \ {0} /\ DOMAIN s.snapshot.events = 1..n
      /\ Base(s.snapshot) + n = s.snapshot.version
  BY <1>2, Numbers
<1>10. rows'[q].version = s.snapshot.version
  BY <1>3, <1>7
<1> QED
  BY <1>1, <1>2, <1>3, <1>5, <1>6, <1>7, <1>8, <1>9, <1>10

(* A commit moves the row on under every other copy and call.                *)
LEMMA CommitKnown ==
  ASSUME IInv, KnownInv, NEW x \in Saves, Commit(x)
  PROVE  KnownInv'
<1>1. PICK s : s = saves[x]
  OBVIOUS
<1>2. PICK q : q = s.snapshot.req
  OBVIOUS
<1>3. PICK n : n = Len(s.snapshot.events)
  OBVIOUS
<1>4. PICK row : row = rows[q]
  OBVIOUS
<1>5. PICK new : new = rows'[q]
  OBVIOUS
<1>6. PICK t : t = saves'[x]
  OBVIOUS
<1>7. /\ s # Null /\ s.phase = "head" /\ q \in Requests
      /\ n \in Nat \ {0}
      /\ row.version = Base(s.snapshot)
      /\ new.version = row.version + n
      /\ new = [version |-> s.snapshot.version, status |-> s.snapshot.status,
                history |-> s.snapshot.attempts]
      /\ \A r \in Requests \ {q} : rows'[r] = rows[r]
      /\ t.phase = "committed" /\ t.copy = s.copy /\ t.snapshot = s.snapshot
      /\ \A y \in Saves \ {x} : saves'[y] = saves[y]
      /\ UNCHANGED <<copies, unused>>
  BY <1>1, <1>2, <1>3, <1>4, <1>5, <1>6, CommitMakes
<1>8. /\ s.snapshot \in Aggregates /\ s.copy \in Copies
      /\ copies[s.copy] \in Aggregates /\ Fits(copies[s.copy], row)
      /\ SaveKnows(s, copies[s.copy], row) /\ row.version \in Nat
      /\ s \in SaveCalls /\ Live(s.copy)
  BY <1>1, <1>2, <1>4, <1>7, SaveFacts
<1>9. /\ new.version \in Nat /\ row.version < new.version
      /\ new.version = s.snapshot.version /\ new.status = s.snapshot.status
      /\ new.history = s.snapshot.attempts
  BY <1>7, <1>8
<1>10. UnusedAreNull'
  BY <1>7 DEF KnownInv, UnusedAreNull
<1>11. ASSUME NEW c \in Copies, Live(c)
       PROVE  History(copies[c]) /\ Fits(copies[c], rows'[copies[c].req])
  <2>1. /\ copies[c] \in Aggregates /\ copies[c].req \in Requests
        /\ History(copies[c]) /\ Fits(copies[c], rows[copies[c].req])
    BY <1>11, CopyFacts
  <2>2. CASE copies[c].req = q
    BY <1>4, <1>5, <1>8, <1>9, <2>1, <2>2, NewRowKeepsFit
  <2>3. CASE copies[c].req # q
    BY <1>7, <2>1, <2>3
  <2> QED
    BY <2>2, <2>3
<1>12. CopiesKnow'
  BY <1>7, <1>11 DEF CopiesKnow, Live
<1>13. LocksRow(x, q) /\ \A y \in Saves \ {x} : ~LocksRow(y, q)
  BY <1>1, <1>2, <1>7 DEF LocksRow, KnownInv, RowIsLocked
<1>14. ASSUME NEW y \in Saves \ {x}, NEW u, u = saves[y], u # Null
       PROVE  SaveKnows(u, copies[u.copy], rows'[u.snapshot.req])
  <2>1. /\ u.snapshot \in Aggregates /\ u.snapshot.req \in Requests
        /\ SaveKnows(u, copies[u.copy], rows[u.snapshot.req])
    BY <1>14, SaveFacts
  <2>2. CASE u.snapshot.req = q
    <3>1. u.phase \notin {"row", "attempts", "head"}
      BY <1>13, <1>14, <2>2 DEF LocksRow
    <3> QED
      BY <1>4, <1>5, <1>8, <1>9, <2>1, <2>2, <3>1, NewRowKeepsSave
  <2>3. CASE u.snapshot.req # q
    BY <1>7, <2>1, <2>3
  <2> QED
    BY <2>2, <2>3
<1>15. SaveKnows(t, copies[t.copy], new)
  BY <1>7, <1>8, <1>9, CommittedKnows
<1>16. SavesKnow'
  <2>1. ASSUME NEW y \in Saves, saves'[y] # Null
        PROVE  SaveKnows(saves'[y], copies'[saves'[y].copy],
                         rows'[saves'[y].snapshot.req])
    <3>1. CASE y = x
      BY <1>2, <1>5, <1>6, <1>7, <1>15, <3>1
    <3>2. CASE y # x
      BY <1>7, <1>14, <2>1, <3>2
    <3> QED
      BY <3>1, <3>2
  <2> QED
    BY <2>1 DEF SavesKnow
<1>17. RowsAgree'
  <2>1. OpenLast(new.status, new.history)
    BY <1>8, <1>9 DEF SaveKnows, History, OpenLast
  <2>2. new.version # 0
    BY <1>7, <1>8
  <2> QED
    BY <1>5, <1>7, <2>1, <2>2 DEF KnownInv, RowsAgree
<1>18. \A y \in Saves : \A r \in Requests : LocksRow(y, r)' => LocksRow(y, r)
  BY <1>6, <1>7 DEF LocksRow
<1>19. RowIsLocked'
  BY <1>18 DEF KnownInv, RowIsLocked
<1>20. ASSUME NEW y \in Saves \ {x}, Reached(y, "committed")
       PROVE  saves[y].copy # s.copy
  <2>1. PICK u : u = saves[y] /\ u # Null /\ u.phase = "committed"
    BY <1>20 DEF Reached
  <2>2. /\ u.snapshot \in Aggregates /\ u.snapshot.events # << >>
        /\ copies[u.copy].req = u.snapshot.req
        /\ SaveKnows(u, copies[u.copy], rows[u.snapshot.req])
        /\ copies[s.copy].req = q
    BY <1>1, <1>2, <1>7, <2>1, SaveFacts
  <2>3. SUFFICES ASSUME u.copy = s.copy PROVE FALSE
    BY <2>1
  <2>4. /\ Base(copies[s.copy]) = Base(u.snapshot)
        /\ u.snapshot.version <= row.version
    BY <1>4, <2>1, <2>2, <2>3 DEF SaveKnows
  <2>5. Base(s.snapshot) <= Base(copies[s.copy]) /\ Base(copies[s.copy]) <= row.version
    BY <1>8 DEF SaveKnows, Fits
  <2>6. /\ Base(u.snapshot) \in Int /\ Base(s.snapshot) \in Int
        /\ Len(u.snapshot.events) \in Nat \ {0}
        /\ Base(u.snapshot) + Len(u.snapshot.events) = u.snapshot.version
    BY <1>8, <2>2, Numbers
  <2> QED
    BY <1>7, <1>8, <2>4, <2>5, <2>6
<1>21. CommitsAlone'
  <2>1. ASSUME NEW y \in Saves, NEW z \in Saves, Reached(y, "committed")',
               Reached(z, "committed")', saves'[y].copy = saves'[z].copy
        PROVE  y = z
    <3>1. \A w \in Saves \ {x} :
            Reached(w, "committed")' => Reached(w, "committed")
      BY <1>7 DEF Reached
    <3>2. CASE y # x /\ z # x
      BY <1>7, <2>1, <3>1, <3>2 DEF KnownInv, CommitsAlone
    <3>3. CASE y = x /\ z # x
      BY <1>6, <1>7, <1>20, <2>1, <3>1, <3>3
    <3>4. CASE y # x /\ z = x
      BY <1>6, <1>7, <1>20, <2>1, <3>1, <3>4
    <3> QED
      BY <3>2, <3>3, <3>4
  <2> QED
    BY <2>1 DEF CommitsAlone
<1> QED
  BY <1>10, <1>12, <1>16, <1>17, <1>19, <1>21 DEF KnownInv

(* What an acknowledged save makes of its copy.                              *)
LEMMA AcknowledgeMakes ==
  ASSUME IInv, KnownInv, NEW x \in Saves, Acknowledge(x),
         NEW s, s = saves[x]
  PROVE  /\ s # Null /\ s.phase = "committed"
         /\ Acknowledged(copies[s.copy], copies'[s.copy], Len(s.snapshot.events))
         /\ \A d \in Copies \ {s.copy} : copies'[d] = copies[d]
         /\ copies'[s.copy] # Null
         /\ saves'[x] = Null /\ \A y \in Saves \ {x} : saves'[y] = saves[y]
         /\ UNCHANGED <<unused, rows, attempts, audit>>
<1>1. s # Null /\ s.phase = "committed"
  BY DEF Acknowledge, Reached
<1>2. PICK a : a = copies[s.copy]
  OBVIOUS
<1>3. PICK n : n = Len(s.snapshot.events)
  OBVIOUS
<1>4. /\ s \in SaveCalls /\ s.copy \in Copies /\ s.snapshot \in Aggregates
      /\ a \in Aggregates /\ SaveKnows(s, a, rows[s.snapshot.req])
  BY <1>1, <1>2, SaveFacts
<1>5. /\ n \in Nat /\ Base(s.snapshot) \in Int
      /\ Base(s.snapshot) + n = s.snapshot.version
      /\ s.snapshot.version \in Nat
  BY <1>3, <1>4, Numbers
<1>6. /\ Len(a.events) \in Nat /\ Base(a) \in Int
      /\ Base(a) + Len(a.events) = a.version /\ a.version \in Nat
  BY <1>4, Numbers
<1>7. Base(a) = Base(s.snapshot) /\ s.snapshot.version <= a.version
  BY <1>1, <1>4 DEF SaveKnows
<1>8. n <= Len(a.events)
  BY <1>5, <1>6, <1>7
<1>9. a.events \in Seq(Events)
  BY <1>4 DEF Aggregates
<1>10. PICK k \in Nat : k = Len(a.events)
  BY <1>6
<1>11. PICK left : left = SubSeq(a.events, n + 1, k)
  OBVIOUS
<1>12. \A i \in n + 1 .. k : a.events[i] \in Events
  BY <1>5, <1>9, <1>10, SeqIsFunction
<1>13. /\ left \in Seq(Events) /\ Len(left) = k - n
       /\ \A i \in 1..(k - n) : left[i] = a.events[n + i]
  <2>1. PICK m \in Int : m = n + 1
    BY <1>5
  <2>2. \A i \in m .. k : a.events[i] \in Events
    BY <1>12, <2>1
  <2>3. k \in Int
    OBVIOUS
  <2>4. PICK es : es = a.events
    OBVIOUS
  <2>5. \A i \in m .. k : es[i] \in Events
    BY <2>2, <2>4
  <2>6. /\ SubSeq(es, m, k) \in Seq(Events)
        /\ Len(SubSeq(es, m, k)) = IF m <= k THEN k - m + 1 ELSE 0
        /\ \A i \in 1 .. k - m + 1 : SubSeq(es, m, k)[i] = es[m + i - 1]
    BY <2>3, <2>5, SubSeqProperties
  <2>7. left = SubSeq(es, m, k)
    BY <1>11, <2>1, <2>4
  <2>8. k - m + 1 = k - n /\ (IF m <= k THEN k - m + 1 ELSE 0) = k - n
    BY <1>5, <1>8, <1>10, <2>1
  <2>9. ASSUME NEW i \in 1..(k - n) PROVE left[i] = a.events[n + i]
    <3>1. m + i - 1 = n + i /\ i \in 1 .. k - m + 1
      BY <1>5, <2>1, <2>8
    <3> QED
      BY <2>4, <2>6, <2>7, <3>1
  <2> QED
    BY <2>6, <2>7, <2>8, <2>9
<1>14. DOMAIN left = 1..(k - n)
  BY <1>13, SeqIsFunction
<1>15. PICK b : b = [a EXCEPT !.events = left]
  OBVIOUS
<1>16. /\ b \in Aggregates /\ b.req = a.req /\ b.version = a.version
       /\ b.status = a.status /\ b.attempts = a.attempts /\ b.events = left
  BY <1>4, <1>13, <1>15 DEF Aggregates
<1>17. Acknowledged(a, b, n)
  BY <1>8, <1>10, <1>13, <1>14, <1>16 DEF Acknowledged
<1>18. /\ copies' = [copies EXCEPT ![s.copy] = b]
       /\ saves' = [saves EXCEPT ![x] = Null]
       /\ UNCHANGED <<unused, rows, attempts, audit>>
  BY <1>2, <1>3, <1>4, <1>10, <1>11, <1>15
  DEF Acknowledge, Remaining, End, UnchangedTables, IInv, TypeInv, TypeOK,
      Aggregates
<1>19. /\ copies'[s.copy] = b
       /\ \A d \in Copies \ {s.copy} : copies'[d] = copies[d]
       /\ saves'[x] = Null /\ \A y \in Saves \ {x} : saves'[y] = saves[y]
  BY <1>4, <1>18 DEF IInv, TypeInv, TypeOK
<1> QED
  BY <1>1, <1>2, <1>3, <1>16, <1>17, <1>18, <1>19, NullAssumption

(* An acknowledged save moves the start of its copy's events.                *)
LEMMA AcknowledgeKnown ==
  ASSUME IInv, KnownInv, NEW x \in Saves, Acknowledge(x)
  PROVE  KnownInv'
<1>1. PICK s : s = saves[x]
  OBVIOUS
<1>2. PICK c : c = s.copy
  OBVIOUS
<1>3. PICK a : a = copies[c]
  OBVIOUS
<1>4. PICK b : b = copies'[c]
  OBVIOUS
<1>5. PICK n : n = Len(s.snapshot.events)
  OBVIOUS
<1>6. /\ s # Null /\ s.phase = "committed" /\ Acknowledged(a, b, n)
      /\ \A d \in Copies \ {c} : copies'[d] = copies[d]
      /\ b # Null
      /\ saves'[x] = Null /\ \A y \in Saves \ {x} : saves'[y] = saves[y]
      /\ UNCHANGED <<unused, rows>>
  BY <1>1, <1>2, <1>3, <1>4, <1>5, AcknowledgeMakes
<1>7. /\ s.snapshot \in Aggregates /\ c \in Copies /\ Live(c)
      /\ s.snapshot.events # << >>
      /\ a \in Aggregates /\ a.req = s.snapshot.req /\ History(a)
      /\ SaveKnows(s, a, rows[a.req]) /\ rows[a.req].version \in Nat
  BY <1>1, <1>2, <1>3, <1>6, SaveFacts
<1>8. n \in Nat \ {0}
  BY <1>5, <1>7, Numbers
<1>9. b.req = a.req
  BY <1>6 DEF Acknowledged
<1>10. History(b)
  BY <1>6, <1>7, <1>8, AcknowledgeKeepsHistory
<1>11. Fits(b, rows[b.req])
  BY <1>5, <1>6, <1>7, <1>9, AcknowledgeKeepsFit
<1>12. UnusedAreNull'
  BY <1>6, <1>7 DEF KnownInv, UnusedAreNull, IInv, TypeInv, TypeOK, Live
<1>13. CopiesKnow'
  BY <1>4, <1>6, <1>10, <1>11 DEF KnownInv, CopiesKnow, Live
<1>14. ASSUME NEW y \in Saves \ {x}, NEW u, u = saves[y], u # Null
       PROVE  SaveKnows(u, copies'[u.copy], rows[u.snapshot.req])
  <2>1. /\ u.snapshot \in Aggregates /\ u.copy \in Copies
        /\ SaveKnows(u, copies[u.copy], rows[u.snapshot.req])
    BY <1>14, SaveFacts
  <2>2. CASE u.copy = c
    <3>1. u.phase # "committed"
      BY <1>1, <1>2, <1>6, <1>14, <2>2 DEF KnownInv, CommitsAlone, Reached
    <3> QED
      BY <1>3, <1>4, <1>6, <1>7, <1>8, <2>1, <2>2, <3>1, AcknowledgeKeepsSave
  <2>3. CASE u.copy # c
    BY <1>6, <2>1, <2>3
  <2> QED
    BY <2>2, <2>3
<1>15. SavesKnow'
  BY <1>6, <1>14 DEF SavesKnow
<1>16. \A y \in Saves : saves'[y] # Null => saves'[y] = saves[y]
  BY <1>6
<1>17. RowsAgree' /\ RowIsLocked' /\ CommitsAlone'
  BY <1>6, <1>16 DEF KnownInv, RowsAgree, RowIsLocked, CommitsAlone, LocksRow, Reached
<1> QED
  BY <1>12, <1>13, <1>15, <1>17 DEF KnownInv

(* Whatever step is taken.                                                   *)
LEMMA KnownStep ==
  ASSUME IInv, KnownInv, [Next]_vars PROVE KnownInv'
<1>1. CASE UNCHANGED vars
  BY <1>1 DEF vars, KnownInv, UnusedAreNull, CopiesKnow, SavesKnow, RowsAgree,
     RowIsLocked, CommitsAlone, Live, LocksRow, Reached
<1> QED
  BY <1>1, TakesKnown, CommandKnown, CrashKnown, CallStepsKnown, CommitKnown,
     AcknowledgeKnown DEF Next, SaveStep

-----------------------------------------------------------------------------
(* The audit trail.                                                          *)

AuditInv == EachVersionAuditedOnce /\ AuditIsLegalHistory

(* new is the trail old of k rows and a row for each of the n events of a.   *)
Appended(old, new, k, n, a) ==
  /\ k \in Nat /\ DOMAIN old = 1..k /\ DOMAIN new = 1..(k + n)
  /\ \A i \in 1..k : new[i] = old[i] /\ old[i] \in AuditRows
  /\ \A i \in 1..n : /\ new[k + i].version = Base(a) + i
                     /\ new[k + i].status = a.events[i].status
                     /\ new[k + i].req = a.req

(* The rows a commit appends are the events of its snapshot.                 *)
LEMMA CommitAppends ==
  ASSUME IInv, KnownInv, NEW x \in Saves, Commit(x), NEW s, s = saves[x]
  PROVE  Appended(audit, audit', Len(audit), Len(s.snapshot.events), s.snapshot)
<1>1. PICK n : n = Len(s.snapshot.events)
  OBVIOUS
<1>2. PICK k : k = Len(audit)
  OBVIOUS
<1>3. PICK w : w = audit'
  OBVIOUS
<1>4. /\ s # Null /\ s.phase = "head" /\ n \in Nat \ {0}
      /\ DOMAIN s.snapshot.events = 1..n
  BY <1>1, CommitMakes
<1>5. /\ s \in SaveCalls /\ s.snapshot \in Aggregates
      /\ History(s.snapshot)
  BY <1>4, SaveFacts DEF SaveKnows
<1>6. PICK a : a = s.audit
  OBVIOUS
<1>7. a = Chained(head, s.snapshot.req, s.snapshot.events)
  BY <1>4, <1>6 DEF IInv, AuditIsNext, Reached
<1>8. audit' = audit \o a
  BY <1>6 DEF Commit
<1>9. /\ audit \in Seq(AuditRows) /\ a \in Seq(AuditRows)
      /\ k \in Nat /\ DOMAIN audit = 1..k
  BY <1>2, <1>5, <1>6, SeqIsFunction DEF IInv, TypeInv, TypeOK, SaveCalls
<1>10. DOMAIN a = 1..n
  BY <1>4, <1>7 DEF Chained
<1>11. Len(a) = n
  BY <1>4, <1>9, <1>10, SeqIsFunction
<1>12. ASSUME NEW i \in 1..n
      PROVE  /\ a[i].version = Base(s.snapshot) + i
             /\ a[i].status = s.snapshot.events[i].status
             /\ a[i].req = s.snapshot.req
  <2>1. s.snapshot.events[i].version = Base(s.snapshot) + i
    BY <1>4, <1>5 DEF History
  <2>2. a[i] = [seq |-> head.seq + i,
                prev |-> IF i = 1 THEN head.hash ELSE head.seq + i - 1,
                req |-> s.snapshot.req,
                version |-> s.snapshot.events[i].version,
                status |-> s.snapshot.events[i].status]
    BY <1>4, <1>7 DEF Chained
  <2> QED
    BY <2>1, <2>2
<1>13. /\ w \in Seq(AuditRows) /\ Len(w) = k + n
       /\ \A i \in 1..(k + n) : w[i] = IF i <= k THEN audit[i] ELSE a[i - k]
  <2>1. /\ audit \o a \in Seq(AuditRows)
        /\ Len(audit \o a) = Len(audit) + Len(a)
        /\ \A i \in 1..(Len(audit) + Len(a)) :
             (audit \o a)[i] = IF i <= Len(audit) THEN audit[i] ELSE a[i - Len(audit)]
    BY <1>9, ConcatProperties
  <2> QED
    BY <1>2, <1>3, <1>8, <1>11, <2>1
<1>14. DOMAIN w = 1..(k + n)
  BY <1>13, SeqIsFunction
<1>15. ASSUME NEW i \in 1..k PROVE w[i] = audit[i] /\ audit[i] \in AuditRows
  <2>1. i \in 1..(k + n) /\ i <= k
    BY <1>4, <1>9
  <2> QED
    BY <1>2, <1>9, <1>13, <2>1, SeqIsFunction
<1>16. ASSUME NEW i \in 1..n PROVE w[k + i] = a[i]
  <2>1. k + i \in 1..(k + n) /\ ~(k + i <= k) /\ (k + i) - k = i
    BY <1>4, <1>9
  <2> QED
    BY <1>13, <2>1
<1>17. Appended(audit, w, k, n, s.snapshot)
  BY <1>9, <1>12, <1>14, <1>15, <1>16 DEF Appended
<1> QED
  BY <1>1, <1>2, <1>3, <1>17

(* A commit audits its versions, and they continue the trail.                *)
LEMMA CommitAudit ==
  ASSUME IInv, KnownInv, AuditInv, NEW x \in Saves, Commit(x)
  PROVE  AuditInv'
<1>1. PICK s : s = saves[x]
  OBVIOUS
<1>2. PICK q : q = s.snapshot.req
  OBVIOUS
<1>3. PICK n : n = Len(s.snapshot.events)
  OBVIOUS
<1>4. PICK k : k = Len(audit)
  OBVIOUS
<1>5. PICK base : base = Base(s.snapshot)
  OBVIOUS
<1>6. PICK w : w = audit'
  OBVIOUS
<1>7. PICK events : events = s.snapshot.events
  OBVIOUS
<1>8. /\ s # Null /\ s.phase = "head" /\ q \in Requests
      /\ n \in Nat \ {0} /\ DOMAIN events = 1..n
      /\ rows[q].version = base /\ rows'[q].version = base + n
      /\ rows'[q].status = s.snapshot.status
      /\ \A r \in Requests \ {q} : rows'[r] = rows[r]
  <2>1. /\ s # Null /\ s.phase = "head" /\ q \in Requests
        /\ n \in Nat \ {0} /\ DOMAIN s.snapshot.events = 1..n
        /\ rows[q].version = Base(s.snapshot)
        /\ rows'[q].version = rows[q].version + n
        /\ rows'[q] = [version |-> s.snapshot.version,
                       status |-> s.snapshot.status,
                       history |-> s.snapshot.attempts]
        /\ \A r \in Requests \ {q} : rows'[r] = rows[r]
    BY <1>1, <1>2, <1>3, CommitMakes
  <2> QED
    BY <1>5, <1>7, <2>1
<1>9. /\ k \in Nat /\ DOMAIN audit = 1..k /\ DOMAIN w = 1..(k + n)
      /\ \A i \in 1..k : w[i] = audit[i] /\ audit[i] \in AuditRows
      /\ \A i \in 1..n : /\ w[k + i].version = base + i
                         /\ w[k + i].status = events[i].status
                         /\ w[k + i].req = q
  <2>1. Appended(audit, w, k, n, s.snapshot)
    BY <1>1, <1>3, <1>4, <1>6, CommitAppends
  <2>2. ASSUME NEW i \in 1..n
        PROVE  /\ w[k + i].version = base + i
               /\ w[k + i].status = events[i].status
               /\ w[k + i].req = q
    BY <1>2, <1>5, <1>7, <2>1 DEF Appended
  <2> QED
    BY <2>1, <2>2 DEF Appended
<1>10. /\ History(s.snapshot) /\ Fits(s.snapshot, rows[q])
       /\ base \in Nat /\ s.snapshot \in Aggregates
  <2>1. /\ SaveKnows(s, copies[s.copy], rows[q]) /\ rows[q].version \in Nat
        /\ s.snapshot \in Aggregates
    BY <1>1, <1>2, <1>8, SaveFacts
  <2> QED
    BY <1>8, <2>1 DEF SaveKnows
<1>11. /\ base = 0 => events[1].status = "created"
       /\ base > 0 => Follows(rows[q].status, events[1].status)
       /\ events[n].status = s.snapshot.status
       /\ \A i \in 1..n : i > 1 => Follows(events[i - 1].status, events[i].status)
  <2>1. events # << >>
    BY <1>3, <1>7, <1>8
  <2> QED
    BY <1>3, <1>5, <1>7, <1>8, <1>10, <2>1 DEF History, Fits
<1>12. /\ \A i \in 1..k :
            /\ audit[i].req \in Requests /\ audit[i].version \in Nat \ {0}
            /\ audit[i].version <= rows[audit[i].req].version
            /\ audit[i].version = 1 => audit[i].status = "created"
            /\ audit[i].version = rows[audit[i].req].version =>
                 audit[i].status = rows[audit[i].req].status
       /\ \A i, j \in 1..k :
            i < j /\ audit[i].req = audit[j].req =>
              audit[i].version < audit[j].version
       /\ \A i, j \in 1..k :
            audit[j].req = audit[i].req /\ audit[j].version = audit[i].version + 1
            => Follows(audit[i].status, audit[j].status)
       /\ \A r \in Requests : \A v \in 1..rows[r].version :
            \E i \in 1..k : audit[i].req = r /\ audit[i].version = v
  <2>1. \A i \in 1..k :
          audit[i].req \in Requests /\ audit[i].version \in Nat \ {0}
    BY <1>9 DEF AuditRows
  <2>2. \A i \in 1..k :
          /\ audit[i].version <= rows[audit[i].req].version
          /\ audit[i].version = 1 => audit[i].status = "created"
          /\ audit[i].version = rows[audit[i].req].version =>
               audit[i].status = rows[audit[i].req].status
    BY <1>9 DEF AuditInv, EachVersionAuditedOnce, AuditIsLegalHistory
  <2>3. /\ \A i, j \in 1..k :
             i < j /\ audit[i].req = audit[j].req =>
               audit[i].version < audit[j].version
        /\ \A r \in Requests : \A v \in 1..rows[r].version :
             \E i \in 1..k : audit[i].req = r /\ audit[i].version = v
    BY <1>9 DEF AuditInv, EachVersionAuditedOnce
  <2>4. ASSUME NEW i \in 1..k, NEW j \in 1..k,
               audit[j].req = audit[i].req, audit[j].version = audit[i].version + 1
        PROVE  Follows(audit[i].status, audit[j].status)
    BY <1>9, <2>4 DEF AuditInv, AuditIsLegalHistory, Follows
  <2> QED
    BY <2>1, <2>2, <2>3, <2>4
<1>13. ASSUME NEW i \in 1..(k + n)
       PROVE  \/ /\ i \in 1..k /\ w[i] = audit[i]
              \/ \E m \in 1..n : /\ i = k + m /\ i \notin 1..k
                                 /\ w[i].version = base + m
                                 /\ w[i].status = events[m].status
                                 /\ w[i].req = q
  <2>1. CASE i \in 1..k
    BY <1>9, <2>1
  <2>2. CASE i \notin 1..k
    <3>1. i - k \in 1..n /\ i = k + (i - k)
      BY <1>8, <1>9, <2>2
    <3> QED
      BY <1>9, <2>2, <3>1
  <2> QED
    BY <2>1, <2>2
<1>14. ASSUME NEW i \in 1..(k + n)
       PROVE  /\ w[i].version <= rows'[w[i].req].version
              /\ w[i].version = 1 => w[i].status = "created"
              /\ w[i].version = rows'[w[i].req].version =>
                   w[i].status = rows'[w[i].req].status
  <2>1. CASE i \in 1..k /\ w[i] = audit[i]
    <3>1. CASE audit[i].req = q
      <4>1. audit[i].version <= base /\ audit[i].version \in Nat
        BY <1>8, <1>12, <2>1, <3>1
      <4>2. audit[i].version < base + n
        BY <1>8, <1>10, <4>1
      <4> QED
        BY <1>8, <1>10, <1>12, <2>1, <3>1, <4>1, <4>2
    <3>2. CASE audit[i].req # q
      <4>1. rows'[audit[i].req] = rows[audit[i].req]
        BY <1>8, <1>12, <2>1, <3>2
      <4> QED
        BY <1>12, <2>1, <4>1
    <3> QED
      BY <3>1, <3>2
  <2>2. ASSUME NEW m \in 1..n, w[i].version = base + m,
               w[i].status = events[m].status, w[i].req = q
        PROVE  /\ w[i].version <= rows'[w[i].req].version
               /\ w[i].version = 1 => w[i].status = "created"
               /\ w[i].version = rows'[w[i].req].version =>
                    w[i].status = rows'[w[i].req].status
    <3>1. base + m <= base + n
      BY <1>8, <1>10
    <3>2. base + m = 1 => base = 0 /\ m = 1
      BY <1>8, <1>10
    <3>3. base + m = base + n => m = n
      BY <1>8, <1>10
    <3> QED
      BY <1>8, <1>11, <2>2, <3>1, <3>2, <3>3
  <2> QED
    BY <1>13, <2>1, <2>2
<1>15. ASSUME NEW i \in 1..(k + n), NEW j \in 1..(k + n), i < j,
              w[i].req = w[j].req
       PROVE  w[i].version < w[j].version
  <2>1. CASE i \in 1..k /\ j \in 1..k
    BY <1>9, <1>12, <1>15, <2>1
  <2>2. CASE i \in 1..k /\ j \notin 1..k
    <3>1. PICK m \in 1..n : w[j].version = base + m /\ w[j].req = q
      BY <1>13, <2>2
    <3>2. w[i].version <= base /\ w[i].version \in Nat
      BY <1>8, <1>9, <1>12, <1>15, <2>2, <3>1
    <3> QED
      BY <1>8, <1>10, <3>1, <3>2
  <2>3. CASE i \notin 1..k
    <3>1. PICK m \in 1..n : i = k + m /\ w[i].version = base + m
      BY <1>13, <2>3
    <3>2. j \notin 1..k
      BY <1>9, <1>15, <2>3
    <3>3. PICK l \in 1..n : j = k + l /\ w[j].version = base + l
      BY <1>13, <3>2
    <3>4. m < l
      BY <1>8, <1>9, <1>15, <3>1, <3>3
    <3> QED
      BY <1>8, <1>10, <3>1, <3>3, <3>4
  <2> QED
    BY <2>1, <2>2, <2>3
<1>16. ASSUME NEW r \in Requests, NEW v \in 1..rows'[r].version
       PROVE  \E i \in 1..(k + n) : w[i].req = r /\ w[i].version = v
  <2>1. ASSUME v \in 1..rows[r].version
        PROVE  \E i \in 1..(k + n) : w[i].req = r /\ w[i].version = v
    <3>1. PICK i \in 1..k : audit[i].req = r /\ audit[i].version = v
      BY <1>12, <2>1
    <3>2. i \in 1..(k + n)
      BY <1>8, <1>9
    <3> QED
      BY <1>9, <3>1, <3>2
  <2>2. CASE r # q
    BY <1>8, <2>1, <2>2
  <2>3. CASE r = q /\ v \notin 1..rows[r].version
    <3>1. v - base \in 1..n /\ base + (v - base) = v
      BY <1>8, <1>10, <2>3
    <3>2. w[k + (v - base)].version = v /\ w[k + (v - base)].req = q
      BY <1>9, <3>1
    <3>3. k + (v - base) \in 1..(k + n)
      BY <1>8, <1>9, <3>1
    <3> QED
      BY <2>3, <3>2, <3>3
  <2> QED
    BY <2>1, <2>2, <2>3
<1>17. EachVersionAuditedOnce'
  BY <1>6, <1>9, <1>14, <1>15, <1>16 DEF EachVersionAuditedOnce
<1>18. ASSUME NEW i \in 1..(k + n), NEW j \in 1..(k + n),
              w[j].req = w[i].req, w[j].version = w[i].version + 1
       PROVE  Follows(w[i].status, w[j].status)
  <2>1. CASE i \in 1..k /\ j \in 1..k
    BY <1>9, <1>12, <1>18, <2>1
  <2>2. CASE i \in 1..k /\ j \notin 1..k
    <3>1. PICK m \in 1..n : /\ w[j].version = base + m /\ w[j].req = q
                           /\ w[j].status = events[m].status
      BY <1>13, <2>2
    <3>2. /\ w[i] = audit[i] /\ audit[i].req = q
          /\ audit[i].version <= base /\ audit[i].version \in Nat \ {0}
      <4>1. w[i] = audit[i]
        BY <1>9, <2>2
      <4>2. audit[i].req = q
        BY <1>18, <3>1, <4>1
      <4>3. /\ audit[i].version <= rows[audit[i].req].version
            /\ audit[i].version \in Nat \ {0}
        BY <1>12, <2>2
      <4> QED
        BY <1>8, <4>1, <4>2, <4>3
    <3>3. m = 1 /\ audit[i].version = base /\ base > 0
      BY <1>8, <1>10, <1>18, <3>1, <3>2
    <3>4. audit[i].status = rows[q].status
      BY <1>8, <1>12, <2>2, <3>2, <3>3
    <3> QED
      BY <1>11, <3>1, <3>2, <3>3, <3>4
  <2>3. CASE i \notin 1..k
    <3>1. PICK m \in 1..n : /\ i = k + m /\ w[i].version = base + m
                           /\ w[i].req = q /\ w[i].status = events[m].status
      BY <1>13, <2>3
    <3>2. ASSUME j \in 1..k PROVE FALSE
      <4>1. w[j] = audit[j] /\ audit[j].version <= base /\ audit[j].version \in Nat
        BY <1>8, <1>9, <1>12, <1>18, <3>1, <3>2
      <4> QED
        BY <1>8, <1>10, <1>18, <3>1, <4>1
    <3>3. PICK l \in 1..n : /\ w[j].version = base + l
                           /\ w[j].status = events[l].status
      BY <1>13, <3>2
    <3>4. l - 1 = m /\ l > 1
      BY <1>8, <1>10, <1>18, <3>1, <3>3
    <3> QED
      BY <1>11, <3>1, <3>3, <3>4
  <2> QED
    BY <2>1, <2>2, <2>3
<1>19. AuditIsLegalHistory'
  BY <1>6, <1>9, <1>14, <1>18 DEF AuditIsLegalHistory, Follows
<1> QED
  BY <1>17, <1>19 DEF AuditInv

(* Only a commit touches the audit trail and the rows.                       *)
LEMMA AuditStep ==
  ASSUME IInv, KnownInv, AuditInv, [Next]_vars
  PROVE  AuditInv'
<1>1. CASE UNCHANGED <<rows, audit>>
  BY <1>1 DEF AuditInv, EachVersionAuditedOnce, AuditIsLegalHistory
<1>2. ASSUME NEW x \in Saves, Commit(x) PROVE AuditInv'
  BY <1>2, CommitAudit
<1>3. CASE \E x \in Saves : Commit(x)
  BY <1>2, <1>3
<1>4. (\E x \in Saves : Commit(x)) \/ UNCHANGED <<rows, audit>>
  <2>1. ASSUME NEW x \in Saves, SaveStep(x) \/ FailSave(x), ~Commit(x)
        PROVE  UNCHANGED <<rows, audit>>
    BY <2>1 DEF SaveStep, FailSave, PersistSnapshot, PersistAttempts,
       PersistEvents, Acknowledge, UnchangedTables
  <2>2. ASSUME NEW c \in Copies, NEW q \in Requests, Create(c, q) \/ Load(c, q)
        PROVE  UNCHANGED <<rows, audit>>
    BY <2>2 DEF Create, Load
  <2>3. ASSUME NEW c \in Copies, Command(c) \/ Crash(c)
        PROVE  UNCHANGED <<rows, audit>>
    BY <2>3 DEF Command, Crash
  <2>4. ASSUME NEW x \in Saves, NEW c \in Copies, BeginSave(x, c)
        PROVE  UNCHANGED <<rows, audit>>
    BY <2>4 DEF BeginSave, UnchangedTables
  <2>5. CASE UNCHANGED vars
    BY <2>5 DEF vars
  <2> QED
    BY <2>1, <2>2, <2>3, <2>4, <2>5 DEF Next
<1> QED
  BY <1>1, <1>3, <1>4

(* The initial states, with and without a request planned before.            *)
LEMMA InitStoreInv == ASSUME Init PROVE KnownInv /\ AuditInv
<1>1. /\ copies = [c \in Copies |-> Null] /\ unused = Copies
      /\ saves = [x \in Saves |-> Null]
      /\ \A q \in Requests :
           rows[q] = IF q = Planned
             THEN [version |-> 3, status |-> "planning", history |-> << >>]
             ELSE [version |-> 0, status |-> "created", history |-> << >>]
  BY DEF Init
<1>2. UnusedAreNull /\ CopiesKnow /\ SavesKnow /\ RowIsLocked /\ CommitsAlone
  BY <1>1 DEF UnusedAreNull, CopiesKnow, SavesKnow, RowIsLocked, CommitsAlone,
     Live, LocksRow, Reached
<1>3. RowsAgree
  BY <1>1 DEF RowsAgree, OpenLast
<1>4. CASE Planned = Null
  <2>1. audit = << >> /\ DOMAIN audit = {}
    BY <1>4 DEF Init
  <2>2. \A q \in Requests : rows[q].version = 0
    BY <1>1, <1>4, RequestStoreAssumption
  <2>3. EachVersionAuditedOnce
    BY <2>1, <2>2 DEF EachVersionAuditedOnce
  <2>4. AuditIsLegalHistory
    BY <2>1 DEF AuditIsLegalHistory
  <2> QED
    BY <1>2, <1>3, <2>3, <2>4 DEF KnownInv, AuditInv
<1>5. CASE Planned # Null
  <2>1. Planned \in Requests
    BY <1>5, RequestStoreAssumption
  <2>2. /\ DOMAIN audit = 1..3
        /\ \A v \in 1..3 : /\ audit[v].req = Planned /\ audit[v].version = v
                           /\ audit[v].status = ToPlanning[v]
    BY <1>5 DEF Init
  <2>3. /\ ToPlanning[1] = "created" /\ ToPlanning[2] = "identity_verified"
        /\ ToPlanning[3] = "planning"
    BY DEF ToPlanning
  <2>4. /\ rows[Planned].version = 3 /\ rows[Planned].status = "planning"
        /\ \A q \in Requests \ {Planned} : rows[q].version = 0
    BY <1>1, <2>1
  <2>5. EachVersionAuditedOnce
    <3>1. ASSUME NEW q \in Requests, NEW v \in 1..rows[q].version
          PROVE  \E i \in DOMAIN audit : audit[i].req = q /\ audit[i].version = v
      <4>1. q = Planned
        BY <2>4
      <4>2. v \in 1..3
        BY <2>4, <4>1
      <4> QED
        BY <2>2, <4>1, <4>2
    <3> QED
      BY <2>2, <2>4, <3>1 DEF EachVersionAuditedOnce
  <2>6. \A i, j \in 1..3 : j = i + 1 =>
          ToPlanning[j] \in Transitions(ToPlanning[i])
    <3>1. \A i, j \in 1..3 : j = i + 1 => (i = 1 /\ j = 2) \/ (i = 2 /\ j = 3)
      OBVIOUS
    <3> QED
      BY <2>3, <3>1 DEF Transitions
  <2>7. AuditIsLegalHistory
    BY <2>2, <2>3, <2>4, <2>6 DEF AuditIsLegalHistory
  <2> QED
    BY <1>2, <1>3, <2>5, <2>7 DEF KnownInv, AuditInv
<1> QED
  BY <1>4, <1>5

(* The invariant of memory, calls, rows and audit trail.                     *)
THEOREM StoreInductive == Spec => []StoreInv
<1>1. Init => StoreInv
  BY InitIInv, InitStoreInv DEF StoreInv, AuditInv
<1>2. StoreInv /\ [Next]_vars => StoreInv'
  <2>1. IInv /\ [Next]_vars => IInv'
    BY TypeStep, ChainStep DEF IInv, ChainInv
  <2> QED
    BY <2>1, KnownStep, AuditStep DEF StoreInv, AuditInv
<1> QED
  BY <1>1, <1>2, PTL DEF Spec

(* Whatever copies of a request are commanded and saved, by whatever calls   *)
(* that overlap, fail or die, the audit trail has each stored version of the *)
(* request once and in order.                                                *)
THEOREM EachVersionAuditedOnceAlways == Spec => []EachVersionAuditedOnce
<1>1. StoreInv => EachVersionAuditedOnce
  BY DEF StoreInv
<1> QED
  BY <1>1, StoreInductive, PTL

(* The audit trail of a request is a history that the domain allows, up to   *)
(* the status of its row: no save grafts the events of one copy on the       *)
(* history of another.                                                       *)
THEOREM AuditIsLegalHistoryAlways == Spec => []AuditIsLegalHistory
<1>1. StoreInv => AuditIsLegalHistory
  BY DEF StoreInv
<1> QED
  BY <1>1, StoreInductive, PTL

(* markEventsCommitted drops no event that is not stored.                    *)
THEOREM DroppedEventsAreStoredAlways == Spec => []DroppedEventsAreStored
<1>1. StoreInv => DroppedEventsAreStored
  BY DEF StoreInv, KnownInv, CopiesKnow, Fits, Base, DroppedEventsAreStored
<1> QED
  BY <1>1, StoreInductive, PTL

-----------------------------------------------------------------------------
(* Request state, attempts and events are stored together, where no handler  *)
(* commands a copy while it is saved.                                        *)

(* A call of save has the attempts of its copy, and writes them.             *)
SaveIsQuiet(s, c) ==
  /\ c.attempts = s.snapshot.attempts
  /\ s.phase \in {"attempts", "head"} => s.attempts = s.snapshot.attempts

(* Every call of save that a step leaves or makes is quiet.                  *)
LEMMA QuietFrame ==
  ASSUME QuietInv, UNCHANGED <<rows, attempts>>,
         \A y \in Saves : saves'[y] # Null =>
           SaveIsQuiet(saves'[y], copies'[saves'[y].copy])
  PROVE  QuietInv'
BY DEF QuietInv, AttemptsAgreeWithRow, SaveIsQuiet

(* Attempts that extend what is stored replace it.                           *)
LEMMA MergedIsNew ==
  ASSUME NEW new \in Seq(AttemptRows), NEW stored, Extends(stored, new)
  PROVE  Merged(new, stored) = new
<1>1. DOMAIN new \cup DOMAIN stored = DOMAIN new
  BY DEF Extends
<1>2. \A n \in DOMAIN new :
        (IF n \notin DOMAIN new
            \/ (n \in DOMAIN stored /\ stored[n].status \in ClosedAttempt)
           THEN stored[n] ELSE new[n]) = new[n]
  BY DEF Extends
<1>3. Merged(new, stored) = [n \in DOMAIN new |-> new[n]]
  BY <1>1, <1>2 DEF Merged
<1>4. new = [n \in DOMAIN new |-> new[n]]
  BY SeqIsFunction
<1> QED
  BY <1>3, <1>4

(* Every step keeps the stored attempts with their row.                      *)
LEMMA QuietKept ==
  ASSUME CommandsDuringSave = FALSE, IInv, KnownInv, QuietInv, [Next]_vars
  PROVE  QuietInv'
<1>1. ASSUME NEW x \in Saves, NEW s, s = saves[x], s # Null
      PROVE  SaveIsQuiet(s, copies[s.copy]) /\ s.copy \in Copies /\ Live(s.copy)
             /\ s \in SaveCalls
  BY <1>1, SaveFacts DEF QuietInv, SaveIsQuiet
<1>2. ASSUME NEW c \in Copies, UNCHANGED <<saves, rows, attempts>>,
             \A d \in Copies \ {c} : copies'[d] = copies[d],
             ~BeingSaved(c)
      PROVE  QuietInv'
  <2>1. ASSUME NEW y \in Saves, saves'[y] # Null
        PROVE  SaveIsQuiet(saves'[y], copies'[saves'[y].copy])
    <3>1. saves[y] # Null /\ saves[y].copy # c
      BY <1>2, <2>1 DEF BeingSaved
    <3> QED
      BY <1>1, <1>2, <3>1
  <2> QED
    BY <1>2, <2>1, QuietFrame
<1>3. ASSUME NEW c \in Copies, NEW q \in Requests, Create(c, q) \/ Load(c, q)
      PROVE  QuietInv'
  <2>1. /\ c \in unused /\ UNCHANGED <<saves, rows, attempts>>
        /\ \A d \in Copies \ {c} : copies'[d] = copies[d]
    BY <1>3 DEF Create, Load, IInv, TypeInv, TypeOK
  <2>2. ~Live(c)
    BY <2>1 DEF KnownInv, UnusedAreNull, Live
  <2>3. ~BeingSaved(c)
    BY <1>1, <2>2 DEF BeingSaved
  <2> QED
    BY <1>2, <2>1, <2>3
<1>4. ASSUME NEW c \in Copies, Command(c) PROVE QuietInv'
  <2>1. /\ ~BeingSaved(c) /\ UNCHANGED <<saves, rows, attempts>>
        /\ Live(c)
    BY <1>4 DEF Command
  <2>2. \A d \in Copies \ {c} : copies'[d] = copies[d]
    BY <1>4, <2>1, CopyFacts, CommandMakes DEF IInv
  <2> QED
    BY <1>2, <2>1, <2>2
<1>5. ASSUME NEW c \in Copies, Crash(c) PROVE QuietInv'
  <2>1. /\ \A d \in Copies \ {c} : copies'[d] = copies[d]
        /\ \A y \in Saves : saves'[y] # Null =>
             saves'[y] = saves[y] /\ saves[y].copy # c
        /\ UNCHANGED <<rows, attempts>>
    BY <1>5 DEF Crash, IInv, TypeInv, TypeOK
  <2>2. \A y \in Saves : saves'[y] # Null =>
          SaveIsQuiet(saves'[y], copies'[saves'[y].copy])
    BY <1>1, <2>1
  <2> QED
    BY <2>1, <2>2, QuietFrame
<1>6. ASSUME NEW x \in Saves, NEW t, saves' = [saves EXCEPT ![x] = t],
             UNCHANGED <<copies, rows, attempts>>,
             t # Null => SaveIsQuiet(t, copies[t.copy])
      PROVE  QuietInv'
  <2>1. saves'[x] = t /\ \A y \in Saves \ {x} : saves'[y] = saves[y]
    BY <1>6 DEF IInv, TypeInv, TypeOK
  <2>2. \A y \in Saves : saves'[y] # Null =>
          SaveIsQuiet(saves'[y], copies'[saves'[y].copy])
    BY <1>1, <1>6, <2>1
  <2> QED
    BY <1>6, <2>2, QuietFrame
<1>7. ASSUME NEW x \in Saves, End(x), UNCHANGED <<copies, rows, attempts>>
      PROVE  QuietInv'
  BY <1>6, <1>7 DEF End
<1>8. ASSUME NEW x \in Saves, NEW c \in Copies, BeginSave(x, c)
      PROVE  QuietInv'
  <2>1. PICK t : t = [copy |-> c, snapshot |-> copies[c], phase |-> "begun",
                      attempts |-> << >>, audit |-> << >>]
    OBVIOUS
  <2>2. SaveIsQuiet(t, copies[t.copy])
    BY <2>1 DEF SaveIsQuiet
  <2>3. saves' = [saves EXCEPT ![x] = t] /\ UNCHANGED <<copies, rows, attempts>>
    BY <1>8, <2>1 DEF BeginSave, UnchangedTables
  <2> QED
    BY <1>6, <2>2, <2>3
<1>9. ASSUME NEW x \in Saves, PersistSnapshot(x) PROVE QuietInv'
  <2>1. PICK s : s = saves[x] /\ s # Null
    BY <1>9 DEF PersistSnapshot, Reached
  <2>2. s \in SaveCalls /\ SaveIsQuiet(s, copies[s.copy])
    BY <1>1, <2>1
  <2>3. CASE RowMatches(s)
    <3>1. PICK t : t = [s EXCEPT !.phase = "row"]
      OBVIOUS
    <3>2. t.phase = "row" /\ t.copy = s.copy /\ t.snapshot = s.snapshot
      BY <2>2, <3>1 DEF SaveCalls
    <3>3. saves' = [saves EXCEPT ![x] = t] /\ UNCHANGED <<copies, rows, attempts>>
      BY <1>9, <2>1, <2>2, <2>3, <3>1
      DEF PersistSnapshot, SnapshotOf, UnchangedTables, IInv, TypeInv, TypeOK,
          SaveCalls
    <3>4. SaveIsQuiet(t, copies[t.copy])
      BY <2>2, <3>2 DEF SaveIsQuiet
    <3> QED
      BY <1>6, <3>3, <3>4
  <2>4. CASE ~RowMatches(s)
    BY <1>7, <1>9, <2>1, <2>4 DEF PersistSnapshot, UnchangedTables
  <2> QED
    BY <2>3, <2>4
<1>10. ASSUME NEW x \in Saves, PersistAttempts(x) PROVE QuietInv'
  <2>1. PICK s : s = saves[x] /\ s # Null /\ s.phase = "row"
    BY <1>10 DEF PersistAttempts, Reached
  <2>2. /\ s \in SaveCalls /\ SaveIsQuiet(s, copies[s.copy])
    BY <1>1, <2>1
  <2>3. /\ copies[s.copy] \in Aggregates /\ s.snapshot.req \in Requests
        /\ SaveKnows(s, copies[s.copy], rows[s.snapshot.req])
    BY <2>1, SaveFacts
  <2>4. PICK new : new = copies[s.copy].attempts
    OBVIOUS
  <2>5. PICK stored : stored = attempts[s.snapshot.req]
    OBVIOUS
  <2>6. new \in Seq(AttemptRows) /\ new = s.snapshot.attempts
    BY <2>2, <2>3, <2>4 DEF Aggregates, SaveIsQuiet
  <2>7. stored = rows[s.snapshot.req].history
    BY <2>3, <2>5 DEF QuietInv, AttemptsAgreeWithRow
  <2>8. Extends(stored, new)
    BY <2>1, <2>3, <2>6, <2>7 DEF SaveKnows, Fits
  <2>9. Merged(new, stored) = new
    BY <2>6, <2>8, MergedIsNew
  <2>10. CASE AttemptsClash(new, stored)
    BY <1>7, <1>10, <2>1, <2>4, <2>5, <2>10 DEF PersistAttempts, UnchangedTables
  <2>11. CASE ~AttemptsClash(new, stored)
    <3>1. PICK t : t = [s EXCEPT !.phase = "attempts",
                                 !.attempts = Merged(new, stored)]
      OBVIOUS
    <3>2. /\ t.phase = "attempts" /\ t.copy = s.copy
          /\ t.snapshot = s.snapshot /\ t.attempts = new
      BY <2>2, <2>9, <3>1 DEF SaveCalls
    <3>3. saves' = [saves EXCEPT ![x] = t] /\ UNCHANGED <<copies, rows, attempts>>
      BY <1>10, <2>1, <2>2, <2>4, <2>5, <2>11, <3>1
      DEF PersistAttempts, UnchangedTables, IInv, TypeInv, TypeOK, SaveCalls
    <3>4. SaveIsQuiet(t, copies[t.copy])
      BY <2>2, <2>6, <3>2 DEF SaveIsQuiet
    <3> QED
      BY <1>6, <3>3, <3>4
  <2> QED
    BY <2>10, <2>11
<1>11. ASSUME NEW x \in Saves, PersistEvents(x) PROVE QuietInv'
  <2>1. PICK s : s = saves[x] /\ s # Null /\ s.phase = "attempts"
    BY <1>11 DEF PersistEvents, Reached
  <2>2. s \in SaveCalls /\ SaveIsQuiet(s, copies[s.copy])
    BY <1>1, <2>1
  <2>3. PICK t : t = [s EXCEPT !.phase = "head",
                        !.audit = Chained(head, s.snapshot.req,
                                          s.snapshot.events)]
    OBVIOUS
  <2>4. /\ t.phase = "head" /\ t.copy = s.copy /\ t.snapshot = s.snapshot
        /\ t.attempts = s.attempts
    BY <2>2, <2>3 DEF SaveCalls
  <2>5. saves' = [saves EXCEPT ![x] = t] /\ UNCHANGED <<copies, rows, attempts>>
    BY <1>11, <2>1, <2>2, <2>3
    DEF PersistEvents, UnchangedTables, IInv, TypeInv, TypeOK, SaveCalls
  <2>6. SaveIsQuiet(t, copies[t.copy])
    BY <2>1, <2>2, <2>4 DEF SaveIsQuiet
  <2> QED
    BY <1>6, <2>5, <2>6
<1>12. ASSUME NEW x \in Saves, Commit(x) PROVE QuietInv'
  <2>1. PICK s : s = saves[x] /\ s # Null /\ s.phase = "head"
    BY <1>12 DEF Commit, Reached
  <2>2. PICK q : q = s.snapshot.req
    OBVIOUS
  <2>3. SaveIsQuiet(s, copies[s.copy]) /\ q \in Requests
    BY <1>1, <2>1, <2>2, SaveFacts
  <2>4. PICK n : n = Len(s.snapshot.events)
    OBVIOUS
  <2>5. /\ rows'[q] = [version |-> s.snapshot.version,
                       status |-> s.snapshot.status,
                       history |-> s.snapshot.attempts]
        /\ \A r \in Requests \ {q} : rows'[r] = rows[r]
        /\ saves'[x].phase = "committed" /\ saves'[x].copy = s.copy
        /\ saves'[x].snapshot = s.snapshot
        /\ \A y \in Saves \ {x} : saves'[y] = saves[y]
        /\ UNCHANGED <<copies, unused>>
    BY <1>12, <2>1, <2>2, <2>4, CommitMakes
  <2>6. attempts' = [attempts EXCEPT ![q] = s.attempts]
    BY <1>12, <2>1, <2>2 DEF Commit
  <2>7. /\ attempts'[q] = s.snapshot.attempts
        /\ \A r \in Requests \ {q} : attempts'[r] = attempts[r]
    BY <2>1, <2>3, <2>6 DEF SaveIsQuiet, IInv, TypeInv, TypeOK
  <2>8. AttemptsAgreeWithRow'
    BY <2>5, <2>7 DEF AttemptsAgreeWithRow, QuietInv
  <2>9. ASSUME NEW y \in Saves, saves'[y] # Null
        PROVE  SaveIsQuiet(saves'[y], copies'[saves'[y].copy])
    <3>1. CASE y = x
      BY <2>3, <2>5, <3>1 DEF SaveIsQuiet
    <3>2. CASE y # x
      BY <1>1, <2>5, <2>9, <3>2
    <3> QED
      BY <3>1, <3>2
  <2> QED
    BY <2>8, <2>9 DEF QuietInv, SaveIsQuiet
<1>13. ASSUME NEW x \in Saves, Acknowledge(x) PROVE QuietInv'
  <2>1. PICK s : s = saves[x]
    OBVIOUS
  <2>2. /\ Acknowledged(copies[s.copy], copies'[s.copy], Len(s.snapshot.events))
        /\ \A d \in Copies \ {s.copy} : copies'[d] = copies[d]
        /\ saves'[x] = Null /\ \A y \in Saves \ {x} : saves'[y] = saves[y]
        /\ UNCHANGED <<unused, rows, attempts, audit>>
    BY <1>13, <2>1, AcknowledgeMakes
  <2>3. \A d \in Copies : copies'[d].attempts = copies[d].attempts
    BY <2>2 DEF Acknowledged
  <2>4. ASSUME NEW y \in Saves, saves'[y] # Null
        PROVE  SaveIsQuiet(saves'[y], copies'[saves'[y].copy])
    <3>1. saves'[y] = saves[y]
      BY <2>2, <2>4
    <3>2. PICK u : u = saves[y] /\ u # Null
      BY <2>4, <3>1
    <3>3. SaveIsQuiet(u, copies[u.copy]) /\ u.copy \in Copies
      BY <1>1, <3>2
    <3>4. SaveIsQuiet(u, copies'[u.copy])
      BY <2>3, <3>3 DEF SaveIsQuiet
    <3> QED
      BY <3>1, <3>2, <3>4
  <2> QED
    BY <2>2, <2>4, QuietFrame
<1>14. ASSUME NEW x \in Saves, FailSave(x) PROVE QuietInv'
  BY <1>7, <1>14 DEF FailSave, UnchangedTables
<1>15. CASE UNCHANGED vars
  BY <1>15 DEF vars, QuietInv, AttemptsAgreeWithRow
<1> QED
  BY <1>3, <1>4, <1>5, <1>8, <1>9, <1>10, <1>11, <1>12, <1>13, <1>14, <1>15
  DEF Next, SaveStep

(* Where no handler commands a copy while it is saved, the stored attempts   *)
(* are those of the request at its stored version, whatever calls of save    *)
(* overlap, fail or die.                                                     *)
THEOREM AttemptsAgreeWithRowAlways ==
  CommandsDuringSave = FALSE => (Spec => []AttemptsAgreeWithRow)
<1> SUFFICES ASSUME CommandsDuringSave = FALSE PROVE Spec => []AttemptsAgreeWithRow
  OBVIOUS
<1>1. Init => QuietInv
  <2> SUFFICES ASSUME Init PROVE QuietInv
    OBVIOUS
  <2>1. \A q \in Requests : attempts[q] = rows[q].history
    BY DEF Init
  <2>2. \A x \in Saves : saves[x] = Null
    BY DEF Init
  <2> QED
    BY <2>1, <2>2 DEF QuietInv, AttemptsAgreeWithRow
<1>2. StoreInv /\ QuietInv /\ [Next]_vars => QuietInv'
  BY QuietKept DEF StoreInv
<1>3. QuietInv => AttemptsAgreeWithRow
  BY DEF QuietInv
<1> QED
  BY <1>1, <1>2, <1>3, StoreInductive, PTL DEF Spec
=============================================================================
