----------------------------- MODULE EmailPipeline -----------------------------
(***************************************************************************)
(* How an audit row becomes an email (packages/provisioning/src/email).    *)
(* enqueue.ts scans audit_logs behind a cursor and inserts email_events;   *)
(* dispatcher.ts sends the events that are due and marks them.  One worker *)
(* process runs both, each at most once at a time.                         *)
(*                                                                         *)
(* created_at is the time a transaction began, and a row can be scanned    *)
(* only after the commit: transactions may commit in another order than    *)
(* they began, and rows of one transaction have the same created_at.       *)
(* The worker may die between any two statements, and an answer of the     *)
(* provider may be lost after it has sent the mail.                        *)
(*                                                                         *)
(* Clock times are reduced to "due" or "not yet due".  What a mail says is *)
(* left out.                                                               *)
(***************************************************************************)
EXTENDS Naturals, Sequences, FiniteSets

CONSTANTS
  Rows,        \* ids of audit rows
  Users,
  NoUser,
  Kind,        \* what is in every audit row
  ScanLimit,   \* LIMIT of a scan
  BatchSize,   \* BATCH_SIZE
  MaxRetries,  \* MAX_RETRIES
  MaxFaults    \* bound on crashes and lost answers

ASSUME EmailAssumptions ==
  /\ IsFiniteSet(Rows)
  /\ Kind \in [Rows -> [actor : {"user", "admin", "system"}, by : Users \union {NoUser},
                        listed : {"instant", "digest", "no"}, target : Users \union {NoUser}]]
  /\ NoUser \notin Users
  /\ ScanLimit \in Nat \ {0} /\ BatchSize \in Nat \ {0} /\ MaxRetries \in Nat \ {0}
  /\ MaxFaults \in Nat

VARIABLES
  audit,       \* per row: whether its transaction has begun or committed
  at,          \* per row: its created_at
  cursor,      \* last_scanned
  enabled,     \* users who have not switched emails off
  scan,        \* the run of enqueueEmailEvents
  events,      \* rows of email_events, by audit_log_id
  batch,       \* the run of dispatchEmailEvents
  delivered,   \* per row: mails sent about it
  faults,      \* crashes and lost answers so far
  mode         \* the worker's environment: EMAIL_ENABLED and the provider's keys

vars == <<audit, at, cursor, enabled, scan, events, batch, delivered, faults, mode>>

(* classifyAudit: whom to tell of an audit row, and how. *)
Skip == [user |-> NoUser, category |-> "skip"]
ClassifyAudit(k) ==
  CASE k.actor = "user" /\ k.by # NoUser ->
         [user |-> k.by, category |-> IF k.listed = "no" THEN "digest" ELSE k.listed]
    [] k.actor \in {"admin", "system"} /\ k.listed # "no" /\ k.target # NoUser ->
         [user |-> k.target, category |-> k.listed]
    [] OTHER -> Skip

UserOf(r) == ClassifyAudit(Kind[r]).user
Category(r) == ClassifyAudit(Kind[r]).category

Event == [state : {"none", "pending", "sent", "parked"}, due : BOOLEAN, retries : 0..MaxRetries]
NoEvent == [state |-> "none", due |-> FALSE, retries |-> 0]

NoScan == [rows |-> << >>, last |-> 0, known |-> [u \in Users |-> "unread"]]
Result == {"none", "accepted", "transient", "permanent", "unset"}
NoBatch == [todo |-> {}, group |-> {}, first |-> NoUser, result |-> "none"]

Init ==
  /\ audit = [r \in Rows |-> "none"]
  /\ at = [r \in Rows |-> 0]
  /\ cursor = 0
  /\ enabled \in SUBSET Users
  /\ scan = NoScan
  /\ events = [r \in Rows |-> NoEvent]
  /\ batch = NoBatch
  /\ delivered = [r \in Rows |-> 0]
  /\ faults = 0
  /\ mode \in {"dry run", "keys missing", "live"}

------------------------------------------------------------------------------
(* Transactions that write audit rows *)

Latest == CHOOSE n \in 0..Cardinality(Rows) : (\E r \in Rows : at[r] = n) /\ \A r \in Rows : at[r] <= n

Begin(S) ==
  /\ S # {}
  /\ \A r \in S : audit[r] = "none"
  /\ audit' = [r \in Rows |-> IF r \in S THEN "open" ELSE audit[r]]
  /\ at' = [r \in Rows |-> IF r \in S THEN Latest + 1 ELSE at[r]]
  /\ UNCHANGED <<cursor, enabled, scan, events, batch, delivered, faults, mode>>

(* A transaction that rolls back leaves no row, as if it had never begun. *)
Commit(n) ==
  /\ \E r \in Rows : audit[r] = "open" /\ at[r] = n
  /\ audit' = [r \in Rows |-> IF at[r] = n THEN "committed" ELSE audit[r]]
  /\ UNCHANGED <<at, cursor, enabled, scan, events, batch, delivered, faults, mode>>

(* The user switches emails off or on. *)
SetPrefs(u) ==
  /\ enabled' = IF u \in enabled THEN enabled \ {u} ELSE enabled \union {u}
  /\ UNCHANGED <<audit, at, cursor, scan, events, batch, delivered, faults, mode>>

------------------------------------------------------------------------------
(* enqueueEmailEvents *)

Unscanned == {r \in Rows : audit[r] = "committed" /\ at[r] > cursor}

(* ORDER BY created_at LIMIT ScanLimit; rows of the same time in any order. *)
Scans ==
  LET n == IF Cardinality(Unscanned) < ScanLimit THEN Cardinality(Unscanned) ELSE ScanLimit
  IN  {s \in [1..n -> Unscanned] :
         /\ \A i, j \in 1..n : i < j => s[i] # s[j] /\ at[s[i]] <= at[s[j]]
         /\ \A r \in Unscanned : (\A i \in 1..n : s[i] # r) => at[s[n]] <= at[r]}

(* Mutation: the cursor is advanced before the events are in the table. *)
ScanAhead ==
  /\ scan = NoScan
  /\ Unscanned # {}
  /\ \E s \in Scans : /\ scan' = [NoScan EXCEPT !.rows = s, !.last = at[s[Len(s)]]]
                       /\ cursor' = at[s[Len(s)]]
  /\ UNCHANGED <<audit, at, enabled, events, batch, delivered, faults, mode>>

Scan ==
  /\ scan = NoScan
  /\ Unscanned # {}
  /\ \E s \in Scans : scan' = [NoScan EXCEPT !.rows = s, !.last = at[s[Len(s)]]]
  /\ UNCHANGED <<audit, at, cursor, enabled, events, batch, delivered, faults, mode>>

(* The preferences of a user are read once in a run. *)
Known(u) == IF scan.known[u] # "unread" THEN scan.known[u] ELSE IF u \in enabled THEN "on" ELSE "off"

(* An instant event is due at once, a digest at the next boundary.  The      *)
(* unique index keeps the event that is already there.                       *)
Enqueue ==
  /\ scan.rows # << >>
  /\ LET r == Head(scan.rows)
         u == UserOf(r)
     IN  /\ events' = IF Category(r) # "skip" /\ Known(u) = "on" /\ events[r].state = "none"
                      THEN [events EXCEPT ![r] = [state |-> "pending", due |-> Category(r) = "instant",
                                                  retries |-> 0]]
                      ELSE events
         /\ scan' = [scan EXCEPT !.rows = Tail(scan.rows),
                                 !.known = IF u \in Users THEN [scan.known EXCEPT ![u] = Known(u)]
                                           ELSE scan.known]
  /\ UNCHANGED <<audit, at, cursor, enabled, batch, delivered, faults, mode>>

(* Mutation: the cursor is set to a time after the last row. *)
AdvanceTooFar ==
  /\ scan.rows = << >> /\ scan.last > 0
  /\ cursor' = scan.last + 1
  /\ scan' = NoScan
  /\ UNCHANGED <<audit, at, enabled, events, batch, delivered, faults, mode>>

AdvanceCursor ==
  /\ scan.rows = << >> /\ scan.last > 0
  /\ cursor' = scan.last
  /\ scan' = NoScan
  /\ UNCHANGED <<audit, at, enabled, events, batch, delivered, faults, mode>>

------------------------------------------------------------------------------
(* dispatchEmailEvents *)

Ready == {r \in Rows : events[r].state = "pending" /\ events[r].due /\ events[r].retries < MaxRetries}

(* Mutation: the digests are not filtered by category. *)
GroupsUnfiltered(S) ==
  {{r} : r \in {x \in S : Category(x) = "instant"}} \union
  ({{r \in S : UserOf(r) = u} : u \in Users} \ {{}})

(* Every instant event is a group of its own, the digests of a user are one. *)
Groups(S) ==
  {{r} : r \in {x \in S : Category(x) = "instant"}} \union
  ({{r \in S : Category(r) = "digest" /\ UserOf(r) = u} : u \in Users} \ {{}})

Pull ==
  /\ batch = NoBatch
  /\ Ready # {}
  /\ \E S \in SUBSET Ready :
       /\ Cardinality(S) = IF Cardinality(Ready) < BatchSize THEN Cardinality(Ready) ELSE BatchSize
       /\ batch' = [NoBatch EXCEPT !.todo = Groups(S)]
  /\ UNCHANGED <<audit, at, cursor, enabled, scan, events, delivered, faults, mode>>

IsInstant(g) == \A r \in g : Category(r) = "instant"

(* Mutation: without keys, sendEmail returns instead of throwing. *)
OutcomesSilent == IF mode = "live" THEN {"accepted", "transient", "permanent"} ELSE {"accepted"}

(* sendEmail: accepted; refused for now or for good; or the provider is not  *)
(* configured.                                                               *)
Outcomes ==
  CASE mode = "dry run" -> {"accepted"}
    [] mode = "keys missing" -> {"unset"}
    [] mode = "live" -> {"accepted", "transient", "permanent"}

(* A mail can be accepted and the answer lost, which looks like a failure of *)
(* the network.  `first` is events[0], the one that was scheduled first.     *)
Send(g, first, result, lost) ==
  /\ batch.result = "none"
  /\ g \in batch.todo /\ first \in g
  /\ IsInstant(g) \/ \A h \in batch.todo : ~IsInstant(h)
  /\ result \in Outcomes
  /\ lost => result = "transient" /\ faults < MaxFaults
  /\ delivered' = [r \in Rows |-> IF r \in g /\ mode = "live" /\ (lost \/ result = "accepted")
                                  THEN delivered[r] + 1 ELSE delivered[r]]
  /\ faults' = IF lost THEN faults + 1 ELSE faults
  /\ batch' = [todo |-> batch.todo \ {g}, group |-> g, first |-> first, result |-> result]
  /\ UNCHANGED <<audit, at, cursor, enabled, scan, events, mode>>

(* Mutation: the last attempt is followed by one more. *)
RetryTooOften(first) == batch.result = "transient" /\ events[first].retries < MaxRetries

(* The group is tried again, as long as its first event may be. *)
RetryAgain(first) == batch.result = "transient" /\ events[first].retries + 1 < MaxRetries

(* What becomes of an event of the group: sent, tried again later, or        *)
(* parked.                                                                   *)
Marked(e) ==
  CASE batch.result = "accepted" -> [e EXCEPT !.state = "sent"]
    [] RetryAgain(batch.first) -> [state |-> "pending", due |-> FALSE,
                                   retries |-> e.retries + 1]
    [] OTHER -> [e EXCEPT !.state = "parked"]

(* Without a configured provider the run ends here. *)
Mark ==
  /\ batch.result # "none"
  /\ events' = [r \in Rows |-> IF r \in batch.group THEN Marked(events[r]) ELSE events[r]]
  /\ batch' = [NoBatch EXCEPT !.todo = IF batch.result = "unset" THEN {} ELSE batch.todo]
  /\ UNCHANGED <<audit, at, cursor, enabled, scan, delivered, faults, mode>>

------------------------------------------------------------------------------
(* scheduled_for is reached. *)
BecomesDue(r) ==
  /\ events[r].state = "pending" /\ ~events[r].due
  /\ events' = [events EXCEPT ![r].due = TRUE]
  /\ UNCHANGED <<audit, at, cursor, enabled, scan, batch, delivered, faults, mode>>

WorkerDies ==
  /\ faults < MaxFaults
  /\ scan # NoScan \/ batch # NoBatch
  /\ faults' = faults + 1
  /\ scan' = NoScan /\ batch' = NoBatch
  /\ UNCHANGED <<audit, at, cursor, enabled, events, delivered, mode>>

Sending == \E g \in batch.todo : \E first \in g, result \in Result \ {"none"}, lost \in BOOLEAN :
             Send(g, first, result, lost)
Enqueuer == Scan \/ Enqueue \/ AdvanceCursor
Dispatcher == Pull \/ Sending \/ Mark

Next ==
  \/ \E S \in SUBSET Rows : Begin(S)
  \/ \E n \in 1..Cardinality(Rows) : Commit(n)
  \/ \E u \in Users : SetPrefs(u)
  \/ Enqueuer \/ Dispatcher
  \/ \E r \in Rows : BecomesDue(r)
  \/ WorkerDies

(* The worker's timers start both runs again and again, and time passes. *)
Fairness == WF_vars(Enqueuer) /\ WF_vars(Dispatcher) /\ \A r \in Rows : WF_vars(BecomesDue(r))

Spec == Init /\ [][Next]_vars /\ Fairness

------------------------------------------------------------------------------
(* The state of the rows and of both runs has the shape the code gives it,   *)
(* the cursor is the time of a row, and no event is tried more than          *)
(* MAX_RETRIES times.                                                        *)
TypeOK ==
  /\ audit \in [Rows -> {"none", "open", "committed"}]
  /\ at \in [Rows -> 0..Cardinality(Rows)] /\ cursor \in 0..Cardinality(Rows)
  /\ enabled \subseteq Users
  /\ scan \in [rows : Seq(Rows), last : Nat, known : [Users -> {"unread", "on", "off"}]]
  /\ events \in [Rows -> Event]
  /\ batch \in [todo : SUBSET SUBSET Rows, group : SUBSET Rows, first : Rows \union {NoUser}, result : Result]
  /\ delivered \in [Rows -> Nat]
  /\ faults \in 0..MaxFaults
  /\ mode \in {"dry run", "keys missing", "live"}

(* sent_at without an error means that the provider took the mail. *)
SentIsDelivered == \A r \in Rows : events[r].state = "sent" => mode = "dry run" \/ delivered[r] > 0

(* A mail is repeated only because the worker died or an answer was lost,    *)
(* once for each.                                                            *)
DuplicatesNeedFaults == \A r \in Rows : delivered[r] <= 1 + faults

(* An instant event never runs out of attempts without being parked. *)
NoInstantStranded ==
  \A r \in Rows : events[r].state = "pending" /\ Category(r) = "instant" => events[r].retries < MaxRetries

(* A row that is committed before the cursor or a scan in work has come past *)
(* it, alone in its transaction, is on its way to the user: whatever fails,  *)
(* its mail is sent or parked, unless the user does not want it.             *)
OnTime(r) ==
  /\ audit[r] = "committed" /\ at[r] > cursor /\ scan = NoScan
  /\ \A x \in Rows : x # r => at[x] # at[r]
InstantMailSettles ==
  \A r \in {x \in Rows : Category(x) = "instant"} :
    OnTime(r) ~> (events[r].state \in {"sent", "parked"} \/ UserOf(r) \notin enabled)

================================================================================
