-------------------------- MODULE EmailPipelineProofs --------------------------
(***************************************************************************)
(* Proofs about EmailPipeline for any number of audit rows, users, retries *)
(* and faults: what a mark in email_events means, how often a mail is      *)
(* repeated, and that no instant mail runs out of attempts unparked.       *)
(***************************************************************************)
EXTENDS EmailPipeline, FiniteSetTheorems, SequenceTheorems, TLAPS

Groupings == batch.todo \union {batch.group}

(* The run of the dispatcher, or the rest of it. *)
BatchType ==
  /\ batch \in [todo : SUBSET SUBSET Rows, group : SUBSET Rows, first : Rows \union {NoUser},
                result : Result]
  /\ batch.result # "none" => batch.first \in batch.group /\ batch.group \notin batch.todo
  /\ batch.result = "none" => batch.group = {}

(* No event is in two groups of a run. *)
GroupsApart ==
  \A g, h \in Groupings : g # h => g \intersect h = {}

(* The events of a run wait to be marked by it, and an instant event is      *)
(* alone in its group.                                                       *)
GroupPending ==
  \A g \in Groupings : \A r \in g :
    /\ events[r].state = "pending"
    /\ events[r].retries < MaxRetries
    /\ Category(r) = "instant" => g = {r}

(* The provider has just taken the mail, and the row does not say so yet.    *)
Accepted(r) == r \in batch.group /\ batch.result = "accepted"

(* A mail that is not yet marked has been delivered at most once per fault.  *)
Deliveries ==
  \A r \in Rows :
    /\ delivered[r] <= 1 + faults
    /\ events[r].state \in {"none", "pending"} /\ ~Accepted(r) => delivered[r] <= faults
    /\ Accepted(r) => mode = "dry run" \/ delivered[r] > 0

(* The inductive invariant. *)
Inv ==
  /\ events \in [Rows -> Event]
  /\ delivered \in [Rows -> Nat]
  /\ faults \in Nat
  /\ mode \in {"dry run", "keys missing", "live"}
  /\ BatchType
  /\ GroupsApart
  /\ GroupPending
  /\ Deliveries
  /\ SentIsDelivered
  /\ NoInstantStranded

LEMMA InitInv == Init => Inv
<1> SUFFICES ASSUME Init PROVE Inv
  OBVIOUS
<1>0. NoEvent \in Event
  BY EmailAssumptions DEF Event, NoEvent
<1>1. /\ events \in [Rows -> Event] /\ delivered \in [Rows -> Nat] /\ faults \in Nat
      /\ mode \in {"dry run", "keys missing", "live"}
  BY <1>0 DEF Init
<1>2. BatchType
  BY DEF Init, BatchType, NoBatch, Result
<1>3. GroupsApart /\ GroupPending /\ Groupings = {{}}
  BY DEF Init, GroupsApart, GroupPending, Groupings, NoBatch
<1>4. Deliveries
  <2>1. batch.group = {} /\ faults = 0 /\ \A r \in Rows : delivered[r] = 0
    BY DEF Init, NoBatch
  <2> QED BY <2>1 DEF Deliveries, Accepted
<1>5. SentIsDelivered /\ NoInstantStranded
  BY DEF Init, SentIsDelivered, NoInstantStranded, NoEvent
<1> QED BY <1>1, <1>2, <1>3, <1>4, <1>5 DEF Inv

(* What does not touch the events, the dispatcher or the mails. *)
LEMMA BystanderStep ==
  ASSUME Inv, UNCHANGED <<events, batch, delivered, faults, mode>>
  PROVE  Inv'
BY DEF Inv, BatchType, GroupsApart, GroupPending, Groupings, Deliveries, Accepted,
       SentIsDelivered, NoInstantStranded

(* A step of the enqueuer or of the clock changes only events that no run    *)
(* has in hand, or their due time.                                           *)
LEMMA EventStep ==
  ASSUME Inv, events' \in [Rows -> Event], UNCHANGED <<batch, delivered, faults, mode>>,
         \A r \in Rows :
           \/ events'[r] = events[r]
           \/ events[r].state = "none" /\ events'[r].state = "pending" /\ events'[r].retries = 0
           \/ events'[r].state = events[r].state /\ events'[r].retries = events[r].retries
  PROVE  Inv'
<1>0. MaxRetries \in Nat \ {0}
  BY EmailAssumptions
<1>1. Groupings' = Groupings
  BY DEF Groupings
<1>2. \A g \in Groupings : g \subseteq Rows
  BY DEF Inv, BatchType, Groupings
<1>3. GroupPending'
  <2>1. ASSUME NEW g \in Groupings, NEW r \in g
        PROVE  /\ events'[r].state = "pending"
               /\ events'[r].retries < MaxRetries
               /\ Category(r) = "instant" => g = {r}
    <3>1. r \in Rows /\ events[r].state = "pending" /\ events[r].retries < MaxRetries
          /\ (Category(r) = "instant" => g = {r})
      BY <2>1, <1>2 DEF Inv, GroupPending
    <3> QED BY <3>1
  <2> QED BY <2>1, <1>1 DEF GroupPending
<1>4. Deliveries'
  BY DEF Inv, Deliveries, Accepted
<1>5. SentIsDelivered'
  BY DEF Inv, SentIsDelivered
<1>6. NoInstantStranded'
  <2>1. ASSUME NEW r \in Rows, events'[r].state = "pending", Category(r) = "instant"
        PROVE  events'[r].retries < MaxRetries
    <3>1. events[r].state = "pending" => events[r].retries < MaxRetries
      BY <2>1 DEF Inv, NoInstantStranded
    <3>2. \/ events[r].state = "pending" /\ events'[r].retries = events[r].retries
          \/ events'[r].retries = 0
      BY <2>1
    <3> QED BY <3>1, <3>2, <1>0
  <2> QED BY <2>1 DEF NoInstantStranded
<1> QED BY <1>1, <1>3, <1>4, <1>5, <1>6 DEF Inv, BatchType, GroupsApart

LEMMA EnqueueStep ==
  ASSUME Inv, Enqueue
  PROVE  Inv'
<1> DEFINE r == Head(scan.rows)
           e == [state |-> "pending", due |-> Category(r) = "instant", retries |-> 0]
<1>1. e \in Event /\ e.state = "pending" /\ e.retries = 0
  BY EmailAssumptions DEF Event
<1>2. events' = events \/ (events[r].state = "none" /\ events' = [events EXCEPT ![r] = e])
  BY DEF Enqueue
<1>3. UNCHANGED <<batch, delivered, faults, mode>>
  BY DEF Enqueue
<1>4. events \in [Rows -> Event]
  BY DEF Inv
<1> HIDE DEF r, e
<1>5. CASE events' = events
  BY <1>5, <1>3, BystanderStep
<1>6. CASE events[r].state = "none" /\ events' = [events EXCEPT ![r] = e]
  <2>1. events' \in [Rows -> Event]
    BY <1>6, <1>1, <1>4
  <2>2. \A x \in Rows : x # r => events'[x] = events[x]
    BY <1>6, <1>4
  <2>3. r \in Rows => events'[r] = e
    BY <1>6, <1>4
  <2> QED BY <1>6, <1>1, <1>3, <2>1, <2>2, <2>3, EventStep
<1> QED BY <1>2, <1>5, <1>6

LEMMA BecomesDueStep ==
  ASSUME Inv, NEW r \in Rows, BecomesDue(r)
  PROVE  Inv'
<1>1. events \in [Rows -> Event] /\ events' = [events EXCEPT ![r].due = TRUE]
  BY DEF Inv, BecomesDue
<1>2. \A x \in Rows : x # r => events'[x] = events[x]
  BY <1>1
<1>3. events'[r] = [events[r] EXCEPT !.due = TRUE]
  BY <1>1
<1>4. events[r] \in Event
  BY <1>1
<1>5. events'[r].state = events[r].state /\ events'[r].retries = events[r].retries /\ events'[r] \in Event
  BY <1>3, <1>4 DEF Event
<1>6. events' \in [Rows -> Event]
  BY <1>1, <1>2, <1>5
<1>7. UNCHANGED <<batch, delivered, faults, mode>>
  BY DEF BecomesDue
<1> QED BY <1>2, <1>5, <1>6, <1>7, EventStep

(* The groups of a run share no event, and keep instant events apart. *)
LEMMA GroupsAreApart ==
  ASSUME NEW S \in SUBSET Rows
  PROVE  /\ Groups(S) \in SUBSET SUBSET S
         /\ \A g, h \in Groups(S) : g # h => g \intersect h = {}
         /\ \A g \in Groups(S) : \A r \in g : Category(r) = "instant" => g = {r}
<1>1. ASSUME NEW g \in Groups(S)
      PROVE  \/ \E r \in S : Category(r) = "instant" /\ g = {r}
             \/ \E u \in Users : g = {r \in S : Category(r) = "digest" /\ UserOf(r) = u}
  BY DEF Groups
<1>2. Groups(S) \in SUBSET SUBSET S
  BY <1>1
<1>3. ASSUME NEW g \in Groups(S), NEW r \in g, Category(r) = "instant"
      PROVE  g = {r}
  BY <1>1, <1>3
<1>4. ASSUME NEW g \in Groups(S), NEW h \in Groups(S), NEW r \in g, r \in h
      PROVE  g = h
  <2>1. CASE Category(r) = "instant"
    BY <2>1, <1>3, <1>4
  <2>2. CASE Category(r) # "instant"
    <3>1. PICK u \in Users : g = {x \in S : Category(x) = "digest" /\ UserOf(x) = u}
      BY <2>2, <1>1
    <3>2. PICK v \in Users : h = {x \in S : Category(x) = "digest" /\ UserOf(x) = v}
      BY <2>2, <1>1, <1>4
    <3>3. u = v
      BY <3>1, <3>2, <1>4
    <3> QED BY <3>1, <3>2, <3>3
  <2> QED BY <2>1, <2>2
<1>5. \A g, h \in Groups(S) : g # h => g \intersect h = {}
  BY <1>4
<1> QED BY <1>2, <1>3, <1>5

LEMMA PullStep ==
  ASSUME Inv, Pull
  PROVE  Inv'
<1>1. PICK S \in SUBSET Ready : batch' = [NoBatch EXCEPT !.todo = Groups(S)]
  BY DEF Pull
<1>2. /\ batch' = [todo |-> Groups(S), group |-> {}, first |-> NoUser, result |-> "none"]
      /\ batch = NoBatch
  BY <1>1 DEF Pull, NoBatch
<1>3. S \in SUBSET Rows /\ \A r \in S : events[r].state = "pending" /\ events[r].retries < MaxRetries
  BY DEF Ready
<1>4. UNCHANGED <<events, delivered, faults, mode>>
  BY DEF Pull
<1>5. Groupings' = Groups(S) \union {{}}
  BY <1>2 DEF Groupings
<1>6. BatchType'
  BY <1>2, <1>3, GroupsAreApart DEF BatchType, Result
<1>7. GroupsApart'
  BY <1>5, <1>3, GroupsAreApart DEF GroupsApart
<1>8. GroupPending'
  BY <1>4, <1>5, <1>3, GroupsAreApart DEF GroupPending
<1>9. Deliveries'
  BY <1>2, <1>4 DEF Inv, Deliveries, Accepted, NoBatch
<1>10. SentIsDelivered' /\ NoInstantStranded'
  BY <1>4 DEF Inv, SentIsDelivered, NoInstantStranded
<1> QED BY <1>4, <1>6, <1>7, <1>8, <1>9, <1>10 DEF Inv

(* A mail goes out, or does not: it is counted, and the run has its result.  *)
LEMMA SendStep ==
  ASSUME Inv, NEW g \in batch.todo, NEW first \in g, NEW result \in Result \ {"none"},
         NEW lost \in BOOLEAN, Send(g, first, result, lost)
  PROVE  Inv'
<1>1. /\ batch' = [todo |-> batch.todo \ {g}, group |-> g, first |-> first, result |-> result]
      /\ UNCHANGED <<events, mode>>
      /\ lost => result = "transient"
      /\ batch.result = "none"
      /\ result \in Outcomes
  BY DEF Send
<1>2. g \subseteq Rows /\ g \in Groupings
  BY DEF Inv, BatchType, Groupings
<1>3. /\ faults \in Nat /\ faults' \in Nat
      /\ lost => faults' = faults + 1
      /\ ~lost => faults' = faults
  <2>1. faults \in Nat
    BY DEF Inv
  <2>2. faults' = IF lost THEN faults + 1 ELSE faults
    BY DEF Send
  <2> QED BY <2>1, <2>2
<1>4. delivered' = [r \in Rows |-> IF r \in g /\ mode = "live" /\ (lost \/ result = "accepted")
                                   THEN delivered[r] + 1 ELSE delivered[r]]
  BY DEF Send
<1>5. delivered \in [Rows -> Nat] /\ delivered' \in [Rows -> Nat]
  <2>1. delivered \in [Rows -> Nat]
    BY DEF Inv
  <2> QED BY <2>1, <1>4
<1>6. BatchType'
  BY <1>1, <1>2 DEF Inv, BatchType
<1>7. Groupings' = batch.todo /\ Groupings' \subseteq Groupings
  BY <1>1 DEF Groupings
<1>8. GroupsApart' /\ GroupPending'
  BY <1>1, <1>7 DEF Inv, GroupsApart, GroupPending
<1>9. Deliveries'
  <2>0. \A r : ~Accepted(r)
    BY <1>1 DEF Accepted
  <2>1. ASSUME NEW r \in Rows
        PROVE  /\ delivered'[r] <= 1 + faults'
               /\ events'[r].state \in {"none", "pending"} /\ ~Accepted(r)' => delivered'[r] <= faults'
               /\ Accepted(r)' => mode' = "dry run" \/ delivered'[r] > 0
    <3>1. delivered[r] \in Nat /\ delivered[r] <= 1 + faults
      BY <1>5 DEF Inv, Deliveries
    <3>2. events[r].state \in {"none", "pending"} => delivered[r] <= faults
      BY <2>0 DEF Inv, Deliveries
    <3>3. r \in g => events[r].state = "pending"
      BY <1>2 DEF Inv, GroupPending
    <3>4. Accepted(r)' <=> r \in g /\ result = "accepted"
      BY <1>1 DEF Accepted
    <3>5. result = "accepted" => mode \in {"dry run", "live"} /\ ~lost
      BY <1>1 DEF Outcomes, Inv
    <3>6. delivered'[r] = IF r \in g /\ mode = "live" /\ (lost \/ result = "accepted")
                          THEN delivered[r] + 1 ELSE delivered[r]
      BY <1>4
    <3>7. events' = events /\ mode' = mode
      BY <1>1
    <3>8. CASE lost
      <4>1. faults' = faults + 1 /\ (delivered'[r] = delivered[r] \/ (r \in g /\ delivered'[r] = delivered[r] + 1))
        BY <3>8, <1>3, <3>6
      <4>2. ~Accepted(r)'
        BY <3>8, <3>4, <3>5
      <4>3. delivered'[r] <= faults'
        <5>1. faults \in Nat /\ delivered[r] \in Nat
          BY <1>3, <3>1
        <5>2. CASE r \in g
          BY <5>1, <5>2, <3>2, <3>3, <4>1
        <5>3. CASE r \notin g
          BY <5>1, <5>3, <3>1, <4>1
        <5> QED BY <5>2, <5>3
      <4>4. delivered'[r] \in Nat /\ faults' \in Nat
        BY <1>3, <1>5
      <4>5. delivered'[r] <= 1 + faults'
        BY <4>3, <4>4
      <4> QED BY <4>2, <4>3, <4>5
    <3>9. CASE ~lost /\ Accepted(r)'
      <4>1. r \in g /\ result = "accepted" /\ faults' = faults /\ delivered[r] <= faults
        BY <3>9, <1>3, <3>2, <3>3, <3>4
      <4>2. CASE mode = "live"
        <5>1. delivered'[r] = delivered[r] + 1
          BY <4>1, <4>2, <3>6
        <5>2. faults \in Nat /\ delivered[r] \in Nat
          BY <1>3, <3>1
        <5>3. delivered'[r] <= 1 + faults' /\ delivered'[r] > 0
          BY <4>1, <5>1, <5>2
        <5> QED BY <3>9, <5>3
      <4>3. CASE mode # "live"
        <5>1. delivered'[r] = delivered[r] /\ mode' = "dry run"
          BY <4>1, <4>3, <3>5, <3>6, <3>7
        <5> QED BY <1>3, <3>1, <3>9, <4>1, <5>1
      <4> QED BY <4>2, <4>3
    <3>10. CASE ~lost /\ ~Accepted(r)'
      <4>1. faults' = faults /\ delivered'[r] = delivered[r]
        BY <3>10, <1>3, <3>4, <3>6
      <4> QED BY <3>1, <3>2, <3>7, <3>10, <4>1
    <3> QED BY <3>8, <3>9, <3>10
  <2> QED BY <2>1 DEF Deliveries
<1>10. SentIsDelivered'
  <2>1. ASSUME NEW r \in Rows
        PROVE  delivered[r] > 0 => delivered'[r] > 0
    <3>1. delivered[r] \in Nat
      BY <1>5
    <3>2. delivered'[r] = delivered[r] \/ delivered'[r] = delivered[r] + 1
      BY <1>4
    <3> QED BY <3>1, <3>2
  <2>2. ASSUME NEW r \in Rows, events'[r].state = "sent"
        PROVE  mode' = "dry run" \/ delivered'[r] > 0
    <3>1. mode = "dry run" \/ delivered[r] > 0
      BY <2>2, <1>1 DEF Inv, SentIsDelivered
    <3> QED BY <3>1, <2>1, <1>1
  <2> QED BY <2>2 DEF SentIsDelivered
<1>11. NoInstantStranded'
  BY <1>1 DEF Inv, NoInstantStranded
<1>12. events' \in [Rows -> Event] /\ mode' \in {"dry run", "keys missing", "live"}
  BY <1>1 DEF Inv
<1> QED BY <1>3, <1>5, <1>6, <1>8, <1>9, <1>10, <1>11, <1>12 DEF Inv

(* The rows of the group are marked with the result. *)
LEMMA MarkStep ==
  ASSUME Inv, Mark
  PROVE  Inv'
<1>0. MaxRetries \in Nat \ {0}
  BY EmailAssumptions
<1>1. PICK T \in SUBSET batch.todo :
        batch' = [todo |-> T, group |-> {}, first |-> NoUser, result |-> "none"]
  <2>1. batch' = [NoBatch EXCEPT !.todo = IF batch.result = "unset" THEN {} ELSE batch.todo]
    BY DEF Mark
  <2> WITNESS (IF batch.result = "unset" THEN {} ELSE batch.todo) \in SUBSET batch.todo
  <2> QED BY <2>1 DEF NoBatch
<1>2. UNCHANGED <<delivered, faults, mode>> /\ batch.result # "none"
  BY DEF Mark
<1>3. events' = [r \in Rows |-> IF r \in batch.group THEN Marked(events[r]) ELSE events[r]]
  BY DEF Mark
<1>4. batch.first \in batch.group /\ batch.group \subseteq Rows /\ batch.todo \subseteq SUBSET Rows
  BY <1>2 DEF Inv, BatchType
<1>5. ASSUME NEW r \in batch.group
      PROVE  /\ events[r] \in Event /\ events[r].state = "pending" /\ events[r].retries < MaxRetries
             /\ Category(r) = "instant" => batch.first = r
  <2>1. batch.group \in Groupings /\ r \in Rows
    BY <1>4 DEF Groupings
  <2>2. events[r] \in Event
    BY <2>1 DEF Inv
  <2>3. /\ events[r].state = "pending" /\ events[r].retries < MaxRetries
        /\ Category(r) = "instant" => batch.group = {r}
    BY <2>1 DEF Inv, GroupPending
  <2> QED BY <2>2, <2>3, <1>4
<1>6. ASSUME NEW r \in batch.group
      PROVE  /\ Marked(events[r]) \in Event
             /\ batch.result = "accepted" => Marked(events[r]).state = "sent"
             /\ batch.result # "accepted" => Marked(events[r]).state \in {"pending", "parked"}
             /\ Marked(events[r]).state = "pending" /\ Category(r) = "instant"
                  => Marked(events[r]).retries < MaxRetries
  <2>1. PICK e \in Event : e = events[r] /\ e.state = "pending" /\ e.retries < MaxRetries
    BY <1>5
  <2>2. e.retries \in 0..MaxRetries /\ e.due \in BOOLEAN
    BY DEF Event
  <2>3. CASE batch.result = "accepted"
    <3>1. Marked(e) = [e EXCEPT !.state = "sent"]
      BY <2>3 DEF Marked, RetryAgain
    <3>2. Marked(e) \in Event /\ Marked(e).state = "sent"
      BY <3>1 DEF Event
    <3> QED BY <3>2, <2>1, <2>3
  <2>4. CASE batch.result # "accepted" /\ RetryAgain(batch.first)
    <3>1. Marked(e) = [state |-> "pending", due |-> FALSE, retries |-> e.retries + 1]
      BY <2>4 DEF Marked
    <3>2. Marked(e) \in Event /\ Marked(e).state = "pending" /\ Marked(e).retries = e.retries + 1
      BY <3>1, <2>1, <2>2, <1>0 DEF Event
    <3>3. Category(r) = "instant" => e.retries + 1 < MaxRetries
      BY <2>4, <2>1, <1>5 DEF RetryAgain
    <3> QED BY <3>2, <3>3, <2>1, <2>4
  <2>5. CASE batch.result # "accepted" /\ ~RetryAgain(batch.first)
    <3>1. Marked(e) = [e EXCEPT !.state = "parked"]
      BY <2>5 DEF Marked
    <3>2. Marked(e) \in Event /\ Marked(e).state = "parked"
      BY <3>1 DEF Event
    <3> QED BY <3>2, <2>1, <2>5
  <2> QED BY <2>3, <2>4, <2>5
<1>7. \A r \in Rows : events'[r] = IF r \in batch.group THEN Marked(events[r]) ELSE events[r]
  BY <1>3
<1>8. events' \in [Rows -> Event]
  BY <1>3, <1>6 DEF Inv
<1>9. BatchType'
  BY <1>1, <1>4 DEF BatchType, Result
<1>10. Groupings' = T \union {{}}
  BY <1>1 DEF Groupings
<1>11. GroupsApart'
  BY <1>10 DEF Inv, GroupsApart, Groupings
<1>12. GroupPending'
  <2>1. ASSUME NEW g \in T, NEW r \in g
        PROVE  events'[r] = events[r] /\ g \in Groupings
    <3>1. g \in batch.todo /\ g \in Groupings /\ batch.group \in Groupings /\ r \in Rows
      BY <1>4 DEF Groupings
    <3>2. CASE g # batch.group
      BY <3>1, <3>2, <1>7 DEF Inv, GroupsApart
    <3>3. g # batch.group
      BY <3>1, <1>2 DEF Inv, BatchType
    <3> QED BY <3>1, <3>2, <3>3
  <2>2. ASSUME NEW g \in T, NEW r \in g
        PROVE  /\ events'[r].state = "pending"
               /\ events'[r].retries < MaxRetries
               /\ Category(r) = "instant" => g = {r}
    <3>1. GroupPending
      BY DEF Inv
    <3> QED BY <2>1, <3>1 DEF GroupPending
  <2> QED BY <2>2, <1>10 DEF GroupPending
<1>13. Deliveries'
  <2>1. \A r : ~Accepted(r)'
    BY <1>1 DEF Accepted
  <2>2. ASSUME NEW r \in Rows
        PROVE  /\ delivered[r] <= 1 + faults
               /\ events'[r].state \in {"none", "pending"} => delivered[r] <= faults
    <3>1. CASE r \in batch.group
      BY <3>1, <1>5, <1>6, <1>7 DEF Inv, Deliveries, Accepted
    <3>2. CASE r \notin batch.group
      BY <3>2, <1>7 DEF Inv, Deliveries, Accepted
    <3> QED BY <3>1, <3>2
  <2> QED BY <2>1, <2>2, <1>2 DEF Deliveries
<1>14. SentIsDelivered'
  <2>1. ASSUME NEW r \in Rows, events'[r].state = "sent"
        PROVE  mode = "dry run" \/ delivered[r] > 0
    <3>1. CASE r \in batch.group
      BY <3>1, <2>1, <1>6, <1>7 DEF Inv, Deliveries, Accepted
    <3>2. CASE r \notin batch.group
      BY <3>2, <2>1, <1>7 DEF Inv, SentIsDelivered
    <3> QED BY <3>1, <3>2
  <2> QED BY <2>1, <1>2 DEF SentIsDelivered
<1>15. NoInstantStranded'
  BY <1>6, <1>7 DEF Inv, NoInstantStranded
<1> QED BY <1>2, <1>8, <1>9, <1>11, <1>12, <1>13, <1>14, <1>15 DEF Inv

(* The worker forgets its runs; what was delivered and not marked is counted *)
(* against the fault.                                                        *)
LEMMA WorkerDiesStep ==
  ASSUME Inv, WorkerDies
  PROVE  Inv'
<1>1. batch' = NoBatch /\ faults' = faults + 1 /\ UNCHANGED <<events, delivered, mode>>
  BY DEF WorkerDies
<1>2. faults \in Nat /\ delivered \in [Rows -> Nat]
  BY DEF Inv
<1>3. BatchType'
  BY <1>1 DEF BatchType, NoBatch, Result
<1>4. Groupings' = {{}}
  BY <1>1 DEF Groupings, NoBatch
<1>5. GroupsApart' /\ GroupPending'
  BY <1>4 DEF GroupsApart, GroupPending
<1>6. Deliveries'
  <2>1. \A r : ~Accepted(r)'
    BY <1>1 DEF Accepted, NoBatch
  <2>2. ASSUME NEW r \in Rows
        PROVE  delivered'[r] <= 1 + faults' /\ delivered'[r] <= faults'
    <3>1. delivered[r] \in Nat /\ delivered[r] <= 1 + faults
      BY <1>2 DEF Inv, Deliveries
    <3> QED BY <3>1, <1>1, <1>2
  <2> QED BY <2>1, <2>2 DEF Deliveries
<1>7. SentIsDelivered' /\ NoInstantStranded'
  BY <1>1 DEF Inv, SentIsDelivered, NoInstantStranded
<1>8. /\ events' \in [Rows -> Event] /\ delivered' \in [Rows -> Nat] /\ faults' \in Nat
      /\ mode' \in {"dry run", "keys missing", "live"}
  <2>1. events' \in [Rows -> Event] /\ mode' \in {"dry run", "keys missing", "live"}
    BY <1>1 DEF Inv
  <2>2. faults' \in Nat
    BY <1>1, <1>2
  <2>3. delivered' \in [Rows -> Nat]
    BY <1>1, <1>2
  <2> QED BY <2>1, <2>2, <2>3
<1> QED BY <1>3, <1>5, <1>6, <1>7, <1>8 DEF Inv

LEMMA NextInv == Inv /\ [Next]_vars => Inv'
<1> SUFFICES ASSUME Inv, [Next]_vars PROVE Inv'
  OBVIOUS
<1>1. CASE \/ \E S \in SUBSET Rows : Begin(S)
           \/ \E n \in 1..Cardinality(Rows) : Commit(n)
           \/ \E u \in Users : SetPrefs(u)
           \/ Scan \/ AdvanceCursor
           \/ UNCHANGED vars
  BY <1>1, BystanderStep DEF Begin, Commit, SetPrefs, Scan, AdvanceCursor, vars
<1>2. CASE Enqueue
  BY <1>2, EnqueueStep
<1>3. CASE Pull
  BY <1>3, PullStep
<1>4. CASE Sending
  BY <1>4, SendStep DEF Sending
<1>5. CASE Mark
  BY <1>5, MarkStep
<1>6. CASE \E r \in Rows : BecomesDue(r)
  BY <1>6, BecomesDueStep
<1>7. CASE WorkerDies
  BY <1>7, WorkerDiesStep
<1> QED BY <1>1, <1>2, <1>3, <1>4, <1>5, <1>6, <1>7 DEF Next, Enqueuer, Dispatcher

(* The invariant holds in every reachable state. *)
LEMMA InvAlways == Spec => []Inv
<1> QED BY InitInv, NextInv, PTL DEF Spec

(* sent_at without an error means that the provider took the mail, whatever  *)
(* the worker survives between the two.                                      *)
THEOREM SentIsDeliveredTheorem == Spec => []SentIsDelivered
<1>1. Inv => SentIsDelivered
  BY DEF Inv
<1> QED BY <1>1, InvAlways, PTL

(* A mail is repeated at most once for every crash and every lost answer,    *)
(* for any sizes of batches and digests.                                     *)
THEOREM DuplicatesTheorem == Spec => []DuplicatesNeedFaults
<1>1. Inv => DuplicatesNeedFaults
  BY DEF Inv, Deliveries, DuplicatesNeedFaults
<1> QED BY <1>1, InvAlways, PTL

(* An instant mail that is still pending has an attempt left, so the         *)
(* dispatcher's SELECT will find it once it is due.                          *)
THEOREM NoInstantStrandedTheorem == Spec => []NoInstantStranded
<1>1. Inv => NoInstantStranded
  BY DEF Inv
<1> QED BY <1>1, InvAlways, PTL

--------------------------------------------------------------------------------
(* Times.  created_at is bounded by the number of rows, since a transaction  *)
(* that begins has a row that none before it had.                            *)
Begun == {r \in Rows : audit[r] # "none"}

(* The times of rows, and that one of them is the latest. *)
TimesOK ==
  /\ audit \in [Rows -> {"none", "open", "committed"}]
  /\ at \in [Rows -> Nat]
  /\ \A r \in Rows : at[r] <= Cardinality(Begun)
  /\ Rows # {} => \E m \in Rows : \A r \in Rows : at[r] <= at[m]

(* The enqueuer's cursor and the run in work. *)
ScanOK ==
  /\ cursor \in 0..Cardinality(Rows)
  /\ scan \in [rows : Seq(Rows), last : 0..Cardinality(Rows), known : [Users -> {"unread", "on", "off"}]]

(* What TypeOK says beyond Inv, made inductive. *)
TypeInv ==
  /\ TimesOK
  /\ ScanOK
  /\ enabled \subseteq Users
  /\ faults \in 0..MaxFaults

(* There are finitely many rows, and no more of them are begun. *)
LEMMA Counted ==
  /\ Cardinality(Rows) \in Nat
  /\ \A S \in SUBSET Rows : IsFiniteSet(S) /\ Cardinality(S) \in Nat /\ Cardinality(S) <= Cardinality(Rows)
<1>1. IsFiniteSet(Rows)
  BY EmailAssumptions
<1> QED BY <1>1, FS_Subset, FS_CardinalityType

(* Every time of a row is bounded by the number of rows. *)
LEMMA TimesBounded ==
  ASSUME TimesOK
  PROVE  \A r \in Rows : at[r] \in 0..Cardinality(Rows)
<1>1. Begun \in SUBSET Rows
  BY DEF Begun
<1>2. Cardinality(Begun) \in Nat /\ Cardinality(Begun) <= Cardinality(Rows)
  BY <1>1, Counted
<1> QED BY <1>2, Counted DEF TimesOK

(* The latest time is the time of a row. *)
LEMMA LatestIs ==
  ASSUME TimesOK, Rows # {}
  PROVE  Latest \in Nat /\ (\A r \in Rows : at[r] <= Latest) /\ Latest <= Cardinality(Begun)
<1>1. PICK m \in Rows : \A r \in Rows : at[r] <= at[m]
  BY DEF TimesOK
<1>2. at[m] \in 0..Cardinality(Rows)
  BY TimesBounded
<1>3. \E n \in 0..Cardinality(Rows) : (\E r \in Rows : at[r] = n) /\ \A r \in Rows : at[r] <= n
  BY <1>1, <1>2
<1>4. /\ Latest \in 0..Cardinality(Rows)
      /\ \E r \in Rows : at[r] = Latest
      /\ \A r \in Rows : at[r] <= Latest
  BY <1>3 DEF Latest
<1> QED BY <1>4, Counted DEF TimesOK

(* A transaction begins later than all before it, with rows of its own. *)
LEMMA BeginTimes ==
  ASSUME TimesOK, NEW S \in SUBSET Rows, Begin(S)
  PROVE  TimesOK'
<1>1. PICK s \in S : TRUE
  BY DEF Begin
<1>2. /\ audit' = [r \in Rows |-> IF r \in S THEN "open" ELSE audit[r]]
      /\ at' = [r \in Rows |-> IF r \in S THEN Latest + 1 ELSE at[r]]
      /\ \A r \in S : audit[r] = "none"
  BY DEF Begin
<1>3. Latest \in Nat /\ (\A r \in Rows : at[r] <= Latest) /\ Latest <= Cardinality(Begun)
  BY <1>1, LatestIs
<1>4. Cardinality(Begun) + 1 <= Cardinality(Begun')
  <2>1. Begun \in SUBSET Rows /\ Begun' \in SUBSET Rows
    BY DEF Begun
  <2>2. s \notin Begun /\ Begun \union {s} \subseteq Begun'
    BY <1>1, <1>2 DEF Begun, TimesOK
  <2>3. Cardinality(Begun \union {s}) = Cardinality(Begun) + 1
    BY <2>1, <2>2, Counted, FS_AddElement
  <2>4. IsFiniteSet(Begun')
    BY <2>1, Counted
  <2>5. Cardinality(Begun \union {s}) <= Cardinality(Begun')
    BY <2>2, <2>4, FS_Subset
  <2> QED BY <2>3, <2>5
<1>5. Cardinality(Begun) \in Nat /\ Cardinality(Begun') \in Nat
  <2>1. Begun \in SUBSET Rows /\ Begun' \in SUBSET Rows
    BY DEF Begun
  <2> QED BY <2>1, Counted
<1>6. audit' \in [Rows -> {"none", "open", "committed"}] /\ at' \in [Rows -> Nat]
  BY <1>2, <1>3 DEF TimesOK
<1>7. \A r \in Rows : at'[r] <= Cardinality(Begun')
  BY <1>2, <1>3, <1>4, <1>5 DEF TimesOK
<1>8. \A r \in Rows : at'[r] <= at'[s]
  BY <1>1, <1>2, <1>3 DEF TimesOK
<1> QED BY <1>1, <1>6, <1>7, <1>8 DEF TimesOK

(* A commit changes no time, and no row becomes one that has not begun. *)
LEMMA CommitTimes ==
  ASSUME TimesOK, NEW n \in 1..Cardinality(Rows), Commit(n)
  PROVE  TimesOK'
<1>1. at' = at /\ audit' = [r \in Rows |-> IF at[r] = n THEN "committed" ELSE audit[r]]
  BY DEF Commit
<1>2. audit' \in [Rows -> {"none", "open", "committed"}]
  BY <1>1 DEF TimesOK
<1>3. Begun \in SUBSET Rows /\ Begun' \in SUBSET Rows /\ Begun \subseteq Begun'
  BY <1>1 DEF Begun
<1>4. Cardinality(Begun) \in Nat /\ Cardinality(Begun') \in Nat /\ Cardinality(Begun) <= Cardinality(Begun')
  BY <1>3, Counted, FS_Subset
<1>5. \A r \in Rows : at'[r] <= Cardinality(Begun')
  BY <1>1, <1>4 DEF TimesOK
<1> QED BY <1>1, <1>2, <1>5 DEF TimesOK

(* A scan has at least one row, and remembers the time of its last.          *)
LEMMA ScanKeeps ==
  ASSUME TimesOK, ScanOK, Scan
  PROVE  ScanOK'
<1>1. PICK s \in Scans : scan' = [NoScan EXCEPT !.rows = s, !.last = at[s[Len(s)]]]
  BY DEF Scan
<1>2. cursor' = cursor /\ Unscanned # {} /\ Unscanned \in SUBSET Rows
  BY DEF Scan, Unscanned
<1>3. Cardinality(Unscanned) \in Nat \ {0}
  BY <1>2, Counted, FS_EmptySet
<1> DEFINE n == IF Cardinality(Unscanned) < ScanLimit THEN Cardinality(Unscanned) ELSE ScanLimit
<1>4. n \in Nat \ {0}
  BY <1>3, EmailAssumptions
<1>5. s \in [1..n -> Unscanned]
  BY DEF Scans
<1> HIDE DEF n
<1>6. s \in Seq(Rows) /\ Len(s) = n
  BY <1>2, <1>4, <1>5
<1>7. s[Len(s)] \in Rows
  BY <1>2, <1>4, <1>5, <1>6
<1>8. at[s[Len(s)]] \in 0..Cardinality(Rows)
  BY <1>7, TimesBounded
<1>9. scan' = [rows |-> s, last |-> at[s[Len(s)]], known |-> [u \in Users |-> "unread"]]
  BY <1>1 DEF NoScan
<1> QED BY <1>2, <1>6, <1>8, <1>9 DEF ScanOK

(* An empty scan is one of its kind. *)
LEMMA NoScanOK ==
  NoScan \in [rows : Seq(Rows), last : 0..Cardinality(Rows), known : [Users -> {"unread", "on", "off"}]]
BY Counted DEF NoScan

(* The events of a scan are written one by one; the preferences of their     *)
(* users are remembered.                                                     *)
LEMMA EnqueueScan ==
  ASSUME ScanOK, Enqueue
  PROVE  ScanOK'
<1> DEFINE u == UserOf(Head(scan.rows))
           known == IF u \in Users THEN [scan.known EXCEPT ![u] = Known(u)] ELSE scan.known
<1>1. scan' = [scan EXCEPT !.rows = Tail(scan.rows), !.known = known] /\ cursor' = cursor
  BY DEF Enqueue
<1>2. scan.rows \in Seq(Rows) /\ scan.rows # << >>
  BY DEF ScanOK, Enqueue
<1>3. Tail(scan.rows) \in Seq(Rows)
  BY <1>2
<1>4. Known(u) \in {"unread", "on", "off"} \/ u \notin Users
  BY DEF ScanOK, Known
<1>5. known \in [Users -> {"unread", "on", "off"}]
  BY <1>4 DEF ScanOK
<1> HIDE DEF u, known
<1>6. scan' = [rows |-> Tail(scan.rows), last |-> scan.last, known |-> known]
  BY <1>1 DEF ScanOK
<1> QED BY <1>1, <1>3, <1>5, <1>6 DEF ScanOK

(* What does not touch the rows or the scan keeps them as they are. *)
LEMMA TimesStay == TimesOK /\ UNCHANGED <<audit, at>> => TimesOK'
<1> SUFFICES ASSUME TimesOK, UNCHANGED <<audit, at>> PROVE TimesOK'
  OBVIOUS
<1>1. Begun' = Begun
  BY DEF Begun
<1> QED BY <1>1 DEF TimesOK

(* Initially no row has begun. *)
LEMMA InitTypeInv == Init => TypeInv
<1> SUFFICES ASSUME Init PROVE TypeInv
  OBVIOUS
<1>1. audit = [r \in Rows |-> "none"] /\ at = [r \in Rows |-> 0]
  BY DEF Init
<1>2. Begun \in SUBSET Rows
  BY DEF Begun
<1>3. Cardinality(Begun) \in Nat
  BY <1>2, Counted
<1>4. TimesOK
  BY <1>1, <1>3 DEF TimesOK
<1>5. ScanOK
  <2>1. cursor = 0 /\ scan = NoScan
    BY DEF Init
  <2> QED BY <2>1, Counted, NoScanOK DEF ScanOK
<1>6. enabled \subseteq Users /\ faults \in 0..MaxFaults
  <2>1. MaxFaults \in Nat
    BY EmailAssumptions
  <2>2. faults = 0 /\ enabled \in SUBSET Users
    BY DEF Init
  <2> QED BY <2>1, <2>2
<1> QED BY <1>4, <1>5, <1>6 DEF TypeInv

(* Every step keeps times, cursor and scan in their ranges. *)
LEMMA NextTypeInv == TypeInv /\ [Next]_vars => TypeInv'
<1> SUFFICES ASSUME TypeInv, [Next]_vars PROVE TypeInv'
  OBVIOUS
<1> USE DEF TypeInv
<1>1. ASSUME NEW S \in SUBSET Rows, Begin(S) PROVE TypeInv'
  <2>1. UNCHANGED <<cursor, enabled, scan, faults>>
    BY <1>1 DEF Begin
  <2> QED BY <1>1, <2>1, BeginTimes DEF ScanOK
<1>2. ASSUME NEW n \in 1..Cardinality(Rows), Commit(n) PROVE TypeInv'
  <2>1. UNCHANGED <<cursor, enabled, scan, faults>>
    BY <1>2 DEF Commit
  <2> QED BY <1>2, <2>1, CommitTimes DEF ScanOK
<1>3. ASSUME NEW u \in Users, SetPrefs(u) PROVE TypeInv'
  <2>1. UNCHANGED <<audit, at, cursor, scan, faults>> /\ enabled' \subseteq Users
    BY <1>3 DEF SetPrefs
  <2> QED BY <2>1, TimesStay DEF ScanOK
<1>4. CASE Enqueuer
  <2>1. UNCHANGED <<audit, at, enabled, faults>>
    BY <1>4 DEF Enqueuer, Scan, Enqueue, AdvanceCursor
  <2>2. ScanOK'
    <3>1. CASE AdvanceCursor
      <4>1. cursor' = scan.last /\ scan' = NoScan
        BY <3>1 DEF AdvanceCursor
      <4> QED BY <4>1, NoScanOK DEF ScanOK
    <3> QED BY <1>4, <3>1, ScanKeeps, EnqueueScan DEF Enqueuer
  <2> QED BY <2>1, <2>2, TimesStay
<1>5. CASE Dispatcher
  <2>1. UNCHANGED <<audit, at, cursor, enabled, scan>>
    BY <1>5 DEF Dispatcher, Pull, Sending, Send, Mark
  <2>2. faults' \in 0..MaxFaults
    BY <1>5, EmailAssumptions DEF Dispatcher, Pull, Sending, Send, Mark
  <2> QED BY <2>1, <2>2, TimesStay DEF ScanOK
<1>6. ASSUME NEW r \in Rows, BecomesDue(r) PROVE TypeInv'
  <2>1. UNCHANGED <<audit, at, cursor, enabled, scan, faults>>
    BY <1>6 DEF BecomesDue
  <2> QED BY <2>1, TimesStay DEF ScanOK
<1>7. CASE WorkerDies
  <2>1. UNCHANGED <<audit, at, cursor, enabled>> /\ scan' = NoScan
    BY <1>7 DEF WorkerDies
  <2>2. faults' \in 0..MaxFaults
    BY <1>7, EmailAssumptions DEF WorkerDies
  <2> QED BY <2>1, <2>2, TimesStay, NoScanOK DEF ScanOK
<1>8. CASE UNCHANGED vars
  BY <1>8, TimesStay DEF vars, ScanOK
<1> QED BY <1>1, <1>2, <1>3, <1>4, <1>5, <1>6, <1>7, <1>8 DEF Next

(* Rows, events and both runs have the shape the code gives them; created_at *)
(* and the cursor stay within the number of transactions there can be, and   *)
(* retries within MAX_RETRIES.                                               *)
THEOREM TypeCorrect == Spec => []TypeOK
<1>1. Inv /\ TypeInv => TypeOK
  <2> SUFFICES ASSUME Inv, TypeInv PROVE TypeOK
    OBVIOUS
  <2>1. \A r \in Rows : at[r] \in 0..Cardinality(Rows)
    BY TimesBounded DEF TypeInv
  <2>2. at \in [Rows -> 0..Cardinality(Rows)]
    BY <2>1 DEF TypeInv, TimesOK
  <2>3. scan \in [rows : Seq(Rows), last : Nat, known : [Users -> {"unread", "on", "off"}]]
    BY Counted DEF TypeInv, ScanOK
  <2> QED BY <2>2, <2>3 DEF TypeInv, TimesOK, ScanOK, Inv, BatchType, TypeOK
<1>2. Spec => []TypeInv
  BY InitTypeInv, NextTypeInv, PTL DEF Spec
<1> QED BY <1>1, <1>2, InvAlways, PTL

================================================================================
