-------------------------- MODULE TrafficSamplerProofs --------------------------
(***************************************************************************)
(* Proofs about TrafficSampler: the chart of a tunnel never shows more     *)
(* than it carried, and exactly what its counter grew by unless a          *)
(* difference was lost.                                                    *)
(*                                                                         *)
(* Both rest on accounts kept per tunnel.  What is on the chart, what the  *)
(* next sample would add (Owed) and, for a reading that a run still holds, *)
(* what that reading and then the one after it would add, never exceeds    *)
(* what the tunnel carried; this is inductive only because one run at a    *)
(* time holds readings, stores a tunnel's reading once, and still finds    *)
(* the last counter it read when it replaces it (RunInv).                  *)
(***************************************************************************)
EXTENDS TrafficSampler, SumTheorems, TLAPS

(* What the rows of a tunnel hold, what a counter adds to the last reading, *)
(* and the readings of a tunnel that a run holds.                           *)
Recorded(t) == Sum(usage[t], Buckets)
Owed(now, before) == IF before = Nothing THEN 0 ELSE Grown(now, before)
Readings(r, t) == {stats[r][t], samples[r][t]} \ {Nothing}

(* One run at a time; it holds readings only between an answer and its     *)
(* rows, and stores a reading of a tunnel against the last one it read.    *)
RunInv ==
  /\ \A r \in Run : pc[r] # "idle" => trafficRunning
  /\ \A r, s \in Run : pc[r] # "idle" /\ pc[s] # "idle" => r = s
  /\ \A r \in Run : pc[r] # "match" => stats[r] = NoReadings
  /\ \A r \in Run : pc[r] \in {"idle", "gateways", "prune"} => samples[r] = NoReadings
  /\ \A r \in Run : pc[r] = "refresh" =>
       /\ item[r].prev = last[item[r].tunnel]
       /\ samples[r][item[r].tunnel] # Nothing
  /\ \A r \in Run : pc[r] = "record" =>
       /\ last[item[r].tunnel] # Nothing
       /\ samples[r][item[r].tunnel] = Nothing
  /\ \A t \in Tunnel : last[t] = Nothing <=> baseline[t] = Nothing

(* Nothing is counted twice, now or later. *)
AccountInv ==
  \A t \in Tunnel :
    /\ Recorded(t) + Owed(counter[t], last[t]) <= carried[t]
    /\ \A r \in Run : \A v \in Readings(r, t) :
         Recorded(t) + Owed(v, last[t]) + Grown(counter[t], v) <= carried[t]
    /\ \A r \in Run : pc[r] = "record" /\ item[r].tunnel = t =>
         Recorded(t) + item[r].delta + Owed(counter[t], last[t]) <= carried[t]

(* Nothing is lost of a tunnel that was not disturbed: readings are taken  *)
(* in the order in which the counter grew.                                 *)
ExactInv ==
  \A t \in Tunnel \ disturbed :
    /\ last[t] = Nothing => Recorded(t) = 0
    /\ last[t] # Nothing => last[t] <= counter[t]
    /\ last[t] # Nothing /\ ~Storing(t) => Recorded(t) = last[t] - baseline[t]
    /\ \A r \in Run : pc[r] = "record" /\ item[r].tunnel = t =>
         Recorded(t) + item[r].delta = last[t] - baseline[t]
    /\ \A r \in Run : \A v \in Readings(r, t) :
         v <= counter[t] /\ (last[t] # Nothing => last[t] <= v)

Inv == TypeOK /\ RunInv /\ AccountInv /\ ExactInv

-----------------------------------------------------------------------------
(* Types, and who holds what. *)

(* The buckets of a chart are finitely many. *)
LEMMA BucketsFinite == IsFiniteSet(Buckets)
BY FS_Interval, TrafficAssumptions DEF Buckets

(* What a tunnel has on the chart is a number of bytes. *)
LEMMA RecordedNat ==
  ASSUME TypeOK, NEW t \in Tunnel
  PROVE  Recorded(t) \in Nat
BY BucketsFinite, SumNat DEF Recorded, TypeOK

(* The difference of two counters is a number of bytes. *)
LEMMA GrownNat ==
  ASSUME NEW x \in Nat, NEW y \in Nat
  PROVE  Grown(x, y) \in Nat
BY DEF Grown

USE DEF Reading

(* One lemma per action: it keeps the types and what runs hold. *)
LEMMA StartRunTypes ==
  ASSUME TypeOK, RunInv, NEW r \in Run, StartRun(r)
  PROVE  TypeOK' /\ RunInv'
<1>1. TypeOK'
  BY TrafficAssumptions DEF StartRun, Goes, kernel, tables, NoReadings, TypeOK, RunInv
<1>2. RunInv'
  BY TrafficAssumptions DEF StartRun, Goes, kernel, tables, NoReadings, TypeOK, RunInv
<1>. QED  BY <1>1, <1>2

LEMMA NextGatewayTypes ==
  ASSUME TypeOK, RunInv, NEW r \in Run, NEW g \in Gateway, NextGateway(r, g)
  PROVE  TypeOK' /\ RunInv'
<1>1. TypeOK'
  BY TrafficAssumptions DEF NextGateway, Goes, kernel, tables, NoReadings, TypeOK, RunInv
<1>2. RunInv'
  BY TrafficAssumptions DEF NextGateway, Goes, kernel, tables, NoReadings, TypeOK, RunInv
<1>. QED  BY <1>1, <1>2

LEMMA GetStatsTypes ==
  ASSUME TypeOK, RunInv, NEW r \in Run, NEW p \in Protocols, GetStats(r, p)
  PROVE  TypeOK' /\ RunInv'
<1>1. TypeOK'
  <2>1. plan' \in [Run -> [bucket : Buckets, todo : SUBSET Gateway, gw : Gateway \union {Nothing}, calls : SUBSET Protocols]]
    <3>1. [plan[r] EXCEPT !.calls = @ \ {p}] \in [bucket : Buckets, todo : SUBSET Gateway, gw : Gateway \union {Nothing}, calls : SUBSET Protocols]
      BY DEF TypeOK
    <3>2. plan' = [plan EXCEPT ![r] = [plan[r] EXCEPT !.calls = @ \ {p}]]
      BY DEF GetStats
    <3>. QED  BY <3>1, <3>2 DEF TypeOK
  <2>. QED  BY <2>1, TrafficAssumptions DEF GetStats, Goes, kernel, tables, NoReadings, TypeOK
<1>2. RunInv'
  BY TrafficAssumptions DEF GetStats, Goes, kernel, tables, NoReadings, TypeOK, RunInv
<1>. QED  BY <1>1, <1>2

LEMMA MatchTunnelsTypes ==
  ASSUME TypeOK, RunInv, NEW r \in Run, MatchTunnels(r)
  PROVE  TypeOK' /\ RunInv'
<1>1. TypeOK'
  BY TrafficAssumptions DEF MatchTunnels, Goes, kernel, tables, NoReadings, TypeOK, RunInv
<1>2. RunInv'
  BY TrafficAssumptions DEF MatchTunnels, Goes, kernel, tables, NoReadings, TypeOK, RunInv
<1>. QED  BY <1>1, <1>2

LEMMA CallFailsTypes ==
  ASSUME TypeOK, RunInv, NEW r \in Run, NEW p \in Protocols, CallFails(r, p)
  PROVE  TypeOK' /\ RunInv'
<1>1. TypeOK'
  <2>1. plan' \in [Run -> [bucket : Buckets, todo : SUBSET Gateway, gw : Gateway \union {Nothing}, calls : SUBSET Protocols]]
    <3>1. [plan[r] EXCEPT !.calls = @ \ {p}] \in [bucket : Buckets, todo : SUBSET Gateway, gw : Gateway \union {Nothing}, calls : SUBSET Protocols]
      BY DEF TypeOK
    <3>2. plan' = [plan EXCEPT ![r] = [plan[r] EXCEPT !.calls = @ \ {p}]]
      BY DEF CallFails
    <3>. QED  BY <3>1, <3>2 DEF TypeOK
  <2>. QED  BY <2>1, TrafficAssumptions DEF CallFails, Goes, kernel, tables, NoReadings, TypeOK
<1>2. RunInv'
  BY TrafficAssumptions DEF CallFails, Goes, kernel, tables, NoReadings, TypeOK, RunInv
<1>. QED  BY <1>1, <1>2

LEMMA MatchFailsTypes ==
  ASSUME TypeOK, RunInv, NEW r \in Run, MatchFails(r)
  PROVE  TypeOK' /\ RunInv'
<1>1. TypeOK'
  BY TrafficAssumptions DEF MatchFails, Goes, kernel, tables, NoReadings, TypeOK, RunInv
<1>2. RunInv'
  BY TrafficAssumptions DEF MatchFails, Goes, kernel, tables, NoReadings, TypeOK, RunInv
<1>. QED  BY <1>1, <1>2

LEMMA CallsDoneTypes ==
  ASSUME TypeOK, RunInv, NEW r \in Run, CallsDone(r)
  PROVE  TypeOK' /\ RunInv'
<1>1. TypeOK'
  BY TrafficAssumptions DEF CallsDone, Goes, kernel, tables, NoReadings, TypeOK, RunInv
<1>2. RunInv'
  BY TrafficAssumptions DEF CallsDone, Goes, kernel, tables, NoReadings, TypeOK, RunInv
<1>. QED  BY <1>1, <1>2

LEMMA ReadPrevTypes ==
  ASSUME TypeOK, RunInv, NEW r \in Run, NEW t \in Tunnel, ReadPrev(r, t)
  PROVE  TypeOK' /\ RunInv'
<1>1. TypeOK'
  BY TrafficAssumptions DEF ReadPrev, Goes, kernel, tables, NoReadings, TypeOK, RunInv
<1>2. RunInv'
  BY TrafficAssumptions DEF ReadPrev, Goes, kernel, tables, NoReadings, TypeOK, RunInv
<1>. QED  BY <1>1, <1>2

(* What Refresh does, said without its abbreviations. *)
LEMMA RefreshDoes ==
  ASSUME TypeOK, RunInv, NEW r \in Run, Refresh(r)
  PROVE  \E t \in Tunnel : \E s \in Nat : \E d \in Nat :
           /\ pc[r] = "refresh" /\ item[r].tunnel = t /\ samples[r][t] = s /\ d = Owed(s, last[t])
           /\ pc' = [pc EXCEPT ![r] = IF d = 0 THEN "samples" ELSE "record"]
           /\ last' = [last EXCEPT ![t] = s]
           /\ samples' = [samples EXCEPT ![r] = [samples[r] EXCEPT ![t] = Nothing]]
           /\ item' = [item EXCEPT ![r] = [tunnel |-> t, prev |-> last[t], delta |-> d]]
           /\ baseline' = [baseline EXCEPT ![t] = IF last[t] = Nothing THEN s ELSE baseline[t]]
           /\ UNCHANGED <<kernel, live, clock, usage, trafficRunning, plan, stats, disturbed>>
<1>. DEFINE t == item[r].tunnel
            s == samples[r][t]
            d == Owed(s, last[t])
<1>1. pc[r] = "refresh" /\ t \in Tunnel /\ item[r].prev = last[t] /\ s \in Nat /\ last[t] \in Reading
  BY DEF Refresh, Goes, TypeOK, RunInv
<1>2. d \in Nat
  BY <1>1, GrownNat DEF Owed
<1>3. d = IF item[r].prev = Nothing THEN 0 ELSE Grown(s, item[r].prev)
  BY <1>1 DEF Owed
<1>4. /\ pc' = [pc EXCEPT ![r] = IF d = 0 THEN "samples" ELSE "record"]
      /\ last' = [last EXCEPT ![t] = s]
      /\ samples' = [samples EXCEPT ![r] = [samples[r] EXCEPT ![t] = Nothing]]
      /\ item' = [item EXCEPT ![r] = [tunnel |-> t, prev |-> last[t], delta |-> d]]
      /\ baseline' = [baseline EXCEPT ![t] = IF last[t] = Nothing THEN s ELSE baseline[t]]
      /\ UNCHANGED <<kernel, live, clock, usage, trafficRunning, plan, stats, disturbed>>
  BY <1>1, <1>3, Zenon DEF Refresh, Goes
<1>. HIDE DEF t, s, d
<1>. QED  BY <1>1, <1>2, <1>4 DEF t, s, d

LEMMA RefreshTypes ==
  ASSUME TypeOK, RunInv, NEW r \in Run, Refresh(r)
  PROVE  TypeOK' /\ RunInv'
<1>1. PICK t \in Tunnel : \E s \in Nat : \E d \in Nat :
           /\ pc[r] = "refresh" /\ item[r].tunnel = t /\ samples[r][t] = s /\ d = Owed(s, last[t])
           /\ pc' = [pc EXCEPT ![r] = IF d = 0 THEN "samples" ELSE "record"]
           /\ last' = [last EXCEPT ![t] = s]
           /\ samples' = [samples EXCEPT ![r] = [samples[r] EXCEPT ![t] = Nothing]]
           /\ item' = [item EXCEPT ![r] = [tunnel |-> t, prev |-> last[t], delta |-> d]]
           /\ baseline' = [baseline EXCEPT ![t] = IF last[t] = Nothing THEN s ELSE baseline[t]]
           /\ UNCHANGED <<kernel, live, clock, usage, trafficRunning, plan, stats, disturbed>>
  BY RefreshDoes
<1>2. TypeOK'
  BY <1>1 DEF kernel, TypeOK
<1>3. RunInv'
  BY <1>1, TrafficAssumptions DEF kernel, TypeOK, RunInv, NoReadings
<1>. QED  BY <1>2, <1>3

LEMMA RecordTypes ==
  ASSUME TypeOK, RunInv, NEW r \in Run, Record(r)
  PROVE  TypeOK' /\ RunInv'
<1>1. TypeOK'
  BY TrafficAssumptions DEF Record, Upserted, Goes, kernel, tables, NoReadings, TypeOK, RunInv
<1>2. RunInv'
  BY TrafficAssumptions DEF Record, Upserted, Goes, kernel, tables, NoReadings, TypeOK, RunInv
<1>. QED  BY <1>1, <1>2

LEMMA SamplesDoneTypes ==
  ASSUME TypeOK, RunInv, NEW r \in Run, SamplesDone(r)
  PROVE  TypeOK' /\ RunInv'
<1>1. TypeOK'
  BY TrafficAssumptions DEF SamplesDone, Goes, kernel, tables, NoReadings, TypeOK, RunInv
<1>2. RunInv'
  BY TrafficAssumptions DEF SamplesDone, Goes, kernel, tables, NoReadings, TypeOK, RunInv
<1>. QED  BY <1>1, <1>2

(* What the end of a run leaves: no run at all. *)
LEMMA EndsTypes ==
  ASSUME TypeOK, RunInv, NEW r \in Run, pc[r] # "idle", Ends(r), UNCHANGED <<last, baseline>>
  PROVE  /\ RunInv'
         /\ trafficRunning' \in BOOLEAN
         /\ pc' \in [Run -> {"idle", "gateways", "stats", "match", "samples", "refresh", "record", "prune"}]
         /\ plan' \in [Run -> [bucket : Buckets, todo : SUBSET Gateway, gw : Gateway \union {Nothing},
                               calls : SUBSET Protocols]]
         /\ stats' \in [Run -> [Tunnel -> Reading]] /\ samples' \in [Run -> [Tunnel -> Reading]]
         /\ item' \in [Run -> [tunnel : Tunnel \union {Nothing}, prev : Reading, delta : Nat]]
         /\ \A s \in Run : pc'[s] = "idle"
<1>1. /\ pc' \in [Run -> {"idle", "gateways", "stats", "match", "samples", "refresh", "record", "prune"}]
      /\ stats' \in [Run -> [Tunnel -> Reading]] /\ samples' \in [Run -> [Tunnel -> Reading]]
      /\ trafficRunning' \in BOOLEAN
  BY DEF TypeOK, Ends, NoReadings
<1>2. plan' \in [Run -> [bucket : Buckets, todo : SUBSET Gateway, gw : Gateway \union {Nothing},
                        calls : SUBSET Protocols]]
  <2>1. NoPlan \in [bucket : Buckets, todo : SUBSET Gateway, gw : Gateway \union {Nothing},
                   calls : SUBSET Protocols]
    BY TrafficAssumptions DEF NoPlan, Buckets
  <2>. QED  BY <2>1 DEF TypeOK, Ends
<1>3. item' \in [Run -> [tunnel : Tunnel \union {Nothing}, prev : Reading, delta : Nat]]
  <2>1. NoItem \in [tunnel : Tunnel \union {Nothing}, prev : Reading, delta : Nat]
    BY DEF NoItem
  <2>. QED  BY <2>1 DEF TypeOK, Ends
<1>4. \A s \in Run : pc'[s] = "idle"
  BY DEF TypeOK, RunInv, Ends
<1>5. RunInv'
  <2>1. \A s \in Run : stats'[s] = NoReadings /\ samples'[s] = NoReadings
    BY DEF TypeOK, RunInv, Ends
  <2>. QED  BY <2>1, <1>4 DEF TypeOK, RunInv, NoReadings
<1>. QED  BY <1>1, <1>2, <1>3, <1>4, <1>5

LEMMA GatewaysDoneTypes ==
  ASSUME TypeOK, RunInv, NEW r \in Run, GatewaysDone(r)
  PROVE  TypeOK' /\ RunInv'
<1>1. CASE Ends(r)
  BY <1>1, EndsTypes DEF GatewaysDone, kernel, tables, TypeOK
<1>2. CASE pc' = [pc EXCEPT ![r] = "prune"] /\ UNCHANGED <<trafficRunning, plan, stats, samples, item>>
  <2>1. TypeOK'
    BY <1>2 DEF GatewaysDone, kernel, tables, TypeOK
  <2>2. RunInv'
    BY <1>2 DEF GatewaysDone, kernel, tables, TypeOK, RunInv, NoReadings
  <2>. QED  BY <2>1, <2>2
<1>. QED  BY <1>1, <1>2 DEF GatewaysDone

LEMMA PruneTypes ==
  ASSUME TypeOK, RunInv, NEW r \in Run, Prune(r)
  PROVE  TypeOK' /\ RunInv'
<1>1. usage' \in [Tunnel -> [Buckets -> Nat]] /\ disturbed' \subseteq Tunnel
  BY DEF Prune, TypeOK
<1>. QED  BY <1>1, EndsTypes DEF Prune, kernel, TypeOK

LEMMA RunFailsTypes ==
  ASSUME TypeOK, RunInv, NEW r \in Run, RunFails(r)
  PROVE  TypeOK' /\ RunInv'
<1>1. disturbed' \subseteq Tunnel
  BY DEF RunFails, TypeOK
<1>. QED  BY <1>1, EndsTypes DEF RunFails, kernel, tables, TypeOK

LEMMA FlowTypes ==
  ASSUME TypeOK, RunInv, NEW t \in Tunnel, Flow(t)
  PROVE  TypeOK' /\ RunInv'
<1>1. TypeOK'
  BY DEF Flow, kernel, tables, work, NoReadings, TypeOK, RunInv
<1>2. RunInv'
  BY DEF Flow, kernel, tables, work, NoReadings, TypeOK, RunInv
<1>. QED  BY <1>1, <1>2

LEMMA AddPeerTypes ==
  ASSUME TypeOK, RunInv, NEW t \in Tunnel, AddPeer(t)
  PROVE  TypeOK' /\ RunInv'
<1>1. TypeOK'
  BY DEF AddPeer, kernel, tables, work, NoReadings, TypeOK, RunInv
<1>2. RunInv'
  BY DEF AddPeer, kernel, tables, work, NoReadings, TypeOK, RunInv
<1>. QED  BY <1>1, <1>2

LEMMA RemovePeerTypes ==
  ASSUME TypeOK, RunInv, NEW t \in Tunnel, RemovePeer(t)
  PROVE  TypeOK' /\ RunInv'
<1>1. TypeOK'
  BY DEF RemovePeer, kernel, tables, work, NoReadings, TypeOK, RunInv
<1>2. RunInv'
  BY DEF RemovePeer, kernel, tables, work, NoReadings, TypeOK, RunInv
<1>. QED  BY <1>1, <1>2

LEMMA DeleteTunnelTypes ==
  ASSUME TypeOK, RunInv, NEW t \in Tunnel, DeleteTunnel(t)
  PROVE  TypeOK' /\ RunInv'
<1>1. TypeOK'
  BY DEF DeleteTunnel, kernel, tables, work, NoReadings, TypeOK, RunInv
<1>2. RunInv'
  BY DEF DeleteTunnel, kernel, tables, work, NoReadings, TypeOK, RunInv
<1>. QED  BY <1>1, <1>2

LEMMA NextBucketTypes ==
  ASSUME TypeOK, RunInv, NextBucket
  PROVE  TypeOK' /\ RunInv'
<1>1. TypeOK'
  BY TrafficAssumptions DEF NextBucket, Buckets, kernel, tables, work, TypeOK
<1>2. RunInv'
  BY DEF NextBucket, kernel, tables, work, NoReadings, TypeOK, RunInv
<1>. QED  BY <1>1, <1>2

-----------------------------------------------------------------------------
(* The accounts. *)

(* A step that touches neither the kernel nor the tables, gives no run a   *)
(* reading it did not have and lets none begin to store a row keeps the    *)
(* accounts.                                                               *)
LEMMA QuietAccounts ==
  ASSUME TypeOK, AccountInv,
         UNCHANGED <<counter, carried, last, usage>>,
         \A r \in Run, t \in Tunnel : Readings(r, t)' \subseteq Readings(r, t),
         \A r \in Run : pc'[r] = "record" => pc[r] = "record" /\ item'[r] = item[r]
  PROVE  AccountInv'
<1>. SUFFICES ASSUME NEW t \in Tunnel
              PROVE  /\ Recorded(t)' + Owed(counter[t], last[t])' <= carried'[t]
                     /\ \A r \in Run : \A v \in Readings(r, t)' :
                          Recorded(t)' + Owed(v, last'[t]) + Grown(counter'[t], v) <= carried'[t]
                     /\ \A r \in Run : pc'[r] = "record" /\ item'[r].tunnel = t =>
                          Recorded(t)' + item'[r].delta + Owed(counter'[t], last'[t]) <= carried'[t]
  BY DEF AccountInv, Owed, Grown
<1>1. Recorded(t)' = Recorded(t)
  BY DEF Recorded
<1>. QED  BY <1>1 DEF AccountInv, Owed, Grown

(* The same for the exact accounts, when no tunnel stops being stored      *)
(* without being counted as disturbed.                                     *)
LEMMA QuietExact ==
  ASSUME TypeOK, ExactInv,
         UNCHANGED <<counter, last, usage, baseline>>,
         disturbed \subseteq disturbed',
         \A r \in Run, t \in Tunnel : Readings(r, t)' \subseteq Readings(r, t),
         \A r \in Run : pc'[r] = "record" => pc[r] = "record" /\ item'[r] = item[r],
         \A t \in Tunnel \ disturbed' : Storing(t) => Storing(t)'
  PROVE  ExactInv'
<1>. SUFFICES ASSUME NEW t \in Tunnel \ disturbed'
              PROVE  /\ last'[t] = Nothing => Recorded(t)' = 0
                     /\ last'[t] # Nothing => last'[t] <= counter'[t]
                     /\ last'[t] # Nothing /\ ~Storing(t)' => Recorded(t)' = last'[t] - baseline'[t]
                     /\ \A r \in Run : pc'[r] = "record" /\ item'[r].tunnel = t =>
                          Recorded(t)' + item'[r].delta = last'[t] - baseline'[t]
                     /\ \A r \in Run : \A v \in Readings(r, t)' :
                          v <= counter'[t] /\ (last'[t] # Nothing => last'[t] <= v)
  BY DEF ExactInv
<1>1. Recorded(t)' = Recorded(t)
  BY DEF Recorded
<1>. QED  BY <1>1 DEF ExactInv

(* One lemma per action that is quiet in this sense. *)
LEMMA StartRunQuiet ==
  ASSUME Inv, NEW r \in Run, StartRun(r)
  PROVE  AccountInv' /\ ExactInv'
<1>1. UNCHANGED <<counter, carried, last, usage, baseline>> /\ disturbed \subseteq disturbed'
  BY DEF StartRun, kernel, tables
<1>2. \A q \in Run, u \in Tunnel : Readings(q, u)' \subseteq Readings(q, u)
  BY DEF Inv, TypeOK, StartRun, Goes, Readings, NoReadings
<1>3. \A q \in Run : pc'[q] = "record" => pc[q] = "record" /\ item'[q] = item[q]
  BY DEF Inv, TypeOK, StartRun, Goes
<1>4. \A u \in Tunnel \ disturbed' : Storing(u) => Storing(u)'
  BY DEF Inv, TypeOK, RunInv, StartRun, Goes, Storing
<1>. QED  BY <1>1, <1>2, <1>3, <1>4, QuietAccounts, QuietExact DEF Inv

LEMMA NextGatewayQuiet ==
  ASSUME Inv, NEW r \in Run, NEW g \in Gateway, NextGateway(r, g)
  PROVE  AccountInv' /\ ExactInv'
<1>1. UNCHANGED <<counter, carried, last, usage, baseline>> /\ disturbed \subseteq disturbed'
  BY DEF NextGateway, kernel, tables
<1>2. \A q \in Run, u \in Tunnel : Readings(q, u)' \subseteq Readings(q, u)
  BY DEF Inv, TypeOK, NextGateway, Goes, Readings, NoReadings
<1>3. \A q \in Run : pc'[q] = "record" => pc[q] = "record" /\ item'[q] = item[q]
  BY DEF Inv, TypeOK, NextGateway, Goes
<1>4. \A u \in Tunnel \ disturbed' : Storing(u) => Storing(u)'
  BY DEF Inv, TypeOK, RunInv, NextGateway, Goes, Storing
<1>. QED  BY <1>1, <1>2, <1>3, <1>4, QuietAccounts, QuietExact DEF Inv

LEMMA MatchTunnelsQuiet ==
  ASSUME Inv, NEW r \in Run, MatchTunnels(r)
  PROVE  AccountInv' /\ ExactInv'
<1>1. UNCHANGED <<counter, carried, last, usage, baseline>> /\ disturbed \subseteq disturbed'
  BY DEF MatchTunnels, kernel, tables
<1>2. \A q \in Run, u \in Tunnel : Readings(q, u)' \subseteq Readings(q, u)
  BY DEF Inv, TypeOK, MatchTunnels, Goes, Readings, NoReadings
<1>3. \A q \in Run : pc'[q] = "record" => pc[q] = "record" /\ item'[q] = item[q]
  BY DEF Inv, TypeOK, MatchTunnels, Goes
<1>4. \A u \in Tunnel \ disturbed' : Storing(u) => Storing(u)'
  BY DEF Inv, TypeOK, RunInv, MatchTunnels, Goes, Storing
<1>. QED  BY <1>1, <1>2, <1>3, <1>4, QuietAccounts, QuietExact DEF Inv

LEMMA CallFailsQuiet ==
  ASSUME Inv, NEW r \in Run, NEW p \in Protocols, CallFails(r, p)
  PROVE  AccountInv' /\ ExactInv'
<1>1. UNCHANGED <<counter, carried, last, usage, baseline>> /\ disturbed \subseteq disturbed'
  BY DEF CallFails, kernel, tables
<1>2. \A q \in Run, u \in Tunnel : Readings(q, u)' \subseteq Readings(q, u)
  BY DEF Inv, TypeOK, CallFails, Goes, Readings, NoReadings
<1>3. \A q \in Run : pc'[q] = "record" => pc[q] = "record" /\ item'[q] = item[q]
  BY DEF Inv, TypeOK, CallFails, Goes
<1>4. \A u \in Tunnel \ disturbed' : Storing(u) => Storing(u)'
  BY DEF Inv, TypeOK, RunInv, CallFails, Goes, Storing
<1>. QED  BY <1>1, <1>2, <1>3, <1>4, QuietAccounts, QuietExact DEF Inv

LEMMA MatchFailsQuiet ==
  ASSUME Inv, NEW r \in Run, MatchFails(r)
  PROVE  AccountInv' /\ ExactInv'
<1>1. UNCHANGED <<counter, carried, last, usage, baseline>> /\ disturbed \subseteq disturbed'
  BY DEF MatchFails, kernel, tables
<1>2. \A q \in Run, u \in Tunnel : Readings(q, u)' \subseteq Readings(q, u)
  BY DEF Inv, TypeOK, MatchFails, Goes, Readings, NoReadings
<1>3. \A q \in Run : pc'[q] = "record" => pc[q] = "record" /\ item'[q] = item[q]
  BY DEF Inv, TypeOK, MatchFails, Goes
<1>4. \A u \in Tunnel \ disturbed' : Storing(u) => Storing(u)'
  BY DEF Inv, TypeOK, RunInv, MatchFails, Goes, Storing
<1>. QED  BY <1>1, <1>2, <1>3, <1>4, QuietAccounts, QuietExact DEF Inv

LEMMA CallsDoneQuiet ==
  ASSUME Inv, NEW r \in Run, CallsDone(r)
  PROVE  AccountInv' /\ ExactInv'
<1>1. UNCHANGED <<counter, carried, last, usage, baseline>> /\ disturbed \subseteq disturbed'
  BY DEF CallsDone, kernel, tables
<1>2. \A q \in Run, u \in Tunnel : Readings(q, u)' \subseteq Readings(q, u)
  BY DEF Inv, TypeOK, CallsDone, Goes, Readings, NoReadings
<1>3. \A q \in Run : pc'[q] = "record" => pc[q] = "record" /\ item'[q] = item[q]
  BY DEF Inv, TypeOK, CallsDone, Goes
<1>4. \A u \in Tunnel \ disturbed' : Storing(u) => Storing(u)'
  BY DEF Inv, TypeOK, RunInv, CallsDone, Goes, Storing
<1>. QED  BY <1>1, <1>2, <1>3, <1>4, QuietAccounts, QuietExact DEF Inv

LEMMA ReadPrevQuiet ==
  ASSUME Inv, NEW r \in Run, NEW t \in Tunnel, ReadPrev(r, t)
  PROVE  AccountInv' /\ ExactInv'
<1>1. UNCHANGED <<counter, carried, last, usage, baseline>> /\ disturbed \subseteq disturbed'
  BY DEF ReadPrev, kernel, tables
<1>2. \A q \in Run, u \in Tunnel : Readings(q, u)' \subseteq Readings(q, u)
  BY DEF Inv, TypeOK, ReadPrev, Goes, Readings, NoReadings
<1>3. \A q \in Run : pc'[q] = "record" => pc[q] = "record" /\ item'[q] = item[q]
  BY DEF Inv, TypeOK, ReadPrev, Goes
<1>4. \A u \in Tunnel \ disturbed' : Storing(u) => Storing(u)'
  BY DEF Inv, TypeOK, RunInv, ReadPrev, Goes, Storing
<1>. QED  BY <1>1, <1>2, <1>3, <1>4, QuietAccounts, QuietExact DEF Inv

LEMMA SamplesDoneQuiet ==
  ASSUME Inv, NEW r \in Run, SamplesDone(r)
  PROVE  AccountInv' /\ ExactInv'
<1>1. UNCHANGED <<counter, carried, last, usage, baseline>> /\ disturbed \subseteq disturbed'
  BY DEF SamplesDone, kernel, tables
<1>2. \A q \in Run, u \in Tunnel : Readings(q, u)' \subseteq Readings(q, u)
  BY DEF Inv, TypeOK, SamplesDone, Goes, Readings, NoReadings
<1>3. \A q \in Run : pc'[q] = "record" => pc[q] = "record" /\ item'[q] = item[q]
  BY DEF Inv, TypeOK, SamplesDone, Goes
<1>4. \A u \in Tunnel \ disturbed' : Storing(u) => Storing(u)'
  BY DEF Inv, TypeOK, RunInv, SamplesDone, Goes, Storing
<1>. QED  BY <1>1, <1>2, <1>3, <1>4, QuietAccounts, QuietExact DEF Inv

LEMMA GatewaysDoneQuiet ==
  ASSUME Inv, NEW r \in Run, GatewaysDone(r)
  PROVE  AccountInv' /\ ExactInv'
<1>1. UNCHANGED <<counter, carried, last, usage, baseline>> /\ disturbed \subseteq disturbed'
  BY DEF GatewaysDone, kernel, tables
<1>2. \A q \in Run, u \in Tunnel : Readings(q, u)' \subseteq Readings(q, u)
  BY DEF Inv, TypeOK, GatewaysDone, Ends, Readings, NoReadings
<1>3. \A q \in Run : pc'[q] = "record" => pc[q] = "record" /\ item'[q] = item[q]
  BY DEF Inv, TypeOK, GatewaysDone, Ends
<1>4. \A u \in Tunnel \ disturbed' : Storing(u) => Storing(u)'
  BY DEF Inv, TypeOK, RunInv, GatewaysDone, Ends, Storing
<1>. QED  BY <1>1, <1>2, <1>3, <1>4, QuietAccounts, QuietExact DEF Inv

LEMMA RunFailsQuiet ==
  ASSUME Inv, NEW r \in Run, RunFails(r)
  PROVE  AccountInv' /\ ExactInv'
<1>1. UNCHANGED <<counter, carried, last, usage, baseline>> /\ disturbed \subseteq disturbed'
  BY DEF RunFails, kernel, tables
<1>2. \A q \in Run, u \in Tunnel : Readings(q, u)' \subseteq Readings(q, u)
  BY DEF Inv, TypeOK, RunFails, Ends, Readings, NoReadings
<1>3. \A q \in Run : pc'[q] = "record" => pc[q] = "record" /\ item'[q] = item[q]
  BY DEF Inv, TypeOK, RunFails, Ends
<1>4. \A u \in Tunnel \ disturbed' : Storing(u) => Storing(u)'
  BY DEF Inv, TypeOK, RunInv, RunFails, Ends, Storing
<1>. QED  BY <1>1, <1>2, <1>3, <1>4, QuietAccounts, QuietExact DEF Inv

LEMMA RemovePeerQuiet ==
  ASSUME Inv, NEW t \in Tunnel, RemovePeer(t)
  PROVE  AccountInv' /\ ExactInv'
BY QuietAccounts, QuietExact DEF Inv, RemovePeer, kernel, tables, work, Readings, Storing

LEMMA DeleteTunnelQuiet ==
  ASSUME Inv, NEW t \in Tunnel, DeleteTunnel(t)
  PROVE  AccountInv' /\ ExactInv'
BY QuietAccounts, QuietExact DEF Inv, DeleteTunnel, kernel, tables, work, Readings, Storing

LEMMA NextBucketQuiet ==
  ASSUME Inv, NextBucket
  PROVE  AccountInv' /\ ExactInv'
BY QuietAccounts, QuietExact DEF Inv, NextBucket, kernel, tables, work, Readings, Storing

(* What one more byte, and a counter that starts again, do to a difference. *)
LEMMA GrownFacts ==
  ASSUME NEW x \in Nat, NEW y \in Nat
  PROVE  Grown(x, x) = 0 /\ Grown(0, y) = 0 /\ Grown(x + 1, y) <= Grown(x, y) + 1
BY DEF Grown

(* The same with what a reading adds to the last one, if there is one. *)
LEMMA OwedFacts ==
  ASSUME NEW x \in Nat, NEW y \in Reading
  PROVE  /\ Owed(x, y) \in Nat
         /\ Owed(0, y) = 0
         /\ Owed(x + 1, y) <= Owed(x, y) + 1
<1>1. CASE y = Nothing
  BY <1>1 DEF Owed
<1>2. CASE y # Nothing
  <2>1. y \in Nat
    BY <1>2
  <2>2. Grown(x, y) \in Nat /\ Grown(0, y) = 0 /\ Grown(x + 1, y) <= Grown(x, y) + 1
    BY <2>1, GrownFacts, GrownNat
  <2>. QED  BY <1>2, <2>2 DEF Owed
<1>. QED  BY <1>1, <1>2

(* The readings of a run are counters. *)
LEMMA ReadingsNat ==
  ASSUME TypeOK, NEW r \in Run, NEW t \in Tunnel, NEW v \in Readings(r, t)
  PROVE  v \in Nat
BY DEF TypeOK, Readings

(* A new reading is the counter itself, so nothing is owed beyond it. *)
LEMMA GetStatsAccounts ==
  ASSUME Inv, NEW r \in Run, NEW p \in Protocols, GetStats(r, p)
  PROVE  AccountInv' /\ ExactInv'
<1>1. /\ UNCHANGED <<counter, carried, last, usage, baseline, disturbed, item>>
      /\ \A q \in Run : pc'[q] = "record" <=> pc[q] = "record"
  BY DEF Inv, TypeOK, GetStats, Goes, kernel, tables
<1>2. \A q \in Run, u \in Tunnel : \A v \in Readings(q, u)' : v \in Readings(q, u) \/ v = counter[u]
  BY DEF Inv, TypeOK, GetStats, Readings
<1>3. \A u \in Tunnel : Recorded(u)' = Recorded(u) /\ Recorded(u) \in Nat /\ (Storing(u)' <=> Storing(u))
  BY <1>1, RecordedNat DEF Recorded, Storing, Inv
<1>4. \A u \in Tunnel : counter[u] \in Nat /\ carried[u] \in Nat /\ last[u] \in Reading
  BY DEF Inv, TypeOK
<1>5. AccountInv'
  <2>. SUFFICES ASSUME NEW u \in Tunnel
                PROVE  /\ Recorded(u) + Owed(counter[u], last[u]) <= carried[u]
                       /\ \A q \in Run : \A v \in Readings(q, u)' :
                            Recorded(u) + Owed(v, last[u]) + Grown(counter[u], v) <= carried[u]
                       /\ \A q \in Run : pc[q] = "record" /\ item[q].tunnel = u =>
                            Recorded(u) + item[q].delta + Owed(counter[u], last[u]) <= carried[u]
    BY <1>1, <1>3 DEF AccountInv, Owed, Grown
  <2>1. Recorded(u) + Owed(counter[u], last[u]) + Grown(counter[u], counter[u]) <= carried[u]
    <3>1. Grown(counter[u], counter[u]) = 0 /\ Owed(counter[u], last[u]) \in Nat
      BY <1>4, GrownFacts, OwedFacts
    <3>. QED  BY <1>3, <1>4, <3>1 DEF Inv, AccountInv
  <2>. QED  BY <1>2, <2>1 DEF Inv, AccountInv
<1>6. ExactInv'
  <2>1. \A u \in Tunnel \ disturbed : \A q \in Run : \A v \in Readings(q, u)' :
          v <= counter[u] /\ (last[u] # Nothing => last[u] <= v)
    BY <1>2, <1>4 DEF Inv, ExactInv
  <2>. QED  BY <1>1, <1>3, <2>1 DEF Inv, ExactInv
<1>. QED  BY <1>5, <1>6

(* A byte more on the counter is a byte more carried. *)
LEMMA FlowAccounts ==
  ASSUME Inv, NEW t \in Tunnel, Flow(t)
  PROVE  AccountInv' /\ ExactInv'
<1>1. /\ UNCHANGED <<last, usage, baseline, disturbed, pc, item, stats, samples>>
      /\ counter' \in [Tunnel -> Nat] /\ carried' \in [Tunnel -> Nat]
      /\ \A u \in Tunnel : \/ counter'[u] = counter[u] /\ carried'[u] = carried[u]
                           \/ counter'[u] = counter[u] + 1 /\ carried'[u] = carried[u] + 1
  BY DEF Inv, TypeOK, Flow, tables, work
<1>2. \A q \in Run, u \in Tunnel : Readings(q, u)' = Readings(q, u)
  BY <1>1 DEF Readings
<1>3. \A u \in Tunnel : Recorded(u)' = Recorded(u) /\ Recorded(u) \in Nat /\ (Storing(u)' <=> Storing(u))
  BY <1>1, RecordedNat DEF Recorded, Storing, Inv
<1>4. \A u \in Tunnel : counter[u] \in Nat /\ carried[u] \in Nat /\ last[u] \in Reading
  BY DEF Inv, TypeOK
<1>5. AccountInv'
  <2>. SUFFICES ASSUME NEW u \in Tunnel
                PROVE  /\ Recorded(u) + Owed(counter'[u], last[u]) <= carried'[u]
                       /\ \A q \in Run : \A v \in Readings(q, u) :
                            Recorded(u) + Owed(v, last[u]) + Grown(counter'[u], v) <= carried'[u]
                       /\ \A q \in Run : pc[q] = "record" /\ item[q].tunnel = u =>
                            Recorded(u) + item[q].delta + Owed(counter'[u], last[u]) <= carried'[u]
    BY <1>1, <1>2, <1>3 DEF AccountInv, Owed, Grown
  <2>1. CASE counter'[u] = counter[u] /\ carried'[u] = carried[u]
    BY <2>1 DEF Inv, AccountInv
  <2>2. CASE counter'[u] = counter[u] + 1 /\ carried'[u] = carried[u] + 1
    <3>1. Owed(counter'[u], last[u]) <= Owed(counter[u], last[u]) + 1 /\ Owed(counter'[u], last[u]) \in Nat /\ Owed(counter[u], last[u]) \in Nat
      BY <1>1, <1>4, <2>2, OwedFacts
    <3>2. Recorded(u) + Owed(counter'[u], last[u]) <= carried'[u]
      BY <1>3, <1>4, <2>2, <3>1 DEF Inv, AccountInv
    <3>3. ASSUME NEW q \in Run, NEW v \in Readings(q, u)
          PROVE  Recorded(u) + Owed(v, last[u]) + Grown(counter'[u], v) <= carried'[u]
      <4>1. v \in Nat
        BY ReadingsNat DEF Inv
      <4>2. Grown(counter'[u], v) <= Grown(counter[u], v) + 1 /\ Grown(counter'[u], v) \in Nat /\ Grown(counter[u], v) \in Nat
        BY <1>1, <1>4, <2>2, <4>1, GrownFacts, GrownNat
      <4>3. Owed(v, last[u]) \in Nat
        BY <1>4, <4>1, OwedFacts
      <4>4. Recorded(u) + Owed(v, last[u]) + Grown(counter[u], v) <= carried[u]
        BY DEF Inv, AccountInv
      <4>. QED  BY <1>3, <1>4, <2>2, <4>2, <4>3, <4>4
    <3>4. ASSUME NEW q \in Run, pc[q] = "record", item[q].tunnel = u
          PROVE  Recorded(u) + item[q].delta + Owed(counter'[u], last[u]) <= carried'[u]
      <4>1. item[q].delta \in Nat
        BY DEF Inv, TypeOK
      <4>2. Recorded(u) + item[q].delta + Owed(counter[u], last[u]) <= carried[u]
        BY <3>4 DEF Inv, AccountInv
      <4>. QED  BY <1>3, <1>4, <2>2, <3>1, <4>1, <4>2
    <3>. QED  BY <3>2, <3>3, <3>4
  <2>. QED  BY <1>1, <2>1, <2>2
<1>6. ExactInv'
  <2>1. \A u \in Tunnel : counter[u] <= counter'[u]
    BY <1>1, <1>4
  <2>2. ASSUME NEW u \in Tunnel \ disturbed, last[u] # Nothing
        PROVE  last[u] <= counter'[u]
    BY <1>1, <1>4, <2>1, <2>2 DEF Inv, ExactInv
  <2>3. ASSUME NEW u \in Tunnel \ disturbed, NEW q \in Run, NEW v \in Readings(q, u)
        PROVE  v <= counter'[u]
    BY <1>1, <1>4, <2>1, ReadingsNat DEF Inv, ExactInv
  <2>. QED  BY <1>1, <1>2, <1>3, <2>2, <2>3 DEF Inv, ExactInv
<1>. QED  BY <1>5, <1>6

(* A counter that starts from 0 owes nothing. *)
LEMMA AddPeerAccounts ==
  ASSUME Inv, NEW t \in Tunnel, AddPeer(t)
  PROVE  AccountInv' /\ ExactInv'
<1>1. /\ UNCHANGED <<last, usage, baseline, carried, pc, item, stats, samples>>
      /\ disturbed \subseteq disturbed'
      /\ \A u \in Tunnel : \/ counter'[u] = counter[u]
                           \/ counter'[u] = 0 /\ u \in disturbed'
  BY DEF Inv, TypeOK, AddPeer, tables, work
<1>2. \A q \in Run, u \in Tunnel : Readings(q, u)' = Readings(q, u)
  BY <1>1 DEF Readings
<1>3. \A u \in Tunnel : Recorded(u)' = Recorded(u) /\ Recorded(u) \in Nat /\ (Storing(u)' <=> Storing(u))
  BY <1>1, RecordedNat DEF Recorded, Storing, Inv
<1>4. \A u \in Tunnel : counter[u] \in Nat /\ carried[u] \in Nat /\ last[u] \in Reading
  BY DEF Inv, TypeOK
<1>5. AccountInv'
  <2>. SUFFICES ASSUME NEW u \in Tunnel
                PROVE  /\ Recorded(u) + Owed(counter'[u], last[u]) <= carried[u]
                       /\ \A q \in Run : \A v \in Readings(q, u) :
                            Recorded(u) + Owed(v, last[u]) + Grown(counter'[u], v) <= carried[u]
                       /\ \A q \in Run : pc[q] = "record" /\ item[q].tunnel = u =>
                            Recorded(u) + item[q].delta + Owed(counter'[u], last[u]) <= carried[u]
    BY <1>1, <1>2, <1>3 DEF AccountInv, Owed, Grown
  <2>1. CASE counter'[u] = counter[u]
    BY <2>1 DEF Inv, AccountInv
  <2>2. CASE counter'[u] = 0
    <3>1. Owed(counter'[u], last[u]) = 0 /\ Owed(counter[u], last[u]) \in Nat
      BY <1>4, <2>2, OwedFacts
    <3>2. Recorded(u) + Owed(counter'[u], last[u]) <= carried[u]
      BY <1>3, <1>4, <3>1 DEF Inv, AccountInv
    <3>3. ASSUME NEW q \in Run, NEW v \in Readings(q, u)
          PROVE  Recorded(u) + Owed(v, last[u]) + Grown(counter'[u], v) <= carried[u]
      <4>1. v \in Nat
        BY ReadingsNat DEF Inv
      <4>2. Grown(counter'[u], v) = 0 /\ Grown(counter[u], v) \in Nat
        BY <1>4, <2>2, <4>1, GrownFacts, GrownNat
      <4>3. Owed(v, last[u]) \in Nat
        BY <1>4, <4>1, OwedFacts
      <4>4. Recorded(u) + Owed(v, last[u]) + Grown(counter[u], v) <= carried[u]
        BY DEF Inv, AccountInv
      <4>. QED  BY <1>3, <1>4, <4>2, <4>3, <4>4
    <3>4. ASSUME NEW q \in Run, pc[q] = "record", item[q].tunnel = u
          PROVE  Recorded(u) + item[q].delta + Owed(counter'[u], last[u]) <= carried[u]
      <4>1. item[q].delta \in Nat
        BY DEF Inv, TypeOK
      <4>2. Recorded(u) + item[q].delta + Owed(counter[u], last[u]) <= carried[u]
        BY <3>4 DEF Inv, AccountInv
      <4>. QED  BY <1>3, <1>4, <3>1, <4>1, <4>2
    <3>. QED  BY <3>2, <3>3, <3>4
  <2>. QED  BY <1>1, <2>1, <2>2
<1>6. ExactInv'
  <2>1. \A u \in Tunnel \ disturbed' : counter'[u] = counter[u] /\ u \notin disturbed
    BY <1>1
  <2>. QED  BY <1>1, <1>2, <1>3, <2>1 DEF Inv, ExactInv
<1>. QED  BY <1>5, <1>6

(* What the reading in hand adds passes from what is owed to delta. *)
LEMMA RefreshAccounts ==
  ASSUME Inv, NEW r \in Run, Refresh(r)
  PROVE  AccountInv' /\ ExactInv'
<1>1. PICK t \in Tunnel, s \in Nat, d \in Nat :
           /\ pc[r] = "refresh" /\ item[r].tunnel = t /\ samples[r][t] = s /\ d = Owed(s, last[t])
           /\ pc' = [pc EXCEPT ![r] = IF d = 0 THEN "samples" ELSE "record"]
           /\ last' = [last EXCEPT ![t] = s]
           /\ samples' = [samples EXCEPT ![r] = [samples[r] EXCEPT ![t] = Nothing]]
           /\ item' = [item EXCEPT ![r] = [tunnel |-> t, prev |-> last[t], delta |-> d]]
           /\ baseline' = [baseline EXCEPT ![t] = IF last[t] = Nothing THEN s ELSE baseline[t]]
           /\ UNCHANGED <<kernel, live, clock, usage, trafficRunning, plan, stats, disturbed>>
  BY RefreshDoes DEF Inv
<1>2. UNCHANGED <<counter, carried, usage, disturbed>>
  BY <1>1 DEF kernel
<1>3. \A u \in Tunnel : /\ Recorded(u)' = Recorded(u) /\ Recorded(u) \in Nat
                        /\ counter[u] \in Nat /\ carried[u] \in Nat
                        /\ last[u] \in Reading /\ baseline[u] \in Reading
  BY <1>2, RecordedNat DEF Recorded, Inv, TypeOK
<1>4. last'[t] = s /\ last'[t] # Nothing
  BY <1>1, TrafficAssumptions DEF Inv, TypeOK
<1>5. \A q \in Run : q # r => pc[q] = "idle" /\ pc'[q] = "idle"
  BY <1>1 DEF Inv, TypeOK, RunInv
<1>6. \A q \in Run : Readings(q, t)' = {}
  <2>1. \A q \in Run : q # r => stats[q] = NoReadings /\ samples[q] = NoReadings
    BY <1>5 DEF Inv, RunInv
  <2>2. stats[r] = NoReadings
    BY <1>1 DEF Inv, RunInv
  <2>. QED  BY <1>1, <2>1, <2>2 DEF Readings, NoReadings, Inv, TypeOK
<1>7. \A q \in Run : pc'[q] = "record" => q = r /\ d # 0 /\ item'[q].tunnel = t /\ item'[q].delta = d
  BY <1>1, <1>5 DEF Inv, TypeOK
<1>8. \A q \in Run : pc[q] # "record"
  BY <1>1, <1>5
<1>9. \A u \in Tunnel : u # t => /\ last'[u] = last[u] /\ baseline'[u] = baseline[u]
                                 /\ \A q \in Run : Readings(q, u)' = Readings(q, u)
  BY <1>1 DEF Readings, Inv, TypeOK
<1>10. s \in Readings(r, t)
  BY <1>1, TrafficAssumptions DEF Readings
<1>11. AccountInv'
  <2>1. Recorded(t) + d + Owed(counter[t], s) <= carried[t] /\ Owed(counter[t], s) = Grown(counter[t], s)
    BY <1>1, <1>4, <1>10 DEF Inv, AccountInv, Owed
  <2>2. Recorded(t) + Owed(counter[t], s) <= carried[t]
    <3>1. Owed(counter[t], s) \in Nat
      BY <1>3, <2>1, GrownNat
    <3>. QED  BY <1>3, <2>1, <3>1
  <2>3. \A u \in Tunnel : u # t =>
          /\ Recorded(u) + Owed(counter[u], last[u]) <= carried[u]
          /\ \A q \in Run : \A v \in Readings(q, u) :
               Recorded(u) + Owed(v, last[u]) + Grown(counter[u], v) <= carried[u]
    BY DEF Inv, AccountInv
  <2>. QED  BY <1>2, <1>3, <1>4, <1>6, <1>7, <1>9, <2>1, <2>2, <2>3 DEF AccountInv, Owed, Grown
<1>12. ExactInv'
  <2>1. \A u \in Tunnel \ {t} : ~Storing(u)' /\ ~Storing(u)
    BY <1>7, <1>8 DEF Storing
  <2>2. d # 0 <=> Storing(t)'
    BY <1>1, <1>7 DEF Storing, Inv, TypeOK
  <2>3. \A u \in Tunnel \ disturbed : u # t =>
          /\ last[u] = Nothing => Recorded(u) = 0
          /\ last[u] # Nothing => last[u] <= counter[u]
          /\ last[u] # Nothing => Recorded(u) = last[u] - baseline[u]
          /\ \A q \in Run : \A v \in Readings(q, u) :
               v <= counter[u] /\ (last[u] # Nothing => last[u] <= v)
    BY <2>1 DEF Inv, ExactInv
  <2>4. ASSUME t \notin disturbed
        PROVE  s <= counter[t] /\ Recorded(t) + d = s - baseline'[t]
    <3>1. s <= counter[t] /\ (last[t] # Nothing => last[t] <= s)
      BY <1>10, <2>4 DEF Inv, ExactInv
    <3>2. CASE last[t] = Nothing
      <4>1. baseline'[t] = s /\ d = 0 /\ Recorded(t) = 0
        BY <1>1, <2>4, <3>2 DEF Inv, TypeOK, ExactInv, Owed
      <4>. QED  BY <3>1, <4>1
    <3>3. CASE last[t] # Nothing
      <4>1. baseline'[t] = baseline[t] /\ d = s - last[t] /\ last[t] \in Nat
        BY <1>1, <1>3, <3>1, <3>3 DEF Inv, TypeOK, Owed, Grown
      <4>2. Recorded(t) = last[t] - baseline[t] /\ baseline[t] \in Nat
        BY <1>3, <1>8, <2>4, <3>3 DEF Inv, ExactInv, Storing, RunInv
      <4>. QED  BY <1>3, <3>1, <4>1, <4>2
    <3>. QED  BY <3>2, <3>3
  <2>5. t \notin disturbed /\ d = 0 => Recorded(t) = s - baseline'[t]
    BY <1>3, <2>4
  <2>. QED  BY <1>2, <1>3, <1>4, <1>6, <1>7, <1>9, <2>1, <2>2, <2>3, <2>4, <2>5 DEF ExactInv
<1>. QED  BY <1>11, <1>12

(* delta passes to the chart. *)
LEMMA RecordAccounts ==
  ASSUME Inv, NEW r \in Run, Record(r)
  PROVE  AccountInv' /\ ExactInv'
<1>1. PICK t \in Tunnel, b \in Buckets, d \in Nat :
        /\ pc[r] = "record" /\ last[t] # Nothing
        /\ t = item[r].tunnel /\ b = plan[r].bucket /\ d = item[r].delta
  BY DEF Inv, TypeOK, RunInv, Record, Goes
<1>2. UNCHANGED <<counter, carried, last, baseline, disturbed, stats, samples, item>>
  BY DEF Record, kernel
<1>3. \A q \in Run : pc[q] = "record" => q = r
  BY <1>1 DEF Inv, RunInv
<1>4. \A q \in Run : pc'[q] # "record"
  BY <1>1, <1>3 DEF Record, Goes, Inv, TypeOK
<1>5. \A u \in Tunnel : /\ Recorded(u) \in Nat
                        /\ counter[u] \in Nat /\ carried[u] \in Nat
                        /\ last[u] \in Reading /\ baseline[u] \in Reading
  BY RecordedNat DEF Inv, TypeOK
<1>6. Recorded(t)' = Recorded(t) + d
  <2>1. usage[t] \in [Buckets -> Int] /\ usage[t][b] \in Nat
    BY <1>1 DEF Inv, TypeOK
  <2>2. usage'[t] = [usage[t] EXCEPT ![b] = usage[t][b] + d]
    BY <1>1 DEF Record, Upserted, Inv, TypeOK
  <2>3. Sum([usage[t] EXCEPT ![b] = usage[t][b] + d], Buckets)
          = Sum(usage[t], Buckets) + (IF b \in Buckets THEN usage[t][b] + d - usage[t][b] ELSE 0)
    <3>1. usage[t][b] + d \in Int
      BY <1>1, <2>1
    <3>. QED  BY <1>1, <2>1, <3>1, BucketsFinite, SumUpdate
  <2>4. (IF b \in Buckets THEN usage[t][b] + d - usage[t][b] ELSE 0) = d
    BY <1>1, <2>1
  <2>. QED  BY <2>2, <2>3, <2>4 DEF Recorded
<1>7. \A u \in Tunnel : u # t => Recorded(u)' = Recorded(u)
  BY <1>1 DEF Record, Recorded, Inv, TypeOK
<1>8. \A q \in Run, u \in Tunnel : Readings(q, u)' = Readings(q, u)
  BY <1>2 DEF Readings
<1>9. \A q \in Run : Readings(q, t) = {}
  <2>1. \A q \in Run : q # r => stats[q] = NoReadings /\ samples[q] = NoReadings
    BY <1>1 DEF Inv, RunInv
  <2>2. stats[r] = NoReadings /\ samples[r][t] = Nothing
    BY <1>1 DEF Inv, RunInv
  <2>. QED  BY <1>1, <2>1, <2>2 DEF Readings, NoReadings
<1>10. \A u \in Tunnel : ~Storing(u)' /\ (u # t => ~Storing(u))
  BY <1>1, <1>3, <1>4 DEF Storing
<1>11. Recorded(t) + d + Owed(counter[t], last[t]) <= carried[t]
  BY <1>1 DEF Inv, AccountInv
<1>12. t \notin disturbed => Recorded(t) + d = last[t] - baseline[t] /\ last[t] <= counter[t]
  BY <1>1 DEF Inv, ExactInv
<1>13. AccountInv'
  <2>1. \A u \in Tunnel : u # t =>
          /\ Recorded(u) + Owed(counter[u], last[u]) <= carried[u]
          /\ \A q \in Run : \A v \in Readings(q, u) :
               Recorded(u) + Owed(v, last[u]) + Grown(counter[u], v) <= carried[u]
    BY DEF Inv, AccountInv
  <2>. QED  BY <1>2, <1>4, <1>6, <1>7, <1>8, <1>9, <1>11, <2>1 DEF AccountInv, Owed, Grown
<1>14. ExactInv'
  <2>1. \A u \in Tunnel \ disturbed : u # t =>
          /\ last[u] = Nothing => Recorded(u) = 0
          /\ last[u] # Nothing => last[u] <= counter[u]
          /\ last[u] # Nothing => Recorded(u) = last[u] - baseline[u]
          /\ \A q \in Run : \A v \in Readings(q, u) :
               v <= counter[u] /\ (last[u] # Nothing => last[u] <= v)
    BY <1>10 DEF Inv, ExactInv
  <2>. QED  BY <1>1, <1>2, <1>4, <1>6, <1>7, <1>8, <1>9, <1>12, <2>1 DEF ExactInv
<1>. QED  BY <1>13, <1>14

(* A pruned chart shows less, and exactly as much for tunnels without old rows. *)
LEMMA PruneAccounts ==
  ASSUME Inv, NEW r \in Run, Prune(r)
  PROVE  AccountInv' /\ ExactInv'
<1>1. UNCHANGED <<counter, carried, last, baseline>> /\ disturbed \subseteq disturbed'
  BY DEF Prune, kernel
<1>2. \A q \in Run : pc[q] # "record" /\ pc'[q] # "record"
  BY DEF Prune, Ends, Inv, TypeOK, RunInv
<1>3. \A q \in Run, u \in Tunnel : Readings(q, u)' \subseteq Readings(q, u)
  BY DEF Prune, Ends, Inv, TypeOK, Readings, NoReadings
<1>4. \A u \in Tunnel, b \in Buckets : usage'[u][b] \in Nat /\ usage[u][b] \in Nat /\ usage'[u][b] <= usage[u][b]
  BY DEF Prune, Inv, TypeOK
<1>5. \A u \in Tunnel \ disturbed' : \A b \in Buckets : usage'[u][b] = usage[u][b]
  BY DEF Prune, Inv, TypeOK
<1>6. \A u \in Tunnel : Recorded(u)' <= Recorded(u) /\ Recorded(u)' \in Nat /\ Recorded(u) \in Nat
  <2>. SUFFICES ASSUME NEW u \in Tunnel
                PROVE  Recorded(u)' <= Recorded(u) /\ Recorded(u)' \in Nat /\ Recorded(u) \in Nat
    OBVIOUS
  <2>1. Sum(usage'[u], Buckets) <= Sum(usage[u], Buckets)
    BY <1>4, BucketsFinite, SumMonotone
  <2>2. Sum(usage'[u], Buckets) \in Nat /\ Sum(usage[u], Buckets) \in Nat
    BY <1>4, BucketsFinite, SumNat
  <2>. QED  BY <2>1, <2>2 DEF Recorded
<1>7. \A u \in Tunnel \ disturbed' : Recorded(u)' = Recorded(u)
  <2>. SUFFICES ASSUME NEW u \in Tunnel \ disturbed' PROVE Sum(usage'[u], Buckets) = Sum(usage[u], Buckets)
    BY DEF Recorded
  <2>. QED  BY <1>5, BucketsFinite, SumSame
<1>8. AccountInv'
  <2>. SUFFICES ASSUME NEW u \in Tunnel
                PROVE  /\ Recorded(u)' + Owed(counter[u], last[u]) <= carried[u]
                       /\ \A q \in Run : \A v \in Readings(q, u) :
                            Recorded(u)' + Owed(v, last[u]) + Grown(counter[u], v) <= carried[u]
    BY <1>1, <1>2, <1>3 DEF AccountInv, Owed, Grown
  <2>1. counter[u] \in Nat /\ carried[u] \in Nat /\ last[u] \in Reading
    BY DEF Inv, TypeOK
  <2>2. Recorded(u)' + Owed(counter[u], last[u]) <= carried[u]
    <3>1. Owed(counter[u], last[u]) \in Nat
      BY <2>1, OwedFacts
    <3>2. Recorded(u) + Owed(counter[u], last[u]) <= carried[u]
      BY DEF Inv, AccountInv
    <3>. QED  BY <1>6, <2>1, <3>1, <3>2
  <2>3. ASSUME NEW q \in Run, NEW v \in Readings(q, u)
        PROVE  Recorded(u)' + Owed(v, last[u]) + Grown(counter[u], v) <= carried[u]
    <3>1. v \in Nat
      BY ReadingsNat DEF Inv
    <3>2. Owed(v, last[u]) \in Nat /\ Grown(counter[u], v) \in Nat
      BY <2>1, <3>1, OwedFacts, GrownNat
    <3>3. Recorded(u) + Owed(v, last[u]) + Grown(counter[u], v) <= carried[u]
      BY DEF Inv, AccountInv
    <3>. QED  BY <1>6, <2>1, <3>2, <3>3
  <2>. QED  BY <2>2, <2>3
<1>9. ExactInv'
  <2>1. \A u \in Tunnel \ disturbed' : u \notin disturbed /\ ~Storing(u) /\ ~Storing(u)'
    BY <1>1, <1>2 DEF Storing
  <2>. QED  BY <1>1, <1>2, <1>3, <1>7, <2>1 DEF Inv, ExactInv
<1>. QED  BY <1>8, <1>9

-----------------------------------------------------------------------------
(* The theorems. *)

(* Nothing is carried, sampled or stored yet. *)
LEMMA InitInv == Init => Inv
<1>. SUFFICES ASSUME Init PROVE Inv
  OBVIOUS
<1>1. TypeOK
  <2>1. /\ 0 \in Buckets
        /\ NoPlan \in [bucket : Buckets, todo : SUBSET Gateway, gw : Gateway \union {Nothing}, calls : SUBSET Protocols]
        /\ NoItem \in [tunnel : Tunnel \union {Nothing}, prev : Reading, delta : Nat]
        /\ NoReadings \in [Tunnel -> Reading]
    BY TrafficAssumptions DEF NoPlan, NoItem, NoReadings, Buckets
  <2>. QED  BY <2>1 DEF Init, TypeOK
<1>2. RunInv
  BY DEF Init, RunInv
<1>3. \A t \in Tunnel : Recorded(t) = 0
  <2>. SUFFICES ASSUME NEW t \in Tunnel PROVE Sum(usage[t], Buckets) = 0
    BY DEF Recorded
  <2>1. \A b \in Buckets : usage[t][b] = 0
    BY DEF Init
  <2>. QED  BY <2>1, BucketsFinite, SumZero
<1>4. \A t \in Tunnel : last[t] = Nothing /\ counter[t] = 0 /\ carried[t] = 0
  BY DEF Init, NoReadings
<1>5. \A r \in Run : pc[r] = "idle" /\ \A t \in Tunnel : Readings(r, t) = {}
  BY DEF Init, NoReadings, Readings
<1>6. AccountInv
  BY <1>3, <1>4, <1>5 DEF AccountInv, Owed
<1>7. ExactInv
  BY <1>3, <1>4, <1>5 DEF ExactInv
<1>. QED  BY <1>1, <1>2, <1>6, <1>7 DEF Inv

(* Every step of the sampler and of its surroundings keeps the invariant. *)
LEMMA InvStep == Inv /\ [Next]_vars => Inv'
<1>. SUFFICES ASSUME Inv, [Next]_vars PROVE Inv'
  OBVIOUS
<1>1. ASSUME NEW r \in Run, StartRun(r) PROVE Inv'
  BY <1>1, StartRunTypes, StartRunQuiet DEF Inv
<1>2. ASSUME NEW r \in Run, NEW g \in Gateway, NextGateway(r, g) PROVE Inv'
  BY <1>2, NextGatewayTypes, NextGatewayQuiet DEF Inv
<1>3. ASSUME NEW r \in Run, NEW p \in Protocols, GetStats(r, p) PROVE Inv'
  BY <1>3, GetStatsTypes, GetStatsAccounts DEF Inv
<1>4. ASSUME NEW r \in Run, MatchTunnels(r) PROVE Inv'
  BY <1>4, MatchTunnelsTypes, MatchTunnelsQuiet DEF Inv
<1>5. ASSUME NEW r \in Run, NEW p \in Protocols, CallFails(r, p) PROVE Inv'
  BY <1>5, CallFailsTypes, CallFailsQuiet DEF Inv
<1>6. ASSUME NEW r \in Run, MatchFails(r) PROVE Inv'
  BY <1>6, MatchFailsTypes, MatchFailsQuiet DEF Inv
<1>7. ASSUME NEW r \in Run, CallsDone(r) PROVE Inv'
  BY <1>7, CallsDoneTypes, CallsDoneQuiet DEF Inv
<1>8. ASSUME NEW r \in Run, NEW t \in Tunnel, ReadPrev(r, t) PROVE Inv'
  BY <1>8, ReadPrevTypes, ReadPrevQuiet DEF Inv
<1>9. ASSUME NEW r \in Run, Refresh(r) PROVE Inv'
  BY <1>9, RefreshTypes, RefreshAccounts DEF Inv
<1>10. ASSUME NEW r \in Run, Record(r) PROVE Inv'
  BY <1>10, RecordTypes, RecordAccounts DEF Inv
<1>11. ASSUME NEW r \in Run, SamplesDone(r) PROVE Inv'
  BY <1>11, SamplesDoneTypes, SamplesDoneQuiet DEF Inv
<1>12. ASSUME NEW r \in Run, GatewaysDone(r) PROVE Inv'
  BY <1>12, GatewaysDoneTypes, GatewaysDoneQuiet DEF Inv
<1>13. ASSUME NEW r \in Run, Prune(r) PROVE Inv'
  BY <1>13, PruneTypes, PruneAccounts DEF Inv
<1>14. ASSUME NEW r \in Run, RunFails(r) PROVE Inv'
  BY <1>14, RunFailsTypes, RunFailsQuiet DEF Inv
<1>15. ASSUME NEW t \in Tunnel, Flow(t) PROVE Inv'
  BY <1>15, FlowTypes, FlowAccounts DEF Inv
<1>16. ASSUME NEW t \in Tunnel, AddPeer(t) PROVE Inv'
  BY <1>16, AddPeerTypes, AddPeerAccounts DEF Inv
<1>17. ASSUME NEW t \in Tunnel, RemovePeer(t) PROVE Inv'
  BY <1>17, RemovePeerTypes, RemovePeerQuiet DEF Inv
<1>18. ASSUME NEW t \in Tunnel, DeleteTunnel(t) PROVE Inv'
  BY <1>18, DeleteTunnelTypes, DeleteTunnelQuiet DEF Inv
<1>19. ASSUME NextBucket PROVE Inv'
  BY <1>19, NextBucketTypes, NextBucketQuiet DEF Inv
<1>20. ASSUME UNCHANGED vars PROVE Inv'
  <2>1. TypeOK' /\ RunInv'
    BY <1>20 DEF Inv, TypeOK, RunInv, vars, kernel, tables, work
  <2>2. AccountInv' /\ ExactInv'
    BY <1>20, QuietAccounts, QuietExact DEF Inv, vars, kernel, tables, work, Readings, Storing
  <2>. QED  BY <2>1, <2>2 DEF Inv
<1>. QED
  BY <1>1, <1>2, <1>3, <1>4, <1>5, <1>6, <1>7, <1>8, <1>9, <1>10, <1>11, <1>12, <1>13, <1>14, <1>15, <1>16, <1>17, <1>18, <1>19, <1>20 DEF Next, Sampling

(* The invariant holds of every state of the sampler. *)
THEOREM InvTheorem == Spec => []Inv
BY InitInv, InvStep, PTL DEF Spec

(* Type correctness of the sampler: what its variables hold is of their    *)
(* type, and a run that stores a sample stores it for a tunnel.            *)
THEOREM TypeCorrect == Spec => []TypeOK
<1>1. Inv => TypeOK
  BY DEF Inv
<1>. QED  BY <1>1, InvTheorem, PTL

(* The bars of a chart add up to the rows of its range, whatever the width *)
(* of the bars: date_bin puts each row in one of them.                     *)
LEMMA ChartTotalOfRows ==
  ASSUME TypeOK, NEW t \in Tunnel, NEW from \in Nat, NEW to \in Nat, NEW width \in Nat \ {0}
  PROVE  ChartTotal(t, from, to, width) = Sum(usage[t], Rows(t, from, to))
<1>. DEFINE R == Rows(t, from, to)
            G == Bins(t, from, to, width)
            h == [b \in R |-> Bin(b, width)]
<1>1. R \subseteq Buckets /\ IsFiniteSet(R)
  BY BucketsFinite, FS_Subset DEF Rows
<1>2. h \in [R -> G] /\ G = {Bin(b, width) : b \in R}
  BY DEF Bins
<1>3. IsFiniteSet(G)
  <2>1. h \in Surjection(R, G)
    BY <1>2 DEF Surjection, Bins
  <2>. HIDE DEF R, G, h
  <2>. QED  BY <1>1, <2>1, FS_Surjection
<1>4. \A b \in R : usage[t][b] \in Int
  BY <1>1 DEF TypeOK
<1>5. \A k \in G : {b \in R : h[b] = k} = {b \in R : Bin(b, width) = k}
  OBVIOUS
<1>6. Chart(t, from, to, width) = [k \in G |-> Sum(usage[t], {b \in R : h[b] = k})]
  BY <1>5 DEF Chart
<1>7. Sum([k \in G |-> Sum(usage[t], {b \in R : h[b] = k})], G) = Sum(usage[t], R)
  <2>. HIDE DEF R, G, h
  <2>. QED  BY <1>1, <1>2, <1>3, <1>4, SumGroups
<1>. QED  BY <1>6, <1>7 DEF ChartTotal

(* No chart of a tunnel shows more than the tunnel carried.  What is owed  *)
(* is never negative, so the account bounds what is recorded; a chart adds *)
(* up some of that.                                                        *)
THEOREM NeverOvercountsTheorem == Spec => []NeverOvercounts
<1>1. Inv => NeverOvercounts
  <2>. SUFFICES ASSUME Inv, NEW t \in Tunnel, NEW from \in 0..MaxBucket + 1, NEW to \in 0..MaxBucket + 1,
                       NEW width \in 1..MaxBucket + 1
                PROVE  ChartTotal(t, from, to, width) <= carried[t]
    BY DEF NeverOvercounts
  <2>1. TypeOK /\ from \in Nat /\ to \in Nat /\ width \in Nat \ {0}
    BY TrafficAssumptions DEF Inv
  <2>2. ChartTotal(t, from, to, width) = Sum(usage[t], Rows(t, from, to))
    BY <2>1, ChartTotalOfRows
  <2>3. Rows(t, from, to) \in SUBSET Buckets /\ \A b \in Buckets : usage[t][b] \in Nat
    BY <2>1 DEF Rows, TypeOK
  <2>4. Sum(usage[t], Rows(t, from, to)) <= Recorded(t)
    BY <2>3, BucketsFinite, SumSubset DEF Recorded
  <2>5. Sum(usage[t], Rows(t, from, to)) \in Nat
    <3>1. IsFiniteSet(Rows(t, from, to))
      BY <2>3, BucketsFinite, FS_Subset
    <3>. QED  BY <2>3, <3>1, SumNat
  <2>6. Recorded(t) + Owed(counter[t], last[t]) <= carried[t]
    BY DEF Inv, AccountInv
  <2>7. Owed(counter[t], last[t]) \in Nat /\ carried[t] \in Nat
    BY <2>1, OwedFacts DEF TypeOK
  <2>. QED  BY <2>1, <2>2, <2>4, <2>5, <2>6, <2>7, RecordedNat
<1>. QED  BY <1>1, InvTheorem, PTL

(* A tunnel of which no difference was lost has rows for exactly what its  *)
(* counter grew by since it was first sampled.                             *)
THEOREM ExactTheorem == Spec => []ExactUnlessDisturbed
<1>1. Inv => ExactUnlessDisturbed
  BY DEF Inv, ExactInv, ExactUnlessDisturbed, Recorded
<1>. QED  BY <1>1, InvTheorem, PTL
=============================================================================
