----------------------------- MODULE TrafficSampler -----------------------------
(***************************************************************************)
(* The traffic of tunnels as the portal charts it                          *)
(* (packages/provisioning/src/traffic-sampler.ts, started by               *)
(* apps/worker-internal/src/main.ts, read by TunnelsService.getTraffic).   *)
(*                                                                         *)
(* The kernel of a gateway counts the bytes of a peer from the moment the  *)
(* peer is added; every five minutes the worker asks each gateway for the  *)
(* counters, takes the difference to what it saw last and adds it to the   *)
(* row of the tunnel and the five-minute bucket.  Between any two of these *)
(* steps peers carry traffic and are removed and added again, tunnels are  *)
(* deleted, the clock goes on, a gateway or the database does not answer,  *)
(* or the worker is restarted.                                             *)
(*                                                                         *)
(* One direction of the traffic stands for both: the two are added up      *)
(* apart from each other.  Time is counted in buckets.  One process runs   *)
(* the sampler, as the deployment has it; the runs of that process are     *)
(* kept apart by trafficRunning alone.                                     *)
(***************************************************************************)
EXTENDS Integers, FiniteSets, Sums

CONSTANTS
  Tunnel,
  Gateway,
  Run,         \* calls of runTrafficSample that may be going on
  HomeOf,      \* gateway_id of a tunnel
  ProtocolOf,  \* protocol of a tunnel
  Supports,    \* supported_protocols of a gateway
  Retention,   \* TRAFFIC_RETENTION_DAYS, in buckets
  PruneWindow, \* the buckets from 03:00 to 03:05 UTC
  MaxBytes,    \* bound on the bytes the tunnels carry together
  MaxBucket,   \* bound on the clock
  Nothing      \* no row, no sample, no gateway

Protocols == {"wireguard", "gre"}  \* those that are sampled

ASSUME TrafficAssumptions ==
  /\ HomeOf \in [Tunnel -> Gateway]
  /\ Supports \in [Gateway -> SUBSET STRING]
  /\ Retention \in Nat
  /\ MaxBytes \in Nat /\ MaxBucket \in Nat
  /\ Nothing \notin Nat \union Tunnel \union Gateway

VARIABLES
  counter,    \* per tunnel: bytesRx of its peer in the kernel
  peers,      \* tunnels whose peer is on its gateway
  live,       \* tunnels with deleted_at IS NULL
  clock,      \* the bucket that now falls in
  last,       \* tunnel_stats_last
  usage,      \* bandwidth_usage: per tunnel and bucket_start, 0 without a row
  trafficRunning,
  pc,         \* per run: where it is
  plan,       \* per run: its bucket, the gateways to come, the one in hand, the calls to come
  stats,      \* per run: what the gateway answered, by tunnel
  samples,    \* per run: samples still to be stored
  item,       \* per run: the sample in hand
  carried,    \* history: bytes each tunnel has carried
  baseline,   \* history: the counter when the tunnel was first sampled
  disturbed   \* history: tunnels of which some difference was lost

kernel == <<counter, peers, carried>>
tables == <<last, usage>>
work == <<pc, plan, stats, samples, item>>
vars == <<kernel, live, clock, tables, trafficRunning, work, baseline, disturbed>>

Buckets == 0..MaxBucket
Reading == Nat \union {Nothing}
NoReadings == [t \in Tunnel |-> Nothing]
NoPlan == [bucket |-> 0, todo |-> {}, gw |-> Nothing, calls |-> {}]
NoItem == [tunnel |-> Nothing, prev |-> Nothing, delta |-> 0]

Init ==
  /\ counter = [t \in Tunnel |-> 0]
  /\ peers = {}
  /\ live = Tunnel
  /\ clock = 0
  /\ last = NoReadings
  /\ usage = [t \in Tunnel |-> [b \in Buckets |-> 0]]
  /\ trafficRunning = FALSE
  /\ pc = [r \in Run |-> "idle"]
  /\ plan = [r \in Run |-> NoPlan]
  /\ stats = [r \in Run |-> NoReadings]
  /\ samples = [r \in Run |-> NoReadings]
  /\ item = [r \in Run |-> NoItem]
  /\ carried = [t \in Tunnel |-> 0]
  /\ baseline = NoReadings
  /\ disturbed = {}

-----------------------------------------------------------------------------
(* A run of the sampler. *)

Goes(r, from, to) == pc[r] = from /\ pc' = [pc EXCEPT ![r] = to]

(* runTrafficSample, unless a run is going on; the active gateways are read. *)
StartRun(r) ==
  /\ ~trafficRunning
  /\ trafficRunning' = TRUE
  /\ Goes(r, "idle", "gateways")
  /\ \E active \in SUBSET Gateway :
       plan' = [plan EXCEPT ![r] = [bucket |-> clock, todo |-> active, gw |-> Nothing, calls |-> {}]]
  /\ UNCHANGED <<kernel, live, clock, tables, stats, samples, item, baseline, disturbed>>

NextGateway(r, g) ==
  /\ g \in plan[r].todo
  /\ Goes(r, "gateways", "stats")
  /\ plan' = [plan EXCEPT ![r] = [bucket |-> @.bucket, todo |-> @.todo \ {g}, gw |-> g,
                                  calls |-> Supports[g] \intersect Protocols]]
  /\ UNCHANGED <<kernel, live, clock, tables, trafficRunning, stats, samples, item, baseline, disturbed>>

(* The agent's answer: the counters of the peers it has, GRE after WireGuard. *)
GetStats(r, p) ==
  /\ p \in plan[r].calls
  /\ p = "gre" => "wireguard" \notin plan[r].calls
  /\ Goes(r, "stats", "match")
  /\ stats' = [stats EXCEPT ![r] =
       [t \in Tunnel |-> IF t \in peers /\ HomeOf[t] = plan[r].gw /\ ProtocolOf[t] = p
                         THEN counter[t] ELSE Nothing]]
  /\ plan' = [plan EXCEPT ![r].calls = @ \ {p}]
  /\ UNCHANGED <<kernel, live, clock, tables, trafficRunning, samples, item, baseline, disturbed>>

(* A peer whose tunnel is not in the table any more is not sampled. *)
MatchTunnels(r) ==
  /\ Goes(r, "match", "stats")
  /\ samples' = [samples EXCEPT ![r] =
       [t \in Tunnel |-> IF t \in live /\ stats[r][t] # Nothing THEN stats[r][t] ELSE @[t]]]
  /\ stats' = [stats EXCEPT ![r] = NoReadings]
  /\ UNCHANGED <<kernel, live, clock, tables, trafficRunning, plan, item, baseline, disturbed>>

(* The agent does not answer: the other protocol is asked all the same. *)
CallFails(r, p) ==
  /\ p \in plan[r].calls
  /\ p = "gre" => "wireguard" \notin plan[r].calls
  /\ pc[r] = "stats"
  /\ plan' = [plan EXCEPT ![r].calls = @ \ {p}]
  /\ UNCHANGED <<kernel, live, clock, tables, trafficRunning, pc, stats, samples, item, baseline, disturbed>>

(* The database does not answer: caught like a failed call. *)
MatchFails(r) ==
  /\ Goes(r, "match", "stats")
  /\ stats' = [stats EXCEPT ![r] = NoReadings]
  /\ UNCHANGED <<kernel, live, clock, tables, trafficRunning, plan, samples, item, baseline, disturbed>>

CallsDone(r) ==
  /\ plan[r].calls = {}
  /\ Goes(r, "stats", "samples")
  /\ UNCHANGED <<kernel, live, clock, tables, trafficRunning, plan, stats, samples, item, baseline, disturbed>>

(* The last counter of the tunnel is read ... *)
ReadPrev(r, t) ==
  /\ samples[r][t] # Nothing
  /\ Goes(r, "samples", "refresh")
  /\ item' = [item EXCEPT ![r] = [tunnel |-> t, prev |-> last[t], delta |-> 0]]
  /\ UNCHANGED <<kernel, live, clock, tables, trafficRunning, plan, stats, samples, baseline, disturbed>>

(* Mutation: the counter is taken to have been reset. *)
ResetAlways(now, before) == now

(* A counter below the last one was reset: all of it is new. *)
Grown(now, before) == IF now >= before THEN now - before ELSE now

(* ... and replaced; without an earlier one, or a difference, that is all. *)
Refresh(r) ==
  LET t == item[r].tunnel
      s == samples[r][t]
      prev == item[r].prev
      delta == IF prev = Nothing THEN 0 ELSE Grown(s, prev)
  IN /\ Goes(r, "refresh", IF delta = 0 THEN "samples" ELSE "record")
     /\ last' = [last EXCEPT ![t] = s]
     /\ samples' = [samples EXCEPT ![r] = [@ EXCEPT ![t] = Nothing]]
     /\ item' = [item EXCEPT ![r] = [tunnel |-> t, prev |-> prev, delta |-> delta]]
     /\ baseline' = [baseline EXCEPT ![t] = IF last[t] = Nothing THEN s ELSE @]
     /\ UNCHANGED <<kernel, live, clock, usage, trafficRunning, plan, stats, disturbed>>

(* Mutation: ON CONFLICT DO NOTHING. *)
FirstOnly(stored, delta) == IF stored = 0 THEN delta ELSE stored

(* ON CONFLICT DO UPDATE: on top of what is there. *)
Upserted(stored, delta) == stored + delta

(* The difference goes to the bucket the run was started in. *)
Record(r) ==
  LET t == item[r].tunnel
      b == plan[r].bucket
  IN /\ Goes(r, "record", "samples")
     /\ usage' = [usage EXCEPT ![t] = [@ EXCEPT ![b] = Upserted(usage[t][b], item[r].delta)]]
     /\ UNCHANGED <<kernel, live, clock, last, trafficRunning, plan, stats, samples, item, baseline, disturbed>>

SamplesDone(r) ==
  /\ \A t \in Tunnel : samples[r][t] = Nothing
  /\ Goes(r, "samples", "gateways")
  /\ UNCHANGED <<kernel, live, clock, tables, trafficRunning, plan, stats, samples, item, baseline, disturbed>>

(* The run is over, whatever it had in hand. *)
Ends(r) ==
  /\ pc' = [pc EXCEPT ![r] = "idle"]
  /\ plan' = [plan EXCEPT ![r] = NoPlan]
  /\ stats' = [stats EXCEPT ![r] = NoReadings]
  /\ samples' = [samples EXCEPT ![r] = NoReadings]
  /\ item' = [item EXCEPT ![r] = NoItem]
  /\ trafficRunning' = FALSE

(* Once a day, in the first five minutes after 03:00, old rows go too. *)
GatewaysDone(r) ==
  /\ pc[r] = "gateways" /\ plan[r].todo = {}
  /\ \/ /\ clock \in PruneWindow
        /\ pc' = [pc EXCEPT ![r] = "prune"]
        /\ UNCHANGED <<trafficRunning, plan, stats, samples, item>>
     \/ clock \notin PruneWindow /\ Ends(r)
  /\ UNCHANGED <<kernel, live, clock, tables, baseline, disturbed>>

(* now falls on the start of its bucket or past it. *)
Prune(r) ==
  /\ pc[r] = "prune"
  /\ \E past \in {0, 1} :
       LET old == {b \in Buckets : b < clock - Retention + past}
       IN /\ usage' = [t \in Tunnel |-> [b \in Buckets |-> IF b \in old THEN 0 ELSE usage[t][b]]]
          /\ disturbed' = disturbed \union {t \in Tunnel : \E b \in old : usage[t][b] # 0}
  /\ Ends(r)
  /\ UNCHANGED <<kernel, live, clock, last, baseline>>

(* A query throws, the client cannot be built, or the worker is restarted. *)
RunFails(r) ==
  /\ pc[r] # "idle"
  /\ disturbed' = disturbed \union {t \in Tunnel : pc[r] = "record" /\ item[r].tunnel = t}
  /\ Ends(r)
  /\ UNCHANGED <<kernel, live, clock, tables, baseline>>

-----------------------------------------------------------------------------
(* What goes on meanwhile. *)

Flow(t) ==
  /\ t \in peers
  /\ Sum(carried, Tunnel) < MaxBytes
  /\ counter' = [counter EXCEPT ![t] = @ + 1]
  /\ carried' = [carried EXCEPT ![t] = @ + 1]
  /\ UNCHANGED <<peers, live, clock, tables, trafficRunning, work, baseline, disturbed>>

(* A peer that is added counts from 0. *)
AddPeer(t) ==
  /\ t \notin peers
  /\ peers' = peers \union {t}
  /\ counter' = [counter EXCEPT ![t] = 0]
  /\ disturbed' = disturbed \union {u \in {t} : counter[u] > 0}
  /\ UNCHANGED <<carried, live, clock, tables, trafficRunning, work, baseline>>

RemovePeer(t) ==
  /\ t \in peers
  /\ peers' = peers \ {t}
  /\ UNCHANGED <<counter, carried, live, clock, tables, trafficRunning, work, baseline, disturbed>>

DeleteTunnel(t) ==
  /\ t \in live
  /\ live' = live \ {t}
  /\ UNCHANGED <<kernel, clock, tables, trafficRunning, work, baseline, disturbed>>

NextBucket ==
  /\ clock < MaxBucket
  /\ clock' = clock + 1
  /\ UNCHANGED <<kernel, live, tables, trafficRunning, work, baseline, disturbed>>

Sampling(r) ==
  \/ StartRun(r)
  \/ \E g \in Gateway : NextGateway(r, g)
  \/ \E p \in Protocols : GetStats(r, p) \/ CallFails(r, p)
  \/ MatchTunnels(r) \/ MatchFails(r) \/ CallsDone(r)
  \/ \E t \in Tunnel : ReadPrev(r, t)
  \/ Refresh(r) \/ Record(r) \/ SamplesDone(r)
  \/ GatewaysDone(r) \/ Prune(r) \/ RunFails(r)

Next ==
  \/ \E r \in Run : Sampling(r)
  \/ \E t \in Tunnel : Flow(t) \/ AddPeer(t) \/ RemovePeer(t) \/ DeleteTunnel(t)
  \/ NextBucket

Spec == Init /\ [][Next]_vars

-----------------------------------------------------------------------------
(* What the portal shows. *)

(* The rows of a range, those of one bin of the chart, and getTraffic's totalRx. *)
Rows(t, from, to) == {b \in Buckets : from <= b /\ b < to /\ usage[t][b] # 0}
Bin(b, width) == (b \div width) * width
Bins(t, from, to, width) == {Bin(b, width) : b \in Rows(t, from, to)}
Chart(t, from, to, width) ==
  [bin \in Bins(t, from, to, width) |-> Sum(usage[t], {b \in Rows(t, from, to) : Bin(b, width) = bin})]
ChartTotal(t, from, to, width) == Sum(Chart(t, from, to, width), Bins(t, from, to, width))

-----------------------------------------------------------------------------
(* Every variable keeps its type, and so does what a run has in hand: the  *)
(* tunnel of the sample it is storing is one it was given.                 *)
TypeOK ==
  /\ counter \in [Tunnel -> Nat] /\ carried \in [Tunnel -> Nat]
  /\ peers \subseteq Tunnel /\ live \subseteq Tunnel /\ disturbed \subseteq Tunnel
  /\ clock \in Buckets
  /\ last \in [Tunnel -> Reading] /\ baseline \in [Tunnel -> Reading]
  /\ usage \in [Tunnel -> [Buckets -> Nat]]
  /\ trafficRunning \in BOOLEAN
  /\ pc \in [Run -> {"idle", "gateways", "stats", "match", "samples", "refresh", "record", "prune"}]
  /\ plan \in [Run -> [bucket : Buckets, todo : SUBSET Gateway, gw : Gateway \union {Nothing},
                       calls : SUBSET Protocols]]
  /\ stats \in [Run -> [Tunnel -> Reading]] /\ samples \in [Run -> [Tunnel -> Reading]]
  /\ item \in [Run -> [tunnel : Tunnel \union {Nothing}, prev : Reading, delta : Nat]]
  /\ \A r \in Run : pc[r] \in {"refresh", "record"} => item[r].tunnel \in Tunnel

(* A chart never shows more than the tunnel carried, for any range and any *)
(* width of its bars: no byte is counted twice, whatever peers are removed *)
(* and added, calls fail and runs are cut off (the delta of                *)
(* sampleAllGateways, and runTrafficSample's guard).                       *)
NeverOvercounts ==
  \A t \in Tunnel, from, to \in 0..MaxBucket + 1, width \in 1..MaxBucket + 1 :
    ChartTotal(t, from, to, width) <= carried[t]

(* A tunnel none of whose differences was lost (its peer did not start     *)
(* from 0 again, no run ended between the new last counter and the row, no *)
(* row was pruned) has rows for exactly what its counter grew by since it  *)
(* was first sampled: failing gateways, refused calls, skipped ticks and   *)
(* restarts elsewhere lose nothing, they only make a later row larger.     *)
Storing(t) == \E r \in Run : pc[r] = "record" /\ item[r].tunnel = t
ExactUnlessDisturbed ==
  \A t \in Tunnel :
    t \notin disturbed /\ last[t] # Nothing /\ ~Storing(t)
      => Sum(usage[t], Buckets) = last[t] - baseline[t]
=============================================================================
