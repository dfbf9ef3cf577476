------------------------------ MODULE AgentProofs ------------------------------
(***************************************************************************)
(* Proofs about the two halves of the gateway agent that GatewaySyncProofs *)
(* leaves: GRE tunnels (GreTunnels, over GreAgent), and the OpenVPN and    *)
(* SSTP backends (DialInAgent).  The two share no state; every theorem is  *)
(* about one of them.                                                      *)
(*                                                                         *)
(* GRE, for any number of tunnels, addresses, /30s, editors and deleters,  *)
(* without a bound on events: the shape of the state, that no two          *)
(* interfaces share a /30, and that the gateway never counts more tunnels  *)
(* than it has.                                                            *)
(*                                                                         *)
(* OpenVPN and SSTP, for any number of customers and addresses: what a     *)
(* suspended or a moved customer's connection carries, whatever connects,  *)
(* fails or restarts in the middle of a call.                              *)
(***************************************************************************)
EXTENDS GreTunnels, DialInAgent, FiniteSetTheorems, SequenceTheorems, TLAPS

------------------------------------------------------------------------------
(* GRE tunnels *)

Bought(t) == tun[t].status # "none"

(* The row of a tunnel that was bought is complete, and the /30s of all rows *)
(* differ, those of deleted tunnels included.                                *)
RowsOK ==
  /\ tun \in [Tunnels -> Row]
  /\ \A t \in Tunnels : Bought(t) => tun[t].slot > 0 /\ tun[t].host \in Hosts /\ tun[t].remote \in Ips
  /\ \A t \in Tunnels : ~Bought(t) => tun[t].slot = 0 /\ ~tun[t].gone
  /\ \A t, x \in Tunnels : t # x /\ tun[t].slot > 0 => tun[t].slot # tun[x].slot

(* Only a tunnel that was bought has an interface. *)
AgentOK ==
  /\ AgentTypeOK
  /\ \A t \in Tunnels : link[t] # NoLink => Bought(t)

Living == {t \in Tunnels : Exists(t)}

CountOK == count \in Nat /\ count <= Cardinality(Living)

(* Whoever is going to push, mark, change or delete a tunnel has seen it. *)
ActOK == act \in [Tunnels -> Push] /\ \A t \in Tunnels : act[t].pc # "idle" => Bought(t)

TasksOK(tasks) ==
  /\ tasks \in [Tunnels -> Task]
  /\ \A t \in Tunnels : tasks[t].do \in {"activate", "call", "mark"} => Bought(t)

DriftOK ==
  /\ drift \in [pc : {"idle", "listed", "work"}, seen : [Tunnels -> Peers], tasks : [Tunnels -> Task]]
  /\ TasksOK(drift.tasks)

ChangeOK(c) ==
  c \in Change /\ (c.pc # "idle" => c.t \in Tunnels /\ c.host \in Hosts /\ c.remote \in Ips /\ Bought(c.t))

ChangesOK == edit \in [Editors -> Change] /\ \A e \in Editors : ChangeOK(edit[e])

DelOK ==
  /\ del \in [Deleters -> Deletion]
  /\ \A d \in Deleters : del[d].pc # "idle" => del[d].t \in Tunnels /\ Bought(del[d].t)

RestOK ==
  /\ attached \in [Addresses -> Tunnels \union {NoLink}]
  /\ dns \in [Hosts -> Ips]
  /\ push \in Seq([t : Tunnels, addrs : SUBSET Addresses])
  /\ budget \in 0..Budget

(* The inductive invariant. *)
Inv ==
  /\ RowsOK /\ AgentOK /\ CountOK /\ ActOK /\ DriftOK
  /\ ChangesOK /\ ChangeOK(refresh) /\ DelOK /\ RestOK

(* What is idle is one of its kind. *)
LEMMA Records ==
  /\ NoPush \in Push /\ NoPush.pc = "idle"
  /\ NoChange \in Change /\ NoChange.pc = "idle"
  /\ NoDeletion \in Deletion /\ NoDeletion.pc = "idle"
  /\ NoTask \in Task /\ NoTask.do = "nothing"
  /\ NoPass \in [pc : {"idle", "listed", "work"}, seen : [Tunnels -> Peers], tasks : [Tunnels -> Task]]
  /\ \A t \in Tunnels : NoPass.tasks[t] = NoTask
BY DEF NoPush, Push, NoChange, Change, NoDeletion, Deletion, NoTask, Task, NoPass, Peers

(* Nothing is bought and nobody is at work. *)
LEMMA InitInv == Init => Inv
<1> SUFFICES ASSUME Init PROVE Inv
  OBVIOUS
<1> DEFINE row == [status |-> "none", gone |-> FALSE, host |-> NoHost, remote |-> NoLink, slot |-> 0]
<1>0. row \in Row
  BY GreAssumptions DEF Row
<1>1. tun = [t \in Tunnels |-> row]
  BY DEF Init
<1>2. \A t \in Tunnels : tun[t].status = "none" /\ tun[t].slot = 0 /\ tun[t].gone = FALSE
  BY <1>1
<1>3. RowsOK
  BY <1>0, <1>1, <1>2 DEF RowsOK, Bought
<1>4. AgentOK
  BY DEF Init, AgentInit, AgentOK, AgentTypeOK
<1>5. CountOK
  <2>1. Living = {}
    BY <1>2 DEF Living, Exists
  <2> QED BY <2>1, FS_EmptySet DEF Init, CountOK
<1>6. ActOK /\ ChangesOK /\ ChangeOK(refresh) /\ DelOK
  BY Records DEF Init, ActOK, ChangesOK, ChangeOK, DelOK
<1>7. DriftOK
  BY Records DEF Init, DriftOK, TasksOK
<1>8. RestOK
  BY GreAssumptions DEF Init, RestOK
<1> QED BY <1>3, <1>4, <1>5, <1>6, <1>7, <1>8 DEF Inv

(* What a step leaves alone stays in order, if no tunnel is unbought by it. *)
LEMMA Keep ==
  ASSUME Inv, \A t \in Tunnels : Bought(t) => Bought(t)'
  PROVE  /\ UNCHANGED tun => RowsOK'
         /\ UNCHANGED agentVars => AgentOK'
         /\ UNCHANGED <<tun, count>> => CountOK'
         /\ UNCHANGED act => ActOK'
         /\ UNCHANGED drift => DriftOK'
         /\ UNCHANGED edit => ChangesOK'
         /\ UNCHANGED refresh => ChangeOK(refresh)'
         /\ UNCHANGED del => DelOK'
<1>1. UNCHANGED tun => RowsOK'
  BY DEF Inv, RowsOK, Bought
<1>2. UNCHANGED agentVars => AgentOK'
  BY DEF Inv, AgentOK, AgentTypeOK, agentVars
<1>3. UNCHANGED <<tun, count>> => CountOK'
  BY DEF Inv, CountOK, Living, Exists
<1>4. UNCHANGED act => ActOK'
  BY DEF Inv, ActOK
<1>5. UNCHANGED drift => DriftOK'
  BY DEF Inv, DriftOK, TasksOK
<1>6. UNCHANGED edit => ChangesOK'
  BY DEF Inv, ChangesOK, ChangeOK
<1>7. UNCHANGED refresh => ChangeOK(refresh)'
  BY DEF Inv, ChangeOK
<1>8. UNCHANGED del => DelOK'
  BY DEF Inv, DelOK
<1> QED BY <1>1, <1>2, <1>3, <1>4, <1>5, <1>6, <1>7, <1>8

(* A step that leaves the rows alone unbuys nothing. *)
LEMMA SameRows ==
  ASSUME UNCHANGED tun
  PROVE  /\ \A t : Bought(t)' <=> Bought(t)
         /\ \A t : Exists(t)' <=> Exists(t)
BY DEF Bought, Exists

(* A row that is rewritten keeps its /30. *)
LEMMA RowUpdate ==
  ASSUME Inv, NEW t \in Tunnels, Bought(t), NEW row \in Row, tun' = [tun EXCEPT ![t] = row],
         row.status # "none", row.slot = tun[t].slot, row.host \in Hosts, row.remote \in Ips
  PROVE  RowsOK' /\ \A x \in Tunnels : Bought(x) => Bought(x)'
<1>1. tun \in [Tunnels -> Row]
  BY DEF Inv, RowsOK
<1>2. tun'[t] = row /\ \A x \in Tunnels : x # t => tun'[x] = tun[x]
  BY <1>1
<1>3. \A x \in Tunnels : tun'[x].slot = tun[x].slot
  BY <1>2
<1>4. \A x \in Tunnels : Bought(x)' <=> Bought(x)
  BY <1>2 DEF Bought
<1>5. tun' \in [Tunnels -> Row]
  BY <1>1
<1>6. \A x \in Tunnels : Bought(x)' => tun'[x].slot > 0 /\ tun'[x].host \in Hosts /\ tun'[x].remote \in Ips
  BY <1>2, <1>3, <1>4 DEF Inv, RowsOK
<1>7. \A x \in Tunnels : ~Bought(x)' => tun'[x].slot = 0 /\ ~tun'[x].gone
  BY <1>2, <1>4 DEF Inv, RowsOK
<1>8. \A x, y \in Tunnels : x # y /\ tun'[x].slot > 0 => tun'[x].slot # tun'[y].slot
  BY <1>3 DEF Inv, RowsOK
<1> QED BY <1>4, <1>5, <1>6, <1>7, <1>8 DEF RowsOK

(* A row that does not come or go changes no count. *)
LEMMA SameCount ==
  ASSUME Inv, NEW t \in Tunnels, NEW row, tun' = [tun EXCEPT ![t] = row], Bought(t),
         row.status # "none", row.gone = tun[t].gone, count' = count
  PROVE  CountOK'
<1>1. tun'[t] = row /\ \A x \in Tunnels : x # t => tun'[x] = tun[x]
  BY DEF Inv, RowsOK
<1>2. Living' = Living
  BY <1>1 DEF Living, Exists, Bought
<1> QED BY <1>2 DEF Inv, CountOK

(* A row that only changes its status, and stays. *)
LEMMA StatusChange ==
  ASSUME Inv, NEW t \in Tunnels, Bought(t), NEW s \in {"active", "suspended"},
         tun' = [tun EXCEPT ![t].status = s], count' = count
  PROVE  RowsOK' /\ CountOK' /\ \A x \in Tunnels : Bought(x) => Bought(x)'
<1>0. PICK row : row = [status |-> s, gone |-> tun[t].gone, host |-> tun[t].host,
                        remote |-> tun[t].remote, slot |-> tun[t].slot]
  OBVIOUS
<1>1. tun[t] \in Row /\ tun \in [Tunnels -> Row]
  BY DEF Inv, RowsOK
<1>2. /\ row \in Row /\ row.status # "none" /\ row.gone = tun[t].gone /\ row.slot = tun[t].slot
      /\ row.host = tun[t].host /\ row.remote = tun[t].remote
  BY <1>0, <1>1 DEF Row
<1>3. [tun[t] EXCEPT !.status = s] = row
  BY <1>0, <1>1 DEF Row
<1>4. tun' = [tun EXCEPT ![t] = row]
  BY <1>1, <1>3
<1>5. row.host \in Hosts /\ row.remote \in Ips
  BY <1>2 DEF Inv, RowsOK
<1>6. RowsOK' /\ \A x \in Tunnels : Bought(x) => Bought(x)'
  BY <1>2, <1>4, <1>5, RowUpdate
<1>7. CountOK'
  BY <1>2, <1>4, SameCount
<1> QED BY <1>6, <1>7

(* There are finitely many tunnels, so they can be counted. *)
LEMMA FiniteLiving == IsFiniteSet(Living) /\ Cardinality(Living) \in Nat
<1>1. Living \in SUBSET Tunnels /\ IsFiniteSet(Tunnels)
  BY GreAssumptions DEF Living
<1> QED BY <1>1, FS_Subset, FS_CardinalityType

(* A deletion, also one of a row that is already deleted. *)
LEMMA DeletedRow ==
  ASSUME Inv, NEW t \in Tunnels, Bought(t), tun' = Deleted(t), count' = OneLess
  PROVE  RowsOK' /\ CountOK' /\ \A x \in Tunnels : Bought(x) => Bought(x)'
<1>0. PICK row : row = [status |-> "deleted", gone |-> TRUE, host |-> tun[t].host,
                        remote |-> tun[t].remote, slot |-> tun[t].slot]
  OBVIOUS
<1>1. tun[t] \in Row
  BY DEF Inv, RowsOK
<1>2. /\ row \in Row /\ row.status = "deleted" /\ row.gone = TRUE /\ row.slot = tun[t].slot
      /\ row.host = tun[t].host /\ row.remote = tun[t].remote
  BY <1>0, <1>1 DEF Row
<1>3. tun' = [tun EXCEPT ![t] = row]
  BY <1>0 DEF Deleted
<1>4. RowsOK' /\ \A x \in Tunnels : Bought(x) => Bought(x)'
  <2>1. row.host \in Hosts /\ row.remote \in Ips
    BY <1>2 DEF Inv, RowsOK
  <2> QED BY <1>2, <1>3, <2>1, RowUpdate
<1>5. tun'[t] = row /\ \A x \in Tunnels : x # t => tun'[x] = tun[x]
  BY <1>3 DEF Inv, RowsOK
<1>6. Living' = Living \ {t}
  BY <1>2, <1>5 DEF Living, Exists
<1>7. CountOK'
  <2>1. count \in Nat /\ count <= Cardinality(Living)
    BY DEF Inv, CountOK
  <2>2. count' = IF count > 0 THEN count - 1 ELSE 0
    BY DEF OneLess
  <2>3. PICK S : S = Living
    OBVIOUS
  <2>4. IsFiniteSet(S) /\ Cardinality(S) \in Nat
    BY <2>3, FiniteLiving
  <2>5. CASE t \in S
    <3>1. Cardinality(S \ {t}) = Cardinality(S) - 1
      BY <2>4, <2>5, FS_RemoveElement
    <3>2. IsFiniteSet(S \ {t})
      BY <2>4, <2>5, FS_RemoveElement
    <3>3. Cardinality(S \ {t}) \in Nat
      BY <3>2, FS_CardinalityType
    <3> QED BY <1>6, <2>1, <2>2, <2>3, <2>4, <3>1, <3>3 DEF CountOK
  <2>6. CASE t \notin S
    <3>1. S \ {t} = S
      BY <2>6
    <3> QED BY <1>6, <2>1, <2>2, <2>3, <2>4, <3>1 DEF CountOK
  <2> QED BY <2>5, <2>6
<1> QED BY <1>4, <1>7

--------------------------------------------------------------------------------
(* The agent's handlers. *)

(* The agent creates an interface for a tunnel that was bought. *)
LEMMA CreateKeeps ==
  ASSUME Inv, NEW t \in Tunnels, Bought(t), UNCHANGED tun,
         NEW remote \in Ips \union {NoLink}, NEW addrs \in SUBSET Addresses, NEW ok \in BOOLEAN,
         CreateGrePeer(t, remote, addrs, ok)
  PROVE  AgentOK'
<1>1. AgentTypeOK'
  BY DEF Inv, AgentOK, AgentTypeOK, CreateGrePeer, agentVars
<1>2. \A x \in Tunnels : link'[x] = link[x] \/ x = t
  BY DEF Inv, AgentOK, AgentTypeOK, CreateGrePeer, agentVars
<1> QED BY <1>1, <1>2, SameRows DEF Inv, AgentOK

(* What a PATCH may do to the interfaces and routes. *)
LEMMA FieldsKeep ==
  ASSUME AgentTypeOK, NEW t \in Tunnels, NEW remote \in SUBSET Ips, NEW S \in SUBSET Addresses
  PROVE  /\ \A set \in BOOLEAN :
              SetRemote(t, remote, set) =>
                link' \in [Tunnels -> Ips \union {NoLink}] /\ \A x \in Tunnels : x # t => link'[x] = link[x]
         /\ \A added : AddRoutes(t, added) => route' \in [Addresses -> Tunnels \union {NoLink}]
         /\ \A kept : ReplaceRoutes(t, S, kept) => route' \in [Addresses -> Tunnels \union {NoLink}]
<1>1. ASSUME NEW set \in BOOLEAN, SetRemote(t, remote, set)
      PROVE  link' \in [Tunnels -> Ips \union {NoLink}] /\ \A x \in Tunnels : x # t => link'[x] = link[x]
  BY <1>1 DEF SetRemote, AgentTypeOK
<1>2. ASSUME NEW added, AddRoutes(t, added) PROVE route' \in [Addresses -> Tunnels \union {NoLink}]
  BY <1>2 DEF AddRoutes, AgentTypeOK
<1>3. ASSUME NEW kept, ReplaceRoutes(t, S, kept) PROVE route' \in [Addresses -> Tunnels \union {NoLink}]
  BY <1>3 DEF ReplaceRoutes, AgentTypeOK
<1> QED BY <1>1, <1>2, <1>3

(* A PATCH changes the interface that is there, or finds none. *)
LEMMA PatchKeeps ==
  ASSUME Inv, NEW t \in Tunnels, UNCHANGED tun,
         NEW remote \in SUBSET Ips, NEW addrs \in SUBSET SUBSET Addresses, NEW ok \in BOOLEAN,
         PatchGrePeer(t, remote, addrs, ok)
  PROVE  AgentOK'
<1>0. AgentTypeOK
  BY DEF Inv, AgentOK
<1>1. CASE link[t] = NoLink
  <2>1. UNCHANGED agentVars
    BY <1>1 DEF PatchGrePeer
  <2> QED BY <2>1, Keep, SameRows
<1>2. CASE link[t] # NoLink
  <2>1. PICK set \in BOOLEAN :
          /\ SetRemote(t, remote, set)
          /\ UNCHANGED route \/ \E S \in addrs : SetRoutes(t, S, ok)
    BY <1>2 DEF PatchGrePeer
  <2>2. link' \in [Tunnels -> Ips \union {NoLink}] /\ \A x \in Tunnels : x # t => link'[x] = link[x]
    <3>1. {} \in SUBSET Addresses
      OBVIOUS
    <3> QED BY <1>0, <2>1, <3>1, FieldsKeep
  <2>3. route' \in [Addresses -> Tunnels \union {NoLink}]
    <3>1. CASE UNCHANGED route
      BY <3>1, <1>0 DEF AgentTypeOK
    <3>2. ASSUME NEW S \in addrs, SetRoutes(t, S, ok)
          PROVE  route' \in [Addresses -> Tunnels \union {NoLink}]
      BY <3>2, <1>0, FieldsKeep DEF SetRoutes
    <3> QED BY <2>1, <3>1, <3>2
  <2>4. UNCHANGED <<created, removed>>
    BY <1>2 DEF PatchGrePeer
  <2>5. AgentTypeOK'
    BY <1>0, <2>2, <2>3, <2>4 DEF AgentTypeOK
  <2> QED BY <1>2, <2>2, <2>5, SameRows DEF Inv, AgentOK
<1> QED BY <1>1, <1>2

(* So does one that fails on the way. *)
LEMMA StopKeeps ==
  ASSUME Inv, NEW t \in Tunnels, UNCHANGED tun,
         NEW remote \in SUBSET Ips, NEW addrs \in SUBSET SUBSET Addresses, PatchStops(t, remote, addrs)
  PROVE  AgentOK'
<1>0. AgentTypeOK /\ link[t] # NoLink
  BY DEF Inv, AgentOK, PatchStops
<1>1. PICK S \in addrs :
        \/ \E added : AddRoutes(t, added)
        \/ \E kept : ReplaceRoutes(t, S, kept)
  BY DEF PatchStops
<1>2. SetRemote(t, remote, TRUE) /\ UNCHANGED <<created, removed>>
  BY DEF PatchStops
<1>3. link' \in [Tunnels -> Ips \union {NoLink}] /\ \A x \in Tunnels : x # t => link'[x] = link[x]
  BY <1>0, <1>2, FieldsKeep
<1>4. route' \in [Addresses -> Tunnels \union {NoLink}]
  BY <1>0, <1>1, FieldsKeep
<1>5. AgentTypeOK'
  BY <1>0, <1>2, <1>3, <1>4 DEF AgentTypeOK
<1> QED BY <1>0, <1>3, <1>5, SameRows DEF Inv, AgentOK

(* An interface that goes leaves the others as they are. *)
LEMMA LinkDelKeeps ==
  ASSUME Inv, NEW t \in Tunnels, UNCHANGED tun, LinkDel(t),
         created' = created, removed' \subseteq Tunnels
  PROVE  AgentOK'
<1>1. AgentTypeOK'
  BY DEF Inv, AgentOK, AgentTypeOK, LinkDel
<1>2. \A x \in Tunnels : link'[x] = link[x] \/ link'[x] = NoLink
  BY DEF Inv, AgentOK, AgentTypeOK, LinkDel
<1> QED BY <1>1, <1>2, SameRows DEF Inv, AgentOK

--------------------------------------------------------------------------------
(* The steps of users and the API. *)

(* The new row takes a /30 that no row has. *)
LEMMA ProvisionStep ==
  ASSUME Inv, NEW t \in Tunnels, NEW h \in Hosts, NEW named \in BOOLEAN, ProvisionGreTunnel(t, h, named)
  PROVE  Inv'
<1>0. PICK s \in FreeSlots :
        tun' = [tun EXCEPT ![t] = [status |-> "provisioning", gone |-> FALSE, host |-> h,
                                   remote |-> dns[h], slot |-> s]]
  BY DEF ProvisionGreTunnel
<1>1. PICK row : /\ row = [status |-> "provisioning", gone |-> FALSE, host |-> h, remote |-> dns[h], slot |-> s]
                 /\ tun' = [tun EXCEPT ![t] = row]
  BY <1>0
<1>2. s \in 1..Slots /\ \A x \in Tunnels : tun[x].slot # s
  BY DEF FreeSlots
<1>3. /\ row \in Row /\ row.status = "provisioning" /\ row.gone = FALSE /\ row.slot = s
      /\ row.host \in Hosts /\ row.remote \in Ips
  BY <1>1, <1>2, GreAssumptions DEF Row, Inv, RestOK
<1>4. tun'[t] = row /\ \A x \in Tunnels : x # t => tun'[x] = tun[x]
  BY <1>1 DEF Inv, RowsOK
<1>5. ~Bought(t) /\ ~Exists(t) /\ Bought(t)' /\ Exists(t)'
  BY <1>3, <1>4 DEF ProvisionGreTunnel, Bought, Exists
<1>6. \A x \in Tunnels : x # t => (Bought(x)' <=> Bought(x)) /\ (Exists(x)' <=> Exists(x))
  BY <1>4 DEF Bought, Exists
<1>7. RowsOK'
  <2>1. tun' \in [Tunnels -> Row]
    BY <1>1, <1>3 DEF Inv, RowsOK
  <2>2. s > 0
    BY <1>2, GreAssumptions
  <2>3. ASSUME NEW x \in Tunnels
        PROVE  /\ Bought(x)' => tun'[x].slot > 0 /\ tun'[x].host \in Hosts /\ tun'[x].remote \in Ips
               /\ ~Bought(x)' => tun'[x].slot = 0 /\ ~tun'[x].gone
    <3>1. CASE x = t
      BY <3>1, <1>3, <1>4, <1>5, <2>2
    <3>2. CASE x # t
      BY <3>2, <1>4, <1>6 DEF Inv, RowsOK
    <3> QED BY <3>1, <3>2
  <2>4. ASSUME NEW x \in Tunnels, NEW y \in Tunnels, x # y, tun'[x].slot > 0
        PROVE  tun'[x].slot # tun'[y].slot
    <3>1. CASE x = t
      BY <3>1, <2>4, <1>2, <1>3, <1>4
    <3>2. CASE y = t
      BY <3>2, <2>4, <1>2, <1>3, <1>4
    <3>3. CASE x # t /\ y # t
      BY <3>3, <2>4, <1>4 DEF Inv, RowsOK
    <3> QED BY <3>1, <3>2, <3>3
  <2> QED BY <2>1, <2>3, <2>4 DEF RowsOK
<1>8. CountOK'
  <2>1. PICK S : S = Living
    OBVIOUS
  <2>2. Living' = S \union {t} /\ t \notin S
    BY <1>5, <1>6, <2>1 DEF Living
  <2>3. IsFiniteSet(S) /\ Cardinality(S) \in Nat
    BY <2>1, FiniteLiving
  <2>4. Cardinality(S \union {t}) = Cardinality(S) + 1
    BY <2>2, <2>3, FS_AddElement
  <2>5. count \in Nat /\ count <= Cardinality(S) /\ count' = count + 1
    BY <2>1 DEF Inv, CountOK, ProvisionGreTunnel
  <2> QED BY <2>2, <2>3, <2>4, <2>5 DEF CountOK
<1>9. \A x \in Tunnels : Bought(x) => Bought(x)'
  BY <1>5, <1>6
<1>10. UNCHANGED <<agentVars, attached, dns, drift, edit, refresh, push, del, budget>>
  BY DEF ProvisionGreTunnel
<1>11. ActOK'
  <2>1. act \in [Tunnels -> Push] /\ act' = [act EXCEPT ![t].pc = "start"]
    BY DEF Inv, ActOK, ProvisionGreTunnel
  <2>2. act' \in [Tunnels -> Push] /\ \A x \in Tunnels : x # t => act'[x] = act[x]
    BY <2>1 DEF Push
  <2> QED BY <2>2, <1>5, <1>9 DEF Inv, ActOK
<1>12. RestOK'
  BY <1>10 DEF Inv, RestOK
<1> QED BY <1>7, <1>8, <1>9, <1>10, <1>11, <1>12, Keep DEF Inv

(* A tunnel is pushed to the agent and marked active, or is not. *)
LEMMA ApiSteps ==
  ASSUME Inv, NEW t \in Tunnels, ApiStep(t)
  PROVE  Inv'
<1>1. CASE ApiRead(t)
  <2>1. UNCHANGED <<agentVars, tun, attached, count, dns, drift, edit, refresh, push, del, budget>>
    BY <1>1 DEF ApiRead, dbVars
  <2>2. ActOK'
    <3>1. act \in [Tunnels -> Push] /\ act[t].pc = "start" /\ act' = [act EXCEPT ![t] = ReadForActivation(t)]
      BY <1>1 DEF Inv, ActOK, ApiRead
    <3>2. Bought(t)
      BY <3>1 DEF Inv, ActOK
    <3>3. ReadForActivation(t) \in Push
      BY DEF ReadForActivation, Push, On, Inv, RowsOK, Row
    <3> QED BY <3>1, <3>2, <3>3, <2>1, SameRows DEF Inv, ActOK
  <2>3. RestOK'
    BY <2>1 DEF Inv, RestOK
  <2> QED BY <2>1, <2>2, <2>3, SameRows, Keep DEF Inv
<1>2. CASE ApiCall(t)
  <2>1. UNCHANGED <<tun, attached, count, dns, drift, edit, refresh, push, del, budget>>
    BY <1>2 DEF ApiCall, dbVars
  <2>2. act[t] \in Push /\ Bought(t)
    BY <1>2 DEF Inv, ActOK, ApiCall
  <2>3. PICK ok \in BOOLEAN :
          /\ CreateGrePeer(t, act[t].remote, act[t].addrs, ok)
          /\ act' = [act EXCEPT ![t] = IF ok THEN [NoPush EXCEPT !.pc = "mark"] ELSE NoPush]
    BY <1>2 DEF ApiCall
  <2>4. AgentOK'
    <3>1. act[t].remote \in Ips \union {NoLink} /\ act[t].addrs \in SUBSET Addresses
      BY <2>2 DEF Push
    <3> QED BY <2>1, <2>2, <2>3, <3>1, CreateKeeps
  <2>5. ActOK'
    <3>1. [NoPush EXCEPT !.pc = "mark"] \in Push /\ NoPush \in Push
      BY DEF NoPush, Push
    <3> QED BY <2>1, <2>2, <2>3, <3>1, SameRows DEF Inv, ActOK
  <2>6. RestOK'
    BY <2>1 DEF Inv, RestOK
  <2> QED BY <2>1, <2>4, <2>5, <2>6, SameRows, Keep DEF Inv
<1>3. CASE ApiMark(t)
  <2>1. UNCHANGED <<agentVars, attached, count, dns, drift, edit, refresh, push, del, budget>>
    BY <1>3 DEF ApiMark, MarkActive
  <2>2. Bought(t) /\ tun' = [tun EXCEPT ![t].status = "active"] /\ act' = [act EXCEPT ![t] = NoPush]
    BY <1>3 DEF ApiMark, MarkActive, Inv, ActOK
  <2>3. RowsOK' /\ CountOK' /\ \A x \in Tunnels : Bought(x) => Bought(x)'
    BY <2>1, <2>2, StatusChange
  <2>4. ActOK'
    BY <2>2, <2>3, Records DEF Inv, ActOK
  <2>5. RestOK'
    BY <2>1 DEF Inv, RestOK
  <2> QED BY <2>1, <2>3, <2>4, <2>5, Keep DEF Inv
<1> QED BY <1>1, <1>2, <1>3 DEF ApiStep

(* A deletion, from the request to the call of the agent. *)
LEMMA DeletionSteps ==
  ASSUME Inv, NEW d \in Deleters
  PROVE  /\ \A t \in Tunnels : StartDelete(d, t) => Inv'
         /\ DeleteGreTunnel(d) \/ DeleteCall(d) => Inv'
<1>0. del \in [Deleters -> Deletion] /\ del[d] \in Deletion
  BY DEF Inv, DelOK
<1>1. ASSUME NEW t \in Tunnels, StartDelete(d, t) PROVE Inv'
  <2>1. UNCHANGED <<agentVars, tun, attached, count, dns, act, drift, edit, refresh, push>>
    BY <1>1 DEF StartDelete, dbVars
  <2>2. Bought(t) /\ del' = [del EXCEPT ![d] = [pc |-> "tx", t |-> t]]
    BY <1>1 DEF StartDelete, Exists, Bought
  <2>3. DelOK'
    <3>1. [pc |-> "tx", t |-> t] \in Deletion
      BY DEF Deletion
    <3> QED BY <1>0, <2>1, <2>2, <3>1, SameRows DEF Inv, DelOK
  <2>4. RestOK'
    BY <1>1, <2>1, GreAssumptions DEF Inv, RestOK, StartDelete, Event
  <2> QED BY <2>1, <2>3, <2>4, SameRows, Keep DEF Inv
<1>2. ASSUME DeleteGreTunnel(d) PROVE Inv'
  <2>1. UNCHANGED <<agentVars, dns, act, drift, edit, refresh, push, budget>>
    BY <1>2 DEF DeleteGreTunnel
  <2>2. PICK t : t = del[d].t
    OBVIOUS
  <2>3. t \in Tunnels /\ Bought(t)
    BY <1>2, <2>2 DEF DeleteGreTunnel, Inv, DelOK
  <2>4. tun' = Deleted(t) /\ count' = OneLess /\ attached' = Without(t) /\ del' = [del EXCEPT ![d].pc = "call"]
    BY <1>2, <2>2 DEF DeleteGreTunnel
  <2>5. RowsOK' /\ CountOK' /\ \A x \in Tunnels : Bought(x) => Bought(x)'
    BY <2>3, <2>4, DeletedRow
  <2>6. DelOK'
    <3>1. /\ del' \in [Deleters -> Deletion] /\ del'[d].t = t
          /\ \A x \in Deleters : x # d => del'[x] = del[x]
      BY <1>0, <2>2, <2>4 DEF Deletion
    <3> QED BY <3>1, <2>3, <2>5 DEF Inv, DelOK
  <2>7. RestOK'
    BY <2>1, <2>4 DEF Inv, RestOK, Without
  <2> QED BY <2>1, <2>5, <2>6, <2>7, Keep DEF Inv
<1>3. ASSUME DeleteCall(d) PROVE Inv'
  <2>1. UNCHANGED <<tun, attached, count, dns, act, drift, edit, refresh, push, budget>>
    BY <1>3 DEF DeleteCall, dbVars
  <2>2. del[d].t \in Tunnels
    BY <1>3 DEF DeleteCall, Inv, DelOK
  <2>3. AgentOK'
    <3>1. DeleteGrePeerOnce(del[d].t)
      BY <1>3 DEF DeleteCall
    <3>2. CASE del[d].t \in removed
      BY <3>1, <3>2, <2>1, SameRows, Keep DEF DeleteGrePeerOnce
    <3>3. CASE del[d].t \notin removed
      <4>1. LinkDel(del[d].t) /\ created' = created /\ removed' \subseteq Tunnels
        BY <3>1, <3>3, <2>2 DEF DeleteGrePeerOnce, Inv, AgentOK, AgentTypeOK
      <4> QED BY <4>1, <2>1, <2>2, LinkDelKeeps
    <3> QED BY <3>2, <3>3
  <2>4. DelOK'
    BY <1>0, <1>3, <2>1, SameRows, Records DEF DeleteCall, Inv, DelOK
  <2>5. RestOK'
    BY <2>1 DEF Inv, RestOK
  <2> QED BY <2>1, <2>3, <2>4, <2>5, SameRows, Keep DEF Inv
<1> QED BY <1>1, <1>2, <1>3

(* What billing does to a row. *)
LEMMA BillingSteps ==
  ASSUME Inv, NEW t \in Tunnels, Charge(t) \/ ForceCancelTunnel(t)
  PROVE  Inv'
<1>1. UNCHANGED <<agentVars, dns, act, drift, edit, refresh, push, del>>
  BY DEF Charge, ForceCancelTunnel
<1>2. RowsOK' /\ CountOK' /\ \A x \in Tunnels : Bought(x) => Bought(x)'
  <2>1. CASE Charge(t)
    <3>1. PICK s \in {"active", "suspended"} : tun' = [tun EXCEPT ![t].status = s] /\ count' = count
      BY <2>1 DEF Charge
    <3>2. Bought(t)
      BY <2>1 DEF Charge, Bought
    <3> QED BY <3>1, <3>2, StatusChange
  <2>2. CASE ForceCancelTunnel(t)
    BY <2>2, DeletedRow DEF ForceCancelTunnel, Bought
  <2> QED BY <2>1, <2>2
<1>3. RestOK'
  BY <1>1, GreAssumptions DEF Inv, RestOK, Charge, ForceCancelTunnel, Event, Without
<1> QED BY <1>1, <1>2, <1>3, Keep DEF Inv

(* A move of an address and the calls that follow it. *)
LEMMA MoveSteps ==
  ASSUME Inv
  PROVE  /\ \A a \in Addresses, to \in Tunnels \union {NoLink} : MoveIp(a, to) => Inv'
         /\ PushSync => Inv'
<1> DEFINE Update == [t : Tunnels, addrs : SUBSET Addresses]
<1>1. ASSUME NEW a \in Addresses, NEW to \in Tunnels \union {NoLink}, MoveIp(a, to) PROVE Inv'
  <2>1. UNCHANGED <<agentVars, tun, count, dns, act, drift, edit, refresh, del>>
    BY <1>1 DEF MoveIp
  <2>2. ASSUME NEW t, NEW S \in SUBSET Addresses PROVE Sync(t, S) \in Seq(Update)
    <3>1. CASE t \in Tunnels /\ Exists(t)
      <4>1. PICK u : u = [t |-> t, addrs |-> S]
        OBVIOUS
      <4>2. u \in Update
        BY <3>1, <4>1
      <4>3. Sync(t, S) = <<u>>
        BY <3>1, <4>1 DEF Sync
      <4> HIDE DEF Update
      <4> QED BY <4>2, <4>3
    <3>2. CASE ~(t \in Tunnels /\ Exists(t))
      <4>1. Sync(t, S) = << >>
        BY <3>2 DEF Sync
      <4> HIDE DEF Update
      <4> QED BY <4>1
    <3> QED BY <3>1, <3>2
  <2>3. PICK from : from = attached[a]
    OBVIOUS
  <2>4. push' = Sync(from, On(from) \ {a}) \o Sync(to, On(to) \union {a})
    BY <1>1, <2>3 DEF MoveIp
  <2>5. push' \in Seq(Update)
    <3>1. On(from) \ {a} \in SUBSET Addresses /\ On(to) \union {a} \in SUBSET Addresses
      BY DEF On
    <3>2. Sync(from, On(from) \ {a}) \in Seq(Update) /\ Sync(to, On(to) \union {a}) \in Seq(Update)
      BY <3>1, <2>2
    <3>3. PICK p, q : p = Sync(from, On(from) \ {a}) /\ q = Sync(to, On(to) \union {a})
      OBVIOUS
    <3>4. push' = p \o q /\ p \in Seq(Update) /\ q \in Seq(Update)
      BY <2>4, <3>2, <3>3
    <3> HIDE DEF Update
    <3> QED BY <3>4
  <2>6. RestOK'
    <3>1. attached' \in [Addresses -> Tunnels \union {NoLink}]
      BY <1>1 DEF Inv, RestOK, MoveIp
    <3>2. budget' \in 0..Budget
      BY <1>1, GreAssumptions DEF Inv, RestOK, MoveIp, Event
    <3> QED BY <3>1, <3>2, <2>1, <2>5 DEF Inv, RestOK
  <2> QED BY <2>1, <2>6, SameRows, Keep DEF Inv
<1>2. ASSUME PushSync PROVE Inv'
  <2>1. UNCHANGED <<tun, attached, count, dns, act, drift, edit, refresh, del, budget>>
    BY <1>2 DEF PushSync, dbVars
  <2>2. PICK ok \in BOOLEAN :
          PatchGrePeer(Head(push).t, {}, {Head(push).addrs}, ok) /\ push' = IF ok THEN Tail(push) ELSE << >>
    BY <1>2 DEF PushSync
  <2>3. push \in Seq(Update) /\ push # << >>
    BY <1>2 DEF PushSync, Inv, RestOK
  <2>4. Head(push) \in Update /\ Tail(push) \in Seq(Update)
    <3> HIDE DEF Update
    <3> QED BY <2>3
  <2>5. AgentOK'
    <3>1. Head(push).t \in Tunnels /\ {Head(push).addrs} \in SUBSET SUBSET Addresses /\ {} \in SUBSET Ips
      BY <2>4
    <3> QED BY <3>1, <2>1, <2>2, PatchKeeps
  <2>6. RestOK'
    BY <2>1, <2>2, <2>4 DEF Inv, RestOK
  <2> QED BY <2>1, <2>5, <2>6, SameRows, Keep DEF Inv
<1> QED BY <1>1, <1>2

--------------------------------------------------------------------------------
(* Changes of an endpoint. *)

(* What a change looks like after a step that unbuys nothing. *)
LEMMA AfterOK ==
  ASSUME Inv, NEW c, ChangeOK(c), NEW ok \in BOOLEAN, NEW x, x = After(c, ok),
         \A t \in Tunnels : Bought(t) => Bought(t)'
  PROVE  ChangeOK(x)'
<1>1. c \in Change /\ dns \in [Hosts -> Ips]
  BY DEF ChangeOK, Inv, RestOK
<1>2. CASE x = NoChange
  BY <1>2, Records DEF ChangeOK
<1>3. CASE x # NoChange
  <2>1. c.pc # "idle" /\ c.t \in Tunnels /\ c.host \in Hosts /\ c.remote \in Ips /\ Bought(c.t)
    <3>1. c.pc # "idle"
      BY <1>3 DEF After
    <3> QED BY <3>1 DEF ChangeOK
  <2>2. x \in Change /\ x.t = c.t /\ x.host = c.host /\ x.remote \in Ips
    <3>1. CASE c.pc = "dns" /\ dns[c.host] # c.remote
      <4>1. x = [pc |-> "patch", t |-> c.t, sets |-> c.sets, host |-> c.host, remote |-> dns[c.host]]
        BY <3>1 DEF After
      <4> QED BY <4>1, <1>1, <2>1 DEF Change
    <3>2. CASE x = [c EXCEPT !.pc = "write"]
      BY <3>2, <1>1, <2>1 DEF Change
    <3> QED BY <1>3, <3>1, <3>2 DEF After
  <2> QED BY <2>1, <2>2 DEF ChangeOK
<1> QED BY <1>2, <1>3

(* Each step of a change of endpoint, whoever makes it. *)
LEMMA ChangeStepKeeps ==
  ASSUME Inv, NEW c, ChangeOK(c), NEW ok \in BOOLEAN, ChangeStep(c, ok), count' = count
  PROVE  RowsOK' /\ CountOK' /\ AgentOK' /\ \A x \in Tunnels : Bought(x) => Bought(x)'
<1>0. /\ c.pc # "idle" /\ c.t \in Tunnels /\ c.host \in Hosts /\ c.remote \in Ips
      /\ Bought(c.t) /\ c \in Change
  BY DEF ChangeStep, ChangeOK
<1>1. CASE UNCHANGED <<agentVars, tun>>
  BY <1>1, SameRows, Keep
<1>2. CASE PatchGrePeer(c.t, {c.remote}, {}, ok) /\ UNCHANGED tun
  <2>1. {c.remote} \in SUBSET Ips /\ {} \in SUBSET SUBSET Addresses
    BY <1>0
  <2>2. AgentOK'
    BY <1>0, <1>2, <2>1, PatchKeeps
  <2> QED BY <1>2, <2>2, SameRows, Keep
<1>3. CASE WriteEndpoint(c) /\ UNCHANGED agentVars
  <2>0. PICK t : t = c.t
    OBVIOUS
  <2>1. tun[t] \in Row /\ c.sets \in BOOLEAN /\ t \in Tunnels /\ Bought(t)
    BY <1>0, <2>0 DEF Inv, RowsOK, Change
  <2>2. PICK h : h = IF c.sets THEN c.host ELSE tun[t].host
    OBVIOUS
  <2>3. h \in Hosts
    BY <1>0, <2>1, <2>2 DEF Inv, RowsOK
  <2>4. PICK row : row = [status |-> tun[t].status, gone |-> tun[t].gone, host |-> h,
                          remote |-> c.remote, slot |-> tun[t].slot]
    OBVIOUS
  <2>5. /\ row \in Row /\ row.status = tun[t].status /\ row.gone = tun[t].gone /\ row.slot = tun[t].slot
        /\ row.host \in Hosts /\ row.remote \in Ips
    BY <1>0, <2>1, <2>3, <2>4 DEF Row
  <2>6. tun' = [tun EXCEPT ![t] = row]
    BY <1>3, <2>0, <2>2, <2>4 DEF WriteEndpoint
  <2>7. row.status # "none"
    BY <2>1, <2>5 DEF Bought
  <2>8. RowsOK' /\ \A x \in Tunnels : Bought(x) => Bought(x)'
    BY <2>1, <2>5, <2>6, <2>7, RowUpdate
  <2>9. CountOK'
    BY <2>1, <2>5, <2>6, <2>7, SameCount
  <2> QED BY <1>3, <2>8, <2>9, Keep
<1> QED BY <1>1, <1>2, <1>3 DEF ChangeStep

(* A change that begins. *)
LEMMA BeginOK ==
  ASSUME Inv, NEW t \in Tunnels, Bought(t)
  PROVE  /\ ChangeOK(Resolving(t)) /\ Resolving(t) \in Change
         /\ \A h \in Hosts : ChangeOK(Updating(t, h)) /\ Updating(t, h) \in Change
<1>1. tun[t] \in Row /\ tun[t].host \in Hosts /\ tun[t].remote \in Ips
  BY DEF Inv, RowsOK
<1> QED BY <1>1 DEF ChangeOK, Resolving, Updating, Change

(* The users who change or re-resolve an endpoint. *)
LEMMA EditSteps ==
  ASSUME Inv, NEW e \in Editors
  PROVE  /\ \A t \in Tunnels, h \in Hosts : UpdateGreEndpoint(e, t, h) => Inv'
         /\ \A t \in Tunnels : ResolveEndpoint(e, t) => Inv'
         /\ EditStep(e) => Inv'
<1>0. edit \in [Editors -> Change] /\ \A x \in Editors : ChangeOK(edit[x])
  BY DEF Inv, ChangesOK
<1>1. ASSUME NEW t \in Tunnels, NEW c, ChangeOK(c), c \in Change, Event, edit' = [edit EXCEPT ![e] = c],
             UNCHANGED <<agentVars, dbVars, dns, act, drift, refresh, push, del>>
      PROVE  Inv'
  <2>1. UNCHANGED <<tun, attached, count>>
    BY <1>1 DEF dbVars
  <2>2. \A x : ChangeOK(x) => ChangeOK(x)'
    BY <2>1, SameRows DEF ChangeOK
  <2>3. ChangesOK'
    BY <1>0, <1>1, <2>2 DEF ChangesOK
  <2>4. RestOK'
    BY <1>1, <2>1, GreAssumptions DEF Inv, RestOK, Event
  <2> QED BY <1>1, <2>1, <2>3, <2>4, SameRows, Keep DEF Inv
<1>2. ASSUME NEW t \in Tunnels, NEW h \in Hosts, UpdateGreEndpoint(e, t, h) PROVE Inv'
  <2>1. Bought(t)
    BY <1>2 DEF UpdateGreEndpoint, Exists, Bought
  <2> QED BY <1>1, <1>2, <2>1, BeginOK DEF UpdateGreEndpoint
<1>3. ASSUME NEW t \in Tunnels, ResolveEndpoint(e, t) PROVE Inv'
  <2>1. Bought(t)
    BY <1>3 DEF ResolveEndpoint, Exists, Bought
  <2> QED BY <1>1, <1>3, <2>1, BeginOK DEF ResolveEndpoint
<1>4. ASSUME EditStep(e) PROVE Inv'
  <2>1. UNCHANGED <<attached, count, dns, act, drift, refresh, push, del, budget>>
    BY <1>4 DEF EditStep
  <2>2. PICK ok \in BOOLEAN : ChangeStep(edit[e], ok) /\ edit' = [edit EXCEPT ![e] = After(edit[e], ok)]
    BY <1>4 DEF EditStep
  <2>3. RowsOK' /\ CountOK' /\ AgentOK' /\ \A x \in Tunnels : Bought(x) => Bought(x)'
    BY <1>0, <2>1, <2>2, ChangeStepKeeps
  <2>4. ChangesOK'
    <3>1. PICK x : x = After(edit[e], ok)
      OBVIOUS
    <3>2. ChangeOK(x)'
      BY <1>0, <2>3, <3>1, AfterOK
    <3>3. \A y : ChangeOK(y) => ChangeOK(y)'
      BY <2>3 DEF ChangeOK
    <3>4. edit' = [edit EXCEPT ![e] = x] /\ x \in Change
      BY <2>2, <3>1, <3>2 DEF ChangeOK
    <3> QED BY <1>0, <3>2, <3>3, <3>4 DEF ChangesOK
  <2>5. RestOK'
    BY <2>1 DEF Inv, RestOK
  <2> QED BY <2>1, <2>3, <2>4, <2>5, Keep DEF Inv
<1> QED BY <1>2, <1>3, <1>4

(* The timer that re-resolves the stale endpoints. *)
LEMMA RefreshSteps ==
  ASSUME Inv
  PROVE  /\ \A t \in Tunnels : RefreshStale(t) => Inv'
         /\ RefreshStep => Inv'
<1>1. ASSUME NEW t \in Tunnels, RefreshStale(t) PROVE Inv'
  <2>1. UNCHANGED <<agentVars, tun, attached, count, dns, act, drift, edit, push, del, budget>>
    BY <1>1 DEF RefreshStale, dbVars
  <2>2. Bought(t)
    BY <1>1 DEF RefreshStale, Active, Bought
  <2>3. PICK c : c = Resolving(t)
    OBVIOUS
  <2>4. ChangeOK(c) /\ refresh' = c
    BY <1>1, <2>2, <2>3, BeginOK DEF RefreshStale
  <2>5. ChangeOK(refresh)'
    BY <2>1, <2>4, SameRows DEF ChangeOK
  <2>6. RestOK'
    BY <2>1 DEF Inv, RestOK
  <2> QED BY <2>1, <2>5, <2>6, SameRows, Keep DEF Inv
<1>2. ASSUME RefreshStep PROVE Inv'
  <2>1. UNCHANGED <<attached, count, dns, act, drift, edit, push, del, budget>>
    BY <1>2 DEF RefreshStep
  <2>2. PICK ok \in BOOLEAN : ChangeStep(refresh, ok) /\ refresh' = After(refresh, ok)
    BY <1>2 DEF RefreshStep
  <2>3. ChangeOK(refresh)
    BY DEF Inv
  <2>4. RowsOK' /\ CountOK' /\ AgentOK' /\ \A x \in Tunnels : Bought(x) => Bought(x)'
    BY <2>1, <2>2, <2>3, ChangeStepKeeps
  <2>5. ChangeOK(refresh)'
    <3>1. PICK x : x = After(refresh, ok)
      OBVIOUS
    <3>2. ChangeOK(x)'
      BY <2>3, <2>4, <3>1, AfterOK
    <3> QED BY <2>2, <3>1, <3>2 DEF ChangeOK
  <2>6. RestOK'
    BY <2>1 DEF Inv, RestOK
  <2> QED BY <2>1, <2>4, <2>5, <2>6, Keep DEF Inv
<1> QED BY <1>1, <1>2

--------------------------------------------------------------------------------
(* Drift detection. *)

(* What a run of drift detection still has to do is about tunnels it has seen. *)
LEMMA PassOK ==
  ASSUME NEW tasks \in [Tunnels -> Task],
         \A t \in Tunnels : tasks[t].do \in {"activate", "call", "mark"} => Bought(t)',
         drift' = Pass(tasks)
  PROVE  DriftOK'
<1>1. CASE drift' = NoPass
  BY <1>1, Records DEF DriftOK, TasksOK
<1>2. CASE drift' = [pc |-> "work", seen |-> NoPass.seen, tasks |-> tasks]
  <2>1. NoPass.seen \in [Tunnels -> Peers]
    BY DEF NoPass, Peers
  <2> QED BY <1>2, <2>1 DEF DriftOK, TasksOK
<1> QED BY <1>1, <1>2 DEF Pass

(* One task of a pass becomes another. *)
LEMMA BecomesOK ==
  ASSUME Inv, NEW t \in Tunnels, NEW task \in Task, Becomes(t, task),
         task.do \in {"activate", "call", "mark"} => Bought(t),
         \A x \in Tunnels : Bought(x) => Bought(x)'
  PROVE  DriftOK'
<1>1. PICK tasks : tasks = [drift.tasks EXCEPT ![t] = task]
  OBVIOUS
<1>2. drift.tasks \in [Tunnels -> Task] /\ TasksOK(drift.tasks)
  BY DEF Inv, DriftOK, TasksOK
<1>3. tasks \in [Tunnels -> Task]
  BY <1>1, <1>2
<1>4. \A x \in Tunnels : tasks[x].do \in {"activate", "call", "mark"} => Bought(x)'
  BY <1>1, <1>2 DEF TasksOK
<1>5. drift' = Pass(tasks)
  BY <1>1 DEF Becomes
<1> QED BY <1>3, <1>4, <1>5, PassOK

(* Drift detection lists the interfaces, then reads the rows. *)
LEMMA DriftReads ==
  ASSUME Inv, DriftList \/ DriftRows
  PROVE  Inv'
<1>1. UNCHANGED <<agentVars, tun, attached, count, dns, act, edit, refresh, push, del, budget>>
  BY DEF DriftList, DriftRows, dbVars
<1>2. ASSUME DriftList PROVE DriftOK'
  <2>1. drift' = [pc |-> "listed", seen |-> [t \in Tunnels |-> Peer(t)], tasks |-> drift.tasks]
    BY <1>2 DEF DriftList
  <2>2. [t \in Tunnels |-> Peer(t)] \in [Tunnels -> Peers]
    BY DEF Inv, AgentOK, AgentTypeOK, Peer, Peers, RoutesOn
  <2>3. drift.tasks \in [Tunnels -> Task] /\ TasksOK(drift.tasks)
    BY DEF Inv, DriftOK, TasksOK
  <2> QED BY <1>1, <2>1, <2>2, <2>3, SameRows DEF DriftOK, TasksOK
<1>3. ASSUME DriftRows PROVE DriftOK'
  <2>1. PICK tasks : tasks = [t \in Tunnels |-> TaskFor(t, drift.seen[t])]
    OBVIOUS
  <2>2. drift' = Pass(tasks)
    BY <1>3, <2>1 DEF DriftRows
  <2>3. ASSUME NEW t \in Tunnels
        PROVE  tasks[t] \in Task /\ (tasks[t].do \in {"activate", "call", "mark"} => Bought(t))
    <3>1. PICK have : have = drift.seen[t]
      OBVIOUS
    <3>2. tasks[t] = TaskFor(t, have)
      BY <2>1, <3>1
    <3>3. Active(t) => Bought(t) /\ tun[t].remote \in Ips
      BY DEF Active, Bought, Inv, RowsOK
    <3>4. NoTask \in Task /\ NoTask.do = "nothing"
      BY Records
    <3>5. CASE Active(t) /\ have.remote = NoLink
      BY <3>2, <3>3, <3>4, <3>5 DEF TaskFor, Task
    <3>6. CASE Active(t) /\ have.remote # NoLink /\ have # [remote |-> tun[t].remote, addrs |-> On(t)]
      <4>1. tasks[t] = [do |-> "patch", remote |-> {tun[t].remote} \ {have.remote},
                        addrs |-> {On(t)} \ {have.addrs}]
        BY <3>2, <3>6 DEF TaskFor
      <4>2. On(t) \in SUBSET Addresses
        BY DEF On
      <4> QED BY <4>1, <4>2, <3>3, <3>6 DEF Task
    <3>7. CASE ~Active(t) /\ have.remote # NoLink
      <4>1. tasks[t] = [NoTask EXCEPT !.do = "delete"]
        BY <3>2, <3>7 DEF TaskFor
      <4> QED BY <4>1 DEF NoTask, Task
    <3>8. CASE /\ ~(Active(t) /\ have.remote = NoLink)
               /\ ~(Active(t) /\ have.remote # NoLink /\ have # [remote |-> tun[t].remote, addrs |-> On(t)])
               /\ ~(~Active(t) /\ have.remote # NoLink)
      <4>1. tasks[t] = NoTask
        BY <3>2, <3>8 DEF TaskFor
      <4> QED BY <4>1, <3>4
    <3> QED BY <3>5, <3>6, <3>7, <3>8
  <2>4. tasks \in [Tunnels -> Task]
    BY <2>1, <2>3
  <2> QED BY <1>1, <2>2, <2>3, <2>4, SameRows, PassOK
<1>4. DriftOK'
  BY <1>2, <1>3
<1>5. RestOK'
  BY <1>1 DEF Inv, RestOK
<1> QED BY <1>1, <1>4, <1>5, SameRows, Keep DEF Inv

(* Drift detection repairs one tunnel after another. *)
LEMMA DriftRepairs ==
  ASSUME Inv, NEW t \in Tunnels,
         DriftPatch(t) \/ DriftRead(t) \/ DriftCall(t) \/ DriftMark(t) \/ DriftDelete(t)
  PROVE  Inv'
<1>0. /\ drift.tasks[t] \in Task
      /\ drift.tasks[t].remote \in SUBSET Ips /\ drift.tasks[t].addrs \in SUBSET SUBSET Addresses
      /\ drift.tasks[t].do \in {"activate", "call", "mark"} => Bought(t)
  BY DEF Inv, DriftOK, TasksOK, Task
<1>1. NoTask \in Task /\ NoTask.do = "nothing"
  BY Records
<1>2. RestOK'
  BY DEF DriftPatch, DriftRead, DriftCall, DriftMark, DriftDelete, MarkActive, Inv, RestOK, dbVars
<1>3. UNCHANGED <<act, edit, refresh, del>>
  BY DEF DriftPatch, DriftRead, DriftCall, DriftMark, DriftDelete
<1>4. CASE DriftPatch(t)
  <2>1. UNCHANGED <<tun, count>> /\ Becomes(t, NoTask)
    BY <1>4 DEF DriftPatch, dbVars
  <2>2. PICK ok \in BOOLEAN : PatchGrePeer(t, drift.tasks[t].remote, drift.tasks[t].addrs, ok)
    BY <1>4 DEF DriftPatch
  <2>3. AgentOK'
    BY <1>0, <2>1, <2>2, PatchKeeps
  <2>4. DriftOK'
    BY <1>1, <2>1, SameRows, BecomesOK
  <2> QED BY <1>2, <1>3, <2>1, <2>3, <2>4, SameRows, Keep DEF Inv
<1>5. CASE DriftRead(t)
  <2>1. PICK task : task = [do |-> "call", remote |-> {tun[t].remote}, addrs |-> {On(t)}]
    OBVIOUS
  <2>2. UNCHANGED <<agentVars, tun, count>> /\ Becomes(t, task)
    BY <1>5, <2>1 DEF DriftRead, dbVars
  <2>3. Bought(t) /\ tun[t].remote \in Ips
    BY <1>0, <1>5 DEF DriftRead, Inv, RowsOK
  <2>4. task \in Task
    BY <2>1, <2>3 DEF Task, On
  <2>5. DriftOK'
    BY <2>2, <2>3, <2>4, SameRows, BecomesOK
  <2> QED BY <1>2, <1>3, <2>2, <2>5, SameRows, Keep DEF Inv
<1>6. CASE DriftCall(t)
  <2>1. UNCHANGED <<tun, count>> /\ Bought(t)
    BY <1>0, <1>6 DEF DriftCall, dbVars
  <2>2. PICK ok \in BOOLEAN, r \in drift.tasks[t].remote, S \in drift.tasks[t].addrs :
          /\ CreateGrePeer(t, r, S, ok)
          /\ Becomes(t, IF ok THEN [NoTask EXCEPT !.do = "mark"] ELSE NoTask)
    BY <1>6 DEF DriftCall
  <2>3. AgentOK'
    <3>1. r \in Ips \union {NoLink} /\ S \in SUBSET Addresses
      BY <1>0
    <3> QED BY <2>1, <2>2, <3>1, CreateKeeps
  <2>4. PICK task : task = IF ok THEN [NoTask EXCEPT !.do = "mark"] ELSE NoTask
    OBVIOUS
  <2>5. task \in Task
    BY <2>4 DEF NoTask, Task
  <2>6. DriftOK'
    BY <2>1, <2>2, <2>4, <2>5, SameRows, BecomesOK
  <2> QED BY <1>2, <1>3, <2>1, <2>3, <2>6, SameRows, Keep DEF Inv
<1>7. CASE DriftMark(t)
  <2>1. UNCHANGED <<agentVars, count>> /\ tun' = [tun EXCEPT ![t].status = "active"] /\ Becomes(t, NoTask)
    BY <1>7 DEF DriftMark, MarkActive
  <2>2. RowsOK' /\ CountOK' /\ \A x \in Tunnels : Bought(x) => Bought(x)'
    <3>1. Bought(t)
      BY <1>0, <1>7 DEF DriftMark
    <3> QED BY <2>1, <3>1, StatusChange
  <2>3. DriftOK'
    BY <1>1, <2>1, <2>2, BecomesOK
  <2> QED BY <1>2, <1>3, <2>1, <2>2, <2>3, Keep DEF Inv
<1>8. CASE DriftDelete(t)
  <2>1. UNCHANGED <<tun, count>> /\ Becomes(t, NoTask) /\ DeleteGrePeer(t)
    BY <1>8 DEF DriftDelete, dbVars
  <2>2. AgentOK'
    <3>1. LinkDel(t) /\ created' = created /\ removed' \subseteq Tunnels
      BY <2>1 DEF DeleteGrePeer, Inv, AgentOK, AgentTypeOK
    <3> QED BY <2>1, <3>1, LinkDelKeeps
  <2>3. DriftOK'
    BY <1>1, <2>1, SameRows, BecomesOK
  <2> QED BY <1>2, <1>3, <2>1, <2>2, <2>3, SameRows, Keep DEF Inv
<1> QED BY <1>4, <1>5, <1>6, <1>7, <1>8

--------------------------------------------------------------------------------
(* Failures. *)

(* DNS, reboots, crashes and lost work. *)
LEMMA FailureSteps ==
  ASSUME Inv, Environment
  PROVE  Inv'
<1>1. CASE \E h \in Hosts, i \in Ips : DnsMoves(h, i)
  <2>1. UNCHANGED <<agentVars, tun, attached, count, act, drift, edit, refresh, push, del>>
    BY <1>1 DEF DnsMoves, dbVars
  <2>2. RestOK'
    BY <1>1, <2>1, GreAssumptions DEF DnsMoves, Event, Inv, RestOK
  <2> QED BY <2>1, <2>2, SameRows, Keep DEF Inv
<1>2. CASE ApiFails
  <2>1. UNCHANGED <<agentVars, tun, attached, count, dns, drift, refresh>> /\ Event
    BY <1>2 DEF ApiFails, dbVars
  <2>2. budget' \in 0..Budget
    BY <2>1, GreAssumptions DEF Event, Inv, RestOK
  <2>3. CASE \E t \in Tunnels : ApiLosesPush(t)
    <3>1. UNCHANGED <<edit, push, del>>
      BY <2>3 DEF ApiLosesPush
    <3>2. ActOK'
      BY <2>1, <2>3, SameRows, Records DEF ApiLosesPush, Inv, ActOK
    <3>3. RestOK'
      BY <2>1, <2>2, <3>1 DEF Inv, RestOK
    <3> QED BY <2>1, <3>1, <3>2, <3>3, SameRows, Keep DEF Inv
  <2>4. CASE \E e \in Editors : ApiLosesChange(e)
    <3>1. UNCHANGED <<act, push, del>>
      BY <2>4 DEF ApiLosesChange
    <3>2. ChangesOK'
      <4>1. PICK e \in Editors : edit' = [edit EXCEPT ![e] = NoChange]
        BY <2>4 DEF ApiLosesChange
      <4>2. \A x : ChangeOK(x) => ChangeOK(x)'
        BY <2>1, SameRows DEF ChangeOK
      <4>3. ChangeOK(NoChange) /\ NoChange \in Change
        BY Records DEF ChangeOK
      <4> QED BY <4>1, <4>2, <4>3 DEF Inv, ChangesOK
    <3>3. RestOK'
      BY <2>1, <2>2, <3>1 DEF Inv, RestOK
    <3> QED BY <2>1, <3>1, <3>2, <3>3, SameRows, Keep DEF Inv
  <2>5. CASE \E d \in Deleters : ApiLosesDeletion(d)
    <3>1. UNCHANGED <<act, edit, push>>
      BY <2>5 DEF ApiLosesDeletion
    <3>2. DelOK'
      BY <2>1, <2>5, SameRows, Records DEF ApiLosesDeletion, Inv, DelOK
    <3>3. RestOK'
      BY <2>1, <2>2, <3>1 DEF Inv, RestOK
    <3> QED BY <2>1, <3>1, <3>2, <3>3, SameRows, Keep DEF Inv
  <2>6. CASE ApiLosesSync
    <3>1. UNCHANGED <<act, edit, del>> /\ push' = << >>
      BY <2>6 DEF ApiLosesSync
    <3>2. RestOK'
      BY <2>1, <2>2, <3>1 DEF Inv, RestOK
    <3> QED BY <2>1, <3>1, <3>2, SameRows, Keep DEF Inv
  <2> QED BY <1>2, <2>3, <2>4, <2>5, <2>6 DEF ApiFails
<1>3. CASE WorkerFails
  <2>1. UNCHANGED <<agentVars, tun, attached, count, dns, act, edit, push, del>>
    BY <1>3 DEF WorkerFails, dbVars
  <2>2. DriftOK' /\ ChangeOK(refresh)'
    BY <1>3, Records DEF WorkerFails, DriftOK, TasksOK, ChangeOK
  <2>3. RestOK'
    BY <1>3, <2>1, GreAssumptions DEF WorkerFails, Event, Inv, RestOK
  <2> QED BY <2>1, <2>2, <2>3, SameRows, Keep DEF Inv
<1>4. CASE GatewayFails
  <2>1. UNCHANGED <<tun, attached, count, dns, act, drift, edit, refresh, push, del>>
    BY <1>4 DEF GatewayFails, dbVars
  <2>2. AgentOK'
    <3>1. AgentTypeOK'
      BY <1>4 DEF GatewayFails, AgentRestart, GatewayReboot, Inv, AgentOK, AgentTypeOK
    <3>2. \A t \in Tunnels : link'[t] = link[t] \/ link'[t] = NoLink
      BY <1>4 DEF GatewayFails, AgentRestart, GatewayReboot
    <3> QED BY <2>1, <3>1, <3>2, SameRows DEF Inv, AgentOK
  <2>3. RestOK'
    BY <1>4, <2>1, GreAssumptions DEF GatewayFails, Event, Inv, RestOK
  <2> QED BY <2>1, <2>2, <2>3, SameRows, Keep DEF Inv
<1>5. CASE \E t \in Tunnels : AnswersExpire(t)
  <2>1. UNCHANGED <<tun, attached, count, dns, act, drift, edit, refresh, push, del, budget>>
    BY <1>5 DEF AnswersExpire, dbVars
  <2>2. AgentOK'
    <3>1. AgentTypeOK' /\ link' = link
      BY <1>5 DEF AnswersExpire, ExpireCreated, ExpireRemoved, Inv, AgentOK, AgentTypeOK
    <3> QED BY <2>1, <3>1, SameRows DEF Inv, AgentOK
  <2>3. RestOK'
    BY <2>1 DEF Inv, RestOK
  <2> QED BY <2>1, <2>2, <2>3, SameRows, Keep DEF Inv
<1>6. CASE PushStops
  <2>1. UNCHANGED <<tun, attached, count, dns, act, drift, edit, refresh, del>> /\ push' = << >>
    BY <1>6 DEF PushStops, dbVars
  <2>2. PatchStops(Head(push).t, {}, {Head(push).addrs}) /\ push # << >>
    BY <1>6 DEF PushStops
  <2>3. Head(push) \in [t : Tunnels, addrs : SUBSET Addresses]
    <3>1. PICK Update : Update = [t : Tunnels, addrs : SUBSET Addresses]
      OBVIOUS
    <3>2. push \in Seq(Update)
      BY <3>1 DEF Inv, RestOK
    <3>3. Head(push) \in Update
      BY <2>2, <3>2
    <3> QED BY <3>1, <3>3
  <2>4. AgentOK'
    <3>1. Head(push).t \in Tunnels /\ {Head(push).addrs} \in SUBSET SUBSET Addresses /\ {} \in SUBSET Ips
      BY <2>3
    <3> QED BY <2>1, <2>2, <3>1, StopKeeps
  <2>5. RestOK'
    BY <1>6, <2>1, GreAssumptions DEF PushStops, Event, Inv, RestOK
  <2> QED BY <2>1, <2>4, <2>5, SameRows, Keep DEF Inv
<1>7. CASE RefreshFails
  <2>1. UNCHANGED <<agentVars, tun, attached, count, dns, act, drift, edit, push, del>>
    BY <1>7 DEF RefreshFails, dbVars
  <2>2. ChangeOK(refresh)'
    BY <1>7, Records DEF RefreshFails, ChangeOK
  <2>3. RestOK'
    BY <1>7, <2>1, GreAssumptions DEF RefreshFails, Event, Inv, RestOK
  <2> QED BY <2>1, <2>2, <2>3, SameRows, Keep DEF Inv
<1>8. ASSUME NEW t \in Tunnels, DriftFails(t) PROVE Inv'
  <2>1. UNCHANGED <<tun, attached, count, dns, act, edit, refresh, push, del>> /\ Becomes(t, NoTask)
    BY <1>8 DEF DriftFails, dbVars
  <2>2. AgentOK'
    <3>1. CASE UNCHANGED agentVars
      BY <2>1, <3>1, SameRows, Keep
    <3>2. CASE PatchStops(t, drift.tasks[t].remote, drift.tasks[t].addrs)
      <4>1. drift.tasks[t].remote \in SUBSET Ips /\ drift.tasks[t].addrs \in SUBSET SUBSET Addresses
        BY DEF Inv, DriftOK, TasksOK, Task
      <4> QED BY <2>1, <3>2, <4>1, StopKeeps
    <3> QED BY <1>8, <3>1, <3>2 DEF DriftFails
  <2>3. DriftOK'
    BY <2>1, Records, SameRows, BecomesOK
  <2>4. RestOK'
    BY <1>8, <2>1, GreAssumptions DEF DriftFails, Event, Inv, RestOK
  <2> QED BY <2>1, <2>2, <2>3, <2>4, SameRows, Keep DEF Inv
<1> QED BY <1>1, <1>2, <1>3, <1>4, <1>5, <1>6, <1>7, <1>8 DEF Environment

(* Nothing happens. *)
LEMMA Stutter == Inv /\ UNCHANGED vars => Inv'
<1> SUFFICES ASSUME Inv, UNCHANGED vars PROVE Inv'
  OBVIOUS
<1>1. UNCHANGED <<agentVars, tun, attached, count, dns, act, drift, edit, refresh, push, del, budget>>
  BY DEF vars, dbVars
<1>2. RestOK'
  BY <1>1 DEF Inv, RestOK
<1> QED BY <1>1, <1>2, SameRows, Keep DEF Inv

(* Inv is inductive: whatever anyone does, rows that were bought stay        *)
(* complete and apart, and only they are pushed, marked or deleted.          *)
THEOREM Invariance == Spec => []Inv
<1>1. Inv /\ [Next]_vars => Inv'
  <2> SUFFICES ASSUME Inv, [Next]_vars PROVE Inv'
    OBVIOUS
  <2>1. CASE Users
    BY <2>1, ProvisionStep, EditSteps, DeletionSteps, MoveSteps DEF Users
  <2>2. CASE Api
    BY <2>2, ApiSteps, EditSteps, DeletionSteps, MoveSteps DEF Api
  <2>3. CASE Workers
    BY <2>3, BillingSteps, RefreshSteps, DriftReads, DriftRepairs DEF Workers, DriftStep
  <2>4. CASE Environment
    BY <2>4, FailureSteps
  <2> QED BY <2>1, <2>2, <2>3, <2>4, Stutter DEF Next
<1> QED BY <1>1, InitInv, PTL DEF Spec

(* Rows, agent and processes keep their shape, and the gateway's counter     *)
(* stays between zero and the number of tunnels, for any number of them.     *)
THEOREM TypeCorrect == Spec => []TypeOK
<1>1. Inv => TypeOK
  <2> SUFFICES ASSUME Inv PROVE TypeOK
    OBVIOUS
  <2>1. count \in 0..Cardinality(Tunnels)
    <3>1. Cardinality(Living) <= Cardinality(Tunnels) /\ Cardinality(Tunnels) \in Nat
      <4>1. Living \in SUBSET Tunnels /\ IsFiniteSet(Tunnels)
        BY GreAssumptions DEF Living
      <4> QED BY <4>1, FS_Subset, FS_CardinalityType
    <3>2. count \in Nat /\ count <= Cardinality(Living) /\ Cardinality(Living) \in Nat
      BY FiniteLiving DEF Inv, CountOK
    <3> QED BY <3>1, <3>2
  <2> QED BY <2>1 DEF Inv, RowsOK, AgentOK, ActOK, DriftOK, ChangesOK, ChangeOK, DelOK, RestOK, TypeOK
<1> QED BY <1>1, Invariance, PTL

(* No two interfaces have the same /30, although interfaces outlive their    *)
(* rows after lost calls and late pushes, however many tunnels were bought.  *)
THEOREM LinksApartTheorem == Spec => []LinksApart
<1>1. Inv => LinksApart
  <2> SUFFICES ASSUME Inv, NEW t \in Tunnels, NEW x \in Tunnels, t # x, link[t] # NoLink, link[x] # NoLink
               PROVE  tun[t].slot # tun[x].slot /\ tun[t].slot > 0
    BY DEF LinksApart
  <2>1. Bought(t)
    BY DEF Inv, AgentOK
  <2> QED BY <2>1 DEF Inv, RowsOK
<1> QED BY <1>1, Invariance, PTL

(* current_tunnels never exceeds the number of tunnels there are, whatever   *)
(* deletions and cancellations race.                                         *)
THEOREM CountsTheorem == Spec => []CountsNoneTooMany
<1>1. Inv => CountsNoneTooMany
  BY DEF Inv, CountOK, CountsNoneTooMany, Living
<1> QED BY <1>1, Invariance, PTL

------------------------------------------------------------------------------
(* OpenVPN and SSTP: the calls *)

(* The steps of a call, from what it was told when it began. *)
Plan(c) ==
  IF backend = "openvpn"
  THEN IF c.op = "create" THEN <<"conf", "record">>
       ELSE IF c.op # "delete" THEN <<"record", "conf", "kill">>
       ELSE IF c.rec # Unknown THEN <<"conf", "kill", "forget">> ELSE <<"conf">>
  ELSE IF c.op \in {"create", "update"} THEN <<"record", "login", "conf", "live">>
       ELSE IF c.op = "suspend" THEN <<"record", "conf", "unroute", "login", "kill">>
       ELSE IF c.op = "resume" THEN <<"record", "login", "conf">>
       ELSE IF c.rec # Unknown THEN <<"unroute", "kill", "conf", "forget", "login">>
       ELSE <<"conf", "forget", "login">>

(* What is left of a call is an end of that list. *)
OnPlan(c) ==
  /\ c.rest \in Seq(StepNames)
  /\ Len(c.rest) \in 1..Len(Plan(c))
  /\ \A j \in 1..Len(c.rest) : c.rest[j] = Plan(c)[Len(Plan(c)) - Len(c.rest) + j]

Left(c) == {c.rest[j] : j \in 1..Len(c.rest)}

(* Calls that end by making the customer connect anew. *)
Cuts(op) == op = "suspend" \/ (backend = "openvpn" /\ op \in {"update", "resume"})

(* What holds of the peer of a call c when the steps in left are still to    *)
(* be done; whole says that none has failed, fresh that the peer was not     *)
(* torn.                                                                     *)
Recorded(c, left) ==
  /\ c.op # "delete" /\ "record" \notin left => meta[c.peer] = c.rec
  /\ c.op = "delete" /\ "forget" \notin left => meta[c.peer] = Unknown

ConfWritten(c, left, whole) ==
  whole /\ "conf" \notin left => conf[c.peer] = FileFor(c)

LoginsWritten(c, left, whole) ==
  backend # "openvpn" /\ whole /\ "login" \notin left =>
    (c.peer \in logins <=> meta[c.peer].status = "active")

CutOff(c, left, whole) ==
  Cuts(c.op) /\ whole /\ "kill" \notin left => ~Live(c.peer)

(* A call that does not cut the connection changes what it carries.  Until   *)
(* `ip route` has run, that may be what is to be taken away; ip-up.d may     *)
(* still route that after it.                                                *)
Bounded(c, left, whole, fresh) ==
  LET p == c.peer
      may == c.rec.ips \union (IF "live" \in left THEN c.stale ELSE {}) IN
  c.op # "delete" /\ ~Cuts(c.op) /\ whole /\ fresh =>
    /\ Carried(p) \union conf[p].ips \subseteq may
    /\ lines[p] \subseteq c.rec.ips \union c.stale
    /\ c.rec.status = "suspended" => Carried(p) \union lines[p] \union conf[p].ips = {}

Progress(c, left, whole, fresh) ==
  /\ Recorded(c, left)
  /\ ConfWritten(c, left, whole)
  /\ LoginsWritten(c, left, whole)
  /\ CutOff(c, left, whole)
  /\ Bounded(c, left, whole, fresh)

(* What a call was told. *)
Asked(c) ==
  LET p == c.peer IN
  /\ c.op = "delete" => told[p].kind = "deleted"
  /\ c.op \in {"create", "update"} => c.rec.ips = told[p].ips
  /\ c.op # "delete" => c.rec \in PeerRecord
  /\ c.op \in {"create", "resume"} => c.rec.status = "active" /\ c.stale = {}
  /\ p \notin torn /\ told[p].kind # "deleted" => c.rec.ips \subseteq told[p].ips
  /\ p \notin torn /\ c.op = "update" /\ c.rec.status = "suspended" => p \notin loose

(* The files of a peer that nothing is under way for. *)
FilesKept(p) ==
  /\ meta[p].status = "suspended" => conf[p].ips = {}
  /\ told[p].kind # "deleted" => conf[p].ips \union meta[p].ips \subseteq told[p].ips
  /\ backend # "openvpn" =>
       /\ p \in logins <=> meta[p].status = "active"
       /\ meta[p].status = "active" => conf[p].ips = meta[p].ips
       /\ meta[p].status = "unknown" /\ told[p].kind # "deleted" => conf[p].ips = {}

(* Its connection, and what ip-up.d is going to give it. *)
ConnectionKept(p) ==
  LET has == Carried(p) \union lines[p] IN
  /\ meta[p].status = "suspended" => has = {}
  /\ told[p].kind # "deleted" => has \subseteq told[p].ips
  /\ backend # "openvpn" =>
       /\ meta[p].status = "active" => has \subseteq meta[p].ips
       /\ meta[p].status = "unknown" /\ told[p].kind # "deleted" => has = {}

Kept(p) ==
  /\ FilesKept(p)
  /\ p \notin loose => ConnectionKept(p)
  /\ p \in loose => meta[p].status # "suspended"

(* Only a connection carries an address, and only its hook gives it any. *)
CarriedByConnections ==
  \A p \in Customers :
    /\ \A i \in IPs : routed[i] = p => Live(p)
    /\ lines[p] # {} => session[p] = "up"

(* The inductive invariant. *)
DialInv ==
  /\ DialTypeOK
  /\ CarriedByConnections
  /\ \A p \in Customers : Settled(p) => Kept(p)
  /\ call # NoCall => /\ OnPlan(call) /\ Asked(call)
                      /\ Progress(call, Left(call), call.ok, call.peer \notin torn \union loose)

------------------------------------------------------------------------------
(* The plan of a call *)

(* A plan is a list of steps, and names no step twice. *)
LEMMA PlanType ==
  ASSUME NEW c
  PROVE  /\ Plan(c) \in Seq(StepNames) /\ Len(Plan(c)) \in 1..5
         /\ \A j, k \in 1..Len(Plan(c)) : Plan(c)[j] = Plan(c)[k] => j = k
<1>1. /\ <<"conf", "record">> \in Seq(StepNames) /\ <<"record", "conf", "kill">> \in Seq(StepNames)
      /\ <<"conf", "kill", "forget">> \in Seq(StepNames) /\ <<"conf">> \in Seq(StepNames)
      /\ <<"record", "login", "conf", "live">> \in Seq(StepNames)
      /\ <<"record", "conf", "unroute", "login", "kill">> \in Seq(StepNames)
      /\ <<"record", "login", "conf">> \in Seq(StepNames)
      /\ <<"unroute", "kill", "conf", "forget", "login">> \in Seq(StepNames)
      /\ <<"conf", "forget", "login">> \in Seq(StepNames)
  BY DEF StepNames
<1>2. Plan(c) \in Seq(StepNames)
  BY <1>1 DEF Plan
<1>3. /\ Len(Plan(c)) \in 1..5
      /\ \A j, k \in 1..Len(Plan(c)) : Plan(c)[j] = Plan(c)[k] => j = k
  BY DEF Plan
<1> QED BY <1>2, <1>3

(* The call that begins has its whole plan before it. *)
LEMMA ScriptIsPlan ==
  ASSUME NEW c, c.op \in Ops, c.op = "delete" => c.rec = meta[c.peer]
  PROVE  Script(c.op, c.peer) = Plan(c)
<1> DEFINE p == c.peer
<1>1. CASE backend = "openvpn"
  <2>1. /\ Script("create", p) = OvpnCreatePeer
        /\ Script("update", p) = OvpnUpdatePeer
        /\ Script("delete", p) = OvpnDeletePeer(p)
        /\ Script("suspend", p) = OvpnSuspendPeer
        /\ Script("resume", p) = OvpnResumePeer
    BY <1>1 DEF Script
  <2> QED BY <1>1, <2>1 DEF Ops, Plan, Known, OvpnCreatePeer, OvpnUpdatePeer, OvpnDeletePeer,
                            OvpnSuspendPeer, OvpnResumePeer
<1>2. CASE backend # "openvpn"
  <2>1. /\ Script("create", p) = SstpCreatePeer
        /\ Script("update", p) = SstpUpdatePeer
        /\ Script("delete", p) = SstpDeletePeer(p)
        /\ Script("suspend", p) = SstpSuspendPeer
        /\ Script("resume", p) = SstpResumePeer
    BY <1>2 DEF Script
  <2> QED BY <1>2, <2>1 DEF Ops, Plan, Known, SstpCreatePeer, SstpUpdatePeer, SstpDeletePeer,
                            SstpSuspendPeer, SstpResumePeer
<1> QED BY <1>1, <1>2

(* The places of what is left in a plan. *)
LEMMA Places ==
  ASSUME NEW n \in Nat, NEW k \in Nat, k <= n
  PROVE  /\ \A j \in 1..k : n - k + j \in (n - k + 1)..n
         /\ \A i \in (n - k + 1)..n : i - (n - k) \in 1..k
         /\ \A i \in (n - k + 1)..n : n - k + (i - (n - k)) = i
         /\ \A j \in 1..(k - 1) : j + 1 \in 1..k /\ n - k + (j + 1) = n - (k - 1) + j
<1>1. ASSUME NEW i \in (n - k + 1)..n PROVE i - (n - k) \in 1..k /\ n - k + (i - (n - k)) = i
  OBVIOUS
<1>2. ASSUME NEW j \in 1..(k - 1) PROVE j + 1 \in 1..k /\ n - k + (j + 1) = n - (k - 1) + j
  OBVIOUS
<1> QED BY <1>1, <1>2

(* What is left of a call when k of its steps are. *)
LEMMA LeftOfPlan ==
  ASSUME NEW c, OnPlan(c)
  PROVE  Left(c) = {Plan(c)[j] : j \in (Len(Plan(c)) - Len(c.rest) + 1)..Len(Plan(c))}
<1>1. PICK n \in Nat, k \in Nat : n = Len(Plan(c)) /\ k = Len(c.rest) /\ k <= n
  BY PlanType DEF OnPlan
<1>2. \A j \in 1..k : c.rest[j] = Plan(c)[n - k + j]
  BY <1>1 DEF OnPlan
<1>3. \A j \in 1..k : n - k + j \in (n - k + 1)..n
  BY <1>1, Places
<1>4. \A i \in (n - k + 1)..n : i - (n - k) \in 1..k /\ n - k + (i - (n - k)) = i
  BY <1>1, Places
<1>5. Left(c) = {c.rest[j] : j \in 1..k}
  BY <1>1 DEF Left
<1>6. {c.rest[j] : j \in 1..k} \subseteq {Plan(c)[i] : i \in (n - k + 1)..n}
  BY <1>2, <1>3
<1>7. ASSUME NEW i \in (n - k + 1)..n PROVE Plan(c)[i] \in {c.rest[j] : j \in 1..k}
  <2>1. c.rest[i - (n - k)] = Plan(c)[n - k + (i - (n - k))]
    BY <1>2, <1>4
  <2> QED BY <2>1, <1>4
<1>8. Left(c) = {Plan(c)[i] : i \in (n - k + 1)..n}
  BY <1>5, <1>6, <1>7
<1> QED BY <1>1, <1>8

(* A step is taken off the list. *)
LEMMA TakeStep ==
  ASSUME NEW c, OnPlan(c)
  PROVE  /\ Head(c.rest) = Plan(c)[Len(Plan(c)) - Len(c.rest) + 1]
         /\ Head(c.rest) \in Left(c)
         /\ Len(c.rest) = 1 => Left(c) = {Head(c.rest)}
<1>1. PICK n \in Nat, k \in Nat : n = Len(Plan(c)) /\ k = Len(c.rest) /\ 1 <= k /\ k <= n
  BY PlanType DEF OnPlan
<1>2. Head(c.rest) = c.rest[1] /\ 1 \in 1..k
  BY <1>1 DEF OnPlan
<1>3. c.rest[1] = Plan(c)[n - k + 1]
  BY <1>1, <1>2 DEF OnPlan
<1>4. Left(c) = {c.rest[j] : j \in 1..k}
  BY <1>1 DEF Left
<1>5. k = 1 => Left(c) = {c.rest[1]}
  BY <1>4
<1> QED BY <1>1, <1>2, <1>3, <1>4, <1>5

(* What is left after a step is on the plan again, and is the rest of it. *)
LEMMA GoOn ==
  ASSUME NEW c, NEW d, OnPlan(c), Len(c.rest) > 1,
         d.op = c.op, d.rec = c.rec, d.rest = Tail(c.rest)
  PROVE  OnPlan(d) /\ Left(d) = Left(c) \ {Head(c.rest)}
<1>1. PICK n \in Nat, k \in Nat : n = Len(Plan(c)) /\ k = Len(c.rest) /\ 2 <= k /\ k <= n
  BY PlanType DEF OnPlan
<1>2. Plan(d) = Plan(c)
  BY DEF Plan
<1>3. c.rest \in Seq(StepNames) /\ c.rest # <<>>
  BY <1>1 DEF OnPlan
<1>4. d.rest \in Seq(StepNames) /\ Len(d.rest) = k - 1
  BY <1>1, <1>3, HeadTailProperties
<1>5. \A j \in 1..(k - 1) : d.rest[j] = c.rest[j + 1]
  BY <1>1, <1>3
<1>6. ASSUME NEW j \in 1..(k - 1)
      PROVE  c.rest[j + 1] = Plan(c)[n - (k - 1) + j]
  <2>1. j + 1 \in 1..k /\ n - k + (j + 1) = n - (k - 1) + j
    BY <1>1, Places
  <2>2. c.rest[j + 1] = Plan(c)[n - k + (j + 1)]
    BY <1>1, <2>1 DEF OnPlan
  <2> QED BY <2>1, <2>2
<1>7. OnPlan(d)
  <2>1. \A j \in 1..(k - 1) : d.rest[j] = Plan(d)[n - (k - 1) + j]
    BY <1>2, <1>5, <1>6
  <2>2. k - 1 \in 1..n
    BY <1>1
  <2> QED BY <1>1, <1>2, <1>4, <2>1, <2>2 DEF OnPlan
<1>8. /\ Left(c) = {Plan(c)[i] : i \in (n - k + 1)..n}
      /\ Left(d) = {Plan(c)[i] : i \in (n - k + 2)..n}
  <2>1. n - (k - 1) + 1 = n - k + 2
    BY <1>1
  <2>2. Left(c) = {Plan(c)[i] : i \in (n - k + 1)..n}
    BY <1>1, LeftOfPlan
  <2>3. Left(d) = {Plan(d)[i] : i \in (n - (k - 1) + 1)..n}
    BY <1>1, <1>2, <1>4, <1>7, LeftOfPlan
  <2> QED BY <1>2, <2>1, <2>2, <2>3
<1>9. Head(c.rest) = Plan(c)[n - k + 1]
  BY <1>1, TakeStep
<1>10. \A i \in (n - k + 2)..n : Plan(c)[i] # Plan(c)[n - k + 1]
  <2>1. /\ \A i \in (n - k + 2)..n : i \in 1..n /\ i # n - k + 1
        /\ n - k + 1 \in 1..n
    BY <1>1
  <2> QED BY <1>1, <2>1, PlanType
<1>11. \A i \in (n - k + 1)..n : i = n - k + 1 \/ i \in (n - k + 2)..n
  BY <1>1
<1>12. \A i \in (n - k + 2)..n : i \in (n - k + 1)..n
  BY <1>1
<1> QED BY <1>7, <1>8, <1>9, <1>10, <1>11, <1>12


(* What a call that has just begun has still to do. *)
LEMMA PlanHas ==
  ASSUME NEW c, OnPlan(c), Len(c.rest) = Len(Plan(c)), c.op \in Ops
  PROVE  /\ "conf" \in Left(c)
         /\ c.op # "delete" => "record" \in Left(c)
         /\ c.op = "delete" /\ c.rec # Unknown => "forget" \in Left(c)
         /\ Cuts(c.op) => "kill" \in Left(c)
         /\ backend # "openvpn" => "login" \in Left(c)
         /\ backend # "openvpn" /\ c.op \in {"create", "update"} => "live" \in Left(c)
<1> DEFINE n == Len(Plan(c))
<1>1. n \in 1..5
  BY PlanType
<1>2. Left(c) = {Plan(c)[j] : j \in 1..n}
  BY <1>1, LeftOfPlan
<1>3. \A j \in 1..n : Plan(c)[j] \in Left(c)
  BY <1>2
<1>4. CASE backend = "openvpn"
  BY <1>3, <1>4 DEF Plan, Ops, Cuts
<1>5. CASE backend # "openvpn"
  BY <1>3, <1>5 DEF Plan, Ops, Cuts
<1> QED BY <1>4, <1>5

(* What a call has still to do depends on where it is. *)
LEMMA PlanOrder ==
  ASSUME NEW c, OnPlan(c), c.op \in Ops
  PROVE  LET s == Head(c.rest) IN
         /\ s = "record" => c.op # "delete"
         /\ s = "forget" => c.op = "delete"
         /\ backend # "openvpn" /\ s \in {"record", "forget"} => "login" \in Left(c) \ {s}
         /\ Cuts(c.op) => "kill" \in Left(c)
         /\ backend # "openvpn" /\ c.op \in {"create", "update"} => "live" \in Left(c)
         /\ s = "live" => /\ backend # "openvpn" /\ c.op \in {"create", "update"}
                          /\ "conf" \notin Left(c)
<1>1. PICK n \in Nat, k \in Nat : n = Len(Plan(c)) /\ k = Len(c.rest) /\ 1 <= k /\ k <= n /\ n <= 5
  BY PlanType DEF OnPlan
<1>2. Left(c) = {Plan(c)[j] : j \in (n - k + 1)..n}
  BY <1>1, LeftOfPlan
<1>3. Head(c.rest) = Plan(c)[n - k + 1]
  BY <1>1, TakeStep
<1>4. Plan(c)[n] \in Left(c)
  BY <1>1, <1>2
<1>5. \A j \in 1..n : j >= n - k + 1 => Plan(c)[j] \in Left(c)
  BY <1>1, <1>2
<1>6. n - k + 1 \in 1..n
  BY <1>1
<1>7. CASE backend = "openvpn"
  <2>1. CASE c.op = "create"
    <3>1. n = 2 /\ Plan(c)[1] = "conf" /\ Plan(c)[2] = "record"
      BY <1>1, <1>7, <2>1 DEF Plan
    <3> QED BY <1>3, <1>6, <1>7, <2>1, <3>1 DEF Cuts
  <2>2. CASE c.op # "create" /\ c.op # "delete"
    <3>1. n = 3 /\ Plan(c)[1] = "record" /\ Plan(c)[2] = "conf" /\ Plan(c)[3] = "kill"
      BY <1>1, <1>7, <2>2 DEF Plan
    <3> QED BY <1>3, <1>4, <1>6, <1>7, <2>2, <3>1 DEF Cuts
  <2>3. CASE c.op = "delete"
    <3>1. \A j \in 1..n : Plan(c)[j] \in {"conf", "kill", "forget"}
      BY <1>1, <1>7, <2>3 DEF Plan
    <3> QED BY <1>3, <1>6, <1>7, <2>3, <3>1 DEF Cuts
  <2> QED BY <2>1, <2>2, <2>3
<1>8. CASE backend # "openvpn"
  <2>1. CASE c.op \in {"create", "update"}
    <3>1. /\ n = 4 /\ Plan(c)[1] = "record" /\ Plan(c)[2] = "login"
          /\ Plan(c)[3] = "conf" /\ Plan(c)[4] = "live"
      BY <1>1, <1>8, <2>1 DEF Plan
    <3>2. Head(c.rest) = "live" => k = 1
      <4>1. n - k + 1 \in {1, 2, 3, 4}
        BY <1>6, <3>1
      <4>2. Head(c.rest) = "live" => n - k + 1 = 4
        BY <1>3, <3>1, <4>1
      <4>3. n = 4 /\ n - k + 1 = 4 => k = 1
        OBVIOUS
      <4> QED BY <3>1, <4>2, <4>3
    <3>3. k = 1 => Left(c) = {"live"}
      BY <1>1, <1>2, <3>1
    <3>4. Head(c.rest) = "record" => n - k + 1 = 1
      BY <1>1, <1>3, <1>6, <3>1
    <3> QED BY <1>1, <1>3, <1>4, <1>5, <1>6, <1>8, <2>1, <3>1, <3>2, <3>3, <3>4 DEF Cuts
  <2>2. CASE c.op = "suspend"
    <3>1. /\ n = 5 /\ Plan(c)[1] = "record" /\ Plan(c)[2] = "conf" /\ Plan(c)[3] = "unroute"
          /\ Plan(c)[4] = "login" /\ Plan(c)[5] = "kill"
      BY <1>1, <1>8, <2>2 DEF Plan
    <3>2. Head(c.rest) = "record" => n - k + 1 = 1
      BY <1>1, <1>3, <1>6, <3>1
    <3> QED BY <1>1, <1>3, <1>4, <1>5, <1>6, <1>8, <2>2, <3>1, <3>2 DEF Cuts
  <2>3. CASE c.op = "resume"
    <3>1. n = 3 /\ Plan(c)[1] = "record" /\ Plan(c)[2] = "login" /\ Plan(c)[3] = "conf"
      BY <1>1, <1>8, <2>3 DEF Plan
    <3>2. Head(c.rest) = "record" => n - k + 1 = 1
      BY <1>1, <1>3, <1>6, <3>1
    <3> QED BY <1>1, <1>3, <1>5, <1>6, <1>8, <2>3, <3>1, <3>2 DEF Cuts
  <2>4. CASE c.op = "delete"
    <3>1. /\ Plan(c)[n] = "login"
          /\ \A j \in 1..n : Plan(c)[j] \in {"unroute", "kill", "conf", "forget", "login"}
      BY <1>1, <1>8, <2>4 DEF Plan
    <3> QED BY <1>3, <1>4, <1>6, <1>8, <2>4, <3>1 DEF Cuts
  <2> QED BY <2>1, <2>2, <2>3, <2>4 DEF Ops
<1> QED BY <1>7, <1>8


------------------------------------------------------------------------------
(* The end of a call *)

(* A call in progress has its parts. *)
LEMMA CallParts ==
  ASSUME DialTypeOK, call # NoCall
  PROVE  /\ call \in Call /\ call.op \in Ops /\ call.peer \in Customers /\ call.ok \in BOOLEAN
         /\ call.rec \in PeerRecord \union {Unknown} /\ call.stale \subseteq IPs
         /\ call.rest \in Seq(StepNames)
BY DEF DialTypeOK, Call

(* No call in progress is NoCall. *)
LEMMA CallIsSome == \A c \in Call : c # NoCall
BY DEF Call, NoCall, Ops

(* When all steps of a call are done and none has failed, its peer is as a   *)
(* peer is for which nothing is under way.                                   *)
LEMMA EndsKept ==
  ASSUME NEW c \in Call, NEW p \in Customers, p = c.peer, NEW fresh \in BOOLEAN,
         UNCHANGED backend, DialTypeOK', CarriedByConnections', Progress(c, {}, TRUE, fresh)',
         c.op = "delete" => told'[p].kind = "deleted",
         c.op # "delete" => c.rec \in PeerRecord,
         c.op \in {"create", "resume"} => c.rec.status = "active",
         told'[p].kind # "deleted" => c.rec.ips \subseteq told'[p].ips,
         p \in loose' => Live(p)',
         p \notin loose' /\ Live(p)' => fresh /\ lines'[p] = {},
         p \in loose' /\ c.op = "update" /\ c.rec.status = "suspended" => fresh /\ lines'[p] # {}
  PROVE  Kept(p)'
<1>1. /\ ~Live(p)' => Carried(p)' = {} /\ lines'[p] = {}
      /\ Cuts(c.op) => ~Live(p)'
  <2>1. ~Live(p)' => session'[p] # "up"
    BY DEF Live
  <2>2. ~Live(p)' => Carried(p)' = {} /\ lines'[p] = {}
    BY <2>1 DEF CarriedByConnections, Carried, Live
  <2>3. Cuts(c.op) => ~Live(p)'
    BY DEF Progress, CutOff, Live, Cuts
  <2> QED BY <2>2, <2>3
<1>2. conf'[p] = FileFor(c)
  BY DEF Progress, ConfWritten, FileFor
<1>3. backend' # "openvpn" => (p \in logins' <=> meta'[p].status = "active")
  BY DEF Progress, LoginsWritten
<1>4. CASE c.op = "delete"
  <2>1. meta'[p] = Unknown /\ meta'[p].status = "unknown"
    BY <1>4 DEF Progress, Recorded, Unknown
  <2>2. FilesKept(p)'
    BY <1>3, <1>4, <2>1 DEF FilesKept
  <2>3. ConnectionKept(p)'
    BY <1>4, <2>1 DEF ConnectionKept
  <2> QED BY <2>1, <2>2, <2>3 DEF Kept
<1>5. CASE c.op # "delete"
  <2>1. meta'[p] = c.rec /\ c.rec.status \in {"active", "suspended"} /\ c.rec.ips \subseteq IPs
    BY <1>5 DEF Progress, Recorded, PeerRecord
  <2>2. conf'[p].ips = IF c.rec.status = "suspended" THEN {} ELSE c.rec.ips
    BY <1>2, <1>5 DEF FileFor, File
  <2>3. fresh /\ ~Cuts(c.op) =>
          /\ Carried(p)' \subseteq c.rec.ips
          /\ c.rec.status = "suspended" => Carried(p)' = {} /\ lines'[p] = {}
    <3>1. fresh /\ ~Cuts(c.op) =>
            /\ Carried(p)' \union conf'[p].ips \subseteq c.rec.ips
            /\ c.rec.status = "suspended" => Carried(p)' \union lines'[p] \union conf'[p].ips = {}
      BY <1>5 DEF Progress, Bounded, Cuts
    <3>2. \A a, b, d : a \union b \union d = {} => a = {} /\ b = {}
      OBVIOUS
    <3> HIDE DEF Carried
    <3> QED BY <3>1, <3>2
  <2>4. FilesKept(p)'
    BY <1>3, <1>5, <2>1, <2>2 DEF FilesKept
  <2>5. ASSUME p \notin loose' PROVE ConnectionKept(p)'
    <3>1. /\ Carried(p)' \union lines'[p] \subseteq c.rec.ips
          /\ c.rec.status = "suspended" => Carried(p)' \union lines'[p] = {}
      BY <1>1, <2>3, <2>5
    <3> QED BY <1>5, <2>1, <3>1 DEF ConnectionKept
  <2>6. ASSUME p \in loose' PROVE meta'[p].status # "suspended"
    <3>1. SUFFICES ASSUME c.rec.status = "suspended" PROVE FALSE
      BY <2>1
    <3>2. ~Cuts(c.op) /\ c.op = "update"
      BY <1>1, <1>5, <2>6, <3>1 DEF Call, Ops, Cuts
    <3> QED BY <2>3, <2>6, <3>1, <3>2
  <2> QED BY <2>4, <2>5, <2>6 DEF Kept
<1> QED BY <1>4, <1>5

(* A step of the call in progress that leaves its peer, and all others, as   *)
(* they have to be after it.                                                 *)
LEMMA CallStep ==
  ASSUME DialInv, call # NoCall, NEW ok \in BOOLEAN, Goes(ok), DialTypeOK', CarriedByConnections',
         UNCHANGED <<backend, told>>, NEW c, c = call, NEW fresh \in BOOLEAN,
         fresh <=> c.peer \notin torn \union loose,
         \A q \in Customers \ {c.peer} : q \notin torn => Kept(q)',
         Progress(c, Left(c) \ {Head(c.rest)}, c.ok /\ ok, fresh)'
  PROVE  DialInv'
<1> DEFINE p == c.peer
           left == Left(c) \ {Head(c.rest)}
           whole == c.ok /\ ok
<1>1. /\ c \in Call /\ c.op \in Ops /\ p \in Customers /\ c.ok \in BOOLEAN
      /\ OnPlan(c) /\ Asked(c)
  BY CallParts DEF DialInv
<1>2. Len(c.rest) > 1 \/ Len(c.rest) = 1
  <2>1. Len(c.rest) \in Nat /\ Len(c.rest) >= 1
    BY <1>1, PlanType DEF OnPlan
  <2>2. \A k \in Nat : k >= 1 => k > 1 \/ k = 1
    OBVIOUS
  <2> QED BY <2>1, <2>2
<1>3. CASE Len(c.rest) > 1
  <2>1. call' = [c EXCEPT !.rest = Tail(c.rest), !.ok = whole] /\ torn' = torn /\ loose' = loose
    BY <1>3 DEF Goes
  <2>2. /\ call'.op = c.op /\ call'.rec = c.rec /\ call'.peer = p /\ call'.stale = c.stale
        /\ call'.rest = Tail(c.rest) /\ call'.ok = whole
    BY <1>1, <2>1 DEF Call
  <2>3. OnPlan(call') /\ Left(call') = left
    BY <1>1, <1>3, <2>2, GoOn
  <2>4. OnPlan(call)' /\ Left(call)' = left
    BY <2>3 DEF OnPlan, Left, Plan
  <2>5. Asked(call)'
    BY <1>1, <2>1, <2>2 DEF Asked
  <2>6. Progress(call, Left(call), call.ok, call.peer \notin torn \union loose)'
    <3>1. FileFor(call)' = FileFor(c)
      BY <2>2 DEF FileFor
    <3>2. Progress(c, left, whole, fresh)'
      OBVIOUS
    <3>3. (call.peer \notin torn \union loose)' <=> fresh
      BY <2>1, <2>2
    <3> HIDE DEF left, whole
    <3> QED BY <2>2, <2>4, <3>1, <3>2, <3>3 DEF Progress, Recorded, ConfWritten, LoginsWritten, CutOff, Bounded,
                                                    Carried, Live
  <2>7. \A q \in Customers : Settled(q)' => Kept(q)'
    <3>1. call' # NoCall
      BY <1>1, <2>2 DEF NoCall, Ops
    <3> QED BY <2>1, <2>2, <3>1 DEF Settled
  <2> QED BY <2>4, <2>5, <2>6, <2>7 DEF DialInv
<1>4. CASE Len(c.rest) = 1
  <2>1. /\ call' = NoCall
        /\ torn' = IF ~whole THEN torn \union {p}
                   ELSE IF ~Live(p)' /\ c.rec.ips = told[p].ips
                   THEN torn \ {p} ELSE torn
        /\ loose' = IF ~Live(p)' THEN loose \ {p}
                    ELSE IF lines'[p] # {} THEN loose \union {p} ELSE loose
    BY <1>4 DEF Goes, Live
  <2>2. left = {}
    BY <1>1, <1>4, TakeStep
  <2>3. ASSUME p \notin torn' PROVE Kept(p)'
    <3>1. whole /\ (p \notin torn \/ (~Live(p)' /\ c.rec.ips = told[p].ips))
      BY <2>1, <2>3
    <3>2. Progress(c, {}, TRUE, fresh)'
      <4>1. Progress(c, left, whole, fresh)'
        OBVIOUS
      <4> HIDE DEF left, whole
      <4> QED BY <2>2, <3>1, <4>1
    <3>3. told'[p].kind # "deleted" => c.rec.ips \subseteq told'[p].ips
      BY <1>1, <3>1 DEF Asked
    <3>4. /\ c.op = "delete" => told'[p].kind = "deleted"
          /\ c.op # "delete" => c.rec \in PeerRecord
          /\ c.op \in {"create", "resume"} => c.rec.status = "active"
      BY <1>1, <3>1 DEF Asked
    <3>5. /\ p \in loose' => Live(p)'
          /\ p \notin loose' /\ Live(p)' => fresh /\ lines'[p] = {}
          /\ p \in loose' /\ c.op = "update" /\ c.rec.status = "suspended" => fresh /\ lines'[p] # {}
      BY <1>1, <2>1, <3>1 DEF Asked
    <3> QED BY <1>1, <3>2, <3>3, <3>4, <3>5, EndsKept
  <2>4. \A q \in Customers \ {p} : q \notin torn' => Kept(q)'
    BY <2>1
  <2>5. \A q \in Customers : Settled(q)' => Kept(q)'
    BY <2>3, <2>4 DEF Settled
  <2>6. CarriedByConnections' /\ DialTypeOK' /\ ~(call # NoCall)'
    BY <2>1
  <2> HIDE DEF p, left, whole
  <2> QED BY <2>5, <2>6 DEF DialInv
<1> QED BY <1>2, <1>3, <1>4

(* A peer keeps what it has when a step touches neither its record nor its   *)
(* file, and lets it carry nothing more.                                     *)
LEMMA StaysKept ==
  ASSUME NEW q \in Customers, DialTypeOK, Kept(q), UNCHANGED <<backend, told>>,
         meta'[q] = meta[q], conf'[q] = conf[q],
         Carried(q)' \union lines'[q] \subseteq Carried(q) \union lines[q] \union conf[q].ips,
         logins' = logins \/ logins' = {x \in Customers : meta[x].status = "active"},
         q \in loose' => q \in loose,
         q \in loose => q \in loose' \/ Carried(q)' \union lines'[q] = {}
  PROVE  Kept(q)'
<1>1. FilesKept(q)'
  BY DEF Kept, FilesKept
<1>2. q \notin loose => ConnectionKept(q)'
  BY DEF Kept, FilesKept, ConnectionKept
<1>3. Carried(q)' \union lines'[q] = {} => ConnectionKept(q)'
  BY DEF ConnectionKept
<1>4. q \in loose' => meta'[q].status # "suspended"
  BY DEF Kept
<1> QED BY <1>1, <1>2, <1>3, <1>4 DEF Kept

(* A call makes no other peer loose. *)
LEMMA GoesLoose ==
  ASSUME NEW ok, Goes(ok)
  PROVE  \A q \in Customers \ {call.peer} : q \in loose' <=> q \in loose
BY DEF Goes

(* A peer other than the one of the call in progress. *)
LEMMA OthersKept ==
  ASSUME DialInv, call # NoCall, UNCHANGED <<backend, told>>, NEW ok, Goes(ok),
         \A q \in Customers \ {call.peer} :
           /\ meta'[q] = meta[q] /\ conf'[q] = conf[q]
           /\ Carried(q)' \union lines'[q] \subseteq Carried(q) \union lines[q] \union conf[q].ips,
         logins' = logins \/ logins' = {x \in Customers : meta[x].status = "active"}
  PROVE  \A q \in Customers \ {call.peer} : q \notin torn => Kept(q)'
<1> SUFFICES ASSUME NEW q \in Customers, q # call.peer, q \notin torn PROVE Kept(q)'
  OBVIOUS
<1>1. DialTypeOK /\ Kept(q)
  BY DEF DialInv, Settled
<1>2. q \in loose' <=> q \in loose
  BY GoesLoose
<1> QED BY <1>1, <1>2, StaysKept

------------------------------------------------------------------------------
(* The steps of a call *)

(* The record is written; the record of another peer is not.                 *)
LEMMA RecordKeeps ==
  ASSUME DialInv, DialTypeOK', Record
  PROVE  DialInv'
<1>1. PICK c : c = call
  OBVIOUS
<1>2. /\ c # NoCall /\ c \in Call /\ c.op \in Ops /\ c.peer \in Customers /\ OnPlan(c)
      /\ Head(c.rest) = "record" /\ meta' = [meta EXCEPT ![c.peer] = c.rec] /\ Goes(TRUE)
      /\ UNCHANGED <<backend, conf, logins, session, lines, routed, told>>
  BY <1>1, CallParts DEF DialInv, Record, AtStep, connections
<1>3. meta'[c.peer] = c.rec /\ \A q \in Customers \ {c.peer} : meta'[q] = meta[q]
  BY <1>2 DEF DialInv, DialTypeOK
<1>4. CarriedByConnections' /\ \A q \in Customers : Carried(q)' = Carried(q)
  BY <1>2 DEF DialInv, CarriedByConnections, Carried, Live
<1>5. \A q \in Customers \ {c.peer} : q \notin torn => Kept(q)'
  BY <1>1, <1>2, <1>3, <1>4, OthersKept
<1>6. PICK fresh \in BOOLEAN : fresh <=> c.peer \notin torn \union loose
  OBVIOUS
<1>7. Progress(c, Left(c), c.ok, fresh)
  BY <1>1, <1>2, <1>6 DEF DialInv
<1>8. Progress(c, Left(c) \ {Head(c.rest)}, c.ok /\ TRUE, fresh)'
  <2>1. Recorded(c, Left(c) \ {Head(c.rest)})'
    BY <1>2, <1>3, PlanOrder DEF Recorded
  <2>2. ConfWritten(c, Left(c) \ {Head(c.rest)}, c.ok /\ TRUE)'
    BY <1>2, <1>7 DEF Progress, ConfWritten, FileFor
  <2>3. LoginsWritten(c, Left(c) \ {Head(c.rest)}, c.ok /\ TRUE)'
    BY <1>2, PlanOrder DEF LoginsWritten
  <2>4. CutOff(c, Left(c) \ {Head(c.rest)}, c.ok /\ TRUE)'
    BY <1>2, <1>7 DEF Progress, CutOff, Cuts, Live
  <2>5. Bounded(c, Left(c) \ {Head(c.rest)}, c.ok /\ TRUE, fresh)'
    BY <1>2, <1>4, <1>7 DEF Progress, Bounded, Cuts
  <2> QED BY <2>1, <2>2, <2>3, <2>4, <2>5 DEF Progress
<1> QED BY <1>1, <1>2, <1>4, <1>5, <1>6, <1>8, CallStep

(* Only DeletePeer forgets a record.                                         *)
LEMMA ForgetKeeps ==
  ASSUME DialInv, DialTypeOK', Forget
  PROVE  DialInv'
<1>1. PICK c : c = call
  OBVIOUS
<1>2. /\ c # NoCall /\ c \in Call /\ c.op \in Ops /\ c.peer \in Customers /\ OnPlan(c)
      /\ Head(c.rest) = "forget" /\ meta' = [meta EXCEPT ![c.peer] = Unknown] /\ Goes(TRUE)
      /\ UNCHANGED <<backend, conf, logins, session, lines, routed, told>>
  BY <1>1, CallParts DEF DialInv, Forget, AtStep, connections
<1>3. meta'[c.peer] = Unknown /\ \A q \in Customers \ {c.peer} : meta'[q] = meta[q]
  BY <1>2 DEF DialInv, DialTypeOK
<1>4. CarriedByConnections' /\ \A q \in Customers : Carried(q)' = Carried(q)
  BY <1>2 DEF DialInv, CarriedByConnections, Carried, Live
<1>5. \A q \in Customers \ {c.peer} : q \notin torn => Kept(q)'
  BY <1>1, <1>2, <1>3, <1>4, OthersKept
<1>6. PICK fresh \in BOOLEAN : fresh <=> c.peer \notin torn \union loose
  OBVIOUS
<1>7. Progress(c, Left(c), c.ok, fresh)
  BY <1>1, <1>2, <1>6 DEF DialInv
<1>8. Progress(c, Left(c) \ {Head(c.rest)}, c.ok /\ TRUE, fresh)'
  <2>1. Recorded(c, Left(c) \ {Head(c.rest)})'
    BY <1>2, <1>3, PlanOrder DEF Recorded
  <2>2. ConfWritten(c, Left(c) \ {Head(c.rest)}, c.ok /\ TRUE)'
    BY <1>2, <1>7 DEF Progress, ConfWritten, FileFor
  <2>3. LoginsWritten(c, Left(c) \ {Head(c.rest)}, c.ok /\ TRUE)'
    BY <1>2, PlanOrder DEF LoginsWritten
  <2>4. CutOff(c, Left(c) \ {Head(c.rest)}, c.ok /\ TRUE)'
    BY <1>2, <1>7 DEF Progress, CutOff, Cuts, Live
  <2>5. Bounded(c, Left(c) \ {Head(c.rest)}, c.ok /\ TRUE, fresh)'
    BY <1>2, PlanOrder DEF Bounded
  <2> QED BY <2>1, <2>2, <2>3, <2>4, <2>5 DEF Progress
<1> QED BY <1>1, <1>2, <1>4, <1>5, <1>6, <1>8, CallStep

(* The file gets what the call names, or nothing for a suspended peer.       *)
LEMMA WriteConfKeeps ==
  ASSUME DialInv, DialTypeOK', WriteConf
  PROVE  DialInv'
<1>1. PICK c : c = call
  OBVIOUS
<1>2. /\ c # NoCall /\ c \in Call /\ c.op \in Ops /\ c.peer \in Customers /\ OnPlan(c)
      /\ Head(c.rest) = "conf" /\ conf' = [conf EXCEPT ![c.peer] = FileFor(c)] /\ Goes(TRUE)
      /\ UNCHANGED <<backend, meta, logins, session, lines, routed, told>>
  BY <1>1, CallParts DEF DialInv, WriteConf, AtStep, connections
<1>3. conf'[c.peer] = FileFor(c) /\ \A q \in Customers \ {c.peer} : conf'[q] = conf[q]
  BY <1>2 DEF DialInv, DialTypeOK
<1>4. CarriedByConnections' /\ \A q \in Customers : Carried(q)' = Carried(q)
  BY <1>2 DEF DialInv, CarriedByConnections, Carried, Live
<1>5. \A q \in Customers \ {c.peer} : q \notin torn => Kept(q)'
  BY <1>1, <1>2, <1>3, <1>4, OthersKept
<1>6. PICK fresh \in BOOLEAN : fresh <=> c.peer \notin torn \union loose
  OBVIOUS
<1>7. Progress(c, Left(c), c.ok, fresh)
  BY <1>1, <1>2, <1>6 DEF DialInv
<1>8. Progress(c, Left(c) \ {Head(c.rest)}, c.ok /\ TRUE, fresh)'
  <2>6. c.op # "delete" =>
          /\ FileFor(c).ips \subseteq c.rec.ips
          /\ c.rec.status = "suspended" => FileFor(c).ips = {}
    BY DEF FileFor, File
  <2>1. Recorded(c, Left(c) \ {Head(c.rest)})'
    BY <1>2, <1>7 DEF Progress, Recorded
  <2>2. ConfWritten(c, Left(c) \ {Head(c.rest)}, c.ok /\ TRUE)'
    BY <1>3 DEF ConfWritten, FileFor
  <2>3. LoginsWritten(c, Left(c) \ {Head(c.rest)}, c.ok /\ TRUE)'
    BY <1>2, <1>7 DEF Progress, LoginsWritten
  <2>4. CutOff(c, Left(c) \ {Head(c.rest)}, c.ok /\ TRUE)'
    BY <1>2, <1>7 DEF Progress, CutOff, Cuts, Live
  <2>5. Bounded(c, Left(c) \ {Head(c.rest)}, c.ok /\ TRUE, fresh)'
    BY <1>2, <1>3, <1>4, <1>7, <2>6 DEF Progress, Bounded, Cuts
  <2> QED BY <2>1, <2>2, <2>3, <2>4, <2>5 DEF Progress
<1> QED BY <1>1, <1>2, <1>4, <1>5, <1>6, <1>8, CallStep

(* chap-secrets, written afresh, has the lines it had for other peers.       *)
LEMMA WriteLoginsKeeps ==
  ASSUME DialInv, DialTypeOK', WriteLogins
  PROVE  DialInv'
<1>1. PICK c : c = call
  OBVIOUS
<1>2. /\ c # NoCall /\ c \in Call /\ c.op \in Ops /\ c.peer \in Customers /\ OnPlan(c)
      /\ Head(c.rest) = "login" /\ logins' = {x \in Customers : meta[x].status = "active"} /\ Goes(TRUE)
      /\ UNCHANGED <<backend, meta, conf, session, lines, routed, told>>
  BY <1>1, CallParts DEF DialInv, WriteLogins, AtStep, connections
<1>3. CarriedByConnections' /\ \A q \in Customers : Carried(q)' = Carried(q)
  BY <1>2 DEF DialInv, CarriedByConnections, Carried, Live
<1>4. \A q \in Customers \ {c.peer} : q \notin torn => Kept(q)'
  BY <1>1, <1>2, <1>3, OthersKept
<1>5. PICK fresh \in BOOLEAN : fresh <=> c.peer \notin torn \union loose
  OBVIOUS
<1>6. Progress(c, Left(c), c.ok, fresh)
  BY <1>1, <1>2, <1>5 DEF DialInv
<1>7. Progress(c, Left(c) \ {Head(c.rest)}, c.ok /\ TRUE, fresh)'
  <2>1. Recorded(c, Left(c) \ {Head(c.rest)})'
    BY <1>2, <1>6 DEF Progress, Recorded
  <2>2. ConfWritten(c, Left(c) \ {Head(c.rest)}, c.ok /\ TRUE)'
    BY <1>2, <1>6 DEF Progress, ConfWritten, FileFor
  <2>3. LoginsWritten(c, Left(c) \ {Head(c.rest)}, c.ok /\ TRUE)'
    BY <1>2 DEF LoginsWritten
  <2>4. CutOff(c, Left(c) \ {Head(c.rest)}, c.ok /\ TRUE)'
    BY <1>2, <1>6 DEF Progress, CutOff, Cuts, Live
  <2>5. Bounded(c, Left(c) \ {Head(c.rest)}, c.ok /\ TRUE, fresh)'
    BY <1>2, <1>3, <1>6 DEF Progress, Bounded, Cuts
  <2> QED BY <2>1, <2>2, <2>3, <2>4, <2>5 DEF Progress
<1> QED BY <1>1, <1>2, <1>3, <1>4, <1>5, <1>7, CallStep

(* A step that fails takes nothing but addresses, and gives them to the      *)
(* connection of its peer only: the call is no longer whole.                 *)
LEMMA FailedStepKeeps ==
  ASSUME DialInv, DialTypeOK', call # NoCall, Head(call.rest) \notin {"record", "forget"},
         UNCHANGED <<backend, meta, conf, logins, lines, told>>, Goes(FALSE),
         CarriedByConnections', \A q \in Customers \ {call.peer} : Carried(q)' \subseteq Carried(q)
  PROVE  DialInv'
<1>1. PICK c : c = call
  OBVIOUS
<1>2. /\ c # NoCall /\ c \in Call /\ c.op \in Ops /\ c.peer \in Customers /\ OnPlan(c)
      /\ Head(c.rest) \notin {"record", "forget"} /\ Goes(FALSE)
      /\ UNCHANGED <<backend, meta, conf, logins, lines, told>>
  BY <1>1, CallParts DEF DialInv
<1>3. \A q \in Customers \ {c.peer} : q \notin torn => Kept(q)'
  BY <1>1, <1>2, OthersKept
<1>4. PICK fresh \in BOOLEAN : fresh <=> c.peer \notin torn \union loose
  OBVIOUS
<1>5. Progress(c, Left(c), c.ok, fresh)
  BY <1>1, <1>2, <1>4 DEF DialInv
<1>6. Progress(c, Left(c) \ {Head(c.rest)}, c.ok /\ FALSE, fresh)'
  <2>1. Recorded(c, Left(c) \ {Head(c.rest)})'
    BY <1>2, <1>5 DEF Progress, Recorded
  <2> QED BY <2>1 DEF Progress, ConfWritten, LoginsWritten, CutOff, Bounded
<1> QED BY <1>1, <1>2, <1>3, <1>4, <1>6, CallStep

(* A step that leaves the connections alone. *)
LEMMA SameConnections ==
  ASSUME DialInv, UNCHANGED connections
  PROVE  CarriedByConnections' /\ \A q \in Customers : Carried(q)' = Carried(q) /\ lines'[q] = lines[q]
<1>1. UNCHANGED <<session, lines, routed>>
  BY DEF connections
<1> QED BY <1>1 DEF DialInv, CarriedByConnections, Carried, Live

(* A failed write ends the call or goes unnoticed: the peer is torn.         *)
LEMMA WriteFailsKeeps ==
  ASSUME DialInv, DialTypeOK', WriteFails
  PROVE  DialInv'
<1>1. /\ call # NoCall /\ Head(call.rest) \in {"conf", "login"}
      /\ UNCHANGED <<backend, meta, conf, logins, connections, told>>
  BY DEF WriteFails, AtStep, world
<1>2. /\ CarriedByConnections' /\ lines' = lines
      /\ \A q \in Customers : Carried(q)' = Carried(q) /\ lines'[q] = lines[q]
  BY <1>1, SameConnections DEF connections
<1>3. CASE Goes(FALSE)
  BY <1>1, <1>2, <1>3, FailedStepKeeps
<1>4. CASE call' = NoCall /\ torn' = torn \union {call.peer} /\ loose' = loose
  <2>1. ASSUME NEW q \in Customers, Settled(q)' PROVE Kept(q)'
    <3>1. Settled(q)
      BY <1>4, <2>1 DEF Settled
    <3>2. DialTypeOK /\ Kept(q)
      BY <3>1 DEF DialInv
    <3> QED BY <1>1, <1>2, <1>4, <3>2, StaysKept
  <2> QED BY <1>2, <1>4, <2>1 DEF DialInv
<1> QED BY <1>3, <1>4 DEF WriteFails

(* A connection that could not be ended makes the peer torn.                 *)
LEMMA KillFailsKeeps ==
  ASSUME DialInv, DialTypeOK', KillFails
  PROVE  DialInv'
<1>1. /\ call # NoCall /\ Head(call.rest) = "kill" /\ Goes(FALSE)
      /\ UNCHANGED <<backend, meta, conf, logins, connections, told>>
  BY DEF KillFails, AtStep, world
<1>2. /\ CarriedByConnections' /\ lines' = lines
      /\ \A q \in Customers : Carried(q)' = Carried(q)
  BY <1>1, SameConnections DEF connections
<1> QED BY <1>1, <1>2, FailedStepKeeps

(* A step that only takes addresses away: from connections, or with them.    *)
LEMMA TakenAway ==
  ASSUME DialInv, DialTypeOK', call # NoCall, NEW s \in {"unroute", "kill"}, Head(call.rest) = s,
         UNCHANGED <<backend, meta, conf, logins, told>>, Goes(TRUE),
         CarriedByConnections',
         \A q \in Customers : Carried(q)' \subseteq Carried(q) /\ lines'[q] \subseteq lines[q],
         NEW p, p = call.peer, s = "kill" => ~Live(p)'
  PROVE  DialInv'
<1>1. PICK c : c = call
  OBVIOUS
<1>2. /\ c # NoCall /\ c \in Call /\ c.op \in Ops /\ c.peer \in Customers /\ OnPlan(c)
      /\ Head(c.rest) = s /\ Goes(TRUE)
      /\ UNCHANGED <<backend, meta, conf, logins, told>>
      /\ Carried(c.peer)' \subseteq Carried(c.peer) /\ lines'[c.peer] \subseteq lines[c.peer]
      /\ s = "kill" => ~Live(c.peer)' /\ c.peer = p
  BY <1>1, CallParts DEF DialInv, Live
<1>3. \A q \in Customers \ {c.peer} : q \notin torn => Kept(q)'
  BY <1>1, <1>2, OthersKept
<1>4. PICK fresh \in BOOLEAN : fresh <=> c.peer \notin torn \union loose
  OBVIOUS
<1>5. Progress(c, Left(c), c.ok, fresh)
  BY <1>1, <1>2, <1>4 DEF DialInv
<1>6. Progress(c, Left(c) \ {Head(c.rest)}, c.ok /\ TRUE, fresh)'
  <2>1. Recorded(c, Left(c) \ {Head(c.rest)})'
    BY <1>2, <1>5 DEF Progress, Recorded
  <2>2. ConfWritten(c, Left(c) \ {Head(c.rest)}, c.ok /\ TRUE)'
    BY <1>2, <1>5 DEF Progress, ConfWritten, FileFor
  <2>3. LoginsWritten(c, Left(c) \ {Head(c.rest)}, c.ok /\ TRUE)'
    BY <1>2, <1>5 DEF Progress, LoginsWritten
  <2>4. CutOff(c, Left(c) \ {Head(c.rest)}, c.ok /\ TRUE)'
    BY <1>2, PlanOrder DEF CutOff, Cuts, Live
  <2>5. Bounded(c, Left(c) \ {Head(c.rest)}, c.ok /\ TRUE, fresh)'
    <3>1. "live" \in Left(c) \ {Head(c.rest)} <=> "live" \in Left(c)
      BY <1>2
    <3> QED BY <1>2, <1>5, <3>1 DEF Progress, Bounded, Cuts
  <2> QED BY <2>1, <2>2, <2>3, <2>4, <2>5 DEF Progress
<1> QED BY <1>1, <1>2, <1>3, <1>4, <1>6, CallStep

(* `ip route` gives addresses to a connection of the peer, or takes them.    *)
LEMMA RerouteTakes ==
  ASSUME DialInv, call # NoCall, NEW gone, NEW put \in SUBSET IPs, Reroute(gone, put),
         put # {} => Live(call.peer), NEW p, p = call.peer
  PROVE  /\ CarriedByConnections'
         /\ \A q \in Customers : lines'[q] = lines[q] /\ (q # p => Carried(q)' \subseteq Carried(q))
         /\ Carried(p)' \subseteq (Carried(p) \ gone) \union put
<1>1. \A i \in IPs : \/ (routed'[i] = p /\ i \in put)
                      \/ routed'[i] = Nobody
                      \/ (routed'[i] = routed[i] /\ i \notin gone)
  BY DEF Reroute
<1>2. UNCHANGED <<session, lines>>
  BY DEF Reroute
<1>3. p \in Customers
  BY CallParts DEF DialInv
<1>4. CarriedByConnections'
  BY <1>1, <1>2, <1>3, DialInAssumptions DEF DialInv, CarriedByConnections, Live
<1>5. \A q \in Customers : q # p => Carried(q)' \subseteq Carried(q)
  BY <1>1, DialInAssumptions DEF Carried
<1>6. Carried(p)' \subseteq (Carried(p) \ gone) \union put
  BY <1>1, <1>3, DialInAssumptions DEF Carried
<1> QED BY <1>2, <1>4, <1>5, <1>6

(* `ip route del`, from whoever has the addresses.                           *)
LEMMA UnrouteKeeps ==
  ASSUME DialInv, DialTypeOK', Unroute
  PROVE  DialInv'
<1>1. /\ call # NoCall /\ Head(call.rest) = "unroute" /\ Reroute(call.rec.ips, {}) /\ Goes(TRUE)
      /\ UNCHANGED <<backend, meta, conf, logins, lines, told>>
  BY DEF Unroute, AtStep, Reroute
<1>2. \A i \in IPs : routed'[i] = routed[i] \/ routed'[i] = Nobody
  BY <1>1 DEF Reroute
<1>3. \A q \in Customers : Carried(q)' \subseteq Carried(q)
  BY <1>2, DialInAssumptions DEF Carried
<1>4. CarriedByConnections'
  BY <1>1, RerouteTakes
<1> QED BY <1>1, <1>3, <1>4, TakenAway

(* A route that hides its failure makes the peer torn.                       *)
LEMMA RoutesFailKeeps ==
  ASSUME DialInv, DialTypeOK', RoutesFail
  PROVE  DialInv'
<1>1. call # NoCall /\ Head(call.rest) \in {"unroute", "live"} /\ Goes(FALSE)
  BY DEF RoutesFail, AtStep
<1>2. \E gone, put \in SUBSET IPs : Reroute(gone, put) /\ (put # {} => Live(call.peer))
  <2>1. call.rec.ips \subseteq IPs /\ call.stale \subseteq IPs
    BY <1>1, CallParts DEF DialInv, PeerRecord, Unknown
  <2>2. Given \subseteq IPs /\ (Given # {} => Live(call.peer))
    BY <2>1 DEF Given
  <2>3. CASE \E gone \in SUBSET call.rec.ips : Reroute(gone, {})
    BY <2>1, <2>3
  <2>4. CASE \E gone \in SUBSET call.stale, put \in SUBSET Given : Reroute(gone, put)
    BY <2>1, <2>2, <2>4
  <2> QED BY <2>3, <2>4 DEF RoutesFail
<1>3. PICK gone \in SUBSET IPs, put \in SUBSET IPs : Reroute(gone, put) /\ (put # {} => Live(call.peer))
  BY <1>2
<1>4. UNCHANGED <<backend, meta, conf, logins, lines, told>>
  BY <1>3 DEF Reroute
<1>5. /\ CarriedByConnections'
      /\ \A q \in Customers \ {call.peer} : Carried(q)' \subseteq Carried(q)
  BY <1>1, <1>3, RerouteTakes
<1> QED BY <1>1, <1>4, <1>5, FailedStepKeeps

(* The end of a connection takes away every address it carried. *)
LEMMA EndedTakes ==
  ASSUME DialInv, NEW p \in Customers, Ended(p)
  PROVE  /\ CarriedByConnections' /\ ~Live(p)' /\ Carried(p)' = {} /\ lines'[p] = {}
         /\ \A q \in Customers : Carried(q)' \subseteq Carried(q) /\ lines'[q] \subseteq lines[q]
         /\ \A q \in Customers \ {p} : session'[q] = session[q]
<1>1. \A i \in IPs : routed'[i] # p /\ (routed'[i] = routed[i] \/ routed'[i] = Nobody)
  BY DialInAssumptions DEF Ended
<1>2. session'[p] = "off" /\ \A q \in Customers \ {p} : session'[q] = session[q]
  BY DEF Ended, DialInv, DialTypeOK
<1>3. lines'[p] = {} /\ \A q \in Customers \ {p} : lines'[q] = lines[q]
  BY DEF Ended, DialInv, DialTypeOK
<1>4. CarriedByConnections'
  BY <1>1, <1>2, <1>3, DialInAssumptions DEF DialInv, CarriedByConnections, Live
<1>5. Carried(p)' = {} /\ \A q \in Customers : Carried(q)' \subseteq Carried(q)
  BY <1>1, DialInAssumptions DEF Carried
<1>6. ~Live(p)'
  BY <1>2 DEF Live
<1> QED BY <1>2, <1>3, <1>4, <1>5, <1>6

(* killClient and killSession.                                               *)
LEMMA KillKeeps ==
  ASSUME DialInv, DialTypeOK', Kill
  PROVE  DialInv'
<1>1. /\ call # NoCall /\ Head(call.rest) = "kill" /\ call.peer \in Customers
      /\ UNCHANGED <<backend, meta, conf, logins, told>> /\ Goes(TRUE)
  BY CallParts DEF Kill, AtStep, DialInv
<1>2. PICK p : p = call.peer
  OBVIOUS
<1>3. /\ CarriedByConnections' /\ ~Live(p)'
      /\ \A q \in Customers : Carried(q)' \subseteq Carried(q) /\ lines'[q] \subseteq lines[q]
  <2>1. CASE Live(p)
    BY <1>1, <1>2, <2>1, EndedTakes DEF Kill
  <2>2. CASE ~Live(p)
    <3>1. UNCHANGED <<session, lines, routed>>
      BY <1>2, <2>2 DEF Kill, connections
    <3> QED BY <2>2, <3>1, SameConnections DEF connections, Live
  <2> QED BY <2>1, <2>2
<1> QED BY <1>1, <1>2, <1>3, TakenAway

(* applyRoutesLive: what is named is carried, what is stale no longer is.    *)
LEMMA ApplyLiveKeeps ==
  ASSUME DialInv, DialTypeOK', ApplyLive
  PROVE  DialInv'
<1>1. PICK c : c = call
  OBVIOUS
<1>2. /\ c # NoCall /\ c \in Call /\ c.op \in Ops /\ c.peer \in Customers /\ OnPlan(c)
      /\ Head(c.rest) = "live" /\ Goes(TRUE) /\ Reroute(c.stale, Given)
      /\ UNCHANGED <<backend, meta, conf, logins, session, lines, told>>
  BY <1>1, CallParts DEF DialInv, ApplyLive, AtStep, Reroute
<1>3. PICK put : put = Given
  OBVIOUS
<1>4. /\ put \in SUBSET IPs /\ put \subseteq c.rec.ips /\ (put # {} => Live(c.peer))
      /\ c.rec.status = "suspended" => put = {}
  <2>1. c.rec.ips \subseteq IPs
    BY <1>1, <1>2, CallParts DEF DialInv, PeerRecord, Unknown
  <2> QED BY <1>1, <1>3, <2>1 DEF Given
<1>5. /\ CarriedByConnections'
      /\ \A q \in Customers : lines'[q] = lines[q] /\ (q # c.peer => Carried(q)' \subseteq Carried(q))
      /\ Carried(c.peer)' \subseteq (Carried(c.peer) \ c.stale) \union put
  BY <1>1, <1>2, <1>3, <1>4, RerouteTakes
<1>6. \A q \in Customers \ {c.peer} : q \notin torn => Kept(q)'
  BY <1>1, <1>2, <1>5, OthersKept
<1>7. PICK fresh \in BOOLEAN : fresh <=> c.peer \notin torn \union loose
  OBVIOUS
<1>8. Progress(c, Left(c), c.ok, fresh)
  BY <1>1, <1>2, <1>7 DEF DialInv
<1>9. Progress(c, Left(c) \ {Head(c.rest)}, c.ok /\ TRUE, fresh)'
  <2>1. Recorded(c, Left(c) \ {Head(c.rest)})'
    BY <1>2, <1>8 DEF Progress, Recorded
  <2>2. ConfWritten(c, Left(c) \ {Head(c.rest)}, c.ok /\ TRUE)'
    BY <1>2, <1>8 DEF Progress, ConfWritten, FileFor
  <2>3. LoginsWritten(c, Left(c) \ {Head(c.rest)}, c.ok /\ TRUE)'
    BY <1>2, <1>8 DEF Progress, LoginsWritten
  <2>4. CutOff(c, Left(c) \ {Head(c.rest)}, c.ok /\ TRUE)'
    BY <1>2, <1>8 DEF Progress, CutOff, Cuts, Live
  <2>5. Bounded(c, Left(c) \ {Head(c.rest)}, c.ok /\ TRUE, fresh)'
    <3> SUFFICES ASSUME c.op # "delete", ~Cuts(c.op), c.ok, fresh
                 PROVE  /\ Carried(c.peer)' \union conf[c.peer].ips \subseteq c.rec.ips
                        /\ lines[c.peer] \subseteq c.rec.ips \union c.stale
                        /\ c.rec.status = "suspended" =>
                             Carried(c.peer)' \union lines[c.peer] \union conf[c.peer].ips = {}
      BY <1>2 DEF Bounded, Cuts
    <3>1. /\ Carried(c.peer) \subseteq c.rec.ips \union c.stale
          /\ lines[c.peer] \subseteq c.rec.ips \union c.stale
          /\ c.rec.status = "suspended" => Carried(c.peer) = {} /\ lines[c.peer] = {}
      BY <1>2, <1>8, TakeStep DEF Progress, Bounded
    <3>2. conf[c.peer].ips = IF c.rec.status = "suspended" THEN {} ELSE c.rec.ips
      BY <1>2, <1>8, PlanOrder DEF Progress, ConfWritten, FileFor, File
    <3>3. Carried(c.peer)' \subseteq c.rec.ips
      BY <1>4, <1>5, <3>1
    <3>4. c.rec.status = "suspended" => Carried(c.peer)' = {}
      BY <1>4, <1>5, <3>1
    <3> QED BY <3>1, <3>2, <3>3, <3>4
  <2> QED BY <2>1, <2>2, <2>3, <2>4, <2>5 DEF Progress
<1> QED BY <1>1, <1>2, <1>5, <1>6, <1>7, <1>9, CallStep

------------------------------------------------------------------------------
(* Restarts, connections, and the beginning of a call *)

(* A restart finds every peer that is not torn as its files say.             *)
LEMMA RestartKeeps ==
  ASSUME DialInv, DialTypeOK', Restart
  PROVE  DialInv'
<1>1. UNCHANGED <<backend, conf, logins, connections, told, loose>>
  BY DEF Restart
<1>2. /\ CarriedByConnections' /\ ~(call # NoCall)'
      /\ \A q \in Customers : Carried(q)' = Carried(q) /\ lines'[q] = lines[q]
  BY <1>1, SameConnections DEF Restart
<1>3. ASSUME NEW q \in Customers, Settled(q)' PROVE Kept(q)'
  <2>1. Settled(q)
    BY <1>3 DEF Restart, Settled
  <2>2. DialTypeOK /\ Kept(q)
    BY <2>1 DEF DialInv
  <2>3. FilesKept(q) /\ (q \notin loose => ConnectionKept(q))
    BY <2>2 DEF Kept
  <2>4. Carried(q)' = Carried(q) /\ lines'[q] = lines[q] /\ meta'[q] = Reloaded(q)
    BY <1>2 DEF Restart
  <2>5. CASE backend # "openvpn" /\ q \in logins
    <3>1. meta[q].status = "active" /\ conf[q].ips = meta[q].ips
      BY <2>3, <2>5 DEF FilesKept
    <3>2. meta'[q].status = "active" /\ meta'[q].ips = conf[q].ips
      BY <2>2, <2>4, <2>5 DEF Reloaded, DialTypeOK
    <3>3. FilesKept(q)'
      BY <1>1, <2>3, <2>5, <3>1, <3>2 DEF FilesKept
    <3>4. q \notin loose => ConnectionKept(q)'
      BY <1>1, <2>3, <2>4, <2>5, <3>1, <3>2 DEF ConnectionKept
    <3> QED BY <1>1, <3>2, <3>3, <3>4 DEF Kept
  <2>6. CASE ~(backend # "openvpn" /\ q \in logins)
    <3>1. meta'[q].status = "unknown" /\ meta'[q].ips = {}
      BY <2>4, <2>6 DEF Reloaded, Unknown
    <3>2. backend # "openvpn" => q \notin logins /\ meta[q].status \in {"suspended", "unknown"}
      BY <2>2, <2>3, <2>6 DEF FilesKept, DialTypeOK, PeerRecord, Unknown
    <3>3. FilesKept(q)'
      BY <1>1, <2>3, <3>1, <3>2 DEF FilesKept
    <3>4. q \notin loose => ConnectionKept(q)'
      BY <1>1, <2>3, <2>4, <3>1, <3>2 DEF ConnectionKept
    <3> QED BY <1>1, <3>1, <3>3, <3>4 DEF Kept
  <2> QED BY <2>5, <2>6
<1> QED BY <1>2, <1>3 DEF DialInv

(* A connection comes up, is given addresses, or ends, and the agent does    *)
(* not notice.  A call that is still to change what its peer carries, or     *)
(* that has nothing to take away, bounds what ip-up.d may route.             *)
LEMMA ConnectionKeeps ==
  ASSUME DialInv, DialTypeOK', CarriedByConnections',
         UNCHANGED <<backend, meta, conf, logins, call, told, torn>>,
         \A q \in Customers :
           /\ Carried(q)' \subseteq Carried(q) \union lines[q] \union conf[q].ips
           /\ lines'[q] \subseteq lines[q] \union conf[q].ips
           /\ q \in loose' => q \in loose
           /\ q \in loose \ loose' => Carried(q)' \union lines'[q] = {}
           /\ q \in loose \ loose' => (call # NoCall => call.peer # q)
  PROVE  DialInv'
<1>1. ASSUME NEW q \in Customers, Settled(q)' PROVE Kept(q)'
  <2>1. DialTypeOK /\ Kept(q)
    BY <1>1 DEF DialInv, Settled
  <2>2. /\ q \in loose' => q \in loose
        /\ q \in loose => q \in loose' \/ Carried(q)' \union lines'[q] = {}
    OBVIOUS
  <2>3. Carried(q)' \union lines'[q] \subseteq Carried(q) \union lines[q] \union conf[q].ips
    OBVIOUS
  <2> QED BY <2>1, <2>2, <2>3, StaysKept
<1>2. ASSUME NEW c, c = call, c # NoCall, NEW fresh \in BOOLEAN, fresh <=> c.peer \notin torn \union loose
      PROVE  Progress(c, Left(c), c.ok, fresh)'
  <2>1. /\ OnPlan(c) /\ Asked(c) /\ c.op \in Ops /\ c.peer \in Customers
        /\ Progress(c, Left(c), c.ok, fresh)
    BY <1>2, CallParts DEF DialInv
  <2>2. Recorded(c, Left(c))'
    BY <2>1 DEF Progress, Recorded
  <2>3. ConfWritten(c, Left(c), c.ok)'
    BY <2>1 DEF Progress, ConfWritten, FileFor
  <2>4. LoginsWritten(c, Left(c), c.ok)'
    BY <2>1 DEF Progress, LoginsWritten
  <2>5. CutOff(c, Left(c), c.ok)'
    BY <2>1, PlanOrder DEF CutOff, Cuts
  <2>6. Bounded(c, Left(c), c.ok, fresh)'
    <3>1. c.op # "delete" /\ ~Cuts(c.op) => "live" \in Left(c) \/ c.stale = {}
      BY <2>1, PlanOrder DEF Asked, Cuts, Ops
    <3> QED BY <2>1, <3>1 DEF Progress, Bounded, Cuts
  <2> QED BY <2>2, <2>3, <2>4, <2>5, <2>6 DEF Progress
<1>3. ASSUME call # NoCall
      PROVE  (OnPlan(call) /\ Asked(call) /\ Progress(call, Left(call), call.ok, call.peer \notin torn \union loose))'
  <2>1. PICK c : c = call
    OBVIOUS
  <2>2. PICK fresh \in BOOLEAN : fresh <=> c.peer \notin torn \union loose
    OBVIOUS
  <2>3. c.peer \in Customers /\ (c.peer \in loose' <=> c.peer \in loose)
    <3>1. c.peer \in Customers
      BY <1>3, <2>1, CallParts DEF DialInv
    <3>2. \A q \in Customers : (q \in loose' => q \in loose) /\ (q \in loose \ loose' => c.peer # q)
      BY <1>3, <2>1
    <3> QED BY <3>1, <3>2
  <2>4. OnPlan(c)' /\ Asked(c)'
    BY <1>3, <2>1, <2>3 DEF DialInv, OnPlan, Plan, Asked
  <2>5. Progress(c, Left(c), c.ok, fresh)'
    BY <1>2, <1>3, <2>1, <2>2
  <2>6. call' = c /\ (fresh <=> (c.peer \notin torn \union loose)')
    BY <2>1, <2>2, <2>3
  <2>7. Progress(c, Left(c), c.ok, c.peer \notin torn \union loose)'
    BY <2>5, <2>6 DEF Progress, Bounded
  <2> QED BY <2>4, <2>6, <2>7
<1> QED BY <1>1, <1>3 DEF DialInv

(* Whatever customers do, no peer carries more than it may.                  *)
LEMMA ConnectionsKeep ==
  ASSUME DialInv, DialTypeOK', NEW p \in Customers, Connections(p)
  PROVE  DialInv'
<1>1. CASE OvpnConnects(p)
  <2>1. /\ \A i \in IPs : routed'[i] = IF i \in conf[p].ips THEN p ELSE routed[i]
        /\ UNCHANGED <<backend, meta, conf, logins, lines, call, told, torn, loose>>
    BY <1>1 DEF OvpnConnects
  <2>2. session'[p] = "up" /\ \A q \in Customers \ {p} : session'[q] = session[q]
    BY <1>1 DEF OvpnConnects, DialInv, DialTypeOK
  <2>3. CarriedByConnections'
    BY <2>1, <2>2 DEF DialInv, CarriedByConnections, Live
  <2>4. \A q \in Customers : Carried(q)' \subseteq Carried(q) \union conf[q].ips
    BY <2>1 DEF Carried
  <2> QED BY <2>1, <2>3, <2>4, ConnectionKeeps
<1>2. CASE SstpAuthenticates(p)
  <2>1. /\ session' = [session EXCEPT ![p] = "joining"] /\ session[p] = "off"
        /\ UNCHANGED <<backend, meta, conf, logins, lines, routed, call, told, torn, loose>>
    BY <1>2 DEF SstpAuthenticates
  <2>2. session'[p] = "joining" /\ \A q \in Customers \ {p} : session'[q] = session[q]
    BY <2>1 DEF DialInv, DialTypeOK
  <2>3. CarriedByConnections'
    BY <2>1, <2>2 DEF DialInv, CarriedByConnections, Live
  <2>4. \A q \in Customers : Carried(q)' = Carried(q)
    BY <2>1 DEF Carried
  <2> QED BY <2>1, <2>3, <2>4, ConnectionKeeps
<1>3. CASE SstpComesUp(p)
  <2>1. /\ session' = [session EXCEPT ![p] = "starting"] /\ session[p] = "joining"
        /\ UNCHANGED <<backend, meta, conf, logins, lines, routed, call, told, torn, loose>>
    BY <1>3 DEF SstpComesUp
  <2>2. session'[p] = "starting" /\ \A q \in Customers \ {p} : session'[q] = session[q]
    BY <2>1 DEF DialInv, DialTypeOK
  <2>3. CarriedByConnections'
    BY <2>1, <2>2 DEF DialInv, CarriedByConnections, Live
  <2>4. \A q \in Customers : Carried(q)' = Carried(q)
    BY <2>1 DEF Carried
  <2> QED BY <2>1, <2>3, <2>4, ConnectionKeeps
<1>4. CASE HookReads(p)
  <2>1. /\ session' = [session EXCEPT ![p] = "up"] /\ lines' = [lines EXCEPT ![p] = conf[p].ips]
        /\ UNCHANGED <<backend, meta, conf, logins, routed, call, told, torn, loose>>
    BY <1>4 DEF HookReads
  <2>2. /\ session'[p] = "up" /\ \A q \in Customers \ {p} : session'[q] = session[q]
        /\ lines'[p] = conf[p].ips /\ \A q \in Customers \ {p} : lines'[q] = lines[q]
    BY <2>1 DEF DialInv, DialTypeOK
  <2>3. CarriedByConnections'
    BY <2>1, <2>2 DEF DialInv, CarriedByConnections, Live
  <2>4. \A q \in Customers : Carried(q)' = Carried(q) /\ lines'[q] \subseteq lines[q] \union conf[q].ips
    BY <2>1, <2>2 DEF Carried
  <2> QED BY <2>1, <2>3, <2>4, ConnectionKeeps
<1>5. ASSUME NEW i \in IPs, HookRoutes(p, i) PROVE DialInv'
  <2>1. /\ i \in lines[p]
        /\ UNCHANGED <<backend, meta, conf, logins, session, call, told, torn, loose>>
    BY <1>5 DEF HookRoutes
  <2>2. /\ routed'[i] = p /\ \A x \in IPs \ {i} : routed'[x] = routed[x]
        /\ lines'[p] = lines[p] \ {i} /\ \A q \in Customers \ {p} : lines'[q] = lines[q]
    BY <1>5 DEF HookRoutes, DialInv, DialTypeOK
  <2>3. session[p] = "up"
    BY <2>1 DEF DialInv, CarriedByConnections
  <2>4. CarriedByConnections'
    BY <2>1, <2>2, <2>3 DEF DialInv, CarriedByConnections, Live
  <2>5. \A q \in Customers : Carried(q)' \subseteq Carried(q) \union lines[q] /\ lines'[q] \subseteq lines[q]
    BY <2>1, <2>2 DEF Carried
  <2> QED BY <2>1, <2>4, <2>5, ConnectionKeeps
<1>6. CASE Leaves(p)
  <2>1. /\ Ended(p) /\ UNCHANGED <<backend, meta, conf, logins, call, told, torn>>
        /\ loose' = IF call # NoCall /\ call.peer = p THEN loose ELSE loose \ {p}
    BY <1>6 DEF Leaves
  <2>2. /\ CarriedByConnections' /\ Carried(p)' = {} /\ lines'[p] = {}
        /\ \A q \in Customers : Carried(q)' \subseteq Carried(q) /\ lines'[q] \subseteq lines[q]
    BY <2>1, EndedTakes
  <2> QED BY <2>1, <2>2, ConnectionKeeps
<1> QED BY <1>1, <1>2, <1>3, <1>4, <1>5, <1>6 DEF Connections

(* A call begins.  What its peer may carry until its routes are changed is   *)
(* what the call names and, for an update, what it takes away.               *)
LEMMA BeginKeeps ==
  ASSUME DialInv, DialTypeOK', NEW op \in Ops, NEW p \in Customers, NEW rec, NEW stale, NEW order,
         Begin(op, p, rec, stale, order),
         op = "delete" => rec = meta[p] /\ order.kind = "deleted",
         op # "delete" => rec \in PeerRecord,
         op \in {"create", "update"} => rec.ips = order.ips,
         op \in {"create", "resume"} => rec.status = "active" /\ stale = {},
         p \notin torn /\ order.kind # "deleted" => rec.ips \subseteq order.ips,
         \A q \in Customers \ {p} : q \in loose' <=> q \in loose,
         p \notin torn /\ op = "update" /\ rec.status = "suspended" => p \notin loose',
         op # "delete" /\ ~Cuts(op) /\ p \notin torn \union loose' =>
           /\ Carried(p) \union lines[p] \union conf[p].ips \subseteq rec.ips \union stale
           /\ rec.status = "suspended" => Carried(p) \union lines[p] \union conf[p].ips = {}
  PROVE  DialInv'
<1>1. PICK c : c = [op |-> op, peer |-> p, rec |-> rec, stale |-> stale,
                    rest |-> Script(op, p), ok |-> TRUE]
  OBVIOUS
<1>2. /\ c.op = op /\ c.peer = p /\ c.rec = rec /\ c.stale = stale /\ c.ok = TRUE
      /\ c.rest = Script(op, p)
  BY <1>1
<1>3. /\ call = NoCall /\ call' = c /\ told' = [told EXCEPT ![p] = order]
      /\ UNCHANGED <<backend, meta, conf, logins, session, lines, routed, torn>>
  BY <1>1 DEF Begin, world, connections
<1>4. told'[p] = order /\ \A q \in Customers \ {p} : told'[q] = told[q]
  BY <1>3 DEF DialInv, DialTypeOK
<1>5. c.rest = Plan(c)
  BY <1>2, ScriptIsPlan
<1>6. OnPlan(c) /\ Len(c.rest) = Len(Plan(c))
  <2>1. PICK n \in Nat : n = Len(Plan(c)) /\ n \in 1..n /\ \A j \in 1..n : n - n + j = j
    <3>1. Len(Plan(c)) \in 1..5
      BY PlanType
    <3>2. \A n \in 1..5 : n \in Nat /\ n \in 1..n /\ \A j \in 1..n : n - n + j = j
      OBVIOUS
    <3> QED BY <3>1, <3>2
  <2>2. Plan(c) \in Seq(StepNames)
    BY PlanType
  <2> QED BY <1>5, <2>1, <2>2 DEF OnPlan
<1>7. OnPlan(c)' /\ Asked(c)'
  BY <1>2, <1>3, <1>4, <1>6 DEF OnPlan, Plan, Asked
<1>8. CarriedByConnections' /\ \A q \in Customers : Carried(q)' = Carried(q)
  BY <1>3 DEF DialInv, CarriedByConnections, Carried, Live
<1>9. PICK fresh \in BOOLEAN : fresh <=> (p \notin torn \union loose)'
  OBVIOUS
<1>10. Progress(c, Left(c), c.ok, fresh)'
  <2>1. Recorded(c, Left(c))'
    BY <1>2, <1>3, <1>6, PlanHas DEF Recorded
  <2>2. ConfWritten(c, Left(c), c.ok)'
    BY <1>2, <1>6, PlanHas DEF ConfWritten
  <2>3. LoginsWritten(c, Left(c), c.ok)'
    BY <1>2, <1>3, <1>6, PlanHas DEF LoginsWritten
  <2>4. CutOff(c, Left(c), c.ok)'
    BY <1>2, <1>3, <1>6, PlanHas DEF CutOff, Cuts, Live
  <2>5. Bounded(c, Left(c), c.ok, fresh)'
    <3>1. op # "delete" /\ ~Cuts(op) => "live" \in Left(c) \/ stale = {}
      BY <1>2, <1>6, PlanHas DEF Cuts, Ops
    <3> QED BY <1>2, <1>3, <1>8, <1>9, <3>1 DEF Bounded, Cuts
  <2> QED BY <2>1, <2>2, <2>3, <2>4, <2>5 DEF Progress
<1>11. (OnPlan(call) /\ Asked(call) /\ Progress(call, Left(call), call.ok, call.peer \notin torn \union loose))'
  <2>1. fresh <=> (c.peer \notin torn \union loose)'
    BY <1>2, <1>9
  <2>2. Progress(c, Left(c), c.ok, c.peer \notin torn \union loose)'
    BY <1>10, <2>1 DEF Progress, Bounded
  <2> QED BY <1>3, <1>7, <2>2
<1>12. ASSUME NEW q \in Customers, Settled(q)' PROVE Kept(q)'
  <2>1. q # p /\ Settled(q)
    <3>1. call' # NoCall
      BY <1>2, <1>3 DEF Ops, NoCall
    <3> QED BY <1>2, <1>3, <1>12, <3>1 DEF Settled
  <2>2. Kept(q)
    BY <2>1 DEF DialInv
  <2>3. FilesKept(q)' <=> FilesKept(q)
    BY <1>3, <1>4, <2>1 DEF FilesKept
  <2>4. ConnectionKept(q)' <=> ConnectionKept(q)
    BY <1>3, <1>4, <1>8, <2>1 DEF ConnectionKept
  <2> QED BY <1>3, <2>1, <2>2, <2>3, <2>4 DEF Kept
<1> QED BY <1>8, <1>11, <1>12 DEF DialInv

(* Every call that begins names what its peer may carry.                     *)
LEMMA CallsKeep ==
  ASSUME DialInv, DialTypeOK', NEW p \in Customers, Calls(p)
  PROVE  DialInv'
<1>1. /\ DialTypeOK /\ meta[p] \in PeerRecord \union {Unknown} /\ told[p].ips \subseteq IPs
      /\ told[p].kind \in {"none", "deleted", "ordered"}
  BY DEF DialInv, DialTypeOK
<1>2. Known(p) => meta[p] \in PeerRecord
  BY <1>1 DEF Known
<1>3. ASSUME call = NoCall, p \notin torn
      PROVE  FilesKept(p) /\ (p \notin loose => ConnectionKept(p)) /\ (p \in loose => meta[p].status # "suspended")
  BY <1>3 DEF DialInv, Settled, Kept
<1>4. CASE \E s \in SUBSET IPs : CreatePeer(p, s)
  <2>1. PICK s \in SUBSET IPs : CreatePeer(p, s)
    BY <1>4
  <2>2. /\ Begin("create", p, [status |-> "active", ips |-> s], {}, Order(s)) /\ call = NoCall
        /\ loose' = IF told[p] \in {NoOrder, Order(s)} THEN loose ELSE loose \union {p}
    BY <2>1 DEF CreatePeer, Begin
  <2>3. p \notin loose' => p \notin loose /\ told[p].ips \subseteq s /\ told[p].kind # "deleted"
    BY <2>2 DEF NoOrder, Order
  <2>4. p \notin torn \union loose' => Carried(p) \union lines[p] \union conf[p].ips \subseteq s
    BY <1>3, <2>2, <2>3 DEF FilesKept, ConnectionKept
  <2>5. [status |-> "active", ips |-> s] \in PeerRecord
    BY DEF PeerRecord
  <2>6. \A q \in Customers \ {p} : q \in loose' <=> q \in loose
    BY <2>2
  <2> QED BY <2>2, <2>4, <2>5, <2>6, BeginKeeps DEF Ops, Order
<1>5. CASE \E s \in SUBSET IPs : UpdatePeer(p, s)
  <2>1. PICK s \in SUBSET IPs : UpdatePeer(p, s)
    BY <1>5
  <2>2. PICK rec : rec = [status |-> IF Known(p) THEN meta[p].status ELSE "active", ips |-> s]
    OBVIOUS
  <2>3. /\ Begin("update", p, rec, meta[p].ips \ s, Order(s)) /\ call = NoCall
        /\ loose' = IF Known(p) \/ told[p].kind # "deleted" THEN loose ELSE loose \union {p}
    BY <2>1, <2>2 DEF UpdatePeer, Begin
  <2>4. rec \in PeerRecord /\ rec.ips = s
    BY <1>2, <2>2 DEF PeerRecord
  <2>5. rec.status = "suspended" => Known(p) /\ meta[p].status = "suspended"
    BY <2>2
  <2>6. p \notin torn /\ rec.status = "suspended" => p \notin loose'
    BY <1>3, <2>3, <2>5
  <2>7. ASSUME backend # "openvpn", p \notin torn \union loose'
        PROVE  /\ Carried(p) \union lines[p] \union conf[p].ips \subseteq rec.ips \union (meta[p].ips \ s)
               /\ rec.status = "suspended" => Carried(p) \union lines[p] \union conf[p].ips = {}
    <3>1. FilesKept(p) /\ ConnectionKept(p) /\ (Known(p) \/ told[p].kind # "deleted")
      BY <1>3, <2>3, <2>7
    <3>2. meta[p].status \in {"active", "suspended"} \/ (meta[p].status = "unknown" /\ ~Known(p))
      BY <1>1 DEF PeerRecord, Unknown, Known
    <3>3. Carried(p) \union lines[p] \union conf[p].ips \subseteq meta[p].ips
      BY <2>7, <3>1, <3>2 DEF FilesKept, ConnectionKept
    <3> QED BY <2>4, <2>5, <3>1, <3>3 DEF FilesKept, ConnectionKept
  <2>8. \A q \in Customers \ {p} : q \in loose' <=> q \in loose
    BY <2>3
  <2> QED BY <2>3, <2>4, <2>6, <2>7, <2>8, BeginKeeps DEF Ops, Order, Cuts
<1>6. CASE DeletePeer(p)
  <2>1. Begin("delete", p, meta[p], {}, Gone) /\ loose' = loose
    BY <1>6 DEF DeletePeer
  <2> QED BY <2>1, BeginKeeps DEF Ops, Gone
<1>7. CASE SuspendPeer(p)
  <2>1. PICK rec : rec = [status |-> "suspended", ips |-> meta[p].ips]
    OBVIOUS
  <2>2. Begin("suspend", p, rec, {}, told[p]) /\ call = NoCall /\ loose' = loose
    BY <1>7, <2>1 DEF SuspendPeer, Begin
  <2>3. rec \in PeerRecord /\ rec.ips = meta[p].ips
    BY <1>2, <1>7, <2>1 DEF SuspendPeer, PeerRecord
  <2>4. p \notin torn /\ told[p].kind # "deleted" => rec.ips \subseteq told[p].ips
    BY <1>3, <2>2, <2>3 DEF FilesKept
  <2> QED BY <2>2, <2>3, <2>4, BeginKeeps DEF Ops, Cuts
<1>8. CASE ResumePeer(p)
  <2>1. PICK rec : rec = [status |-> "active", ips |-> meta[p].ips]
    OBVIOUS
  <2>2. Begin("resume", p, rec, {}, told[p]) /\ call = NoCall /\ loose' = loose
    BY <1>8, <2>1 DEF ResumePeer, Begin
  <2>3. rec \in PeerRecord /\ rec.ips = meta[p].ips /\ rec.status = "active" /\ meta[p] \in PeerRecord
    BY <1>2, <1>8, <2>1 DEF ResumePeer, PeerRecord
  <2>4. p \notin torn /\ told[p].kind # "deleted" => rec.ips \subseteq told[p].ips
    BY <1>3, <2>2, <2>3 DEF FilesKept
  <2>5. backend # "openvpn" /\ p \notin torn \union loose' =>
          Carried(p) \union lines[p] \union conf[p].ips \subseteq rec.ips
    BY <1>3, <2>2, <2>3 DEF FilesKept, ConnectionKept, PeerRecord
  <2> QED BY <2>2, <2>3, <2>4, <2>5, BeginKeeps DEF Ops, Cuts
<1> QED BY <1>4, <1>5, <1>6, <1>7, <1>8 DEF Calls

------------------------------------------------------------------------------
(* Types *)

(* A call that begins has its type.                                          *)
LEMMA BeginType ==
  ASSUME DialTypeOK, NEW op \in Ops, NEW p \in Customers, NEW rec \in PeerRecord \union {Unknown},
         NEW stale \in SUBSET IPs,
         NEW order \in [kind : {"none", "deleted", "ordered"}, ips : SUBSET IPs],
         Begin(op, p, rec, stale, order), loose' \subseteq Customers
  PROVE  DialTypeOK'
<1>1. call' \in Call
  <2>1. PICK c : c = [op |-> op, peer |-> p, rec |-> meta[p]]
    OBVIOUS
  <2>2. Script(c.op, c.peer) = Plan(c)
    BY <2>1, ScriptIsPlan
  <2>3. Script(op, p) \in Seq(StepNames)
    BY <2>1, <2>2, PlanType
  <2> QED BY <2>3 DEF Begin, Call
<1>2. told' \in [Customers -> [kind : {"none", "deleted", "ordered"}, ips : SUBSET IPs]]
  BY DEF Begin, DialTypeOK
<1> QED BY <1>1, <1>2 DEF Begin, DialTypeOK, world, connections

(* Every call the control plane makes has its type.                          *)
LEMMA CallsType ==
  ASSUME DialTypeOK, NEW p \in Customers, Calls(p)
  PROVE  DialTypeOK'
<1>1. /\ meta[p] \in PeerRecord \union {Unknown} /\ meta[p].ips \subseteq IPs
      /\ Known(p) => meta[p].status \in {"active", "suspended"}
      /\ told[p] \in [kind : {"none", "deleted", "ordered"}, ips : SUBSET IPs]
  BY DEF DialTypeOK, PeerRecord, Unknown, Known
<1>2. \A s \in SUBSET IPs : Order(s) \in [kind : {"none", "deleted", "ordered"}, ips : SUBSET IPs]
  BY DEF Order
<1>3. Gone \in [kind : {"none", "deleted", "ordered"}, ips : SUBSET IPs]
  BY DEF Gone
<1>4. ASSUME NEW x \in {"active", "suspended"}, NEW s \in SUBSET IPs
      PROVE  [status |-> x, ips |-> s] \in PeerRecord
  BY DEF PeerRecord
<1>5. ASSUME NEW s \in SUBSET IPs, CreatePeer(p, s) PROVE DialTypeOK'
  <2>1. loose' \subseteq Customers
    BY <1>5 DEF CreatePeer, DialTypeOK
  <2> QED BY <1>2, <1>4, <1>5, <2>1, BeginType DEF CreatePeer, Ops
<1>6. ASSUME NEW s \in SUBSET IPs, UpdatePeer(p, s) PROVE DialTypeOK'
  <2>1. [status |-> IF Known(p) THEN meta[p].status ELSE "active", ips |-> s] \in PeerRecord
    BY <1>1, <1>4
  <2>2. loose' \subseteq Customers
    BY <1>6 DEF UpdatePeer, DialTypeOK
  <2> QED BY <1>1, <1>2, <1>6, <2>1, <2>2, BeginType DEF UpdatePeer, Ops
<1>7. CASE DeletePeer(p)
  <2>1. loose' \subseteq Customers
    BY <1>7 DEF DeletePeer, DialTypeOK
  <2> QED BY <1>1, <1>3, <1>7, <2>1, BeginType DEF DeletePeer, Ops
<1>8. CASE SuspendPeer(p)
  <2>1. loose' \subseteq Customers
    BY <1>8 DEF SuspendPeer, DialTypeOK
  <2> QED BY <1>1, <1>4, <1>8, <2>1, BeginType DEF SuspendPeer, Ops
<1>9. CASE ResumePeer(p)
  <2>1. loose' \subseteq Customers
    BY <1>9 DEF ResumePeer, DialTypeOK
  <2> QED BY <1>1, <1>4, <1>9, <2>1, BeginType DEF ResumePeer, Ops
<1> QED BY <1>5, <1>6, <1>7, <1>8, <1>9 DEF Calls

(* A call that goes on is a call. *)
LEMMA GoesType ==
  ASSUME DialTypeOK, call # NoCall, OnPlan(call), NEW ok \in BOOLEAN, Goes(ok)
  PROVE  call' \in Call \union {NoCall} /\ torn' \subseteq Customers /\ loose' \subseteq Customers
<1>1. call \in Call /\ call.peer \in Customers /\ torn \subseteq Customers /\ loose \subseteq Customers
  BY CallParts DEF DialTypeOK
<1>2. call.rest # <<>>
  BY PlanType DEF OnPlan
<1>3. Tail(call.rest) \in Seq(StepNames)
  BY <1>2, CallParts, HeadTailProperties
<1>4. [call EXCEPT !.rest = Tail(call.rest), !.ok = call.ok /\ ok] \in Call
  BY <1>1, <1>3 DEF Call
<1> QED BY <1>1, <1>4 DEF Goes

(* The steps of a call keep the types.                                       *)
LEMMA StepsType ==
  ASSUME DialTypeOK, call # NoCall => OnPlan(call), Steps
  PROVE  DialTypeOK'
<1>1. /\ call # NoCall /\ OnPlan(call) /\ call.peer \in Customers
      /\ call.rec \in PeerRecord \union {Unknown} /\ call.rec.ips \subseteq IPs /\ call.stale \subseteq IPs
  <2>1. call # NoCall
    BY DEF Steps, Record, Forget, WriteConf, WriteLogins, WriteFails, Unroute, ApplyLive,
           RoutesFail, Kill, KillFails, AtStep
  <2> QED BY <2>1, CallParts DEF PeerRecord, Unknown
<1>2. \A ok \in BOOLEAN : Goes(ok) =>
        call' \in Call \union {NoCall} /\ torn' \subseteq Customers /\ loose' \subseteq Customers
  BY <1>1, GoesType
<1>3. CASE Record
  BY <1>1, <1>2, <1>3 DEF Record, DialTypeOK, connections
<1>4. CASE Forget
  BY <1>1, <1>2, <1>4 DEF Forget, DialTypeOK, connections
<1>5. CASE WriteConf
  <2>1. FileFor(call) \in [there : BOOLEAN, ips : SUBSET IPs]
    BY <1>1 DEF FileFor, File, NoFile
  <2> QED BY <1>1, <1>2, <1>5, <2>1 DEF WriteConf, DialTypeOK, connections
<1>6. CASE WriteLogins
  BY <1>2, <1>6 DEF WriteLogins, DialTypeOK, connections
<1>7. CASE WriteFails
  BY <1>1, <1>2, <1>7 DEF WriteFails, DialTypeOK, world, connections
<1>8. ASSUME NEW gone, NEW put, NEW ok \in BOOLEAN, Reroute(gone, put), Goes(ok)
      PROVE  DialTypeOK'
  <2>1. routed' \in [IPs -> Customers \union {Nobody}]
    BY <1>1, <1>8 DEF Reroute, DialTypeOK
  <2> QED BY <1>2, <1>8, <2>1 DEF Reroute, DialTypeOK
<1>9. CASE Unroute \/ ApplyLive \/ RoutesFail
  BY <1>8, <1>9 DEF Unroute, ApplyLive, RoutesFail
<1>10. CASE Kill
  <2>1. /\ session' \in [Customers -> {"off", "joining", "starting", "up"}]
        /\ lines' \in [Customers -> SUBSET IPs]
        /\ routed' \in [IPs -> Customers \union {Nobody}]
    BY <1>1, <1>10 DEF Kill, Ended, DialTypeOK, connections
  <2> QED BY <1>2, <1>10, <2>1 DEF Kill, DialTypeOK
<1>11. CASE KillFails
  BY <1>2, <1>11 DEF KillFails, DialTypeOK, world, connections
<1> QED BY <1>3, <1>4, <1>5, <1>6, <1>7, <1>9, <1>10, <1>11 DEF Steps

(* What customers do keeps the types.                                        *)
LEMMA ConnectionsType ==
  ASSUME DialTypeOK, NEW p \in Customers, Connections(p)
  PROVE  DialTypeOK'
<1>1. CASE OvpnConnects(p)
  BY <1>1 DEF OvpnConnects, DialTypeOK
<1>2. CASE SstpAuthenticates(p)
  BY <1>2 DEF SstpAuthenticates, DialTypeOK
<1>3. CASE SstpComesUp(p)
  BY <1>3 DEF SstpComesUp, DialTypeOK
<1>4. CASE Leaves(p)
  BY <1>4 DEF Leaves, Ended, DialTypeOK
<1>5. CASE HookReads(p)
  BY <1>5 DEF HookReads, DialTypeOK
<1>6. ASSUME NEW i \in IPs, HookRoutes(p, i) PROVE DialTypeOK'
  BY <1>6 DEF HookRoutes, DialTypeOK
<1> QED BY <1>1, <1>2, <1>3, <1>4, <1>5, <1>6 DEF Connections

(* A restart keeps the types.                                                *)
LEMMA RestartType ==
  ASSUME DialTypeOK, Restart
  PROVE  DialTypeOK'
<1>1. \A p \in Customers : Reloaded(p) \in PeerRecord \union {Unknown}
  BY DEF DialTypeOK, Reloaded, PeerRecord
<1>2. torn' \subseteq Customers
  BY CallParts DEF Restart, DialTypeOK
<1> QED BY <1>1, <1>2 DEF Restart, DialTypeOK, connections

------------------------------------------------------------------------------
(* The theorems *)

(* Initially no peer is known and nothing is carried.                        *)
LEMMA InitDialInv == DialInit => DialInv
<1> SUFFICES ASSUME DialInit PROVE DialInv
  OBVIOUS
<1>1. DialTypeOK
  BY DEF DialInit, DialTypeOK, Unknown, NoFile, NoOrder
<1>2. CarriedByConnections /\ \A p \in Customers : Carried(p) = {}
  BY DialInAssumptions DEF DialInit, CarriedByConnections, Carried
<1>3. \A p \in Customers : Kept(p)
  BY <1>2 DEF DialInit, Kept, FilesKept, ConnectionKept, Unknown, NoFile, NoOrder
<1>4. ~(call # NoCall)
  BY DEF DialInit
<1> QED BY <1>1, <1>2, <1>3, <1>4 DEF DialInv

(* Every step keeps the invariant.                                           *)
LEMMA NextKeepsDialInv == DialInv /\ [DialNext]_dialVars => DialInv'
<1> SUFFICES ASSUME DialInv, [DialNext]_dialVars PROVE DialInv'
  OBVIOUS
<1>1. DialTypeOK /\ (call # NoCall => OnPlan(call))
  BY DEF DialInv
<1>2. CASE Steps
  <2>1. DialTypeOK'
    BY <1>1, <1>2, StepsType
  <2> QED BY <1>2, <2>1, RecordKeeps, ForgetKeeps, WriteConfKeeps, WriteLoginsKeeps, WriteFailsKeeps,
             UnrouteKeeps, ApplyLiveKeeps, RoutesFailKeeps, KillKeeps, KillFailsKeeps DEF Steps
<1>3. CASE Restart
  BY <1>1, <1>3, RestartType, RestartKeeps
<1>4. ASSUME NEW p \in Customers, Calls(p) PROVE DialInv'
  BY <1>1, <1>4, CallsType, CallsKeep
<1>5. ASSUME NEW p \in Customers, Connections(p) PROVE DialInv'
  BY <1>1, <1>5, ConnectionsType, ConnectionsKeep
<1>6. CASE UNCHANGED dialVars
  <2>1. UNCHANGED <<backend, meta, conf, logins, connections, call, told, torn, loose>>
    BY <1>6 DEF dialVars
  <2>2. DialTypeOK'
    BY <1>1, <2>1 DEF DialTypeOK, connections
  <2>3. CarriedByConnections' /\ \A q \in Customers : Carried(q)' = Carried(q) /\ lines'[q] = lines[q]
    BY <2>1, SameConnections
  <2> QED BY <2>1, <2>2, <2>3, ConnectionKeeps
<1> QED BY <1>2, <1>3, <1>4, <1>5, <1>6 DEF DialNext

(* The invariant holds in every state.                                       *)
LEMMA DialInvAlways == DialSpec => []DialInv
BY InitDialInv, NextKeepsDialInv, PTL DEF DialSpec

(* Whatever interleaves, records, files, connections and the call in         *)
(* progress keep their shape.                                                *)
THEOREM DialTypeCorrect == DialSpec => []DialTypeOK
<1>1. DialInv => DialTypeOK
  BY DEF DialInv
<1> QED BY <1>1, DialInvAlways, PTL

(* A peer that is listed as suspended carries no public address, for any     *)
(* number of customers: SuspendPeer empties the file before it cuts the      *)
(* connection, and every later call keeps it empty.                          *)
THEOREM SuspendedTheorem == DialSpec => []SuspendedCarriesNothing
<1>1. DialInv => SuspendedCarriesNothing
  <2> SUFFICES ASSUME DialInv, NEW p \in Customers, Settled(p), meta[p].status = "suspended"
               PROVE  Carried(p) = {}
    BY DEF SuspendedCarriesNothing
  <2>1. ConnectionKept(p)
    BY DEF DialInv, Kept
  <2> QED BY <2>1 DEF ConnectionKept
<1> QED BY <1>1, DialInvAlways, PTL

(* A customer carries no address beyond those the last call named, over      *)
(* restarts, failures and connections that come and go within a call.  The   *)
(* peers in loose are left out until their customer connects anew: creation  *)
(* over a connection that is up, and a hook that outlives the call, take     *)
(* nothing from it.                                                          *)
THEOREM CarriesOnlyTheorem == DialSpec => []CarriesOnlyWhatWasTold
<1>1. DialInv => CarriesOnlyWhatWasTold
  <2> SUFFICES ASSUME DialInv, NEW p \in Customers, Settled(p), p \notin loose, told[p].kind = "ordered"
               PROVE  Carried(p) \subseteq told[p].ips
    BY DEF CarriesOnlyWhatWasTold
  <2>1. ConnectionKept(p)
    BY DEF DialInv, Kept
  <2> QED BY <2>1 DEF ConnectionKept
<1> QED BY <1>1, DialInvAlways, PTL

================================================================================
