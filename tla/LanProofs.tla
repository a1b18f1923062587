------------------------------- MODULE LanProofs -------------------------------
(***************************************************************************)
(* Proofs about Lan, for any number of clients, connections and places up  *)
(* to sixteen, and any options: the types, whatever happens, and, until    *)
(* the end of a refused connection takes a player off by mistake, that     *)
(* places are right and the machines agree.                                *)
(***************************************************************************)
EXTENDS Lan, FiniteSetTheorems, WellFoundedInduction, TLAPS

(* The strengthening.                                                      *)

Counts     == {n \in Int : n <= MaxPlayers}
HostType   == [active : BOOLEAN, num : Counts, mask : SUBSET Ids, players : PlayerLists,
               remote : [Ids -> Peers \cup {None}]]
ClientType == [state : {"out", "joining", "in"}, id : Ids, players : PlayerLists,
               num : 0 .. 16, mask : SUBSET Ids, last : {0, None}]

\* A client that is not in the session knows nothing of one, and one that is on its way into it
\* has asked for a connection.
Known(c) ==
    /\ client[c].state = "out" => client[c] = NewClient
    /\ client[c].state = "joining" => client[c] = [NewClient EXCEPT !.state = "joining"]
    /\ client[c].state # "out" => \E k \in 1 .. Len(conns) : conns[k].client = c

Typed ==
    /\ use \in Uses /\ conns \in Seq(Connection) /\ Len(conns) <= MaxAsks
    /\ data \in [Peers -> Ids \cup {None}]
    /\ host \in HostType /\ client \in [Clients -> ClientType] /\ wifi \subseteq Machines

\* What the host's end of a connection and its peer's data say: one that is open has a place,
\* which has it, and all that is said on it is about this place.  Of one that is being made or
\* refused the data say nothing.
Wire(k) ==
    /\ conns[k].far = "asking" => conns[k].host \in {"shaking", "closed"}
    /\ conns[k].host = "shaking" => conns[k].up = <<>> /\ conns[k].down = <<>>
    /\ conns[k].host = "open" =>
          /\ data[conns[k].peer] \in Ids \ {0}
          /\ host.remote[data[conns[k].peer]] = k
          /\ host.players[data[conns[k].peer]].who = conns[k].client
          /\ \A n \in 1 .. Len(conns[k].up) :
                 conns[k].up[n].kind = "info" => conns[k].up[n].id = data[conns[k].peer]
          /\ \A n \in 1 .. Len(conns[k].down) :
                 conns[k].down[n].kind = "init" => conns[k].down[n].id = data[conns[k].peer]

\* Who is in the session has the number the host gave it.
Own(k) ==
    k = Mine(conns[k].client) /\ client[conns[k].client].state = "in" =>
        /\ conns[k].host # "shaking"
        /\ conns[k].host = "open" => client[conns[k].client].id = data[conns[k].peer]

\* Connections that are not closed use different peers.
Apart ==
    \A k, l \in 1 .. Len(conns) :
        k # l /\ conns[k].host # "closed" /\ conns[l].host # "closed"
            => conns[k].peer # conns[l].peer

\* Who has a place has an open connection.
Placed ==
    \A i \in Ids \ {0} :
        /\ host.players[i].status = "none" => host.remote[i] = None
        /\ host.players[i].status # "none" =>
              /\ host.remote[i] \in 1 .. Len(conns)
              /\ conns[host.remote[i]].host = "open"
              /\ data[conns[host.remote[i]].peer] = i

Taken(h) == {i \in Ids : h.players[i].status # "none"}
Counted(h) == h.num = Cardinality(Taken(h)) /\ h.players[0].status = "host"

Right ==
    /\ Counted(host) /\ Placed /\ Apart
    /\ \A k \in 1 .. Len(conns) : Wire(k) /\ Own(k)

PInv == Typed /\ (\A c \in Clients : Known(c)) /\ (host.active => Right)

-----------------------------------------------------------------------------
(* Least and greatest numbers.                                             *)

\* A set of numbers that is not empty has a least one.
LEMMA Least ==
  ASSUME NEW S, S \subseteq Nat, S # {}
  PROVE  Min(S) \in S /\ \A y \in S : Min(S) <= y
<1>1. PICK x \in S : \A y \in S : <<y, x>> \notin OpToRel(<, Nat)
  BY NatLessThanWellFounded, WFMin
<1>2. ASSUME NEW y \in S, y < x PROVE FALSE
  <2>1. <<y, x>> \in Nat \X Nat /\ <<y, x>>[1] < <<y, x>>[2]
    BY <1>2
  <2> QED BY <1>1, <2>1 DEF OpToRel
<1>3. \A y \in S : x <= y
  BY <1>2
<1> QED BY <1>3 DEF Min

\* One that has a bound has a greatest.
LEMMA Greatest ==
  ASSUME NEW n \in Nat, NEW S, S \subseteq 0 .. n, S # {}
  PROVE  Max(S) \in S /\ \A y \in S : Max(S) >= y
<1> DEFINE T == {n - y : y \in S}
<1>1. T \subseteq Nat /\ T # {}
  <2>1. \A y \in S : n - y \in Nat
    OBVIOUS
  <2> QED BY <2>1
<1>2. \A y \in S : n - y \in T
  OBVIOUS
<1>3. \A x \in T : \E m \in S : x = n - m
  OBVIOUS
<1> HIDE DEF T
<1>4. PICK m \in S : Min(T) = n - m
  BY <1>1, <1>3, Least
<1>5. \A y \in S : n - m <= n - y
  BY <1>1, <1>2, <1>4, Least
<1>6. \A y \in S : m >= y
  BY <1>5
<1> QED BY <1>6 DEF Max

-----------------------------------------------------------------------------
(* Connections.                                                            *)

\* A client that is on its way or there has a connection, the one it asked for last.
LEMMA MineIs ==
  ASSUME Typed, NEW c \in Clients, Known(c), client[c].state # "out"
  PROVE  Mine(c) \in 1 .. Len(conns) /\ conns[Mine(c)].client = c
<1> DEFINE S == {k \in DOMAIN conns : conns[k].client = c}
<1>1. Len(conns) \in Nat /\ S \subseteq 0 .. Len(conns) /\ S # {}
  BY DEF Typed, Known
<1>2. Max(S) \in S
  BY <1>1, Greatest
<1> QED BY <1>2 DEF Mine, Typed

\* Whose connections stay in the same hands keeps its last one.
LEMMA SameMine ==
  ASSUME conns \in Seq(Connection), conns' \in Seq(Connection), Len(conns') = Len(conns),
         \A k \in 1 .. Len(conns) : conns'[k].client = conns[k].client
  PROVE  \A c : Mine(c)' = Mine(c)
<1> TAKE c
<1>1. {k \in DOMAIN conns' : conns'[k].client = c} = {k \in DOMAIN conns : conns[k].client = c}
  OBVIOUS
<1> QED BY <1>1 DEF Mine

\* There is a free peer as long as fewer connections than peers were asked for.
LEMMA FreePeerIs ==
  ASSUME LanAssumption, Typed, Len(conns) < MaxAsks
  PROVE  /\ FreePeer \in Peers
         /\ \A k \in 1 .. Len(conns) : conns[k].host # "closed" => conns[k].peer # FreePeer
<1> DEFINE Used == {conns[k].peer : k \in {j \in DOMAIN conns : conns[j].host # "closed"}}
           S == Peers \ Used
<1>1. S # {}
  <2> SUFFICES ASSUME S = {} PROVE FALSE
    OBVIOUS
  <2>1. \A p \in Peers : \E k \in 1 .. Len(conns) : conns[k].peer = p
    BY DEF Typed
  <2> DEFINE f == [p \in Peers |-> CHOOSE k \in 1 .. Len(conns) : conns[k].peer = p]
  <2>2. \A p \in Peers : f[p] \in 1 .. Len(conns) /\ conns[f[p]].peer = p
    BY <2>1
  <2>3. f \in [Peers -> 1 .. Len(conns)]
    BY <2>2
  <2> HIDE DEF f
  <2>4. f \in Injection(Peers, 1 .. Len(conns))
    BY <2>2, <2>3 DEF Injection, IsInjective
  <2>5. Len(conns) \in Int /\ MaxAsks \in Int /\ Len(conns) >= 0 /\ MaxAsks >= 1
    BY DEF Typed, LanAssumption
  <2>6. IsFiniteSet(1 .. Len(conns)) /\ Cardinality(Peers) = MaxAsks
    BY <2>5, FS_Interval DEF Peers
  <2>8. Cardinality(1 .. Len(conns)) = Len(conns)
    <3>1. PICK n \in Nat : n = Len(conns)
      BY <2>5
    <3>2. Cardinality(1 .. n) = IF 1 > n THEN 0 ELSE n - 1 + 1
      BY FS_Interval
    <3> QED BY <3>1, <3>2
  <2>7. Cardinality(Peers) <= Cardinality(1 .. Len(conns))
    BY <2>4, <2>6, FS_Injection
  <2> QED BY <2>5, <2>6, <2>7, <2>8
<1>2. S \subseteq Nat
  BY DEF Peers
<1>3. FreePeer = Min(S)
  BY DEF FreePeer
<1>4. FreePeer \in S
  BY <1>1, <1>2, <1>3, Least
<1>5. \A k \in 1 .. Len(conns) : conns[k].host # "closed" => conns[k].peer \in Used
  BY DEF Typed
<1> QED BY <1>4, <1>5

-----------------------------------------------------------------------------
(* What is counted and what is said.                                       *)

\* The number of places taken, when at most one is given or given up.
LEMMA Count ==
  ASSUME LanAssumption, NEW g, NEW h, NEW i \in Ids,
         \A j \in Ids \ {i} : g.players[j].status = "none" <=> h.players[j].status = "none"
  PROVE  /\ Cardinality(Taken(g)) \in 0 .. MaxPlayers
         /\ (g.players[i].status = "none" <=> h.players[i].status = "none")
               => Cardinality(Taken(h)) = Cardinality(Taken(g))
         /\ g.players[i].status = "none" /\ h.players[i].status # "none"
               => Cardinality(Taken(h)) = Cardinality(Taken(g)) + 1
         /\ g.players[i].status # "none" /\ h.players[i].status = "none"
               => Cardinality(Taken(h)) = Cardinality(Taken(g)) - 1
<1>1. IsFiniteSet(Ids) /\ Cardinality(Ids) = MaxPlayers /\ MaxPlayers \in Nat
  <2>1. MaxPlayers - 1 \in Int /\ MaxPlayers >= 1 /\ MaxPlayers \in Nat
    BY DEF LanAssumption
  <2> QED BY <2>1, FS_Interval DEF Ids
<1>2. Taken(g) \in SUBSET Ids
  BY DEF Taken
<1>3. IsFiniteSet(Taken(g)) /\ Cardinality(Taken(g)) <= MaxPlayers
  BY <1>1, <1>2, FS_Subset
<1>4. Cardinality(Taken(g)) \in Nat
  BY <1>3, FS_CardinalityType
<1>5. ASSUME g.players[i].status = "none" <=> h.players[i].status = "none"
      PROVE  Taken(h) = Taken(g)
  BY <1>5 DEF Taken
<1>6. ASSUME g.players[i].status = "none", h.players[i].status # "none"
      PROVE  Taken(h) = Taken(g) \cup {i} /\ i \notin Taken(g)
  BY <1>6 DEF Taken
<1>7. ASSUME g.players[i].status # "none", h.players[i].status = "none"
      PROVE  Taken(h) = Taken(g) \ {i} /\ i \in Taken(g)
  BY <1>7 DEF Taken
<1>8. Cardinality(Taken(g) \cup {i}) = IF i \in Taken(g) THEN Cardinality(Taken(g))
                                       ELSE Cardinality(Taken(g)) + 1
  BY <1>3, FS_AddElement
<1>9. Cardinality(Taken(g) \ {i}) = IF i \in Taken(g) THEN Cardinality(Taken(g)) - 1
                                    ELSE Cardinality(Taken(g))
  BY <1>3, FS_RemoveElement
<1>10. Cardinality(Taken(g)) \in 0 .. MaxPlayers
  BY <1>1, <1>3, <1>4
<1> QED BY <1>5, <1>6, <1>7, <1>8, <1>9, <1>10

\* Who is counted right is one of at most sixteen, and the byte that is sent tells how many.
LEMMA Number ==
  ASSUME LanAssumption, NEW h, Counted(h)
  PROVE  h.num \in 0 .. MaxPlayers /\ MaxPlayers \in 1 .. 16 /\ h.num % 256 = h.num
<1>1. 0 \in Ids /\ MaxPlayers \in 1 .. 16
  BY DEF LanAssumption, Ids
<1>2. h.num \in 0 .. MaxPlayers
  BY <1>1, Count DEF Counted
<1>3. PICK n \in 0 .. 16 : n = h.num
  BY <1>1, <1>2
<1>4. n % 256 = n
  OBVIOUS
<1> QED BY <1>1, <1>2, <1>3, <1>4

\* The place that is given to a player is free: were it not, all places before it were taken, and
\* the count were too small.
LEMMA FreeIdIs ==
  ASSUME LanAssumption, Typed, Counted(host), host.num < MaxPlayers
  PROVE  /\ FreeIds # {} /\ Min(FreeIds) \in Ids \ {0}
         /\ host.players[Min(FreeIds)].status = "none"
<1>1. MaxPlayers \in Nat /\ host.num \in Nat /\ 0 \in Ids
  BY Number DEF LanAssumption, Ids
<1>2. host.num \in FreeIds /\ FreeIds \subseteq Ids /\ Ids \subseteq Nat
  BY <1>1 DEF FreeIds, Ids
<1>3. PICK m : m = Min(FreeIds)
  OBVIOUS
<1>4. m \in FreeIds /\ \A y \in FreeIds : m <= y
  BY <1>2, <1>3, Least
<1>5. IsFiniteSet(Taken(host)) /\ Taken(host) \subseteq Ids
  <2>1. IsFiniteSet(Ids)
    BY <1>1, FS_Interval DEF Ids
  <2>2. Taken(host) \in SUBSET Ids
    BY DEF Taken
  <2> QED BY <2>1, <2>2, FS_Subset
<1>6. ASSUME host.players[m].status # "none" PROVE FALSE
  <2>1. m = host.num
    <3>1. m >= host.num
      BY <1>4, <1>6 DEF FreeIds
    <3>2. m <= host.num /\ m \in Nat
      BY <1>2, <1>4
    <3> QED BY <1>1, <3>1, <3>2
  <2>2. ASSUME NEW y \in 0 .. host.num PROVE y \in Taken(host)
    <3>1. CASE y = m
      BY <1>4, <1>6, <3>1 DEF FreeIds, Taken
    <3>2. CASE y # m
      <4>1. y \in Ids /\ y < m
        BY <1>1, <2>1, <3>2 DEF Ids, LanAssumption
      <4>2. y \notin FreeIds
        BY <1>1, <1>2, <1>4, <4>1
      <4> QED BY <4>1, <4>2 DEF FreeIds, Taken
    <3> QED BY <3>1, <3>2
  <2>3. (0 .. host.num) \in SUBSET Taken(host)
    BY <2>2
  <2>4. Cardinality(0 .. host.num) <= Cardinality(Taken(host))
    BY <1>5, <2>3, FS_Subset
  <2>5. Cardinality(0 .. host.num) = host.num + 1
    BY <1>1, FS_Interval
  <2> QED BY <1>1, <2>4, <2>5 DEF Counted
<1>7. m # 0
  BY <1>6 DEF Counted
<1> QED BY <1>2, <1>3, <1>4, <1>6, <1>7

\* The commands and what they carry.
LEMMA Commands ==
  /\ \A id \in Ids : [kind |-> "init", id |-> id] \in Messages
  /\ \A id \in Ids : [kind |-> "info", id |-> id] \in Messages
  /\ [kind |-> "begin"] \in Messages /\ [kind |-> "end"] \in Messages
  /\ \A h \in HostType : PlayerList(h) \in Messages
<1>1. ASSUME NEW h \in HostType PROVE PlayerList(h) \in Messages
  <2>1. h.num \in Int /\ h.players \in PlayerLists
    BY DEF HostType, Counts
  <2>2. h.num % 256 \in 0 .. 255
    BY <2>1
  <2> QED BY <2>1, <2>2 DEF PlayerList, Messages
<1> QED BY <1>1 DEF Messages

\* A list has the players and their number.
LEMMA Lists ==
  ASSUME NEW m \in Messages, m.kind = "list"
  PROVE  m.players \in PlayerLists /\ m.num \in 0 .. 255
  BY DEF Messages

\* What is read of a queue has been in it; what is appended comes last.
LEMMA Queues ==
  ASSUME NEW q \in Seq(Messages)
  PROVE  /\ Tail(q) \in Seq(Messages) \/ q = <<>>
         /\ q # <<>> => /\ Head(q) \in Messages /\ Head(q) = q[1]
                        /\ Len(Tail(q)) = Len(q) - 1 /\ Len(q) \in Nat \ {0}
                        /\ \A n \in 1 .. Len(Tail(q)) : Tail(q)[n] = q[n + 1] /\ n + 1 \in 1 .. Len(q)
         /\ \A m \in Messages :
               /\ Append(q, m) \in Seq(Messages) /\ Len(Append(q, m)) = Len(q) + 1
               /\ Append(q, m)[Len(q) + 1] = m
               /\ \A n \in 1 .. Len(q) : Append(q, m)[n] = q[n]
  OBVIOUS

\* Connections but for one.
But(a, b, k) ==
    /\ a \in Seq(Connection) /\ Len(a) = Len(b)
    /\ \A j \in 1 .. Len(b) : j # k => a[j] = b[j]

\* One connection is changed.
LEMMA One ==
  ASSUME NEW all \in Seq(Connection), NEW k \in 1 .. Len(all), NEW r \in Connection
  PROVE  But([all EXCEPT ![k] = r], all, k) /\ [all EXCEPT ![k] = r][k] = r
  BY DEF But

\* A connection on which something is said, or heard.
LEMMA Under ==
  ASSUME NEW q \in Connection
  PROVE  /\ q.up \in Seq(Messages) /\ q.down \in Seq(Messages)
         /\ \A s \in Seq(Messages) :
               /\ [q EXCEPT !.up = s] \in Connection /\ [q EXCEPT !.down = s] \in Connection
               /\ [q EXCEPT !.up = s].up = s /\ [q EXCEPT !.down = s].down = s
               /\ [q EXCEPT !.up = s].down = q.down /\ [q EXCEPT !.down = s].up = q.up
               /\ \A r \in {[q EXCEPT !.up = s], [q EXCEPT !.down = s]} :
                     /\ r.client = q.client /\ r.peer = q.peer /\ r.alive = q.alive
                     /\ r.host = q.host /\ r.far = q.far
         /\ [q EXCEPT !.up = q.up] = q /\ [q EXCEPT !.down = q.down] = q
  BY DEF Connection

\* What the host tells everybody is added to what is under way to those who are there.
Hears(q, message) == IF q.host = "open" /\ q.alive THEN Append(q.down, message) ELSE q.down
LEMMA BroadcastIs ==
  ASSUME NEW all \in Seq(Connection), NEW message \in Messages
  PROVE  /\ Broadcast(message, all) \in Seq(Connection) /\ Len(Broadcast(message, all)) = Len(all)
         /\ \A k \in 1 .. Len(all) :
               /\ Broadcast(message, all)[k].client = all[k].client
               /\ Broadcast(message, all)[k].peer = all[k].peer
               /\ Broadcast(message, all)[k].up = all[k].up
               /\ Broadcast(message, all)[k].alive = all[k].alive
               /\ Broadcast(message, all)[k].host = all[k].host
               /\ Broadcast(message, all)[k].far = all[k].far
               /\ Broadcast(message, all)[k].down = Hears(all[k], message)
<1> DEFINE f(k) == IF all[k].host = "open" /\ all[k].alive
                   THEN [all[k] EXCEPT !.down = Append(@, message)] ELSE all[k]
<1>1. \A k \in 1 .. Len(all) : all[k] \in Connection
  OBVIOUS
<1>2. ASSUME NEW q \in Connection
      PROVE  [q EXCEPT !.down = Append(@, message)] \in Connection
  <2>1. Append(q.down, message) \in Seq(Messages)
    BY Under
  <2> QED BY <2>1, Under
<1>3. \A k \in 1 .. Len(all) : f(k) \in Connection
  BY <1>1, <1>2
<1>4. Broadcast(message, all) = [k \in 1 .. Len(all) |-> f(k)]
  BY DEF Broadcast
<1>5. Broadcast(message, all) \in Seq(Connection) /\ Len(Broadcast(message, all)) = Len(all)
  <2> HIDE DEF f
  <2> QED BY <1>3, <1>4
<1>6. \A k \in 1 .. Len(all) : Broadcast(message, all)[k] = f(k)
  BY <1>4
<1>7. ASSUME NEW q \in Connection, NEW r,
             r = IF q.host = "open" /\ q.alive THEN [q EXCEPT !.down = Append(@, message)] ELSE q
      PROVE  /\ r.client = q.client /\ r.peer = q.peer /\ r.up = q.up /\ r.alive = q.alive
             /\ r.host = q.host /\ r.far = q.far /\ r.down = Hears(q, message)
  BY <1>7, Under DEF Hears
<1> SUFFICES ASSUME NEW k \in 1 .. Len(all), NEW q, q = all[k], NEW r, r = Broadcast(message, all)[k]
             PROVE  /\ r.client = q.client /\ r.peer = q.peer /\ r.up = q.up /\ r.alive = q.alive
                    /\ r.host = q.host /\ r.far = q.far /\ r.down = Hears(q, message)
  BY <1>5
<1> QED BY ZenonT(40), <1>1, <1>6, <1>7

\* What an end says is added to what is under way, if the other is there.
LEMMA SentIs ==
  ASSUME NEW all \in Seq(Connection), NEW k \in 1 .. Len(all), NEW message \in Messages
  PROVE  /\ But(Sent(k, "up", message, all), all, k) /\ But(Sent(k, "down", message, all), all, k)
         /\ Sent(k, "up", message, all)[k] =
               [all[k] EXCEPT !.up = IF all[k].alive THEN Append(@, message) ELSE @]
         /\ Sent(k, "down", message, all)[k] =
               [all[k] EXCEPT !.down = IF all[k].alive THEN Append(@, message) ELSE @]
<1>1. PICK q \in Connection : q = all[k]
  OBVIOUS
<1>2. Append(q.up, message) \in Seq(Messages) /\ Append(q.down, message) \in Seq(Messages)
  BY Under
<1>3. But(all, all, k)
  BY DEF But
<1>4. CASE ~q.alive
  <2>1. Sent(k, "up", message, all) = all /\ Sent(k, "down", message, all) = all
    BY <1>1, <1>4 DEF Sent
  <2> QED BY ZenonT(40), <1>1, <1>3, <1>4, <2>1, Under
<1>5. CASE q.alive
  <2>1. /\ Sent(k, "up", message, all) = [all EXCEPT ![k] = [q EXCEPT !.up = Append(@, message)]]
        /\ Sent(k, "down", message, all)
              = [all EXCEPT ![k] = [q EXCEPT !.down = Append(@, message)]]
    BY <1>1, <1>5 DEF Sent
  <2>2. /\ [q EXCEPT !.up = Append(@, message)] \in Connection
        /\ [q EXCEPT !.down = Append(@, message)] \in Connection
    BY <1>2, Under
  <2>3. PICK r \in Connection, t \in Connection :
            r = [q EXCEPT !.up = Append(@, message)] /\ t = [q EXCEPT !.down = Append(@, message)]
    BY <2>2
  <2>4. But([all EXCEPT ![k] = r], all, k) /\ [all EXCEPT ![k] = r][k] = r
    BY One
  <2>5. But([all EXCEPT ![k] = t], all, k) /\ [all EXCEPT ![k] = t][k] = t
    BY One
  <2> QED BY <1>1, <1>5, <2>1, <2>3, <2>4, <2>5
<1> QED BY <1>4, <1>5

-----------------------------------------------------------------------------
(* Steps that give nobody a place and take nobody's.                       *)

\* What may become of a connection in such a step.
TameTo(r, k) ==
    /\ r.client = conns[k].client /\ r.peer = conns[k].peer
    /\ \/ r.host = conns[k].host
       \/ conns[k].host \in {"shaking", "closing"} /\ r.host \in {"closing", "closed"}
    /\ r.far = "asking" => r.host \in {"shaking", "closed"}
    /\ r.host = "shaking" => r.up = <<>> /\ r.down = <<>>
    /\ r.host = "open" =>
          /\ \A n \in 1 .. Len(r.up) : r.up[n].kind = "info" => r.up[n].id = data[conns[k].peer]
          /\ \A n \in 1 .. Len(r.down) :
                 r.down[n].kind = "init" => r.down[n].id = data[conns[k].peer]

\* What may become of a client: it stays, leaves, or is in the session with the number that its
\* connection has.
Keeps(c) ==
    \/ client'[c].state = "in" /\ client[c].state = "in" /\ client'[c].id = client[c].id
    \/ /\ client'[c].state = "in" /\ client[c].state = "joining"
       /\ host.active => /\ conns[Mine(c)].host # "shaking"
                         /\ conns[Mine(c)].host = "open"
                               => client'[c].id = data[conns[Mine(c)].peer]
    \/ client'[c] \in {client[c], NewClient} /\ client'[c].state # "in"

\* A connection that nothing is done with.
LEMMA Untouched ==
  ASSUME NEW k, Wire(k)
  PROVE  TameTo(conns[k], k)
  BY DEF TameTo, Wire

\* The clients know what they should.
LEMMA KnownStep ==
  ASSUME Typed, Typed', \A c \in Clients : Known(c), \A c \in Clients : Keeps(c),
         Len(conns') = Len(conns), \A k \in 1 .. Len(conns) : conns'[k].client = conns[k].client
  PROVE  \A c \in Clients : Known(c)'
<1> SUFFICES ASSUME NEW c \in Clients PROVE Known(c)'
  OBVIOUS
<1>1. Known(c) /\ Keeps(c)
  OBVIOUS
<1>2. NewClient.state = "out"
  BY DEF NewClient
<1>3. client'[c] = client[c] \/ client'[c] = NewClient
         \/ (client[c].state # "out" /\ client'[c].state = "in")
  BY <1>1 DEF Keeps
<1>4. (\E k \in 1 .. Len(conns) : conns[k].client = c)
         => \E k \in 1 .. Len(conns') : conns'[k].client = c
  OBVIOUS
<1> QED BY <1>1, <1>2, <1>3, <1>4 DEF Known

\* A tame step leaves places, peers and numbers together.
LEMMA TameStep ==
  ASSUME LanAssumption, Typed, Typed', host.active, Right, data' = data,
         Len(conns') = Len(conns), \A k \in 1 .. Len(conns) : TameTo(conns'[k], k),
         \A c \in Clients : Keeps(c), host'.num = host.num, host'.remote = host.remote,
         \A i \in Ids : /\ host'.players[i].status = "none" <=> host.players[i].status = "none"
                        /\ host'.players[i].who = host.players[i].who,
         host'.players[0].status = "host"
  PROVE  Right'
<1>1. 0 \in Ids
  BY DEF Ids, LanAssumption
<1>2. Counted(host)'
  <2>1. Taken(host') = Taken(host)
    BY DEF Taken
  <2> QED BY <2>1 DEF Right, Counted
<1>3. \A k \in 1 .. Len(conns) : conns'[k].host = "open" <=> conns[k].host = "open"
  BY DEF TameTo
<1>4. \A k \in 1 .. Len(conns) : conns'[k].peer = conns[k].peer /\ conns'[k].client = conns[k].client
  BY DEF TameTo
<1>5. \A k \in 1 .. Len(conns) : conns'[k].host # "closed" => conns[k].host # "closed"
  BY DEF TameTo
<1>6. Placed'
  BY <1>3, <1>4 DEF Placed, Right
<1>7. Apart'
  BY <1>4, <1>5 DEF Apart, Right
<1>8. \A c : Mine(c)' = Mine(c)
  BY <1>4, SameMine DEF Typed
<1>9. ASSUME NEW k \in 1 .. Len(conns') PROVE Wire(k)' /\ Own(k)'
  <2>1. k \in 1 .. Len(conns) /\ Wire(k) /\ Own(k) /\ TameTo(conns'[k], k)
    BY <1>9 DEF Right
  <2>2. Wire(k)'
    <3>1. conns'[k].far = "asking" => conns'[k].host \in {"shaking", "closed"}
      BY <2>1 DEF TameTo
    <3>2. conns'[k].host = "shaking" => conns'[k].up = <<>> /\ conns'[k].down = <<>>
      BY <2>1 DEF TameTo
    <3>4. ASSUME conns'[k].host = "open"
          PROVE  /\ data'[conns'[k].peer] \in Ids \ {0}
                 /\ host'.remote[data'[conns'[k].peer]] = k
                 /\ host'.players[data'[conns'[k].peer]].who = conns'[k].client
      BY <1>3, <1>4, <2>1, <3>4 DEF Wire
    <3>5. ASSUME conns'[k].host = "open"
          PROVE  /\ \A n \in 1 .. Len(conns'[k].up) : conns'[k].up[n].kind = "info"
                       => conns'[k].up[n].id = data'[conns'[k].peer]
                 /\ \A n \in 1 .. Len(conns'[k].down) : conns'[k].down[n].kind = "init"
                       => conns'[k].down[n].id = data'[conns'[k].peer]
      BY <2>1, <3>5 DEF TameTo
    <3> QED BY <3>1, <3>2, <3>4, <3>5 DEF Wire
  <2>3. Own(k)'
    <3> SUFFICES ASSUME NEW c \in Clients, c = conns[k].client, k = Mine(c),
                        client'[c].state = "in"
                 PROVE  /\ conns'[k].host # "shaking"
                        /\ conns'[k].host = "open" => client'[c].id = data'[conns'[k].peer]
      <4>1. conns[k].client \in Clients
        <5>1. conns[k] \in Connection
          BY <2>1 DEF Typed
        <5> QED BY <5>1 DEF Connection
      <4> QED BY <1>4, <1>8, <2>1, <4>1 DEF Own
    <3>1. Keeps(c)
      OBVIOUS
    <3>2. conns'[k].host = "shaking" => conns[k].host = "shaking"
      BY <2>1 DEF TameTo
    <3>3. CASE client[c].state = "in" /\ client'[c].id = client[c].id
      <4>1. /\ conns[k].host # "shaking"
            /\ conns[k].host = "open" => client[c].id = data[conns[k].peer]
        BY <2>1, <3>3 DEF Own
      <4> QED BY <1>3, <1>4, <2>1, <3>2, <3>3, <4>1
    <3>4. CASE /\ conns[Mine(c)].host # "shaking"
               /\ conns[Mine(c)].host = "open" => client'[c].id = data[conns[Mine(c)].peer]
      BY <1>3, <1>4, <2>1, <3>2, <3>4
    <3> QED BY <3>1, <3>3, <3>4 DEF Keeps
  <2> QED BY <2>2, <2>3
<1> QED BY <1>2, <1>6, <1>7, <1>9 DEF Right

\* So does one that does something with one connection, or nothing.
LEMMA OneStep ==
  ASSUME LanAssumption, PInv, Typed', data' = data,
         NEW k \in 1 .. Len(conns), But(conns', conns, k),
         conns'[k].client = conns[k].client, host.active => TameTo(conns'[k], k),
         \A c \in Clients : Keeps(c), host'.num = host.num, host'.remote = host.remote,
         host'.active = host.active, host'.players = host.players
  PROVE  PInv'
<1>1. Len(conns') = Len(conns) /\ \A j \in 1 .. Len(conns) : j # k => conns'[j] = conns[j]
  BY DEF But
<1>2. \A c \in Clients : Known(c)'
  BY <1>1, KnownStep DEF PInv
<1>3. ASSUME host.active PROVE Right'
  <2>1. Right
    BY <1>3 DEF PInv
  <2>2. \A j \in 1 .. Len(conns) : TameTo(conns'[j], j)
    BY <1>1, <1>3, <2>1, Untouched DEF Right
  <2>3. host'.players[0].status = "host"
    BY <2>1 DEF Right, Counted
  <2> QED BY <1>1, <1>3, <2>1, <2>2, <2>3, TameStep DEF PInv
<1> QED BY <1>2, <1>3 DEF PInv

\* So does one that leaves the connections alone.
LEMMA NoStep ==
  ASSUME LanAssumption, PInv, Typed', data' = data, conns' = conns,
         \A c \in Clients : Keeps(c), host' = host
  PROVE  PInv'
<1>1. \A c \in Clients : Known(c)'
  BY KnownStep DEF PInv
<1>2. ASSUME host.active PROVE Right'
  <2>1. Right
    BY <1>2 DEF PInv
  <2>2. \A j \in 1 .. Len(conns) : TameTo(conns'[j], j)
    BY <2>1, Untouched DEF Right
  <2>3. host'.players[0].status = "host"
    BY <2>1 DEF Right, Counted
  <2> QED BY <1>2, <2>1, <2>2, <2>3, TameStep DEF PInv
<1> QED BY <1>1, <1>2 DEF PInv

-----------------------------------------------------------------------------
(* The network and the clients.                                            *)

\* A client out of the session, and what one learns in it, is of its type.
LEMMA ClientTypes ==
  ASSUME LanAssumption
  PROVE  /\ NewClient \in ClientType /\ NewClient.state = "out"
         /\ Empty \in PlayerLists
         /\ \A q \in ClientType :
               /\ [q EXCEPT !.state = "joining"] \in ClientType
               /\ \A id \in Ids : [q EXCEPT !.state = "in", !.id = id] \in ClientType
               /\ \A id \in Ids : [q EXCEPT !.mask = @ \cup {id}] \in ClientType
               /\ \A id \in Ids : [q EXCEPT !.mask = @ \ {id}] \in ClientType
               /\ \A id \in Ids : [q EXCEPT !.mask = @ \cup {id}, !.last = None] \in ClientType
               /\ [q EXCEPT !.last = 0] \in ClientType
               /\ \A ps \in PlayerLists, n \in 0 .. 16 :
                     [q EXCEPT !.players = ps, !.num = n] \in ClientType
<1>1. 0 \in Ids /\ 0 \in 0 .. 16
  BY DEF LanAssumption, Ids
<1>2. Empty \in PlayerLists
  BY DEF Empty, PlayerLists, Statuses
<1>3. NewClient \in ClientType /\ NewClient.state = "out"
  BY <1>1, <1>2 DEF NewClient, ClientType
<1>4. ASSUME NEW q \in ClientType
      PROVE  /\ [q EXCEPT !.state = "joining"] \in ClientType
             /\ \A id \in Ids : [q EXCEPT !.state = "in", !.id = id] \in ClientType
             /\ \A id \in Ids : [q EXCEPT !.mask = @ \cup {id}] \in ClientType
             /\ \A id \in Ids : [q EXCEPT !.mask = @ \ {id}] \in ClientType
             /\ \A id \in Ids : [q EXCEPT !.mask = @ \cup {id}, !.last = None] \in ClientType
             /\ [q EXCEPT !.last = 0] \in ClientType
             /\ \A ps \in PlayerLists, n \in 0 .. 16 :
                   [q EXCEPT !.players = ps, !.num = n] \in ClientType
  BY DEF ClientType
<1> QED BY <1>2, <1>3, <1>4

\* The network fails.
LEMMA LoseStep ==
  ASSUME LanAssumption, PInv, NEW k \in DOMAIN conns, Lose(k)
  PROVE  PInv'
<1>1. PICK q \in Connection : q = conns[k] /\ k \in 1 .. Len(conns)
  BY DEF PInv, Typed
<1>2. PICK r \in Connection : r = [q EXCEPT !.alive = FALSE]
  BY DEF Connection
<1>3. But(conns', conns, k) /\ conns'[k] = r
  BY <1>1, <1>2, One DEF Lose, PInv, Typed
<1>4. r.client = q.client /\ r.peer = q.peer /\ r.host = q.host /\ r.far = q.far
         /\ r.up = q.up /\ r.down = q.down
  BY <1>2 DEF Connection
<1>5. Typed'
  BY <1>3 DEF Lose, PInv, Typed, But
<1>6. \A c \in Clients : Keeps(c)
  BY DEF Lose, Keeps, PInv, Typed, ClientType
<1>7. host.active => TameTo(r, k)
  BY <1>1, <1>4 DEF TameTo, PInv, Right, Wire
<1> QED BY <1>1, <1>3, <1>4, <1>5, <1>6, <1>7, OneStep DEF Lose

\* A handshake that fails.
LEMMA HandshakeFailsStep ==
  ASSUME LanAssumption, PInv, NEW k \in DOMAIN conns, HandshakeFails(k)
  PROVE  PInv'
<1>1. PICK q \in Connection : q = conns[k] /\ k \in 1 .. Len(conns) /\ q.host = "shaking"
  BY DEF PInv, Typed, HandshakeFails
<1>2. PICK r \in Connection : r = [q EXCEPT !.host = "closed", !.up = <<>>]
  <2>1. <<>> \in Seq(Messages)
    OBVIOUS
  <2> QED BY <2>1 DEF Connection
<1>3. But(conns', conns, k) /\ conns'[k] = r
  BY ZenonT(40), <1>1, <1>2, One DEF HandshakeFails, PInv, Typed
<1>4. r.client = q.client /\ r.peer = q.peer /\ r.host = "closed" /\ r.far = q.far
         /\ r.up = <<>> /\ r.down = q.down
  BY <1>2 DEF Connection
<1>5. Typed'
  BY <1>3 DEF HandshakeFails, PInv, Typed, But
<1>6. \A c \in Clients : Keeps(c)
  BY DEF HandshakeFails, Keeps, PInv, Typed, ClientType
<1>7. host.active => TameTo(r, k)
  BY <1>1, <1>4 DEF TameTo, PInv, Right, Wire
<1> QED BY <1>1, <1>3, <1>4, <1>5, <1>6, <1>7, OneStep DEF HandshakeFails

\* A client's connection is made.
LEMMA ConnectedStep ==
  ASSUME LanAssumption, PInv, NEW c \in Clients, Connected(c)
  PROVE  PInv'
<1>1. PICK k : k = Mine(c)
  OBVIOUS
<1>2. k \in 1 .. Len(conns) /\ conns[k].client = c
  BY <1>1, MineIs DEF PInv, Connected
<1>3. PICK q \in Connection : q = conns[k]
  BY <1>2 DEF PInv, Typed
<1>4. PICK r \in Connection : r = [q EXCEPT !.far = "open"]
  BY DEF Connection
<1>5. But(conns', conns, k) /\ conns'[k] = r
  <2>1. conns' = [conns EXCEPT ![k] = r] /\ conns \in Seq(Connection)
    BY <1>1, <1>2, <1>3, <1>4 DEF Connected, PInv, Typed
  <2> QED BY <1>2, <2>1, One
<1>6. r.client = q.client /\ r.peer = q.peer /\ r.host = q.host /\ r.far = "open"
         /\ r.up = q.up /\ r.down = q.down
  BY <1>4 DEF Connection
<1>7. Typed'
  BY <1>5 DEF Connected, PInv, Typed, But
<1>8. \A b \in Clients : Keeps(b)
  BY DEF Connected, Keeps, PInv, Typed, ClientType
<1>9. host.active => TameTo(r, k)
  BY <1>2, <1>3, <1>6 DEF TameTo, PInv, Right, Wire
<1> QED BY <1>2, <1>3, <1>5, <1>6, <1>7, <1>8, <1>9, OneStep DEF Connected

\* A client leaves its end.
LEMMA AbandonedStep ==
  ASSUME LanAssumption, PInv, NEW c \in Clients, client[c].state # "out",
         client' = [client EXCEPT ![c] = NewClient], conns' = Abandoned(Mine(c)),
         UNCHANGED <<use, data, host, wifi>>
  PROVE  PInv'
<1>1. PICK k : k = Mine(c)
  OBVIOUS
<1>2. k \in 1 .. Len(conns) /\ conns[k].client = c
  BY <1>1, MineIs DEF PInv
<1>3. PICK q \in Connection : q = conns[k]
  BY <1>2 DEF PInv, Typed
<1>4. PICK r \in Connection :
          r = [q EXCEPT !.alive = FALSE, !.far = "closed", !.down = <<>>,
                        !.host = IF q.far = "asking" THEN "closed" ELSE @]
  <2>1. <<>> \in Seq(Messages)
    OBVIOUS
  <2>2. (IF q.far = "asking" THEN "closed" ELSE q.host) \in {"shaking", "open", "closing", "closed"}
    BY DEF Connection
  <2> QED BY <2>1, <2>2 DEF Connection
<1>5. But(conns', conns, k) /\ conns'[k] = r
  <2>1. conns' = [conns EXCEPT ![k] = r] /\ conns \in Seq(Connection)
    BY <1>1, <1>2, <1>3, <1>4 DEF Abandoned, PInv, Typed
  <2>2. conns \in Seq(Connection)
    BY <2>1
  <2>3. But([conns EXCEPT ![k] = r], conns, k) /\ [conns EXCEPT ![k] = r][k] = r
    BY <1>2, <2>2, One
  <2> QED BY <2>1, <2>3
<1>6. r.client = q.client /\ r.peer = q.peer /\ r.far = "closed" /\ r.up = q.up /\ r.down = <<>>
         /\ r.host = IF q.far = "asking" THEN "closed" ELSE q.host
  BY <1>4 DEF Connection
<1>7. Typed'
  BY <1>5, ClientTypes DEF PInv, Typed, But
<1>8. ASSUME NEW b \in Clients PROVE Keeps(b)
  <2>1. NewClient.state = "out" /\ client \in [Clients -> ClientType] /\ client[b] \in ClientType
    BY ClientTypes DEF PInv, Typed
  <2>2. client'[b] = IF b = c THEN NewClient ELSE client[b]
    BY <2>1
  <2>3. client[b].state = "in" \/ client[b].state # "in"
    OBVIOUS
  <2> QED BY <2>1, <2>2, <2>3 DEF Keeps
<1>9. host.active => TameTo(r, k)
  BY <1>2, <1>3, <1>6 DEF TameTo, PInv, Right, Wire
<1> QED BY <1>2, <1>3, <1>5, <1>6, <1>7, <1>8, <1>9, OneStep

\* A client takes a command: it is the last connection's, and may be its number.
Takes(c, k, q, r) ==
    /\ k \in 1 .. Len(conns) /\ q \in Connection /\ r \in Connection /\ q.client = c
    /\ Head(q.down) \in Messages /\ conns \in Seq(Connection)
    /\ [conns EXCEPT ![Mine(c)].down = Tail(@)] = [conns EXCEPT ![k] = r]
    /\ r.client = q.client /\ r.peer = q.peer /\ r.host = q.host /\ r.far = q.far
    /\ r.alive = q.alive /\ r.up = q.up /\ r.down = Tail(q.down)
    /\ r.down \in Seq(Messages) /\ Len(r.down) = Len(q.down) - 1
    /\ Len(q.down) \in Nat \ {0} /\ Head(q.down) = q.down[1]
    /\ \A n \in 1 .. Len(r.down) : r.down[n] = q.down[n + 1] /\ n + 1 \in 1 .. Len(q.down)
    /\ host.active => Wire(k) /\ TameTo(r, k) /\ q.host # "shaking"
    /\ host.active /\ q.host = "open" /\ Head(q.down).kind = "init"
          => Head(q.down).id = data[q.peer]

LEMMA Taking ==
  ASSUME LanAssumption, PInv, NEW c \in Clients, client[c].state # "out",
         NEW k, k = Mine(c), NEW q, q = conns[k], q.down # <<>>,
         NEW r, r = [q EXCEPT !.down = Tail(q.down)]
  PROVE  Takes(c, k, q, r)
<1>2. k \in 1 .. Len(conns) /\ conns[k].client = c /\ conns \in Seq(Connection)
  BY MineIs DEF PInv, Typed
<1>3. q \in Connection
  BY <1>2
<1>4. q.down # <<>> /\ q.down \in Seq(Messages) /\ q.client = c
  BY <1>2, <1>3, Under
<1>5. /\ Tail(q.down) \in Seq(Messages) /\ Head(q.down) \in Messages /\ Head(q.down) = q.down[1]
      /\ Len(Tail(q.down)) = Len(q.down) - 1 /\ Len(q.down) \in Nat \ {0}
      /\ \A n \in 1 .. Len(Tail(q.down)) : Tail(q.down)[n] = q.down[n + 1] /\ n + 1 \in 1 .. Len(q.down)
  BY <1>4, Queues
<1>6. r \in Connection
  BY <1>3, <1>5, Under
<1>7. /\ r.client = q.client /\ r.peer = q.peer /\ r.host = q.host /\ r.far = q.far
      /\ r.alive = q.alive /\ r.up = q.up /\ r.down = Tail(q.down)
  BY <1>3, <1>5, Under
<1>8. [conns EXCEPT ![Mine(c)].down = Tail(@)] = [conns EXCEPT ![k] = r]
  BY <1>2
<1>9. ASSUME host.active PROVE Wire(k) /\ q.host # "shaking"
  BY <1>2, <1>3, <1>4, <1>9 DEF PInv, Right, Wire
<1>10. ASSUME host.active, q.host = "open", NEW n \in 1 .. Len(q.down), q.down[n].kind = "init"
       PROVE  q.down[n].id = data[q.peer]
  BY <1>3, <1>9, <1>10 DEF Wire
<1>11. host.active => TameTo(r, k)
  <2> SUFFICES ASSUME host.active PROVE TameTo(r, k)
    OBVIOUS
  <2>1. Wire(k) /\ q.host # "shaking"
    BY <1>9
  <2>2. r.far = "asking" => r.host \in {"shaking", "closed"}
    BY <1>3, <1>7, <2>1 DEF Wire
  <2>3. ASSUME r.host = "open", NEW n \in 1 .. Len(r.up), r.up[n].kind = "info"
        PROVE  r.up[n].id = data[q.peer]
    BY <1>3, <1>7, <2>1, <2>3 DEF Wire
  <2>4. ASSUME r.host = "open", NEW n \in 1 .. Len(r.down), r.down[n].kind = "init"
        PROVE  r.down[n].id = data[q.peer]
    BY SMTT(30), <1>5, <1>7, <1>10, <2>4
  <2> QED BY <1>3, <1>7, <2>1, <2>2, <2>3, <2>4 DEF TameTo
<1>12. host.active /\ q.host = "open" /\ Head(q.down).kind = "init" => Head(q.down).id = data[q.peer]
  BY <1>5, <1>10
<1> QED BY <1>2, <1>3, <1>4, <1>5, <1>6, <1>7, <1>8, <1>9, <1>11, <1>12 DEF Takes

\* StartClient takes a command: if it is the number, the client answers and is in the session.
LEMMA JoinedStep ==
  ASSUME LanAssumption, PInv, NEW c \in Clients, Joined(c)
  PROVE  PInv'
<1>1. client[c].state = "joining" /\ conns[Mine(c)].down # <<>>
  BY DEF Joined
<1>20. PICK k : k = Mine(c)
  OBVIOUS
<1>21. PICK q : q = conns[k]
  OBVIOUS
<1>22. PICK r : r = [q EXCEPT !.down = Tail(q.down)]
  OBVIOUS
<1>23. PICK m : m = Head(q.down)
  OBVIOUS
<1>2. /\ k = Mine(c) /\ q = conns[k] /\ q.client = c /\ m = Head(q.down)
      /\ k \in 1 .. Len(conns) /\ q \in Connection /\ r \in Connection /\ m \in Messages
      /\ conns \in Seq(Connection)
      /\ [conns EXCEPT ![Mine(c)].down = Tail(@)] = [conns EXCEPT ![k] = r]
      /\ r.client = q.client /\ r.peer = q.peer /\ r.host = q.host /\ r.far = q.far
      /\ r.alive = q.alive /\ r.up = q.up /\ r.down = Tail(q.down)
      /\ host.active => Wire(k) /\ TameTo(r, k) /\ q.host # "shaking"
      /\ host.active /\ q.host = "open" /\ m.kind = "init" => m.id = data[q.peer]
  <2>1. q.down # <<>> /\ client[c].state # "out"
    BY <1>1, <1>20, <1>21
  <2>2. Takes(c, k, q, r)
    BY <1>20, <1>21, <1>22, <2>1, Taking
  <2> QED BY <1>20, <1>21, <1>23, <2>2 DEF Takes
<1>3. PICK rest : rest = [conns EXCEPT ![k] = r]
  OBVIOUS
<1>4. But(rest, conns, k) /\ rest[k] = r
  BY <1>2, <1>3, One
<1>5. UNCHANGED <<use, data, host, wifi>> /\ client \in [Clients -> ClientType]
  BY DEF Joined, PInv, Typed
<1>6. CASE m.kind # "init"
  <2>1. conns' = rest /\ client' = client
    BY <1>2, <1>3, <1>6 DEF Joined
  <2>2. Typed'
    BY <1>4, <1>5, <2>1 DEF PInv, Typed, But
  <2>3. \A b \in Clients : Keeps(b)
    BY <1>5, <2>1 DEF Keeps, ClientType
  <2> QED BY <1>2, <1>4, <1>5, <2>1, <2>2, <2>3, OneStep
<1>7. CASE m.kind = "init"
  <2>1. /\ client' = [client EXCEPT ![c].state = "in", ![c].id = m.id]
        /\ conns' = Sent(k, "up", [kind |-> "info", id |-> m.id], rest)
    BY <1>2, <1>3, <1>7 DEF Joined
  <2>2. m.id \in Ids
    BY <1>2, <1>7 DEF Messages
  <2>3. PICK a \in Messages : a = [kind |-> "info", id |-> m.id]
    BY <2>2, Commands
  <2>4. a.kind = "info" /\ a.id = m.id
    BY <2>3
  <2>5. rest \in Seq(Connection) /\ Len(rest) = Len(conns) /\ k \in 1 .. Len(rest)
    BY <1>2, <1>4 DEF But
  <2>6. /\ But(conns', rest, k)
        /\ conns'[k] = [r EXCEPT !.up = IF r.alive THEN Append(q.up, a) ELSE q.up]
    <3>1. conns' = Sent(k, "up", a, rest)
      BY <2>1, <2>3
    <3>2. /\ But(Sent(k, "up", a, rest), rest, k)
          /\ Sent(k, "up", a, rest)[k]
                = [rest[k] EXCEPT !.up = IF rest[k].alive THEN Append(@, a) ELSE @]
      BY <2>5, SentIs
    <3> QED BY <1>2, <1>4, <3>1, <3>2
  <2>7. But(conns', conns, k)
    BY <1>4, <2>6 DEF But
  <2>8. PICK t \in Connection : t = conns'[k]
    BY <1>2, <2>7 DEF But
  <2>9. PICK s \in Seq(Messages) : s = IF r.alive THEN Append(q.up, a) ELSE q.up
    <3>1. q.up \in Seq(Messages)
      BY <1>2, Under
    <3>2. Append(q.up, a) \in Seq(Messages)
      BY <3>1
    <3> QED BY <3>1, <3>2
  <2>10. t = [r EXCEPT !.up = s]
    BY <2>6, <2>8, <2>9
  <2>11. /\ t.client = q.client /\ t.peer = q.peer /\ t.host = q.host /\ t.far = q.far
         /\ t.up = s /\ t.down = r.down
    BY <1>2, <2>10, Under
  <2>12. client'[c].state = "in" /\ client'[c].id = m.id /\ \A b \in Clients : b # c => client'[b] = client[b]
    BY <1>5, <2>1 DEF ClientType
  <2>13. Typed'
    <3>1. client' \in [Clients -> ClientType]
      <4>1. PICK o \in ClientType : o = client[c]
        BY <1>5
      <4>2. client' = [client EXCEPT ![c] = [o EXCEPT !.state = "in", !.id = m.id]]
        BY <2>1, <4>1
      <4> QED BY <1>5, <2>2, <4>2, ClientTypes
    <3>2. conns' \in Seq(Connection) /\ Len(conns') = Len(conns)
      BY <2>7 DEF But
    <3> QED BY <1>5, <3>1, <3>2 DEF PInv, Typed
  <2>14. ASSUME NEW b \in Clients PROVE Keeps(b)
    <3>1. CASE b = c
      BY <1>1, <1>2, <1>7, <2>12, <3>1 DEF Keeps
    <3>2. CASE b # c
      BY <1>5, <2>12, <3>2 DEF Keeps, ClientType
    <3> QED BY <3>1, <3>2
  <2>15. host.active => TameTo(t, k)
    <3> SUFFICES ASSUME host.active PROVE TameTo(t, k)
      OBVIOUS
    <3>1. Wire(k) /\ TameTo(r, k) /\ q.host # "shaking"
      BY <1>2
    <3>2. ASSUME t.host = "open", NEW n \in 1 .. Len(s), s[n].kind = "info"
          PROVE  s[n].id = data[q.peer]
      <4>1. q.host = "open" /\ m.id = data[q.peer]
        BY <1>2, <1>7, <2>11, <3>2
      <4>2. \A l \in 1 .. Len(q.up) : q.up[l].kind = "info" => q.up[l].id = data[q.peer]
        BY <1>2, <3>1, <4>1 DEF Wire
      <4>3. q.up \in Seq(Messages)
        BY <1>2, Under
      <4>4. s[n] = a \/ (n \in 1 .. Len(q.up) /\ s[n] = q.up[n])
        <5>1. CASE r.alive
          <6>1. s = Append(q.up, a) /\ Len(q.up) \in Nat
            BY <2>9, <4>3, <5>1
          <6>2. n \in 1 .. Len(q.up) + 1
            BY <4>3, <6>1
          <6> QED BY <4>3, <6>1, <6>2
        <5>2. CASE ~r.alive
          BY <2>9, <5>2
        <5> QED BY <5>1, <5>2
      <4> QED BY <2>4, <3>2, <4>1, <4>2, <4>4
    <3>4. t.far = "asking" => t.host \in {"shaking", "closed"}
      BY <1>2, <2>11, <3>1 DEF TameTo
    <3>3. r.host = "open" => \A n \in 1 .. Len(r.down) :
                 r.down[n].kind = "init" => r.down[n].id = data[q.peer]
      BY <1>2, <3>1 DEF TameTo
    <3>5. \/ t.host = conns[k].host
          \/ conns[k].host \in {"shaking", "closing"} /\ t.host \in {"closing", "closed"}
      BY <1>2, <2>11
    <3>6. t.host # "shaking"
      BY <1>2, <2>11, <3>1
    <3> QED BY <3>4, <1>2, <2>11, <3>2, <3>3, <3>5, <3>6 DEF TameTo
  <2> QED BY <1>2, <1>5, <2>7, <2>8, <2>11, <2>13, <2>14, <2>15, OneStep
<1> QED BY <1>6, <1>7

\* A client in the session tells the host that it plays, or that it stops, and is tame.
LEMMA Telling ==
  ASSUME LanAssumption, PInv, NEW c \in Clients, client[c].state = "in",
         NEW k, k = Mine(c), NEW a \in Messages, a.kind \in {"begin", "end"},
         conns' = IF conns[k].far = "open" THEN Sent(k, "up", a, conns) ELSE conns
  PROVE  /\ k \in 1 .. Len(conns) /\ conns[k].client = c /\ But(conns', conns, k)
         /\ conns'[k].client = conns[k].client
         /\ host.active => TameTo(conns'[k], k)
<1>1. k \in 1 .. Len(conns) /\ conns[k].client = c /\ conns \in Seq(Connection)
  BY MineIs DEF PInv, Typed
<1>2. But(conns, conns, k)
  BY <1>1 DEF But
<1>3. ASSUME host.active PROVE Wire(k) /\ Own(k) /\ TameTo(conns[k], k)
  BY <1>1, <1>3, Untouched DEF PInv, Right
<1>4. CASE conns' = conns
  BY <1>1, <1>2, <1>3, <1>4
<1>5. CASE conns' = Sent(k, "up", a, conns)
  <2>1. /\ But(conns', conns, k)
        /\ conns'[k] = [conns[k] EXCEPT !.up = IF conns[k].alive THEN Append(@, a) ELSE @]
    <3>1. PICK all \in Seq(Connection) : all = conns /\ k \in 1 .. Len(all)
      BY <1>1
    <3>2. /\ But(Sent(k, "up", a, all), all, k)
          /\ Sent(k, "up", a, all)[k]
                = [all[k] EXCEPT !.up = IF all[k].alive THEN Append(@, a) ELSE @]
      BY <3>1, SentIs
    <3> QED BY <1>5, <3>1, <3>2
  <2>2. PICK q \in Connection : q = conns[k]
    BY <1>1
  <2>3. q.up \in Seq(Messages) /\ Append(q.up, a) \in Seq(Messages)
    <3>1. q.up \in Seq(Messages)
      BY Under
    <3> QED BY <3>1
  <2>4. PICK s \in Seq(Messages) : s = IF q.alive THEN Append(q.up, a) ELSE q.up
    BY <2>3
  <2>5. PICK t : t = [q EXCEPT !.up = s]
    OBVIOUS
  <2>6. conns'[k] = t
    BY <2>1, <2>2, <2>4, <2>5
  <2>7. /\ t.client = q.client /\ t.peer = q.peer /\ t.host = q.host /\ t.far = q.far
        /\ t.up = s /\ t.down = q.down
    BY <2>5, Under
  <2>8. ASSUME host.active PROVE TameTo(t, k)
    <3>1. q.host # "shaking"
      BY <1>1, <1>3, <2>2, <2>8 DEF Own
    <3>2. \A n \in 1 .. Len(s) : s[n] = a \/ (n \in 1 .. Len(q.up) /\ s[n] = q.up[n])
      <4>1. CASE q.alive
        BY <2>3, <2>4, <4>1, Queues
      <4>2. CASE ~q.alive
        BY <2>4, <4>2
      <4> QED BY <4>1, <4>2
    <3>3. q.host = "open" => \A n \in 1 .. Len(s) : s[n].kind = "info" => s[n].id = data[q.peer]
      <4>1. q.host = "open" => \A n \in 1 .. Len(q.up) :
               q.up[n].kind = "info" => q.up[n].id = data[q.peer]
        BY <1>3, <2>2, <2>8 DEF Wire
      <4> QED BY <3>2, <4>1
    <3>4. q.host = "open" => \A n \in 1 .. Len(q.down) :
             q.down[n].kind = "init" => q.down[n].id = data[q.peer]
      BY <1>3, <2>2, <2>8 DEF Wire
    <3>5. q.far = "asking" => q.host \in {"shaking", "closed"}
      BY <1>3, <2>2, <2>8 DEF Wire
    <3> QED BY <2>2, <2>7, <3>1, <3>3, <3>4, <3>5 DEF TameTo
  <2> QED BY <1>1, <2>1, <2>2, <2>6, <2>7, <2>8
<1> QED BY <1>4, <1>5

\* A client that changes what it knows, but for its number, keeps its place.
LEMMA Learning ==
  ASSUME client \in [Clients -> ClientType], NEW c \in Clients, client[c].state = "in",
         NEW o \in ClientType, o.state = "in", o.id = client[c].id,
         client' = [client EXCEPT ![c] = o]
  PROVE  client' \in [Clients -> ClientType] /\ \A b \in Clients : Keeps(b)
<1>1. client' \in [Clients -> ClientType]
  OBVIOUS
<1>2. client'[c] = o /\ \A b \in Clients : b # c => client'[b] = client[b]
  OBVIOUS
<1>3. ASSUME NEW b \in Clients PROVE Keeps(b)
  <2>1. CASE b = c
    BY <1>2, <2>1 DEF Keeps
  <2>2. CASE b # c
    BY <1>2, <2>2 DEF Keeps
  <2> QED BY <2>1, <2>2
<1> QED BY <1>1, <1>3

\* ProcessClientEvent.
LEMMA ClientReceiveStep ==
  ASSUME LanAssumption, PInv, NEW c \in Clients, ClientReceive(c)
  PROVE  PInv'
<1>1. PICK k : k = Mine(c)
  OBVIOUS
<1>2. PICK q : q = conns[k]
  OBVIOUS
<1>3. PICK r : r = [q EXCEPT !.down = Tail(q.down)]
  OBVIOUS
<1>4. q.down # <<>> /\ client[c].state = "in" /\ client \in [Clients -> ClientType] /\ wifi' = wifi
         /\ UNCHANGED <<use, data, host>>
  BY <1>1, <1>2 DEF ClientReceive, PInv, Typed
<1>5. Takes(c, k, q, r)
  BY <1>1, <1>2, <1>3, <1>4, Taking
<1>6. conns' = [conns EXCEPT ![k] = r]
  BY <1>5 DEF Takes, ClientReceive
<1>7. k \in 1 .. Len(conns) /\ But(conns', conns, k) /\ conns'[k] = r
  <2>1. k \in 1 .. Len(conns) /\ conns \in Seq(Connection) /\ r \in Connection
    BY <1>5 DEF Takes
  <2>2. But([conns EXCEPT ![k] = r], conns, k) /\ [conns EXCEPT ![k] = r][k] = r
    BY <2>1, One
  <2> QED BY <1>6, <2>1, <2>2
<1>8. PICK m \in Messages : m = Head(q.down)
  BY <1>5 DEF Takes
<1>9. PICK p \in ClientType : p = client[c]
  BY <1>4
<1>10. client' \in [Clients -> ClientType] /\ \A b \in Clients : Keeps(b)
  <2>1. \/ /\ m.kind = "list" /\ m.num <= 16
           /\ client' = [client EXCEPT ![c].players = m.players, ![c].num = m.num]
        \/ client' = client
        \/ client' = [client EXCEPT ![c].mask = @ \cup {0}]
        \/ client' = [client EXCEPT ![c].mask = @ \ {0}]
    BY <1>1, <1>2, <1>8 DEF ClientReceive
  <2>6. CASE client' = client
    BY <1>4, <2>6 DEF Keeps, ClientType
  <2>2. 0 \in Ids
    BY DEF Ids, LanAssumption
  <2>3. CASE /\ m.kind = "list" /\ m.num <= 16
             /\ client' = [client EXCEPT ![c].players = m.players, ![c].num = m.num]
    <3>4. m.players \in PlayerLists /\ m.num \in 0 .. 16
      BY <2>3, Lists
    <3>1. PICK o \in ClientType : o = [p EXCEPT !.players = m.players, !.num = m.num]
      BY <3>4, ClientTypes
    <3>2. o.state = p.state /\ o.id = p.id
      BY <3>1 DEF ClientType
    <3>3. client' = [client EXCEPT ![c] = o]
      BY <1>4, <1>9, <2>3, <3>1
    <3> QED BY <1>4, <1>9, <3>2, <3>3, Learning
  <2>4. CASE client' = [client EXCEPT ![c].mask = @ \cup {0}]
    <3>1. PICK o \in ClientType : o = [p EXCEPT !.mask = @ \cup {0}]
      BY <2>2, ClientTypes
    <3>2. o.state = p.state /\ o.id = p.id
      BY <3>1 DEF ClientType
    <3>3. client' = [client EXCEPT ![c] = o]
      BY <1>4, <1>9, <2>4, <3>1
    <3> QED BY <1>4, <1>9, <3>2, <3>3, Learning
  <2>5. CASE client' = [client EXCEPT ![c].mask = @ \ {0}]
    <3>1. PICK o \in ClientType : o = [p EXCEPT !.mask = @ \ {0}]
      BY <2>2, ClientTypes
    <3>2. o.state = p.state /\ o.id = p.id
      BY <3>1 DEF ClientType
    <3>3. client' = [client EXCEPT ![c] = o]
      BY <1>4, <1>9, <2>5, <3>1
    <3> QED BY <1>4, <1>9, <3>2, <3>3, Learning
  <2> QED BY <2>1, <2>3, <2>4, <2>5, <2>6
<1>11. Typed'
  BY <1>4, <1>7, <1>10 DEF PInv, Typed, But
<1>12. r.client = q.client /\ (host.active => TameTo(r, k))
  BY <1>5 DEF Takes
<1> QED BY <1>2, <1>4, <1>7, <1>10, <1>11, <1>12, OneStep

\* A client's connection breaks.
LEMMA ClientDisconnectStep ==
  ASSUME LanAssumption, PInv, NEW c \in Clients, ClientDisconnect(c)
  PROVE  PInv'
<1>1. PICK k : k = Mine(c)
  OBVIOUS
<1>2. k \in 1 .. Len(conns) /\ conns[k].client = c /\ conns \in Seq(Connection)
  BY <1>1, MineIs DEF PInv, Typed, ClientDisconnect
<1>3. PICK q \in Connection : q = conns[k]
  BY <1>2
<1>4. PICK r \in Connection : r = [q EXCEPT !.far = "closed", !.down = <<>>]
  <2>1. <<>> \in Seq(Messages)
    OBVIOUS
  <2> QED BY <2>1 DEF Connection
<1>5. But(conns', conns, k) /\ conns'[k] = r
  <2>1. conns' = [conns EXCEPT ![k] = r]
    BY <1>1, <1>2, <1>3, <1>4 DEF ClientDisconnect
  <2>2. But([conns EXCEPT ![k] = r], conns, k) /\ [conns EXCEPT ![k] = r][k] = r
    BY <1>2, One
  <2> QED BY <2>1, <2>2
<1>6. r.client = q.client /\ r.peer = q.peer /\ r.host = q.host /\ r.far = "closed"
         /\ r.up = q.up /\ r.down = <<>>
  BY <1>4 DEF Connection
<1>7. PICK p \in ClientType : p = client[c] /\ p.state = "in" /\ client \in [Clients -> ClientType]
  BY DEF ClientDisconnect, PInv, Typed
<1>8. client' \in [Clients -> ClientType] /\ \A b \in Clients : Keeps(b)
  <2>1. 0 \in Ids
    BY DEF Ids, LanAssumption
  <2>2. PICK f : f = [p.players EXCEPT ![0].status = "disconnected"]
    OBVIOUS
  <2>3. f \in PlayerLists /\ p.players \in PlayerLists
    <3>1. p.players \in PlayerLists
      BY DEF ClientType
    <3> QED BY <2>1, <2>2, <3>1 DEF PlayerLists, Statuses
  <2>4. PICK o : o = [p EXCEPT !.mask = @ \ {0}, !.players = f]
    OBVIOUS
  <2>5. o \in ClientType /\ o.state = p.state /\ o.id = p.id
    BY <2>3, <2>4 DEF ClientType
  <2>6. client' = [client EXCEPT ![c] = o]
    <3>1. client' = [client EXCEPT ![c].mask = @ \ {0}, ![c].players[0].status = "disconnected"]
      BY DEF ClientDisconnect
    <3> QED BY <1>7, <2>2, <2>4, <3>1 DEF ClientType
  <2> QED BY <1>7, <2>5, <2>6, Learning
<1>9. UNCHANGED <<use, data, host, wifi>>
  BY DEF ClientDisconnect
<1>10. Typed'
  BY <1>5, <1>8, <1>9 DEF PInv, Typed, But
<1>11. host.active => TameTo(r, k)
  BY <1>2, <1>3, <1>6 DEF TameTo, PInv, Right, Wire
<1> QED BY <1>2, <1>3, <1>5, <1>6, <1>8, <1>9, <1>10, <1>11, OneStep

\* The client's game begins.
LEMMA ClientBeginStep ==
  ASSUME LanAssumption, PInv, NEW c \in Clients, ClientBegin(c)
  PROVE  PInv'
<1>1. PICK k : k = Mine(c)
  OBVIOUS
<1>2. PICK a \in Messages : a = [kind |-> "begin"] /\ a.kind = "begin"
  BY Commands
<1>3. /\ client[c].state = "in" /\ UNCHANGED <<use, data, host>> /\ wifi' = wifi \cup {c}
      /\ conns' = IF conns[k].far = "open" THEN Sent(k, "up", a, conns) ELSE conns
  BY <1>1, <1>2 DEF ClientBegin
<1>4. /\ k \in 1 .. Len(conns) /\ conns[k].client = c /\ But(conns', conns, k)
      /\ conns'[k].client = conns[k].client
      /\ host.active => TameTo(conns'[k], k)
  BY <1>1, <1>2, <1>3, Telling
<1>5. PICK p \in ClientType : p = client[c] /\ client \in [Clients -> ClientType]
  BY DEF PInv, Typed
<1>6. client' \in [Clients -> ClientType] /\ \A b \in Clients : Keeps(b)
  <2>1. p.id \in Ids
    BY DEF ClientType
  <2>2. PICK o \in ClientType : o = [p EXCEPT !.mask = @ \cup {p.id}, !.last = None]
    BY <2>1, ClientTypes
  <2>3. o.state = p.state /\ o.id = p.id
    BY <2>2 DEF ClientType
  <2>4. client' = [client EXCEPT ![c] = o]
    <3>1. client' = [client EXCEPT ![c].mask = @ \cup {client[c].id}, ![c].last = None]
      BY DEF ClientBegin
    <3> QED BY <1>5, <2>2, <3>1 DEF ClientType
  <2> QED BY <1>3, <1>5, <2>3, <2>4, Learning
<1>7. Typed'
  BY <1>3, <1>4, <1>6 DEF PInv, Typed, But, Machines
<1> QED BY <1>3, <1>4, <1>6, <1>7, OneStep

\* It ends, in the session or after.
LEMMA ClientStopStep ==
  ASSUME LanAssumption, PInv, NEW c \in Clients, ClientStop(c)
  PROVE  PInv'
<1>1. UNCHANGED <<use, data, host>> /\ wifi' = wifi \ {c} /\ client \in [Clients -> ClientType]
  BY DEF ClientStop, PInv, Typed
<1>2. CASE client[c].state = "out"
  <2>1. UNCHANGED <<client, conns>>
    BY <1>2 DEF ClientStop
  <2>2. Typed'
    BY <1>1, <2>1 DEF PInv, Typed
  <2>3. \A b \in Clients : Keeps(b)
    BY <1>1, <2>1 DEF Keeps, ClientType
  <2> QED BY <1>1, <2>1, <2>2, <2>3, NoStep
<1>3. CASE client[c].state # "out"
  <2>1. PICK k : k = Mine(c)
    OBVIOUS
  <2>2. PICK a \in Messages : a = [kind |-> "end"] /\ a.kind = "end"
    BY Commands
  <2>3. /\ client[c].state = "in"
        /\ conns' = IF conns[k].far = "open" THEN Sent(k, "up", a, conns) ELSE conns
    BY <1>1, <1>3, <2>1, <2>2 DEF ClientStop, ClientType
  <2>4. /\ k \in 1 .. Len(conns) /\ conns[k].client = c /\ But(conns', conns, k)
        /\ conns'[k].client = conns[k].client
        /\ host.active => TameTo(conns'[k], k)
    BY <2>1, <2>2, <2>3, Telling
  <2>5. PICK p \in ClientType : p = client[c]
    BY <1>1
  <2>6. client' \in [Clients -> ClientType] /\ \A b \in Clients : Keeps(b)
    <3>1. p.id \in Ids
      BY DEF ClientType
    <3>2. PICK o \in ClientType : o = [p EXCEPT !.mask = @ \ {p.id}]
      BY <3>1, ClientTypes
    <3>3. o.state = p.state /\ o.id = p.id
      BY <3>2 DEF ClientType
    <3>4. client' = [client EXCEPT ![c] = o]
      <4>1. client' = [client EXCEPT ![c].mask = @ \ {client[c].id}]
        BY <1>3 DEF ClientStop
      <4> QED BY <1>1, <2>5, <3>2, <4>1 DEF ClientType
    <3> QED BY <1>1, <2>3, <2>5, <3>3, <3>4, Learning
  <2>7. Typed'
    BY <1>1, <2>4, <2>6 DEF PInv, Typed, But
  <2> QED BY <1>1, <2>4, <2>6, <2>7, OneStep
<1> QED BY <1>2, <1>3

\* It hears the host's.
LEMMA HearHostStep ==
  ASSUME LanAssumption, PInv, NEW c \in Clients, HearHost(c)
  PROVE  PInv'
<1>1. /\ UNCHANGED <<use, conns, data, host, wifi>> /\ client[c].state = "in"
      /\ client' = [client EXCEPT ![c].last = 0] /\ client \in [Clients -> ClientType]
  BY DEF HearHost, PInv, Typed
<1>2. PICK p \in ClientType : p = client[c]
  BY <1>1
<1>3. PICK o \in ClientType : o = [p EXCEPT !.last = 0]
  BY ClientTypes
<1>4. o.state = p.state /\ o.id = p.id
  BY <1>3 DEF ClientType
<1>5. client' = [client EXCEPT ![c] = o]
  BY <1>1, <1>2, <1>3
<1>6. client' \in [Clients -> ClientType] /\ \A b \in Clients : Keeps(b)
  BY <1>1, <1>2, <1>4, <1>5, Learning
<1>7. Typed'
  BY <1>1, <1>6 DEF PInv, Typed
<1> QED BY <1>1, <1>6, <1>7, NoStep

\* A client asks for a connection: it gets a peer nobody has.
LEMMA AskStep ==
  ASSUME LanAssumption, PInv, NEW c \in Clients, Ask(c)
  PROVE  PInv'
<1>1. /\ Len(conns) < MaxAsks /\ client[c].state = "out" /\ host.active
      /\ client' = [client EXCEPT ![c].state = "joining"] /\ UNCHANGED <<use, host, wifi>>
      /\ client \in [Clients -> ClientType] /\ data \in [Peers -> Ids \cup {None}]
      /\ conns \in Seq(Connection) /\ Len(conns) \in Nat /\ MaxAsks \in Nat
  BY DEF Ask, PInv, Typed, LanAssumption
<1>2. PICK p : p = FreePeer
  OBVIOUS
<1>3. p \in Peers /\ \A k \in 1 .. Len(conns) : conns[k].host # "closed" => conns[k].peer # p
  BY <1>1, <1>2, FreePeerIs DEF PInv
<1>4. PICK r : r = [client |-> c, peer |-> p, up |-> <<>>, down |-> <<>>,
                    alive |-> TRUE, host |-> "shaking", far |-> "asking"]
  OBVIOUS
<1>5. r \in Connection
  <2>1. <<>> \in Seq(Messages)
    OBVIOUS
  <2> QED BY <1>3, <1>4, <2>1 DEF Connection
<1>6. /\ r.client = c /\ r.peer = p /\ r.up = <<>> /\ r.down = <<>> /\ r.host = "shaking"
      /\ r.far = "asking"
  BY <1>4
<1>7. conns' = Append(conns, r) /\ data' = data
  BY <1>2, <1>4 DEF Ask
<1>8. PICK n : n = Len(conns) + 1 /\ n \in Nat
  BY <1>1
<1>9. /\ conns' \in Seq(Connection) /\ Len(conns') = n /\ conns'[n] = r
      /\ \A k \in 1 .. Len(conns) : conns'[k] = conns[k]
      /\ \A k \in 1 .. n : k \in 1 .. Len(conns) \/ k = n
      /\ n \notin 1 .. Len(conns)
  BY <1>1, <1>5, <1>7, <1>8
<1>10. \A b \in Clients : client'[b] = IF b = c THEN [client[c] EXCEPT !.state = "joining"] ELSE client[b]
  BY <1>1
<1>11. client' \in [Clients -> ClientType]
  BY <1>1, ClientTypes
<1>12. Typed'
  BY <1>1, <1>3, <1>7, <1>8, <1>9, <1>11 DEF PInv, Typed
<1>13. ASSUME NEW b \in Clients PROVE Known(b)'
  <2>1. Known(b) /\ Known(c)
    BY DEF PInv
  <2>2. CASE b = c
    <3>1. client[c] = NewClient
      BY <1>1, <2>1 DEF Known
    <3>2. client'[c] = [NewClient EXCEPT !.state = "joining"]
      BY <1>10, <3>1
    <3>3. client'[c].state = "joining"
      BY <3>2 DEF NewClient
    <3>4. n \in 1 .. Len(conns') /\ conns'[n].client = c
      BY <1>6, <1>8, <1>9
    <3> QED BY <2>2, <3>2, <3>3, <3>4 DEF Known
  <2>3. CASE b # c
    <3>1. client'[b] = client[b]
      BY <1>10, <2>3
    <3>2. (\E k \in 1 .. Len(conns) : conns[k].client = b)
             => \E k \in 1 .. Len(conns') : conns'[k].client = b
      BY <1>8, <1>9
    <3> QED BY <2>1, <3>1, <3>2 DEF Known
  <2> QED BY <2>2, <2>3
<1>14. Right
  BY <1>1 DEF PInv
<1>15. Counted(host)'
  BY <1>1, <1>14 DEF Right, Counted, Taken
<1>20. ASSUME NEW k \in 1 .. Len(conns) PROVE conns[k].peer \in Peers /\ conns[k].client \in Clients
  <2>1. PICK q \in Connection : q = conns[k]
    BY <1>1
  <2> QED BY <2>1 DEF Connection
<1>16. \A k \in 1 .. Len(conns) : conns[k].host # "closed" => data'[conns[k].peer] = data[conns[k].peer]
  BY <1>1, <1>3, <1>7, <1>20
<1>17. Placed'
  <2> SUFFICES ASSUME NEW i \in Ids \ {0}
               PROVE  /\ host.players[i].status = "none" => host.remote[i] = None
                      /\ host.players[i].status # "none" =>
                            /\ host.remote[i] \in 1 .. Len(conns')
                            /\ conns'[host.remote[i]].host = "open"
                            /\ data'[conns'[host.remote[i]].peer] = i
    BY <1>1 DEF Placed
  <2>1. /\ host.players[i].status = "none" => host.remote[i] = None
        /\ host.players[i].status # "none" =>
              /\ host.remote[i] \in 1 .. Len(conns)
              /\ conns[host.remote[i]].host = "open"
              /\ data[conns[host.remote[i]].peer] = i
    BY <1>14 DEF Right, Placed
  <2> QED BY <1>8, <1>9, <1>16, <2>1
<1>18. Apart'
  <2> SUFFICES ASSUME NEW k \in 1 .. Len(conns'), NEW l \in 1 .. Len(conns'), k # l,
                      conns'[k].host # "closed", conns'[l].host # "closed"
               PROVE  conns'[k].peer # conns'[l].peer
    BY DEF Apart
  <2>1. CASE k \in 1 .. Len(conns) /\ l \in 1 .. Len(conns)
    BY <1>9, <1>14, <2>1 DEF Right, Apart
  <2>2. CASE k = n
    BY <1>3, <1>6, <1>9, <2>2
  <2>3. CASE l = n
    BY <1>3, <1>6, <1>9, <2>3
  <2> QED BY <1>9, <2>1, <2>2, <2>3
<1>19. ASSUME NEW k \in 1 .. Len(conns')
       PROVE  Wire(k)' /\ Own(k)'
  <2>1. CASE k = n
    <3>1. Wire(k)'
      BY <1>1, <1>3, <1>6, <1>7, <1>9, <2>1 DEF Wire
    <3>2. client'[c].state = "joining"
      BY <1>1, <1>10 DEF ClientType
    <3>3. Own(k)'
      BY <1>6, <1>9, <2>1, <3>2 DEF Own
    <3> QED BY <3>1, <3>3
  <2>2. CASE k \in 1 .. Len(conns)
    <3>1. Wire(k) /\ Own(k) /\ conns'[k] = conns[k]
      BY <1>9, <1>14, <2>2 DEF Right
    <3>2. Wire(k)'
      BY <1>1, <1>16, <2>2, <3>1 DEF Wire
    <3>3. Own(k)'
      <4>1. CASE conns[k].client = c
        <5>1. client'[c].state = "joining"
          BY <1>1, <1>10 DEF ClientType
        <5> QED BY <3>1, <4>1, <5>1 DEF Own
      <4>2. CASE conns[k].client # c
        <5>1. PICK b : b = conns[k].client /\ b \in Clients
          BY <1>20, <2>2
        <5>2. {j \in DOMAIN conns' : conns'[j].client = b} = {j \in DOMAIN conns : conns[j].client = b}
          BY <1>1, <1>6, <1>9, <4>2, <5>1
        <5>3. Mine(b)' = Mine(b)
          BY <5>2 DEF Mine
        <5>4. client'[b] = client[b]
          BY <1>10, <4>2, <5>1
        <5> QED BY <1>16, <2>2, <3>1, <5>1, <5>3, <5>4 DEF Own
      <4> QED BY <4>1, <4>2
    <3> QED BY <3>2, <3>3
  <2> QED BY <1>9, <2>1, <2>2
<1> QED BY <1>12, <1>13, <1>15, <1>17, <1>18, <1>19 DEF PInv, Right

-----------------------------------------------------------------------------
(* The host.                                                               *)

\* The host's object after what happens to it.
LEMMA HostTypes ==
  ASSUME LanAssumption, NEW h \in HostType
  PROVE  /\ \A id \in Ids : [h EXCEPT !.mask = @ \cup {id}] \in HostType
         /\ \A id \in Ids : [h EXCEPT !.mask = @ \ {id}] \in HostType
         /\ \A id \in Ids, p \in [status : Statuses, who : Machines \cup {None}] :
               /\ [h EXCEPT !.players[id] = p] \in HostType
               /\ \A k \in Peers, n \in Counts :
                     [h EXCEPT !.players[id] = p, !.num = n, !.remote[id] = k] \in HostType
         /\ \A id \in Ids, n \in Counts :
               [h EXCEPT !.mask = @ \ {id}, !.remote[id] = None,
                         !.players[id].status = "none", !.num = n] \in HostType
         /\ [h EXCEPT !.active = FALSE, !.remote = [i \in Ids |-> None]] \in HostType
<1>1. ASSUME NEW id \in Ids, NEW p \in [status : Statuses, who : Machines \cup {None}]
      PROVE  [h.players EXCEPT ![id] = p] \in PlayerLists
  BY DEF HostType, PlayerLists
<1>2. ASSUME NEW id \in Ids
      PROVE  [h.players EXCEPT ![id].status = "none"] \in PlayerLists
  BY DEF HostType, PlayerLists, Statuses
<1>3. \A id \in Ids : [h EXCEPT !.mask = @ \cup {id}] \in HostType
  BY DEF HostType
<1>4. \A id \in Ids : [h EXCEPT !.mask = @ \ {id}] \in HostType
  BY DEF HostType
<1>5. ASSUME NEW id \in Ids, NEW p \in [status : Statuses, who : Machines \cup {None}]
      PROVE  [h EXCEPT !.players[id] = p] \in HostType
  BY <1>1 DEF HostType
<1>6. ASSUME NEW id \in Ids, NEW p \in [status : Statuses, who : Machines \cup {None}],
             NEW k \in Peers, NEW n \in Counts
      PROVE  [h EXCEPT !.players[id] = p, !.num = n, !.remote[id] = k] \in HostType
  BY <1>1 DEF HostType
<1>7. ASSUME NEW id \in Ids, NEW n \in Counts
      PROVE  [h EXCEPT !.mask = @ \ {id}, !.remote[id] = None,
                       !.players[id].status = "none", !.num = n] \in HostType
  BY <1>2 DEF HostType
<1>8. [h EXCEPT !.active = FALSE, !.remote = [i \in Ids |-> None]] \in HostType
  BY DEF HostType
<1> QED BY <1>3, <1>4, <1>5, <1>6, <1>7, <1>8

\* To hear a command other than a number is tame.
LEMMA Overheard ==
  ASSUME NEW q \in Connection, NEW k, TameTo(q, k), NEW a \in Messages, a.kind # "init", NEW r,
         r.client = q.client, r.peer = q.peer, r.up = q.up, r.alive = q.alive, r.host = q.host,
         r.far = q.far, r.down = Hears(q, a)
  PROVE  TameTo(r, k)
<1>1. ASSUME r.host = "open", NEW n \in 1 .. Len(r.down), r.down[n].kind = "init"
      PROVE  r.down[n].id = data[conns[k].peer]
  <2>1. q.down \in Seq(Messages)
    BY Under
  <2>2. r.down[n] = a \/ (n \in 1 .. Len(q.down) /\ r.down[n] = q.down[n])
    BY <2>1, <1>1 DEF Hears
  <2> QED BY <1>1, <2>2 DEF TameTo
<1>2. ASSUME r.host = "open", NEW n \in 1 .. Len(r.up), r.up[n].kind = "info"
      PROVE  r.up[n].id = data[conns[k].peer]
  BY <1>2 DEF TameTo
<1>3. r.host = "shaking" => r.up = <<>> /\ r.down = <<>>
  BY DEF TameTo, Hears
<1> QED BY <1>1, <1>2, <1>3 DEF TameTo

\* So is a step of the host that tells everybody something.
LEMMA TellStep ==
  ASSUME LanAssumption, PInv, Typed', host.active, data' = data, client' = client,
         NEW a \in Messages, a.kind # "init", NEW all \in Seq(Connection), Len(all) = Len(conns),
         \A k \in 1 .. Len(conns) : TameTo(all[k], k), conns' = Broadcast(a, all),
         host'.num = host.num, host'.remote = host.remote,
         \A i \in Ids : /\ host'.players[i].status = "none" <=> host.players[i].status = "none"
                        /\ host'.players[i].who = host.players[i].who,
         host'.players[0].status = "host"
  PROVE  PInv'
<1>1. Len(conns') = Len(conns) /\ conns' \in Seq(Connection)
  BY BroadcastIs
<1>2. ASSUME NEW k \in 1 .. Len(conns) PROVE TameTo(conns'[k], k)
  <2>1. PICK q \in Connection : q = all[k] /\ TameTo(q, k)
    OBVIOUS
  <2>2. PICK r : r = conns'[k]
    OBVIOUS
  <2>3. /\ r.client = q.client /\ r.peer = q.peer /\ r.up = q.up /\ r.alive = q.alive
        /\ r.host = q.host /\ r.far = q.far /\ r.down = Hears(q, a)
    BY <2>1, <2>2, BroadcastIs
  <2> QED BY <2>1, <2>2, <2>3, Overheard
<1>3. \A c \in Clients : Keeps(c)
  BY DEF Keeps, PInv, Typed, ClientType
<1>4. \A k \in 1 .. Len(conns) : conns'[k].client = conns[k].client
  BY <1>2 DEF TameTo
<1>5. \A c \in Clients : Known(c)'
  BY <1>1, <1>3, <1>4, KnownStep DEF PInv
<1>6. Right /\ Typed
  BY DEF PInv
<1>7. Right'
  BY <1>1, <1>2, <1>3, <1>6, TameStep
<1> QED BY <1>5, <1>7 DEF PInv

\* The host's game begins, or ends.
LEMMA HostPlaysStep ==
  ASSUME LanAssumption, PInv, HostBegin \/ HostStop
  PROVE  PInv'
<1>1. conns \in Seq(Connection) /\ host \in HostType /\ host.active /\ Right
  BY DEF PInv, Typed, HostBegin, HostStop
<1>2. PICK a \in Messages : /\ a.kind # "init" /\ conns' = Broadcast(a, conns)
                            /\ a.kind \in {"begin", "end"}
  BY Commands DEF HostBegin, HostStop
<1>3. \/ host' = [host EXCEPT !.mask = @ \cup {0}]
      \/ host' = [host EXCEPT !.mask = @ \ {0}]
  BY DEF HostBegin, HostStop
<1>4. 0 \in Ids
  BY DEF Ids, LanAssumption
<1>5. host' \in HostType
  <2>1. PICK h \in HostType : h = host
    BY <1>1
  <2>2. [h EXCEPT !.mask = @ \cup {0}] \in HostType /\ [h EXCEPT !.mask = @ \ {0}] \in HostType
    BY <1>4, HostTypes
  <2> QED BY <1>3, <2>1, <2>2
<1>6. host'.players = host.players /\ host'.num = host.num /\ host'.remote = host.remote
  BY <1>1, <1>3 DEF HostType
<1>7. data' = data /\ client' = client /\ use' = use /\ wifi' \in {wifi \cup {HostMachine}, wifi \ {HostMachine}}
  BY DEF HostBegin, HostStop
<1>8. conns' \in Seq(Connection) /\ Len(conns') = Len(conns)
  BY <1>1, <1>2, BroadcastIs
<1>9. wifi' \subseteq Machines
  BY <1>7 DEF Machines, PInv, Typed
<1>10. Typed'
  BY <1>5, <1>7, <1>8, <1>9 DEF PInv, Typed
<1>11. \A k \in 1 .. Len(conns) : TameTo(conns[k], k)
  BY <1>1, Untouched DEF Right
<1>12. host'.players[0].status = "host"
  BY <1>1, <1>6 DEF Right, Counted
<1> QED BY <1>1, <1>2, <1>6, <1>7, <1>10, <1>11, <1>12, TellStep

\* The host reads a command: what is left of the connection, and that the command is about the
\* player's place.
HostTakes(k, q, r) ==
    /\ q \in Connection /\ r \in Connection /\ conns \in Seq(Connection)
    /\ Head(q.up) \in Messages /\ q.host = "open"
    /\ [conns EXCEPT ![k].up = Tail(@)] = [conns EXCEPT ![k] = r]
    /\ r.client = q.client /\ TameTo(r, k)
    /\ data[q.peer] \in Ids \ {0} /\ IdAt(data[q.peer]) = data[q.peer]
    /\ host.players[data[q.peer]].status # "none"
    /\ host.players[data[q.peer]].who = q.client
    /\ Head(q.up).kind = "info" => Head(q.up).id = data[q.peer]

LEMMA HostTaking ==
  ASSUME LanAssumption, PInv, host.active, NEW k \in 1 .. Len(conns),
         NEW q, q = conns[k], q.host = "open", q.up # <<>>,
         NEW r, r = [q EXCEPT !.up = Tail(q.up)]
  PROVE  HostTakes(k, q, r)
<1>1. Wire(k) /\ Placed /\ conns \in Seq(Connection) /\ q \in Connection
  BY DEF PInv, Right, Typed
<1>2. q.up \in Seq(Messages)
  BY <1>1, Under
<1>3. /\ Tail(q.up) \in Seq(Messages) /\ Head(q.up) \in Messages /\ Head(q.up) = q.up[1]
      /\ Len(Tail(q.up)) = Len(q.up) - 1 /\ Len(q.up) \in Nat \ {0}
      /\ \A n \in 1 .. Len(Tail(q.up)) : Tail(q.up)[n] = q.up[n + 1] /\ n + 1 \in 1 .. Len(q.up)
  BY <1>2, Queues
<1>4. r \in Connection
  BY <1>1, <1>3, Under
<1>5. /\ r.client = q.client /\ r.peer = q.peer /\ r.host = q.host /\ r.far = q.far
      /\ r.down = q.down /\ r.up = Tail(q.up)
  BY <1>1, <1>3, Under
<1>6. [conns EXCEPT ![k].up = Tail(@)] = [conns EXCEPT ![k] = r]
  BY <1>1
<1>7. /\ data[q.peer] \in Ids \ {0} /\ host.remote[data[q.peer]] = k
      /\ host.players[data[q.peer]].who = q.client
      /\ \A n \in 1 .. Len(q.up) : q.up[n].kind = "info" => q.up[n].id = data[q.peer]
      /\ \A n \in 1 .. Len(q.down) : q.down[n].kind = "init" => q.down[n].id = data[q.peer]
      /\ q.far # "asking"
  BY <1>1 DEF Wire
<1>8. host.players[data[q.peer]].status # "none"
  <2>1. k # None
    BY DEF LanAssumption
  <2> QED BY <1>1, <1>7, <2>1 DEF Placed
<1>9. IdAt(data[q.peer]) = data[q.peer]
  BY <1>8 DEF IdAt
<1>10. \A n \in 1 .. Len(r.up) : r.up[n].kind = "info" => r.up[n].id = data[q.peer]
  BY <1>3, <1>5, <1>7
<1>11. TameTo(r, k)
  BY <1>5, <1>7, <1>10 DEF TameTo
<1>12. Head(q.up).kind = "info" => Head(q.up).id = data[q.peer]
  BY <1>3, <1>7
<1> QED BY <1>1, <1>3, <1>4, <1>5, <1>6, <1>7, <1>8, <1>9, <1>11, <1>12 DEF HostTakes

\* ENET_EVENT_TYPE_RECEIVE of the host.
LEMMA HostReceiveStep ==
  ASSUME LanAssumption, PInv, NEW k \in 1 .. Len(conns), HostReceive(k)
  PROVE  PInv'
<1>1. PICK q : q = conns[k]
  OBVIOUS
<1>2. PICK r : r = [q EXCEPT !.up = Tail(q.up)]
  OBVIOUS
<1>3. q.up # <<>> /\ q.host = "open" /\ host.active /\ UNCHANGED <<use, data, client, wifi>>
  BY <1>1 DEF HostReceive
<1>4. HostTakes(k, q, r)
  BY <1>1, <1>2, <1>3, HostTaking
<1>5. PICK m \in Messages : m = Head(q.up)
  BY <1>4 DEF HostTakes
<1>6. PICK i \in Ids \ {0} : i = data[q.peer]
  BY <1>4 DEF HostTakes
<1>7. PICK rest : rest = [conns EXCEPT ![k] = r]
  OBVIOUS
<1>8. /\ But(rest, conns, k) /\ rest[k] = r /\ r.client = q.client /\ TameTo(r, k) /\ IdAt(i) = i
      /\ host.players[i].status # "none" /\ host.players[i].who = q.client /\ q \in Connection
      /\ m.kind = "info" => m.id = i
      /\ [conns EXCEPT ![k].up = Tail(@)] = rest
  <2>1. But([conns EXCEPT ![k] = r], conns, k) /\ [conns EXCEPT ![k] = r][k] = r
    BY <1>4, One DEF HostTakes
  <2>2. But(rest, conns, k) /\ rest[k] = r
    BY <1>7, <2>1
  <2> QED BY <1>4, <1>5, <1>6, <1>7, <2>2 DEF HostTakes
<1>9. PICK p : p = [status |-> "client", who |-> q.client]
  OBVIOUS
<1>10. PICK h \in HostType : h = host
  BY DEF PInv, Typed
<1>11. \/ /\ m.kind = "info"
          /\ host' = [h EXCEPT !.players[i] = p]
          /\ conns' = Broadcast(PlayerList(host'), rest)
       \/ host' = [h EXCEPT !.mask = @ \cup {i}] /\ conns' = rest
       \/ host' = [h EXCEPT !.mask = @ \ {i}] /\ conns' = rest
  BY <1>1, <1>5, <1>6, <1>8, <1>9, <1>10 DEF HostReceive, Come
<1>12. 0 \in Ids
  BY DEF Ids, LanAssumption
<1>13. p \in [status : Statuses, who : Machines \cup {None}]
  BY <1>8, <1>9 DEF Connection, Statuses, Machines
<1>14. host' \in HostType
  <2>1. [h EXCEPT !.players[i] = p] \in HostType
    BY <1>13, HostTypes
  <2>2. [h EXCEPT !.mask = @ \cup {i}] \in HostType
    BY HostTypes
  <2>3. [h EXCEPT !.mask = @ \ {i}] \in HostType
    BY HostTypes
  <2> QED BY <1>11, <2>1, <2>2, <2>3
<1>15. Right /\ Typed
  BY <1>3 DEF PInv
<1>16. CASE conns' = rest /\ \/ host' = [h EXCEPT !.mask = @ \cup {i}]
                             \/ host' = [h EXCEPT !.mask = @ \ {i}]
  <2>1. /\ host'.num = host.num /\ host'.remote = host.remote
        /\ host'.active = host.active /\ host'.players = host.players
    BY <1>10, <1>16 DEF HostType
  <2>2. Typed'
    BY <1>3, <1>8, <1>14, <1>15, <1>16 DEF Typed, But
  <2>3. \A c \in Clients : Keeps(c)
    BY <1>3, <1>15 DEF Keeps, Typed, ClientType
  <2> QED BY <1>1, <1>3, <1>8, <1>16, <2>1, <2>2, <2>3, OneStep
<1>17. CASE host' = [h EXCEPT !.players[i] = p] /\ conns' = Broadcast(PlayerList(host'), rest)
  <2>1. PICK a \in Messages : a = PlayerList(host') /\ a.kind = "list"
    <3>1. PlayerList(host').kind = "list"
      BY DEF PlayerList
    <3> QED BY <1>14, <3>1, Commands
  <2>2. rest \in Seq(Connection) /\ Len(rest) = Len(conns)
    BY <1>8 DEF But
  <2>3. conns' = Broadcast(a, rest)
    BY <1>17, <2>1
  <2>4. conns' \in Seq(Connection) /\ Len(conns') = Len(conns)
    BY <2>2, <2>3, BroadcastIs
  <2>5. Typed'
    BY <1>3, <1>14, <1>15, <2>4 DEF Typed
  <2>6. /\ host'.num = host.num /\ host'.remote = host.remote /\ host'.active = host.active
        /\ host'.players = [host.players EXCEPT ![i] = p]
    BY <1>10, <1>17 DEF HostType
  <2>7. host.players \in PlayerLists
    BY <1>10 DEF HostType
  <2>8. host'.players[i] = p /\ \A j \in Ids : j # i => host'.players[j] = host.players[j]
    BY <2>6, <2>7 DEF PlayerLists
  <2>9. p.status = "client" /\ p.who = q.client
    BY <1>9
  <2>10. \A j \in Ids : /\ host'.players[j].status = "none" <=> host.players[j].status = "none"
                        /\ host'.players[j].who = host.players[j].who
    BY <1>8, <2>8, <2>9
  <2>11. host'.players[0].status = "host"
    BY <1>12, <1>15, <2>8 DEF Right, Counted
  <2>12. \A j \in 1 .. Len(conns) : TameTo(rest[j], j)
    BY <1>8, <1>15, Untouched DEF Right, But
  <2> QED BY <1>3, <2>1, <2>2, <2>3, <2>5, <2>6, <2>10, <2>11, <2>12, TellStep
<1> QED BY <1>11, <1>16, <1>17

\* The end of a connection at the host: what is left of it.
LEMMA Closing ==
  ASSUME LanAssumption, PInv, NEW k \in 1 .. Len(conns),
         NEW closed, closed = [conns EXCEPT ![k].host = "closed", ![k].up = <<>>]
  PROVE  /\ But(closed, conns, k)
         /\ closed[k].client = conns[k].client /\ closed[k].peer = conns[k].peer
         /\ closed[k].host = "closed" /\ closed[k].far = conns[k].far
<1>1. PICK q \in Connection : q = conns[k] /\ conns \in Seq(Connection)
  BY DEF PInv, Typed
<1>2. PICK r \in Connection : r = [q EXCEPT !.host = "closed", !.up = <<>>]
  <2>1. <<>> \in Seq(Messages)
    OBVIOUS
  <2> QED BY <2>1 DEF Connection
<1>3. closed = [conns EXCEPT ![k] = r]
  BY <1>1, <1>2
<1>4. But(closed, conns, k) /\ closed[k] = r
  <2>1. But([conns EXCEPT ![k] = r], conns, k) /\ [conns EXCEPT ![k] = r][k] = r
    BY <1>1, One
  <2> QED BY <1>3, <2>1
<1>5. r.client = q.client /\ r.peer = q.peer /\ r.host = "closed" /\ r.far = q.far
  BY <1>2 DEF Connection
<1> QED BY <1>1, <1>4, <1>5

\* A place that is given up: it is the one whose connection has ended.
Vacated(i) ==
    /\ host' \in HostType /\ host'.active
    /\ host'.num = host.num - 1
    /\ host'.players[i].status = "none" /\ host'.remote[i] = None
    /\ \A j \in Ids : j # i => /\ host'.players[j] = host.players[j]
                               /\ host'.remote[j] = host.remote[j]

LEMMA VacatedIs ==
  ASSUME LanAssumption, NEW i \in Ids \ {0}, host \in HostType, host.active, Counted(host),
         host.players[i].status # "none", host' = Without(i)
  PROVE  Vacated(i) /\ Counted(host)'
<1>1. PICK h \in HostType : h = host /\ h.active
  OBVIOUS
<1>2. IdAt(i) = i
  BY DEF IdAt
<1>3. PICK n : n = h.num - 1
  OBVIOUS
<1>4. host' = [h EXCEPT !.mask = @ \ {i}, !.remote[i] = None,
                        !.players[i].status = "none", !.num = n]
  BY <1>1, <1>2, <1>3 DEF Without
<1>5. 0 \in Ids /\ i # 0
  BY DEF Ids, LanAssumption
<1>6. host.players \in PlayerLists /\ host.remote \in [Ids -> Peers \cup {None}]
  BY DEF HostType
<1>7. /\ host'.players = [host.players EXCEPT ![i].status = "none"]
      /\ host'.remote = [host.remote EXCEPT ![i] = None] /\ host'.num = n /\ host'.active
  BY <1>1, <1>4 DEF HostType
<1>8. /\ host'.players[i].status = "none" /\ host'.remote[i] = None
      /\ \A j \in Ids : j # i => /\ host'.players[j] = host.players[j]
                                 /\ host'.remote[j] = host.remote[j]
  BY <1>6, <1>7 DEF PlayerLists
<1>9. /\ Cardinality(Taken(host)) \in 0 .. MaxPlayers
      /\ Cardinality(Taken(host')) = Cardinality(Taken(host)) - 1
      /\ Cardinality(Taken(host')) \in 0 .. MaxPlayers
  <2>1. PICK g : g = host
    OBVIOUS
  <2>2. PICK f : f = host'
    OBVIOUS
  <2>3. \A j \in Ids \ {i} : g.players[j].status = "none" <=> f.players[j].status = "none"
    BY <1>8, <2>1, <2>2
  <2>4. g.players[i].status # "none" /\ f.players[i].status = "none"
    BY <1>8, <2>1, <2>2
  <2>5. /\ Cardinality(Taken(g)) \in 0 .. MaxPlayers
        /\ Cardinality(Taken(f)) = Cardinality(Taken(g)) - 1
    BY <2>3, <2>4, Count
  <2>6. Cardinality(Taken(f)) \in 0 .. MaxPlayers
    BY <2>3, Count
  <2> QED BY <2>1, <2>2, <2>5, <2>6
<1>10. n = Cardinality(Taken(host')) /\ n \in 0 .. MaxPlayers
  BY <1>1, <1>3, <1>9 DEF Counted
<1>11. host' \in HostType
  <2>1. PICK m \in Counts : m = n
    BY <1>10, Number DEF Counts
  <2>2. [h EXCEPT !.mask = @ \ {i}, !.remote[i] = None,
                  !.players[i].status = "none", !.num = m] \in HostType
    BY HostTypes
  <2> QED BY <1>4, <2>1, <2>2
<1>12. Vacated(i)
  BY <1>1, <1>3, <1>7, <1>8, <1>11 DEF Vacated
<1>13. Counted(host)'
  BY <1>5, <1>7, <1>8, <1>10 DEF Counted
<1> QED BY <1>12, <1>13

\* ENET_EVENT_TYPE_DISCONNECT of a player: the others keep their places.
LEMMA VacatedStep ==
  ASSUME LanAssumption, PInv, Typed', host.active, Counted(host)', data' = data, client' = client,
         NEW k \in 1 .. Len(conns), conns[k].host = "open",
         NEW i \in Ids \ {0}, i = data[conns[k].peer], Vacated(i),
         NEW a \in Messages, a.kind # "init",
         NEW closed, But(closed, conns, k), closed[k].client = conns[k].client,
         closed[k].peer = conns[k].peer, closed[k].host = "closed",
         conns' = Broadcast(a, closed)
  PROVE  PInv'
<1>1. Right /\ Typed /\ client \in [Clients -> ClientType]
  BY DEF PInv, Typed
<1>2. closed \in Seq(Connection) /\ Len(closed) = Len(conns)
  BY DEF But
<1>3. conns' \in Seq(Connection) /\ Len(conns') = Len(conns)
  BY <1>2, BroadcastIs
<1>4. \A j \in 1 .. Len(conns) :
         /\ conns'[j].client = closed[j].client /\ conns'[j].peer = closed[j].peer
         /\ conns'[j].up = closed[j].up /\ conns'[j].host = closed[j].host
         /\ conns'[j].far = closed[j].far /\ conns'[j].down = Hears(closed[j], a)
         /\ conns'[j].alive = closed[j].alive
  BY <1>2, BroadcastIs
<1>5. \A j \in 1 .. Len(conns) : conns'[j].client = conns[j].client /\ conns'[j].peer = conns[j].peer
  BY <1>4 DEF But
<1>6. \A j \in 1 .. Len(conns) : conns'[j].host = IF j = k THEN "closed" ELSE conns[j].host
  BY <1>4 DEF But
<1>7. ASSUME NEW j \in 1 .. Len(conns), j # k PROVE TameTo(conns'[j], j)
  <2>1. PICK q \in Connection : q = conns[j] /\ q = closed[j]
    BY <1>1, <1>7 DEF Typed, But
  <2>2. PICK r : r = conns'[j]
    OBVIOUS
  <2>3. TameTo(q, j)
    BY <1>1, <2>1, Untouched DEF Right
  <2>4. /\ r.client = q.client /\ r.peer = q.peer /\ r.up = q.up /\ r.alive = q.alive
        /\ r.host = q.host /\ r.far = q.far /\ r.down = Hears(q, a)
    BY <1>4, <2>1, <2>2
  <2> QED BY <2>2, <2>3, <2>4, Overheard
<1>8. \A c \in Clients : Keeps(c)
  BY <1>1 DEF Keeps, ClientType
<1>9. \A c \in Clients : Known(c)'
  BY <1>3, <1>5, <1>8, KnownStep DEF PInv
<1>10. \A c : Mine(c)' = Mine(c)
  BY <1>1, <1>3, <1>5, SameMine DEF Typed
<1>11. host.remote[i] = k /\ host.remote[i] # None
  BY <1>1 DEF Right, Wire, LanAssumption
<1>12. Placed'
  <2> SUFFICES ASSUME NEW j \in Ids \ {0}
               PROVE  /\ host'.players[j].status = "none" => host'.remote[j] = None
                      /\ host'.players[j].status # "none" =>
                            /\ host'.remote[j] \in 1 .. Len(conns')
                            /\ conns'[host'.remote[j]].host = "open"
                            /\ data'[conns'[host'.remote[j]].peer] = j
    BY DEF Placed
  <2>1. /\ host.players[j].status = "none" => host.remote[j] = None
        /\ host.players[j].status # "none" =>
              /\ host.remote[j] \in 1 .. Len(conns)
              /\ conns[host.remote[j]].host = "open"
              /\ data[conns[host.remote[j]].peer] = j
    BY <1>1 DEF Right, Placed
  <2>2. CASE j = i
    BY <2>2 DEF Vacated
  <2>3. CASE j # i
    <3>1. host'.players[j] = host.players[j] /\ host'.remote[j] = host.remote[j]
      BY <2>3 DEF Vacated
    <3>2. host.players[j].status # "none" => host.remote[j] # k
      BY <2>1, <2>3
    <3> QED BY <1>3, <1>5, <1>6, <2>1, <3>1, <3>2
  <2> QED BY <2>2, <2>3
<1>13. Apart'
  <2>1. \A j \in 1 .. Len(conns) : conns'[j].host # "closed" => conns[j].host # "closed"
    BY <1>6
  <2>2. Apart
    BY <1>1 DEF Right
  <2> QED BY <1>3, <1>5, <2>1, <2>2 DEF Apart
<1>14. ASSUME NEW j \in 1 .. Len(conns) PROVE Wire(j)'
  <2>1. CASE j = k
    BY <1>6, <2>1 DEF Wire
  <2>2. CASE j # k
    <3>1. Wire(j) /\ TameTo(conns'[j], j)
      BY <1>1, <1>7, <2>2 DEF Right
    <3>2. ASSUME conns'[j].host = "open"
          PROVE  /\ data'[conns'[j].peer] \in Ids \ {0}
                 /\ host'.remote[data'[conns'[j].peer]] = j
                 /\ host'.players[data'[conns'[j].peer]].who = conns'[j].client
      <4>1. /\ data[conns[j].peer] \in Ids \ {0} /\ host.remote[data[conns[j].peer]] = j
            /\ host.players[data[conns[j].peer]].who = conns[j].client
        BY <1>6, <2>2, <3>1, <3>2 DEF Wire
      <4>2. data[conns[j].peer] # i
        BY <1>11, <2>2, <4>1
      <4> QED BY <1>5, <4>1, <4>2 DEF Vacated
    <3>3. conns'[j].far = "asking" => conns'[j].host \in {"shaking", "closed"}
      BY <3>1 DEF TameTo
    <3>4. conns'[j].host = "shaking" => conns'[j].up = <<>> /\ conns'[j].down = <<>>
      BY <3>1 DEF TameTo
    <3>6. conns'[j].host = "open" =>
             /\ \A n \in 1 .. Len(conns'[j].up) : conns'[j].up[n].kind = "info"
                   => conns'[j].up[n].id = data'[conns'[j].peer]
             /\ \A n \in 1 .. Len(conns'[j].down) : conns'[j].down[n].kind = "init"
                   => conns'[j].down[n].id = data'[conns'[j].peer]
      BY <1>5, <3>1 DEF TameTo
    <3> QED BY <3>2, <3>3, <3>4, <3>6 DEF Wire
  <2> QED BY <2>1, <2>2
<1>15. ASSUME NEW j \in 1 .. Len(conns) PROVE Own(j)'
  <2>1. Own(j)
    BY <1>1 DEF Right
  <2>2. conns'[j].host # "closed" => conns'[j].host = conns[j].host
    BY <1>6
  <2> QED BY <1>5, <1>6, <1>10, <2>1, <2>2 DEF Own
<1>16. Right'
  BY <1>3, <1>12, <1>13, <1>14, <1>15 DEF Right
<1> QED BY <1>9, <1>16 DEF PInv

\* ENET_EVENT_TYPE_DISCONNECT of the host.
LEMMA HostDisconnectStep ==
  ASSUME LanAssumption, PInv, ~mistaken', NEW k \in 1 .. Len(conns), HostDisconnect(k)
  PROVE  PInv'
<1>1. PICK closed : closed = [conns EXCEPT ![k].host = "closed", ![k].up = <<>>]
  OBVIOUS
<1>2. /\ But(closed, conns, k)
      /\ closed[k].client = conns[k].client /\ closed[k].peer = conns[k].peer
      /\ closed[k].host = "closed" /\ closed[k].far = conns[k].far
  BY <1>1, Closing
<1>3. PICK i : i = data[conns[k].peer]
  OBVIOUS
<1>4. /\ host.active /\ conns[k].host \in {"open", "closing"} /\ UNCHANGED <<use, data, client, wifi>>
      /\ i = None => conns' = closed /\ host' = host
      /\ i # None => host' = Without(i) /\ conns' = Broadcast(PlayerList(host'), closed)
  BY <1>1, <1>3 DEF HostDisconnect
<1>5. Right /\ Typed /\ Wire(k)
  BY <1>4 DEF PInv, Right
<1>6. CASE i = None
  <2>1. conns[k].host = "closing"
    BY <1>3, <1>4, <1>5, <1>6 DEF Wire, Ids, LanAssumption
  <2>2. TameTo(conns'[k], k)
    BY <1>2, <1>4, <1>6, <2>1 DEF TameTo
  <2>3. Typed'
    BY <1>2, <1>4, <1>5, <1>6 DEF Typed, But
  <2>4. \A c \in Clients : Keeps(c)
    BY <1>4, <1>5 DEF Keeps, Typed, ClientType
  <2> QED BY <1>2, <1>4, <1>6, <2>2, <2>3, <2>4, OneStep
<1>7. CASE i # None
  <2>0. conns[k].host = "open"
    BY <1>3, <1>4, <1>7 DEF HostDisconnect
  <2>1. /\ conns[k].host = "open" /\ i \in Ids \ {0} /\ host.remote[i] = k /\ k # None
    BY <1>3, <1>5, <2>0 DEF Wire, LanAssumption
  <2>2. host.players[i].status # "none"
    BY <1>5, <2>1 DEF Right, Placed
  <2>3. Vacated(i) /\ Counted(host)'
    BY <1>4, <1>5, <1>7, <2>1, <2>2, VacatedIs DEF Right, Typed
  <2>4. host' \in HostType
    BY <2>3 DEF Vacated
  <2>5. PICK a \in Messages : a = PlayerList(host') /\ a.kind = "list"
    <3>1. PlayerList(host').kind = "list"
      BY DEF PlayerList
    <3> QED BY <2>4, <3>1, Commands
  <2>6. conns' = Broadcast(a, closed)
    BY <1>4, <1>7, <2>5
  <2>7. conns' \in Seq(Connection) /\ Len(conns') = Len(conns)
    BY <1>2, <2>6, BroadcastIs DEF But
  <2>8. Typed'
    BY <1>4, <1>5, <2>4, <2>7 DEF Typed
  <2> QED BY <1>2, <1>3, <1>4, <2>1, <2>3, <2>5, <2>6, <2>8, VacatedStep
<1> QED BY <1>6, <1>7

\* ENET_EVENT_TYPE_CONNECT of one who is refused.
LEMMA RefusedStep ==
  ASSUME LanAssumption, PInv, NEW k \in 1 .. Len(conns), host.active,
         conns[k].host = "shaking", conns[k].far # "asking",
         conns' = Refused(k, conns), UNCHANGED <<use, data, host, client, wifi>>
  PROVE  PInv'
<1>1. PICK q \in Connection : q = conns[k] /\ conns \in Seq(Connection)
  BY DEF PInv, Typed
<1>2. PICK r \in Connection : r = [q EXCEPT !.host = "closing", !.alive = FALSE, !.down = <<>>]
  <2>1. <<>> \in Seq(Messages)
    OBVIOUS
  <2> QED BY <2>1 DEF Connection
<1>3. But(conns', conns, k) /\ conns'[k] = r
  <2>1. conns' = [conns EXCEPT ![k] = r]
    BY <1>1, <1>2 DEF Refused
  <2>2. But([conns EXCEPT ![k] = r], conns, k) /\ [conns EXCEPT ![k] = r][k] = r
    BY <1>1, One
  <2> QED BY <2>1, <2>2
<1>4. r.client = q.client /\ r.peer = q.peer /\ r.host = "closing" /\ r.far = q.far
  BY <1>2 DEF Connection
<1>5. Typed'
  BY <1>3 DEF PInv, Typed, But
<1>6. \A c \in Clients : Keeps(c)
  BY DEF Keeps, PInv, Typed, ClientType
<1>7. TameTo(r, k)
  BY <1>1, <1>4 DEF TameTo
<1> QED BY <1>1, <1>3, <1>4, <1>5, <1>6, <1>7, OneStep

\* A place that is given: nobody had it.
Given(i, k) ==
    /\ host' \in HostType /\ host'.active
    /\ host.players[i].status = "none"
    /\ host'.players[i].status = "connecting" /\ host'.players[i].who = conns[k].client
    /\ host'.remote[i] = k
    /\ \A j \in Ids : j # i => /\ host'.players[j] = host.players[j]
                               /\ host'.remote[j] = host.remote[j]

LEMMA GivenIs ==
  ASSUME LanAssumption, Typed, NEW k \in 1 .. Len(conns), NEW i \in Ids \ {0}, host.active,
         Counted(host), host.num < MaxPlayers, host.players[i].status = "none",
         host' = [host EXCEPT !.players[i] = [status |-> "connecting", who |-> conns[k].client],
                              !.num = @ + 1, !.remote[i] = k]
  PROVE  Given(i, k) /\ Counted(host)'
<1>1. PICK h \in HostType : h = host /\ h.active
  BY DEF Typed
<1>2. PICK n : n = h.num + 1
  OBVIOUS
<1>3. PICK q \in Connection : q = conns[k]
  BY DEF Typed
<1>4. PICK p : p = [status |-> "connecting", who |-> q.client]
  OBVIOUS
<1>5. host' = [h EXCEPT !.players[i] = p, !.num = n, !.remote[i] = k]
  BY <1>1, <1>2, <1>3, <1>4
<1>6. p \in [status : Statuses, who : Machines \cup {None}] /\ p.status = "connecting" /\ p.who = q.client
  BY <1>4 DEF Connection, Statuses, Machines
<1>7. k \in Peers
  BY DEF Typed, Peers, LanAssumption
<1>8. n \in 0 .. MaxPlayers
  <2>1. host.num \in 0 .. MaxPlayers /\ MaxPlayers \in 1 .. 16
    BY Number
  <2>2. PICK a \in Nat : a = host.num
    BY <2>1
  <2>3. PICK z \in Nat : z = MaxPlayers
    BY SMTT(30), <2>1
  <2>4. n = a + 1
    BY <1>1, <1>2, <2>2
  <2>5. a < z
    BY <2>2, <2>3
  <2>6. a + 1 \in 0 .. z
    BY <2>5
  <2> QED BY <2>3, <2>4, <2>6
<1>9. host' \in HostType
  <2>1. PICK m \in Counts : m = n
    BY <1>8, Number DEF Counts
  <2>2. [h EXCEPT !.players[i] = p, !.num = m, !.remote[i] = k] \in HostType
    BY <1>6, <1>7, HostTypes
  <2> QED BY <1>5, <2>1, <2>2
<1>10. host.players \in PlayerLists /\ host.remote \in [Ids -> Peers \cup {None}]
  BY <1>1 DEF HostType
<1>11. /\ host'.players = [host.players EXCEPT ![i] = p]
       /\ host'.remote = [host.remote EXCEPT ![i] = k] /\ host'.num = n /\ host'.active
  BY <1>1, <1>5 DEF HostType
<1>12. /\ host'.players[i] = p /\ host'.remote[i] = k
       /\ \A j \in Ids : j # i => /\ host'.players[j] = host.players[j]
                                  /\ host'.remote[j] = host.remote[j]
  BY <1>10, <1>11 DEF PlayerLists
<1>13. Given(i, k)
  BY <1>3, <1>6, <1>9, <1>11, <1>12 DEF Given
<1>14. Cardinality(Taken(host')) = Cardinality(Taken(host)) + 1
  <2>1. PICK g : g = host
    OBVIOUS
  <2>2. PICK f : f = host'
    OBVIOUS
  <2>3. \A j \in Ids \ {i} : g.players[j].status = "none" <=> f.players[j].status = "none"
    BY <1>12, <2>1, <2>2
  <2>4. g.players[i].status = "none" /\ f.players[i].status # "none"
    BY <1>6, <1>12, <2>1, <2>2
  <2>5. Cardinality(Taken(f)) = Cardinality(Taken(g)) + 1
    BY <2>3, <2>4, Count
  <2> QED BY <2>1, <2>2, <2>5
<1>15. 0 \in Ids /\ i # 0
  BY SMTT(30) DEF Ids, LanAssumption
<1>16. Counted(host)'
  BY <1>1, <1>2, <1>11, <1>12, <1>14, <1>15 DEF Counted
<1> QED BY <1>13, <1>16

\* ENET_EVENT_TYPE_CONNECT of one who gets a place: the others keep theirs, the peer's data are
\* the place, and the player is told.
LEMMA GivenStep ==
  ASSUME LanAssumption, PInv, host.active, NEW k \in 1 .. Len(conns),
         conns[k].host = "shaking", conns[k].far # "asking",
         NEW i \in Ids \ {0}, Given(i, k), Counted(host)',
         data' = [data EXCEPT ![conns[k].peer] = i], UNCHANGED <<use, client, wifi>>,
         conns' = Sent(k, "down", [kind |-> "init", id |-> i], [conns EXCEPT ![k].host = "open"])
  PROVE  PInv'
<1>1. Right /\ Typed /\ client \in [Clients -> ClientType] /\ conns \in Seq(Connection)
      /\ data \in [Peers -> Ids \cup {None}]
  BY DEF PInv, Typed
<1>26. ASSUME NEW j \in 1 .. Len(conns) PROVE conns[j] \in Connection /\ conns[j].peer \in Peers
  <2>1. PICK t \in Connection : t = conns[j]
    BY <1>1
  <2> QED BY <2>1 DEF Connection
<1>2. PICK q \in Connection : q = conns[k] /\ q.peer \in Peers
  BY <1>26
<1>3. PICK o \in Connection : o = [q EXCEPT !.host = "open"]
  BY DEF Connection
<1>4. PICK a \in Messages : a = [kind |-> "init", id |-> i] /\ a.kind = "init" /\ a.id = i
  BY Commands
<1>5. PICK open : open = [conns EXCEPT ![k] = o]
  OBVIOUS
<1>6. But(open, conns, k) /\ open[k] = o /\ open \in Seq(Connection) /\ Len(open) = Len(conns)
  <2>1. But([conns EXCEPT ![k] = o], conns, k) /\ [conns EXCEPT ![k] = o][k] = o
    BY ZenonT(40), <1>1, One
  <2> QED BY <1>5, <2>1 DEF But
<1>7. o.client = q.client /\ o.peer = q.peer /\ o.far = q.far /\ o.alive = q.alive
         /\ o.up = q.up /\ o.down = q.down /\ o.host = "open"
  BY <1>3 DEF Connection
<1>8. q.up = <<>> /\ q.down = <<>>
  BY <1>1, <1>2 DEF Right, Wire
<1>9. conns' = Sent(k, "down", a, open)
  BY <1>2, <1>3, <1>4, <1>5
<1>10. /\ But(conns', open, k)
       /\ conns'[k] = [o EXCEPT !.down = IF o.alive THEN Append(o.down, a) ELSE o.down]
  <2>1. PICK all \in Seq(Connection) : all = open /\ k \in 1 .. Len(all)
    BY <1>6
  <2>2. /\ But(Sent(k, "down", a, all), all, k)
        /\ Sent(k, "down", a, all)[k]
              = [all[k] EXCEPT !.down = IF all[k].alive THEN Append(@, a) ELSE @]
    BY ZenonT(40), <2>1, SentIs
  <2> QED BY <1>6, <1>9, <2>1, <2>2
<1>11. PICK s \in Seq(Messages) : s = (IF o.alive THEN Append(o.down, a) ELSE o.down)
                                  /\ \A n \in 1 .. Len(s) : s[n] = a
  <2>1. PICK t : t = (IF o.alive THEN Append(o.down, a) ELSE o.down)
    OBVIOUS
  <2>2. o.down = <<>>
    BY <1>7, <1>8
  <2>3. t = Append(<<>>, a) \/ t = <<>>
    BY <2>1, <2>2
  <2>4. t \in Seq(Messages) /\ \A n \in 1 .. Len(t) : t[n] = a
    <3>1. CASE t = <<>>
      BY <3>1
    <3>2. CASE t = Append(<<>>, a)
      <4>1. t = <<a>>
        BY <3>2
      <4> QED BY <4>1
    <3> QED BY <2>3, <3>1, <3>2
  <2> QED BY <2>1, <2>4
<1>12. /\ conns'[k].client = q.client /\ conns'[k].peer = q.peer /\ conns'[k].far = q.far
       /\ conns'[k].up = <<>> /\ conns'[k].down = s /\ conns'[k].host = "open"
  <2>1. PICK t : t = [o EXCEPT !.down = s]
    OBVIOUS
  <2>2. /\ t.client = o.client /\ t.peer = o.peer /\ t.far = o.far /\ t.up = o.up /\ t.host = o.host
        /\ t.down = s
    BY <2>1, Under
  <2>3. conns'[k] = t
    BY <1>10, <1>11, <2>1
  <2> QED BY <1>7, <1>8, <2>2, <2>3
<1>13. /\ conns' \in Seq(Connection) /\ Len(conns') = Len(conns)
       /\ \A j \in 1 .. Len(conns) : j # k => conns'[j] = conns[j]
  BY <1>6, <1>10 DEF But
<1>14. \A j \in 1 .. Len(conns) : conns'[j].client = conns[j].client /\ conns'[j].peer = conns[j].peer
  BY <1>2, <1>12, <1>13
<1>15. \A j \in 1 .. Len(conns) :
          j # k /\ conns[j].host # "closed" => data'[conns[j].peer] = data[conns[j].peer]
  <2> SUFFICES ASSUME NEW j \in 1 .. Len(conns), j # k, conns[j].host # "closed"
               PROVE  data'[conns[j].peer] = data[conns[j].peer]
    OBVIOUS
  <2>1. conns[j].peer # q.peer
    BY <1>1, <1>2 DEF Right, Apart
  <2>2. conns[j].peer \in Peers
    BY <1>26
  <2> QED BY <1>1, <1>2, <2>1, <2>2
<1>16. data'[q.peer] = i /\ data' \in [Peers -> Ids \cup {None}]
  BY <1>1, <1>2
<1>17. Typed'
  BY <1>1, <1>13, <1>16 DEF Typed, Given
<1>18. \A c \in Clients : Keeps(c)
  BY <1>1 DEF Keeps, ClientType
<1>19. \A c \in Clients : Known(c)'
  BY <1>1, <1>13, <1>14, <1>17, <1>18, KnownStep DEF PInv
<1>20. \A c : Mine(c)' = Mine(c)
  BY <1>1, <1>13, <1>14, SameMine
<1>21. Placed'
  <2> SUFFICES ASSUME NEW j \in Ids \ {0}
               PROVE  /\ host'.players[j].status = "none" => host'.remote[j] = None
                      /\ host'.players[j].status # "none" =>
                            /\ host'.remote[j] \in 1 .. Len(conns')
                            /\ conns'[host'.remote[j]].host = "open"
                            /\ data'[conns'[host'.remote[j]].peer] = j
    BY DEF Placed
  <2>1. /\ host.players[j].status = "none" => host.remote[j] = None
        /\ host.players[j].status # "none" =>
              /\ host.remote[j] \in 1 .. Len(conns)
              /\ conns[host.remote[j]].host = "open"
              /\ data[conns[host.remote[j]].peer] = j
    BY <1>1 DEF Right, Placed
  <2>2. CASE j = i
    BY <1>12, <1>13, <1>16, <2>2 DEF Given
  <2>3. CASE j # i
    <3>1. host'.players[j] = host.players[j] /\ host'.remote[j] = host.remote[j]
      BY <2>3 DEF Given
    <3>2. CASE host.players[j].status = "none"
      BY <2>1, <3>1, <3>2
    <3>3. CASE host.players[j].status # "none"
      <4>1. PICK l \in 1 .. Len(conns) : l = host.remote[j] /\ conns[l].host = "open"
                                         /\ data[conns[l].peer] = j
        BY <2>1, <3>3
      <4>2. l # k
        BY <4>1
      <4>3. conns'[l] = conns[l] /\ data'[conns[l].peer] = j /\ host'.remote[j] = l
        BY <1>13, <1>15, <3>1, <4>1, <4>2
      <4> QED BY <1>13, <3>1, <3>3, <4>1, <4>3
    <3> QED BY <3>2, <3>3
  <2> QED BY <2>2, <2>3
<1>22. Apart'
  <2> SUFFICES ASSUME NEW j \in 1 .. Len(conns'), NEW l \in 1 .. Len(conns'), j # l,
                      conns'[j].host # "closed", conns'[l].host # "closed"
               PROVE  conns'[j].peer # conns'[l].peer
    BY DEF Apart
  <2>1. j \in 1 .. Len(conns) /\ l \in 1 .. Len(conns)
    BY <1>13
  <2>2. conns[j].host # "closed" /\ conns[l].host # "closed"
    BY <1>13, <2>1
  <2>3. conns[j].peer # conns[l].peer
    BY <1>1, <2>1, <2>2 DEF Right, Apart
  <2> QED BY <1>14, <2>1, <2>3
<1>23. ASSUME NEW j \in 1 .. Len(conns) PROVE Wire(j)'
  <2>1. CASE j = k
    <3>1. conns'[k].far # "asking"
      BY <1>2, <1>12
    <3>2. data'[conns'[k].peer] = i
      BY <1>12, <1>16
    <3>3. host'.remote[i] = k /\ host'.players[i].who = conns'[k].client
      BY <1>2, <1>12 DEF Given
    <3>4. \A n \in 1 .. Len(conns'[k].up) : conns'[k].up[n].kind = "info" => conns'[k].up[n].id = i
      BY <1>12
    <3>5. \A n \in 1 .. Len(conns'[k].down) : conns'[k].down[n].kind = "init" => conns'[k].down[n].id = i
      BY ZenonT(40), <1>4, <1>11, <1>12
    <3>6. conns'[k].host = "open"
      BY <1>12
    <3>8. Wire(k)'
      BY ZenonT(40), <3>1, <3>2, <3>3, <3>4, <3>5, <3>6 DEF Wire
    <3> QED BY <2>1, <3>8
  <2>2. CASE j # k
    <3>1. Wire(j) /\ conns'[j] = conns[j]
      BY <1>1, <1>13, <2>2 DEF Right
    <3>2. ASSUME conns[j].host = "open"
          PROVE  /\ host'.remote[data[conns[j].peer]] = j
                 /\ host'.players[data[conns[j].peer]].who = conns[j].client
      <4>1. /\ data[conns[j].peer] \in Ids \ {0} /\ host.remote[data[conns[j].peer]] = j
            /\ host.players[data[conns[j].peer]].who = conns[j].client
        BY <3>1, <3>2 DEF Wire
      <4>2. host.remote[i] = None /\ j # None
        BY <1>1 DEF Right, Placed, Given, LanAssumption
      <4>3. data[conns[j].peer] # i
        BY <4>1, <4>2
      <4> QED BY <4>1, <4>3 DEF Given
    <3>3. conns[j].host # "closed" => data'[conns'[j].peer] = data[conns[j].peer]
      BY <1>15, <2>2, <3>1
    <3>4. /\ conns'[j].far = "asking" => conns'[j].host \in {"shaking", "closed"}
          /\ conns'[j].host = "shaking" => conns'[j].up = <<>> /\ conns'[j].down = <<>>
      BY <3>1, <3>3 DEF Wire
    <3>5. ASSUME conns'[j].host = "open"
          PROVE  /\ data'[conns'[j].peer] \in Ids \ {0}
                 /\ host'.remote[data'[conns'[j].peer]] = j
                 /\ host'.players[data'[conns'[j].peer]].who = conns'[j].client
      BY <3>1, <3>2, <3>3, <3>5 DEF Wire
    <3>6. ASSUME conns'[j].host = "open"
          PROVE  /\ \A n \in 1 .. Len(conns'[j].up) : conns'[j].up[n].kind = "info"
                       => conns'[j].up[n].id = data'[conns'[j].peer]
                 /\ \A n \in 1 .. Len(conns'[j].down) : conns'[j].down[n].kind = "init"
                       => conns'[j].down[n].id = data'[conns'[j].peer]
      <4>1. PICK t : t = conns[j] /\ t = conns'[j] /\ t.host = "open"
        BY <3>1, <3>6
      <4>2. /\ \A n \in 1 .. Len(t.up) : t.up[n].kind = "info" => t.up[n].id = data[t.peer]
            /\ \A n \in 1 .. Len(t.down) : t.down[n].kind = "init" => t.down[n].id = data[t.peer]
        BY <3>1, <4>1 DEF Wire
      <4>3. data'[t.peer] = data[t.peer]
        BY <3>3, <4>1
      <4>4. /\ \A n \in 1 .. Len(t.up) : t.up[n].kind = "info" => t.up[n].id = data'[t.peer]
            /\ \A n \in 1 .. Len(t.down) : t.down[n].kind = "init" => t.down[n].id = data'[t.peer]
        BY <4>2, <4>3
      <4> QED BY ZenonT(40), <4>1, <4>4
    <3> QED BY <3>4, <3>5, <3>6 DEF Wire
  <2> QED BY <2>1, <2>2
<1>24. ASSUME NEW j \in 1 .. Len(conns) PROVE Own(j)'
  <2>1. Own(j)
    BY <1>1 DEF Right
  <2>2. CASE j = k
    BY <1>14, <1>20, <2>1, <2>2 DEF Own
  <2>3. CASE j # k
    BY <1>13, <1>15, <1>20, <2>1, <2>3 DEF Own
  <2> QED BY <2>2, <2>3
<1>25. Right'
  BY <1>13, <1>21, <1>22, <1>23, <1>24 DEF Right
<1> QED BY <1>17, <1>19, <1>25 DEF PInv

\* ENET_EVENT_TYPE_CONNECT of the host.
LEMMA HostConnectStep ==
  ASSUME LanAssumption, PInv, NEW k \in 1 .. Len(conns), HostConnect(k)
  PROVE  PInv'
<1>1. /\ host.active /\ conns[k].host = "shaking" /\ conns[k].far # "asking"
      /\ UNCHANGED <<use, client, wifi>>
  BY DEF HostConnect
<1>2. Typed /\ Counted(host) /\ host.num \in Nat /\ MaxPlayers \in Nat
  BY SMTT(30), <1>1, Number DEF PInv, Right
<1>3. CASE host.num >= MaxPlayers \/ FreeIds = {}
  BY <1>1, <1>3, RefusedStep DEF HostConnect
<1>4. CASE ~(host.num >= MaxPlayers \/ FreeIds = {})
  <2>1. host.num < MaxPlayers
    BY <1>2, <1>4
  <2>2. PICK i \in Ids \ {0} : i = Min(FreeIds) /\ host.players[i].status = "none"
    BY <1>2, <2>1, FreeIdIs
  <2>3. /\ host' = [host EXCEPT !.players[i] = [status |-> "connecting", who |-> conns[k].client],
                                !.num = @ + 1, !.remote[i] = k]
        /\ data' = [data EXCEPT ![conns[k].peer] = i]
        /\ conns' = Sent(k, "down", [kind |-> "init", id |-> i], [conns EXCEPT ![k].host = "open"])
    BY <1>4, <2>2 DEF HostConnect
  <2>4. Given(i, k) /\ Counted(host)'
    BY <1>1, <1>2, <2>1, <2>2, <2>3, GivenIs
  <2> QED BY <1>1, <2>3, <2>4, GivenStep
<1> QED BY <1>3, <1>4

\* EndSession of the host: there are no places any more.
LEMMA HostLeavesStep ==
  ASSUME LanAssumption, PInv, HostLeaves
  PROVE  PInv'
<1>1. /\ conns \in Seq(Connection) /\ Len(conns) <= MaxAsks /\ host \in HostType
      /\ client \in [Clients -> ClientType]
      /\ UNCHANGED <<use, data, client, wifi>>
  BY DEF PInv, Typed, HostLeaves
<1>2. PICK n \in Nat : n = Len(conns) /\ DOMAIN conns = 1 .. n
  BY <1>1
<1>3. host' \in HostType /\ ~host'.active
  <2>1. PICK h \in HostType : h = host
    BY <1>1
  <2>2. PICK g \in HostType : g = [h EXCEPT !.active = FALSE, !.remote = [i \in Ids |-> None]]
    BY HostTypes
  <2>3. host' = g
    BY <2>1, <2>2 DEF HostLeaves
  <2>4. ~g.active
    BY <2>2 DEF HostType
  <2> QED BY <2>3, <2>4
<1>4. ASSUME NEW k \in 1 .. n
      PROVE  [conns[k] EXCEPT !.alive = FALSE, !.host = "closed", !.up = <<>>] \in Connection
  <2>1. PICK q \in Connection : q = conns[k]
    BY <1>1, <1>2
  <2>2. <<>> \in Seq(Messages)
    OBVIOUS
  <2>3. [q EXCEPT !.alive = FALSE, !.host = "closed", !.up = <<>>] \in Connection
    BY <2>2 DEF Connection
  <2> QED BY <2>1, <2>3
<1>5. ASSUME NEW q \in Connection
      PROVE  [q EXCEPT !.alive = FALSE, !.host = "closed", !.up = <<>>].client = q.client
  BY DEF Connection
<1> DEFINE f(k) == [conns[k] EXCEPT !.alive = FALSE, !.host = "closed", !.up = <<>>]
<1>6. conns' = [k \in 1 .. n |-> f(k)] /\ \A k \in 1 .. n : f(k) \in Connection
  BY <1>2, <1>4 DEF HostLeaves
<1>7. \A k \in 1 .. n : f(k).client = conns[k].client
  BY <1>1, <1>2, <1>5
<1> HIDE DEF f
<1>8. conns' \in Seq(Connection) /\ Len(conns') = n
  BY <1>6
<1>9. \A k \in 1 .. n : conns'[k].client = conns[k].client
  BY <1>6, <1>7
<1>10. Typed'
  BY <1>1, <1>2, <1>3, <1>8 DEF PInv, Typed
<1>11. \A c \in Clients : Keeps(c)
  BY <1>1 DEF Keeps, ClientType
<1>12. \A c \in Clients : Known(c)'
  BY <1>2, <1>8, <1>9, <1>10, <1>11, KnownStep DEF PInv
<1> QED BY <1>3, <1>10, <1>12 DEF PInv

\* A client that gives up without a word.
LEMMA HangingStep ==
  ASSUME LanAssumption, PInv, NEW c \in Clients, GiveUp(c) \/ Leave(c)
  PROVE  PInv'
BY AbandonedStep DEF GiveUp, Leave

-----------------------------------------------------------------------------
(* The invariant and what follows from it.                                 *)

\* At first nobody has asked for anything.
LEMMA InitHolds ==
  ASSUME LanAssumption, Init
  PROVE  PInv
<1>1. 0 \in Ids /\ 1 \in Counts /\ Len(conns) = 0 /\ MaxAsks \in Nat
  BY DEF LanAssumption, Ids, Counts, Init
<1>14. Cardinality({0}) = 1
  BY FS_Singleton
<1>2. conns = <<>> /\ conns \in Seq(Connection)
  BY DEF Init
<1>3. PICK f : f = [Empty EXCEPT ![0] = [status |-> "host", who |-> HostMachine]]
  OBVIOUS
<1>4. /\ f \in PlayerLists /\ f[0] = [status |-> "host", who |-> HostMachine]
      /\ \A i \in Ids \ {0} : f[i].status = "none"
  BY <1>1, <1>3 DEF PlayerLists, Empty, Statuses, Machines
<1>5. host = [active |-> TRUE, num |-> 1, mask |-> {}, players |-> f, remote |-> [i \in Ids |-> None]]
  BY <1>3 DEF Init, NewHost
<1>6. host \in HostType
  BY <1>1, <1>4, <1>5 DEF HostType
<1>7. client \in [Clients -> ClientType] /\ \A c \in Clients : client[c] = NewClient /\ client[c].state = "out"
  BY ClientTypes DEF Init
<1>8. Typed
  BY <1>1, <1>2, <1>6, <1>7 DEF Typed, Init
<1>9. \A c \in Clients : Known(c)
  BY <1>7 DEF Known
<1>10. Taken(host) = {0}
  BY <1>1, <1>4, <1>5 DEF Taken
<1>11. Counted(host)
  <2>1. host.num = 1 /\ host.players = f
    BY <1>5
  <2>2. host.players[0].status = "host"
    BY <1>4, <2>1
  <2>3. Cardinality(Taken(host)) = 1
    BY <1>10, <1>14
  <2> QED BY <2>1, <2>2, <2>3 DEF Counted
<1>12. Placed
  BY <1>4, <1>5 DEF Placed
<1>13. Right
  BY <1>1, <1>2, <1>11, <1>12 DEF Right, Apart
<1> QED BY <1>8, <1>9, <1>13 DEF PInv

\* What has been done by mistake is not undone.
LEMMA Mistaken ==
  ASSUME [Next]_vars, mistaken
  PROVE  mistaken'
BY DEF Next, vars, HostEvent, ClientEvent, HandshakeFails, HostConnect, HostDisconnect, HostReceive,
       Lose, HostBegin, HostStop, HostLeaves, Connected, Joined, GiveUp, ClientReceive,
       ClientDisconnect, Ask, Leave, ClientBegin, ClientStop, HearHost

\* Every step that is no mistake keeps it.
LEMMA NextHolds ==
  ASSUME LanAssumption, PInv, ~mistaken', [Next]_vars
  PROVE  PInv'
<1>1. CASE UNCHANGED vars
  <2>1. UNCHANGED <<use, conns, data, host, client, wifi>>
    BY <1>1 DEF vars
  <2>2. Typed'
    BY <2>1 DEF PInv, Typed
  <2>3. \A c \in Clients : Keeps(c)
    BY <2>1 DEF Keeps, PInv, Typed, ClientType
  <2> QED BY <2>1, <2>2, <2>3, NoStep
<1>2. ASSUME NEW k \in Peers, HostEvent(k) PROVE PInv'
  <2>1. k \in 1 .. Len(conns) /\ k \in DOMAIN conns
    BY <1>2 DEF HostEvent, PInv, Typed
  <2> QED BY <1>2, <2>1, HandshakeFailsStep, HostConnectStep, HostDisconnectStep, HostReceiveStep
          DEF HostEvent
<1>3. ASSUME NEW k \in DOMAIN conns, Lose(k) PROVE PInv'
  BY <1>3, LoseStep
<1>4. CASE HostBegin \/ HostStop
  BY <1>4, HostPlaysStep
<1>5. CASE HostLeaves
  BY <1>5, HostLeavesStep
<1>6. ASSUME NEW c \in Clients, ClientEvent(c) PROVE PInv'
  BY <1>6, ConnectedStep, JoinedStep, HangingStep, ClientReceiveStep, ClientDisconnectStep
     DEF ClientEvent
<1>7. ASSUME NEW c \in Clients,
             Ask(c) \/ Leave(c) \/ ClientBegin(c) \/ ClientStop(c) \/ HearHost(c)
      PROVE  PInv'
  BY <1>7, AskStep, HangingStep, ClientBeginStep, ClientStopStep, HearHostStep
<1> QED BY <1>1, <1>2, <1>3, <1>4, <1>5, <1>6, <1>7 DEF Next

-----------------------------------------------------------------------------
(* Types, which stay right whatever is done by mistake.                    *)

\* The data of an open connection's peer are somebody's place.
TInv ==
    /\ Typed /\ mistaken \in BOOLEAN /\ \A c \in Clients : Known(c)
    /\ \A k \in 1 .. Len(conns) : conns[k].host = "open" => data[conns[k].peer] \in Ids

\* Connections in the same hands, none of them opened.
Fits(all) ==
    /\ all \in Seq(Connection) /\ Len(all) = Len(conns)
    /\ \A k \in 1 .. Len(conns) :
           /\ all[k].client = conns[k].client /\ all[k].peer = conns[k].peer
           /\ all[k].host = "open" => conns[k].host = "open"

\* A client that stays what it is, leaves, or is in the session to which it has asked its way.
Knowing(c) ==
    \/ client'[c] \in {client[c], NewClient}
    \/ client[c].state # "out" /\ client'[c].state = "in"

\* Who asks has asked for a connection, and who is out knows nothing.
LEMMA KnowingStep ==
  ASSUME LanAssumption, TInv, \A c \in Clients : Knowing(c),
         Len(conns') = Len(conns), \A k \in 1 .. Len(conns) : conns'[k].client = conns[k].client
  PROVE  \A c \in Clients : Known(c)'
<1> SUFFICES ASSUME NEW c \in Clients PROVE Known(c)'
  OBVIOUS
<1>1. Known(c) /\ Knowing(c) /\ NewClient.state = "out"
  BY ClientTypes DEF TInv
<1>2. (\E k \in 1 .. Len(conns) : conns[k].client = c)
         => \E k \in 1 .. Len(conns') : conns'[k].client = c
  OBVIOUS
<1> QED BY <1>1, <1>2 DEF Known, Knowing

\* A step that opens no connection.
LEMMA TypesStep ==
  ASSUME LanAssumption, TInv, use' = use, data' = data, Fits(conns'), host' \in HostType,
         client' \in [Clients -> ClientType], \A c \in Clients : Knowing(c),
         wifi' \subseteq Machines, mistaken' \in BOOLEAN
  PROVE  TInv'
<1>1. /\ conns' \in Seq(Connection) /\ Len(conns') = Len(conns)
      /\ \A k \in 1 .. Len(conns) :
             /\ conns'[k].client = conns[k].client /\ conns'[k].peer = conns[k].peer
             /\ conns'[k].host = "open" => conns[k].host = "open"
  BY DEF Fits
<1>2. Typed'
  BY <1>1 DEF TInv, Typed
<1>3. \A c \in Clients : Known(c)'
  BY <1>1, KnowingStep
<1> QED BY <1>1, <1>2, <1>3 DEF TInv

\* Who knows something else is in the session, or on the way into it.
LEMMA Knows ==
  ASSUME client \in [Clients -> ClientType], NEW c \in Clients, NEW o \in ClientType,
         client' = [client EXCEPT ![c] = o],
         o = NewClient \/ (client[c].state # "out" /\ o.state = "in")
  PROVE  client' \in [Clients -> ClientType] /\ \A b \in Clients : Knowing(b)
<1>1. client' \in [Clients -> ClientType]
  OBVIOUS
<1>2. client'[c] = o /\ \A b \in Clients : b # c => client'[b] = client[b]
  OBVIOUS
<1> QED BY <1>1, <1>2 DEF Knowing

\* One connection that is changed fits.
LEMMA FitsOne ==
  ASSUME NEW all, Fits(all), NEW k \in 1 .. Len(conns), NEW r \in Connection,
         r.client = all[k].client, r.peer = all[k].peer, r.host = "open" => all[k].host = "open"
  PROVE  Fits([all EXCEPT ![k] = r])
<1>1. all \in Seq(Connection) /\ Len(all) = Len(conns) /\ k \in 1 .. Len(all)
  BY DEF Fits
<1>2. PICK z : z = [all EXCEPT ![k] = r]
  OBVIOUS
<1>3. But(z, all, k) /\ z[k] = r
  BY <1>1, <1>2, One
<1>4. z \in Seq(Connection) /\ Len(z) = Len(conns) /\ \A j \in 1 .. Len(conns) : j # k => z[j] = all[j]
  BY <1>1, <1>3 DEF But
<1> QED BY <1>2, <1>3, <1>4 DEF Fits

\* So do those to which everybody, or one end, is told something.
LEMMA FitsTold ==
  ASSUME NEW all, Fits(all), NEW a \in Messages
  PROVE  /\ Fits(Broadcast(a, all))
         /\ \A k \in 1 .. Len(conns) : Fits(Sent(k, "up", a, all)) /\ Fits(Sent(k, "down", a, all))
<1>1. all \in Seq(Connection) /\ Len(all) = Len(conns)
  BY DEF Fits
<1>2. Fits(Broadcast(a, all))
  BY <1>1, BroadcastIs DEF Fits
<1>3. ASSUME NEW k \in 1 .. Len(conns), NEW way \in {"up", "down"}
      PROVE  Fits(Sent(k, way, a, all))
  <2>1. PICK q \in Connection : q = all[k]
    BY <1>1
  <2>2. q.up \in Seq(Messages) /\ q.down \in Seq(Messages)
    BY Under
  <2>3. Append(q.up, a) \in Seq(Messages) /\ Append(q.down, a) \in Seq(Messages)
    BY <2>2
  <2>4. PICK r : r = [q EXCEPT ![way] = Append(@, a)]
    OBVIOUS
  <2>5. r \in Connection /\ r.client = q.client /\ r.peer = q.peer /\ r.host = q.host
    <3>1. CASE way = "up"
      <4>1. r = [q EXCEPT !.up = Append(q.up, a)]
        BY <2>4, <3>1
      <4> QED BY <2>3, <4>1, Under
    <3>2. CASE way = "down"
      <4>1. r = [q EXCEPT !.down = Append(q.down, a)]
        BY <2>4, <3>2
      <4> QED BY <2>3, <4>1, Under
    <3> QED BY <3>1, <3>2
  <2>6. Fits([all EXCEPT ![k] = r])
    BY <2>1, <2>5, FitsOne
  <2>7. Sent(k, way, a, all) \in {all, [all EXCEPT ![k] = r]}
    BY <1>1, <2>1, <2>4 DEF Sent
  <2> QED BY <2>6, <2>7
<1> QED BY <1>2, <1>3

\* What becomes of a connection otherwise.
LEMMA FitsAltered ==
  ASSUME TInv, NEW k \in 1 .. Len(conns)
  PROVE  /\ Fits(conns)
         /\ Fits([conns EXCEPT ![k].alive = FALSE])
         /\ Fits([conns EXCEPT ![k].host = "closed", ![k].up = <<>>])
         /\ Fits([conns EXCEPT ![k].far = "open"])
         /\ Fits([conns EXCEPT ![k].far = "closed", ![k].down = <<>>])
         /\ conns[k].up # <<>> =>
               /\ Fits([conns EXCEPT ![k].up = Tail(@)])
               /\ Fits(Refused(k, [conns EXCEPT ![k].up = Tail(@)]))
         /\ conns[k].down # <<>> => Fits([conns EXCEPT ![k].down = Tail(@)])
         /\ Fits(Refused(k, conns)) /\ Fits(Abandoned(k))
<1>1. conns \in Seq(Connection) /\ Fits(conns)
  BY DEF TInv, Typed, Fits
<1>2. PICK q \in Connection : q = conns[k]
  BY <1>1
<1>3. /\ q.up \in Seq(Messages) /\ q.down \in Seq(Messages) /\ <<>> \in Seq(Messages)
      /\ q.host \in {"shaking", "open", "closing", "closed"}
  BY DEF Connection
<1>4. (q.up # <<>> => Tail(q.up) \in Seq(Messages)) /\ (q.down # <<>> => Tail(q.down) \in Seq(Messages))
  BY <1>3
<1>5. ASSUME NEW r \in Connection, r.client = q.client, r.peer = q.peer,
             r.host = "open" => q.host = "open"
      PROVE  Fits([conns EXCEPT ![k] = r])
  BY <1>1, <1>2, <1>5, FitsOne
<1>6. Fits([conns EXCEPT ![k].alive = FALSE])
  <2>1. PICK r \in Connection : r = [q EXCEPT !.alive = FALSE]
    BY DEF Connection
  <2>2. r.client = q.client /\ r.peer = q.peer /\ r.host = q.host
    BY <2>1 DEF Connection
  <2>3. [conns EXCEPT ![k].alive = FALSE] = [conns EXCEPT ![k] = r]
    BY <1>2, <2>1
  <2> QED BY <1>5, <2>1, <2>2, <2>3
<1>7. Fits([conns EXCEPT ![k].host = "closed", ![k].up = <<>>])
  <2>1. PICK r \in Connection : r = [q EXCEPT !.host = "closed", !.up = <<>>]
    BY <1>3 DEF Connection
  <2>2. r.client = q.client /\ r.peer = q.peer /\ r.host = "closed"
    BY <2>1 DEF Connection
  <2>3. [conns EXCEPT ![k].host = "closed", ![k].up = <<>>] = [conns EXCEPT ![k] = r]
    BY <1>1, <1>2, <2>1
  <2> QED BY <1>5, <2>1, <2>2, <2>3
<1>8. Fits([conns EXCEPT ![k].far = "open"])
  <2>1. PICK r \in Connection : r = [q EXCEPT !.far = "open"]
    BY DEF Connection
  <2>2. r.client = q.client /\ r.peer = q.peer /\ r.host = q.host
    BY <2>1 DEF Connection
  <2>3. [conns EXCEPT ![k].far = "open"] = [conns EXCEPT ![k] = r]
    BY <1>2, <2>1
  <2> QED BY <1>5, <2>1, <2>2, <2>3
<1>9. Fits([conns EXCEPT ![k].far = "closed", ![k].down = <<>>])
  <2>1. PICK r \in Connection : r = [q EXCEPT !.far = "closed", !.down = <<>>]
    BY <1>3 DEF Connection
  <2>2. r.client = q.client /\ r.peer = q.peer /\ r.host = q.host
    BY <2>1 DEF Connection
  <2>3. [conns EXCEPT ![k].far = "closed", ![k].down = <<>>] = [conns EXCEPT ![k] = r]
    BY <1>1, <1>2, <2>1
  <2> QED BY <1>5, <2>1, <2>2, <2>3
<1>10. ASSUME q.down # <<>> PROVE Fits([conns EXCEPT ![k].down = Tail(@)])
  <2>1. PICK r \in Connection : /\ r = [q EXCEPT !.down = Tail(q.down)]
                                /\ r.client = q.client /\ r.peer = q.peer /\ r.host = q.host
    BY <1>4, <1>10, Under
  <2>2. [conns EXCEPT ![k].down = Tail(@)] = [conns EXCEPT ![k] = r]
    BY <1>2, <2>1
  <2> QED BY <1>5, <2>1, <2>2
<1>11. ASSUME q.up # <<>> PROVE Fits([conns EXCEPT ![k].up = Tail(@)])
  <2>1. PICK r \in Connection : /\ r = [q EXCEPT !.up = Tail(q.up)]
                                /\ r.client = q.client /\ r.peer = q.peer /\ r.host = q.host
    BY <1>4, <1>11, Under
  <2>2. [conns EXCEPT ![k].up = Tail(@)] = [conns EXCEPT ![k] = r]
    BY <1>2, <2>1
  <2> QED BY <1>5, <2>1, <2>2
<1>12. ASSUME NEW all, Fits(all) PROVE Fits(Refused(k, all))
  <2>1. PICK p \in Connection : p = all[k]
    BY <1>12 DEF Fits
  <2>2. PICK r \in Connection : r = [p EXCEPT !.host = "closing", !.alive = FALSE, !.down = <<>>]
    BY <1>3 DEF Connection
  <2>3. r.client = p.client /\ r.peer = p.peer /\ r.host = "closing"
    BY <2>2 DEF Connection
  <2>4. Refused(k, all) = [all EXCEPT ![k] = r]
    BY <2>1, <2>2 DEF Refused
  <2>5. Fits([all EXCEPT ![k] = r])
    BY <1>12, <2>1, <2>3, FitsOne
  <2> QED BY <2>4, <2>5
<1>13. Fits(Abandoned(k))
  <2>1. PICK x \in {"shaking", "open", "closing", "closed"} :
            x = IF q.far = "asking" THEN "closed" ELSE q.host
    BY <1>3
  <2>2. PICK r \in Connection : r = [q EXCEPT !.alive = FALSE, !.far = "closed", !.down = <<>>, !.host = x]
    BY <1>3 DEF Connection
  <2>3. r.client = q.client /\ r.peer = q.peer /\ r.host = x
    BY <2>2 DEF Connection
  <2>4. Abandoned(k) = [conns EXCEPT ![k] = r]
    BY <1>1, <1>2, <2>1, <2>2 DEF Abandoned
  <2> QED BY <1>5, <2>1, <2>2, <2>3, <2>4
<1> QED BY <1>1, <1>2, <1>6, <1>7, <1>8, <1>9, <1>10, <1>11, <1>12, <1>13

\* What a client does.
LEMMA ClientsKeepTypes ==
  ASSUME LanAssumption, TInv, NEW c \in Clients,
         ClientEvent(c) \/ Leave(c) \/ ClientBegin(c) \/ ClientStop(c) \/ HearHost(c)
  PROVE  TInv'
<1>1. /\ client \in [Clients -> ClientType] /\ wifi \subseteq Machines /\ host \in HostType
      /\ mistaken \in BOOLEAN /\ conns \in Seq(Connection) /\ 0 \in Ids
  BY DEF TInv, Typed, LanAssumption, Ids
<1>2. UNCHANGED <<use, data, host, mistaken>> /\ wifi' \in {wifi, wifi \cup {c}, wifi \ {c}}
  BY DEF ClientEvent, Connected, Joined, GiveUp, ClientReceive, ClientDisconnect, Leave,
         ClientBegin, ClientStop, HearHost
<1>3. wifi' \subseteq Machines
  BY <1>1, <1>2 DEF Machines
<1>4. PICK p \in ClientType : p = client[c]
  BY <1>1
<1>5. ASSUME Fits(conns'), client' = client PROVE TInv'
  <2>1. client' \in [Clients -> ClientType] /\ \A b \in Clients : Knowing(b)
    BY <1>1, <1>5 DEF Knowing
  <2> QED BY <1>1, <1>2, <1>3, <1>5, <2>1, TypesStep
<1>6. ASSUME Fits(conns'), NEW o \in ClientType, client' = [client EXCEPT ![c] = o],
             o = NewClient \/ (client[c].state # "out" /\ o.state = "in")
      PROVE  TInv'
  <2>1. client' \in [Clients -> ClientType] /\ \A b \in Clients : Knowing(b)
    BY <1>1, <1>6, Knows
  <2> QED BY <1>1, <1>2, <1>3, <1>6, <2>1, TypesStep
<1>7. PICK k : k = Mine(c)
  OBVIOUS
<1>8. client[c].state # "out" => k \in 1 .. Len(conns)
  BY <1>7, MineIs DEF TInv
<1>9. CASE Connected(c)
  <2>1. k \in 1 .. Len(conns) /\ conns' = [conns EXCEPT ![k].far = "open"] /\ client' = client
    BY <1>7, <1>8, <1>9 DEF Connected
  <2> QED BY <1>5, <2>1, FitsAltered
<1>10. CASE Joined(c)
  <2>1. k \in 1 .. Len(conns) /\ conns[k].down # <<>> /\ client[c].state = "joining"
    BY <1>7, <1>8, <1>10 DEF Joined
  <2>2. PICK rest : rest = [conns EXCEPT ![k].down = Tail(@)]
    OBVIOUS
  <2>3. Fits(rest)
    BY <2>1, <2>2, FitsAltered
  <2>4. PICK m \in Messages : m = Head(conns[k].down)
    <3>1. PICK q \in Connection : q = conns[k]
      BY <1>1, <2>1
    <3>2. Head(q.down) \in Messages
      BY <2>1, <3>1, Under, Queues
    <3> QED BY <3>1, <3>2
  <2>5. CASE m.kind # "init"
    <3>1. conns' = rest /\ client' = client
      BY <1>7, <1>10, <2>2, <2>4, <2>5 DEF Joined
    <3> QED BY <1>5, <2>3, <3>1
  <2>6. CASE m.kind = "init"
    <3>1. m.id \in Ids
      BY <2>6 DEF Messages
    <3>2. PICK a \in Messages : a = [kind |-> "info", id |-> m.id]
      BY <3>1, Commands
    <3>3. PICK o \in ClientType : o = [p EXCEPT !.state = "in", !.id = m.id]
      BY <3>1, ClientTypes
    <3>4. o.state = "in"
      BY <3>3 DEF ClientType
    <3>5. conns' = Sent(k, "up", a, rest) /\ client' = [client EXCEPT ![c] = o]
      <4>1. /\ client' = [client EXCEPT ![c].state = "in", ![c].id = m.id]
            /\ conns' = Sent(k, "up", [kind |-> "info", id |-> m.id], rest)
        BY <1>7, <1>10, <2>2, <2>4, <2>6 DEF Joined
      <4> QED BY <1>1, <1>4, <3>2, <3>3, <4>1
    <3>6. Fits(conns')
      BY <2>1, <2>3, <3>5, FitsTold
    <3> QED BY <1>6, <2>1, <3>4, <3>5, <3>6
  <2> QED BY <2>5, <2>6
<1>11. CASE GiveUp(c) \/ Leave(c)
  <2>1. client[c].state # "out" /\ conns' = Abandoned(k) /\ client' = [client EXCEPT ![c] = NewClient]
    BY <1>7, <1>11 DEF GiveUp, Leave
  <2>2. Fits(conns')
    BY <1>8, <2>1, FitsAltered
  <2>3. PICK o \in ClientType : o = NewClient
    BY ClientTypes
  <2>4. client' = [client EXCEPT ![c] = o]
    BY <2>1, <2>3
  <2>5. client' \in [Clients -> ClientType]
    BY <1>1, <2>4
  <2>6. client'[c] = NewClient /\ \A b \in Clients : b # c => client'[b] = client[b]
    BY <1>1, <2>3, <2>4
  <2>7. \A b \in Clients : Knowing(b)
    BY <2>6 DEF Knowing
  <2> QED BY <1>1, <1>2, <1>3, <2>2, <2>5, <2>7, TypesStep
<1>12. CASE ClientReceive(c)
  <2>1. k \in 1 .. Len(conns) /\ conns[k].down # <<>> /\ client[c].state = "in"
    BY <1>7, <1>8, <1>12 DEF ClientReceive
  <2>2. Fits(conns')
    BY <1>7, <1>12, <2>1, FitsAltered DEF ClientReceive
  <2>3. PICK m \in Messages : m = Head(conns[k].down)
    <3>1. PICK q \in Connection : q = conns[k]
      BY <1>1, <2>1
    <3>2. Head(q.down) \in Messages
      BY <2>1, <3>1, Under, Queues
    <3> QED BY <3>1, <3>2
  <2>4. \/ /\ m.kind = "list" /\ m.num <= 16
           /\ client' = [client EXCEPT ![c].players = m.players, ![c].num = m.num]
        \/ client' = client
        \/ client' = [client EXCEPT ![c].mask = @ \cup {0}]
        \/ client' = [client EXCEPT ![c].mask = @ \ {0}]
    BY <1>7, <1>12, <2>3 DEF ClientReceive
  <2>5. CASE client' = client
    BY <1>5, <2>2, <2>5
  <2>6. CASE /\ m.kind = "list" /\ m.num <= 16
             /\ client' = [client EXCEPT ![c].players = m.players, ![c].num = m.num]
    <3>1. m.players \in PlayerLists /\ m.num \in 0 .. 16
      BY <2>6, Lists
    <3>2. PICK o \in ClientType : o = [p EXCEPT !.players = m.players, !.num = m.num]
      BY <3>1, ClientTypes
    <3>3. o.state = p.state
      BY <3>2 DEF ClientType
    <3>4. client' = [client EXCEPT ![c] = o]
      BY <1>1, <1>4, <2>6, <3>2
    <3> QED BY <1>4, <1>6, <2>1, <2>2, <3>3, <3>4
  <2>7. CASE client' = [client EXCEPT ![c].mask = @ \cup {0}]
    <3>1. PICK o \in ClientType : o = [p EXCEPT !.mask = @ \cup {0}]
      BY <1>1, ClientTypes
    <3>2. o.state = p.state
      BY <3>1 DEF ClientType
    <3>3. client' = [client EXCEPT ![c] = o]
      BY <1>1, <1>4, <2>7, <3>1
    <3> QED BY <1>4, <1>6, <2>1, <2>2, <3>2, <3>3
  <2>8. CASE client' = [client EXCEPT ![c].mask = @ \ {0}]
    <3>1. PICK o \in ClientType : o = [p EXCEPT !.mask = @ \ {0}]
      BY <1>1, ClientTypes
    <3>2. o.state = p.state
      BY <3>1 DEF ClientType
    <3>3. client' = [client EXCEPT ![c] = o]
      BY <1>1, <1>4, <2>8, <3>1
    <3> QED BY <1>4, <1>6, <2>1, <2>2, <3>2, <3>3
  <2> QED BY <2>4, <2>5, <2>6, <2>7, <2>8
<1>13. CASE ClientDisconnect(c)
  <2>1. /\ k \in 1 .. Len(conns) /\ client[c].state = "in"
        /\ conns' = [conns EXCEPT ![k].far = "closed", ![k].down = <<>>]
        /\ client' = [client EXCEPT ![c].mask = @ \ {0}, ![c].players[0].status = "disconnected"]
    BY <1>7, <1>8, <1>13 DEF ClientDisconnect
  <2>2. Fits(conns')
    BY <2>1, FitsAltered
  <2>3. PICK f : f = [p.players EXCEPT ![0].status = "disconnected"]
    OBVIOUS
  <2>4. f \in PlayerLists
    <3>1. p.players \in PlayerLists
      BY DEF ClientType
    <3> QED BY <1>1, <2>3, <3>1 DEF PlayerLists, Statuses
  <2>5. PICK o : o = [p EXCEPT !.mask = @ \ {0}, !.players = f]
    OBVIOUS
  <2>6. o \in ClientType /\ o.state = p.state
    BY <2>4, <2>5 DEF ClientType
  <2>7. client' = [client EXCEPT ![c] = o]
    BY <1>1, <1>4, <2>1, <2>3, <2>5 DEF ClientType
  <2> QED BY <1>4, <1>6, <2>1, <2>2, <2>6, <2>7
<1>14. CASE ClientBegin(c)
  <2>1. /\ client[c].state = "in" /\ k \in 1 .. Len(conns)
        /\ client' = [client EXCEPT ![c].mask = @ \cup {client[c].id}, ![c].last = None]
        /\ conns' = IF conns[k].far = "open" THEN Sent(k, "up", [kind |-> "begin"], conns) ELSE conns
    BY <1>7, <1>8, <1>14 DEF ClientBegin
  <2>2. PICK a \in Messages : a = [kind |-> "begin"]
    BY Commands
  <2>3. Fits(conns')
    BY <2>1, <2>2, FitsAltered, FitsTold
  <2>4. p.id \in Ids
    BY DEF ClientType
  <2>5. PICK o \in ClientType : o = [p EXCEPT !.mask = @ \cup {p.id}, !.last = None]
    BY <2>4, ClientTypes
  <2>6. o.state = p.state
    BY <2>5 DEF ClientType
  <2>7. client' = [client EXCEPT ![c] = o]
    BY <1>1, <1>4, <2>1, <2>5 DEF ClientType
  <2> QED BY <1>4, <1>6, <2>1, <2>3, <2>6, <2>7
<1>15. CASE ClientStop(c)
  <2>1. CASE client[c].state = "out"
    <3>1. client' = client /\ conns' = conns
      BY <1>15, <2>1 DEF ClientStop
    <3>2. Fits(conns)
      BY <1>1 DEF Fits
    <3> QED BY <1>5, <3>1, <3>2
  <2>2. CASE client[c].state # "out"
    <3>1. /\ client[c].state = "in" /\ k \in 1 .. Len(conns)
          /\ client' = [client EXCEPT ![c].mask = @ \ {client[c].id}]
          /\ conns' = IF conns[k].far = "open" THEN Sent(k, "up", [kind |-> "end"], conns) ELSE conns
      BY <1>1, <1>7, <1>8, <1>15, <2>2 DEF ClientStop, ClientType
    <3>2. PICK a \in Messages : a = [kind |-> "end"]
      BY Commands
    <3>3. Fits(conns')
      BY <3>1, <3>2, FitsAltered, FitsTold
    <3>4. p.id \in Ids
      BY DEF ClientType
    <3>5. PICK o \in ClientType : o = [p EXCEPT !.mask = @ \ {p.id}]
      BY <3>4, ClientTypes
    <3>6. o.state = p.state
      BY <3>5 DEF ClientType
    <3>7. client' = [client EXCEPT ![c] = o]
      BY <1>1, <1>4, <3>1, <3>5 DEF ClientType
    <3> QED BY <1>4, <1>6, <3>1, <3>3, <3>6, <3>7
  <2> QED BY <2>1, <2>2
<1>16. CASE HearHost(c)
  <2>1. /\ client[c].state = "in" /\ conns' = conns
        /\ client' = [client EXCEPT ![c].last = 0]
    BY <1>16 DEF HearHost
  <2>2. Fits(conns')
    BY <1>1, <2>1 DEF Fits
  <2>3. PICK o \in ClientType : o = [p EXCEPT !.last = 0]
    BY ClientTypes
  <2>4. o.state = p.state
    BY <2>3 DEF ClientType
  <2>5. client' = [client EXCEPT ![c] = o]
    BY <1>1, <1>4, <2>1, <2>3
  <2> QED BY <1>4, <1>6, <2>1, <2>2, <2>4, <2>5
<1> QED BY <1>9, <1>10, <1>11, <1>12, <1>13, <1>14, <1>15, <1>16 DEF ClientEvent

\* A client asks: what its connection's peer has been used for does not matter.
LEMMA AskKeepsTypes ==
  ASSUME LanAssumption, TInv, NEW c \in Clients, Ask(c)
  PROVE  TInv'
<1>1. /\ Len(conns) < MaxAsks /\ client[c].state = "out"
      /\ client' = [client EXCEPT ![c].state = "joining"]
      /\ UNCHANGED <<use, data, host, wifi, mistaken>>
      /\ client \in [Clients -> ClientType] /\ Typed
      /\ conns \in Seq(Connection) /\ Len(conns) \in Nat /\ MaxAsks \in Nat
  BY DEF Ask, TInv, Typed, LanAssumption
<1>2. PICK p \in Peers : p = FreePeer
  BY <1>1, FreePeerIs
<1>3. PICK r : r = [client |-> c, peer |-> p, up |-> <<>>, down |-> <<>>,
                    alive |-> TRUE, host |-> "shaking", far |-> "asking"]
  OBVIOUS
<1>4. r \in Connection /\ r.client = c /\ r.host = "shaking"
  <2>1. <<>> \in Seq(Messages)
    OBVIOUS
  <2> QED BY <1>3, <2>1 DEF Connection
<1>5. conns' = Append(conns, r)
  BY <1>2, <1>3 DEF Ask
<1>6. PICK n \in Nat : n = Len(conns) + 1
  BY <1>1
<1>7. /\ conns' \in Seq(Connection) /\ Len(conns') = n /\ conns'[n] = r /\ n \in 1 .. n
      /\ \A k \in 1 .. Len(conns) : conns'[k] = conns[k] /\ k \in 1 .. n
      /\ \A k \in 1 .. n : k \in 1 .. Len(conns) \/ k = n
  BY <1>1, <1>4, <1>5, <1>6
<1>8. \A b \in Clients : client'[b] = IF b = c THEN [client[c] EXCEPT !.state = "joining"] ELSE client[b]
  BY <1>1
<1>9. client' \in [Clients -> ClientType]
  BY <1>1, ClientTypes
<1>10. Typed'
  BY <1>1, <1>6, <1>7, <1>9 DEF Typed
<1>11. ASSUME NEW b \in Clients PROVE Known(b)'
  <2>1. Known(b) /\ Known(c)
    BY DEF TInv
  <2>2. CASE b = c
    <3>1. client'[c] = [NewClient EXCEPT !.state = "joining"]
      BY <1>1, <1>8, <2>1 DEF Known
    <3>2. client'[c].state = "joining"
      BY <3>1 DEF NewClient
    <3> QED BY <1>4, <1>7, <2>2, <3>1, <3>2 DEF Known
  <2>3. CASE b # c
    <3>1. client'[b] = client[b]
      BY <1>8, <2>3
    <3>2. (\E k \in 1 .. Len(conns) : conns[k].client = b)
             => \E k \in 1 .. Len(conns') : conns'[k].client = b
      BY <1>7
    <3> QED BY <2>1, <3>1, <3>2 DEF Known
  <2> QED BY <2>2, <2>3
<1>12. ASSUME NEW k \in 1 .. Len(conns'), conns'[k].host = "open"
       PROVE  data'[conns'[k].peer] \in Ids
  <2>1. k \in 1 .. Len(conns) /\ conns'[k] = conns[k]
    BY <1>4, <1>7, <1>12
  <2> QED BY <1>1, <1>12, <2>1 DEF TInv
<1> QED BY <1>1, <1>10, <1>11, <1>12 DEF TInv

\* What the network does.
LEMMA NetworkKeepsTypes ==
  ASSUME LanAssumption, TInv, NEW k \in 1 .. Len(conns), Lose(k) \/ HandshakeFails(k)
  PROVE  TInv'
<1>1. UNCHANGED <<use, data, host, client, wifi, mistaken>> /\ Fits(conns')
  BY FitsAltered DEF Lose, HandshakeFails
<1>2. \A c \in Clients : Knowing(c)
  BY <1>1 DEF Knowing
<1> QED BY <1>1, <1>2, TypesStep DEF TInv, Typed

\* What the host does, but for giving a place.
LEMMA HostKeepsTypes ==
  ASSUME LanAssumption, TInv, UNCHANGED <<use, data, client>>, Fits(conns'), host' \in HostType,
         wifi' \subseteq Machines, mistaken' \in BOOLEAN
  PROVE  TInv'
<1>1. \A c \in Clients : Knowing(c)
  BY DEF Knowing
<1> QED BY <1>1, TypesStep DEF TInv, Typed

\* The place a peer's data stand for.
LEMMA IdAtIs ==
  ASSUME LanAssumption, NEW place \in Ids
  PROVE  IdAt(place) \in Ids
  BY DEF IdAt, Ids, LanAssumption

LEMMA HostDisconnectKeepsTypes ==
  ASSUME LanAssumption, TInv, NEW k \in 1 .. Len(conns), HostDisconnect(k)
  PROVE  TInv'
<1>1. PICK place : place = data[conns[k].peer]
  OBVIOUS
<1>2. PICK closed : closed = [conns EXCEPT ![k].host = "closed", ![k].up = <<>>]
  OBVIOUS
<1>3. /\ UNCHANGED <<use, data, client, wifi>>
      /\ mistaken' = (mistaken \/ (place # None /\ conns[k].host = "closing"))
      /\ place = None => conns' = closed /\ host' = host
      /\ place # None => host' = Without(place) /\ conns' = Broadcast(PlayerList(host'), closed)
  BY <1>1, <1>2 DEF HostDisconnect
<1>4. wifi' \subseteq Machines /\ mistaken' \in BOOLEAN /\ host \in HostType
  BY <1>3 DEF TInv, Typed
<1>5. Fits(closed)
  BY <1>2, FitsAltered
<1>6. CASE place = None
  BY <1>3, <1>4, <1>5, <1>6, HostKeepsTypes
<1>7. CASE place # None
  <2>1. place \in Ids
    <3>1. PICK q \in Connection : q = conns[k]
      BY DEF TInv, Typed
    <3>2. q.peer \in Peers
      BY DEF Connection
    <3> QED BY <1>1, <1>7, <3>1, <3>2 DEF TInv, Typed
  <2>2. host' \in HostType
    <3>1. PICK h \in HostType : h = host
      BY <1>4
    <3>2. PICK i \in Ids : i = IdAt(place)
      BY <2>1, IdAtIs
    <3>3. h.num \in Int /\ h.num <= MaxPlayers /\ MaxPlayers \in Int
      BY DEF HostType, Counts, LanAssumption
    <3>4. PICK n \in Counts : n = h.num - 1
      BY <3>3 DEF Counts
    <3>5. h.players \in PlayerLists /\ h.mask \subseteq Ids /\ h.remote \in [Ids -> Peers \cup {None}]
      BY DEF HostType
    <3>6. [h.players EXCEPT ![place].status = "none"] \in PlayerLists
      BY <2>1, <3>5 DEF PlayerLists, Statuses
    <3>7. [h EXCEPT !.mask = @ \ {i}, !.remote[i] = None, !.players[place].status = "none",
                    !.num = n] \in HostType
      BY <3>5, <3>6 DEF HostType
    <3> QED BY <1>3, <1>7, <3>1, <3>2, <3>4, <3>7 DEF Without
  <2>3. PICK a \in Messages : a = PlayerList(host')
    BY <2>2, Commands
  <2>4. Fits(conns')
    BY <1>3, <1>5, <1>7, <2>3, FitsTold
  <2> QED BY <1>3, <1>4, <2>2, <2>4, HostKeepsTypes
<1> QED BY <1>6, <1>7

LEMMA HostReceiveKeepsTypes ==
  ASSUME LanAssumption, TInv, NEW k \in 1 .. Len(conns), HostReceive(k)
  PROVE  TInv'
<1>1. PICK place : place = data[conns[k].peer]
  OBVIOUS
<1>2. PICK rest : rest = [conns EXCEPT ![k].up = Tail(@)]
  OBVIOUS
<1>3. PICK m : m = Head(conns[k].up)
  OBVIOUS
<1>4. PICK q \in Connection : q = conns[k]
  BY DEF TInv, Typed
<1>5. PICK p : p = [status |-> "client", who |-> q.client]
  OBVIOUS
<1>6. PICK h \in HostType : h = host
  BY DEF TInv, Typed
<1>7. place \in Ids /\ conns[k].up # <<>> /\ UNCHANGED <<use, data, client, wifi, mistaken>>
  BY <1>1 DEF HostReceive, TInv
<1>8. PICK i \in Ids : i = IdAt(place)
  BY <1>7, IdAtIs
<1>9. \/ host' = h /\ conns' = Refused(k, rest)
      \/ host' = [h EXCEPT !.players[place] = p] /\ conns' = Broadcast(PlayerList(host'), rest)
      \/ host' = [h EXCEPT !.mask = @ \cup {i}] /\ conns' = rest
      \/ host' = [h EXCEPT !.mask = @ \ {i}] /\ conns' = rest
  BY <1>1, <1>2, <1>3, <1>4, <1>5, <1>6, <1>8 DEF HostReceive, Come
<1>10. p \in [status : Statuses, who : Machines \cup {None}]
  BY <1>5 DEF Connection, Statuses, Machines
<1>11. host' \in HostType
  <2>1. [h EXCEPT !.players[place] = p] \in HostType
    BY <1>7, <1>10, HostTypes
  <2>2. [h EXCEPT !.mask = @ \cup {i}] \in HostType
    BY HostTypes
  <2>3. [h EXCEPT !.mask = @ \ {i}] \in HostType
    BY HostTypes
  <2> QED BY <1>9, <2>1, <2>2, <2>3
<1>12. Fits(rest) /\ Fits(Refused(k, rest))
  BY <1>2, <1>7, FitsAltered
<1>13. PICK a \in Messages : a = PlayerList(host')
  BY <1>11, Commands
<1>14. Fits(conns')
  BY <1>9, <1>12, <1>13, FitsTold
<1>15. wifi' \subseteq Machines /\ mistaken' \in BOOLEAN
  BY <1>7 DEF TInv, Typed
<1> QED BY <1>7, <1>11, <1>14, <1>15, HostKeepsTypes

\* The host gives a place, one of the players' or not.
LEMMA HostConnectKeepsTypes ==
  ASSUME LanAssumption, TInv, NEW k \in 1 .. Len(conns), HostConnect(k)
  PROVE  TInv'
<1>1. /\ conns \in Seq(Connection) /\ data \in [Peers -> Ids \cup {None}] /\ host \in HostType
      /\ client \in [Clients -> ClientType] /\ UNCHANGED <<use, client, wifi, mistaken>>
      /\ wifi' \subseteq Machines /\ mistaken' \in BOOLEAN /\ conns[k].host = "shaking"
  BY DEF HostConnect, TInv, Typed
<1>2. CASE host.num >= MaxPlayers \/ FreeIds = {}
  <2>1. conns' = Refused(k, conns) /\ UNCHANGED <<data, host>>
    BY <1>2 DEF HostConnect
  <2>2. Fits(conns')
    BY <2>1, FitsAltered
  <2> QED BY <1>1, <2>1, <2>2, HostKeepsTypes
<1>3. CASE ~(host.num >= MaxPlayers \/ FreeIds = {})
  <2>1. FreeIds \subseteq Ids /\ FreeIds # {} /\ Ids \subseteq Nat
    BY <1>3 DEF FreeIds, Ids, LanAssumption
  <2>2. PICK i \in Ids : i = Min(FreeIds)
    BY <2>1, Least
  <2>3. PICK q \in Connection : q = conns[k]
    BY <1>1
  <2>4. /\ host' = [host EXCEPT !.players[i] = [status |-> "connecting", who |-> q.client],
                                !.num = @ + 1, !.remote[i] = k]
        /\ data' = [data EXCEPT ![q.peer] = i]
        /\ conns' = Sent(k, "down", [kind |-> "init", id |-> i], [conns EXCEPT ![k].host = "open"])
    BY <1>3, <2>2, <2>3 DEF HostConnect
  <2>5. host' \in HostType
    <3>1. PICK h \in HostType : h = host
      BY <1>1
    <3>2. PICK n \in Counts : n = h.num + 1
      <4>1. PICK a \in Int : a = h.num
        BY DEF HostType, Counts
      <4>2. PICK z \in Int : z = MaxPlayers
        BY DEF LanAssumption
      <4>3. ~(a >= z)
        BY <1>3, <3>1, <4>1, <4>2
      <4>4. a + 1 \in Int /\ a + 1 <= z
        BY <4>3
      <4> QED BY <4>1, <4>2, <4>4 DEF Counts
    <3>3. PICK p \in [status : Statuses, who : Machines \cup {None}] :
              p = [status |-> "connecting", who |-> q.client]
      BY DEF Connection, Statuses, Machines
    <3>4. k \in Peers
      BY DEF TInv, Typed, Peers, LanAssumption
    <3>5. [h EXCEPT !.players[i] = p, !.num = n, !.remote[i] = k] \in HostType
      BY <3>4, HostTypes
    <3> QED BY <2>4, <3>1, <3>2, <3>3, <3>5
  <2>6. PICK r \in Connection : r = [q EXCEPT !.host = "open"]
    BY DEF Connection
  <2>7. r.client = q.client /\ r.peer = q.peer
    BY <2>6 DEF Connection
  <2>8. PICK open \in Seq(Connection) :
            /\ open = [conns EXCEPT ![k].host = "open"] /\ But(open, conns, k) /\ open[k] = r
    <3>1. [conns EXCEPT ![k].host = "open"] = [conns EXCEPT ![k] = r]
      BY <2>3, <2>6
    <3>2. But([conns EXCEPT ![k] = r], conns, k) /\ [conns EXCEPT ![k] = r][k] = r
      BY <1>1, One
    <3>3. [conns EXCEPT ![k] = r] \in Seq(Connection)
      BY <3>2 DEF But
    <3> QED BY <3>1, <3>2, <3>3
  <2>9. PICK a \in Messages : a = [kind |-> "init", id |-> i]
    BY Commands
  <2>10. /\ But(conns', open, k)
         /\ conns'[k] = [r EXCEPT !.down = IF r.alive THEN Append(@, a) ELSE @]
    <3>1. k \in 1 .. Len(open) /\ conns' = Sent(k, "down", a, open)
      BY <2>4, <2>8, <2>9 DEF But
    <3>2. /\ But(Sent(k, "down", a, open), open, k)
          /\ Sent(k, "down", a, open)[k]
                = [open[k] EXCEPT !.down = IF open[k].alive THEN Append(@, a) ELSE @]
      BY <3>1, SentIs
    <3> QED BY <2>8, <3>1, <3>2
  <2>11. conns'[k].client = r.client /\ conns'[k].peer = r.peer
    BY <2>10 DEF Connection
  <2>12. /\ conns' \in Seq(Connection) /\ Len(conns') = Len(conns)
         /\ \A j \in 1 .. Len(conns) : j # k => conns'[j] = conns[j]
    BY <2>8, <2>10 DEF But
  <2>13. \A j \in 1 .. Len(conns) : conns'[j].client = conns[j].client /\ conns'[j].peer = conns[j].peer
    BY <2>3, <2>7, <2>11, <2>12
  <2>14. data' \in [Peers -> Ids \cup {None}] /\ data'[q.peer] = i
         /\ \A x \in Peers : x # q.peer => data'[x] = data[x]
    BY <1>1, <2>4 DEF Connection
  <2>15. Typed'
    BY <1>1, <2>5, <2>12, <2>14 DEF TInv, Typed
  <2>16. \A c \in Clients : Known(c)'
    BY <1>1, <2>12, <2>13, KnowingStep DEF Knowing
  <2>17. ASSUME NEW j \in 1 .. Len(conns'), conns'[j].host = "open"
         PROVE  data'[conns'[j].peer] \in Ids
    <3>1. CASE conns'[j].peer = q.peer
      BY <2>14, <3>1
    <3>2. CASE conns'[j].peer # q.peer
      <4>1. j # k /\ j \in 1 .. Len(conns)
        BY <2>3, <2>12, <2>13, <3>2
      <4>2. PICK x \in Connection : x = conns[j] /\ conns'[j] = x
        BY <1>1, <2>12, <4>1
      <4>3. x.peer \in Peers /\ data[x.peer] \in Ids
        BY <2>17, <4>1, <4>2 DEF TInv, Connection
      <4> QED BY <2>14, <3>2, <4>2, <4>3
    <3> QED BY <3>1, <3>2
  <2> QED BY <1>1, <2>15, <2>16, <2>17 DEF TInv
<1> QED BY <1>2, <1>3

\* The host's game begins, or ends, or the host leaves.
LEMMA HostPlaysKeepsTypes ==
  ASSUME LanAssumption, TInv, HostBegin \/ HostStop \/ HostLeaves
  PROVE  TInv'
<1>1. UNCHANGED <<use, data, client, mistaken>> /\ host \in HostType /\ conns \in Seq(Connection)
  <2>1. UNCHANGED <<use, data, client, mistaken>>
    BY DEF HostBegin, HostStop, HostLeaves
  <2> QED BY <2>1 DEF TInv, Typed
<1>2. wifi' \in {wifi, wifi \cup {HostMachine}, wifi \ {HostMachine}}
  BY DEF HostBegin, HostStop, HostLeaves
<1>3. wifi' \subseteq Machines /\ mistaken' \in BOOLEAN
  BY <1>1, <1>2 DEF Machines, TInv, Typed
<1>4. Fits(conns)
  BY <1>1 DEF Fits
<1>5. PICK h \in HostType : h = host
  BY <1>1
<1>6. CASE HostBegin \/ HostStop
  <2>1. host' \in {[h EXCEPT !.mask = @ \cup {0}], [h EXCEPT !.mask = @ \ {0}]}
    BY <1>5, <1>6 DEF HostBegin, HostStop
  <2>2. host' \in HostType
    <3>1. 0 \in Ids
      BY DEF Ids, LanAssumption
    <3>2. [h EXCEPT !.mask = @ \cup {0}] \in HostType /\ [h EXCEPT !.mask = @ \ {0}] \in HostType
      BY <3>1, HostTypes
    <3> QED BY <2>1, <3>2
  <2>3. PICK a \in Messages : conns' = Broadcast(a, conns)
    BY <1>6, Commands DEF HostBegin, HostStop
  <2>4. Fits(conns')
    BY <1>4, <2>3, FitsTold
  <2> QED BY <1>1, <1>3, <2>2, <2>4, HostKeepsTypes
<1>7. CASE HostLeaves
  <2>1. host' \in HostType
    <3>1. host' = [h EXCEPT !.active = FALSE, !.remote = [i \in Ids |-> None]]
      BY <1>5, <1>7 DEF HostLeaves
    <3> QED BY <3>1, HostTypes
  <2> DEFINE f(q) == [q EXCEPT !.alive = FALSE, !.host = "closed", !.up = <<>>]
  <2>2. PICK n \in Nat : n = Len(conns) /\ DOMAIN conns = 1 .. n
    BY <1>1
  <2>3. ASSUME NEW q \in Connection
        PROVE  f(q) \in Connection /\ f(q).client = q.client /\ f(q).peer = q.peer /\ f(q).host = "closed"
    <3>1. <<>> \in Seq(Messages)
      OBVIOUS
    <3>2. f(q) \in Connection
      BY <3>1 DEF Connection
    <3>3. f(q).client = q.client /\ f(q).peer = q.peer /\ f(q).host = "closed"
      BY DEF Connection
    <3> QED BY <3>2, <3>3
  <2>4. conns' = [k \in 1 .. n |-> f(conns[k])]
    BY <1>7, <2>2 DEF HostLeaves
  <2> HIDE DEF f
  <2>5. \A k \in 1 .. n : f(conns[k]) \in Connection
    BY <1>1, <2>2, <2>3
  <2>6. conns' \in Seq(Connection) /\ Len(conns') = n /\ \A k \in 1 .. n : conns'[k] = f(conns[k])
    BY <2>4, <2>5
  <2>7. Fits(conns')
    BY <1>1, <2>2, <2>3, <2>6 DEF Fits
  <2> QED BY <1>1, <1>3, <2>1, <2>7, HostKeepsTypes
<1> QED BY <1>6, <1>7

\* Every step keeps the types.
LEMMA NextKeepsTypes ==
  ASSUME LanAssumption, TInv, [Next]_vars
  PROVE  TInv'
<1>0. DOMAIN conns = 1 .. Len(conns)
  BY DEF TInv, Typed
<1>1. CASE UNCHANGED vars
  BY <1>1 DEF vars, TInv, Typed, Known
<1>2. ASSUME NEW k \in Peers, HostEvent(k) PROVE TInv'
  BY <1>0, <1>2, NetworkKeepsTypes, HostConnectKeepsTypes, HostDisconnectKeepsTypes,
     HostReceiveKeepsTypes DEF HostEvent
<1>3. ASSUME NEW k \in DOMAIN conns, Lose(k) PROVE TInv'
  BY <1>0, <1>3, NetworkKeepsTypes
<1>4. CASE HostBegin \/ HostStop \/ HostLeaves
  BY <1>4, HostPlaysKeepsTypes
<1>5. ASSUME NEW c \in Clients,
             ClientEvent(c) \/ Leave(c) \/ ClientBegin(c) \/ ClientStop(c) \/ HearHost(c)
      PROVE  TInv'
  BY <1>5, ClientsKeepTypes
<1>6. ASSUME NEW c \in Clients, Ask(c) PROVE TInv'
  BY <1>6, AskKeepsTypes
<1> QED BY <1>1, <1>2, <1>3, <1>4, <1>5, <1>6 DEF Next

\* What the runs check of the types.
LEMMA TypesFollow ==
  ASSUME LanAssumption, TInv
  PROVE  TypeOK
<1>1. Typed /\ conns \in Seq(Connection) /\ host \in HostType /\ client \in [Clients -> ClientType]
  BY DEF TInv, Typed
<1>2. ASSUME NEW k \in DOMAIN conns
      PROVE  /\ [conns[k] EXCEPT !.up = <<>>, !.down = <<>>] \in
                  [client : Clients, peer : Peers, up : {<<>>}, down : {<<>>}, alive : BOOLEAN,
                   host : {"shaking", "open", "closing", "closed"},
                   far : {"asking", "open", "closed"}]
             /\ \A m \in Range(conns[k].up) \cup Range(conns[k].down) : m \in Messages
  <2>1. PICK q \in Connection : q = conns[k]
    BY <1>1
  <2>2. [q EXCEPT !.up = <<>>, !.down = <<>>] \in
                  [client : Clients, peer : Peers, up : {<<>>}, down : {<<>>}, alive : BOOLEAN,
                   host : {"shaking", "open", "closing", "closed"},
                   far : {"asking", "open", "closed"}]
    BY DEF Connection
  <2>3. q.up \in Seq(Messages) /\ q.down \in Seq(Messages)
    BY Under
  <2>4. \A m \in Range(q.up) \cup Range(q.down) : m \in Messages
    BY <2>3 DEF Range
  <2> QED BY <2>1, <2>2, <2>4
<1>3. /\ host.players \in PlayerLists /\ host.num \in Int /\ host.num <= MaxPlayers
      /\ host.mask \subseteq Ids /\ host.remote \in [Ids -> Peers \cup {None}]
  BY <1>1 DEF HostType, Counts
<1>4. \A c \in Clients :
           /\ client[c].state \in {"out", "joining", "in"} /\ client[c].id \in Ids
           /\ client[c].players \in PlayerLists /\ client[c].num \in 0 .. 16
           /\ client[c].mask \subseteq Ids /\ client[c].last \in {0, None}
  BY <1>1 DEF ClientType
<1> QED BY <1>1, <1>2, <1>3, <1>4 DEF TypeOK, TInv, Typed

\* Type correctness, for every number of clients, places and connections and all options,
\* whatever the end of a connection that was refused does to the players (ProcessHostEvent): a
\* number of players that has gone below nothing is told as a byte that clients ignore.
THEOREM TypesHold ==
  ASSUME LanAssumption
  PROVE  Spec => []TypeOK
<1>1. Init => TInv
  <2> SUFFICES ASSUME Init PROVE TInv
    OBVIOUS
  <2>1. PInv
    BY InitHolds
  <2>2. mistaken \in BOOLEAN /\ Len(conns) = 0
    BY DEF Init
  <2> QED BY <2>1, <2>2 DEF PInv, TInv
<1>2. TInv /\ [Next]_vars => TInv'
  BY NextKeepsTypes
<1>3. TInv => TypeOK
  BY TypesFollow
<1> QED BY <1>1, <1>2, <1>3, PTL DEF Spec

-----------------------------------------------------------------------------
(* Places.                                                                 *)

\* What they check of places.
LEMMA PlacesFollow ==
  ASSUME LanAssumption, PInv
  PROVE  Places
<1> SUFFICES ASSUME host.active
             PROVE  /\ host.num = Cardinality({i \in Ids : host.players[i].status # "none"})
                    /\ \A i \in Ids \ {0} :
                           IF host.players[i].status = "none" THEN host.remote[i] = None
                           ELSE /\ host.remote[i] \in DOMAIN conns
                                /\ conns[host.remote[i]].host = "open"
                                /\ data[conns[host.remote[i]].peer] = i
                                /\ host.players[i].who = conns[host.remote[i]].client
                    /\ \A k \in DOMAIN conns :
                           conns[k].host = "open" =>
                               /\ host.remote[data[conns[k].peer]] = k
                               /\ LET c == conns[k].client
                                  IN  k = Mine(c) /\ client[c].state = "in" =>
                                          client[c].id = data[conns[k].peer]
  BY DEF Places
<1>1. Right /\ conns \in Seq(Connection) /\ DOMAIN conns = 1 .. Len(conns)
  BY DEF PInv, Typed
<1>2. host.num = Cardinality({i \in Ids : host.players[i].status # "none"})
  BY <1>1 DEF Right, Counted, Taken
<1>3. ASSUME NEW i \in Ids \ {0}, host.players[i].status # "none"
      PROVE  /\ host.remote[i] \in DOMAIN conns
             /\ conns[host.remote[i]].host = "open"
             /\ data[conns[host.remote[i]].peer] = i
             /\ host.players[i].who = conns[host.remote[i]].client
  <2>1. PICK k \in 1 .. Len(conns) : k = host.remote[i] /\ conns[k].host = "open"
                                     /\ data[conns[k].peer] = i
    BY <1>1, <1>3 DEF Right, Placed
  <2>2. Wire(k)
    BY <1>1 DEF Right
  <2> QED BY <1>1, <2>1, <2>2 DEF Wire
<1>4. \A i \in Ids \ {0} : host.players[i].status = "none" => host.remote[i] = None
  BY <1>1 DEF Right, Placed
<1>5. ASSUME NEW k \in 1 .. Len(conns), conns[k].host = "open"
      PROVE  /\ host.remote[data[conns[k].peer]] = k
             /\ k = Mine(conns[k].client) /\ client[conns[k].client].state = "in" =>
                     client[conns[k].client].id = data[conns[k].peer]
  BY <1>1, <1>5 DEF Right, Wire, Own
<1> QED BY <1>1, <1>2, <1>3, <1>4, <1>5

\* The host counts its players right, and place, connection and client's number go together
\* (ProcessHostEvent, RemotePeers, NumPlayers), whoever left, was cut off, was refused and came
\* back, for every number of clients, places and connections and all options, until the end of a
\* connection that was refused takes a player's place, and by nothing but that.
THEOREM PlacesHold ==
  ASSUME LanAssumption
  PROVE  Spec => []PlacesRight
<1>1. Init => mistaken \/ PInv
  BY InitHolds
<1>2. (mistaken \/ PInv) /\ [Next]_vars => (mistaken \/ PInv)'
  BY NextHolds, Mistaken
<1>3. mistaken \/ PInv => PlacesRight
  BY PlacesFollow DEF PlacesRight
<1> QED BY <1>1, <1>2, <1>3, PTL DEF Spec

-----------------------------------------------------------------------------
(* Agreement.                                                              *)

\* What comes last of some kinds, in what has been heard and what is under way, is known.
Says(q, kinds, heard, last) ==
    /\ \A n \in 1 .. Len(q) :
           q[n].kind \in kinds /\ (\A m \in n + 1 .. Len(q) : q[m].kind \notin kinds)
               => q[n] = last
    /\ (\A n \in 1 .. Len(q) : q[n].kind \notin kinds) => heard = last

Switches == {"begin", "end"}
Switch(on) == [kind |-> IF on THEN "begin" ELSE "end"]

\* Nobody's answer is awaited.
Settled(h) == \A i \in Ids : h.players[i].status # "connecting"

\* The number comes first on a connection, and whoever has not answered it has it before them or
\* its answer under way.
Asked(q, s, h, i) ==
    /\ s.state = "joining" <=> q.down # <<>> /\ q.down[1].kind = "init"
    /\ \A n \in 2 .. Len(q.down) : q.down[n].kind # "init"
    /\ s.state = "joining" => h.players[i].status = "connecting"
    /\ h.players[i].status = "connecting" =>
           s.state = "joining" \/ \E n \in 1 .. Len(q.up) : q.up[n].kind = "info"

\* A connection q that is open, between a client s and the host h, which has given it the place i,
\* when the machines w play with the options u: once all that is under way has been heard, the two
\* know the same players and who of them plays.
Linked(q, s, h, i, w, u) ==
    /\ Asked(q, s, h, i)
    /\ Settled(h) => Says(q.down, {"list"}, PlayerList(s), PlayerList(h))
    /\ Says(q.up, Switches, Switch(i \in h.mask), Switch(q.client \in w))
    /\ "late" \notin u =>
           Says(q.down, Switches, Switch(0 \in s.mask), Switch(HostMachine \in w))

\* Both ends of a connection that is alive are there.
Alive(q, s, h, i, w, u) ==
    /\ h.active /\ s.state # "out" /\ q.host \in {"shaking", "open"} /\ q.far # "closed"
    /\ s.state = "in" => q.far = "open"
    /\ s.state = "joining" => q.up = <<>>
    /\ q.host = "shaking" /\ "late" \notin u => HostMachine \notin w
    /\ q.host = "open" => Linked(q, s, h, i, w, u)

Good(k) ==
    conns[k].alive =>
        /\ k = Mine(conns[k].client)
        /\ Alive(conns[k], client[conns[k].client], host, data[conns[k].peer], wifi, use)

\* The host's list is of those who have a place, and who has none does not play.
HostKnows(h, w) ==
    /\ \A i \in Ids : h.players[i].status \in {"none", "connecting", "client", "host"}
    /\ \A i \in Ids \ {0} : h.players[i].status # "host"
    /\ 0 \in h.mask <=> HostMachine \in w
    /\ \A i \in h.mask \ {0} : h.players[i].status # "none"

\* Who is on the way does not play.
Idle(c) == client[c].state = "joining" => c \notin wifi

AInv ==
    /\ PInv
    /\ \A c \in Clients : Idle(c)
    /\ host.active => HostKnows(host, wifi)
    /\ \A k \in 1 .. Len(conns) : Good(k)

-----------------------------------------------------------------------------
(* Hearing and saying.                                                     *)

\* A command that is said last is the last of its kind, and one of another kind changes nothing.
LEMMA Saying ==
  ASSUME NEW q \in Seq(Messages), NEW m \in Messages, NEW kinds, NEW heard, NEW last
  PROVE  /\ m.kind \in kinds => Says(Append(q, m), kinds, heard, m)
         /\ m.kind \notin kinds /\ Says(q, kinds, heard, last)
               => Says(Append(q, m), kinds, heard, last)
<1> DEFINE a == Append(q, m)
<1>1. /\ Len(a) = Len(q) + 1 /\ a[Len(q) + 1] = m /\ Len(q) \in Nat
      /\ \A n \in 1 .. Len(q) : a[n] = q[n]
  BY Queues
<1> HIDE DEF a
<1>2. ASSUME m.kind \in kinds
      PROVE  Says(a, kinds, heard, m)
  <2>1. ASSUME NEW n \in 1 .. Len(a), \A j \in n + 1 .. Len(a) : a[j].kind \notin kinds
        PROVE  a[n] = m
    <3>1. CASE n = Len(q) + 1
      BY <1>1, <3>1
    <3>2. CASE n # Len(q) + 1
      <4>1. Len(q) + 1 \in n + 1 .. Len(a)
        BY <1>1, <3>2
      <4> QED BY <1>1, <1>2, <2>1, <4>1
    <3> QED BY <3>1, <3>2
  <2>2. Len(q) + 1 \in 1 .. Len(a)
    BY <1>1
  <2> QED BY <1>1, <1>2, <2>1, <2>2 DEF Says
<1>3. ASSUME m.kind \notin kinds, Says(q, kinds, heard, last)
      PROVE  Says(a, kinds, heard, last)
  <2>1. ASSUME NEW n \in 1 .. Len(a), a[n].kind \in kinds,
               \A j \in n + 1 .. Len(a) : a[j].kind \notin kinds
        PROVE  a[n] = last
    <3>1. n \in 1 .. Len(q) /\ a[n] = q[n]
      BY <1>1, <1>3, <2>1
    <3>2. ASSUME NEW j \in n + 1 .. Len(q) PROVE q[j].kind \notin kinds
      <4>1. j \in 1 .. Len(q) /\ j \in n + 1 .. Len(a)
        BY <1>1, <3>1
      <4> QED BY <1>1, <2>1, <4>1
    <3> QED BY <1>3, <2>1, <3>1, <3>2 DEF Says
  <2>2. ASSUME \A n \in 1 .. Len(a) : a[n].kind \notin kinds
        PROVE  heard = last
    <3>1. \A n \in 1 .. Len(q) : n \in 1 .. Len(a) /\ a[n] = q[n]
      BY <1>1
    <3> QED BY <1>3, <2>2, <3>1 DEF Says
  <2> QED BY <2>1, <2>2 DEF Says
<1> QED BY <1>2, <1>3 DEF a

\* To hear a command makes it what has been heard of its kind.
LEMMA Hearing ==
  ASSUME NEW q \in Seq(Messages), q # <<>>, NEW kinds, NEW heard, NEW last,
         Says(q, kinds, heard, last)
  PROVE  /\ Head(q).kind \in kinds => Says(Tail(q), kinds, Head(q), last)
         /\ Head(q).kind \notin kinds => Says(Tail(q), kinds, heard, last)
<1> DEFINE t == Tail(q)
<1>1. /\ Head(q) = q[1] /\ Len(t) = Len(q) - 1 /\ Len(q) \in Nat \ {0}
      /\ \A n \in 1 .. Len(t) : t[n] = q[n + 1] /\ n + 1 \in 1 .. Len(q)
  BY Queues
<1> HIDE DEF t
<1>2. ASSUME NEW n \in 1 .. Len(t), t[n].kind \in kinds,
             \A j \in n + 1 .. Len(t) : t[j].kind \notin kinds
      PROVE  t[n] = last
  <2>1. ASSUME NEW j \in (n + 1) + 1 .. Len(q) PROVE q[j].kind \notin kinds
    <3>1. j - 1 \in n + 1 .. Len(t) /\ j - 1 \in 1 .. Len(t) /\ (j - 1) + 1 = j
      BY <1>1
    <3>2. t[j - 1] = q[(j - 1) + 1]
      BY <1>1, <3>1
    <3> QED BY <1>2, <3>1, <3>2
  <2>2. n + 1 \in 1 .. Len(q) /\ t[n] = q[n + 1]
    BY <1>1
  <2> QED BY <1>2, <2>1, <2>2 DEF Says
<1>3. ASSUME \A n \in 1 .. Len(t) : t[n].kind \notin kinds
      PROVE  \A j \in 1 + 1 .. Len(q) : q[j].kind \notin kinds
  <2> SUFFICES ASSUME NEW j \in 1 + 1 .. Len(q) PROVE q[j].kind \notin kinds
    OBVIOUS
  <2>1. j - 1 \in 1 .. Len(t) /\ (j - 1) + 1 = j
    BY <1>1
  <2>2. t[j - 1] = q[(j - 1) + 1]
    BY <1>1, <2>1
  <2> QED BY <1>3, <2>1, <2>2
<1>4. 1 \in 1 .. Len(q) /\ \A j \in 1 .. Len(q) : j = 1 \/ j \in 1 + 1 .. Len(q)
  BY <1>1
<1>5. ASSUME Head(q).kind \in kinds, \A n \in 1 .. Len(t) : t[n].kind \notin kinds
      PROVE  Head(q) = last
  BY <1>1, <1>3, <1>4, <1>5 DEF Says
<1>6. ASSUME Head(q).kind \notin kinds, \A n \in 1 .. Len(t) : t[n].kind \notin kinds
      PROVE  heard = last
  BY <1>1, <1>3, <1>4, <1>6 DEF Says
<1> QED BY <1>2, <1>5, <1>6 DEF Says, t

\* When nothing is under way, all has been heard.
LEMMA Silence ==
  ASSUME NEW kinds, NEW heard, NEW last
  PROVE  Says(<<>>, kinds, heard, last) <=> heard = last
BY DEF Says

\* A number at the head of a queue stays there, and it is the only one.
LEMMA Numbered ==
  ASSUME NEW q \in Seq(Messages), NEW m \in Messages, m.kind # "init",
         \A n \in 2 .. Len(q) : q[n].kind # "init"
  PROVE  /\ Append(q, m) # <<>> /\ Append(q, m)[1].kind = "init" <=> q # <<>> /\ q[1].kind = "init"
         /\ \A n \in 2 .. Len(Append(q, m)) : Append(q, m)[n].kind # "init"
<1>1. /\ Append(q, m) # <<>> /\ Len(Append(q, m)) = Len(q) + 1 /\ Append(q, m)[Len(q) + 1] = m
      /\ Len(q) \in Nat /\ \A n \in 1 .. Len(q) : Append(q, m)[n] = q[n]
  BY Queues
<1>2. q # <<>> <=> Len(q) # 0
  OBVIOUS
<1>3. ASSUME NEW n \in 2 .. Len(Append(q, m)) PROVE Append(q, m)[n].kind # "init"
  <2>1. n = Len(q) + 1 \/ n \in 2 .. Len(q)
    BY <1>1
  <2> QED BY <1>1, <2>1
<1>4. CASE q = <<>>
  BY <1>1, <1>2, <1>4
<1>5. CASE q # <<>>
  <2>1. 1 \in 1 .. Len(q)
    BY <1>1, <1>2, <1>5
  <2> QED BY <1>1, <1>3, <1>5, <2>1
<1> QED BY <1>3, <1>4, <1>5

\* Once the head has been heard there is none.
LEMMA Numbers ==
  ASSUME NEW q \in Seq(Messages), q # <<>>, \A n \in 2 .. Len(q) : q[n].kind # "init"
  PROVE  /\ ~(Tail(q) # <<>> /\ Tail(q)[1].kind = "init")
         /\ \A n \in 2 .. Len(Tail(q)) : Tail(q)[n].kind # "init"
<1>1. /\ Tail(q) \in Seq(Messages) /\ Len(Tail(q)) = Len(q) - 1 /\ Len(q) \in Nat \ {0}
      /\ \A n \in 1 .. Len(Tail(q)) : Tail(q)[n] = q[n + 1] /\ n + 1 \in 1 .. Len(q)
  BY Queues
<1>2. \A n \in 1 .. Len(Tail(q)) : n + 1 \in 2 .. Len(q)
  BY <1>1
<1>3. Tail(q) # <<>> => 1 \in 1 .. Len(Tail(q))
  BY <1>1
<1> QED BY <1>1, <1>2, <1>3

\* The commands that switch.
LEMMA SwitchIs ==
  /\ \A on : Switch(on) \in Messages /\ Switch(on).kind \in Switches
             /\ Switch(on).kind \notin {"list", "init", "info"}
  /\ \A on \in BOOLEAN, off \in BOOLEAN : Switch(on) = Switch(off) <=> (on <=> off)
  /\ \A m \in Messages : /\ m.kind = "begin" => m = Switch(TRUE)
                         /\ m.kind = "end" => m = Switch(FALSE)
<1>1. \A on : Switch(on) \in Messages /\ Switch(on).kind \in Switches
             /\ Switch(on).kind \notin {"list", "init", "info"}
  BY DEF Switch, Switches, Messages
<1>2. Switch(TRUE) = [kind |-> "begin"] /\ Switch(FALSE) = [kind |-> "end"]
  BY DEF Switch
<1>3. Switch(TRUE) # Switch(FALSE)
  <2>1. [kind |-> "begin"].kind # [kind |-> "end"].kind
    OBVIOUS
  <2> QED BY <1>2, <2>1
<1>4. \A on \in BOOLEAN, off \in BOOLEAN : Switch(on) = Switch(off) <=> (on <=> off)
  BY <1>3
<1>5. ASSUME NEW m \in Messages
      PROVE  (m.kind = "begin" => m = Switch(TRUE)) /\ (m.kind = "end" => m = Switch(FALSE))
  <2>1. m.kind \in {"begin", "end"} => m \in [kind : {"begin", "end"}]
    BY DEF Messages
  <2> QED BY <1>2, <2>1
<1> QED BY <1>1, <1>4, <1>5

-----------------------------------------------------------------------------
(* Connections that stay good.                                             *)

\* The players a list is of, and who plays, decide what is told of them.
LEMMA Same ==
  /\ \A h, g : h.players = g.players /\ h.num = g.num => PlayerList(h) = PlayerList(g)
  /\ \A i, a, b : (i \in a <=> i \in b) => Switch(i \in a) = Switch(i \in b)
BY DEF PlayerList, Switch

\* Nothing is said on a connection, and what it is about stays as it is, unless somebody's
\* answer is awaited.
LEMMA Steady ==
  ASSUME NEW q, NEW s, NEW t, NEW h, NEW g, NEW i, NEW p, NEW w, NEW v, NEW u,
         Alive(q, s, h, i, w, u), g.active,
         t.state = s.state, t.players = s.players, t.num = s.num, 0 \in t.mask <=> 0 \in s.mask,
         q.host = "shaking" /\ "late" \notin u => HostMachine \notin v,
         q.host = "open" =>
             /\ p = i
             /\ i \in g.mask <=> i \in h.mask
             /\ g.players[i].status = "connecting" <=> h.players[i].status = "connecting"
             /\ Settled(g) => Settled(h) /\ g.players = h.players /\ g.num = h.num
             /\ HostMachine \in v <=> HostMachine \in w
             /\ q.client \in v <=> q.client \in w
  PROVE  Alive(q, t, g, p, v, u)
<1>1. ASSUME q.host = "open" PROVE Linked(q, t, g, p, v, u)
  <2>1. Linked(q, s, h, i, w, u) /\ p = i
    BY <1>1 DEF Alive
  <2>2. Asked(q, t, g, i)
    BY <1>1, <2>1 DEF Linked, Asked
  <2>3. Settled(g) => Says(q.down, {"list"}, PlayerList(t), PlayerList(g))
    <3>1. Settled(g) => PlayerList(g) = PlayerList(h)
      BY <1>1, Same
    <3>2. PlayerList(t) = PlayerList(s)
      BY Same
    <3> QED BY <1>1, <2>1, <3>1, <3>2 DEF Linked
  <2>4. Says(q.up, Switches, Switch(i \in g.mask), Switch(q.client \in v))
    <3>1. Switch(i \in g.mask) = Switch(i \in h.mask)
      BY <1>1, Same
    <3>2. Switch(q.client \in v) = Switch(q.client \in w)
      BY <1>1, Same
    <3> QED BY <2>1, <3>1, <3>2 DEF Linked
  <2>5. "late" \notin u => Says(q.down, Switches, Switch(0 \in t.mask), Switch(HostMachine \in v))
    <3>1. Switch(0 \in t.mask) = Switch(0 \in s.mask)
      BY Same
    <3>2. Switch(HostMachine \in v) = Switch(HostMachine \in w)
      BY <1>1, Same
    <3> QED BY <2>1, <3>1, <3>2 DEF Linked
  <2> QED BY <2>1, <2>2, <2>3, <2>4, <2>5 DEF Linked
<1> QED BY <1>1 DEF Alive

\* Everybody is told the players.
LEMMA TellsPlayers ==
  ASSUME NEW q \in Connection, NEW r, NEW s, NEW h, NEW g \in HostType, NEW i, NEW w, NEW u,
         Alive(q, s, h, i, w, u), q.host = "open", g.active,
         r.client = q.client, r.host = q.host, r.far = q.far,
         r.down = Append(q.down, PlayerList(g)),
         Says(r.up, Switches, Switch(i \in g.mask), Switch(q.client \in w)),
         s.state = "joining" => r.up = <<>> /\ g.players[i].status = "connecting",
         g.players[i].status = "connecting" =>
             s.state = "joining" \/ \E n \in 1 .. Len(r.up) : r.up[n].kind = "info"
  PROVE  Alive(r, s, g, i, w, u)
<1>1. PICK m \in Messages : m = PlayerList(g) /\ m.kind = "list"
  <2>1. PlayerList(g).kind = "list"
    BY DEF PlayerList
  <2> QED BY <2>1, Commands
<1>2. Linked(q, s, h, i, w, u) /\ q.down \in Seq(Messages) /\ r.down = Append(q.down, m)
  BY <1>1, Under DEF Alive
<1>3. Asked(r, s, g, i)
  <2>1. /\ s.state = "joining" <=> q.down # <<>> /\ q.down[1].kind = "init"
        /\ \A n \in 2 .. Len(q.down) : q.down[n].kind # "init"
    BY <1>2 DEF Linked, Asked
  <2>2. /\ r.down # <<>> /\ r.down[1].kind = "init" <=> q.down # <<>> /\ q.down[1].kind = "init"
        /\ \A n \in 2 .. Len(r.down) : r.down[n].kind # "init"
    BY <1>1, <1>2, <2>1, Numbered
  <2> QED BY <2>1, <2>2 DEF Asked
<1>4. Says(r.down, {"list"}, PlayerList(s), PlayerList(g))
  BY <1>1, <1>2, Saying
<1>5. "late" \notin u => Says(r.down, Switches, Switch(0 \in s.mask), Switch(HostMachine \in w))
  BY <1>1, <1>2, Saying DEF Linked, Switches
<1>6. Linked(r, s, g, i, w, u)
  BY <1>3, <1>4, <1>5 DEF Linked
<1> QED BY <1>6 DEF Alive

\* Everybody is told that the host plays, or does not.
LEMMA TellsSwitch ==
  ASSUME NEW q \in Connection, NEW r, NEW s, NEW h, NEW g, NEW i, NEW w, NEW v, NEW u,
         Alive(q, s, h, i, w, u), q.host = "open", g.active,
         r.client = q.client, r.host = q.host, r.far = q.far, r.up = q.up,
         r.down = Append(q.down, Switch(HostMachine \in v)),
         g.players = h.players, g.num = h.num, i \in g.mask <=> i \in h.mask,
         q.client \in v <=> q.client \in w
  PROVE  Alive(r, s, g, i, v, u)
<1>1. PICK m \in Messages : /\ m = Switch(HostMachine \in v) /\ m.kind \in Switches
                            /\ m.kind \notin {"list", "init", "info"}
  BY SwitchIs
<1>2. Linked(q, s, h, i, w, u) /\ q.down \in Seq(Messages) /\ r.down = Append(q.down, m)
  BY <1>1, Under DEF Alive
<1>3. Asked(r, s, g, i)
  <2>1. /\ s.state = "joining" <=> q.down # <<>> /\ q.down[1].kind = "init"
        /\ \A n \in 2 .. Len(q.down) : q.down[n].kind # "init"
    BY <1>2 DEF Linked, Asked
  <2>2. /\ r.down # <<>> /\ r.down[1].kind = "init" <=> q.down # <<>> /\ q.down[1].kind = "init"
        /\ \A n \in 2 .. Len(r.down) : r.down[n].kind # "init"
    BY <1>1, <1>2, <2>1, Numbered
  <2> QED BY <1>2, <2>1, <2>2 DEF Asked, Linked
<1>4. Settled(g) => Says(r.down, {"list"}, PlayerList(s), PlayerList(g))
  <2>1. PlayerList(g) = PlayerList(h) /\ (Settled(g) <=> Settled(h))
    BY Same DEF Settled
  <2> QED BY <1>1, <1>2, <2>1, Saying DEF Linked
<1>5. Says(r.down, Switches, Switch(0 \in s.mask), Switch(HostMachine \in v))
  BY <1>1, <1>2, Saying
<1>6. Says(r.up, Switches, Switch(i \in g.mask), Switch(r.client \in v))
  <2>1. Switch(i \in g.mask) = Switch(i \in h.mask) /\ Switch(q.client \in v) = Switch(q.client \in w)
    BY Same
  <2> QED BY <1>2, <2>1 DEF Linked
<1>7. Linked(r, s, g, i, v, u)
  BY <1>3, <1>4, <1>5, <1>6 DEF Linked
<1> QED BY <1>7 DEF Alive

\* The host hears that a client plays, or does not.
LEMMA HearsSwitch ==
  ASSUME NEW q \in Connection, NEW r, NEW s, NEW h, NEW g, NEW i, NEW w, NEW u,
         Alive(q, s, h, i, w, u), q.host = "open", g.active, q.up # <<>>,
         r.client = q.client, r.host = q.host, r.far = q.far, r.down = q.down,
         r.up = Tail(q.up), g.players = h.players, g.num = h.num,
         Head(q.up).kind \in Switches, Head(q.up) = Switch(i \in g.mask)
  PROVE  Alive(r, s, g, i, w, u)
<1>1. Linked(q, s, h, i, w, u) /\ q.up \in Seq(Messages) /\ s.state # "joining"
  BY Under DEF Alive
<1>2. /\ Head(q.up) = q.up[1] /\ Len(Tail(q.up)) = Len(q.up) - 1 /\ Len(q.up) \in Nat \ {0}
      /\ \A n \in 1 .. Len(Tail(q.up)) : Tail(q.up)[n] = q.up[n + 1] /\ n + 1 \in 1 .. Len(q.up)
  BY <1>1, Queues
<1>3. ASSUME NEW n \in 1 .. Len(q.up), q.up[n].kind = "info"
      PROVE  \E l \in 1 .. Len(r.up) : r.up[l].kind = "info"
  <2>1. n # 1
    BY <1>2, <1>3 DEF Switches
  <2>2. n - 1 \in 1 .. Len(r.up) /\ (n - 1) + 1 = n
    BY <1>2, <2>1
  <2> QED BY <1>2, <1>3, <2>2
<1>4. Asked(r, s, g, i)
  BY <1>1, <1>3 DEF Asked, Linked
<1>5. Says(r.up, Switches, Switch(i \in g.mask), Switch(r.client \in w))
  BY <1>1, Hearing DEF Linked
<1>6. Settled(g) => Says(r.down, {"list"}, PlayerList(s), PlayerList(g))
  BY <1>1, Same DEF Linked, Settled
<1>7. Linked(r, s, g, i, w, u)
  BY <1>1, <1>4, <1>5, <1>6 DEF Linked
<1> QED BY <1>1, <1>7 DEF Alive

\* A client says that it plays, or does not.
LEMMA SaysSwitch ==
  ASSUME NEW q \in Connection, NEW r, NEW s, NEW t, NEW h, NEW i, NEW w, NEW v, NEW u,
         Alive(q, s, h, i, w, u), q.host = "open", s.state = "in",
         r.client = q.client, r.host = q.host, r.far = q.far, r.down = q.down,
         r.up = Append(q.up, Switch(q.client \in v)), HostMachine \in v <=> HostMachine \in w,
         t.state = "in", t.players = s.players, t.num = s.num, 0 \in t.mask <=> 0 \in s.mask
  PROVE  Alive(r, t, h, i, v, u)
<1>1. PICK m \in Messages : /\ m = Switch(q.client \in v) /\ m.kind \in Switches
                            /\ m.kind \notin {"list", "init", "info"}
  BY SwitchIs
<1>2. Linked(q, s, h, i, w, u) /\ q.up \in Seq(Messages) /\ r.up = Append(q.up, m)
  BY <1>1, Under DEF Alive
<1>3. Len(r.up) = Len(q.up) + 1 /\ Len(q.up) \in Nat /\ \A n \in 1 .. Len(q.up) : r.up[n] = q.up[n]
  BY <1>2, Queues
<1>4. ASSUME NEW n \in 1 .. Len(q.up), q.up[n].kind = "info"
      PROVE  \E l \in 1 .. Len(r.up) : r.up[l].kind = "info"
  <2>1. n \in 1 .. Len(r.up)
    BY <1>3
  <2> QED BY <1>3, <1>4, <2>1
<1>5. Asked(r, t, h, i)
  BY <1>2, <1>4 DEF Asked, Linked
<1>6. Says(r.up, Switches, Switch(i \in h.mask), Switch(r.client \in v))
  BY <1>1, <1>2, Saying
<1>7. PlayerList(t) = PlayerList(s) /\ Switch(0 \in t.mask) = Switch(0 \in s.mask)
         /\ Switch(HostMachine \in v) = Switch(HostMachine \in w)
  BY Same
<1>8. Linked(r, t, h, i, v, u)
  BY <1>2, <1>5, <1>6, <1>7 DEF Linked
<1> QED BY <1>8 DEF Alive

\* A client hears the players, or a list that it ignores and that is not the host's, or that the
\* host plays, or does not.
LEMMA ClientHears ==
  ASSUME NEW q \in Connection, NEW r, NEW s, NEW t, NEW h, NEW i, NEW w, NEW u, NEW m,
         Alive(q, s, h, i, w, u), q.host = "open", s.state = "in", t.state = "in", q.down # <<>>,
         r.client = q.client, r.host = q.host, r.far = q.far, r.up = q.up,
         m = Head(q.down), r.down = Tail(q.down),
         \/ m.kind = "list" /\ m = PlayerList(t) /\ t.mask = s.mask
         \/ m.kind = "list" /\ m # PlayerList(h) /\ t = s
         \/ m.kind \in Switches /\ m = Switch(0 \in t.mask) /\ t.players = s.players /\ t.num = s.num
  PROVE  Alive(r, t, h, i, w, u)
<1>1. Linked(q, s, h, i, w, u) /\ q.down \in Seq(Messages)
  BY Under DEF Alive
<1>2. Asked(r, t, h, i)
  <2>1. Asked(q, s, h, i)
    BY <1>1 DEF Linked
  <2>2. /\ ~(r.down # <<>> /\ r.down[1].kind = "init")
        /\ \A n \in 2 .. Len(r.down) : r.down[n].kind # "init"
    BY <1>1, <2>1, Numbers DEF Asked
  <2> QED BY <2>1, <2>2 DEF Asked
<1>3. Settled(h) => Says(r.down, {"list"}, PlayerList(t), PlayerList(h))
  <2> SUFFICES ASSUME Settled(h) PROVE Says(r.down, {"list"}, PlayerList(t), PlayerList(h))
    OBVIOUS
  <2>1. Says(q.down, {"list"}, PlayerList(s), PlayerList(h))
    BY <1>1 DEF Linked
  <2>2. CASE m.kind = "list" /\ m = PlayerList(t)
    BY <1>1, <2>1, <2>2, Hearing
  <2>3. CASE m.kind \in Switches /\ t.players = s.players /\ t.num = s.num
    <3>1. PlayerList(t) = PlayerList(s)
      BY <2>3, Same
    <3>2. m.kind \notin {"list"}
      BY <2>3 DEF Switches
    <3> QED BY <1>1, <2>1, <3>1, <3>2, Hearing
  <2>4. CASE m.kind = "list" /\ m # PlayerList(h) /\ t = s
    <3>1. Says(r.down, {"list"}, m, PlayerList(h))
      BY <1>1, <2>1, <2>4, Hearing
    <3> QED BY <2>4, <3>1 DEF Says
  <2> QED BY <2>2, <2>3, <2>4
<1>4. "late" \notin u => Says(r.down, Switches, Switch(0 \in t.mask), Switch(HostMachine \in w))
  <2> SUFFICES ASSUME "late" \notin u
               PROVE  Says(r.down, Switches, Switch(0 \in t.mask), Switch(HostMachine \in w))
    OBVIOUS
  <2>1. Says(q.down, Switches, Switch(0 \in s.mask), Switch(HostMachine \in w))
    BY <1>1 DEF Linked
  <2>2. CASE m.kind = "list" /\ t.mask = s.mask
    <3>1. m.kind \notin Switches
      BY <2>2 DEF Switches
    <3> QED BY <1>1, <2>1, <2>2, <3>1, Hearing
  <2>3. CASE m.kind \in Switches /\ m = Switch(0 \in t.mask)
    BY <1>1, <2>1, <2>3, Hearing
  <2> QED BY <2>2, <2>3
<1>5. Linked(r, t, h, i, w, u)
  BY <1>1, <1>2, <1>3, <1>4 DEF Linked
<1> QED BY <1>5 DEF Alive

\* A client gets its number and answers.
LEMMA Joins ==
  ASSUME NEW q \in Connection, NEW r, NEW s, NEW t, NEW h, NEW i \in Ids, NEW w, NEW u,
         NEW a \in Messages,
         Alive(q, s, h, i, w, u), q.host = "open", s.state = "joining", t.state = "in",
         q.down # <<>>, q.far = "open",
         t.players = s.players, t.num = s.num, t.mask = s.mask,
         r.client = q.client, r.host = q.host, r.far = q.far,
         r.down = Tail(q.down), r.up = Append(q.up, a), a.kind = "info"
  PROVE  Alive(r, t, h, i, w, u)
<1>1. Linked(q, s, h, i, w, u) /\ q.down \in Seq(Messages) /\ q.up \in Seq(Messages)
  BY Under DEF Alive
<1>2. Asked(q, s, h, i) /\ Head(q.down).kind = "init"
  <2>1. Head(q.down) = q.down[1]
    BY <1>1, Queues
  <2> QED BY <1>1, <2>1 DEF Linked, Asked
<1>3. /\ ~(r.down # <<>> /\ r.down[1].kind = "init")
      /\ \A n \in 2 .. Len(r.down) : r.down[n].kind # "init"
  BY <1>1, <1>2, Numbers DEF Asked
<1>4. Len(q.up) + 1 \in 1 .. Len(r.up) /\ r.up[Len(q.up) + 1] = a
  <2>1. Len(r.up) = Len(q.up) + 1 /\ Len(q.up) \in Nat
    BY <1>1, Queues
  <2> QED BY <1>1, <2>1, Queues
<1>5. Asked(r, t, h, i)
  BY <1>3, <1>4 DEF Asked
<1>6. ~Settled(h)
  <2>1. h.players[i].status = "connecting"
    BY <1>2 DEF Asked
  <2> QED BY <2>1 DEF Settled
<1>7. Says(r.up, Switches, Switch(i \in h.mask), Switch(r.client \in w))
  BY <1>1, Saying DEF Linked, Switches
<1>8. "late" \notin u => Says(r.down, Switches, Switch(0 \in t.mask), Switch(HostMachine \in w))
  BY <1>1, <1>2, Hearing DEF Linked, Switches
<1>9. Linked(r, t, h, i, w, u)
  BY <1>5, <1>6, <1>7, <1>8 DEF Linked
<1> QED BY <1>9 DEF Alive

-----------------------------------------------------------------------------
(* Agreement is kept: the network and the clients.                         *)

\* Connections that stay good make a step that keeps agreement.
LEMMA GoodStep ==
  ASSUME AInv, PInv', Len(conns') = Len(conns), \A c \in Clients : Idle(c)',
         host'.active => HostKnows(host', wifi'),
         \A j \in 1 .. Len(conns) :
             /\ conns'[j].client = conns[j].client
             /\ conns'[j].alive =>
                    /\ conns[j].alive
                    /\ Alive(conns'[j], client'[conns[j].client], host', data'[conns'[j].peer],
                             wifi', use')
  PROVE  AInv'
<1>1. \A c : Mine(c)' = Mine(c)
  BY SameMine DEF AInv, PInv, Typed
<1>2. ASSUME NEW j \in 1 .. Len(conns) PROVE Good(j)'
  BY <1>1 DEF AInv, Good
<1> QED BY <1>2 DEF AInv

\* One connection, or none, is changed.
LEMMA Changed ==
  ASSUME PInv, PInv', NEW k \in 1 .. Len(conns), NEW r, conns' = [conns EXCEPT ![k] = r]
  PROVE  /\ Len(conns') = Len(conns) /\ conns'[k] = r /\ r \in Connection
         /\ \A j \in 1 .. Len(conns) : j # k => conns'[j] = conns[j]
<1>1. conns \in Seq(Connection) /\ conns' \in Seq(Connection)
  BY DEF PInv, Typed
<1>2. conns'[k] = r /\ \A j \in 1 .. Len(conns) : j # k => conns'[j] = conns[j]
  BY <1>1
<1>3. 1 .. Len(conns') = 1 .. Len(conns) /\ Len(conns') \in Nat /\ Len(conns) \in Nat
  BY <1>1
<1>4. Len(conns') = Len(conns)
  BY <1>3
<1> QED BY <1>1, <1>2, <1>4

\* Nobody does anything, but connections may break.
LEMMA BreakStep ==
  ASSUME AInv, PInv', UNCHANGED <<use, data, host, client, wifi>>, Len(conns') = Len(conns),
         \A j \in 1 .. Len(conns) :
             conns'[j] = conns[j] \/ (conns'[j].client = conns[j].client /\ ~conns'[j].alive)
  PROVE  AInv'
<1>1. \A c \in Clients : Idle(c)'
  BY DEF AInv, Idle
<1>2. host'.active => HostKnows(host', wifi')
  BY DEF AInv
<1>3. ASSUME NEW j \in 1 .. Len(conns), conns'[j].alive
      PROVE  /\ conns[j].alive
             /\ Alive(conns'[j], client'[conns[j].client], host', data'[conns'[j].peer],
                      wifi', use')
  BY <1>3 DEF AInv, Good
<1> QED BY <1>1, <1>2, <1>3, GoodStep

\* What a client does concerns its last connection alone: its others are broken.
LEMMA ClientStep ==
  ASSUME LanAssumption, AInv, PInv', UNCHANGED <<use, data, host>>, Len(conns') = Len(conns),
         NEW c \in Clients, client'[c].state = "joining" => c \notin wifi',
         \A b \in Clients \ {c} : client'[b] = client[b],
         \A b \in Machines \ {c} : b \in wifi' <=> b \in wifi,
         \A j \in 1 .. Len(conns) :
             IF j = Mine(c) /\ conns[j].client = c
             THEN /\ conns'[j].client = c
                  /\ conns'[j].alive =>
                         /\ conns[j].alive
                         /\ Alive(conns'[j], client'[c], host, data[conns'[j].peer], wifi', use)
             ELSE conns'[j] = conns[j]
  PROVE  AInv'
<1>1. HostMachine \in Machines \ {c} /\ Clients \subseteq Machines
  BY DEF LanAssumption, Machines
<1>2. \A b \in Clients : Idle(b)'
  BY <1>1 DEF AInv, Idle
<1>3. host'.active => HostKnows(host', wifi')
  BY <1>1 DEF AInv, HostKnows
<1>4. ASSUME NEW j \in 1 .. Len(conns), conns'[j].alive
      PROVE  /\ conns[j].alive
             /\ Alive(conns'[j], client'[conns[j].client], host', data'[conns'[j].peer],
                      wifi', use')
  <2>1. CASE j = Mine(c) /\ conns[j].client = c
    BY <1>4, <2>1
  <2>2. CASE ~(j = Mine(c) /\ conns[j].client = c)
    <3>1. PICK q \in Connection : q = conns[j] /\ conns'[j] = q /\ q.alive
      BY <1>4, <2>2 DEF AInv, PInv, Typed
    <3>2. PICK b \in Clients : b = q.client
      BY DEF Connection
    <3>3. j = Mine(b) /\ Alive(q, client[b], host, data[q.peer], wifi, use)
      BY <3>1, <3>2 DEF AInv, Good
    <3>4. b # c
      BY <2>2, <3>1, <3>2, <3>3
    <3>5. client'[b] = client[b] /\ (b \in wifi' <=> b \in wifi)
             /\ (HostMachine \in wifi' <=> HostMachine \in wifi)
      BY <1>1, <3>4
    <3>6. Alive(q, client[b], host, data[q.peer], wifi', use)
      <4>1. q.host = "shaking" /\ "late" \notin use => HostMachine \notin wifi'
        BY <3>3, <3>5 DEF Alive
      <4>2. host.active
        BY <3>3 DEF Alive
      <4> QED BY <3>2, <3>3, <3>5, <4>1, <4>2, Steady
    <3> QED BY <3>1, <3>2, <3>5, <3>6
  <2> QED BY <2>1, <2>2
<1> QED BY <1>2, <1>3, <1>4, GoodStep

\* The network fails.
LEMMA LoseAgrees ==
  ASSUME AInv, PInv', NEW k \in 1 .. Len(conns), Lose(k)
  PROVE  AInv'
<1>1. PICK q \in Connection : q = conns[k]
  BY DEF AInv, PInv, Typed
<1>2. PICK r : r = [q EXCEPT !.alive = FALSE]
  OBVIOUS
<1>3. r.client = q.client /\ ~r.alive
  BY <1>2 DEF Connection
<1>4. conns' = [conns EXCEPT ![k] = r]
  BY <1>1, <1>2 DEF Lose
<1> QED BY <1>1, <1>3, <1>4, Changed, BreakStep DEF AInv, Lose

\* A handshake comes to nothing.
LEMMA HandshakeFailsAgrees ==
  ASSUME AInv, PInv', NEW k \in 1 .. Len(conns), HandshakeFails(k)
  PROVE  AInv'
<1>1. PICK q \in Connection : q = conns[k] /\ ~q.alive
  BY DEF AInv, PInv, Typed, HandshakeFails
<1>2. PICK r : r = [q EXCEPT !.host = "closed", !.up = <<>>]
  OBVIOUS
<1>3. r.client = q.client /\ ~r.alive
  BY <1>1, <1>2 DEF Connection
<1>4. conns' = [conns EXCEPT ![k] = r]
  BY <1>1, <1>2 DEF HandshakeFails, AInv, PInv, Typed
<1> QED BY <1>1, <1>3, <1>4, Changed, BreakStep DEF AInv, HandshakeFails

\* A client's connection is made.
LEMMA ConnectedAgrees ==
  ASSUME LanAssumption, AInv, PInv', NEW c \in Clients, Connected(c)
  PROVE  AInv'
<1>1. PICK k : k = Mine(c)
  OBVIOUS
<1>2. k \in 1 .. Len(conns) /\ conns[k].client = c
  BY <1>1, MineIs DEF AInv, PInv, Connected
<1>3. PICK q \in Connection : q = conns[k] /\ q.alive /\ q.far = "asking" /\ q.client = c
  BY <1>1, <1>2 DEF AInv, PInv, Typed, Connected
<1>4. PICK r : r = [q EXCEPT !.far = "open"]
  OBVIOUS
<1>5. r.client = q.client /\ r.far = "open" /\ r.host = q.host /\ r.up = q.up /\ r.peer = q.peer
  BY <1>4 DEF Connection
<1>6. conns' = [conns EXCEPT ![k] = r]
  BY <1>1, <1>2, <1>3, <1>4 DEF Connected, AInv, PInv, Typed
<1>7. Alive(q, client[c], host, data[q.peer], wifi, use)
  BY <1>2, <1>3 DEF AInv, Good
<1>8. q.host = "shaking"
  <2>1. host.active /\ q.host \in {"shaking", "open"}
    BY <1>7 DEF Alive
  <2>2. Wire(k)
    BY <1>2, <2>1 DEF AInv, PInv, Right
  <2> QED BY <1>3, <2>1, <2>2 DEF Wire
<1>9. Alive(r, client[c], host, data[q.peer], wifi, use)
  BY <1>5, <1>7, <1>8 DEF Alive
<1>10. /\ Len(conns') = Len(conns) /\ conns'[k] = r
       /\ \A j \in 1 .. Len(conns) : j # k => conns'[j] = conns[j]
  BY <1>2, <1>6, Changed DEF AInv
<1>11. UNCHANGED <<use, data, host, client, wifi>> /\ Idle(c)
  BY DEF Connected, AInv
<1> QED BY <1>1, <1>2, <1>3, <1>5, <1>9, <1>10, <1>11, ClientStep DEF Idle

\* A client leaves its end.
LEMMA AbandonedAgrees ==
  ASSUME LanAssumption, AInv, PInv', NEW c \in Clients, GiveUp(c) \/ Leave(c)
  PROVE  AInv'
<1>1. PICK k : k = Mine(c)
  OBVIOUS
<1>2. k \in 1 .. Len(conns) /\ conns[k].client = c
  BY <1>1, MineIs DEF AInv, PInv, GiveUp, Leave
<1>3. PICK q \in Connection : q = conns[k] /\ q.client = c
  BY <1>2 DEF AInv, PInv, Typed
<1>4. PICK r : r = [q EXCEPT !.alive = FALSE, !.far = "closed", !.down = <<>>,
                             !.host = IF q.far = "asking" THEN "closed" ELSE @]
  OBVIOUS
<1>5. r.client = q.client /\ ~r.alive
  BY <1>4 DEF Connection
<1>6. conns' = [conns EXCEPT ![k] = r]
  BY <1>1, <1>2, <1>3, <1>4 DEF GiveUp, Leave, Abandoned, AInv, PInv, Typed
<1>7. /\ Len(conns') = Len(conns) /\ conns'[k] = r
      /\ \A j \in 1 .. Len(conns) : j # k => conns'[j] = conns[j]
  BY <1>2, <1>6, Changed DEF AInv
<1>8. UNCHANGED <<use, data, host, wifi>> /\ client' = [client EXCEPT ![c] = NewClient]
  BY DEF GiveUp, Leave
<1>9. client'[c].state = "out" /\ \A b \in Clients \ {c} : client'[b] = client[b]
  BY <1>8, ClientTypes DEF AInv, PInv, Typed
<1> QED BY <1>1, <1>2, <1>3, <1>5, <1>7, <1>8, <1>9, ClientStep

\* A client's connection breaks.
LEMMA ClientDisconnectAgrees ==
  ASSUME LanAssumption, AInv, PInv', NEW c \in Clients, ClientDisconnect(c)
  PROVE  AInv'
<1>1. PICK k : k = Mine(c)
  OBVIOUS
<1>2. k \in 1 .. Len(conns) /\ conns[k].client = c
  BY <1>1, MineIs DEF AInv, PInv, ClientDisconnect
<1>3. PICK q \in Connection : q = conns[k] /\ q.client = c /\ ~q.alive
  BY <1>1, <1>2 DEF AInv, PInv, Typed, ClientDisconnect
<1>4. PICK r : r = [q EXCEPT !.far = "closed", !.down = <<>>]
  OBVIOUS
<1>5. r.client = q.client /\ ~r.alive
  BY <1>3, <1>4 DEF Connection
<1>6. conns' = [conns EXCEPT ![k] = r]
  BY <1>1, <1>2, <1>3, <1>4 DEF ClientDisconnect, AInv, PInv, Typed
<1>7. /\ Len(conns') = Len(conns) /\ conns'[k] = r
      /\ \A j \in 1 .. Len(conns) : j # k => conns'[j] = conns[j]
  BY <1>2, <1>6, Changed DEF AInv
<1>8. /\ UNCHANGED <<use, data, host, wifi>>
      /\ client' = [client EXCEPT ![c].mask = @ \ {0}, ![c].players[0].status = "disconnected"]
      /\ client[c].state = "in" /\ client \in [Clients -> ClientType]
  BY DEF ClientDisconnect, AInv, PInv, Typed
<1>9. client'[c].state = "in" /\ \A b \in Clients \ {c} : client'[b] = client[b]
  <2>1. PICK p \in ClientType : p = client[c]
    BY <1>8
  <2>2. client'[c] = [p EXCEPT !.mask = @ \ {0}, !.players[0].status = "disconnected"]
    BY <1>8, <2>1
  <2>3. client'[c].state = p.state
    BY <2>2 DEF ClientType
  <2> QED BY <1>8, <2>1, <2>3
<1> QED BY <1>1, <1>2, <1>3, <1>5, <1>7, <1>8, <1>9, ClientStep

\* StartClient takes a command.
LEMMA JoinedAgrees ==
  ASSUME LanAssumption, AInv, PInv', NEW c \in Clients, Joined(c)
  PROVE  AInv'
<1>1. PICK k : k = Mine(c)
  OBVIOUS
<1>2. PICK q : q = conns[k]
  OBVIOUS
<1>3. PICK o : o = [q EXCEPT !.down = Tail(q.down)]
  OBVIOUS
<1>4. /\ q.down # <<>> /\ q.far = "open" /\ client[c].state = "joining" /\ UNCHANGED <<use, data, host, wifi>>
      /\ client \in [Clients -> ClientType] /\ conns \in Seq(Connection) /\ PInv
  BY <1>1, <1>2 DEF Joined, AInv, PInv, Typed
<1>5. Takes(c, k, q, o)
  BY <1>1, <1>2, <1>3, <1>4, Taking
<1>6. /\ k \in 1 .. Len(conns) /\ q \in Connection /\ o \in Connection /\ q.client = c
      /\ o.client = q.client /\ o.peer = q.peer /\ o.host = q.host /\ o.far = q.far
      /\ o.alive = q.alive /\ o.up = q.up /\ o.down = Tail(q.down) /\ Head(q.down) \in Messages
      /\ Head(q.down) = q.down[1] /\ q.up \in Seq(Messages)
  BY <1>5, Under DEF Takes
<1>7. PICK m \in Messages : m = Head(q.down)
  BY <1>6
<1>8. PICK rest : rest = [conns EXCEPT ![k] = o] /\ rest = [conns EXCEPT ![Mine(c)].down = Tail(@)]
  BY <1>5 DEF Takes
<1>9. IF m.kind = "init"
      THEN /\ client' = [client EXCEPT ![c].state = "in", ![c].id = m.id]
           /\ conns' = Sent(k, "up", [kind |-> "info", id |-> m.id], rest)
      ELSE conns' = rest /\ client' = client
  BY <1>1, <1>2, <1>7, <1>8 DEF Joined
<1>10. q.alive => /\ Alive(q, client[c], host, data[q.peer], wifi, use)
                  /\ host.active /\ Wire(k)
  BY <1>2, <1>6 DEF AInv, Good, Alive, PInv, Right
<1>11. q.alive => /\ q.host = "open" /\ m.kind = "init" /\ data[q.peer] \in Ids
                  /\ Linked(q, client[c], host, data[q.peer], wifi, use)
  <2> SUFFICES ASSUME q.alive
               PROVE  /\ q.host = "open" /\ m.kind = "init" /\ data[q.peer] \in Ids
                      /\ Linked(q, client[c], host, data[q.peer], wifi, use)
    OBVIOUS
  <2>1. q.host = "open"
    BY <1>2, <1>4, <1>10 DEF Wire, Alive
  <2>2. Linked(q, client[c], host, data[q.peer], wifi, use) /\ data[q.peer] \in Ids
    BY <1>2, <1>10, <2>1 DEF Wire, Alive
  <2>3. m.kind = "init"
    BY <1>4, <1>6, <1>7, <2>2 DEF Linked, Asked
  <2> QED BY <2>1, <2>2, <2>3
<1>12. CASE m.kind # "init"
  <2>1. /\ Len(conns') = Len(conns) /\ conns'[k] = o
        /\ \A j \in 1 .. Len(conns) : j # k => conns'[j] = conns[j]
    BY <1>4, <1>6, <1>8, <1>9, <1>12, Changed
  <2>2. ~o.alive /\ o.client = c /\ client' = client /\ Idle(c)
    BY <1>6, <1>9, <1>11, <1>12 DEF AInv
  <2> QED BY <1>1, <1>2, <1>4, <1>6, <2>1, <2>2, ClientStep DEF Idle
<1>13. CASE m.kind = "init"
  <2>1. PICK p \in ClientType : p = client[c]
    BY <1>4
  <2>2. client'[c] = [p EXCEPT !.state = "in", !.id = m.id]
        /\ \A b \in Clients \ {c} : client'[b] = client[b]
    BY <1>4, <1>9, <1>13, <2>1
  <2>3. PICK t : t = client'[c]
    OBVIOUS
  <2>4. t.state = "in" /\ t.players = p.players /\ t.num = p.num /\ t.mask = p.mask
    BY <2>2, <2>3 DEF ClientType
  <2>5. PICK a \in Messages : a = [kind |-> "info", id |-> m.id] /\ a.kind = "info"
    <3>1. m.id \in Ids
      BY <1>13 DEF Messages
    <3> QED BY <3>1, Commands
  <2>6. But(rest, conns, k) /\ rest[k] = o /\ rest \in Seq(Connection) /\ Len(rest) = Len(conns)
    <3>1. But([conns EXCEPT ![k] = o], conns, k) /\ [conns EXCEPT ![k] = o][k] = o
      BY <1>4, <1>6, One
    <3> QED BY <1>8, <3>1 DEF But
  <2>7. /\ But(conns', rest, k)
        /\ conns'[k] = [o EXCEPT !.up = IF o.alive THEN Append(@, a) ELSE @]
    <3>1. k \in 1 .. Len(rest)
      BY <1>6, <2>6
    <3>2. /\ But(Sent(k, "up", a, rest), rest, k)
          /\ Sent(k, "up", a, rest)[k]
                = [rest[k] EXCEPT !.up = IF rest[k].alive THEN Append(@, a) ELSE @]
      BY ZenonT(40), <2>6, <3>1, SentIs
    <3> QED BY <1>9, <1>13, <2>5, <2>6, <3>2
  <2>8. /\ Len(conns') = Len(conns)
        /\ \A j \in 1 .. Len(conns) : j # k => conns'[j] = conns[j]
    BY <2>6, <2>7 DEF But
  <2>9. PICK r : r = conns'[k]
    OBVIOUS
  <2>10. /\ r.client = c /\ r.host = q.host /\ r.far = q.far /\ r.alive = q.alive /\ r.peer = q.peer
         /\ r.down = Tail(q.down)
         /\ q.alive => r.up = Append(q.up, a)
    BY <1>6, <2>7, <2>9 DEF Connection
  <2>11. r.alive => /\ q.alive
                    /\ Alive(r, t, host, data[r.peer], wifi, use)
    <3> SUFFICES ASSUME q.alive PROVE Alive(r, t, host, data[q.peer], wifi, use)
      BY <2>10
    <3>1. r.up = Append(q.up, a) /\ r.client = q.client
      BY <1>6, <2>10
    <3>2. PICK i \in Ids : i = data[q.peer] /\ Alive(q, p, host, i, wifi, use)
      BY <1>10, <1>11, <2>1
    <3>3. p.state = "joining" /\ q.host = "open"
      BY <1>4, <1>11, <2>1
    <3>4. Alive(r, t, host, i, wifi, use)
      <4>1. /\ q \in Connection /\ q.down # <<>> /\ q.far = "open" /\ r.host = q.host
            /\ r.far = q.far /\ r.down = Tail(q.down) /\ a \in Messages /\ a.kind = "info"
        BY <1>4, <1>6, <2>5, <2>10
      <4> QED BY <2>4, <3>1, <3>2, <3>3, <4>1, Joins
    <3> QED BY <3>2, <3>4
  <2>12. ASSUME NEW j \in 1 .. Len(conns)
         PROVE  IF j = Mine(c) /\ conns[j].client = c
                THEN /\ conns'[j].client = c
                     /\ conns'[j].alive =>
                            /\ conns[j].alive
                            /\ Alive(conns'[j], client'[c], host, data[conns'[j].peer], wifi, use)
                ELSE conns'[j] = conns[j]
    <3>1. CASE j = k
      BY <1>1, <1>2, <1>6, <2>3, <2>9, <2>10, <2>11, <3>1
    <3>2. CASE j # k
      BY <1>1, <2>8, <3>2
    <3> QED BY <3>1, <3>2
  <2>13. client'[c].state # "joining" /\ wifi' = wifi /\ UNCHANGED <<use, data, host>>
    BY <1>4, <2>3, <2>4
  <2> QED BY <2>2, <2>8, <2>12, <2>13, ClientStep
<1> QED BY <1>12, <1>13

\* ProcessClientEvent.
LEMMA ClientReceiveAgrees ==
  ASSUME LanAssumption, AInv, PInv', NEW c \in Clients, ClientReceive(c)
  PROVE  AInv'
<1>1. PICK k : k = Mine(c)
  OBVIOUS
<1>2. PICK q : q = conns[k]
  OBVIOUS
<1>3. PICK r : r = [q EXCEPT !.down = Tail(q.down)]
  OBVIOUS
<1>4. /\ q.down # <<>> /\ client[c].state = "in" /\ UNCHANGED <<use, data, host, wifi>>
      /\ client \in [Clients -> ClientType] /\ conns \in Seq(Connection) /\ PInv
  BY <1>1, <1>2 DEF ClientReceive, AInv, PInv, Typed
<1>5. Takes(c, k, q, r)
  BY <1>1, <1>2, <1>3, <1>4, Taking
<1>6. /\ k \in 1 .. Len(conns) /\ q \in Connection /\ q.client = c
      /\ r.client = q.client /\ r.peer = q.peer /\ r.host = q.host /\ r.far = q.far
      /\ r.alive = q.alive /\ r.up = q.up /\ r.down = Tail(q.down) /\ Head(q.down) \in Messages
  BY <1>5 DEF Takes
<1>7. PICK m \in Messages : m = Head(q.down)
  BY <1>6
<1>8. conns' = [conns EXCEPT ![k] = r]
  BY <1>5 DEF Takes, ClientReceive
<1>9. /\ Len(conns') = Len(conns) /\ conns'[k] = r
      /\ \A j \in 1 .. Len(conns) : j # k => conns'[j] = conns[j]
  BY <1>4, <1>6, <1>8, Changed
<1>10. PICK p \in ClientType : p = client[c]
  BY <1>4
<1>11. PICK t : t = client'[c]
  OBVIOUS
<1>12. /\ t.state = "in" /\ \A b \in Clients \ {c} : client'[b] = client[b]
       /\ \/ m.kind = "list" /\ m.num <= 16 /\ t.players = m.players /\ t.num = m.num /\ t.mask = p.mask
          \/ m.kind = "list" /\ m.num > 16 /\ t = p
          \/ m.kind = "begin" /\ t.players = p.players /\ t.num = p.num /\ t.mask = p.mask \cup {0}
          \/ m.kind = "end" /\ t.players = p.players /\ t.num = p.num /\ t.mask = p.mask \ {0}
  <2>1. \/ /\ m.kind = "list" /\ m.num <= 16
           /\ client' = [client EXCEPT ![c].players = m.players, ![c].num = m.num]
        \/ m.kind = "list" /\ m.num > 16 /\ client' = client
        \/ m.kind = "begin" /\ client' = [client EXCEPT ![c].mask = @ \cup {0}]
        \/ m.kind = "end" /\ client' = [client EXCEPT ![c].mask = @ \ {0}]
    BY <1>1, <1>2, <1>7 DEF ClientReceive
  <2>5. CASE m.kind = "list" /\ m.num > 16 /\ client' = client
    BY <1>4, <1>10, <1>11, <2>5
  <2>2. CASE /\ m.kind = "list" /\ m.num <= 16
             /\ client' = [client EXCEPT ![c].players = m.players, ![c].num = m.num]
    <3>1. /\ t = [p EXCEPT !.players = m.players, !.num = m.num]
          /\ \A b \in Clients \ {c} : client'[b] = client[b]
      BY <1>4, <1>10, <1>11, <2>2
    <3> QED BY <1>4, <1>10, <2>2, <3>1 DEF ClientType
  <2>3. CASE m.kind = "begin" /\ client' = [client EXCEPT ![c].mask = @ \cup {0}]
    <3>1. t = [p EXCEPT !.mask = @ \cup {0}] /\ \A b \in Clients \ {c} : client'[b] = client[b]
      BY <1>4, <1>10, <1>11, <2>3
    <3> QED BY <1>4, <1>10, <2>3, <3>1 DEF ClientType
  <2>4. CASE m.kind = "end" /\ client' = [client EXCEPT ![c].mask = @ \ {0}]
    <3>1. t = [p EXCEPT !.mask = @ \ {0}] /\ \A b \in Clients \ {c} : client'[b] = client[b]
      BY <1>4, <1>10, <1>11, <2>4
    <3> QED BY <1>4, <1>10, <2>4, <3>1 DEF ClientType
  <2> QED BY <2>1, <2>2, <2>3, <2>4, <2>5
<1>13. \/ m.kind = "list" /\ m = PlayerList(t) /\ t.mask = p.mask
       \/ m.kind = "list" /\ m.num > 16 /\ t = p
       \/ m.kind \in Switches /\ m = Switch(0 \in t.mask) /\ t.players = p.players /\ t.num = p.num
  <2>1. m.kind = "list" => m = [kind |-> "list", players |-> m.players, num |-> m.num]
    BY DEF Messages
  <2>2. m.kind = "list" /\ m.num <= 16 /\ t.players = m.players /\ t.num = m.num => m = PlayerList(t)
    <3> SUFFICES ASSUME m.kind = "list", m.num <= 16, t.players = m.players, t.num = m.num
                 PROVE  m = PlayerList(t)
      OBVIOUS
    <3>1. PICK n \in 0 .. 16 : n = m.num
      BY Lists
    <3>2. n % 256 = n
      OBVIOUS
    <3> QED BY <2>1, <3>1, <3>2 DEF PlayerList
  <2>3. m.kind = "begin" => m = Switch(0 \in t.mask)
    BY <1>12, SwitchIs DEF Switch
  <2>4. m.kind = "end" => m = Switch(0 \in t.mask)
    BY <1>12, SwitchIs DEF Switch
  <2> QED BY <1>12, <2>2, <2>3, <2>4 DEF Switches
<1>14. r.alive => q.alive /\ Alive(r, t, host, data[r.peer], wifi, use)
  <2> SUFFICES ASSUME q.alive PROVE Alive(r, t, host, data[q.peer], wifi, use)
    BY <1>6
  <2>1. Alive(q, p, host, data[q.peer], wifi, use) /\ host.active /\ Wire(k)
    BY <1>2, <1>6, <1>10 DEF AInv, Good, Alive, PInv, Right
  <2>2. q.host = "open"
    BY <1>2, <1>4, <2>1 DEF Wire, Alive
  <2>3. m.kind = "list" /\ m.num > 16 => m # PlayerList(host)
    <3>1. Counted(host)
      BY <1>4, <2>1 DEF PInv, Right
    <3>2. PICK n \in 0 .. 16 : n = PlayerList(host).num
      BY <3>1, Number DEF PlayerList
    <3>3. m.kind = "list" => m.num \in Int
      BY Lists
    <3> QED BY <3>2, <3>3
  <2> QED BY <1>4, <1>6, <1>7, <1>10, <1>12, <1>13, <2>1, <2>2, <2>3, ClientHears
<1> QED BY <1>1, <1>2, <1>4, <1>6, <1>9, <1>11, <1>12, <1>14, ClientStep

\* What a client says is added to its connection, if it is there and the host is.
LEMMA Said ==
  ASSUME NEW all \in Seq(Connection), NEW k \in 1 .. Len(all), NEW m \in Messages,
         NEW q, q = all[k], NEW new,
         new = IF q.far = "open" THEN Sent(k, "up", m, all) ELSE all, NEW r, r = new[k]
  PROVE  /\ But(new, all, k)
         /\ r.client = q.client /\ r.host = q.host /\ r.far = q.far /\ r.alive = q.alive
         /\ r.peer = q.peer /\ r.down = q.down
         /\ q.far = "open" /\ q.alive => r.up = Append(q.up, m)
<1>1. But(Sent(k, "up", m, all), all, k) /\ But(all, all, k)
  <2>1. But(Sent(k, "up", m, all), all, k)
    BY Zenon, SentIs
  <2> QED BY <2>1 DEF But
<1>2. q \in Connection
  OBVIOUS
<1>3. CASE q.far = "open" /\ q.alive
  <2>1. r = [q EXCEPT !.up = Append(q.up, m)]
    <3>1. Sent(k, "up", m, all)[k] = [q EXCEPT !.up = IF q.alive THEN Append(@, m) ELSE @]
      BY ZenonT(40), SentIs
    <3> QED BY Zenon, <1>3, <3>1
  <2>2. /\ r.client = q.client /\ r.host = q.host /\ r.far = q.far /\ r.alive = q.alive
        /\ r.peer = q.peer /\ r.down = q.down /\ r.up = Append(q.up, m)
    BY <1>2, <2>1 DEF Connection
  <2> QED BY <1>1, <1>3, <2>2
<1>4. CASE ~(q.far = "open" /\ q.alive)
  <2>1. new = all
    BY <1>4 DEF Sent
  <2> QED BY <1>1, <1>4, <2>1
<1> QED BY <1>3, <1>4

\* A client's game switches the wireless hardware, and the client says so.
LEMMA SayingAgrees ==
  ASSUME LanAssumption, AInv, PInv', NEW c \in Clients, client[c].state = "in",
         UNCHANGED <<use, data, host>>, NEW k, k = Mine(c),
         wifi' \in {wifi \cup {c}, wifi \ {c}}, NEW m \in Messages, m = Switch(c \in wifi'),
         conns' = IF conns[k].far = "open" THEN Sent(k, "up", m, conns) ELSE conns,
         \A b \in Clients \ {c} : client'[b] = client[b],
         client'[c].state = "in", client'[c].players = client[c].players,
         client'[c].num = client[c].num,
         client'[c].mask \in {client[c].mask \cup {client[c].id}, client[c].mask \ {client[c].id}}
  PROVE  AInv'
<1>1. /\ k \in 1 .. Len(conns) /\ conns[k].client = c /\ conns \in Seq(Connection)
      /\ host.active => Wire(k) /\ Own(k)
  BY MineIs DEF AInv, PInv, Typed, Right
<1>2. PICK q \in Connection : q = conns[k] /\ q.client = c
  BY <1>1
<1>6. PICK r : r = conns'[k]
  OBVIOUS
<1>4. /\ But(conns', conns, k)
      /\ r.client = q.client /\ r.host = q.host /\ r.far = q.far /\ r.alive = q.alive
      /\ r.peer = q.peer /\ r.down = q.down
      /\ q.far = "open" /\ q.alive => r.up = Append(q.up, m)
  BY <1>1, <1>2, <1>6, Said
<1>5. Len(conns') = Len(conns) /\ \A j \in 1 .. Len(conns) : j # k => conns'[j] = conns[j]
  BY <1>4 DEF But
<1>7. /\ r.client = c /\ r.host = q.host /\ r.far = q.far /\ r.alive = q.alive /\ r.peer = q.peer
      /\ r.down = q.down
      /\ q.far = "open" /\ q.alive => r.up = Append(q.up, m)
  BY <1>2, <1>4
<1>8. \A b \in Machines \ {c} : b \in wifi' <=> b \in wifi
  OBVIOUS
<1>9. r.alive => q.alive /\ Alive(r, client'[c], host, data[r.peer], wifi', use)
  <2> SUFFICES ASSUME q.alive PROVE Alive(r, client'[c], host, data[q.peer], wifi', use)
    BY <1>7
  <2>1. Alive(q, client[c], host, data[q.peer], wifi, use) /\ host.active /\ Wire(k) /\ Own(k)
    BY <1>1, <1>2 DEF AInv, Good, Alive
  <2>2. q.host = "open" /\ q.far = "open"
    BY <1>1, <1>2, <2>1 DEF Own, Alive
  <2>3. client[c].id # 0
    BY <1>1, <1>2, <2>1, <2>2 DEF Own, Wire
  <2>4. 0 \in client'[c].mask <=> 0 \in client[c].mask
    BY <2>3
  <2>5. r.up = Append(q.up, Switch(q.client \in wifi'))
    BY <1>2, <1>7, <2>2
  <2>6. HostMachine \in wifi' <=> HostMachine \in wifi
    BY <1>8 DEF Machines, LanAssumption
  <2>7. PICK s : s = client[c] /\ s.state = "in"
    OBVIOUS
  <2>8. PICK t : /\ t = client'[c] /\ t.state = "in" /\ t.players = s.players /\ t.num = s.num
                 /\ 0 \in t.mask <=> 0 \in s.mask
    BY <2>4, <2>7
  <2>9. PICK v : v = wifi' /\ (HostMachine \in v <=> HostMachine \in wifi)
                 /\ r.up = Append(q.up, Switch(q.client \in v))
    BY <2>5, <2>6
  <2>10. Alive(q, s, host, data[q.peer], wifi, use)
    BY <2>1, <2>7
  <2>11. r.client = q.client /\ r.host = q.host /\ r.far = q.far /\ r.down = q.down
    BY <1>2, <1>7
  <2>12. Alive(r, t, host, data[q.peer], v, use)
    BY <1>2, <2>2, <2>7, <2>8, <2>9, <2>10, <2>11, SaysSwitch
  <2> QED BY <2>8, <2>9, <2>12
<1> QED BY <1>1, <1>2, <1>5, <1>6, <1>7, <1>8, <1>9, ClientStep

\* Begin of a client.
LEMMA ClientBeginAgrees ==
  ASSUME LanAssumption, AInv, PInv', NEW c \in Clients, ClientBegin(c)
  PROVE  AInv'
<1>1. PICK k : k = Mine(c)
  OBVIOUS
<1>2. PICK p \in ClientType : p = client[c] /\ p.state = "in"
  BY DEF AInv, PInv, Typed, ClientBegin
<1>3. client \in [Clients -> ClientType] /\ UNCHANGED <<use, data, host>>
  BY DEF AInv, PInv, Typed, ClientBegin
<1>4. client'[c] = [p EXCEPT !.mask = @ \cup {p.id}, !.last = None]
         /\ \A b \in Clients \ {c} : client'[b] = client[b]
  BY <1>2, <1>3 DEF ClientBegin
<1>5. /\ client'[c].state = "in" /\ client'[c].players = p.players
      /\ client'[c].num = p.num /\ client'[c].mask = p.mask \cup {p.id}
  BY <1>2, <1>4 DEF ClientType
<1>6. wifi' = wifi \cup {c}
  BY DEF ClientBegin
<1>7. PICK m \in Messages : m = [kind |-> "begin"]
  BY Commands
<1>8. m = Switch(c \in wifi')
  BY <1>6, <1>7 DEF Switch
<1>9. conns' = IF conns[k].far = "open" THEN Sent(k, "up", m, conns) ELSE conns
  BY <1>1, <1>7 DEF ClientBegin
<1> QED BY ZenonT(40), <1>1, <1>2, <1>3, <1>4, <1>5, <1>6, <1>8, <1>9, SayingAgrees

\* End of a client: out of the session nobody hears of it.
LEMMA ClientStopAgrees ==
  ASSUME LanAssumption, AInv, PInv', NEW c \in Clients, ClientStop(c)
  PROVE  AInv'
<1>1. PICK k : k = Mine(c)
  OBVIOUS
<1>2. PICK p \in ClientType : p = client[c] /\ p.state \in {"out", "in"}
  BY DEF AInv, PInv, Typed, ClientStop, ClientType
<1>3. client \in [Clients -> ClientType] /\ UNCHANGED <<use, data, host>> /\ wifi' = wifi \ {c}
  BY DEF AInv, PInv, Typed, ClientStop
<1>4. CASE p.state = "out"
  <2>1. conns' = conns /\ client' = client
    BY <1>2, <1>4 DEF ClientStop
  <2>2. ASSUME NEW j \in 1 .. Len(conns), conns[j].client = c PROVE ~conns[j].alive
    BY <1>2, <1>4, <2>2 DEF AInv, Good, Alive
  <2>3. \A b \in Machines \ {c} : b \in wifi' <=> b \in wifi
    BY <1>3
  <2> QED BY <1>2, <1>3, <1>4, <2>1, <2>2, <2>3, ClientStep
<1>5. CASE p.state = "in"
  <2>1. /\ client' = [client EXCEPT ![c].mask = @ \ {client[c].id}]
        /\ conns' = IF conns[k].far = "open" THEN Sent(k, "up", [kind |-> "end"], conns) ELSE conns
    BY <1>1, <1>2, <1>5 DEF ClientStop
  <2>2. client'[c] = [p EXCEPT !.mask = @ \ {p.id}] /\ \A b \in Clients \ {c} : client'[b] = client[b]
    BY <1>2, <1>3, <2>1
  <2>3. /\ client'[c].state = "in" /\ client'[c].players = p.players
        /\ client'[c].num = p.num /\ client'[c].mask = p.mask \ {p.id}
    BY <1>2, <1>5, <2>2 DEF ClientType
  <2>4. PICK m \in Messages : m = [kind |-> "end"]
    BY Commands
  <2>5. m = Switch(c \in wifi')
    BY <1>3, <2>4 DEF Switch
  <2>6. conns' = IF conns[k].far = "open" THEN Sent(k, "up", m, conns) ELSE conns
    BY <2>1, <2>4
  <2> QED BY <1>1, <1>2, <1>3, <1>5, <2>2, <2>3, <2>5, <2>6, SayingAgrees
<1> QED BY <1>2, <1>4, <1>5

\* RecvPacketGeneric.
LEMMA HearHostAgrees ==
  ASSUME LanAssumption, AInv, PInv', NEW c \in Clients, HearHost(c)
  PROVE  AInv'
<1>1. PICK k : k = Mine(c)
  OBVIOUS
<1>2. PICK p \in ClientType : p = client[c] /\ p.state = "in"
  BY DEF AInv, PInv, Typed, HearHost
<1>3. /\ client \in [Clients -> ClientType] /\ UNCHANGED <<use, conns, data, host, wifi>>
      /\ client' = [client EXCEPT ![c].last = 0]
  BY DEF AInv, PInv, Typed, HearHost
<1>4. k \in 1 .. Len(conns) /\ conns[k].client = c
  BY <1>1, <1>2, MineIs DEF AInv, PInv
<1>5. PICK t : t = client'[c]
  OBVIOUS
<1>6. t = [p EXCEPT !.last = 0] /\ \A b \in Clients \ {c} : client'[b] = client[b]
  BY <1>2, <1>3, <1>5
<1>7. t.state = p.state /\ t.players = p.players /\ t.num = p.num /\ t.mask = p.mask
  BY <1>2, <1>6 DEF ClientType
<1>8. PICK q : q = conns[k]
  OBVIOUS
<1>9. ASSUME q.alive PROVE Alive(q, t, host, data[q.peer], wifi, use)
  <2>1. Alive(q, p, host, data[q.peer], wifi, use)
    BY <1>2, <1>4, <1>8, <1>9 DEF AInv, Good
  <2>2. host.active /\ (q.host = "shaking" /\ "late" \notin use => HostMachine \notin wifi)
    BY <2>1 DEF Alive
  <2> QED BY <1>7, <2>1, <2>2, Steady
<1> QED BY <1>1, <1>2, <1>3, <1>4, <1>5, <1>6, <1>7, <1>8, <1>9, ClientStep

\* StartClient: the new connection is the client's last one.
LEMMA AskAgrees ==
  ASSUME LanAssumption, AInv, PInv', NEW c \in Clients, Ask(c)
  PROVE  AInv'
<1>1. /\ Len(conns) < MaxAsks /\ client[c].state = "out" /\ host.active /\ c \notin wifi
      /\ client' = [client EXCEPT ![c].state = "joining"] /\ UNCHANGED <<use, host, wifi>>
      /\ client \in [Clients -> ClientType] /\ data \in [Peers -> Ids \cup {None}]
      /\ conns \in Seq(Connection) /\ Len(conns) \in Nat /\ Typed
      /\ "late" \notin use => HostMachine \notin wifi
  BY DEF Ask, AInv, PInv, Typed, LanAssumption
<1>2. PICK p : p = FreePeer
  OBVIOUS
<1>3. p \in Peers /\ \A k \in 1 .. Len(conns) : conns[k].host # "closed" => conns[k].peer # p
  BY <1>1, <1>2, FreePeerIs
<1>4. PICK r : r = [client |-> c, peer |-> p, up |-> <<>>, down |-> <<>>,
                    alive |-> TRUE, host |-> "shaking", far |-> "asking"]
  OBVIOUS
<1>5. r.client = c /\ r.host = "shaking" /\ r.far = "asking" /\ r.up = <<>>
  BY <1>4
<1>6. conns' = Append(conns, r) /\ data' \in {data, [data EXCEPT ![p] = None]}
  BY <1>2, <1>4 DEF Ask
<1>7. PICK n : n = Len(conns) + 1 /\ n \in Nat
  BY <1>1
<1>8. /\ Len(conns') = n /\ conns'[n] = r /\ DOMAIN conns' = 1 .. n /\ DOMAIN conns = 1 .. Len(conns)
      /\ \A k \in 1 .. Len(conns) : conns'[k] = conns[k] /\ k \in 1 .. n
      /\ \A k \in 1 .. n : k \in 1 .. Len(conns) \/ k = n
      /\ n \notin 1 .. Len(conns)
  BY <1>1, <1>6, <1>7
<1>9. client'[c].state = "joining" /\ \A b \in Clients \ {c} : client'[b] = client[b]
  <2>1. PICK o \in ClientType : o = client[c]
    BY <1>1
  <2>2. client'[c] = [o EXCEPT !.state = "joining"]
    BY <1>1, <2>1
  <2> QED BY <1>1, <2>2 DEF ClientType
<1>10. \A b \in Clients : Idle(b)'
  BY <1>1, <1>9 DEF AInv, Idle
<1>11. host'.active => HostKnows(host', wifi')
  BY <1>1 DEF AInv
<1>12. Good(n)'
  <2>1. n = Mine(c)'
    <3> DEFINE S == {k \in DOMAIN conns' : conns'[k].client = c}
    <3>1. S \subseteq 0 .. n /\ n \in S /\ \A k \in S : k \in 1 .. n
      BY <1>5, <1>7, <1>8
    <3>2. Max(S) \in S /\ Max(S) >= n
      BY <1>7, <3>1, Greatest
    <3>3. Mine(c)' = Max(S)
      BY DEF Mine
    <3> HIDE DEF S
    <3>4. \A k \in S : k >= n => k = n
      BY <1>7, <3>1
    <3> QED BY <3>2, <3>3, <3>4
  <2>2. Alive(r, client'[c], host, data'[r.peer], wifi, use)
    BY <1>1, <1>5, <1>9 DEF Alive
  <2> QED BY <1>1, <1>5, <1>8, <2>1, <2>2 DEF Good
<1>13. ASSUME NEW k \in 1 .. Len(conns) PROVE Good(k)'
  <2> SUFFICES ASSUME conns[k].alive PROVE Good(k)'
    BY <1>8 DEF Good
  <2>1. PICK q \in Connection : q = conns[k]
    BY <1>1
  <2>2. PICK b \in Clients : b = q.client
    BY DEF Connection
  <2>3. k = Mine(b) /\ Alive(q, client[b], host, data[q.peer], wifi, use)
    BY <2>1, <2>2 DEF AInv, Good
  <2>4. b # c /\ client'[b] = client[b]
    BY <1>1, <1>9, <2>3 DEF Alive
  <2>5. Mine(b)' = Mine(b)
    <3>1. {j \in DOMAIN conns' : conns'[j].client = b} = {j \in DOMAIN conns : conns[j].client = b}
      BY <1>1, <1>5, <1>8, <2>4
    <3> QED BY <3>1 DEF Mine
  <2>6. q.host # "closed" => data'[q.peer] = data[q.peer]
    <3>1. q.peer \in Peers /\ (q.host # "closed" => q.peer # p)
      BY <1>3, <2>1 DEF Connection
    <3> QED BY <1>1, <1>6, <3>1
  <2>7. Alive(q, client[b], host, data'[q.peer], wifi, use)
    <3>1. q.host # "closed"
      BY <2>3 DEF Alive
    <3> QED BY <2>3, <2>6, <3>1
  <2>8. conns'[k] = q /\ k = Mine(b)' /\ Alive(q, client'[b], host', data'[q.peer], wifi', use')
    BY <1>1, <1>8, <2>1, <2>3, <2>4, <2>5, <2>7
  <2> QED BY <2>2, <2>8 DEF Good
<1> QED BY <1>8, <1>10, <1>11, <1>12, <1>13 DEF AInv

-----------------------------------------------------------------------------
(* Agreement is kept: the host.                                            *)

\* A connection that is being made is not concerned by what the host says.
LEMMA Shaking ==
  ASSUME NEW q, NEW r, NEW s, NEW h, NEW g, NEW i, NEW p, NEW w, NEW v, NEW u,
         Alive(q, s, h, i, w, u), q.host = "shaking", g.active,
         r.host = q.host, r.far = q.far, r.up = q.up, "late" \notin u => HostMachine \notin v
  PROVE  Alive(r, s, g, p, v, u)
BY DEF Alive

\* A connection that is open has a place of its own, which is taken.
LEMMA Place ==
  ASSUME LanAssumption, PInv, host.active, NEW j \in 1 .. Len(conns), conns[j].host = "open"
  PROVE  /\ data[conns[j].peer] \in Ids \ {0}
         /\ host.players[data[conns[j].peer]].status # "none"
         /\ host.players[data[conns[j].peer]].who = conns[j].client
         /\ \A k \in 1 .. Len(conns) : k # j /\ conns[k].host = "open" =>
                data[conns[k].peer] # data[conns[j].peer]
<1>1. Wire(j) /\ Placed /\ \A k \in 1 .. Len(conns) : Wire(k)
  BY DEF PInv, Right
<1>2. host.remote[data[conns[j].peer]] = j /\ data[conns[j].peer] \in Ids \ {0} /\ j # None
  BY <1>1 DEF Wire, LanAssumption
<1>3. \A k \in 1 .. Len(conns) : conns[k].host = "open" => host.remote[data[conns[k].peer]] = k
  BY <1>1 DEF Wire
<1> QED BY <1>1, <1>2, <1>3 DEF Placed, Wire

\* A step of the host that tells everybody the players, and concerns the place i and the
\* connection k alone.
LEMMA PlayersAgree ==
  ASSUME LanAssumption, AInv, PInv', host.active, host'.active, UNCHANGED <<use, data, client, wifi>>,
         NEW all \in Seq(Connection), NEW k \in 1 .. Len(conns), But(all, conns, k),
         all[k].client = conns[k].client, all[k].peer = conns[k].peer,
         conns' = Broadcast(PlayerList(host'), all), conns[k].host = "open",
         NEW i, i = data[conns[k].peer], HostKnows(host', wifi'),
         \A j \in Ids \ {i} : /\ host'.players[j] = host.players[j]
                              /\ j \in host'.mask <=> j \in host.mask,
         all[k].alive =>
             /\ conns[k].alive /\ all[k].host = "open" /\ all[k].far = conns[k].far
             /\ all[k].down = conns[k].down
             /\ client[conns[k].client].state # "joining"
             /\ host'.players[i].status # "connecting"
             /\ Says(all[k].up, Switches, Switch(i \in host'.mask), Switch(conns[k].client \in wifi))
  PROVE  AInv'
<1>1. Len(all) = Len(conns) /\ \A j \in 1 .. Len(conns) : j # k => all[j] = conns[j]
  BY DEF But
<1>2. host' \in HostType
  BY DEF PInv, Typed
<1>3. PICK a \in Messages : a = PlayerList(host')
  BY <1>2, Commands
<1>4. /\ Len(conns') = Len(conns)
      /\ \A j \in 1 .. Len(conns) :
            /\ conns'[j].client = all[j].client /\ conns'[j].peer = all[j].peer
            /\ conns'[j].up = all[j].up /\ conns'[j].alive = all[j].alive
            /\ conns'[j].host = all[j].host /\ conns'[j].far = all[j].far
            /\ conns'[j].down = Hears(all[j], a)
  BY <1>1, <1>3, BroadcastIs
<1>5. \A c \in Clients : Idle(c)'
  BY DEF AInv, Idle
<1>6. ASSUME NEW j \in 1 .. Len(conns), conns'[j].alive
      PROVE  /\ conns[j].alive
             /\ Alive(conns'[j], client[conns[j].client], host', data[conns'[j].peer], wifi, use)
  <2>1. PICK q \in Connection : q = conns[j]
    BY DEF AInv, PInv, Typed
  <2>2. PICK r : r = conns'[j]
    OBVIOUS
  <2>3. all[j].alive /\ q.alive /\ r.peer = q.peer
    BY <1>1, <1>4, <1>6, <2>1, <2>2
  <2>4. PICK s : s = client[q.client] /\ Alive(q, s, host, data[q.peer], wifi, use)
    BY <2>1, <2>3 DEF AInv, Good
  <2>5. CASE q.host = "shaking"
    <3>1. j # k
      BY <2>1, <2>5
    <3>2. r.host = q.host /\ r.far = q.far /\ r.up = q.up
      BY <1>1, <1>4, <2>1, <2>2, <3>1
    <3>3. "late" \notin use => HostMachine \notin wifi
      BY <2>4, <2>5 DEF Alive
    <3>4. Alive(r, s, host', data[q.peer], wifi, use)
      BY <2>4, <2>5, <3>2, <3>3, Shaking
    <3> QED BY <2>1, <2>2, <2>3, <2>4, <3>4
  <2>6. CASE q.host = "open"
    <3>1. PICK p \in Ids \ {0} : p = data[q.peer]
      BY <2>1, <2>6, Place DEF AInv
    <3>2. j # k => p # i
      BY <2>1, <2>6, <3>1, Place DEF AInv
    <3>3. Linked(q, s, host, p, wifi, use)
      BY <2>4, <2>6, <3>1 DEF Alive
    <3>4. /\ r.client = q.client /\ r.host = q.host /\ r.far = q.far
          /\ r.down = Append(q.down, PlayerList(host'))
      <4>1. /\ all[j].client = q.client /\ all[j].host = q.host /\ all[j].far = q.far
            /\ all[j].down = q.down /\ all[j].alive
        BY <1>1, <2>1, <2>3, <2>6
      <4> QED BY ZenonT(40), <1>3, <1>4, <2>2, <2>6, <4>1 DEF Hears
    <3>5. /\ Says(r.up, Switches, Switch(p \in host'.mask), Switch(q.client \in wifi))
          /\ s.state = "joining" => r.up = <<>> /\ host'.players[p].status = "connecting"
          /\ host'.players[p].status = "connecting" =>
                s.state = "joining" \/ \E n \in 1 .. Len(r.up) : r.up[n].kind = "info"
      <4>1. CASE j = k
        BY <1>4, <2>1, <2>2, <2>3, <2>4, <3>1, <4>1
      <4>2. CASE j # k
        <5>1. r.up = q.up
          BY <1>1, <1>4, <2>1, <2>2, <4>2
        <5>2. host'.players[p] = host.players[p] /\ (p \in host'.mask <=> p \in host.mask)
          BY <3>1, <3>2, <4>2
        <5>3. Switch(p \in host'.mask) = Switch(p \in host.mask)
          BY <5>2, Same
        <5>4. s.state = "joining" => r.up = <<>>
          BY <2>4, <5>1 DEF Alive
        <5> QED BY <3>3, <5>1, <5>2, <5>3, <5>4 DEF Linked, Asked
      <4> QED BY <4>1, <4>2
    <3>6. Alive(q, s, host, p, wifi, use)
      BY <2>4, <3>1
    <3>7. Alive(r, s, host', p, wifi, use)
      BY <1>2, <2>6, <3>4, <3>5, <3>6, TellsPlayers
    <3> QED BY <2>1, <2>2, <2>3, <2>4, <3>1, <3>7
  <2> QED BY <2>4, <2>5, <2>6 DEF Alive
<1>7. \A j \in 1 .. Len(conns) : conns'[j].client = conns[j].client
  BY <1>1, <1>4
<1> QED BY <1>4, <1>5, <1>6, <1>7, GoodStep

\* ENET_EVENT_TYPE_DISCONNECT: the others are told who has gone.
LEMMA HostDisconnectAgrees ==
  ASSUME LanAssumption, AInv, PInv', ~mistaken', NEW k \in 1 .. Len(conns), HostDisconnect(k)
  PROVE  AInv'
<1>1. PICK closed : closed = [conns EXCEPT ![k].host = "closed", ![k].up = <<>>]
  OBVIOUS
<1>2. PICK q \in Connection : q = conns[k]
  BY DEF AInv, PInv, Typed
<1>3. PICK i : i = data[q.peer]
  OBVIOUS
<1>4. /\ host.active /\ q.host \in {"open", "closing"} /\ ~q.alive
      /\ UNCHANGED <<use, data, client, wifi>> /\ conns \in Seq(Connection)
      /\ i = None => conns' = closed /\ host' = host
      /\ i # None => host' = Without(i) /\ conns' = Broadcast(PlayerList(host'), closed)
  BY <1>1, <1>2, <1>3 DEF HostDisconnect, AInv, PInv, Typed
<1>5. But(closed, conns, k) /\ closed[k].client = q.client /\ closed[k].peer = q.peer
  BY <1>1, <1>2, Closing DEF AInv
<1>6. ~closed[k].alive
  <2>1. PICK o : o = [q EXCEPT !.host = "closed", !.up = <<>>]
    OBVIOUS
  <2>2. closed = [conns EXCEPT ![k] = o]
    BY <1>1, <1>2, <2>1
  <2>3. closed[k] = o
    BY <1>4, <2>2
  <2> QED BY <1>4, <2>1, <2>3 DEF Connection
<1>7. CASE i = None
  BY <1>4, <1>5, <1>6, <1>7, <1>2, BreakStep DEF But
<1>8. CASE i # None
  <2>1. Wire(k) /\ Right
    BY <1>4 DEF AInv, PInv, Right
  <2>2. q.host = "open"
    BY <1>2, <1>3, <1>4, <1>8 DEF HostDisconnect
  <2>3. i \in Ids \ {0} /\ host.players[i].status # "none" /\ host \in HostType
    BY <1>2, <1>3, <1>4, <2>2, Place DEF AInv, PInv, Typed
  <2>4. Vacated(i)
    BY <1>4, <1>8, <2>1, <2>3, VacatedIs DEF Right
  <2>5. host'.mask = host.mask \ {i}
    <3>1. IdAt(i) = i
      BY <2>3 DEF IdAt
    <3> QED BY <1>4, <1>8, <2>3, <3>1 DEF Without, HostType
  <2>6. HostKnows(host', wifi')
    <3>1. HostKnows(host, wifi)
      BY <1>4 DEF AInv
    <3> QED BY ZenonT(40), <1>4, <2>3, <2>4, <2>5, <3>1 DEF HostKnows, Vacated, HostType
  <2>7. \A j \in Ids \ {i} : /\ host'.players[j] = host.players[j]
                             /\ j \in host'.mask <=> j \in host.mask
    BY <2>4, <2>5 DEF Vacated
  <2>8. closed \in Seq(Connection) /\ host'.active
    BY <1>5, <2>4 DEF But, Vacated
  <2> QED BY <1>2, <1>3, <1>4, <1>5, <1>6, <1>8, <2>2, <2>6, <2>7, <2>8, PlayersAgree
<1> QED BY <1>7, <1>8

\* ENET_EVENT_TYPE_RECEIVE of the host.
LEMMA HostReceiveAgrees ==
  ASSUME LanAssumption, AInv, PInv', NEW k \in 1 .. Len(conns), HostReceive(k)
  PROVE  AInv'
<1>1. PICK q : q = conns[k]
  OBVIOUS
<1>2. PICK r : r = [q EXCEPT !.up = Tail(q.up)]
  OBVIOUS
<1>3. /\ q.up # <<>> /\ q.host = "open" /\ host.active /\ UNCHANGED <<use, data, client, wifi>>
      /\ conns \in Seq(Connection) /\ PInv
  BY <1>1 DEF HostReceive, AInv, PInv, Typed
<1>4. HostTakes(k, q, r)
  BY <1>1, <1>2, <1>3, HostTaking
<1>5. PICK m \in Messages : m = Head(q.up)
  BY <1>4 DEF HostTakes
<1>6. PICK i \in Ids \ {0} : i = data[q.peer]
  BY <1>4 DEF HostTakes
<1>7. PICK rest : rest = [conns EXCEPT ![k] = r]
  OBVIOUS
<1>8. /\ q \in Connection /\ r \in Connection /\ q.up \in Seq(Messages)
      /\ r.client = q.client /\ r.peer = q.peer /\ r.host = q.host /\ r.far = q.far
      /\ r.alive = q.alive /\ r.down = q.down /\ r.up = Tail(q.up)
  BY <1>2, <1>3, <1>4, Under DEF HostTakes, Connection
<1>9. /\ But(rest, conns, k) /\ rest[k] = r /\ rest \in Seq(Connection) /\ Len(rest) = Len(conns)
  <2>1. But([conns EXCEPT ![k] = r], conns, k) /\ [conns EXCEPT ![k] = r][k] = r
    BY <1>3, <1>8, One
  <2> QED BY <1>7, <2>1 DEF But
<1>10. PICK p : p = [status |-> "client", who |-> q.client]
  OBVIOUS
<1>11. PICK h \in HostType : h = host
  BY DEF AInv, PInv, Typed
<1>12. /\ IdAt(i) = i /\ host.players[i].status # "none" /\ (m.kind = "info" => m.id = i)
       /\ [conns EXCEPT ![k].up = Tail(@)] = rest
  BY <1>4, <1>5, <1>6, <1>7 DEF HostTakes
<1>13. \/ /\ m.kind = "info"
          /\ host' = [h EXCEPT !.players[i] = p]
          /\ conns' = Broadcast(PlayerList(host'), rest)
       \/ m.kind = "begin" /\ host' = [h EXCEPT !.mask = @ \cup {i}] /\ conns' = rest
       \/ m.kind = "end" /\ host' = [h EXCEPT !.mask = @ \ {i}] /\ conns' = rest
  BY <1>1, <1>5, <1>6, <1>10, <1>11, <1>12 DEF HostReceive, Come
<1>14. HostKnows(host, wifi) /\ 0 # i /\ h.players \in PlayerLists
  BY <1>3, <1>6, <1>11 DEF AInv, HostType
<1>15. q.alive => /\ Alive(q, client[q.client], host, i, wifi, use)
                  /\ Linked(q, client[q.client], host, i, wifi, use)
                  /\ client[q.client].state # "joining"
  BY <1>1, <1>3, <1>6 DEF AInv, Good, Alive
<1>16. CASE /\ m.kind = "info" /\ host' = [h EXCEPT !.players[i] = p]
            /\ conns' = Broadcast(PlayerList(host'), rest)
  <2>1. /\ host'.active /\ host'.mask = host.mask /\ host'.players[i] = p /\ p.status = "client"
        /\ \A j \in Ids \ {i} : host'.players[j] = host.players[j]
    <3>1. host'.players = [h.players EXCEPT ![i] = p] /\ host'.active = h.active /\ host'.mask = h.mask
      BY <1>16 DEF HostType
    <3>2. p.status = "client"
      BY <1>10
    <3> QED BY <1>3, <1>6, <1>11, <1>14, <3>1, <3>2 DEF PlayerLists
  <2>2. HostKnows(host', wifi')
    <3>1. \A j \in Ids : j = i \/ host'.players[j] = host.players[j]
      BY <2>1
    <3>2. host'.players[i].status = "client"
      BY <2>1
    <3>3. \A j \in Ids : host'.players[j].status \in {"none", "connecting", "client", "host"}
      BY <1>14, <3>1, <3>2 DEF HostKnows
    <3>4. \A j \in Ids \ {0} : host'.players[j].status # "host"
      BY <1>14, <3>1, <3>2 DEF HostKnows
    <3>5. \A j \in host'.mask \ {0} : host'.players[j].status # "none"
      <4>1. host.mask \subseteq Ids
        BY <1>11 DEF HostType
      <4> QED BY <1>14, <2>1, <3>1, <3>2, <4>1 DEF HostKnows
    <3> QED BY <1>3, <1>14, <2>1, <3>3, <3>4, <3>5 DEF HostKnows
  <2>3. r.alive => Says(r.up, Switches, Switch(i \in host'.mask), Switch(q.client \in wifi))
    <3> SUFFICES ASSUME q.alive
                 PROVE  Says(r.up, Switches, Switch(i \in host.mask), Switch(q.client \in wifi))
      BY <1>8, <2>1
    <3>1. Says(q.up, Switches, Switch(i \in host.mask), Switch(q.client \in wifi))
      BY <1>15 DEF Linked
    <3>2. Head(q.up).kind \notin Switches
      BY <1>5, <1>16 DEF Switches
    <3> QED BY <1>3, <1>8, <3>1, <3>2, Hearing
  <2>4. rest[k].alive =>
           /\ conns[k].alive /\ rest[k].host = "open" /\ rest[k].far = conns[k].far
           /\ rest[k].down = conns[k].down
           /\ client[conns[k].client].state # "joining"
           /\ host'.players[i].status # "connecting"
           /\ Says(rest[k].up, Switches, Switch(i \in host'.mask), Switch(conns[k].client \in wifi))
    BY <1>1, <1>3, <1>8, <1>9, <1>15, <2>1, <2>3
  <2>5. \A j \in Ids \ {i} : /\ host'.players[j] = host.players[j]
                             /\ j \in host'.mask <=> j \in host.mask
    BY <2>1
  <2>6. /\ rest[k].client = conns[k].client /\ rest[k].peer = conns[k].peer
        /\ conns[k].host = "open" /\ i = data[conns[k].peer]
    BY <1>1, <1>3, <1>6, <1>8, <1>9
  <2> QED BY ZenonT(40), <1>3, <1>9, <1>16, <2>1, <2>2, <2>4, <2>5, <2>6, PlayersAgree
<1>17. CASE /\ conns' = rest
            /\ \/ m.kind = "begin" /\ host' = [h EXCEPT !.mask = @ \cup {i}]
               \/ m.kind = "end" /\ host' = [h EXCEPT !.mask = @ \ {i}]
  <2>1. /\ host'.active /\ host'.players = host.players /\ host'.num = host.num
        /\ host'.mask \in {host.mask \cup {i}, host.mask \ {i}}
        /\ m.kind \in Switches /\ m = Switch(i \in host'.mask)
    <3>1. CASE m.kind = "begin" /\ host' = [h EXCEPT !.mask = @ \cup {i}]
      <4>1. /\ host'.active = h.active /\ host'.players = h.players /\ host'.num = h.num
            /\ host'.mask = h.mask \cup {i}
        BY <3>1 DEF HostType
      <4> QED BY <1>3, <1>11, <3>1, <4>1, SwitchIs DEF Switch, Switches
    <3>2. CASE m.kind = "end" /\ host' = [h EXCEPT !.mask = @ \ {i}]
      <4>1. /\ host'.active = h.active /\ host'.players = h.players /\ host'.num = h.num
            /\ host'.mask = h.mask \ {i}
        BY <3>2 DEF HostType
      <4> QED BY <1>3, <1>11, <3>2, <4>1, SwitchIs DEF Switch, Switches
    <3> QED BY <1>17, <3>1, <3>2
  <2>2. HostKnows(host', wifi')
    BY <1>3, <1>6, <1>12, <1>14, <2>1 DEF HostKnows
  <2>3. \A c \in Clients : Idle(c)'
    BY <1>3 DEF AInv, Idle
  <2>4. ASSUME NEW j \in 1 .. Len(conns), conns'[j].alive
        PROVE  /\ conns[j].alive
               /\ Alive(conns'[j], client[conns[j].client], host', data[conns'[j].peer], wifi, use)
    <3>1. CASE j = k
      <4>1. q.alive
        BY <1>8, <1>9, <1>17, <2>4, <3>1
      <4>2. Alive(r, client[q.client], host', i, wifi, use)
        <5>1. PICK s : s = client[q.client] /\ Alive(q, s, host, i, wifi, use)
          BY <1>15, <4>1
        <5>2. Head(q.up).kind \in Switches /\ Head(q.up) = Switch(i \in host'.mask)
          BY <1>5, <2>1
        <5>3. Alive(r, s, host', i, wifi, use)
          BY <1>3, <1>8, <2>1, <5>1, <5>2, HearsSwitch
        <5> QED BY <5>1, <5>3
      <4> QED BY <1>1, <1>6, <1>8, <1>9, <1>17, <3>1, <4>1, <4>2
    <3>2. CASE j # k
      <4>1. PICK t : t = conns[j] /\ conns'[j] = t
        BY <1>9, <1>17, <3>2 DEF But
      <4>2. PICK s : s = client[t.client] /\ Alive(t, s, host, data[t.peer], wifi, use) /\ t.alive
        BY <2>4, <4>1 DEF AInv, Good
      <4>3. t.host = "open" => data[t.peer] \in Ids /\ data[t.peer] # i
        BY <1>1, <1>3, <1>6, <3>2, <4>1, Place
      <4>4. t.host = "open" => (data[t.peer] \in host'.mask <=> data[t.peer] \in host.mask)
        BY <2>1, <4>3
      <4>5. Settled(host') <=> Settled(host)
        BY <2>1 DEF Settled
      <4>6. t.host = "shaking" /\ "late" \notin use => HostMachine \notin wifi
        BY <4>2 DEF Alive
      <4>7. Alive(t, s, host', data[t.peer], wifi, use)
        BY <2>1, <4>2, <4>4, <4>5, <4>6, Steady
      <4> QED BY <4>1, <4>2, <4>7
    <3> QED BY <3>1, <3>2
  <2>5. \A j \in 1 .. Len(conns) : conns'[j].client = conns[j].client
    BY <1>1, <1>8, <1>9, <1>17 DEF But
  <2> QED BY <1>3, <1>9, <1>17, <2>2, <2>3, <2>4, <2>5, GoodStep
<1> QED BY <1>13, <1>16, <1>17

\* ENET_EVENT_TYPE_CONNECT of one who gets a place.
LEMMA GivenAgrees ==
  ASSUME LanAssumption, AInv, PInv', host.active, NEW k \in 1 .. Len(conns),
         conns[k].host = "shaking", NEW i \in Ids \ {0}, Given(i, k), host'.mask = host.mask,
         data' = [data EXCEPT ![conns[k].peer] = i], UNCHANGED <<use, client, wifi>>,
         conns' = Sent(k, "down", [kind |-> "init", id |-> i], [conns EXCEPT ![k].host = "open"])
  PROVE  AInv'
<1>1. /\ conns \in Seq(Connection) /\ PInv /\ data \in [Peers -> Ids \cup {None}]
      /\ Right /\ Wire(k) /\ Own(k) /\ HostKnows(host, wifi) /\ host \in HostType
  BY DEF AInv, PInv, Typed, Right
<1>2. PICK q \in Connection : q = conns[k] /\ q.host = "shaking"
  BY <1>1
<1>3. PICK o \in Connection : o = [q EXCEPT !.host = "open"]
  BY DEF Connection
<1>4. o.client = q.client /\ o.peer = q.peer /\ o.far = q.far /\ o.alive = q.alive
         /\ o.up = <<>> /\ o.down = <<>> /\ o.host = "open"
  BY <1>1, <1>2, <1>3 DEF Connection, Wire
<1>5. PICK a \in Messages : a = [kind |-> "init", id |-> i] /\ a.kind = "init"
  BY Commands
<1>6. PICK r : r = IF q.alive THEN [o EXCEPT !.down = Append(o.down, a)] ELSE o
  OBVIOUS
<1>7. /\ r.client = q.client /\ r.peer = q.peer /\ r.far = q.far /\ r.alive = q.alive
      /\ r.host = "open" /\ r.up = <<>>
      /\ q.alive => r.down = <<a>>
  <2>1. CASE q.alive
    <3>1. r = [o EXCEPT !.down = Append(o.down, a)]
      BY Zenon, <1>6, <2>1
    <3>2. r.client = o.client /\ r.peer = o.peer /\ r.far = o.far /\ r.alive = o.alive
             /\ r.host = o.host /\ r.up = o.up /\ r.down = Append(o.down, a)
      BY <3>1 DEF Connection
    <3>3. Append(<<>>, a) = <<a>>
      OBVIOUS
    <3>4. r.down = <<a>>
      BY Zenon, <1>4, <3>2, <3>3
    <3> QED BY Zenon, <1>4, <3>2, <3>4
  <2>2. CASE ~q.alive
    BY <1>4, <1>6, <2>2
  <2> QED BY <2>1, <2>2
<1>8. conns' = [conns EXCEPT ![k] = r]
  <2>1. [conns EXCEPT ![k].host = "open"] = [conns EXCEPT ![k] = o]
    BY <1>1, <1>2, <1>3
  <2>2. PICK all : all = [conns EXCEPT ![k] = o]
    OBVIOUS
  <2>3. conns' = Sent(k, "down", a, all) /\ all[k] = o
    BY <1>1, <1>5, <2>1, <2>2
  <2>4. CASE q.alive
    <3>1. conns' = [all EXCEPT ![k]["down"] = Append(@, a)]
      BY <1>4, <2>3, <2>4 DEF Sent
    <3>2. conns' = [all EXCEPT ![k] = [o EXCEPT !.down = Append(o.down, a)]]
      BY <2>3, <3>1
    <3> QED BY <1>1, <1>6, <2>2, <2>4, <3>2
  <2>5. CASE ~q.alive
    BY <1>4, <1>6, <2>2, <2>3, <2>5 DEF Sent
  <2> QED BY <2>4, <2>5
<1>9. /\ Len(conns') = Len(conns) /\ conns'[k] = r
      /\ \A j \in 1 .. Len(conns) : j # k => conns'[j] = conns[j]
  BY <1>1, <1>8, Changed
<1>10. /\ host'.active /\ host.players[i].status = "none"
       /\ host'.players[i].status = "connecting"
       /\ \A j \in Ids : j # i => host'.players[j] = host.players[j]
  BY DEF Given
<1>11. host'.active => HostKnows(host', wifi')
  <2>1. \A j \in Ids : j = i \/ host'.players[j] = host.players[j]
    BY <1>10
  <2>2. \A j \in Ids : host'.players[j].status \in {"none", "connecting", "client", "host"}
    BY <1>1, <1>10, <2>1 DEF HostKnows
  <2>3. \A j \in Ids \ {0} : host'.players[j].status # "host"
    BY <1>1, <1>10, <2>1 DEF HostKnows
  <2>4. \A j \in host'.mask \ {0} : host'.players[j].status # "none"
    <3>1. host.mask \subseteq Ids
      BY <1>1 DEF HostType
    <3> QED BY <1>1, <1>10, <2>1, <3>1 DEF HostKnows
  <2> QED BY <1>1, <2>2, <2>3, <2>4 DEF HostKnows
<1>12. \A c \in Clients : Idle(c)'
  BY DEF AInv, Idle
<1>13. ~Settled(host')
  BY <1>10 DEF Settled
<1>14. ASSUME q.alive PROVE Alive(r, client[q.client], host', i, wifi, use)
  <2>1. PICK s : s = client[q.client] /\ Alive(q, s, host, data[q.peer], wifi, use)
    BY <1>2, <1>14 DEF AInv, Good
  <2>2. q.client \in Clients /\ k = Mine(q.client)
    BY <1>2, <1>14 DEF Connection, AInv, Good
  <2>3. client[q.client] \in ClientType
    BY <1>1, <2>2 DEF PInv, Typed
  <2>4. s.state = "joining"
    <3>1. s.state # "in"
      BY <1>1, <1>2, <2>1, <2>2 DEF Own
    <3> QED BY <2>1, <2>3, <3>1 DEF Alive, ClientType
  <2>5. s.mask = {}
    <3>1. s = [NewClient EXCEPT !.state = "joining"]
      BY <1>1, <2>1, <2>2, <2>4 DEF PInv, Known
    <3> QED BY <3>1 DEF NewClient
  <2>6. r.down = <<a>> /\ r.down \in Seq(Messages) /\ <<>> \in Seq(Messages)
    <3>1. <<a>> \in Seq(Messages) /\ <<>> \in Seq(Messages)
      BY <1>5
    <3> QED BY Zenon, <1>7, <1>14, <3>1
  <2>7. Asked(r, s, host', i)
    BY <1>5, <1>10, <2>4, <2>6 DEF Asked
  <2>8. q.client \notin wifi /\ i \notin host'.mask
    BY <1>1, <1>10, <2>1, <2>2, <2>4 DEF AInv, Idle, HostKnows
  <2>9. Says(r.up, Switches, Switch(i \in host'.mask), Switch(r.client \in wifi))
    <3>1. Switch(i \in host'.mask) = Switch(r.client \in wifi)
      BY <1>7, <2>8 DEF Switch
    <3> QED BY <1>7, <3>1, Silence
  <2>10. ASSUME "late" \notin use
         PROVE  Says(r.down, Switches, Switch(0 \in s.mask), Switch(HostMachine \in wifi))
    <3>1. HostMachine \notin wifi
      BY <1>2, <2>1, <2>10 DEF Alive
    <3>2. Switch(0 \in s.mask) = Switch(HostMachine \in wifi)
      BY <2>5, <3>1 DEF Switch
    <3>3. Says(<<>>, Switches, Switch(0 \in s.mask), Switch(HostMachine \in wifi))
      BY <3>2, Silence
    <3>4. Append(<<>>, a) = <<a>>
      OBVIOUS
    <3>5. r.down = Append(<<>>, a) /\ a.kind \notin Switches /\ a \in Messages
      <4>1. a.kind \notin Switches /\ a \in Messages
        BY <1>5 DEF Switches
      <4> QED BY Zenon, <2>6, <3>4, <4>1
    <3>6. Says(Append(<<>>, a), Switches, Switch(0 \in s.mask), Switch(HostMachine \in wifi))
      BY <2>6, <3>3, <3>5, Saying
    <3> QED BY Zenon, <3>5, <3>6
  <2>11. Linked(r, s, host', i, wifi, use)
    BY <1>13, <2>7, <2>9, <2>10 DEF Linked
  <2>12. r.far # "closed"
    BY <1>7, <2>1 DEF Alive
  <2> QED BY <1>7, <1>10, <2>1, <2>4, <2>11, <2>12 DEF Alive
<1>15. ASSUME NEW j \in 1 .. Len(conns), conns'[j].alive
       PROVE  /\ conns[j].alive
              /\ Alive(conns'[j], client[conns[j].client], host', data'[conns'[j].peer], wifi, use)
  <2>1. CASE j = k
    <3>1. data'[q.peer] = i
      <4>1. q.peer \in Peers
        BY DEF Connection
      <4> QED BY <1>1, <1>2, <4>1
    <3>2. q.alive
      <4>1. r.alive
        BY Zenon, <1>9, <1>15, <2>1
      <4> QED BY Zenon, <1>7, <4>1
    <3>3. conns'[j] = r /\ conns[j] = q /\ r.peer = q.peer
      BY Zenon, <1>2, <1>7, <1>9, <2>1
    <3>4. Alive(r, client[q.client], host', i, wifi, use)
      BY Zenon, <1>14, <3>2
    <3>5. conns'[j] = r /\ data'[conns'[j].peer] = i /\ conns[j].client = q.client
      BY Zenon, <3>1, <3>3
    <3> QED BY <3>2, <3>3, <3>4, <3>5
  <2>2. CASE j # k
    <3>1. PICK t \in Connection : t = conns[j] /\ conns'[j] = t /\ t.alive
      <4>1. j \in 1 .. Len(conns)
        OBVIOUS
      <4>2. conns'[j] = conns[j]
        BY Zenon, <1>9, <2>2, <4>1
      <4>3. conns[j] \in Connection
        BY <1>1, <4>1
      <4> QED BY Zenon, <1>15, <4>2, <4>3
    <3>2. PICK s : s = client[t.client] /\ Alive(t, s, host, data[t.peer], wifi, use)
      BY <3>1 DEF AInv, Good
    <3>3. t.host # "closed" /\ (t.host = "shaking" /\ "late" \notin use => HostMachine \notin wifi)
      BY <3>2 DEF Alive
    <3>4. data'[t.peer] = data[t.peer]
      <4>1. t.peer # q.peer /\ t.peer \in Peers
        BY SMTT(30), <1>1, <1>2, <2>2, <3>1, <3>3 DEF Right, Apart, Connection
      <4> QED BY <1>1, <1>2, <4>1
    <3>5. t.host = "open" => host'.players[data[t.peer]] = host.players[data[t.peer]]
      <4>1. t.host = "open" => data[t.peer] \in Ids /\ host.players[data[t.peer]].status # "none"
        BY <1>1, <3>1, Place
      <4> QED BY <1>10, <4>1
    <3>6. Alive(t, s, host', data[t.peer], wifi, use)
      BY <1>10, <1>13, <3>2, <3>3, <3>5, Steady
    <3> QED BY <3>1, <3>2, <3>4, <3>6
  <2> QED BY <2>1, <2>2
<1>16. \A j \in 1 .. Len(conns) : conns'[j].client = conns[j].client
  BY <1>2, <1>7, <1>9
<1> QED BY <1>9, <1>11, <1>12, <1>15, <1>16, GoodStep

\* ENET_EVENT_TYPE_CONNECT.
LEMMA HostConnectAgrees ==
  ASSUME LanAssumption, AInv, PInv', NEW k \in 1 .. Len(conns), HostConnect(k)
  PROVE  AInv'
<1>1. /\ host.active /\ conns[k].host = "shaking" /\ conns[k].far # "asking"
      /\ UNCHANGED <<use, client, wifi>>
  BY DEF HostConnect
<1>2. /\ PInv /\ Typed /\ Counted(host) /\ host.num \in Nat /\ MaxPlayers \in Nat
      /\ conns \in Seq(Connection)
  BY <1>1, Number DEF AInv, PInv, Right, Typed
<1>3. CASE host.num >= MaxPlayers \/ FreeIds = {}
  <2>1. PICK q \in Connection : q = conns[k]
    BY <1>2
  <2>2. PICK r : r = [q EXCEPT !.host = "closing", !.alive = FALSE, !.down = <<>>]
    OBVIOUS
  <2>3. r.client = q.client /\ ~r.alive
    BY <2>2 DEF Connection
  <2>4. conns' = Refused(k, conns) /\ UNCHANGED <<data, host>>
    BY <1>3 DEF HostConnect
  <2>5. conns' = [conns EXCEPT ![k] = r]
    BY <1>2, <2>1, <2>2, <2>4 DEF Refused
  <2> QED BY <1>1, <1>2, <2>1, <2>3, <2>4, <2>5, Changed, BreakStep
<1>4. CASE ~(host.num >= MaxPlayers \/ FreeIds = {})
  <2>1. host.num < MaxPlayers
    BY <1>2, <1>4
  <2>2. PICK i \in Ids \ {0} : i = Min(FreeIds) /\ host.players[i].status = "none"
    BY <1>2, <2>1, FreeIdIs
  <2>3. /\ host' = [host EXCEPT !.players[i] = [status |-> "connecting", who |-> conns[k].client],
                                !.num = @ + 1, !.remote[i] = k]
        /\ data' = [data EXCEPT ![conns[k].peer] = i]
        /\ conns' = Sent(k, "down", [kind |-> "init", id |-> i], [conns EXCEPT ![k].host = "open"])
    BY <1>4, <2>2 DEF HostConnect
  <2>4. Given(i, k)
    BY <1>1, <1>2, <2>1, <2>2, <2>3, GivenIs
  <2>5. host'.mask = host.mask
    <3>1. host \in HostType
      BY <1>2 DEF Typed
    <3> QED BY <2>3, <3>1 DEF HostType
  <2> QED BY <1>1, <2>3, <2>4, <2>5, GivenAgrees
<1> QED BY <1>3, <1>4

\* Begin and End of the host: everybody who is there is told, and without the option "late"
\* nobody is on the way.
LEMMA HostPlaysAgrees ==
  ASSUME LanAssumption, AInv, PInv', HostBegin \/ HostStop
  PROVE  AInv'
<1>1. /\ conns \in Seq(Connection) /\ host \in HostType /\ host.active /\ PInv
      /\ UNCHANGED <<use, data, client>> /\ HostKnows(host, wifi)
  BY DEF AInv, PInv, Typed, HostBegin, HostStop
<1>2. /\ host'.active /\ host'.players = host.players /\ host'.num = host.num
      /\ \A i : i # 0 => (i \in host'.mask <=> i \in host.mask)
      /\ 0 \in host'.mask <=> HostMachine \in wifi'
      /\ \A b \in Clients : b \in wifi' <=> b \in wifi
      /\ conns' = Broadcast(Switch(HostMachine \in wifi'), conns)
  <2>1. CASE HostBegin
    <3>1. host'.active = host.active /\ host'.players = host.players /\ host'.num = host.num
             /\ host'.mask = host.mask \cup {0} /\ wifi' = wifi \cup {HostMachine}
      BY <1>1, <2>1 DEF HostBegin, HostType
    <3>2. Switch(HostMachine \in wifi') = [kind |-> "begin"]
      BY <3>1 DEF Switch
    <3>3. conns' = Broadcast(Switch(HostMachine \in wifi'), conns)
      BY <2>1, <3>2 DEF HostBegin
    <3> QED BY <1>1, <3>1, <3>3 DEF LanAssumption
  <2>2. CASE HostStop
    <3>1. host'.active = host.active /\ host'.players = host.players /\ host'.num = host.num
             /\ host'.mask = host.mask \ {0} /\ wifi' = wifi \ {HostMachine}
      BY <1>1, <2>2 DEF HostStop, HostType
    <3>2. Switch(HostMachine \in wifi') = [kind |-> "end"]
      BY <3>1 DEF Switch
    <3>3. conns' = Broadcast(Switch(HostMachine \in wifi'), conns)
      BY <2>2, <3>2 DEF HostStop
    <3> QED BY <1>1, <3>1, <3>3 DEF LanAssumption
  <2> QED BY <2>1, <2>2
<1>3. ASSUME "late" \notin use, HostMachine \in wifi', NEW j \in 1 .. Len(conns)
      PROVE  conns[j].host # "shaking"
  <2>1. HostBegin
    BY <1>3 DEF HostStop
  <2> QED BY <1>1, <1>3, <2>1 DEF HostBegin
<1>4. PICK a \in Messages : a = Switch(HostMachine \in wifi')
  BY SwitchIs
<1>5. /\ Len(conns') = Len(conns)
      /\ \A j \in 1 .. Len(conns) :
            /\ conns'[j].client = conns[j].client /\ conns'[j].peer = conns[j].peer
            /\ conns'[j].up = conns[j].up /\ conns'[j].alive = conns[j].alive
            /\ conns'[j].host = conns[j].host /\ conns'[j].far = conns[j].far
            /\ conns'[j].down = Hears(conns[j], a)
  BY <1>1, <1>2, <1>4, BroadcastIs
<1>6. \A c \in Clients : Idle(c)'
  BY <1>1, <1>2 DEF AInv, Idle
<1>7. HostKnows(host', wifi')
  BY <1>1, <1>2 DEF HostKnows
<1>8. ASSUME NEW j \in 1 .. Len(conns), conns'[j].alive
      PROVE  /\ conns[j].alive
             /\ Alive(conns'[j], client[conns[j].client], host', data[conns'[j].peer], wifi', use)
  <2>1. PICK q \in Connection : q = conns[j] /\ q.alive
    BY <1>1, <1>5, <1>8
  <2>2. PICK r : r = conns'[j]
    OBVIOUS
  <2>3. /\ r.client = q.client /\ r.peer = q.peer /\ r.up = q.up /\ r.host = q.host /\ r.far = q.far
        /\ q.host = "open" => r.down = Append(q.down, Switch(HostMachine \in wifi'))
    BY <1>4, <1>5, <2>1, <2>2 DEF Hears
  <2>4. PICK s : s = client[q.client] /\ Alive(q, s, host, data[q.peer], wifi, use)
    BY <2>1 DEF AInv, Good
  <2>5. PICK v : v = wifi'
    OBVIOUS
  <2>6. CASE q.host = "shaking"
    <3>1. "late" \notin use => HostMachine \notin v
      BY <1>3, <2>1, <2>5, <2>6
    <3>2. Alive(r, s, host', data[q.peer], v, use)
      BY <1>2, <2>3, <2>4, <2>6, <3>1, Shaking
    <3> QED BY <2>1, <2>2, <2>3, <2>4, <2>5, <3>2
  <2>7. CASE q.host = "open"
    <3>1. PICK p \in Ids \ {0} : p = data[q.peer]
      BY <1>1, <2>1, <2>7, Place
    <3>2. q.client \in v <=> q.client \in wifi
      <4>1. q.client \in Clients
        BY DEF Connection
      <4> QED BY <1>2, <2>5, <4>1
    <3>3. r.down = Append(q.down, Switch(HostMachine \in v))
      BY <2>3, <2>5, <2>7
    <3>4. p \in host'.mask <=> p \in host.mask
      BY <1>2
    <3>5. Alive(q, s, host, p, wifi, use)
      BY <2>4, <3>1
    <3>6. Alive(r, s, host', p, v, use)
      BY <1>2, <2>3, <2>7, <3>2, <3>3, <3>4, <3>5, TellsSwitch
    <3> QED BY <2>1, <2>2, <2>3, <2>4, <2>5, <3>1, <3>6
  <2> QED BY <2>4, <2>6, <2>7 DEF Alive
<1> QED BY <1>1, <1>5, <1>6, <1>7, <1>8, GoodStep

\* EndSession of the host: no connection is alive.
LEMMA HostLeavesAgrees ==
  ASSUME AInv, PInv', HostLeaves
  PROVE  AInv'
<1>1. /\ UNCHANGED <<use, data, client, wifi>> /\ conns \in Seq(Connection) /\ host \in HostType
      /\ conns' \in Seq(Connection)
  BY DEF HostLeaves, AInv, PInv, Typed
<1>2. PICK n \in Nat : n = Len(conns) /\ DOMAIN conns = 1 .. n
  BY <1>1
<1>3. ASSUME NEW q \in Connection, NEW r,
             r = [q EXCEPT !.alive = FALSE, !.host = "closed", !.up = <<>>]
      PROVE  r.client = q.client /\ ~r.alive
  BY <1>3 DEF Connection
<1>4. DOMAIN conns' = 1 .. n /\ \A k \in 1 .. n :
          conns'[k] = [conns[k] EXCEPT !.alive = FALSE, !.host = "closed", !.up = <<>>]
  BY <1>2 DEF HostLeaves
<1>5. \A k \in 1 .. n : conns'[k].client = conns[k].client /\ ~conns'[k].alive
  <2> TAKE k \in 1 .. n
  <2>1. PICK q \in Connection : q = conns[k]
    BY <1>1, <1>2
  <2>2. PICK r : r = conns'[k]
    OBVIOUS
  <2>3. r = [q EXCEPT !.alive = FALSE, !.host = "closed", !.up = <<>>]
    BY <1>4, <2>1, <2>2
  <2> QED BY <1>3, <2>1, <2>2, <2>3
<1>6. Len(conns') = Len(conns)
  <2>1. Len(conns') \in Nat /\ DOMAIN conns' = 1 .. Len(conns')
    BY <1>1
  <2>2. PICK l \in Nat : l = Len(conns') /\ 1 .. l = 1 .. n
    BY <1>4, <2>1
  <2>3. l = n
    BY <2>2
  <2> QED BY <1>2, <2>2, <2>3
<1>7. ~host'.active
  BY <1>1 DEF HostLeaves, HostType
<1>8. \A c \in Clients : Idle(c)'
  BY <1>1 DEF AInv, Idle
<1> QED BY <1>2, <1>5, <1>6, <1>7, <1>8, GoodStep

-----------------------------------------------------------------------------
(* The invariant, and what it says.                                        *)

LEMMA InitAgrees ==
  ASSUME LanAssumption, Init
  PROVE  AInv
<1>1. PInv
  BY InitHolds
<1>2. 0 \in Ids /\ HostMachine \notin wifi /\ wifi = {}
  BY DEF LanAssumption, Ids, Init
<1>3. PICK f : f = [Empty EXCEPT ![0] = [status |-> "host", who |-> HostMachine]]
  OBVIOUS
<1>4. f[0].status = "host" /\ \A i \in Ids \ {0} : f[i].status = "none"
  BY <1>2, <1>3 DEF Empty
<1>5. host.players = f /\ host.mask = {}
  BY <1>3 DEF Init, NewHost
<1>6. HostKnows(host, wifi)
  BY <1>2, <1>4, <1>5 DEF HostKnows
<1>7. \A c \in Clients : Idle(c)
  BY <1>2 DEF Idle
<1>8. Len(conns) = 0
  BY DEF Init
<1> QED BY <1>1, <1>6, <1>7, <1>8 DEF AInv

LEMMA NextAgrees ==
  ASSUME LanAssumption, AInv, ~mistaken', [Next]_vars
  PROVE  AInv'
<1>1. PInv /\ PInv' /\ conns \in Seq(Connection) /\ DOMAIN conns = 1 .. Len(conns)
  BY NextHolds DEF AInv, PInv, Typed
<1>2. CASE UNCHANGED vars
  <2>1. UNCHANGED <<use, conns, data, host, client, wifi>>
    BY <1>2 DEF vars
  <2> QED BY <1>1, <2>1, BreakStep
<1>3. ASSUME NEW k \in Peers, HostEvent(k) PROVE AInv'
  <2>1. k \in 1 .. Len(conns)
    BY <1>1, <1>3 DEF HostEvent
  <2> QED BY <1>1, <1>3, <2>1, HandshakeFailsAgrees, HostConnectAgrees, HostDisconnectAgrees,
             HostReceiveAgrees DEF HostEvent
<1>4. ASSUME NEW k \in DOMAIN conns, Lose(k) PROVE AInv'
  BY <1>1, <1>4, LoseAgrees
<1>5. CASE HostBegin \/ HostStop
  BY <1>1, <1>5, HostPlaysAgrees
<1>6. CASE HostLeaves
  BY <1>1, <1>6, HostLeavesAgrees
<1>7. ASSUME NEW c \in Clients, ClientEvent(c) PROVE AInv'
  BY <1>1, <1>7, ConnectedAgrees, JoinedAgrees, AbandonedAgrees, ClientReceiveAgrees,
     ClientDisconnectAgrees DEF ClientEvent
<1>8. ASSUME NEW c \in Clients,
             Ask(c) \/ Leave(c) \/ ClientBegin(c) \/ ClientStop(c) \/ HearHost(c)
      PROVE  AInv'
  BY <1>1, <1>8, AskAgrees, AbandonedAgrees, ClientBeginAgrees, ClientStopAgrees, HearHostAgrees
<1> QED BY <1>2, <1>3, <1>4, <1>5, <1>6, <1>7, <1>8 DEF Next

\* A switch tells what it is set to.
LEMMA SwitchTells ==
  ASSUME NEW a, NEW b, NEW i, NEW j, Switch(i \in a) = Switch(j \in b)
  PROVE  i \in a <=> j \in b
<1>1. (i \in a) \in BOOLEAN /\ (j \in b) \in BOOLEAN
  OBVIOUS
<1>2. CASE i \in a
  <2>1. Switch(i \in a).kind = "begin"
    BY <1>2 DEF Switch
  <2>2. j \notin b => Switch(j \in b).kind = "end"
    BY DEF Switch
  <2> QED BY <1>2, <2>1, <2>2
<1>3. CASE i \notin a
  <2>1. Switch(i \in a).kind = "end"
    BY <1>3 DEF Switch
  <2>2. j \in b => Switch(j \in b).kind = "begin"
    BY DEF Switch
  <2> QED BY <1>3, <2>1, <2>2
<1> QED BY <1>2, <1>3

\* When all is quiet a place that is taken belongs to a client that is there, whose connection is
\* open.
LEMMA There ==
  ASSUME LanAssumption, AInv, Quiet, NEW i \in Ids \ {0}, host.players[i].status # "none"
  PROVE  \E k \in 1 .. Len(conns) :
            /\ conns[k].host = "open" /\ conns[k].alive /\ data[conns[k].peer] = i
            /\ conns[k].client \in Clients /\ k = Mine(conns[k].client)
            /\ conns[k].client \in Present /\ host.players[i].who = conns[k].client
            /\ client[conns[k].client].id = i
            /\ host.players[i].status = "client"
            /\ i \in host.mask <=> conns[k].client \in wifi
<1>1. /\ host.active /\ PInv /\ Right /\ conns \in Seq(Connection) /\ HostKnows(host, wifi)
      /\ client \in [Clients -> ClientType]
  BY DEF Quiet, AInv, PInv, Typed
<1>2. PICK k \in 1 .. Len(conns) : conns[k].host = "open" /\ data[conns[k].peer] = i
  BY <1>1 DEF Right, Placed
<1>3. PICK q \in Connection : q = conns[k] /\ q.up = <<>> /\ q.down = <<>> /\ q.alive
  BY <1>1, <1>2 DEF Quiet
<1>4. q.client \in Clients
  BY DEF Connection
<1>5. PICK s \in ClientType : s = client[q.client] /\ s.state # "joining"
  BY <1>1, <1>4 DEF Quiet
<1>6. k = Mine(q.client) /\ Alive(q, s, host, i, wifi, use)
  BY <1>2, <1>3, <1>5 DEF AInv, Good
<1>7. s.state = "in" /\ q.far = "open" /\ Linked(q, s, host, i, wifi, use)
  BY <1>2, <1>3, <1>5, <1>6 DEF Alive, ClientType
<1>8. q.client \in Present
  BY <1>3, <1>4, <1>5, <1>6, <1>7 DEF Present
<1>9. host.players[i].who = q.client /\ s.id = i
  <2>1. Wire(k) /\ Own(k)
    BY <1>1 DEF Right
  <2> QED BY <1>2, <1>3, <1>5, <1>6, <1>7, <2>1 DEF Wire, Own
<1>10. host.players[i].status = "client"
  <2>1. host.players[i].status # "connecting"
    <3>1. Len(q.up) = 0
      BY <1>3
    <3> QED BY <1>5, <1>7, <3>1 DEF Linked, Asked
  <2> QED BY <1>1, <2>1 DEF HostKnows
<1>11. i \in host.mask <=> q.client \in wifi
  <2>1. Switch(i \in host.mask) = Switch(q.client \in wifi)
    BY <1>3, <1>7, Silence DEF Linked
  <2> QED BY <2>1, SwitchTells
<1> QED BY <1>2, <1>3, <1>4, <1>5, <1>6, <1>8, <1>9, <1>10, <1>11

\* And a client that is there has a place, and knows what the host knows.
LEMMA Here ==
  ASSUME LanAssumption, AInv, Quiet, NEW c \in Present
  PROVE  /\ client[c].players = host.players /\ client[c].num = host.num
         /\ client[c].id \in Ids \ {0}
         /\ host.players[client[c].id].status # "none"
         /\ host.players[client[c].id].who = c
<1>1. /\ host.active /\ PInv /\ Right /\ Typed /\ conns \in Seq(Connection)
      /\ DOMAIN conns = 1 .. Len(conns) /\ HostKnows(host, wifi)
  BY DEF Quiet, AInv, PInv, Typed
<1>2. c \in Clients /\ client[c].state = "in" /\ conns[Mine(c)].far = "open"
  BY DEF Present
<1>3. PICK k \in 1 .. Len(conns) : k = Mine(c) /\ conns[k].client = c
  BY <1>1, <1>2, MineIs DEF PInv
<1>4. PICK q \in Connection : /\ q = conns[k] /\ q.up = <<>> /\ q.down = <<>> /\ q.alive
                              /\ q.host \in {"open", "closed"} /\ q.far = "open"
  BY <1>1, <1>2, <1>3 DEF Quiet
<1>5. PICK s : s = client[c] /\ Alive(q, s, host, data[q.peer], wifi, use)
  BY <1>3, <1>4 DEF AInv, Good
<1>6. q.host = "open" /\ Linked(q, s, host, data[q.peer], wifi, use)
  BY <1>4, <1>5 DEF Alive
<1>7. PICK i \in Ids \ {0} : /\ i = data[q.peer] /\ host.players[i].status # "none"
                             /\ host.players[i].who = c
  BY <1>1, <1>3, <1>4, <1>6, Place
<1>8. client[c].id = i
  BY <1>1, <1>2, <1>3, <1>4, <1>6, <1>7 DEF Right, Own
<1>9. Settled(host)
  <2>1. \A j \in Ids \ {0} : host.players[j].status # "connecting"
    BY There
  <2>2. host.players[0].status = "host"
    BY <1>1 DEF Right, Counted
  <2> QED BY <2>1, <2>2 DEF Settled
<1>10. PlayerList(s) = PlayerList(host)
  BY <1>4, <1>6, <1>9, Silence DEF Linked
<1>11. s.players = host.players /\ s.num = host.num
  <2>1. host.num % 256 = host.num
    BY <1>1, Number DEF Right
  <2>2. PICK n \in 0 .. 16 : n = s.num
    BY <1>1, <1>2, <1>5 DEF Typed, ClientType
  <2>3. n % 256 = n
    OBVIOUS
  <2> QED BY <1>10, <2>1, <2>2, <2>3 DEF PlayerList
<1> QED BY <1>5, <1>7, <1>8, <1>11

\* What the runs check of agreement.
LEMMA AgreedFollows ==
  ASSUME LanAssumption, AInv
  PROVE  Agreed
<1>1. ASSUME Quiet PROVE SameList
  <2>1. /\ host.active /\ HostKnows(host, wifi) /\ host.mask \subseteq Ids
        /\ 0 \in Ids
    BY <1>1 DEF Quiet, AInv, PInv, Typed, HostType, LanAssumption, Ids
  <2>2. \A c \in Present : client[c].players = host.players /\ client[c].num = host.num
    BY <1>1, Here
  <2>3. \A i \in Ids \ {0} : host.players[i].status \in {"none", "client"}
    BY <1>1, There
  <2>4. {host.players[i].who : i \in {j \in Ids \ {0} : host.players[j].status # "none"}}
            = Present
    <3>1. \A i \in Ids \ {0} : host.players[i].status # "none" => host.players[i].who \in Present
      BY <1>1, There
    <3>2. \A c \in Present : \E i \in Ids \ {0} :
              host.players[i].status # "none" /\ host.players[i].who = c
      BY <1>1, Here
    <3> QED BY <3>1, <3>2
  <2>5. host.mask = {client[c].id : c \in Present \cap wifi}
                       \cup IF HostMachine \in wifi THEN {0} ELSE {}
    <3> DEFINE Theirs == {client[c].id : c \in Present \cap wifi}
    <3>1. ASSUME NEW i \in Ids \ {0}, i \in host.mask PROVE i \in Theirs
      <4>1. host.players[i].status # "none"
        BY <2>1, <3>1 DEF HostKnows
      <4>2. PICK k \in 1 .. Len(conns) :
                /\ conns[k].client \in Present /\ client[conns[k].client].id = i
                /\ i \in host.mask <=> conns[k].client \in wifi
        BY <1>1, <4>1, There
      <4> QED BY <3>1, <4>2
    <3>2. ASSUME NEW c \in Present, c \in wifi
          PROVE  client[c].id \in host.mask /\ client[c].id # 0
      <4>1. PICK i \in Ids \ {0} : /\ i = client[c].id /\ host.players[i].status # "none"
                                   /\ host.players[i].who = c
        BY <1>1, Here
      <4>2. PICK k \in 1 .. Len(conns) :
                /\ host.players[i].who = conns[k].client
                /\ i \in host.mask <=> conns[k].client \in wifi
        BY <1>1, <4>1, There
      <4> QED BY <3>2, <4>1, <4>2
    <3>3. \A i \in Theirs : i \in host.mask /\ i # 0
      BY <3>2
    <3>4. 0 \in host.mask <=> HostMachine \in wifi
      BY <2>1 DEF HostKnows
    <3>5. \A i \in host.mask : i = 0 \/ i \in Theirs
      BY <2>1, <3>1
    <3> HIDE DEF Theirs
    <3>6. host.mask = Theirs \cup IF HostMachine \in wifi THEN {0} ELSE {}
      BY <3>3, <3>4, <3>5
    <3> QED BY <3>6 DEF Theirs
  <2> QED BY <2>2, <2>3, <2>4, <2>5 DEF SameList
<1>2. ASSUME "late" \notin use PROVE GoneWhenGone
  <2> SUFFICES ASSUME NEW c \in Clients, client[c].state = "in", client[c].last # None,
                      client[c].last \notin client[c].mask, HostMachine \in wifi,
                      conns[Mine(c)].alive, conns[Mine(c)].down = <<>>
               PROVE  FALSE
    BY DEF GoneWhenGone
  <2>1. Typed /\ PInv /\ conns \in Seq(Connection) /\ client[c] \in ClientType
    BY DEF AInv, PInv, Typed
  <2>2. PICK k \in 1 .. Len(conns) : k = Mine(c) /\ conns[k].client = c
    BY <2>1, MineIs DEF PInv
  <2>3. PICK q \in Connection : q = conns[k] /\ q.alive /\ q.down = <<>>
    BY <2>1, <2>2
  <2>4. PICK s : s = client[c] /\ Alive(q, s, host, data[q.peer], wifi, use)
    BY <2>2, <2>3 DEF AInv, Good
  <2>5. Linked(q, s, host, data[q.peer], wifi, use)
    BY <1>2, <2>4 DEF Alive
  <2>6. 0 \notin s.mask
    BY <2>1, <2>4 DEF ClientType
  <2>7. Switch(0 \in s.mask) = Switch(HostMachine \in wifi)
    BY <1>2, <2>3, <2>5, Silence DEF Linked
  <2> QED BY <2>6, <2>7, SwitchTells
<1> QED BY <1>1, <1>2 DEF Agreed

\* When all has been said and heard, the host's list is everybody's and its mask is of those who
\* play (HostUpdatePlayerList, ConnectedBitmask), and a host that plays is not taken for one that
\* has gone (RecvHostPacket) by whoever joined before it began: for every number of clients, places
\* and connections and all options, whatever is under way, until the end of a connection that was
\* refused takes a player's place.
THEOREM AgreementHolds ==
  ASSUME LanAssumption
  PROVE  Spec => []Agreed
<1>1. Init => mistaken \/ AInv
  BY InitAgrees
<1>2. (mistaken \/ AInv) /\ [Next]_vars => (mistaken \/ AInv)'
  BY NextAgrees, Mistaken
<1>3. mistaken \/ AInv => Agreed
  BY AgreedFollows DEF Agreed
<1> QED BY <1>1, <1>2, <1>3, PTL DEF Spec

=============================================================================
