---------------------------------- MODULE Lan ----------------------------------
(***************************************************************************)
(* A LAN session (net/LAN.cpp): players join a host, are given a number,   *)
(* tell each other through the host who has wireless communication on, and *)
(* leave, without a word, or are cut off.  ENet carries the commands of a  *)
(* connection reliably and in order; when the other end is gone it says so *)
(* some time later.  A connection between two clients never comes about:   *)
(* StartClient makes a host others cannot connect to.  Names, addresses,   *)
(* pings, the beacons by which sessions are found and multiplayer frames   *)
(* are left out, but for what a frame tells about who is host.             *)
(***************************************************************************)
EXTENDS Integers, Sequences, FiniteSets, SequencesExt, FiniteSetsExt

CONSTANTS Clients,     \* machines other than the host's
          HostMachine,
          MaxPlayers,  \* players of the session, at most 16 in the code
          MaxAsks,     \* bound: connections that are asked for
          MaxQueue,    \* bound: commands under way at which players leave their switches alone
          Uses,        \* what may happen, see Options
          None

\* The network fails; players come back; games are played, and the host's begins before
\* everybody is there; the host leaves.
Options == {"lose", "back", "play", "late", "over"}

ASSUME LanAssumption ==
    /\ HostMachine \notin Clients
    /\ MaxPlayers \in 1 .. 16 /\ MaxAsks \in Nat /\ MaxQueue \in Nat
    /\ Uses \subseteq SUBSET Options
    /\ None \notin Nat

Ids   == 0 .. MaxPlayers - 1
Peers == 1 .. MaxAsks

VARIABLES
    use,
    conns,   \* connections, in the order they were asked for, see Connection
    data,    \* event.peer->data of the host's peers: a place in Players, or of one who had it
    host,    \* the host's LAN object
    client,  \* the clients' LAN objects
    wifi,    \* whose game has the wireless hardware on
    mistaken \* not in the code: whether one who was refused has cost a player the place

vars == <<use, conns, data, host, client, wifi, mistaken>>

Machines == Clients \cup {HostMachine}
Statuses == {"none", "client", "host", "connecting", "disconnected"}
PlayerLists == [Ids -> [status : Statuses, who : Machines \cup {None}]]

Messages ==
    [kind : {"init", "info"}, id : Ids]
        \cup [kind : {"list"}, players : PlayerLists, num : 0 .. 255]
        \cup [kind : {"begin", "end"}]

\* Both ends' ENetPeer: up to the host, down to the client.
Connection ==
    [client : Clients, peer : Peers,
     up : Seq(Messages), down : Seq(Messages),
     alive : BOOLEAN,                             \* both ends are there and connected
     host : {"shaking", "open", "closing", "closed"},
     far : {"asking", "open", "closed"}]          \* the client's end

Empty == [i \in Ids |-> [status |-> "none", who |-> None]]

\* Players, NumPlayers, ConnectedBitmask, RemotePeers.
NewHost ==
    [active |-> TRUE, num |-> 1, mask |-> {},
     players |-> [Empty EXCEPT ![0] = [status |-> "host", who |-> HostMachine]],
     remote |-> [i \in Ids |-> None]]

\* MyPlayer.ID, Players, NumPlayers, ConnectedBitmask, LastHostID.
NewClient ==
    [state |-> "out", id |-> 0, players |-> Empty, num |-> 0, mask |-> {}, last |-> None]

Init ==
    /\ use \in Uses
    /\ conns = <<>>
    /\ data = [p \in Peers |-> None]
    /\ host = NewHost
    /\ client = [c \in Clients |-> NewClient]
    /\ wifi = {}
    /\ mistaken = FALSE

-----------------------------------------------------------------------------
(* ENet. *)

\* A command to an end that has gone is lost.
Sent(k, way, message, all) ==
    IF all[k].alive THEN [all EXCEPT ![k][way] = Append(@, message)] ELSE all

\* enet_host_broadcast, of the host.
Broadcast(message, all) ==
    [k \in DOMAIN all |->
        IF all[k].host = "open" /\ all[k].alive
        THEN [all[k] EXCEPT !.down = Append(@, message)] ELSE all[k]]

FreePeer == Min(Peers \ {conns[k].peer : k \in {j \in DOMAIN conns : conns[j].host # "closed"}})

\* A client leaves its end.  The host learns of it in time, unless the client never
\* answered the host.
Abandoned(k) ==
    [conns EXCEPT ![k].alive = FALSE, ![k].far = "closed", ![k].down = <<>>,
                  ![k].host = IF conns[k].far = "asking" THEN "closed" ELSE @]

\* The network fails.
Lose(k) ==
    /\ "lose" \in use
    /\ conns[k].alive
    /\ conns' = [conns EXCEPT ![k].alive = FALSE]
    /\ UNCHANGED <<use, data, host, client, wifi, mistaken>>

\* The client's answer was its last word, or was lost.
HandshakeFails(k) ==
    /\ conns[k].host = "shaking" /\ ~conns[k].alive
    /\ conns' = [conns EXCEPT ![k].host = "closed", ![k].up = <<>>]
    /\ UNCHANGED <<use, data, host, client, wifi, mistaken>>

-----------------------------------------------------------------------------
(* The host (ProcessHostEvent). *)

\* The ID of the player a peer's data points to: that of an entry given up is 0.
IdAt(place) == IF host.players[place].status = "none" THEN 0 ELSE place

\* HostUpdatePlayerList, after a change of Players and NumPlayers.
\* The number is sent as a byte.
PlayerListBehind(h) == [kind |-> "list", players |-> h.players, num |-> (h.num - 1) % 256]
PlayerList(h) == [kind |-> "list", players |-> h.players, num |-> h.num % 256]

\* The places at which the search for one ends: free, or not among the first NumPlayers.
FreeIdsBehind == {i \in Ids : i >= host.num}
FreeIds == {i \in Ids : i >= host.num \/ host.players[i].status = "none"}

\* enet_peer_disconnect of the host; what is under way to the client is dropped.
Refused(k, all) ==
    [all EXCEPT ![k] = [@ EXCEPT !.host = "closing", !.alive = FALSE, !.down = <<>>]]

\* ENET_EVENT_TYPE_CONNECT.
HostConnect(k) ==
    /\ host.active
    /\ conns[k].host = "shaking" /\ conns[k].far # "asking"
    /\ IF host.num >= MaxPlayers \/ FreeIds = {}
       THEN /\ conns' = Refused(k, conns)
            /\ UNCHANGED <<data, host>>
       ELSE LET id == Min(FreeIds)
                player == [status |-> "connecting", who |-> conns[k].client]
            IN  /\ host' = [host EXCEPT !.players[id] = player, !.num = @ + 1, !.remote[id] = k]
                /\ data' = [data EXCEPT ![conns[k].peer] = id]
                /\ conns' = Sent(k, "down", [kind |-> "init", id |-> id],
                                 [conns EXCEPT ![k].host = "open"])
    /\ UNCHANGED <<use, client, wifi, mistaken>>

\* What is forgotten of a player.
WithoutPlaying(place) ==
    [host EXCEPT !.remote[IdAt(place)] = None, !.players[place].status = "none", !.num = @ - 1]
WithoutCounting(place) ==
    [host EXCEPT !.mask = @ \ {IdAt(place)}, !.remote[IdAt(place)] = None,
                 !.players[place].status = "none"]
Without(place) ==
    [host EXCEPT !.mask = @ \ {IdAt(place)}, !.remote[IdAt(place)] = None,
                 !.players[place].status = "none", !.num = @ - 1]

\* ENET_EVENT_TYPE_DISCONNECT: of a player, or of one who was refused.  The data of a peer are
\* set when a player gets a place and never cleared, and ENet uses peers again: the end of a
\* connection that was refused may take the player who has the place now off the list.
HostDisconnect(k) ==
    /\ host.active
    /\ conns[k].host \in {"open", "closing"} /\ ~conns[k].alive
    /\ LET place == data[conns[k].peer]
           closed == [conns EXCEPT ![k].host = "closed", ![k].up = <<>>]
       IN  /\ IF place = None
              THEN conns' = closed /\ UNCHANGED host
              ELSE /\ host' = Without(place)
                   /\ conns' = Broadcast(PlayerList(host'), closed)
           /\ mistaken' = (mistaken \/ (place # None /\ conns[k].host = "closing"))
    /\ UNCHANGED <<use, data, client, wifi>>

\* Cmd_PlayerInfo: who was promised a place has come.
ComeTwice(place, player) == [host EXCEPT !.players[place] = player, !.num = @ + 1]
Come(place, player) == [host EXCEPT !.players[place] = player]

\* ENET_EVENT_TYPE_RECEIVE.
HostReceive(k) ==
    /\ host.active
    /\ conns[k].host = "open" /\ conns[k].up # <<>>
    /\ LET m == Head(conns[k].up)
           place == data[conns[k].peer]
           rest == [conns EXCEPT ![k].up = Tail(@)]
           player == [status |-> "client", who |-> conns[k].client]
       IN  \/ /\ m.kind = "info"
              /\ IF m.id # IdAt(place)
                 THEN conns' = Refused(k, rest) /\ UNCHANGED host
                 ELSE /\ host' = Come(place, player)
                      /\ conns' = Broadcast(PlayerList(host'), rest)
           \/ /\ m.kind = "begin"
              /\ host' = [host EXCEPT !.mask = @ \cup {IdAt(place)}]
              /\ conns' = rest
           \/ /\ m.kind = "end"
              /\ host' = [host EXCEPT !.mask = @ \ {IdAt(place)}]
              /\ conns' = rest
    /\ UNCHANGED <<use, data, client, wifi, mistaken>>

\* The game switches the wireless hardware (Begin, End).  Without the option "late" the
\* host waits until everybody is there.
HostBegin ==
    /\ "play" \in use
    /\ host.active /\ HostMachine \notin wifi
    /\ "late" \notin use => \A k \in DOMAIN conns : conns[k].host # "shaking"
    /\ \A k \in DOMAIN conns : Len(conns[k].down) < MaxQueue
    /\ wifi' = wifi \cup {HostMachine}
    /\ host' = [host EXCEPT !.mask = @ \cup {0}]
    /\ conns' = Broadcast([kind |-> "begin"], conns)
    /\ UNCHANGED <<use, data, client, mistaken>>

HostStop ==
    /\ host.active /\ HostMachine \in wifi
    /\ wifi' = wifi \ {HostMachine}
    /\ host' = [host EXCEPT !.mask = @ \ {0}]
    /\ conns' = Broadcast([kind |-> "end"], conns)
    /\ UNCHANGED <<use, data, client, mistaken>>

\* EndSession.
HostLeaves ==
    /\ "over" \in use /\ host.active
    /\ host' = [host EXCEPT !.active = FALSE, !.remote = [i \in Ids |-> None]]
    /\ conns' = [k \in DOMAIN conns |->
                    [conns[k] EXCEPT !.alive = FALSE, !.host = "closed", !.up = <<>>]]
    /\ UNCHANGED <<use, data, client, wifi, mistaken>>

-----------------------------------------------------------------------------
(* The clients. *)

\* The connection a client asked for last.
Mine(c) == Max({k \in DOMAIN conns : conns[k].client = c})

\* StartClient.  Without the option "late" nobody joins a host that has begun.
Ask(c) ==
    /\ Len(conns) < MaxAsks
    /\ client[c].state = "out" /\ c \notin wifi
    /\ "back" \notin use => \A k \in DOMAIN conns : conns[k].client # c
    /\ host.active /\ ("late" \notin use => HostMachine \notin wifi)
    /\ conns' = Append(conns, [client |-> c, peer |-> FreePeer, up |-> <<>>, down |-> <<>>,
                               alive |-> TRUE, host |-> "shaking", far |-> "asking"])
    /\ client' = [client EXCEPT ![c].state = "joining"]
    /\ UNCHANGED <<use, data, host, wifi, mistaken>>

\* ENET_EVENT_TYPE_CONNECT, in StartClient.
Connected(c) ==
    /\ client[c].state = "joining"
    /\ conns[Mine(c)].far = "asking" /\ conns[Mine(c)].alive
    /\ conns' = [conns EXCEPT ![Mine(c)].far = "open"]
    /\ UNCHANGED <<use, data, host, client, wifi, mistaken>>

\* Cmd_ClientInit; StartClient ignores other commands.
Joined(c) ==
    LET k == Mine(c)
        m == Head(conns[k].down)
        rest == [conns EXCEPT ![k].down = Tail(@)]
    IN  /\ client[c].state = "joining"
        /\ conns[k].far = "open" /\ conns[k].down # <<>>
        /\ IF m.kind = "init"
           THEN /\ client' = [client EXCEPT ![c].state = "in", ![c].id = m.id]
                /\ conns' = Sent(k, "up", [kind |-> "info", id |-> m.id], rest)
           ELSE conns' = rest /\ UNCHANGED client
        /\ UNCHANGED <<use, data, host, wifi, mistaken>>

GiveUpHanging(c) ==
    /\ client[c].state = "joining"
    /\ client' = [client EXCEPT ![c] = NewClient]
    /\ UNCHANGED <<use, conns, data, host, wifi, mistaken>>

\* ENET_EVENT_TYPE_DISCONNECT, or five seconds are over: StartClient fails.
GiveUp(c) ==
    /\ client[c].state = "joining"
    /\ client' = [client EXCEPT ![c] = NewClient]
    /\ conns' = Abandoned(Mine(c))
    /\ UNCHANGED <<use, data, host, wifi, mistaken>>

\* ENET_EVENT_TYPE_RECEIVE (ProcessClientEvent).  The peer's data is Players[0]; a list of more
\* than 16 is ignored.
ClientReceive(c) ==
    LET k == Mine(c)
        m == Head(conns[k].down)
    IN  /\ client[c].state = "in"
        /\ conns[k].far = "open" /\ conns[k].down # <<>>
        /\ \/ /\ m.kind = "list" /\ m.num <= 16
              /\ client' = [client EXCEPT ![c].players = m.players, ![c].num = m.num]
           \/ /\ m.kind = "list" /\ m.num > 16
              /\ UNCHANGED client
           \/ /\ m.kind = "begin"
              /\ client' = [client EXCEPT ![c].mask = @ \cup {0}]
           \/ /\ m.kind = "end"
              /\ client' = [client EXCEPT ![c].mask = @ \ {0}]
        /\ conns' = [conns EXCEPT ![k].down = Tail(@)]
        /\ UNCHANGED <<use, data, host, wifi, mistaken>>

\* ENET_EVENT_TYPE_DISCONNECT.
ClientDisconnect(c) ==
    /\ client[c].state = "in"
    /\ conns[Mine(c)].far = "open" /\ ~conns[Mine(c)].alive
    /\ client' = [client EXCEPT ![c].mask = @ \ {0}, ![c].players[0].status = "disconnected"]
    /\ conns' = [conns EXCEPT ![Mine(c)].far = "closed", ![Mine(c)].down = <<>>]
    /\ UNCHANGED <<use, data, host, wifi, mistaken>>

\* EndSession; the dialog throws the LAN object away.
Leave(c) ==
    /\ client[c].state = "in"
    /\ client' = [client EXCEPT ![c] = NewClient]
    /\ conns' = Abandoned(Mine(c))
    /\ UNCHANGED <<use, data, host, wifi, mistaken>>

\* Begin and End.  A client begins when it has joined, and out of the session nobody
\* hears that it stops.
ClientBegin(c) ==
    /\ "play" \in use
    /\ client[c].state = "in" /\ c \notin wifi
    /\ Len(conns[Mine(c)].up) < MaxQueue
    /\ wifi' = wifi \cup {c}
    /\ client' = [client EXCEPT ![c].mask = @ \cup {client[c].id}, ![c].last = None]
    /\ conns' = IF conns[Mine(c)].far = "open"
                THEN Sent(Mine(c), "up", [kind |-> "begin"], conns) ELSE conns
    /\ UNCHANGED <<use, data, host, mistaken>>

ClientStop(c) ==
    /\ client[c].state # "joining" /\ c \in wifi
    /\ wifi' = wifi \ {c}
    /\ IF client[c].state = "out" THEN UNCHANGED <<client, conns>>
       ELSE /\ client' = [client EXCEPT ![c].mask = @ \ {client[c].id}]
            /\ conns' = IF conns[Mine(c)].far = "open"
                        THEN Sent(Mine(c), "up", [kind |-> "end"], conns) ELSE conns
    /\ UNCHANGED <<use, data, host, mistaken>>

\* A multiplayer command of the host arrives (RecvPacketGeneric).
HearHost(c) ==
    /\ client[c].state = "in" /\ {c, HostMachine} \subseteq wifi
    /\ conns[Mine(c)].alive
    /\ client' = [client EXCEPT ![c].last = 0]
    /\ UNCHANGED <<use, conns, data, host, wifi, mistaken>>

-----------------------------------------------------------------------------
HostEvent(k) ==
    /\ k \in DOMAIN conns
    /\ HandshakeFails(k) \/ HostConnect(k) \/ HostDisconnect(k) \/ HostReceive(k)

ClientEvent(c) ==
    Connected(c) \/ Joined(c) \/ GiveUp(c) \/ ClientReceive(c) \/ ClientDisconnect(c)

Next ==
    \/ \E k \in Peers : HostEvent(k)
    \/ \E k \in DOMAIN conns : Lose(k)
    \/ HostBegin \/ HostStop \/ HostLeaves
    \/ \E c \in Clients :
           ClientEvent(c) \/ Ask(c) \/ Leave(c) \/ ClientBegin(c) \/ ClientStop(c) \/ HearHost(c)

\* Both sides handle what arrives once a frame, and ENet reports an end that is gone.
Spec == /\ Init /\ [][Next]_vars
        /\ \A k \in Peers : WF_vars(HostEvent(k))
        /\ \A c \in Clients : WF_vars(ClientEvent(c))

-----------------------------------------------------------------------------
\* Type invariant.
TypeOK ==
    /\ use \in Uses
    /\ Len(conns) <= MaxAsks
    /\ \A k \in DOMAIN conns :
           /\ [conns[k] EXCEPT !.up = <<>>, !.down = <<>>] \in
                  [client : Clients, peer : Peers, up : {<<>>}, down : {<<>>}, alive : BOOLEAN,
                   host : {"shaking", "open", "closing", "closed"},
                   far : {"asking", "open", "closed"}]
           /\ \A m \in Range(conns[k].up) \cup Range(conns[k].down) : m \in Messages
    /\ data \in [Peers -> Ids \cup {None}]
    /\ host.players \in PlayerLists /\ host.num \in Int /\ host.num <= MaxPlayers
    /\ host.mask \subseteq Ids /\ host.remote \in [Ids -> Peers \cup {None}]
    /\ \A c \in Clients :
           /\ client[c].state \in {"out", "joining", "in"} /\ client[c].id \in Ids
           /\ client[c].players \in PlayerLists /\ client[c].num \in 0 .. 16
           /\ client[c].mask \subseteq Ids /\ client[c].last \in {0, None}
    /\ wifi \subseteq Machines /\ mistaken \in BOOLEAN

Places ==
    host.active =>
        /\ host.num = Cardinality({i \in Ids : host.players[i].status # "none"})
        /\ \A i \in Ids \ {0} :
               IF host.players[i].status = "none" THEN host.remote[i] = None
               ELSE /\ host.remote[i] \in DOMAIN conns
                    /\ conns[host.remote[i]].host = "open"
                    /\ data[conns[host.remote[i]].peer] = i
                    /\ host.players[i].who = conns[host.remote[i]].client
        /\ \A k \in DOMAIN conns :
               conns[k].host = "open" =>
                   /\ host.remote[data[conns[k].peer]] = k
                   /\ LET c == conns[k].client
                      IN  k = Mine(c) /\ client[c].state = "in" =>
                              client[c].id = data[conns[k].peer]

\* The host counts its players, and has for each client a connection of its own whose
\* data and whose client's number are the player's place, whoever left, was cut off,
\* was refused and came back in between: until the end of a connection that was refused
\* (ProcessHostEvent) takes a player's place, and by nothing but that.
PlacesRight == mistaken \/ Places

\* Everything said has been heard, and everybody who has gone is known to have.
Quiet ==
    /\ host.active
    /\ \A k \in DOMAIN conns :
           /\ conns[k].up = <<>> /\ conns[k].down = <<>>
           /\ conns[k].host \in {"open", "closed"}
           /\ conns[k].host = "open" \/ conns[k].far = "open" => conns[k].alive
    /\ \A c \in Clients : client[c].state # "joining"

Present == {c \in Clients : client[c].state = "in" /\ conns[Mine(c)].far = "open"}

\* The host's list is everybody's, they are in it, and the host's mask is of those who play.
SameList ==
    /\ \A c \in Present : client[c].players = host.players /\ client[c].num = host.num
    /\ \A i \in Ids \ {0} : host.players[i].status \in {"none", "client"}
    /\ {host.players[i].who : i \in {j \in Ids \ {0} : host.players[j].status # "none"}}
           = Present
    /\ host.mask = {client[c].id : c \in Present \cap wifi}
                       \cup IF HostMachine \in wifi THEN {0} ELSE {}

\* RecvHostPacket says the host is gone only when it has stopped, or its connection has
\* failed, or its word that it has begun again is on its way.
GoneWhenGone ==
    \A c \in Clients :
        client[c].state = "in" /\ client[c].last # None /\ client[c].last \notin client[c].mask =>
            \/ HostMachine \notin wifi
            \/ ~conns[Mine(c)].alive
            \/ conns[Mine(c)].down # <<>>

\* When all has been said and heard, the machines agree on who is there and who plays
\* (HostUpdatePlayerList, ConnectedBitmask), and at no time is a host that plays taken
\* for one that has gone.  The second is not so of who joins a host that has begun:
\* nobody tells them (GoneWhenGone under the option "late").  Both hold until one who was
\* refused costs a player the place.
Agreed == mistaken \/ ((Quiet => SameList) /\ ("late" \notin use => GoneWhenGone))

\* A place is not kept for one who never comes, and not for one who has gone: whoever
\* was promised a place in ProcessHostEvent becomes a player or leaves it, and of a
\* connection that has broken the host forgets the peer.
Settles ==
    /\ \A i \in Ids \ {0} : host.players[i].status = "connecting"
                          ~> host.players[i].status # "connecting" \/ ~host.active
    /\ \A k \in Peers : (k \in DOMAIN conns /\ ~conns[k].alive /\ host.active)
                            ~> (~host.active \/ \A i \in Ids : host.remote[i] # k)
=============================================================================
