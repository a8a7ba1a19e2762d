------------------------------ MODULE NetPosts ------------------------------
(***************************************************************************)
(* Where a message of Ext.Net goes: the prelude's PostMessageToUser,        *)
(* BroadcastMessage and PostMessageToServer, the net channels that choose   *)
(* its form, and the routing of src/src/net.cpp they end in.  A message for *)
(* this machine goes to the other Lua state; one for another goes to its    *)
(* peer, when that said hello.  A channel writes its payload in the binary  *)
(* form when every peer known reads it, and the message says which it is.   *)
(*                                                                         *)
(* The scripts run beside the peer's own thread, which takes hellos and     *)
(* connections, so each read of what the peers said is a step of its own,   *)
(* and so is each send.  Payloads are left out but for whether they fit.  A *)
(* copy is what was handed to the engine for a peer, or to the other state; *)
(* the peer that sends is one the extender is in (NetWire).                 *)
(***************************************************************************)
EXTENDS Naturals, FiniteSets

CONSTANTS RemotePeers,    (* peers on other machines                         *)
          OwnPeer,        (* the peer of the host's own client               *)
          NoOne,          (* no peer                                         *)
          MaxRouted,      (* bound: messages posted by the server            *)
          MaxPeerChanges  (* bound: hellos, connections and switches         *)

AllPeers == RemotePeers \cup {OwnPeer}
ASSUME NetPostsAssumption ==
    /\ OwnPeer \notin RemotePeers /\ NoOne \notin AllPeers
    /\ MaxRouted \in Nat /\ MaxPeerChanges \in Nat

kVersionInitial == 1
kVersionCurrent == 2
Unknown == 0

VARIABLES
    versions,   (* g_peer_versions, Unknown for a peer that is not in it     *)
    active,     (* the game server's list of active peers                    *)
    forced,     (* g_force_remote                                            *)
    greeting,   (* the host's own client was sent a hello                    *)
    host,       (* the client's side: who it is told is its server           *)
    post,       (* the server's message under way                            *)
    copies,     (* the copies each machine was sent of it                    *)
    toServer,   (* the client's last message                                 *)
    steady,     (* history: the peers of which nothing changed since it was  *)
                (* begun                                                     *)
    raced,      (* history: what peers read changed between its two looks    *)
    unforced,   (* history: the switch was off since it was begun            *)
    routedCount, peerChanges

routeVars == <<versions, active, forced, greeting, host, post, copies, toServer, steady,
               raced, unforced, routedCount, peerChanges>>
routeHistory == <<steady, raced, unforced>>

Known == {p \in AllPeers : versions[p] # Unknown}
NoPost == [at |-> "idle"]

RouteInit ==
    /\ versions = [p \in AllPeers |-> Unknown] /\ active = AllPeers
    /\ forced = FALSE /\ greeting = FALSE
    /\ host = [hosting |-> FALSE, running |-> FALSE, connected |-> FALSE, version |-> Unknown]
    /\ post = NoPost /\ copies = [p \in AllPeers |-> 0]
    /\ toServer = NoPost /\ routedCount = 0 /\ peerChanges = 0
    /\ steady = AllPeers /\ raced = FALSE /\ unforced = TRUE

(* server_shared_version: the lowest of the peers known.                     *)
SharedVersion == IF \E p \in Known : versions[p] = kVersionInitial THEN kVersionInitial
                 ELSE kVersionCurrent

(* The local peer as l_net_info says it and server_broadcast takes it.      *)
LocalPeer == IF forced THEN NoOne ELSE OwnPeer

-----------------------------------------------------------------------------
(* NetChannel:DoSendToClient, NetChannel:Broadcast: the payload's form, and *)
(* with a second look whether it is said to be binary.                      *)
Stringify ==
    /\ post.at = "idle" /\ routedCount < MaxRouted
    /\ \E to \in AllPeers \cup {NoOne}, exclude \in AllPeers \cup {NoOne} :
          /\ to # NoOne => exclude = NoOne
          /\ post' = [at |-> "flag", to |-> to, exclude |-> exclude,
                      form |-> SharedVersion]
    /\ routedCount' = routedCount + 1
    /\ copies' = [p \in AllPeers |-> 0]
    /\ steady' = AllPeers /\ raced' = FALSE /\ unforced' = ~forced
    /\ UNCHANGED <<versions, active, forced, greeting, host, toServer, peerChanges>>

IsBinary ==
    /\ post.at = "flag"
    /\ post' = [at |-> "local", to |-> post.to, exclude |-> post.exclude, form |-> post.form,
                says |-> SharedVersion]
    /\ UNCHANGED <<versions, active, forced, greeting, host, copies, toServer, routeHistory,
                   routedCount, peerChanges>>

(* net_fits drops a payload that is too long; post_to_user and              *)
(* BroadcastMessage hand what is for this machine to its other state.       *)
ForThisMachine == IF post.to = NoOne THEN post.exclude = NoOne \/ post.exclude # LocalPeer
                                     ELSE post.to = LocalPeer
PostToOtherContext ==
    /\ post.at = "local"
    /\ \/ post' = NoPost /\ UNCHANGED copies
       \/ /\ IF ForThisMachine THEN copies' = [copies EXCEPT ![OwnPeer] = @ + 1]
                               ELSE UNCHANGED copies
          /\ post' = IF ForThisMachine /\ post.to # NoOne THEN [post EXCEPT !.at = "done"]
                                                         ELSE [post EXCEPT !.at = "find"]
    /\ UNCHANGED <<versions, active, forced, greeting, host, toServer, routeHistory, routedCount,
                   peerChanges>>

(* server_send, server_broadcast: looked up under g_mutex.                  *)
\* Mutant: the local peer is sent to as well.
BroadcastToKnown == Known \ {post.exclude}
BroadcastPeers == {p \in Known : p # LocalPeer /\ p # post.exclude}
LookUp ==
    /\ post.at = "find"
    /\ post' = [at |-> "send", to |-> post.to, exclude |-> post.exclude, form |-> post.form,
                says |-> post.says,
                left |-> IF post.to = NoOne THEN BroadcastPeers ELSE {post.to} \cap Known]
    /\ UNCHANGED <<versions, active, forced, greeting, host, copies, toServer, routeHistory,
                   routedCount, peerChanges>>

(* send_to_peer, for each, after it is released: a broadcast asks the list  *)
(* of active peers first, a message to one peer does not.                   *)
SendOne ==
    /\ post.at = "send"
    /\ \/ post.left = {} /\ post' = [post EXCEPT !.at = "done"] /\ UNCHANGED copies
       \/ \E p \in post.left :
             /\ post' = [post EXCEPT !.left = @ \ {p}]
             /\ IF post.to = NoOne => p \in active
                THEN copies' = [copies EXCEPT ![p] = @ + 1] ELSE UNCHANGED copies
    /\ UNCHANGED <<versions, active, forced, greeting, host, toServer, routeHistory, routedCount,
                   peerChanges>>

NextMessage ==
    /\ post.at = "done" /\ post' = NoPost
    /\ UNCHANGED <<versions, active, forced, greeting, host, copies, toServer, routeHistory,
                   routedCount, peerChanges>>

-----------------------------------------------------------------------------
(* What the peers' thread and the engine do meanwhile.                      *)
PeersChange ==
    /\ peerChanges < MaxPeerChanges /\ peerChanges' = peerChanges + 1
    /\ UNCHANGED <<post, copies, toServer, routedCount>>

(* Of p something changed, while a message was under way.                   *)
Unsettles(p) ==
    /\ steady' = steady \ {p}
    /\ raced' = (raced \/ (post.at = "flag" /\ versions' # versions))
    /\ UNCHANGED unforced

Hello(p) ==          (* handle_extender: its version is what it says        *)
    /\ PeersChange
    /\ p \in active /\ (p = OwnPeer => greeting)
    /\ \E v \in {kVersionInitial, kVersionCurrent} : versions' = [versions EXCEPT ![p] = v]
    /\ Unsettles(p)
    /\ UNCHANGED <<active, forced, greeting, host>>

ClientConnects(p) == (* on_client_connect forgets it                        *)
    /\ PeersChange /\ p \in RemotePeers
    /\ versions' = [versions EXCEPT ![p] = Unknown] /\ active' = active \cup {p}
    /\ Unsettles(p)
    /\ UNCHANGED <<forced, greeting, host>>

PeerLeaves(p) ==     (* which net.cpp is not told                           *)
    /\ PeersChange /\ p \in RemotePeers /\ p \in active
    /\ active' = active \ {p}
    /\ UNCHANGED <<versions, forced, greeting, host>>
    /\ Unsettles(p)

(* l_net_force_remote: the server's greets the host's own client.           *)
ForceRemote(on) ==
    /\ PeersChange /\ forced # on
    /\ forced' = on
    /\ greeting' \in {greeting, greeting \/ on}
    /\ unforced' = FALSE
    /\ UNCHANGED <<versions, active, host, steady, raced>>

(* What net_client_tick, the game's state and the host's hello leave for    *)
(* l_net_info of the client's state.                                        *)
ClientLearns ==
    /\ PeersChange
    /\ host' \in [hosting : BOOLEAN, running : BOOLEAN, connected : BOOLEAN,
                  version : {Unknown, kVersionInitial, kVersionCurrent}]
    /\ (host'.version # Unknown => host'.connected) /\ (host'.hosting => host'.running)
    /\ UNCHANGED <<versions, active, forced, greeting, routeHistory>>

(* The client's Version in l_net_info, where forced hides what it hosts.    *)
Hosting == host.hosting /\ ~forced
Running == host.running /\ ~forced
HostVersion == IF Hosting THEN kVersionCurrent
               ELSE IF host.version = Unknown THEN kVersionInitial ELSE host.version

(* PostMessageToServer, with client_send at its end.                        *)
PostToServer ==
    /\ toServer' = [at |-> "sent", form |-> HostVersion,
                    to |-> IF Hosting \/ Running THEN "own"
                           ELSE IF (host.connected \/ forced) /\ host.version # Unknown
                                THEN "host" ELSE "nowhere",
                    reads |-> IF Hosting \/ Running THEN kVersionCurrent ELSE host.version]
    /\ toServer' # toServer
    /\ UNCHANGED <<versions, active, forced, greeting, host, post, copies, routeHistory, routedCount,
                   peerChanges>>

(* What the server's side does, and what the client's does.                 *)
ServerRoutes ==
    \/ Stringify \/ IsBinary \/ PostToOtherContext \/ LookUp \/ SendOne \/ NextMessage
    \/ \E p \in AllPeers : Hello(p) \/ ClientConnects(p) \/ PeerLeaves(p)
ClientRoutes == ClientLearns \/ PostToServer

RouteNext == ServerRoutes \/ ClientRoutes \/ \E on \in BOOLEAN : ForceRemote(on)

RouteSpec == RouteInit /\ [][RouteNext]_routeVars
-----------------------------------------------------------------------------
Addressed(p) == IF post.to = NoOne THEN p # post.exclude ELSE p = post.to

(* Whatever peers say, connect or leave while it is under way, a message is *)
(* sent to no machine twice and to none that it is not for.  A peer of      *)
(* which nothing changed meanwhile is sent it if it is for that peer, which *)
(* was known and, for a broadcast, is active: what others did takes nothing *)
(* from it.  The host's own client has it from the other state once, and    *)
(* not through its peer as well, whatever it said, as long as the           *)
(* developer's switch is off.                                               *)
EachAddressedOnce ==
    post.at = "done" =>
        /\ \A p \in RemotePeers :
              /\ copies[p] <= 1 /\ (copies[p] = 1 => Addressed(p))
              /\ p \in steady =>
                    (copies[p] = 1 <=> /\ Addressed(p) /\ p \in Known
                                       /\ post.to = NoOne => p \in active)
        /\ unforced => copies[OwnPeer] = IF Addressed(OwnPeer) THEN 1 ELSE 0

(* Who gets a message reads its form, if it did not come, go or say another *)
(* version while it was under way, whatever others did; and it is told      *)
(* which form that is, unless some peer's version changed between the       *)
(* encoding and the second look.  The client's is one its server reads.     *)
FormIsUnderstood ==
    /\ post.at = "done" =>
          /\ \A p \in RemotePeers \cap steady : copies[p] = 1 => post.form <= versions[p]
          /\ post.says # post.form => raced
    /\ toServer.at = "sent" /\ toServer.to # "nowhere" => toServer.form <= toServer.reads

(* Between them: a message reaches those it is for, in a form they read.    *)
RoutedAsAsked == EachAddressedOnce /\ FormIsUnderstood

(* Not so: a peer whose hello comes between the encoding and the look-up is *)
(* sent a form that it may not read, and a hello between the encoding and   *)
(* the flag makes the flag say another form than the payload has.           *)
EveryReaderReads ==
    post.at = "done" =>
        /\ post.says = post.form
        /\ \A p \in RemotePeers \cap Known : copies[p] = 1 => post.form <= versions[p]
=============================================================================
