----------------------------- MODULE ExtenderNet ----------------------------
(***************************************************************************)
(* The extender's handshake over the game's own connections                *)
(* (src/src/net.cpp).  Machines connect to a host; some run the extender,  *)
(* and so may the host.  A client that has it signs its ClientConnect, the *)
(* host's server answers with a hello in message 400, the client with its  *)
(* own, and from then on both may send message 400: a machine without the  *)
(* extender crashes on one.                                                *)
(*                                                                         *)
(* The engine's side of it is external: connections are reliable and       *)
(* ordered, what is in flight is lost with them, a peer ID is given again  *)
(* when its connection is gone, and a client's frames tick (net_client_tick)*)
(* between its creation and its connecting.  Protocol versions, payloads,  *)
(* the host's own client and the engine's layout checks are left out.      *)
(***************************************************************************)
EXTENDS Naturals, Sequences, SequencesExt

CONSTANTS Machines,      (* those that connect                               *)
          Extended,      (* which of them run the extender                   *)
          Peers,         (* peer IDs                                         *)
          NoPeer,        (* none of them                                     *)
          MaxConnects,   (* bound: connections made                          *)
          MaxPosts,      (* bound: messages posted, each way                 *)
          MaxServers     (* bound: game servers started                      *)

ASSUME ExtenderNetAssumption ==
    /\ Extended \subseteq Machines /\ NoPeer \notin Peers
    /\ MaxConnects \in Nat /\ MaxPosts \in Nat /\ MaxServers \in Nat \ {0}

VARIABLES
    hostExtends,   (* the host runs the extender                             *)
    peer,          (* the peer ID of each machine's connection               *)
    toHost,        (* what each connection carries to the host               *)
    toMachine,     (* and back                                               *)
    known,         (* g_peer_versions: the peers that said hello             *)
    hostKnown,     (* g_host_extended of each machine                        *)
    sending,       (* the peers a send of the server's has found known       *)
    posting,       (* the machines a send of which has found the host known  *)
    connects, posts, servers,  (* how much of the bounds is used             *)
    told,          (* history: the host has had the machine's ClientConnect  *)
    greeted,       (* history: and its hello                                 *)
    fresh,         (* history: the peers in sending found known when told    *)
    freshPosting   (* history: the machines in posting still in that connection *)

engineVars  == <<hostExtends, peer, toHost, toMachine, connects, posts, servers>>
serverVars  == <<known, sending>>
clientVars  == <<hostKnown, posting>>
historyVars == <<told, greeted, fresh, freshPosting>>
netVars == <<engineVars, serverVars, clientVars, historyVars>>

Connect400 == {"hello", "post", "late"}   (* the contents of message 400 *)
Kinds == Connect400 \cup {"signed", "unsigned"}

NetInit ==
    /\ hostExtends \in BOOLEAN
    /\ peer = [m \in Machines |-> NoPeer]
    /\ toHost = [m \in Machines |-> <<>>] /\ toMachine = [m \in Machines |-> <<>>]
    /\ known = {} /\ hostKnown = [m \in Machines |-> FALSE]
    /\ sending = {} /\ posting = {}
    /\ connects = 0 /\ posts = 0 /\ servers = 1
    /\ told = {} /\ greeted = {} /\ fresh = {} /\ freshPosting = {}

Connected(m) == peer[m] # NoPeer
Has(m, queue, kind) == queue[m] # <<>> /\ Head(queue[m]) = kind
ToHost(m, kind) == toHost' = [toHost EXCEPT ![m] = Append(@, kind)]
ToMachine(m, kind) == toMachine' = [toMachine EXCEPT ![m] = Append(@, kind)]

-----------------------------------------------------------------------------
(* connect_serialize_hook, as the engine sends ClientConnect: nothing goes  *)
(* to the host until it says hello again.                                   *)
HostForgotten(m) == [hostKnown EXCEPT ![m] = FALSE]

Connect(m) ==
    /\ ~Connected(m) /\ connects < MaxConnects
    /\ connects' = connects + 1
    /\ \E p \in Peers : /\ \A n \in Machines : peer[n] # p
                        /\ peer' = [peer EXCEPT ![m] = p]
    /\ hostKnown' = IF m \in Extended THEN HostForgotten(m) ELSE hostKnown
    /\ toHost' = [toHost EXCEPT ![m] = <<IF m \in Extended THEN "signed" ELSE "unsigned">>]
    /\ UNCHANGED <<hostExtends, toMachine, posts, servers, serverVars, posting, historyVars>>

(* The connection of each machine in S is gone; the extender is not told.   *)
Dropped(S) ==
    /\ peer' = [m \in Machines |-> IF m \in S THEN NoPeer ELSE peer[m]]
    /\ toHost' = [m \in Machines |-> IF m \in S THEN <<>> ELSE toHost[m]]
    /\ toMachine' = [m \in Machines |-> IF m \in S THEN <<>> ELSE toMachine[m]]
    /\ told' = told \ S /\ greeted' = greeted \ S
    /\ fresh' = fresh \ {peer[m] : m \in S} /\ freshPosting' = freshPosting \ S

Disconnect(m) ==
    /\ Connected(m)
    /\ Dropped({m})
    /\ UNCHANGED <<hostExtends, connects, posts, servers, serverVars, clientVars>>

(* Another game server, of another host or of this one: net_server_tick     *)
(* forgets the peers when it sees another address, which a new server need  *)
(* not have.                                                                *)
NewServer ==
    /\ servers < MaxServers
    /\ servers' = servers + 1
    /\ hostExtends' \in BOOLEAN
    /\ known' \in {known, {}}
    /\ Dropped(Machines)
    /\ UNCHANGED <<connects, posts, sending, clientVars>>

-----------------------------------------------------------------------------
(* on_client_connect, on the server: the peer is forgotten first.           *)
PeerForgotten(m) == known \ {peer[m]}

OnClientConnect(m) ==
    /\ Has(m, toHost, "signed") \/ Has(m, toHost, "unsigned")
    /\ toHost' = [toHost EXCEPT ![m] = Tail(@)]
    /\ IF hostExtends
       THEN /\ known' = PeerForgotten(m)
            /\ IF Has(m, toHost, "signed") THEN ToMachine(m, "hello") ELSE UNCHANGED toMachine
       ELSE UNCHANGED <<known, toMachine>>
    /\ told' = told \cup {m}
    /\ UNCHANGED <<hostExtends, peer, connects, posts, servers, sending, clientVars, greeted,
                   fresh, freshPosting>>

(* handle_extender on the server: the peer is the user's high half.         *)
PeerOf(m) == peer[m]

ServerHello(m) ==
    /\ Has(m, toHost, "hello") /\ hostExtends
    /\ toHost' = [toHost EXCEPT ![m] = Tail(@)]
    /\ known' = known \cup {PeerOf(m)}
    /\ greeted' = greeted \cup {m}
    /\ UNCHANGED <<hostExtends, peer, toMachine, connects, posts, servers, sending, clientVars,
                   told, fresh, freshPosting>>

(* lua_net_deliver, on either side: the post is for the scripts.            *)
Deliver(m) ==
    \/ /\ Has(m, toHost, "post") \/ Has(m, toHost, "late")
       /\ toHost' = [toHost EXCEPT ![m] = Tail(@)]
       /\ UNCHANGED <<hostExtends, peer, toMachine, connects, posts, servers, serverVars,
                      clientVars, historyVars>>
    \/ /\ Has(m, toMachine, "post") \/ Has(m, toMachine, "late")
       /\ toMachine' = [toMachine EXCEPT ![m] = Tail(@)]
       /\ UNCHANGED <<hostExtends, peer, toHost, connects, posts, servers, serverVars,
                      clientVars, historyVars>>

(* handle_extender on a client: client_send refuses until the host is known,*)
(* so that is stored before the answer goes.                                *)
\* Mutant: answers the host before it knows it.
AnswersBeforeKnown(m) == hostKnown[m]
MayAnswer(m) == hostKnown'[m]

ClientHello(m) ==
    /\ Has(m, toMachine, "hello") /\ m \in Extended
    /\ toMachine' = [toMachine EXCEPT ![m] = Tail(@)]
    /\ hostKnown' = [hostKnown EXCEPT ![m] = TRUE]
    /\ IF MayAnswer(m) THEN ToHost(m, "hello") ELSE UNCHANGED toHost
    /\ UNCHANGED <<hostExtends, peer, connects, posts, servers, serverVars, posting, historyVars>>

-----------------------------------------------------------------------------
(* server_send, server_broadcast: the peers are looked up under g_mutex and *)
(* sent to after it is gone, by whichever thread runs the server's scripts. *)
FindPeers ==
    /\ hostExtends /\ sending = {} /\ posts < MaxPosts
    /\ posts' = posts + 1
    /\ \E S \in SUBSET known \ {{}} :
          /\ sending' = S
          /\ fresh' = {p \in S : \E m \in told : peer[m] = p}
    /\ UNCHANGED <<hostExtends, peer, toHost, toMachine, connects, servers, known, clientVars,
                   told, greeted, freshPosting>>

SendToPeer(p) ==
    /\ p \in sending
    /\ sending' = sending \ {p} /\ fresh' = fresh \ {p}
    /\ \/ \E m \in Machines : /\ peer[m] = p
                              /\ ToMachine(m, IF p \in fresh THEN "post" ELSE "late")
       \/ (\A m \in Machines : peer[m] # p) /\ UNCHANGED toMachine
    /\ UNCHANGED <<hostExtends, peer, toHost, connects, posts, servers, known, clientVars, told,
                   greeted, freshPosting>>

(* client_send: g_host_extended first, the host's peer and the send after.  *)
FindHost(m) ==
    /\ m \in Extended /\ m \notin posting /\ hostKnown[m] /\ posts < MaxPosts
    /\ posts' = posts + 1
    /\ posting' = posting \cup {m}
    /\ freshPosting' = IF Connected(m) THEN freshPosting \cup {m} ELSE freshPosting
    /\ UNCHANGED <<hostExtends, peer, toHost, toMachine, connects, servers, serverVars, hostKnown,
                   told, greeted, fresh>>

SendToHost(m) ==
    /\ m \in posting
    /\ posting' = posting \ {m} /\ freshPosting' = freshPosting \ {m}
    /\ IF Connected(m) THEN ToHost(m, IF m \in freshPosting THEN "post" ELSE "late")
                       ELSE UNCHANGED toHost
    /\ UNCHANGED <<hostExtends, peer, toMachine, connects, posts, servers, serverVars, hostKnown,
                   told, greeted, fresh>>

Receive(m) == OnClientConnect(m) \/ ServerHello(m) \/ ClientHello(m) \/ Deliver(m)

NetNext ==
    \/ \E m \in Machines : \/ Connect(m) \/ Disconnect(m) \/ Receive(m)
                           \/ FindHost(m) \/ SendToHost(m)
    \/ NewServer \/ FindPeers
    \/ \E p \in Peers : SendToPeer(p)

NetSpec == NetInit /\ [][NetNext]_netVars
NetFairSpec == NetSpec /\ \A m \in Machines : WF_netVars(Receive(m))
-----------------------------------------------------------------------------
(* Types of the variables.                                                  *)
NetTypeOK ==
    /\ hostExtends \in BOOLEAN /\ peer \in [Machines -> Peers \cup {NoPeer}]
    /\ toHost \in [Machines -> Seq(Kinds)] /\ toMachine \in [Machines -> Seq(Connect400)]
    /\ known \subseteq Peers /\ hostKnown \in [Machines -> BOOLEAN]
    /\ sending \subseteq Peers /\ posting \subseteq Machines
    /\ connects \in 0..MaxConnects /\ posts \in 0..MaxPosts /\ servers \in 1..MaxServers
    /\ told \subseteq Machines /\ greeted \subseteq told
    /\ fresh \subseteq sending /\ freshPosting \subseteq posting

(* Only machines that can take message 400 are sent one: the peer is        *)
(* "forgotten first, so a peer ID reused by a client without the extender   *)
(* is never sent message 400" (src/src/net.cpp:862).                        *)
OnlyExtendedAreSent400 ==
    \A m \in Machines : Connected(m) /\ m \notin Extended => toMachine[m] = <<>>

(* The same, but for what was looked up before this ClientConnect reached   *)
(* the server; and posts go only to a machine that has said hello in this   *)
(* connection, whatever peer IDs and servers were used again.               *)
PostsFollowHello ==
    \A m \in Machines :
        /\ Contains(toMachine[m], "hello") => m \in Extended
        /\ Contains(toMachine[m], "post") => m \in Extended /\ m \in greeted

(* A client posts to a host only after that host's hello, and so never to   *)
(* one without the extender, save for a send that the reconnection overtook.*)
HostSaidHello ==
    \A m \in Machines :
        Contains(toHost[m], "post") \/ Contains(toHost[m], "hello")
            => hostExtends /\ m \in told

(* A machine with the extender that stays connected to a host that has it   *)
(* gets to know it, and the host the machine.                               *)
Introduced(m) == hostKnown[m] /\ peer[m] \in known
HandshakeEnds ==
    \A m \in Extended : (Connected(m) /\ hostExtends) ~> (Introduced(m) \/ ~Connected(m))

\* The handshake comes first in both directions, and it ends.
HandshakeKept ==
    [](PostsFollowHello /\ HostSaidHello) /\ HandshakeEnds
=============================================================================
