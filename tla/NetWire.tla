------------------------------- MODULE NetWire -------------------------------
(***************************************************************************)
(* Message 400 as it crosses a connection (src/src/net.cpp): the variables *)
(* a state syncs are split into parts, each part and each post is encoded   *)
(* as the extender's protocol buffers, written by ExtenderMessage::Serialize*)
(* and read, decoded and queued by the other side's.                        *)
(*                                                                         *)
(* Lengths are in units: a variable takes its size, a message has room for *)
(* MaxPayload and a part is closed at SyncBudget.  A protocol buffer is its *)
(* fields, those with their default value left out.  Syncs and posts take   *)
(* turns: neither leaves anything behind.                                   *)
(***************************************************************************)
EXTENDS Naturals, Sequences, SequencesExt, FiniteSetsExt

CONSTANTS WireSizes,    (* lengths of a variable                             *)
          SyncBudget,   (* 0x40000                                           *)
          MaxPayload,   (* kMaxPayload                                       *)
          MaxSynced     (* bound: variables synced at once                   *)

ASSUME NetWireAssumption ==
    /\ WireSizes \subseteq Nat \ {0} /\ SyncBudget \in Nat /\ MaxPayload \in Nat
    /\ SyncBudget < MaxPayload /\ MaxSynced \in Nat

NilValue == "nil"
Kinds400 == {"nil", "bool", "int", "string", "table"}   (* what Lua has      *)
Spellings == {"lower", "upper", "name"}         (* of a variable's owner     *)

VARIABLES
    link,       (* the messages on the way                                   *)
    inbound,    (* what lua_net_deliver was given of the variables           *)
    synced,     (* history: the variables last synced                        *)
    delivered    (* history: the post delivered, as [sent, got]               *)
wireVars == <<link, inbound, synced, delivered>>

WireInit == link = <<>> /\ inbound = <<>> /\ synced = <<>> /\ delivered = {}

-----------------------------------------------------------------------------
(* l_net_sync_vars: the value's kind; a table came serialized, as Binary.   *)
NetKind(kind) == IF kind = "table" THEN "binary" ELSE IF kind = "nil" THEN "null" ELSE kind

(* parse_guid and format_guid: an owner that is no UUID is the null one,    *)
(* and one in capitals comes back in small letters.                         *)
WireOwner(owner) == IF owner = "name" THEN "null" ELSE "lower"

(* encode_var and decode_var: a member of the oneof is there for every kind *)
(* but null, which is what a message without one is read as.                *)
EncodeVar(v) == [owner |-> WireOwner(v.owner), module |-> v.module, id |-> v.id,
                 oneof |-> IF NetKind(v.kind) = "null" THEN {}
                           ELSE {NetKind(v.kind)}]
DecodeVar(e) == [owner |-> e.owner, module |-> e.module, id |-> e.id,
                 kind |-> IF e.oneof = {} THEN "null" ELSE CHOOSE k \in e.oneof : TRUE]

SizeOf(vs) == FoldLeft(LAMBDA n, v : n + v.size, 0, vs)

(* A part takes variables until what it has reaches the budget.             *)
\* Mutant: a part takes all variables, whatever the budget.
SplitNever(vs) == <<vs>>
Split(vs) ==
    FoldLeft(LAMBDA ps, v : IF ps # <<>> /\ SizeOf(Last(ps)) < SyncBudget
                            THEN [ps EXCEPT ![Len(ps)] = Append(@, v)]
                            ELSE Append(ps, <<v>>), <<>>, vs)

Message400(kind, body, size) == [kind |-> kind, body |-> body, size |-> size]

NetSyncVars ==
    /\ link = <<>> /\ synced = <<>>
    /\ \E n \in 1..MaxSynced, module \in BOOLEAN, owner \in Spellings, kind \in Kinds400 :
       \E sizes \in [1..n -> WireSizes] :
       LET vs == [i \in 1..n |-> [module |-> module, owner |-> owner, kind |-> kind,
                                  size |-> sizes[i], id |-> i]]
       IN  /\ synced' = vs
          /\ link' = [i \in 1..Len(Split(vs)) |->
                         Message400("vars", [j \in 1..Len(Split(vs)[i]) |-> EncodeVar(Split(vs)[i][j])],
                                    SizeOf(Split(vs)[i]))]
    /\ inbound' = <<>> /\ delivered' = {}

(* l_net_post and encode of kPostLua: no text and the empty one are both    *)
(* left out, and so are the IDs that are zero.                              *)
PostTexts == {NilValue, "", "text"}
Posts400 == [payload : PostTexts, module : PostTexts, requestId : {0, 1}, replyId : {0, 1},
             binary : BOOLEAN]
Field(value, default) == IF value = default THEN {} ELSE {value}
OptString(text) == IF text = NilValue THEN "" ELSE text

EncodePost(w) == [payload   |-> Field(OptString(w.payload), ""),
                  module    |-> Field(OptString(w.module), ""),
                  requestId |-> Field(w.requestId, 0), replyId |-> Field(w.replyId, 0),
                  binary    |-> Field(w.binary, FALSE)]
ReadField(field, default) == IF field = {} THEN default ELSE CHOOSE v \in field : TRUE
DecodePost(f) == [payload   |-> ReadField(f.payload, ""), module |-> ReadField(f.module, ""),
                  requestId |-> ReadField(f.requestId, 0), replyId |-> ReadField(f.replyId, 0),
                  binary    |-> ReadField(f.binary, FALSE)]

NetPost ==
    /\ link = <<>> /\ inbound' = <<>> /\ synced' = <<>>
    /\ \E w \in Posts400 :
          link' = <<Message400("post", [sent |-> w, fields |-> EncodePost(w)], 1)>>
    /\ UNCHANGED delivered

(* ExtenderMessage::Serialize: too long a message is written with no length *)
(* and is not valid on the other side.                                      *)
Serialized(m) == m.size <= MaxPayload

(* l_take_net_messages: no module where it is empty, a payload always.      *)
Taken400(w) == [w EXCEPT !.module = IF @ = "" THEN NilValue ELSE @]

(* ProcessMsg, handle_extender, lua_net_deliver.                            *)
ProcessMsg ==
    /\ link # <<>> /\ link' = Tail(link)
    /\ LET m == Head(link)
       IN  CASE m.kind = "vars" /\ Serialized(m) ->
                   /\ inbound' = inbound \o [i \in 1..Len(m.body) |-> DecodeVar(m.body[i])]
                   /\ UNCHANGED delivered
             [] m.kind = "post" /\ Serialized(m) ->
                   /\ delivered' = {[sent |-> m.body.sent,
                                    got |-> Taken400(DecodePost(m.body.fields))]}
                   /\ UNCHANGED inbound
             [] ~Serialized(m) -> UNCHANGED <<inbound, delivered>>
    /\ UNCHANGED synced

WireNext == NetSyncVars \/ NetPost \/ ProcessMsg
WireSpec == WireInit /\ [][WireNext]_wireVars
-----------------------------------------------------------------------------
(* The variables synced arrive once each and in their order, as values of   *)
(* the same kind and owner; some are lost only where one of them is within  *)
(* a budget of the limit.  A post arrives as it was sent, its text empty    *)
(* where it had none.                                                       *)
Huge(v) == SyncBudget - 1 + v.size > MaxPayload
Arrived(v) == \E i \in 1..Len(inbound) : inbound[i].id = v.id
ArrivesAsSent ==
    /\ link = <<>> =>
          /\ \A i \in 1..Len(inbound) : \A j \in 1..i - 1 : inbound[j].id < inbound[i].id
          /\ \A i \in 1..Len(inbound) :
                LET v == synced[inbound[i].id]
                IN  /\ inbound[i].kind = NetKind(v.kind) /\ inbound[i].module = v.module
                    /\ v.owner = "lower" => inbound[i].owner = "lower"
          /\ (\A i \in 1..Len(synced) : ~Huge(synced[i]))
                => \A i \in 1..Len(synced) : Arrived(synced[i])
    /\ \A r \in delivered :
          r.got = [r.sent EXCEPT !.payload = OptString(@),
                                 !.module = IF @ = "" THEN NilValue ELSE @]

-----------------------------------------------------------------------------
(***************************************************************************)
(* How the extender gets into the engine's networking (extend, in           *)
(* src/src/net.cpp): on each tick of a peer -- the game server's on its     *)
(* thread, the client's on its own -- the peer's message factory and        *)
(* protocol list are checked once and remembered, message 400 is registered *)
(* and the extender's protocol put first in the list; and the class of      *)
(* ClientConnect, which both peers share, is hooked once.                   *)
(*                                                                         *)
(* The peers are the engine's: it makes them, fills them in, adds protocols *)
(* of its own after those there and makes others in their place, where the  *)
(* addresses may be the same again (external).                              *)
(***************************************************************************)
CONSTANTS PeerAddresses,   (* where a peer or a factory may be               *)
          Nowhere,         (* the null address                               *)
          MaxProtocols,    (* bound: protocols in a list                     *)
          MaxPeersMade     (* bound: peers made                              *)

Ends == {"server", "client"}
ASSUME NetExtendAssumption == Nowhere \notin PeerAddresses /\ MaxPeersMade \in Nat
                              /\ MaxProtocols \in Nat

VARIABLES
    peers,     (* each end's peer: its address, its factory's, whether both  *)
               (* are as bg3le knows them, the message and the protocols     *)
    checkedPeer,   (* CheckedPeer of each end                                *)
    extended,  (* what the last extend of this peer returned                 *)
    hook,      (* ClientConnect's Serialize: not tried, hooked or not to be  *)
    reused,    (* history: a peer came back where the one before was         *)
    peersMade
extendVars == <<peers, checkedPeer, extended, hook, reused, peersMade>>

Unmade == [address |-> Nowhere, factory |-> Nowhere, valid |-> FALSE, message |-> FALSE,
           protocols |-> <<>>, room |-> 0]
Unchecked == [peer |-> Nowhere, factory |-> Nowhere]

ExtendInit ==
    /\ peers = [e \in Ends |-> Unmade] /\ checkedPeer = [e \in Ends |-> Unchecked]
    /\ extended = [e \in Ends |-> FALSE] /\ hook = "untried"
    /\ reused = FALSE /\ peersMade = 0

(* The engine makes a peer, and fills it in later.                          *)
MakePeer(e) ==
    /\ peersMade < MaxPeersMade /\ peersMade' = peersMade + 1
    /\ \E address \in PeerAddresses, factory \in PeerAddresses :
          /\ peers' = [peers EXCEPT ![e] = [Unmade EXCEPT !.address = address,
                                                          !.factory = factory]]
          /\ reused' = (reused \/ checkedPeer[e] = [peer |-> address, factory |-> factory])
    /\ extended' = [extended EXCEPT ![e] = FALSE]
    /\ UNCHANGED <<checkedPeer, hook>>

FillPeer(e) ==
    /\ peers[e].address # Nowhere /\ ~peers[e].valid
    /\ \E room \in 1..MaxProtocols :
          peers' = [peers EXCEPT ![e].valid = TRUE, ![e].protocols = <<"game">>, ![e].room = room]
    /\ UNCHANGED <<checkedPeer, extended, hook, reused, peersMade>>

AddProtocol(e) ==
    /\ peers[e].valid /\ Len(peers[e].protocols) < peers[e].room
    /\ peers' = [peers EXCEPT ![e].protocols = Append(@, "game")]
    /\ UNCHANGED <<checkedPeer, extended, hook, reused, peersMade>>

-----------------------------------------------------------------------------
(* checked_factory and checked_protocols, unless this peer and factory were *)
(* found right before.                                                      *)
Recheck(e) == \/ checkedPeer[e].peer # peers[e].address
              \/ checkedPeer[e].factory \notin {peers[e].factory} \ {Nowhere}
CheckPeer(e) ==
    IF ~Recheck(e) THEN checkedPeer[e]
    ELSE [peer |-> peers[e].address, factory |-> IF peers[e].valid THEN peers[e].factory
                                                 ELSE Nowhere]

(* register_message, and insert_protocol where the list has room or is      *)
(* given some: at its head.                                                 *)
HasOurs(list) == Contains(list, "ours")
\* Mutant: the extender's protocol put last.
InsertLast(list) == Append(list, "ours")
InsertProtocol(list) == <<"ours">> \o list

Registered(p, done) == IF p.message THEN TRUE ELSE done
Inserted(p, reserved) ==
    IF HasOurs(p.protocols) THEN p
    ELSE IF Len(p.protocols) < p.room
         THEN [p EXCEPT !.protocols = InsertProtocol(@)]
         ELSE IF reserved THEN [p EXCEPT !.protocols = InsertProtocol(@), !.room = @ + 1] ELSE p

(* hook_client_connect: once, whichever end comes first and however it ends.*)
HookAfter(works) == IF hook # "untried" THEN hook ELSE IF works THEN "hooked" ELSE "failed"

Extend(e) ==
    /\ peers[e].address # Nowhere
    /\ checkedPeer' = [checkedPeer EXCEPT ![e] = CheckPeer(e)]
    /\ IF CheckPeer(e).factory = Nowhere
       THEN extended' = [extended EXCEPT ![e] = FALSE] /\ UNCHANGED <<peers, hook>>
       ELSE \E done, reserved, works \in BOOLEAN :
            LET q == [peers[e] EXCEPT !.message = Registered(peers[e], done)]
                r == IF q.message THEN Inserted(q, reserved) ELSE q
                ok == q.message /\ HasOurs(r.protocols)
            IN  /\ peers' = [peers EXCEPT ![e] = r]
                /\ extended' = [extended EXCEPT ![e] = ok]
                /\ hook' = IF ok /\ ~(peers[e].message /\ HasOurs(peers[e].protocols))
                           THEN HookAfter(works) ELSE hook
    /\ UNCHANGED <<reused, peersMade>>

ExtendNext == \E e \in Ends : MakePeer(e) \/ FillPeer(e) \/ AddProtocol(e) \/ Extend(e)
ExtendSpec == ExtendInit /\ [][ExtendNext]_extendVars
-----------------------------------------------------------------------------
(* A peer that was extended has message 400 and one extender protocol,      *)
(* before every protocol of the game's, whatever failed on the ticks before *)
(* -- "so message 400 is ours before any of the game's protocols sees it"   *)
(* (src/src/net.cpp:556) -- and none is touched that was not checked, but   *)
(* one not filled in yet at the addresses of one checked before.            *)
OursIsFirst ==
    \A e \in Ends : reused \/
        /\ \A i \in DOMAIN peers[e].protocols : peers[e].protocols[i] = "ours" => i = 1
        /\ extended[e] => /\ peers[e].message /\ hook # "untried"
                          /\ Head(peers[e].protocols) = "ours"
        /\ peers[e].protocols # <<>> \/ peers[e].message => peers[e].valid
=============================================================================
