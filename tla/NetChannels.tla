----------------------------- MODULE NetChannels ----------------------------
(***************************************************************************)
(* Requests between the server's and the client's Lua state of one         *)
(* process: Ext.Net's request and reply IDs in the prelude, the two queues *)
(* of src/src/lua_host.cpp that carry the messages, and the rebuilds that  *)
(* replace a state while the queues stay.                                  *)
(*                                                                         *)
(* A request's payload is the request itself, and its reply's too.         *)
(* Messages that ask for no reply, other machines (ExtenderNet) and the    *)
(* variables that travel in the same queues are left out.                  *)
(***************************************************************************)
EXTENDS Naturals, Sequences, SequencesExt, FiniteSets

CONSTANTS Answering,     (* the sides whose mods have a request handler      *)
          MaxAsked,      (* bound: requests made                             *)
          MaxRebuilds    (* bound: resets                                    *)

Sides == {"Server", "Client"}
Other(s) == IF s = "Server" THEN "Client" ELSE "Server"

ASSUME NetChannelsAssumption ==
    /\ Answering \subseteq Sides /\ MaxAsked \in Nat /\ MaxRebuilds \in Nat

VARIABLES
    live,      (* the side has a state                                       *)
    nextId,    (* net_next_request of each state                             *)
    waiting,   (* net_requests: [id, ask] for each callback kept             *)
    toSide,     (* g_to_server, g_to_client                                   *)
    batch,     (* the messages a drain still has to handle                   *)
    hosting,   (* Hosting or ServerRunning, as the client is told            *)
    asks,      (* history: who made each request, in which incarnation       *)
    rebuilt,   (* how often each side's state was rebuilt                    *)
    calls,     (* history: the callbacks called, with the request answered   *)
    disturbed  (* history: a rebuild, or the client was not hosting          *)

channelVars == <<live, nextId, waiting, toSide, batch, hosting, asks, rebuilt, calls, disturbed>>

NoReply == 0
Request(id, ask) == [request |-> id, reply |-> NoReply, ask |-> ask]
\* Mutant: the reply bears the request's own reply ID.
EchoedReply(m) == [request |-> m.request, reply |-> NoReply, ask |-> m.ask]
ReplyTo(m)       == [request |-> 0, reply |-> m.request, ask |-> m.ask]

ChannelInit ==
    /\ live = [s \in Sides |-> TRUE] /\ nextId = [s \in Sides |-> 1]
    /\ waiting = [s \in Sides |-> {}]
    /\ toSide = [s \in Sides |-> <<>>] /\ batch = [s \in Sides |-> <<>>]
    /\ hosting = TRUE
    /\ asks = <<>> /\ rebuilt = [s \in Sides |-> 0] /\ calls = <<>> /\ disturbed = FALSE

(* l_post_to_other_context, when the message gets that far: the client's    *)
(* goes nowhere at the menu, and none is kept for a state that is not there.*)
Delivered(s) == live[Other(s)] /\ (s = "Client" => hosting)
Post(s, m) == toSide' = IF Delivered(s) THEN [toSide EXCEPT ![Other(s)] = Append(@, m)]
                       ELSE toSide

(* PostMessageToServer, PostMessageToUser with a handler: net_request keeps *)
(* the callback before it is known whether the message goes anywhere.       *)
\* Mutant: each request gets the same ID.
SameId(s) == nextId[s]
IdAfter(s) == nextId[s] + 1

Ask(s) ==
    /\ live[s] /\ Len(asks) < MaxAsked
    /\ LET ask == Len(asks) + 1
       IN  /\ waiting' = [waiting EXCEPT ![s] = {w \in @ : w.id # nextId[s]}
                                                \cup {[id |-> nextId[s], ask |-> ask]}]
           /\ Post(s, Request(nextId[s], ask))
           /\ asks' = Append(asks, [by |-> s, born |-> rebuilt[s]])
    /\ nextId' = [nextId EXCEPT ![s] = IdAfter(s)]
    /\ disturbed' = (disturbed \/ ~Delivered(s))
    /\ UNCHANGED <<live, batch, hosting, rebuilt, calls>>

(* DrainNetMessages on the side's tick: the queue is taken whole.           *)
TakeNetMessages(s) == toSide[s]

Drain(s) ==
    /\ live[s] /\ batch[s] = <<>> /\ toSide[s] # <<>>
    /\ batch' = [batch EXCEPT ![s] = TakeNetMessages(s)]
    /\ toSide' = [toSide EXCEPT ![s] = <<>>]
    /\ UNCHANGED <<live, nextId, waiting, hosting, asks, rebuilt, calls, disturbed>>

(* net_receive of a reply: the callback is forgotten, then called; a reply  *)
(* nobody waits for is only warned about.                                   *)
StillWaiting(s, id) == {w \in waiting[s] : w.id # id}

HandleReply(s) ==
    /\ batch[s] # <<>> /\ Head(batch[s]).reply # NoReply
    /\ LET m == Head(batch[s])
       IN  /\ waiting' = [waiting EXCEPT ![s] = StillWaiting(s, m.reply)]
           /\ \/ \E w \in waiting[s] :
                    w.id = m.reply /\ calls' = Append(calls, [callback |-> w.ask, with |-> m.ask])
              \/ (\A w \in waiting[s] : w.id # m.reply) /\ UNCHANGED calls
    /\ batch' = [batch EXCEPT ![s] = Tail(@)]
    /\ UNCHANGED <<live, nextId, toSide, hosting, asks, rebuilt, disturbed>>

(* net_receive of a request, NetChannel:OnMessage: what the request handler *)
(* returns goes back under the request's ID.                                *)
HandleRequest(s) ==
    /\ batch[s] # <<>> /\ Head(batch[s]).reply = NoReply
    /\ IF s \in Answering THEN /\ Post(s, ReplyTo(Head(batch[s])))
                               /\ disturbed' = (disturbed \/ ~Delivered(s))
                          ELSE UNCHANGED <<toSide, disturbed>>
    /\ batch' = [batch EXCEPT ![s] = Tail(@)]
    /\ UNCHANGED <<live, nextId, waiting, hosting, asks, rebuilt, calls>>

-----------------------------------------------------------------------------
(* A rebuild waits for the calls into the states it replaces; the new       *)
(* state counts its requests from 1; the queues are not touched.            *)
Forget(S) ==
    /\ \A s \in S : batch[s] = <<>>
    /\ nextId' = [s \in Sides |-> IF s \in S THEN 1 ELSE nextId[s]]
    /\ waiting' = [s \in Sides |-> IF s \in S THEN {} ELSE waiting[s]]
    /\ rebuilt' = [s \in Sides |-> IF s \in S THEN rebuilt[s] + 1 ELSE rebuilt[s]]
    /\ disturbed' = TRUE
    /\ UNCHANGED <<toSide, batch, hosting, asks, calls>>

Rebuilds == rebuilt["Client"]   (* every rebuild is the client's too *)

(* lua_reset has both locks throughout.                                     *)
Reset == Rebuilds < MaxRebuilds /\ live["Client"] /\ Forget(Sides) /\ UNCHANGED live

(* lua_reset_client, while the server's scripts run on.                     *)
Closed     == [live EXCEPT !["Client"] = FALSE]

CloseClient == /\ Rebuilds < MaxRebuilds /\ live["Client"] /\ Forget({"Client"})
               /\ live' = Closed
BuildClient == /\ ~live["Client"]
               /\ live' = [live EXCEPT !["Client"] = TRUE]
               /\ UNCHANGED <<nextId, waiting, toSide, batch, hosting, asks, rebuilt, calls,
                              disturbed>>

(* The game server stops or starts (external); what waits for it waits.     *)
HostingChanges ==
    /\ hosting' = ~hosting
    /\ UNCHANGED <<live, nextId, waiting, toSide, batch, asks, rebuilt, calls, disturbed>>

Side(s) == Drain(s) \/ HandleReply(s) \/ HandleRequest(s)

ChannelNext == \/ \E s \in Sides : Ask(s) \/ Side(s)
               \/ Reset \/ CloseClient \/ BuildClient \/ HostingChanges

(* Both sides tick, and a drain that has begun goes on.                     *)
ChannelSpec == ChannelInit /\ [][ChannelNext]_channelVars
ChannelFairSpec == ChannelSpec /\ (\A s \in Sides : WF_channelVars(Side(s))) /\ WF_channelVars(BuildClient)
-----------------------------------------------------------------------------
(* Types of the variables.                                                  *)
Messages == [request : 0..MaxAsked, reply : 0..MaxAsked, ask : 1..MaxAsked]
ChannelTypeOK ==
    /\ live \in [Sides -> BOOLEAN] /\ live["Server"]
    /\ nextId \in [Sides -> 1..(MaxAsked + 1)]
    /\ waiting \in [Sides -> SUBSET [id : 1..MaxAsked, ask : 1..MaxAsked]]
    /\ toSide \in [Sides -> Seq(Messages)] /\ batch \in [Sides -> Seq(Messages)]
    /\ hosting \in BOOLEAN /\ disturbed \in BOOLEAN
    /\ asks \in Seq([by : Sides, born : Nat]) /\ rebuilt \in [Sides -> 0..MaxRebuilds]
    /\ calls \in Seq([callback : 1..MaxAsked, with : 1..MaxAsked])

(* A callback is called with the reply to the request it was passed with:   *)
(* net_requests is "the callbacks for requests this state sent, by the ID   *)
(* their replies come back under" (src/src/lua_host.cpp:11551).             *)
ReplyOfItsRequest == \A i \in 1..Len(calls) : calls[i].callback = calls[i].with

(* The same, but for a reply to a request of an incarnation before: IDs     *)
(* are not given twice in one state, whoever asks whom in what order.       *)
ReplyOfItsRequestUnlessRebuilt ==
    \A i \in 1..Len(calls) :
        LET callback == asks[calls[i].callback]
            with     == asks[calls[i].with]
        IN  /\ callback.by = with.by
            /\ calls[i].callback # calls[i].with => with.born < callback.born

(* A callback is called once, even where a reply to a request of an         *)
(* incarnation before came under its ID (net_receive forgets it first).     *)
CalledOnce ==
    \A i, j \in 1..Len(calls) : calls[i].callback = calls[j].callback => i = j

(* Replies come to a side in the order of its requests, over all its         *)
(* incarnations, replies and requests crossing in the two queues and resets  *)
(* included: no reply overtakes another one.                                 *)
AnsweredInOrder ==
    \A i, j \in 1..Len(calls) :
        i < j /\ asks[calls[i].callback].by = asks[calls[j].callback].by
            => calls[i].with < calls[j].with

(* A request to mods that answer is answered in the end, unless a state was *)
(* rebuilt or the client was not hosting when it or the other side sent.    *)
Answered(ask) == \E i \in 1..Len(calls) : calls[i].callback = ask
RequestAnswered ==
    \A ask \in 1..MaxAsked :
        (Len(asks) >= ask /\ Other(asks[ask].by) \in Answering)
            ~> (Answered(ask) \/ disturbed)

\* A callback is called once, with replies in the order of the requests, and
\* unless its state was rebuilt with its own request's reply.
AnsweredAsAsked ==
    CalledOnce /\ AnsweredInOrder /\ ReplyOfItsRequestUnlessRebuilt
=============================================================================
