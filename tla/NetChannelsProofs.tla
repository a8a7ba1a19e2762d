-------------------------- MODULE NetChannelsProofs -------------------------
(***************************************************************************)
(* Proofs about NetChannels, for any bounds and any answering sides: a     *)
(* callback is called once, replies come in the order of the requests, and *)
(* a reply that is not the callback's own is of an incarnation before.     *)
(***************************************************************************)
EXTENDS NetChannels, SequenceTheorems, TLAPS

(* A message is a request or a reply, and names a request that was made      *)
(* (`made` is asks, `called` is calls).                                      *)
Sound(made, m) == /\ m.ask \in 1..Len(made)
                  /\ m.reply = NoReply <=> m.request # 0
IsReply(m) == m.reply # NoReply
IdOf(m)    == IF IsReply(m) THEN m.reply ELSE m.request

(* It is a request of the other side or a reply to one of this side.        *)
Asker(s, m) == IF IsReply(m) THEN s ELSE Other(s)
Addressed(made, s, q) ==
    \A i \in 1..Len(q) : Sound(made, q[i]) /\ made[q[i].ask].by = Asker(s, q[i])

(* No ID is given twice in one incarnation: a callback that is kept has the  *)
(* ID of its own messages and of no other message of its incarnation.       *)
Current(m, s) == asks[m.ask].born = rebuilt[s]
OwnId(s, m) == LET t == Asker(s, m)
               IN  Current(m, t) => /\ IdOf(m) < nextId[t]
                                    /\ \A w \in waiting[t] : w.id = IdOf(m) => w.ask = m.ask
OwnIds(s, q) == \A i \in 1..Len(q) : OwnId(s, q[i])

QueueInv == \A s \in Sides : /\ Addressed(asks, s, toSide[s]) /\ Addressed(asks, s, batch[s])
                             /\ OwnIds(s, toSide[s]) /\ OwnIds(s, batch[s])

(* The callbacks kept are of this incarnation; one per ID and per request,   *)
(* and none of a request that was called back.                              *)
Called == {calls[i].callback : i \in 1..Len(calls)}
WaitingInv ==
    \A s \in Sides : \A w \in waiting[s] :
        /\ w.id < nextId[s] /\ w.ask \in 1..Len(asks) /\ w.ask \notin Called
        /\ asks[w.ask].by = s /\ asks[w.ask].born = rebuilt[s]
        /\ \A x \in waiting[s] : x.id = w.id \/ x.ask = w.ask => x = w

AskInv == /\ Len(asks) <= MaxAsked
          /\ \A s \in Sides : nextId[s] <= Len(asks) + 1
          /\ \A a \in 1..Len(asks) : asks[a].born <= rebuilt[asks[a].by]
          /\ \A s \in Sides : rebuilt[s] <= Rebuilds
CallInv == \A i \in 1..Len(calls) : calls[i].callback <= Len(asks) /\ calls[i].with <= Len(asks)

(* What a side's requests pass on their way there and back, the last first:  *)
(* the replies in batch[s] and toSide[s], the requests in the other's.      *)
(* Each is of a later request than those ahead of it.                       *)
Sorted(q, back) ==
    \A i, j \in 1..Len(q) :
        i < j /\ IsReply(q[i]) = back /\ IsReply(q[j]) = back => q[i].ask < q[j].ask
Behind(q, back, r, then) ==
    \A i \in 1..Len(q), j \in 1..Len(r) :
        IsReply(q[i]) = back /\ IsReply(r[j]) = then => q[i].ask < r[j].ask
SidesOrder(s, o) ==
    /\ \A back \in BOOLEAN : /\ Sorted(batch[s], back) /\ Sorted(toSide[s], back)
                             /\ Behind(batch[s], back, toSide[s], back)
    /\ Behind(batch[s], TRUE, batch[o], FALSE) /\ Behind(batch[s], TRUE, toSide[o], FALSE)
    /\ Behind(toSide[s], TRUE, batch[o], FALSE) /\ Behind(toSide[s], TRUE, toSide[o], FALSE)
OrderInv == \A s \in Sides : SidesOrder(s, Other(s))

CalledBefore(made, called, s, q, back) ==
    \A i \in 1..Len(called), j \in 1..Len(q) :
        made[called[i].callback].by = s /\ IsReply(q[j]) = back => called[i].with < q[j].ask
CallOrder(s, o) == /\ CalledBefore(asks, calls, s, batch[s], TRUE)
                   /\ CalledBefore(asks, calls, s, toSide[s], TRUE)
                   /\ CalledBefore(asks, calls, s, batch[o], FALSE)
                   /\ CalledBefore(asks, calls, s, toSide[o], FALSE)
CallOrderInv == \A s \in Sides : CallOrder(s, Other(s))

ChannelInv == /\ ChannelTypeOK /\ AskInv /\ WaitingInv /\ QueueInv /\ CallInv
              /\ OrderInv /\ CallOrderInv /\ AnsweredAsAsked
-----------------------------------------------------------------------------
(* A queue's messages, one put behind the others, and the first taken off.  *)
LEMMA Queues ==
  ASSUME NEW q \in Seq(Messages)
  PROVE  /\ Len(q) \in Nat /\ \A i \in 1..Len(q) : q[i] \in Messages
         /\ \A m \in Messages :
               /\ Append(q, m) \in Seq(Messages) /\ Len(Append(q, m)) = Len(q) + 1
               /\ \A i \in 1..Len(q) : Append(q, m)[i] = q[i]
               /\ Append(q, m)[Len(q) + 1] = m
         /\ q # <<>> => /\ Tail(q) \in Seq(Messages) /\ Len(Tail(q)) = Len(q) - 1
                        /\ \A i \in 1..Len(Tail(q)) : i + 1 \in 1..Len(q) /\ Tail(q)[i] = q[i + 1]
                        /\ 1 \in 1..Len(q) /\ Head(q) = q[1]
BY LenProperties, ElementOfSeq, AppendProperties, HeadTailProperties

(* A side's peer is the other one.                                          *)
LEMMA OtherSide ==
  \A s \in Sides : Other(s) \in Sides /\ Other(s) # s /\ Other(Other(s)) = s
BY DEF Sides, Other

(* What holds of a queue holds of what is left of it.                       *)
LEMMA TailKeeps ==
  ASSUME NEW q \in Seq(Messages), q # <<>>, NEW r \in Seq(Messages), NEW s \in Sides,
         NEW back \in BOOLEAN, NEW then \in BOOLEAN, NEW made, NEW called
  PROVE  /\ Addressed(made, s, q) => Addressed(made, s, Tail(q))
         /\ OwnIds(s, q) => OwnIds(s, Tail(q))
         /\ Sorted(q, back) => Sorted(Tail(q), back)
         /\ Behind(q, back, r, then) => Behind(Tail(q), back, r, then)
         /\ Behind(r, back, q, then) => Behind(r, back, Tail(q), then)
         /\ CalledBefore(made, called, s, q, back) => CalledBefore(made, called, s, Tail(q), back)
<1>1. /\ Len(q) \in Nat /\ Len(r) \in Nat /\ Len(Tail(q)) = Len(q) - 1
      /\ \A i \in 1..Len(Tail(q)) : i + 1 \in 1..Len(q) /\ Tail(q)[i] = q[i + 1]
  BY Queues
<1>2. Addressed(made, s, q) => Addressed(made, s, Tail(q))
  BY <1>1 DEF Addressed
<1>3. OwnIds(s, q) => OwnIds(s, Tail(q))
  BY <1>1 DEF OwnIds
<1>4. Sorted(q, back) => Sorted(Tail(q), back)
  BY <1>1 DEF Sorted
<1>5. Behind(q, back, r, then) => Behind(Tail(q), back, r, then)
  BY <1>1 DEF Behind
<1>6. Behind(r, back, q, then) => Behind(r, back, Tail(q), then)
  BY <1>1 DEF Behind
<1>7. CalledBefore(made, called, s, q, back) => CalledBefore(made, called, s, Tail(q), back)
  BY <1>1 DEF CalledBefore
<1> QED BY <1>2, <1>3, <1>4, <1>5, <1>6, <1>7

(* Of nothing everything holds.                                             *)
LEMMA EmptyQueue ==
  ASSUME NEW r, NEW s \in Sides, NEW back \in BOOLEAN, NEW then \in BOOLEAN,
         NEW made, NEW called
  PROVE  /\ Addressed(made, s, <<>>) /\ OwnIds(s, <<>>) /\ Sorted(<<>>, back)
         /\ Behind(<<>>, back, r, then) /\ Behind(r, back, <<>>, then)
         /\ CalledBefore(made, called, s, <<>>, back)
BY DEF Addressed, OwnIds, Sorted, Behind, CalledBefore

(* What a message must be for all that holds of a queue to hold with it too. *)
After(q, back, m)  == \A i \in 1..Len(q) : IsReply(q[i]) = back => q[i].ask < m.ask
Ahead(r, then, m)  == \A i \in 1..Len(r) : IsReply(r[i]) = then => m.ask < r[i].ask
CalledAhead(made, called, s, m)  == \A i \in 1..Len(called) :
                          made[called[i].callback].by = s => called[i].with < m.ask

(* Putting a message at the end of a queue keeps the order in it.           *)
LEMMA AppendKeeps ==
  ASSUME NEW q \in Seq(Messages), NEW m \in Messages, NEW r \in Seq(Messages), NEW s \in Sides,
         NEW back \in BOOLEAN, NEW then \in BOOLEAN,
         NEW made, NEW called
  PROVE  /\ Addressed(made, s, q) /\ Sound(made, m) /\ made[m.ask].by = Asker(s, m)
               => Addressed(made, s, Append(q, m))
         /\ OwnIds(s, q) /\ OwnId(s, m) => OwnIds(s, Append(q, m))
         /\ Sorted(q, back) /\ (IsReply(m) = back => After(q, back, m))
               => Sorted(Append(q, m), back)
         /\ Behind(q, back, r, then) /\ (IsReply(m) = back => Ahead(r, then, m))
               => Behind(Append(q, m), back, r, then)
         /\ Behind(r, back, q, then) /\ (IsReply(m) = then => After(r, back, m))
               => Behind(r, back, Append(q, m), then)
         /\ CalledBefore(made, called, s, q, back) /\ (IsReply(m) = back => CalledAhead(made, called, s, m))
               => CalledBefore(made, called, s, Append(q, m), back)
<1> DEFINE a == Append(q, m)
<1>1. /\ Len(q) \in Nat /\ Len(r) \in Nat /\ Len(a) = Len(q) + 1
      /\ \A i \in 1..Len(a) : \/ i \in 1..Len(q) /\ a[i] = q[i]
                              \/ i = Len(q) + 1 /\ a[i] = m
  BY Queues
<1> HIDE DEF a
<1>2. Addressed(made, s, q) /\ Sound(made, m) /\ made[m.ask].by = Asker(s, m) => Addressed(made, s, a)
  BY <1>1 DEF Addressed
<1>3. OwnIds(s, q) /\ OwnId(s, m) => OwnIds(s, a)
  BY <1>1 DEF OwnIds
<1>4. Sorted(q, back) /\ (IsReply(m) = back => After(q, back, m)) => Sorted(a, back)
  BY <1>1 DEF Sorted, After
<1>5. Behind(q, back, r, then) /\ (IsReply(m) = back => Ahead(r, then, m))
         => Behind(a, back, r, then)
  BY <1>1 DEF Behind, Ahead
<1>6. Behind(r, back, q, then) /\ (IsReply(m) = then => After(r, back, m))
         => Behind(r, back, a, then)
  BY <1>1 DEF Behind, After
<1>7. CalledBefore(made, called, s, q, back) /\ (IsReply(m) = back => CalledAhead(made, called, s, m))
         => CalledBefore(made, called, s, a, back)
  BY <1>1 DEF CalledBefore, CalledAhead
<1> QED BY <1>2, <1>3, <1>4, <1>5, <1>6, <1>7 DEF a

(* The same of the callbacks called, one more called behind the others.      *)
Calls == [callback : 1..MaxAsked, with : 1..MaxAsked]
(* One more callback in the sequence of those that have been called.        *)
LEMMA CallKeeps ==
  ASSUME NEW called \in Seq(Calls), NEW c \in Calls, NEW made
  PROVE  /\ Len(called) \in Nat /\ Append(called, c) \in Seq(Calls)
         /\ \A i \in 1..Len(called) : called[i] \in Calls
         /\ Len(Append(called, c)) = Len(called) + 1
         /\ \A i \in 1..Len(called) : Append(called, c)[i] = called[i]
         /\ Append(called, c)[Len(called) + 1] = c
         /\ \A i \in 1..Len(Append(called, c)) : i \in 1..Len(called) \/ i = Len(called) + 1
BY LenProperties, ElementOfSeq, AppendProperties

(* A callback for a message ahead of those in the queue keeps the order.    *)
LEMMA CalledBeforeKeeps ==
  ASSUME NEW called \in Seq(Calls), NEW c \in Calls, NEW made, NEW s \in Sides,
         NEW q \in Seq(Messages), NEW back \in BOOLEAN,
         CalledBefore(made, called, s, q, back),
         made[c.callback].by = s
             => \A j \in 1..Len(q) : IsReply(q[j]) = back => c.with < q[j].ask
  PROVE  CalledBefore(made, Append(called, c), s, q, back)
BY CallKeeps DEF CalledBefore

(* The invariant holds where nothing has been sent.                         *)
LEMMA InitHolds == ChannelInit => ChannelInv
<1> SUFFICES ASSUME ChannelInit PROVE ChannelInv
  OBVIOUS
<1> USE NetChannelsAssumption
<1>1. ChannelTypeOK
  <2>1. /\ \A S : <<>> \in Seq(S)
        /\ toSide = [s \in Sides |-> <<>>] /\ batch = [s \in Sides |-> <<>>]
        /\ asks = <<>> /\ calls = <<>>
    BY EmptySeq DEF ChannelInit
  <2>2. toSide \in [Sides -> Seq(Messages)] /\ batch \in [Sides -> Seq(Messages)]
    BY <2>1
  <2>3. nextId \in [Sides -> 1..(MaxAsked + 1)] /\ rebuilt \in [Sides -> 0..MaxRebuilds]
    <3>1. 1 \in 1..(MaxAsked + 1) /\ 0 \in 0..MaxRebuilds
      OBVIOUS
    <3> QED BY <3>1 DEF ChannelInit
  <2>4. waiting \in [Sides -> SUBSET [id : 1..MaxAsked, ask : 1..MaxAsked]]
    BY DEF ChannelInit
  <2>5. live \in [Sides -> BOOLEAN] /\ live["Server"] /\ hosting \in BOOLEAN /\ disturbed \in BOOLEAN
    BY DEF ChannelInit, Sides
  <2> QED BY <2>1, <2>2, <2>3, <2>4, <2>5 DEF ChannelTypeOK
<1>2. AskInv /\ WaitingInv /\ CallInv /\ AnsweredAsAsked
  <2>1. AskInv
    <3>1. "Client" \in Sides /\ Len(asks) = 0
      BY DEF ChannelInit, Sides
    <3>2. \A t \in Sides : nextId[t] = 1 /\ rebuilt[t] = 0
      BY DEF ChannelInit
    <3> QED BY <3>1, <3>2 DEF AskInv, Rebuilds
  <2> QED BY <2>1 DEF ChannelInit, WaitingInv, CallInv, AnsweredAsAsked, CalledOnce,
                      AnsweredInOrder, ReplyOfItsRequestUnlessRebuilt
<1>3. \A s \in Sides : toSide[s] = <<>> /\ batch[s] = <<>>
  BY DEF ChannelInit
<1>4. QueueInv /\ OrderInv /\ CallOrderInv
  BY <1>3, EmptyQueue, OtherSide, TRUE \in BOOLEAN, FALSE \in BOOLEAN
     DEF QueueInv, OrderInv, SidesOrder, CallOrderInv, CallOrder
<1> QED BY <1>1, <1>2, <1>4 DEF ChannelInv

-----------------------------------------------------------------------------
(* DrainNetMessages moves a queue as it is.                                 *)
LEMMA DrainHolds ==
  ASSUME ChannelInv, NEW s \in Sides, Drain(s)
  PROVE  ChannelInv'
<1> DEFINE o == Other(s)
<1> USE NetChannelsAssumption
<1>1. /\ o \in Sides /\ Other(o) = s /\ s # o /\ \A t \in Sides : t = s \/ t = o
  BY OtherSide DEF Sides
<1>2. /\ toSide \in [Sides -> Seq(Messages)] /\ batch \in [Sides -> Seq(Messages)]
  BY DEF ChannelInv, ChannelTypeOK
<1>3. /\ batch'[s] = toSide[s] /\ toSide'[s] = <<>>
      /\ batch'[o] = batch[o] /\ toSide'[o] = toSide[o]
      /\ UNCHANGED <<live, nextId, waiting, hosting, asks, rebuilt, calls, disturbed>>
  BY <1>1, <1>2 DEF Drain, TakeNetMessages
<1>4. ChannelTypeOK'
  <2>1. toSide' \in [Sides -> Seq(Messages)] /\ batch' \in [Sides -> Seq(Messages)]
    BY <1>2 DEF Drain, TakeNetMessages
  <2> QED BY <1>3, <2>1 DEF ChannelInv, ChannelTypeOK
<1>5. AskInv' /\ WaitingInv' /\ CallInv' /\ AnsweredAsAsked'
  BY <1>3 DEF ChannelInv, AskInv, Rebuilds, WaitingInv, Called, CallInv, AnsweredAsAsked, CalledOnce,
              AnsweredInOrder, ReplyOfItsRequestUnlessRebuilt
<1>6. QueueInv'
  <2>1. /\ Addressed(asks, s, toSide[s]) /\ Addressed(asks, s, <<>>)
        /\ Addressed(asks, o, toSide[o]) /\ Addressed(asks, o, batch[o])
    BY <1>1, EmptyQueue DEF ChannelInv, QueueInv
  <2>2. OwnIds(s, toSide[s])' /\ OwnIds(s, batch[s])' /\ OwnIds(o, toSide[o])' /\ OwnIds(o, batch[o])'
    BY <1>1, <1>3 DEF ChannelInv, QueueInv, OwnIds, OwnId, Current
  <2> QED BY <1>1, <1>3, <2>1, <2>2 DEF QueueInv
<1>7. OrderInv'
  <2>1. SidesOrder(s, o) /\ SidesOrder(o, s)
    BY <1>1 DEF ChannelInv, OrderInv
  <2>2. SidesOrder(s, o)' /\ SidesOrder(o, s)'
    BY <1>1, <1>2, <1>3, <2>1, EmptyQueue DEF SidesOrder
  <2> QED BY <1>1, <2>2 DEF OrderInv
<1>8. CallOrderInv'
  <2>1. CallOrder(s, o) /\ CallOrder(o, s)
    BY <1>1 DEF ChannelInv, CallOrderInv
  <2>2. CallOrder(s, o)' /\ CallOrder(o, s)'
    BY <1>1, <1>3, <2>1, EmptyQueue DEF CallOrder
  <2> QED BY <1>1, <2>2 DEF CallOrderInv
<1> QED BY <1>4, <1>5, <1>6, <1>7, <1>8 DEF ChannelInv
(* net_receive of a reply: nobody is called who was called before, and the   *)
(* reply is of a request before all those whose replies are still to come.  *)
LEMMA HandleReplyHolds ==
  ASSUME ChannelInv, NEW s \in Sides, HandleReply(s)
  PROVE  ChannelInv'
<1> DEFINE o == Other(s)
           m == Head(batch[s])
<1> USE NetChannelsAssumption
<1>1. /\ o \in Sides /\ Other(o) = s /\ s # o /\ \A t \in Sides : t = s \/ t = o
  BY OtherSide DEF Sides
<1>2. /\ toSide \in [Sides -> Seq(Messages)] /\ batch \in [Sides -> Seq(Messages)]
      /\ batch[s] \in Seq(Messages) /\ toSide[s] \in Seq(Messages)
      /\ batch[o] \in Seq(Messages) /\ toSide[o] \in Seq(Messages)
  BY <1>1 DEF ChannelInv, ChannelTypeOK
<1>3. /\ batch'[s] = Tail(batch[s]) /\ batch'[o] = batch[o] /\ batch[s] # <<>>
      /\ waiting'[s] = {w \in waiting[s] : w.id # m.reply} /\ waiting'[o] = waiting[o]
      /\ UNCHANGED <<live, nextId, toSide, hosting, asks, rebuilt, disturbed>>
  BY <1>1, <1>2 DEF HandleReply, ChannelInv, ChannelTypeOK, StillWaiting
<1>4. /\ m = batch[s][1] /\ 1 \in 1..Len(batch[s]) /\ m \in Messages /\ Len(batch[s]) \in Nat
      /\ IsReply(m) /\ m.ask \in 1..Len(asks) /\ asks[m.ask].by = s
      /\ OwnId(s, m)
  <2>1. m = batch[s][1] /\ 1 \in 1..Len(batch[s]) /\ m \in Messages /\ Len(batch[s]) \in Nat
    BY <1>2, <1>3, Queues
  <2>2. Addressed(asks, s, batch[s]) /\ OwnIds(s, batch[s])
    BY DEF ChannelInv, QueueInv
  <2>3. IsReply(m)
    BY DEF HandleReply, IsReply
  <2> QED BY <2>1, <2>2, <2>3 DEF Addressed, OwnIds, Sound, Asker
<1>5. \/ /\ calls' = calls
      \/ \E w \in waiting[s] : /\ w.id = m.reply
                               /\ calls' = Append(calls, [callback |-> w.ask, with |-> m.ask])
  BY DEF HandleReply
<1>6. ChannelTypeOK'
  <2>1. batch' \in [Sides -> Seq(Messages)]
    BY <1>2, <1>3, Queues DEF HandleReply
  <2>2. waiting' \in [Sides -> SUBSET [id : 1..MaxAsked, ask : 1..MaxAsked]]
    BY DEF HandleReply, ChannelInv, ChannelTypeOK, StillWaiting
  <2>3. calls' \in Seq([callback : 1..MaxAsked, with : 1..MaxAsked])
    <3>1. m.ask \in 1..MaxAsked
      BY <1>4 DEF Messages
    <3>2. \A w \in waiting[s] : w.ask \in 1..MaxAsked
      BY DEF ChannelInv, ChannelTypeOK
    <3>3. calls \in Seq(Calls) /\ \A w \in waiting[s] : [callback |-> w.ask, with |-> m.ask] \in Calls
      BY <3>1, <3>2 DEF ChannelInv, ChannelTypeOK, Calls
    <3>4. \A c \in Calls : Append(calls, c) \in Seq(Calls)
      BY <3>3, CallKeeps
    <3> QED BY <1>5, <3>3, <3>4 DEF Calls
  <2> QED BY <1>3, <2>1, <2>2, <2>3 DEF ChannelInv, ChannelTypeOK
<1>7. AskInv'
  BY <1>3 DEF ChannelInv, AskInv, Rebuilds
<1>8. QueueInv'
  <2>1. /\ Addressed(asks, s, toSide[s]) /\ Addressed(asks, s, Tail(batch[s]))
        /\ Addressed(asks, o, toSide[o]) /\ Addressed(asks, o, batch[o])
    BY <1>1, <1>2, <1>3, TailKeeps DEF ChannelInv, QueueInv
  <2>2. /\ OwnIds(s, toSide[s]) /\ OwnIds(s, Tail(batch[s]))
        /\ OwnIds(o, toSide[o]) /\ OwnIds(o, batch[o])
    BY <1>1, <1>2, <1>3, TailKeeps DEF ChannelInv, QueueInv
  <2>3. \A t \in Sides : waiting'[t] \subseteq waiting[t]
    BY <1>1, <1>3
  <2>4. OwnIds(s, toSide[s])' /\ OwnIds(s, batch[s])' /\ OwnIds(o, toSide[o])' /\ OwnIds(o, batch[o])'
    BY <1>1, <1>3, <2>2, <2>3, OtherSide DEF OwnIds, OwnId, Current, Asker
  <2> QED BY <1>1, <1>3, <2>1, <2>4 DEF QueueInv
<1>9. OrderInv'
  <2>1. SidesOrder(s, o) /\ SidesOrder(o, s)
    BY <1>1 DEF ChannelInv, OrderInv
  <2>2. SidesOrder(s, o)' /\ SidesOrder(o, s)'
    BY <1>1, <1>2, <1>3, <2>1, TailKeeps DEF SidesOrder
  <2> QED BY <1>1, <2>2 DEF OrderInv
<1>10. CallOrder(s, o) /\ CallOrder(o, s) /\ SidesOrder(s, o)
  BY <1>1 DEF ChannelInv, CallOrderInv, OrderInv
<1>11. \A t \in Sides : CalledBefore(asks, calls, t, batch[s], TRUE)
                         => CalledBefore(asks, calls, t, Tail(batch[s]), TRUE)
  BY <1>2, <1>3, TailKeeps, TRUE \in BOOLEAN
<1>12. \A t \in Sides : CalledBefore(asks, calls, t, batch[s], FALSE)
                         => CalledBefore(asks, calls, t, Tail(batch[s]), FALSE)
  BY <1>2, <1>3, TailKeeps, FALSE \in BOOLEAN
<1>13. CASE calls' = calls
  <2>1. WaitingInv'
    <3>1. \A t \in Sides : waiting'[t] \subseteq waiting[t]
      BY <1>1, <1>3
    <3> QED BY <1>3, <1>13, <3>1 DEF ChannelInv, WaitingInv, Called
  <2>2. CallInv' /\ AnsweredAsAsked'
    BY <1>3, <1>13 DEF ChannelInv, CallInv, AnsweredAsAsked, CalledOnce,
              AnsweredInOrder, ReplyOfItsRequestUnlessRebuilt
  <2>3. CallOrder(s, o)' /\ CallOrder(o, s)'
    BY <1>1, <1>3, <1>10, <1>11, <1>12, <1>13 DEF CallOrder
  <2>4. CallOrderInv'
    BY <1>1, <2>3 DEF CallOrderInv
  <2> QED BY <1>6, <1>7, <1>8, <1>9, <2>1, <2>2, <2>4 DEF ChannelInv
<1>14. ASSUME NEW w \in waiting[s], w.id = m.reply,
              calls' = Append(calls, [callback |-> w.ask, with |-> m.ask])
       PROVE  ChannelInv'
  <2> DEFINE c == [callback |-> w.ask, with |-> m.ask]
  <2>1. calls \in Seq(Calls) /\ c \in Calls /\ c.callback = w.ask /\ c.with = m.ask
    <3>1. m.ask \in 1..MaxAsked
      BY <1>4 DEF Messages
    <3>2. w.ask \in 1..MaxAsked
      BY DEF ChannelInv, ChannelTypeOK
    <3> QED BY <3>1, <3>2 DEF ChannelInv, ChannelTypeOK, Calls
  <2>2. calls' = Append(calls, c)
    BY <1>14
  <2> HIDE DEF c, m
  <2>3. /\ Len(calls) \in Nat /\ Len(calls') = Len(calls) + 1
        /\ \A i \in 1..Len(calls) : calls[i] \in Calls /\ calls'[i] = calls[i]
        /\ calls'[Len(calls) + 1] = c
        /\ \A i \in 1..Len(calls') : i \in 1..Len(calls) \/ i = Len(calls) + 1
    BY <2>1, <2>2, CallKeeps
  <2>4. /\ w.ask \in 1..Len(asks) /\ asks[w.ask].by = s /\ asks[w.ask].born = rebuilt[s]
        /\ w.ask \notin Called
        /\ \A x \in waiting[s] : x.id = w.id \/ x.ask = w.ask => x = w
    BY DEF ChannelInv, WaitingInv
  <2>5. WaitingInv'
    <3>1. \A t \in Sides : \A x \in waiting'[t] : x \in waiting[t] /\ x.ask # w.ask
      <4>1. \A x \in waiting'[s] : x \in waiting[s] /\ x.ask # w.ask
        BY <1>3, <1>14, <2>4
      <4>2. \A x \in waiting'[o] : x \in waiting[o] /\ x.ask # w.ask
        BY <1>1, <1>3, <2>4 DEF ChannelInv, WaitingInv
      <4> QED BY <1>1, <4>1, <4>2
    <3>2. \A a \in Called' : a \in Called \/ a = w.ask
      BY <2>1, <2>3 DEF Called
    <3> QED BY <1>3, <3>1, <3>2 DEF ChannelInv, WaitingInv
  <2>6. CallInv'
    BY <1>3, <1>4, <2>1, <2>3, <2>4 DEF ChannelInv, CallInv
  <2>7. CalledOnce'
    <3>1. \A i \in 1..Len(calls) : calls[i].callback # c.callback
      BY <2>1, <2>4 DEF Called
    <3>2. CalledOnce
      BY DEF ChannelInv, AnsweredAsAsked
    <3> QED BY <2>3, <3>1, <3>2 DEF CalledOnce
  <2>8. AnsweredInOrder'
    <3>1. \A i \in 1..Len(calls) : asks[calls[i].callback].by = s => calls[i].with < c.with
      BY <1>4, <1>10, <2>1 DEF CallOrder, CalledBefore
    <3>2. AnsweredInOrder /\ asks[c.callback].by = s
      BY <2>1, <2>4 DEF ChannelInv, AnsweredAsAsked
    <3> QED BY <1>3, <2>3, <3>1, <3>2 DEF AnsweredInOrder
  <2>9. ReplyOfItsRequestUnlessRebuilt'
    <3>1. c.callback # c.with => asks[c.with].born < asks[c.callback].born
      <4>1. rebuilt[s] \in Nat /\ asks[m.ask].born \in Nat
        <5>1. asks \in Seq([by : Sides, born : Nat]) /\ rebuilt \in [Sides -> 0..MaxRebuilds]
          BY DEF ChannelInv, ChannelTypeOK
        <5>2. asks[m.ask] \in [by : Sides, born : Nat]
          BY <1>4, <5>1, ElementOfSeq
        <5> QED BY <5>1, <5>2
      <4>2. asks[m.ask].born <= rebuilt[s]
        BY <1>4 DEF ChannelInv, AskInv
      <4>3. asks[m.ask].born = rebuilt[s] => w.ask = m.ask
        BY <1>4, <1>14 DEF OwnId, Current, Asker, IdOf
      <4> QED BY <2>1, <2>4, <4>1, <4>2, <4>3
    <3>2. ReplyOfItsRequestUnlessRebuilt
      BY DEF ChannelInv, AnsweredAsAsked
    <3>3. asks[c.callback].by = asks[c.with].by
      BY <1>4, <2>1, <2>4
    <3> QED BY <1>3, <2>3, <3>1, <3>2, <3>3 DEF ReplyOfItsRequestUnlessRebuilt
  <2>10. CallOrder(s, o)'
    <3>1. \A i \in 1..Len(Tail(batch[s])) :
              IsReply(Tail(batch[s])[i]) = TRUE => c.with < Tail(batch[s])[i].ask
      <4>1. Sorted(batch[s], TRUE)
        BY <1>10, TRUE \in BOOLEAN DEF SidesOrder
      <4>2. \A i \in 1..Len(Tail(batch[s])) : /\ i + 1 \in 1..Len(batch[s]) /\ 1 < i + 1
                                              /\ Tail(batch[s])[i] = batch[s][i + 1]
        BY <1>2, <1>3, Queues
      <4>3. IsReply(batch[s][1]) = TRUE
        BY <1>4 DEF IsReply
      <4> QED BY <1>4, <2>1, <4>1, <4>2, <4>3 DEF Sorted
    <3>2. /\ \A i \in 1..Len(toSide[s]) : IsReply(toSide[s][i]) = TRUE => c.with < toSide[s][i].ask
          /\ \A i \in 1..Len(batch[o]) : IsReply(batch[o][i]) = FALSE => c.with < batch[o][i].ask
          /\ \A i \in 1..Len(toSide[o]) : IsReply(toSide[o][i]) = FALSE => c.with < toSide[o][i].ask
      <4>1. /\ Behind(batch[s], TRUE, toSide[s], TRUE) /\ Behind(batch[s], TRUE, batch[o], FALSE)
            /\ Behind(batch[s], TRUE, toSide[o], FALSE)
        BY <1>10, TRUE \in BOOLEAN DEF SidesOrder
      <4>2. IsReply(batch[s][1]) = TRUE
        BY <1>4 DEF IsReply
      <4> QED BY <1>4, <2>1, <4>1, <4>2 DEF Behind
    <3>3. /\ CalledBefore(asks, calls, s, Tail(batch[s]), TRUE)
          /\ CalledBefore(asks, calls, s, toSide[s], TRUE)
          /\ CalledBefore(asks, calls, s, batch[o], FALSE)
          /\ CalledBefore(asks, calls, s, toSide[o], FALSE) /\ Tail(batch[s]) \in Seq(Messages)
      BY <1>2, <1>3, <1>10, <1>11, Queues DEF CallOrder
    <3>4. /\ CalledBefore(asks, Append(calls, c), s, Tail(batch[s]), TRUE)
          /\ CalledBefore(asks, Append(calls, c), s, toSide[s], TRUE)
          /\ CalledBefore(asks, Append(calls, c), s, batch[o], FALSE)
          /\ CalledBefore(asks, Append(calls, c), s, toSide[o], FALSE)
      BY <1>2, <2>1, <3>1, <3>2, <3>3, CalledBeforeKeeps, TRUE \in BOOLEAN, FALSE \in BOOLEAN
    <3> QED BY <1>3, <2>2, <3>4 DEF CallOrder
  <2>11. CallOrder(o, s)'
    <3>1. /\ CalledBefore(asks, calls, o, batch[o], TRUE)
          /\ CalledBefore(asks, calls, o, toSide[o], TRUE)
          /\ CalledBefore(asks, calls, o, Tail(batch[s]), FALSE)
          /\ CalledBefore(asks, calls, o, toSide[s], FALSE) /\ Tail(batch[s]) \in Seq(Messages)
      BY <1>1, <1>2, <1>3, <1>10, <1>12, Queues DEF CallOrder
    <3>2. asks[c.callback].by # o
      BY <1>1, <2>1, <2>4
    <3>3. /\ CalledBefore(asks, Append(calls, c), o, batch[o], TRUE)
          /\ CalledBefore(asks, Append(calls, c), o, toSide[o], TRUE)
          /\ CalledBefore(asks, Append(calls, c), o, Tail(batch[s]), FALSE)
          /\ CalledBefore(asks, Append(calls, c), o, toSide[s], FALSE)
      BY <1>1, <1>2, <2>1, <3>1, <3>2, CalledBeforeKeeps, TRUE \in BOOLEAN, FALSE \in BOOLEAN
    <3> QED BY <1>3, <2>2, <3>3 DEF CallOrder
  <2>12. CallOrderInv'
    BY <1>1, <2>10, <2>11 DEF CallOrderInv
  <2> QED BY <1>6, <1>7, <1>8, <1>9, <2>5, <2>6, <2>7, <2>8, <2>9, <2>12
          DEF ChannelInv, AnsweredAsAsked
<1> QED BY <1>5, <1>13, <1>14

(* net_receive of a request: the reply goes behind the replies to earlier    *)
(* requests, and under the ID the request came under.                       *)
LEMMA HandleRequestHolds ==
  ASSUME ChannelInv, NEW s \in Sides, HandleRequest(s)
  PROVE  ChannelInv'
<1> DEFINE o == Other(s)
           m == Head(batch[s])
           r == ReplyTo(m)
           left == Tail(batch[s])
<1> USE NetChannelsAssumption
<1>1. /\ o \in Sides /\ Other(o) = s /\ s # o /\ \A t \in Sides : t = s \/ t = o
  BY OtherSide DEF Sides
<1>2. /\ toSide \in [Sides -> Seq(Messages)] /\ batch \in [Sides -> Seq(Messages)]
      /\ batch[s] \in Seq(Messages) /\ toSide[s] \in Seq(Messages)
      /\ batch[o] \in Seq(Messages) /\ toSide[o] \in Seq(Messages)
  BY <1>1 DEF ChannelInv, ChannelTypeOK
<1>3. /\ batch'[s] = left /\ batch'[o] = batch[o] /\ batch[s] # <<>> /\ toSide'[s] = toSide[s]
      /\ toSide'[o] = toSide[o] \/ toSide'[o] = Append(toSide[o], r)
      /\ UNCHANGED <<live, nextId, waiting, hosting, asks, rebuilt, calls>>
  BY <1>1, <1>2 DEF HandleRequest, Post
<1>4. /\ m = batch[s][1] /\ 1 \in 1..Len(batch[s]) /\ m \in Messages /\ IsReply(m) = FALSE
      /\ m.ask \in 1..Len(asks) /\ asks[m.ask].by = o /\ OwnId(s, m) /\ m.request # 0
  <2>1. m = batch[s][1] /\ 1 \in 1..Len(batch[s]) /\ m \in Messages
    BY <1>2, <1>3, Queues
  <2>2. Addressed(asks, s, batch[s]) /\ OwnIds(s, batch[s])
    BY DEF ChannelInv, QueueInv
  <2>3. IsReply(m) = FALSE
    BY DEF HandleRequest, IsReply
  <2> QED BY <2>1, <2>2, <2>3 DEF Addressed, OwnIds, Sound, Asker, IsReply
<1>5. /\ r \in Messages /\ IsReply(r) = TRUE /\ r.ask = m.ask
      /\ Sound(asks, r) /\ asks[r.ask].by = Asker(o, r) /\ OwnId(o, r)
  <2>1. r.request = 0 /\ r.reply = m.request /\ r.ask = m.ask /\ IsReply(r) = TRUE
    BY <1>4 DEF ReplyTo, IsReply, NoReply
  <2>2. r \in Messages
    BY <1>4 DEF ReplyTo, Messages
  <2>3. OwnId(o, r)
    BY <1>1, <1>4, <2>1 DEF OwnId, Asker, IdOf, Current
  <2> QED BY <1>4, <2>1, <2>2, <2>3 DEF Sound, Asker, NoReply
<1> HIDE DEF m, r
<1>6. /\ left \in Seq(Messages) /\ toSide'[o] \in Seq(Messages)
      /\ \A i \in 1..Len(left) : /\ i + 1 \in 1..Len(batch[s]) /\ 1 < i + 1
                                 /\ left[i] = batch[s][i + 1]
  <2>1. toSide'[o] \in Seq(Messages)
    BY <1>2, <1>3, <1>5, Queues
  <2>2. /\ left \in Seq(Messages) /\ Len(left) = Len(batch[s]) - 1 /\ Len(batch[s]) \in Nat
        /\ \A i \in 1..Len(left) : i + 1 \in 1..Len(batch[s]) /\ left[i] = batch[s][i + 1]
    BY <1>2, <1>3, Queues
  <2> QED BY <2>1, <2>2
<1> HIDE DEF left
<1>7. ChannelTypeOK'
  <2>1. batch' \in [Sides -> Seq(Messages)] /\ toSide' \in [Sides -> Seq(Messages)]
    BY <1>1, <1>2, <1>3, <1>6 DEF HandleRequest, Post
  <2>2. disturbed' \in BOOLEAN
    BY DEF HandleRequest, ChannelInv, ChannelTypeOK
  <2> QED BY <1>3, <2>1, <2>2 DEF ChannelInv, ChannelTypeOK
<1>8. AskInv' /\ WaitingInv' /\ CallInv' /\ AnsweredAsAsked'
  BY <1>3 DEF ChannelInv, AskInv, Rebuilds, WaitingInv, Called, CallInv, AnsweredAsAsked, CalledOnce,
              AnsweredInOrder, ReplyOfItsRequestUnlessRebuilt
<1>9. QueueInv'
  <2>1. /\ Addressed(asks, s, toSide[s]) /\ Addressed(asks, s, left)
        /\ Addressed(asks, o, toSide'[o]) /\ Addressed(asks, o, batch[o])
    BY <1>1, <1>2, <1>3, <1>5, TailKeeps, AppendKeeps DEF ChannelInv, QueueInv, left
  <2>2. /\ OwnIds(s, toSide[s]) /\ OwnIds(s, left)
        /\ OwnIds(o, toSide'[o]) /\ OwnIds(o, batch[o])
    BY <1>1, <1>2, <1>3, <1>5, TailKeeps, AppendKeeps DEF ChannelInv, QueueInv, left
  <2>3. OwnIds(s, toSide[s])' /\ OwnIds(s, batch[s])' /\ OwnIds(o, toSide[o])' /\ OwnIds(o, batch[o])'
    BY <1>1, <1>3, <2>2 DEF OwnIds, OwnId, Current
  <2> QED BY <1>1, <1>3, <2>1, <2>3 DEF QueueInv
<1>10. SidesOrder(s, o) /\ SidesOrder(o, s)
  BY <1>1 DEF ChannelInv, OrderInv
<1>11. SidesOrder(s, o)'
  <2>1. /\ Sorted(left, TRUE) /\ Sorted(left, FALSE)
        /\ Behind(left, TRUE, toSide[s], TRUE) /\ Behind(left, FALSE, toSide[s], FALSE)
        /\ Behind(left, TRUE, batch[o], FALSE) /\ Behind(left, TRUE, toSide[o], FALSE)
    BY <1>2, <1>3, <1>10, TailKeeps, TRUE \in BOOLEAN, FALSE \in BOOLEAN DEF SidesOrder, left
  <2>2. Behind(left, TRUE, toSide'[o], FALSE) /\ Behind(toSide[s], TRUE, toSide'[o], FALSE)
    BY <1>2, <1>3, <1>5, <1>6, <1>10, <2>1, AppendKeeps, TRUE \in BOOLEAN, FALSE \in BOOLEAN
       DEF SidesOrder
  <2> QED BY <1>3, <1>10, <2>1, <2>2 DEF SidesOrder
<1>12. SidesOrder(o, s)'
  <2>1. /\ After(toSide[o], TRUE, r) /\ After(batch[o], TRUE, r)
        /\ Ahead(left, FALSE, r) /\ Ahead(toSide[s], FALSE, r)
    <3>1. /\ Behind(toSide[o], TRUE, batch[s], FALSE) /\ Behind(batch[o], TRUE, batch[s], FALSE)
          /\ Sorted(batch[s], FALSE) /\ Behind(batch[s], FALSE, toSide[s], FALSE)
      BY <1>10, FALSE \in BOOLEAN DEF SidesOrder
    <3> QED BY <1>4, <1>5, <1>6, <3>1 DEF Behind, Sorted, After, Ahead
  <2>2. /\ Behind(batch[o], TRUE, left, FALSE) /\ Behind(toSide[o], TRUE, left, FALSE)
    BY <1>2, <1>3, <1>10, TailKeeps, TRUE \in BOOLEAN, FALSE \in BOOLEAN DEF SidesOrder, left
  <2>3. Behind(toSide'[o], TRUE, left, FALSE) /\ Behind(toSide'[o], TRUE, toSide[s], FALSE)
    BY <1>2, <1>3, <1>5, <1>6, <1>10, <2>1, <2>2, AppendKeeps, TRUE \in BOOLEAN, FALSE \in BOOLEAN
       DEF SidesOrder
  <2>4. \A back \in BOOLEAN : Sorted(toSide'[o], back) /\ Behind(batch[o], back, toSide'[o], back)
    <3>1. \A back \in BOOLEAN : Sorted(toSide[o], back) /\ Behind(batch[o], back, toSide[o], back)
      BY <1>10 DEF SidesOrder
    <3>2. \A back \in BOOLEAN : IsReply(r) = back => back = TRUE
      BY <1>5
    <3> QED BY <1>2, <1>3, <1>5, <2>1, <3>1, <3>2, AppendKeeps
  <2> QED BY <1>3, <1>10, <2>2, <2>3, <2>4 DEF SidesOrder
<1>13. CallOrder(s, o) /\ CallOrder(o, s)
  BY <1>1 DEF ChannelInv, CallOrderInv
<1>14. CallOrder(s, o)'
  <2>1. CalledBefore(asks, calls, s, left, TRUE)
    BY <1>2, <1>3, <1>13, TailKeeps, TRUE \in BOOLEAN DEF CallOrder, left
  <2>2. CalledBefore(asks, calls, s, toSide'[o], FALSE)
    BY <1>2, <1>3, <1>5, <1>13, AppendKeeps, FALSE \in BOOLEAN DEF CallOrder
  <2> QED BY <1>3, <1>13, <2>1, <2>2 DEF CallOrder
<1>15. CallOrder(o, s)'
  <2>1. CalledBefore(asks, calls, o, left, FALSE)
    BY <1>1, <1>2, <1>3, <1>13, TailKeeps, FALSE \in BOOLEAN DEF CallOrder, left
  <2>2. CalledAhead(asks, calls, o, r)
    BY <1>4, <1>5, <1>13 DEF CallOrder, CalledBefore, CalledAhead
  <2>3. CalledBefore(asks, calls, o, toSide'[o], TRUE)
    <3>1. CalledBefore(asks, calls, o, toSide[o], TRUE)
      BY <1>1, <1>13 DEF CallOrder
    <3>2. CalledBefore(asks, calls, o, Append(toSide[o], r), TRUE)
      BY <1>1, <1>2, <1>5, <2>2, <3>1, AppendKeeps, TRUE \in BOOLEAN
    <3> QED BY <1>3, <3>1, <3>2
  <2> QED BY <1>3, <1>13, <2>1, <2>3 DEF CallOrder
<1> QED BY <1>1, <1>7, <1>8, <1>9, <1>11, <1>12, <1>14, <1>15 DEF ChannelInv, OrderInv, CallOrderInv

(* net_request: the new ID was not given in this incarnation, and the        *)
(* request is the last made.                                                *)
LEMMA AskHolds ==
  ASSUME ChannelInv, NEW s \in Sides, Ask(s)
  PROVE  ChannelInv'
<1> DEFINE o == Other(s)
           Asks == [by : Sides, born : Nat]
<1>0. PICK n, id, r, asked, new, q :
           /\ n = Len(asks) + 1 /\ id = nextId[s] /\ r = Request(id, n) /\ q = toSide[o]
           /\ asked = [by |-> s, born |-> rebuilt[s]] /\ new = [id |-> id, ask |-> n]
  OBVIOUS
<1> USE NetChannelsAssumption
<1>1. /\ o \in Sides /\ Other(o) = s /\ s # o /\ \A t \in Sides : t = s \/ t = o
  BY OtherSide DEF Sides
<1>2. /\ toSide \in [Sides -> Seq(Messages)] /\ batch \in [Sides -> Seq(Messages)]
      /\ batch[s] \in Seq(Messages) /\ toSide[s] \in Seq(Messages)
      /\ batch[o] \in Seq(Messages) /\ toSide[o] \in Seq(Messages)
  BY <1>1 DEF ChannelInv, ChannelTypeOK
<1>3. /\ nextId \in [Sides -> 1..(MaxAsked + 1)] /\ rebuilt \in [Sides -> 0..MaxRebuilds]
      /\ asks \in Seq(Asks) /\ Len(asks) \in Nat /\ Len(asks) < MaxAsked /\ asked \in Asks
      /\ n \in Nat /\ n = Len(asks) + 1 /\ id = nextId[s]
      /\ \A t \in Sides : nextId[t] \in Nat /\ nextId[t] <= Len(asks) + 1 /\ rebuilt[t] \in Nat
      /\ nextId[s] \in 1..MaxAsked
  <2>1. /\ nextId \in [Sides -> 1..(MaxAsked + 1)] /\ rebuilt \in [Sides -> 0..MaxRebuilds]
        /\ asks \in Seq(Asks) /\ Len(asks) < MaxAsked
    BY DEF ChannelInv, ChannelTypeOK, Ask
  <2>2. Len(asks) \in Nat
    BY <2>1, LenProperties
  <2>3. \A t \in Sides : nextId[t] <= Len(asks) + 1
    BY DEF ChannelInv, AskInv
  <2>4. asked \in Asks
    BY <1>0, <2>1
  <2>5. nextId[s] \in Nat /\ nextId[s] # 0 /\ \A t \in Sides : rebuilt[t] \in Nat /\ nextId[t] \in Nat
    BY <2>1
  <2> QED BY <1>0, <2>1, <2>2, <2>3, <2>4, <2>5
<1>n. /\ Len(asks) \in Nat /\ n = Len(asks) + 1 /\ id \in Nat /\ id = nextId[s]
      /\ MaxAsked \in Nat /\ Len(asks) < MaxAsked
  BY <1>3
<1>r. \A t \in Sides : nextId[t] \in Nat /\ nextId[t] <= Len(asks) + 1 /\ rebuilt[t] \in Nat
  BY <1>3
<1>4. /\ toSide'[s] = toSide[s]
      /\ toSide'[o] = q \/ toSide'[o] = Append(q, r)
      /\ nextId'[s] = id + 1 /\ nextId'[o] = nextId[o]
      /\ waiting'[s] = {w \in waiting[s] : w.id # id} \cup {new} /\ waiting'[o] = waiting[o]
      /\ asks' = Append(asks, asked)
      /\ UNCHANGED <<live, batch, hosting, rebuilt, calls>>
  <2>1. waiting \in [Sides -> SUBSET [id : 1..MaxAsked, ask : 1..MaxAsked]]
    BY DEF ChannelInv, ChannelTypeOK
  <2>2. toSide'[s] = toSide[s] /\ (toSide'[o] = q \/ toSide'[o] = Append(q, r))
    BY <1>0, <1>1, <1>2 DEF Ask, Post
  <2>3. nextId'[s] = id + 1 /\ nextId'[o] = nextId[o]
    BY <1>0, <1>1, <1>3 DEF Ask, IdAfter
  <2>4. waiting'[s] = {w \in waiting[s] : w.id # id} \cup {new} /\ waiting'[o] = waiting[o]
    BY <1>0, <1>1, <2>1 DEF Ask
  <2>5. asks' = Append(asks, asked) /\ UNCHANGED <<live, batch, hosting, rebuilt, calls>>
    BY <1>0 DEF Ask
  <2> QED BY <2>2, <2>3, <2>4, <2>5
<1>5. /\ Len(asks') = n /\ asks' \in Seq(Asks) /\ asks'[n] = asked
      /\ \A a \in 1..Len(asks) : asks'[a] = asks[a] /\ asks[a] \in Asks
      /\ \A a \in 1..n : a \in 1..Len(asks) \/ a = n
  <2>1. Append(asks, asked) \in Seq(Asks) /\ Len(Append(asks, asked)) = Len(asks) + 1
    BY <1>3, AppendProperties
  <2>2. /\ \A a \in 1..Len(asks) : Append(asks, asked)[a] = asks[a]
        /\ Append(asks, asked)[Len(asks) + 1] = asked
    BY <1>3, AppendProperties
  <2>3. \A a \in 1..Len(asks) : asks[a] \in Asks
    BY <1>3, ElementOfSeq
  <2>4. \A a \in 1..n : a \in 1..Len(asks) \/ a = n
    BY <1>n
  <2> QED BY <1>n, <1>4, <2>1, <2>2, <2>3, <2>4
<1>6. /\ r \in Messages /\ IsReply(r) = FALSE /\ r.ask = n /\ IdOf(r) = id
      /\ Sound(asks', r) /\ asks'[r.ask].by = Asker(o, r)
  <2>1. r.request = id /\ r.reply = 0 /\ r.ask = n /\ IsReply(r) = FALSE
    BY <1>0 DEF Request, IsReply, NoReply
  <2>2. r \in Messages
    <3>1. n \in 1..MaxAsked /\ id \in 0..MaxAsked /\ 0 \in 0..MaxAsked
      BY <1>3
    <3> QED BY <1>0, <3>1 DEF Request, Messages, NoReply
  <2>3. IdOf(r) = id
    BY <2>1 DEF IdOf
  <2>4. Sound(asks', r)
    BY <1>3, <1>5, <2>1 DEF Sound, NoReply
  <2>5. asks'[r.ask].by = Asker(o, r)
    BY <1>0, <1>1, <1>5, <2>1 DEF Asker
  <2> QED BY <2>1, <2>2, <2>3, <2>4, <2>5
<1>7. /\ toSide'[o] \in Seq(Messages) /\ q \in Seq(Messages) /\ q = toSide[o]
      /\ \A i \in 1..Len(toSide'[o]) : \/ toSide'[o][i] = r
                                      \/ (i \in 1..Len(q) /\ toSide'[o][i] = q[i])
  <2>1. /\ q \in Seq(Messages) /\ q = toSide[o] /\ Len(q) \in Nat
        /\ Append(q, r) \in Seq(Messages) /\ Len(Append(q, r)) = Len(q) + 1
        /\ \A i \in 1..Len(q) : Append(q, r)[i] = q[i]
        /\ Append(q, r)[Len(q) + 1] = r
    BY <1>0, <1>2, <1>6, Queues
  <2>2. \A i \in 1..Len(Append(q, r)) : \/ Append(q, r)[i] = r
                                       \/ (i \in 1..Len(q) /\ Append(q, r)[i] = q[i])
    BY <2>1
  <2> QED BY <1>4, <2>1, <2>2
<1>8. ChannelTypeOK'
  <2>1. toSide' \in [Sides -> Seq(Messages)] /\ batch' \in [Sides -> Seq(Messages)]
    BY <1>1, <1>2, <1>4, <1>7 DEF Ask, Post
  <2>2. nextId' \in [Sides -> 1..(MaxAsked + 1)]
    <3>1. nextId[s] + 1 \in 1..(MaxAsked + 1)
      BY <1>3
    <3> QED BY <1>3, <3>1 DEF Ask, IdAfter
  <2>3. waiting' \in [Sides -> SUBSET [id : 1..MaxAsked, ask : 1..MaxAsked]]
    <3>1. waiting \in [Sides -> SUBSET [id : 1..MaxAsked, ask : 1..MaxAsked]]
      BY DEF ChannelInv, ChannelTypeOK
    <3>2. id \in 1..MaxAsked /\ n \in 1..MaxAsked
      BY <1>3
    <3>3. new \in [id : 1..MaxAsked, ask : 1..MaxAsked]
      BY <1>0, <3>2
    <3> QED BY <1>0, <3>1, <3>3 DEF Ask
  <2>4. disturbed' \in BOOLEAN
    BY DEF Ask, ChannelInv, ChannelTypeOK
  <2> QED BY <1>4, <1>5, <2>1, <2>2, <2>3, <2>4 DEF ChannelInv, ChannelTypeOK
<1>9. /\ \A i \in 1..Len(calls) : calls[i].callback \in 1..Len(asks) /\ calls[i].with \in 1..Len(asks)
      /\ Len(calls) \in Nat
  <2>1. calls \in Seq(Calls)
    BY DEF ChannelInv, ChannelTypeOK, Calls
  <2>2. Len(calls) \in Nat /\ \A i \in 1..Len(calls) : calls[i] \in Calls
    BY <2>1, LenProperties, ElementOfSeq
  <2> QED BY <1>3, <2>2 DEF ChannelInv, CallInv, Calls
<1>10. AskInv' /\ CallInv'
  <2>1. AskInv'
    <3>1. \A t \in Sides : nextId'[t] <= n + 1
      BY <1>1, <1>n, <1>r, <1>4
    <3>2. \A a \in 1..n : asks'[a].born <= rebuilt[asks'[a].by]
      <4>1. \A a \in 1..Len(asks) : asks[a].born <= rebuilt[asks[a].by]
        BY DEF ChannelInv, AskInv
      <4>2. asked.born <= rebuilt[asked.by]
        BY <1>0, <1>3
      <4> QED BY <1>5, <4>1, <4>2
    <3>3. \A t \in Sides : rebuilt'[t] <= Rebuilds'
      BY <1>4 DEF ChannelInv, AskInv, Rebuilds
    <3>4. Len(asks') = n /\ n <= MaxAsked /\ rebuilt' = rebuilt
      BY <1>n, <1>4, <1>5
    <3> QED BY <3>1, <3>2, <3>3, <3>4 DEF AskInv
  <2>2. CallInv'
    BY <1>n, <1>4, <1>5, <1>9 DEF CallInv
  <2> QED BY <2>1, <2>2
<1>11. AnsweredAsAsked'
  <2>1. CalledOnce /\ AnsweredInOrder /\ ReplyOfItsRequestUnlessRebuilt
    BY DEF ChannelInv, AnsweredAsAsked
  <2>2. CalledOnce'
    BY <1>4, <2>1 DEF CalledOnce
  <2>3. AnsweredInOrder'
    <3>1. /\ calls' = calls
          /\ \A i \in 1..Len(calls) : asks'[calls[i].callback] = asks[calls[i].callback]
      BY <1>4, <1>5, <1>9
    <3> QED BY <2>1, <3>1 DEF AnsweredInOrder
  <2>4. ReplyOfItsRequestUnlessRebuilt'
    BY <1>4, <1>5, <1>9, <2>1 DEF ReplyOfItsRequestUnlessRebuilt
  <2> QED BY <2>2, <2>3, <2>4 DEF AnsweredAsAsked
<1>12. WaitingInv'
  <2>1. \A a \in Called : a \in 1..Len(asks)
    BY <1>9 DEF Called
  <2>2. Called' = Called
    BY <1>4 DEF Called
  <2>3. \A t \in Sides : \A w \in waiting[t] :
           /\ w.id < nextId[t] /\ w.ask \in 1..Len(asks) /\ w.ask \notin Called
           /\ asks[w.ask].by = t /\ asks[w.ask].born = rebuilt[t] /\ w.id \in Nat
           /\ \A x \in waiting[t] : x.id = w.id \/ x.ask = w.ask => x = w
    <3>1. \A t \in Sides : \A w \in waiting[t] : w.id \in Nat
      BY DEF ChannelInv, ChannelTypeOK
    <3> QED BY <3>1 DEF ChannelInv, WaitingInv
  <2>4. \A w \in waiting[o] :
           /\ w.id < nextId'[o] /\ w.ask \in 1..Len(asks') /\ w.ask \notin Called'
           /\ asks'[w.ask].by = o /\ asks'[w.ask].born = rebuilt'[o]
    BY <1>1, <1>n, <1>4, <1>5, <2>2, <2>3
  <2>5. \A w \in waiting'[s] \ {new} :
           /\ w \in waiting[s]
           /\ w.id < nextId'[s] /\ w.ask \in 1..Len(asks') /\ w.ask \notin Called'
           /\ asks'[w.ask].by = s /\ asks'[w.ask].born = rebuilt'[s]
           /\ w.id # id /\ w.ask # n
    <3>1. \A w \in waiting'[s] \ {new} : w \in waiting[s] /\ w.id # id
      BY <1>4
    <3> QED BY <1>1, <1>n, <1>4, <1>5, <2>2, <2>3, <3>1
  <2>6. /\ new.id < nextId'[s] /\ new.ask \in 1..Len(asks') /\ new.ask \notin Called'
        /\ asks'[new.ask].by = s /\ asks'[new.ask].born = rebuilt'[s]
        /\ new.id = id /\ new.ask = n
    <3>1. new.id = id /\ new.ask = n /\ asked.by = s /\ asked.born = rebuilt[s]
      BY <1>0
    <3> QED BY <1>3, <1>4, <1>5, <2>1, <2>2, <3>1
  <2>7. \A w, x \in waiting'[s] : x.id = w.id \/ x.ask = w.ask => x = w
    BY <2>3, <2>5, <2>6
  <2>8. \A w \in waiting'[s] :
           /\ w.id < nextId'[s] /\ w.ask \in 1..Len(asks') /\ w.ask \notin Called'
           /\ asks'[w.ask].by = s /\ asks'[w.ask].born = rebuilt'[s]
    BY <2>5, <2>6
  <2>9. \A w, x \in waiting'[o] : x.id = w.id \/ x.ask = w.ask => x = w
    BY <1>1, <1>4, <2>3
  <2> QED BY <1>1, <1>4, <2>4, <2>7, <2>8, <2>9 DEF WaitingInv
<1>13. \A t \in Sides, p \in Seq(Messages) :
           Addressed(asks, t, p) => /\ Addressed(asks', t, p)
                                    /\ \A i \in 1..Len(p) : p[i].ask < n
  <2> SUFFICES ASSUME NEW t \in Sides, NEW p \in Seq(Messages), Addressed(asks, t, p),
                      NEW i \in 1..Len(p)
               PROVE  /\ Sound(asks', p[i]) /\ asks'[p[i].ask].by = Asker(t, p[i])
                      /\ p[i].ask < n
    BY DEF Addressed
  <2>1. Sound(asks, p[i]) /\ asks[p[i].ask].by = Asker(t, p[i])
    BY DEF Addressed
  <2>2. p[i].ask \in 1..Len(asks) /\ asks'[p[i].ask] = asks[p[i].ask] /\ p[i].ask < n
    BY <1>n, <1>5, <2>1 DEF Sound
  <2>3. p[i].ask \in 1..Len(asks')
    BY <1>n, <1>5, <2>2
  <2> QED BY <2>1, <2>2, <2>3 DEF Sound
<1>14. \A t \in Sides, p \in Seq(Messages) :
           Addressed(asks, t, p) /\ OwnIds(t, p) => OwnIds(t, p)'
  <2> SUFFICES ASSUME NEW t \in Sides, NEW p \in Seq(Messages),
                      Addressed(asks, t, p), OwnIds(t, p), NEW i \in 1..Len(p)
               PROVE  OwnId(t, p[i])'
    BY DEF OwnIds
  <2> DEFINE m == p[i]
             u == Asker(t, m)
  <2>1. m \in Messages /\ m.ask \in 1..Len(asks) /\ OwnId(t, m) /\ u \in Sides /\ IdOf(m) \in Nat
    <3>1. m \in Messages
      BY Queues
    <3> QED BY <3>1, OtherSide DEF Addressed, Sound, OwnIds, Asker, IdOf, Messages
  <2> HIDE DEF m, u
  <2>2. Current(m, u)' => Current(m, u)
    BY <1>4, <1>5, <2>1 DEF Current
  <2>3. Current(m, u) => IdOf(m) < nextId[u] /\ \A w \in waiting[u] : w.id = IdOf(m) => w.ask = m.ask
    BY <2>1 DEF OwnId, u
  <2>4. Current(m, u) => IdOf(m) < nextId'[u]
    <3>1. nextId[u] \in Nat /\ (nextId'[u] = nextId[u] \/ nextId'[u] = nextId[u] + 1)
      BY <1>1, <1>n, <1>r, <1>4, <2>1
    <3> QED BY <2>1, <2>3, <3>1
  <2>5. Current(m, u) => \A w \in waiting'[u] : w.id = IdOf(m) => w.ask = m.ask
    <3>1. CASE u = s
      BY <1>0, <1>n, <1>4, <2>1, <2>3, <3>1
    <3>2. CASE u = o
      BY <1>4, <2>3, <3>2
    <3> QED BY <1>1, <2>1, <3>1, <3>2
  <2> QED BY <2>2, <2>4, <2>5 DEF OwnId, u, m
<1>15. OwnId(o, r)'
  <2>1. Asker(o, r) = s
    BY <1>1, <1>6 DEF Asker
  <2>2. \A w \in waiting'[s] : w.id = id => w.ask = n
    BY <1>0, <1>4
  <2> QED BY <1>3, <1>4, <1>6, <2>1, <2>2 DEF OwnId
<1>16. /\ Addressed(asks, s, toSide[s]) /\ Addressed(asks, s, batch[s])
       /\ Addressed(asks, o, q) /\ Addressed(asks, o, batch[o])
       /\ OwnIds(s, toSide[s]) /\ OwnIds(s, batch[s])
       /\ OwnIds(o, q) /\ OwnIds(o, batch[o])
  BY <1>0, <1>1 DEF ChannelInv, QueueInv
<1>17. QueueInv'
  <2>1. /\ Addressed(asks', s, toSide'[s]) /\ Addressed(asks', s, batch'[s])
        /\ Addressed(asks', o, toSide'[o]) /\ Addressed(asks', o, batch'[o])
    <3>1. Addressed(asks', o, q)
      BY <1>1, <1>7, <1>13, <1>16
    <3>2. Addressed(asks', o, toSide'[o])
      BY <1>6, <1>7, <3>1 DEF Addressed
    <3> QED BY <1>1, <1>2, <1>4, <1>13, <1>16, <3>2
  <2>2. OwnIds(s, batch[s])' /\ OwnIds(o, batch[o])' /\ OwnIds(s, toSide[s])'
    <3>1. \A i \in 1..Len(batch[s]) : OwnId(s, batch[s][i])'
      BY <1>2, <1>4, <1>14, <1>16 DEF OwnIds
    <3>2. \A i \in 1..Len(batch[o]) : OwnId(o, batch[o][i])'
      BY <1>1, <1>2, <1>4, <1>14, <1>16 DEF OwnIds
    <3>3. \A i \in 1..Len(toSide[s]) : OwnId(s, toSide[s][i])'
      BY <1>2, <1>4, <1>14, <1>16 DEF OwnIds
    <3> QED BY <1>4, <3>1, <3>2, <3>3 DEF OwnIds
  <2>3. OwnIds(o, toSide[o])'
    <3>1. OwnIds(o, q)'
      BY <1>1, <1>7, <1>14, <1>16
    <3> QED BY <1>7, <1>15, <3>1 DEF OwnIds
  <2> QED BY <1>1, <2>1, <2>2, <2>3 DEF QueueInv
<1>18. SidesOrder(s, o) /\ SidesOrder(o, s)
  BY <1>1 DEF ChannelInv, OrderInv
<1>19. /\ \A back \in BOOLEAN : /\ After(q, back, r) /\ After(batch[o], back, r)
                                /\ After(toSide[s], back, r) /\ After(batch[s], back, r)
  BY <1>1, <1>2, <1>6, <1>7, <1>13, <1>16 DEF After
<1>20. SidesOrder(s, o)'
  <2>1. Behind(batch[s], TRUE, toSide'[o], FALSE) /\ Behind(toSide[s], TRUE, toSide'[o], FALSE)
    BY <1>2, <1>4, <1>6, <1>7, <1>18, <1>19, AppendKeeps, TRUE \in BOOLEAN, FALSE \in BOOLEAN DEF SidesOrder
  <2> QED BY <1>4, <1>18, <2>1 DEF SidesOrder
<1>21. SidesOrder(o, s)'
  <2>1. Behind(toSide'[o], TRUE, batch[s], FALSE) /\ Behind(toSide'[o], TRUE, toSide[s], FALSE)
    BY <1>2, <1>4, <1>6, <1>7, <1>18, AppendKeeps, TRUE \in BOOLEAN, FALSE \in BOOLEAN DEF SidesOrder
  <2>2. \A back \in BOOLEAN : Sorted(toSide'[o], back) /\ Behind(batch[o], back, toSide'[o], back)
    <3>1. \A back \in BOOLEAN : Sorted(q, back) /\ Behind(batch[o], back, q, back)
      BY <1>7, <1>18 DEF SidesOrder
    <3>2. \A back \in BOOLEAN : /\ Sorted(Append(q, r), back)
                               /\ Behind(batch[o], back, Append(q, r), back)
      BY <1>1, <1>2, <1>6, <1>7, <1>19, <3>1, AppendKeeps
    <3> QED BY <1>4, <3>1, <3>2
  <2> QED BY <1>4, <1>18, <2>1, <2>2 DEF SidesOrder
<1>22. CallOrder(s, o) /\ CallOrder(o, s)
  BY <1>1 DEF ChannelInv, CallOrderInv
<1>23. \A t \in Sides, p \in Seq(Messages), back \in BOOLEAN :
           CalledBefore(asks, calls, t, p, back) => CalledBefore(asks', calls, t, p, back)
  BY <1>5, <1>9 DEF CalledBefore
<1>24. \A t \in Sides : CalledAhead(asks', calls, t, r)
  <2>1. \A i \in 1..Len(calls) : calls[i].with < r.ask
    BY <1>n, <1>6, <1>9
  <2> QED BY <2>1 DEF CalledAhead
<1>25. CallOrder(s, o)'
  <2>1. /\ CalledBefore(asks', calls, s, batch[s], TRUE) /\ CalledBefore(asks', calls, s, toSide[s], TRUE)
        /\ CalledBefore(asks', calls, s, batch[o], FALSE) /\ CalledBefore(asks', calls, s, toSide[o], FALSE)
    BY <1>2, <1>22, <1>23, TRUE \in BOOLEAN, FALSE \in BOOLEAN DEF CallOrder
  <2>2. CalledBefore(asks', calls, s, toSide'[o], FALSE)
    BY <1>6, <1>7, <1>24, <2>1 DEF CalledBefore, CalledAhead
  <2> QED BY <1>4, <2>1, <2>2 DEF CallOrder
<1>26. CallOrder(o, s)'
  <2>1. /\ CalledBefore(asks', calls, o, batch[o], TRUE) /\ CalledBefore(asks', calls, o, toSide[o], TRUE)
        /\ CalledBefore(asks', calls, o, batch[s], FALSE) /\ CalledBefore(asks', calls, o, toSide[s], FALSE)
    BY <1>1, <1>2, <1>22, <1>23, TRUE \in BOOLEAN, FALSE \in BOOLEAN DEF CallOrder
  <2>2. CalledBefore(asks', calls, o, toSide'[o], TRUE)
    BY <1>1, <1>6, <1>7, <1>24, <2>1 DEF CalledBefore, CalledAhead
  <2> QED BY <1>4, <2>1, <2>2 DEF CallOrder
<1> QED BY <1>1, <1>8, <1>10, <1>11, <1>12, <1>17, <1>20, <1>21, <1>25, <1>26
        DEF ChannelInv, OrderInv, CallOrderInv

(* A rebuild: none of the requests before is of the incarnation that begins, *)
(* so that its IDs can be given again.                                      *)
LEMMA ForgetHolds ==
  ASSUME ChannelInv, NEW S \in SUBSET Sides, Forget(S), Rebuilds < MaxRebuilds,
         "Client" \in S,
         live' \in [Sides -> BOOLEAN], live'["Server"]
  PROVE  ChannelInv'
<1> USE NetChannelsAssumption
<1>1. /\ \A t \in S : waiting'[t] = {} /\ rebuilt'[t] = rebuilt[t] + 1 /\ nextId'[t] = 1
      /\ \A t \in Sides \ S : waiting'[t] = waiting[t] /\ rebuilt'[t] = rebuilt[t] /\ nextId'[t] = nextId[t]
      /\ UNCHANGED <<toSide, batch, hosting, asks, calls>>
  BY DEF Forget
<1>2. /\ nextId \in [Sides -> 1..(MaxAsked + 1)] /\ rebuilt \in [Sides -> 0..MaxRebuilds]
      /\ asks \in Seq([by : Sides, born : Nat]) /\ Len(asks) \in Nat
  BY LenProperties DEF ChannelInv, ChannelTypeOK
<1>3. \A t \in Sides : rebuilt[t] \in Nat /\ (t \in S => rebuilt[t] + 1 \in 0..MaxRebuilds)
  <2>1. \A t \in Sides : rebuilt[t] \in Nat
    BY <1>2
  <2>2. rebuilt["Client"] \in Nat /\ rebuilt["Client"] < MaxRebuilds
    BY <2>1 DEF Rebuilds
  <2>3. \A t \in Sides : rebuilt[t] <= rebuilt["Client"]
    BY DEF ChannelInv, AskInv, Rebuilds
  <2> QED BY <2>1, <2>2, <2>3
<1>4. ChannelTypeOK'
  <2>1. nextId' \in [Sides -> 1..(MaxAsked + 1)]
    <3>1. 1 \in 1..(MaxAsked + 1)
      OBVIOUS
    <3> QED BY <1>2, <3>1 DEF Forget
  <2>2. rebuilt' \in [Sides -> 0..MaxRebuilds]
    BY <1>2, <1>3 DEF Forget
  <2>3. waiting' \in [Sides -> SUBSET [id : 1..MaxAsked, ask : 1..MaxAsked]]
    BY DEF Forget, ChannelInv, ChannelTypeOK
  <2>4. disturbed' \in BOOLEAN
    BY DEF Forget
  <2> QED BY <1>1, <2>1, <2>2, <2>3, <2>4 DEF ChannelInv, ChannelTypeOK
<1>5. \A a \in 1..Len(asks) : /\ asks[a].born \in Nat /\ asks[a].by \in Sides
                             /\ asks[a].born <= rebuilt[asks[a].by]
  <2>1. \A a \in 1..Len(asks) : asks[a] \in [by : Sides, born : Nat]
    BY <1>2, ElementOfSeq
  <2> QED BY <2>1 DEF ChannelInv, AskInv
<1>6. AskInv'
  <2>1. \A t \in Sides : nextId'[t] <= Len(asks) + 1
    <3>1. \A t \in Sides : nextId[t] <= Len(asks) + 1
      BY DEF ChannelInv, AskInv
    <3>2. 1 <= Len(asks) + 1
      BY <1>2
    <3> QED BY <1>1, <3>1, <3>2
  <2>2. \A a \in 1..Len(asks) : asks[a].born <= rebuilt'[asks[a].by]
    BY <1>1, <1>3, <1>5
  <2>3. \A t \in Sides : rebuilt'[t] <= Rebuilds'
    <3>1. \A t \in Sides : rebuilt[t] <= rebuilt["Client"]
      BY DEF ChannelInv, AskInv, Rebuilds
    <3>2. rebuilt'["Client"] = rebuilt["Client"] + 1 /\ rebuilt["Client"] \in Nat
      BY <1>1, <1>3
    <3>3. \A t \in Sides : rebuilt'[t] = rebuilt[t] \/ rebuilt'[t] = rebuilt[t] + 1
      BY <1>1
    <3> QED BY <1>3, <3>1, <3>2, <3>3 DEF Rebuilds
  <2> QED BY <1>1, <2>1, <2>2, <2>3 DEF ChannelInv, AskInv
<1>7. WaitingInv' /\ CallInv' /\ AnsweredAsAsked'
  <2>1. \A t \in Sides : \A w \in waiting'[t] : t \notin S
    BY <1>1
  <2>2. Called' = Called
    BY <1>1 DEF Called
  <2>3. WaitingInv'
    BY <1>1, <2>1, <2>2 DEF ChannelInv, WaitingInv
  <2> QED BY <1>1, <2>3 DEF ChannelInv, CallInv, AnsweredAsAsked, CalledOnce,
                             AnsweredInOrder, ReplyOfItsRequestUnlessRebuilt
<1>8. \A t \in Sides, p \in Seq(Messages) :
          Addressed(asks, t, p) /\ OwnIds(t, p) => OwnIds(t, p)'
  <2> SUFFICES ASSUME NEW t \in Sides, NEW p \in Seq(Messages),
                      Addressed(asks, t, p), OwnIds(t, p), NEW i \in 1..Len(p)
               PROVE  OwnId(t, p[i])'
    BY DEF OwnIds
  <2>1. /\ p[i].ask \in 1..Len(asks) /\ asks[p[i].ask].by = Asker(t, p[i]) /\ OwnId(t, p[i])
        /\ Asker(t, p[i]) \in Sides
    BY OtherSide DEF Addressed, OwnIds, Sound, Asker
  <2>2. CASE Asker(t, p[i]) \in S
    <3>1. asks[p[i].ask].born # rebuilt'[Asker(t, p[i])]
      BY <1>1, <1>3, <1>5, <2>1, <2>2
    <3> QED BY <1>1, <3>1 DEF OwnId, Current
  <2>3. CASE Asker(t, p[i]) \notin S
    BY <1>1, <2>1, <2>3 DEF OwnId, Current
  <2> QED BY <2>2, <2>3
<1>9. QueueInv'
  <2> SUFFICES ASSUME NEW t \in Sides
               PROVE  /\ Addressed(asks, t, toSide[t]) /\ Addressed(asks, t, batch[t])
                      /\ OwnIds(t, toSide[t])' /\ OwnIds(t, batch[t])'
    BY <1>1 DEF QueueInv
  <2>1. /\ Addressed(asks, t, toSide[t]) /\ Addressed(asks, t, batch[t])
        /\ OwnIds(t, toSide[t]) /\ OwnIds(t, batch[t])
        /\ toSide[t] \in Seq(Messages) /\ batch[t] \in Seq(Messages)
    BY DEF ChannelInv, QueueInv, ChannelTypeOK
  <2>2. PICK p, b : p = toSide[t] /\ b = batch[t]
    OBVIOUS
  <2>3. OwnIds(t, p)' /\ OwnIds(t, b)'
    BY <1>8, <2>1, <2>2
  <2>4. p = toSide'[t] /\ b = batch'[t]
    BY <1>1, <2>2
  <2> QED BY <2>1, <2>3, <2>4
<1>10. OrderInv' /\ CallOrderInv'
  BY <1>1 DEF ChannelInv, OrderInv, SidesOrder, CallOrderInv, CallOrder
<1> QED BY <1>4, <1>6, <1>7, <1>9, <1>10 DEF ChannelInv

(* What happens to the server leaves the requests alone.                    *)
LEMMA UnchangedHolds ==
  ASSUME ChannelInv, live' \in [Sides -> BOOLEAN], live'["Server"], hosting' \in BOOLEAN,
         UNCHANGED <<nextId, waiting, toSide, batch, asks, rebuilt, calls, disturbed>>
  PROVE  ChannelInv'
<1>1. ChannelTypeOK' /\ AskInv'
  BY DEF ChannelInv, ChannelTypeOK, AskInv, Rebuilds
<1>2. WaitingInv' /\ CallInv' /\ AnsweredAsAsked'
  <2>1. WaitingInv' /\ CallInv'
    BY DEF ChannelInv, WaitingInv, Called, CallInv
  <2>2. AnsweredAsAsked'
    BY DEF ChannelInv, AnsweredAsAsked, CalledOnce, AnsweredInOrder, ReplyOfItsRequestUnlessRebuilt
  <2> QED BY <2>1, <2>2
<1>3. QueueInv'
  BY DEF ChannelInv, QueueInv, OwnIds, OwnId, Current
<1>4. OrderInv' /\ CallOrderInv'
  BY DEF ChannelInv, OrderInv, SidesOrder, CallOrderInv, CallOrder
<1> QED BY <1>1, <1>2, <1>3, <1>4 DEF ChannelInv
-----------------------------------------------------------------------------
(* Every step keeps the invariant.                                          *)
LEMMA StepHolds == ChannelInv /\ [ChannelNext]_channelVars => ChannelInv'
<1> SUFFICES ASSUME ChannelInv, [ChannelNext]_channelVars PROVE ChannelInv'
  OBVIOUS
<1>1. live \in [Sides -> BOOLEAN] /\ live["Server"] /\ hosting \in BOOLEAN
  BY DEF ChannelInv, ChannelTypeOK
<1>2. CASE \E s \in Sides : Ask(s) \/ Side(s)
  BY <1>2, AskHolds, DrainHolds, HandleReplyHolds, HandleRequestHolds DEF Side
<1>3. CASE Reset
  <2>1. Sides \in SUBSET Sides /\ "Client" \in Sides
    BY DEF Sides
  <2> QED BY <1>1, <1>3, <2>1, ForgetHolds DEF Reset
<1>4. CASE CloseClient
  <2>1. {"Client"} \in SUBSET Sides /\ live' \in [Sides -> BOOLEAN] /\ live'["Server"]
    BY <1>1, <1>4 DEF CloseClient, Closed, Sides
  <2> QED BY <1>4, <2>1, ForgetHolds DEF CloseClient
<1>5. CASE BuildClient
  BY <1>1, <1>5, UnchangedHolds DEF BuildClient, Sides
<1>6. CASE HostingChanges
  BY <1>1, <1>6, UnchangedHolds DEF HostingChanges
<1>7. CASE UNCHANGED channelVars
  BY <1>1, <1>7, UnchangedHolds DEF channelVars
<1> QED BY <1>2, <1>3, <1>4, <1>5, <1>6, <1>7 DEF ChannelNext

(* The types of the variables.                                              *)
THEOREM ChannelTyped == ChannelSpec => []ChannelTypeOK
<1>1. ChannelInv => ChannelTypeOK
  BY DEF ChannelInv
<1> QED BY <1>1, InitHolds, StepHolds, PTL DEF ChannelSpec

(* A callback is called once and the replies of all incarnations come in the *)
(* order of the requests; a reply that is not the callback's own is of an    *)
(* incarnation before, whatever is reset, however often, whoever asks whom  *)
(* (net_requests and net_receive of the prelude, src/src/lua_host.cpp).     *)
THEOREM RequestsAnsweredAsAsked == ChannelSpec => []AnsweredAsAsked
<1>1. ChannelInv => AnsweredAsAsked
  BY DEF ChannelInv
<1> QED BY <1>1, InitHolds, StepHolds, PTL DEF ChannelSpec
=============================================================================
