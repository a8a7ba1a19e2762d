----------------------------- MODULE NetProofs -------------------------------
(***************************************************************************)
(* Proofs about the messages of Ext.Net: that each one reaches the machines *)
(* that it is for, once, in a form that they read (NetPosts), that the      *)
(* extender's protocol comes before the game's in every peer (NetWire), and *)
(* that no machine is sent a message before its hello (ExtenderNet).        *)
(***************************************************************************)
EXTENDS ExtenderNet, NetPosts, NetWire, SequenceTheorems, TLAPS

Versions == {kVersionInitial, kVersionCurrent}
Posts == {NoPost}
    \cup [at : {"flag"}, to : AllPeers \cup {NoOne}, exclude : AllPeers \cup {NoOne},
          form : Versions]
    \cup [at : {"local", "find", "done"}, to : AllPeers \cup {NoOne},
          exclude : AllPeers \cup {NoOne}, form : Versions, says : Versions]
    \cup [at : {"send", "done"}, to : AllPeers \cup {NoOne}, exclude : AllPeers \cup {NoOne},
          form : Versions, says : Versions, left : SUBSET AllPeers]

RouteTyped ==
    /\ versions \in [AllPeers -> {Unknown} \cup Versions] /\ active \subseteq AllPeers
    /\ forced \in BOOLEAN /\ unforced \in BOOLEAN /\ raced \in BOOLEAN
    /\ host \in [hosting : BOOLEAN, running : BOOLEAN, connected : BOOLEAN,
                 version : {Unknown} \cup Versions]
    /\ post \in Posts /\ copies \in [AllPeers -> Nat]

(* What was read for the message is still so of the peers of which nothing  *)
(* changed; and of all of them, until one does while it waits for its flag. *)
StillSo ==
    /\ unforced => ~forced
    /\ post.at # "idle" => \A p \in steady \cap Known : post.form <= versions[p]
    /\ post.at = "flag" /\ ~raced => post.form = SharedVersion
    /\ post.at \notin {"idle", "flag"} /\ ~raced => post.says = post.form

(* How many copies there are at each step of a message's way.               *)
Reaches(p) == Addressed(p) /\ p \in Known /\ (post.to = NoOne => p \in active)
OwnHas == unforced => copies[OwnPeer] = IF Addressed(OwnPeer) THEN 1 ELSE 0
Sending(p) ==
    /\ copies[p] <= 1 /\ (copies[p] = 1 => Addressed(p))
    /\ p \in post.left => copies[p] = 0 /\ Addressed(p)
    /\ p \in steady => /\ p \in post.left => p \in Known
                       /\ copies[p] = 1 <=> p \notin post.left /\ Reaches(p)
Sent(p) ==
    /\ copies[p] <= 1 /\ (copies[p] = 1 => Addressed(p))
    /\ p \in steady => (copies[p] = 1 <=> Reaches(p))
CopiesInv ==
    /\ post.at \in {"flag", "local"} => \A p \in AllPeers : copies[p] = 0
    /\ post.at = "find" => /\ \A p \in RemotePeers : copies[p] = 0
                           /\ OwnHas /\ (unforced => post.to # OwnPeer)
    /\ post.at = "send" => /\ \A p \in RemotePeers : Sending(p)
                           /\ OwnHas /\ (unforced => OwnPeer \notin post.left)
    /\ post.at = "done" => OwnHas /\ \A p \in RemotePeers : Sent(p)

ServerReads == toServer.at = "sent" /\ toServer.to # "nowhere" => toServer.form <= toServer.reads

RouteInv == RouteTyped /\ StillSo /\ CopiesInv /\ ServerReads

-----------------------------------------------------------------------------
(* The form that every peer known reads.                                    *)
LEMMA SharedIsRead ==
  ASSUME RouteTyped
  PROVE  SharedVersion \in Versions /\ \A p \in Known : SharedVersion <= versions[p]
  BY DEF RouteTyped, SharedVersion, Known, Versions, kVersionInitial, kVersionCurrent, Unknown

(* The peers on other machines are the others than the host's own client.   *)
LEMMA OwnOrRemote ==
  /\ \A p \in RemotePeers : p \in AllPeers /\ p # OwnPeer
  /\ OwnPeer \in AllPeers /\ NoOne # OwnPeer
  BY NetPostsAssumption DEF AllPeers

(* Nothing was posted yet.                                                  *)
LEMMA RouteStarts == ASSUME RouteInit PROVE RouteInv
  <1>1. RouteTyped
    BY DEF RouteInit, RouteTyped, Posts, Versions, Unknown
  <1>2. post.at = "idle" /\ toServer.at = "idle" BY DEF RouteInit, NoPost
  <1>3. ~forced BY DEF RouteInit
  <1>. QED BY <1>1, <1>2, <1>3 DEF RouteInv, StillSo, CopiesInv, ServerReads

(* What the peers' thread does to one peer leaves what was found of every   *)
(* other, and of that one nothing is said from then on.                     *)
LEMMA PeerChanges ==
  ASSUME RouteInv, PeersChange, NEW p \in AllPeers, Unsettles(p), forced' = forced, host' = host,
         versions' \in [AllPeers -> {Unknown} \cup Versions], active' \subseteq AllPeers,
         \A q \in AllPeers : q # p => versions'[q] = versions[q] /\ (q \in active' <=> q \in active)
  PROVE  RouteInv'
  <1>1. /\ post' = post /\ copies' = copies /\ toServer' = toServer /\ unforced' = unforced
        /\ steady' = steady \ {p} /\ raced' = (raced \/ (post.at = "flag" /\ versions' # versions))
    BY DEF PeersChange, Unsettles
  <1>2. RouteTyped'
    <2>1. raced' \in BOOLEAN BY <1>1 DEF RouteInv, RouteTyped
    <2>. QED BY <1>1, <2>1 DEF RouteInv, RouteTyped
  <1>3. \A q \in steady' : q \in steady /\ (q \in AllPeers =>
            /\ versions'[q] = versions[q] /\ (q \in Known <=> q \in Known')
            /\ (q \in active' <=> q \in active))
    BY <1>1 DEF Known
  <1>4. StillSo'
    <2>1. ~raced' => ~raced /\ (post.at = "flag" => versions' = versions) BY <1>1
    <2>2. versions' = versions => SharedVersion' = SharedVersion BY DEF SharedVersion, Known
    <2>3. \A q \in Known' : q \in AllPeers BY DEF Known
    <2>. QED BY <1>1, <1>3, <2>1, <2>2, <2>3 DEF RouteInv, StillSo
  <1>5. \A q \in AllPeers : (Addressed(q))' = Addressed(q) BY <1>1 DEF Addressed
  <1>6. OwnHas' = OwnHas BY <1>1, <1>5, OwnOrRemote DEF OwnHas
  <1>7. ASSUME NEW q \in RemotePeers PROVE (Sending(q) => Sending(q)') /\ (Sent(q) => Sent(q)')
    <2>1. q \in AllPeers BY OwnOrRemote
    <2>2. q \in steady' => (Reaches(q) <=> Reaches(q)') BY <1>1, <1>3, <1>5, <2>1 DEF Reaches
    <2>. QED BY <1>1, <1>3, <1>5, <2>1, <2>2 DEF Sending, Sent
  <1>8. CopiesInv' BY <1>1, <1>6, <1>7 DEF RouteInv, CopiesInv
  <1>9. ServerReads' BY <1>1 DEF RouteInv, ServerReads
  <1>. QED BY <1>2, <1>4, <1>8, <1>9 DEF RouteInv

(* A step that changes neither the message nor what it rests on.            *)
LEMMA OtherHolds ==
  ASSUME RouteInv, UNCHANGED <<versions, active, post, copies, steady, raced>>,
         forced' \in BOOLEAN, unforced' \in BOOLEAN,
         unforced' => unforced /\ ~forced',
         host' \in [hosting : BOOLEAN, running : BOOLEAN, connected : BOOLEAN,
                    version : {Unknown} \cup Versions],
         ServerReads'
  PROVE  RouteInv'
  <1>1. RouteTyped' BY DEF RouteInv, RouteTyped
  <1>2. Known' = Known /\ SharedVersion' = SharedVersion BY DEF Known, SharedVersion
  <1>3. StillSo' BY <1>2 DEF RouteInv, StillSo
  <1>4. \A q : (Addressed(q)' = Addressed(q)) /\ (Reaches(q)' <=> Reaches(q))
    BY <1>2 DEF Addressed, Reaches
  <1>5. OwnHas => OwnHas' BY <1>4 DEF OwnHas
  <1>6. \A q : (Sending(q) => Sending(q)') /\ (Sent(q) => Sent(q)') BY <1>2, <1>4 DEF Sending, Sent
  <1>7. CopiesInv' BY <1>5, <1>6 DEF RouteInv, CopiesInv
  <1>. QED BY <1>1, <1>3, <1>7 DEF RouteInv

(* A message is begun with the form that the peers known now share.         *)
LEMMA StringifyHolds == ASSUME RouteInv, Stringify PROVE RouteInv'
  <1>1. /\ UNCHANGED <<versions, active, forced, host, toServer>>
        /\ copies' = [p \in AllPeers |-> 0] /\ steady' = AllPeers /\ raced' = FALSE
        /\ unforced' = ~forced
    BY DEF Stringify
  <1>2. PICK to \in AllPeers \cup {NoOne}, exclude \in AllPeers \cup {NoOne} :
          post' = [at |-> "flag", to |-> to, exclude |-> exclude, form |-> SharedVersion]
    BY DEF Stringify
  <1>3. SharedVersion \in Versions /\ \A p \in Known : SharedVersion <= versions[p]
    BY SharedIsRead DEF RouteInv
  <1>4. post' \in Posts BY <1>2, <1>3 DEF Posts
  <1>5. RouteTyped' BY <1>1, <1>4 DEF RouteInv, RouteTyped
  <1>6. post'.at = "flag" /\ post'.form = SharedVersion BY <1>2
  <1>7. Known' = Known /\ SharedVersion' = SharedVersion BY <1>1 DEF Known, SharedVersion
  <1>8. StillSo' BY <1>1, <1>3, <1>6, <1>7 DEF StillSo
  <1>9. CopiesInv' BY <1>1, <1>6 DEF CopiesInv
  <1>10. ServerReads' BY <1>1 DEF RouteInv, ServerReads
  <1>. QED BY <1>5, <1>8, <1>9, <1>10 DEF RouteInv

(* While it is under way, only the message and its copies change.           *)
Kept == UNCHANGED <<versions, active, forced, host, toServer, steady, raced, unforced>>
(* A step of one message leaves the peers as they are.                      *)
LEMMA Keeps ==
  ASSUME Kept, RouteInv
  PROVE  /\ Known' = Known /\ SharedVersion' = SharedVersion /\ ServerReads'
         /\ post' \in Posts /\ copies' \in [AllPeers -> Nat] => RouteTyped'
  BY DEF Kept, Known, SharedVersion, RouteInv, ServerReads, RouteTyped

(* The message says which form it has.                                      *)
LEMMA BinaryHolds == ASSUME RouteInv, IsBinary PROVE RouteInv'
  <1>1. Kept /\ copies' = copies BY DEF IsBinary, routeHistory, Kept
  <1>2. post.at = "flag"
    /\ post' = [at |-> "local", to |-> post.to, exclude |-> post.exclude, form |-> post.form,
                says |-> SharedVersion]
    BY DEF IsBinary
  <1>3. /\ post.to \in AllPeers \cup {NoOne} /\ post.exclude \in AllPeers \cup {NoOne}
        /\ post.form \in Versions
    BY <1>2 DEF RouteInv, RouteTyped, Posts, NoPost
  <1>4. SharedVersion \in Versions BY SharedIsRead DEF RouteInv
  <1>5. post' \in Posts BY <1>2, <1>3, <1>4 DEF Posts
  <1>6. RouteTyped' BY <1>1, <1>5, Keeps DEF RouteInv, RouteTyped
  <1>7. post'.at = "local" /\ post'.form = post.form /\ post'.says = SharedVersion BY <1>2
  <1>8. StillSo' BY <1>1, <1>2, <1>7, Keeps DEF Kept, RouteInv, StillSo
  <1>9. CopiesInv' BY <1>1, <1>2, <1>7 DEF RouteInv, CopiesInv
  <1>. QED BY <1>1, <1>6, <1>8, <1>9, Keeps DEF RouteInv

(* It goes to this machine's other state, when it is for that one.          *)
LEMMA LocalHolds == ASSUME RouteInv, PostToOtherContext PROVE RouteInv'
  <1>1. Kept /\ post.at = "local" BY DEF PostToOtherContext, routeHistory, Kept
  <1>2. /\ post.to \in AllPeers \cup {NoOne} /\ post.exclude \in AllPeers \cup {NoOne}
        /\ \A a \in {"find", "done"} : /\ [post EXCEPT !.at = a] \in Posts
                                       /\ [post EXCEPT !.at = a].at = a
                                       /\ [post EXCEPT !.at = a].to = post.to
                                       /\ [post EXCEPT !.at = a].exclude = post.exclude
                                       /\ [post EXCEPT !.at = a].form = post.form
                                       /\ [post EXCEPT !.at = a].says = post.says
    BY <1>1 DEF RouteInv, RouteTyped, Posts, NoPost
  <1>3. copies \in [AllPeers -> Nat] /\ \A p \in AllPeers : copies[p] = 0
    BY <1>1 DEF RouteInv, RouteTyped, CopiesInv
  <1>4. CASE post' = NoPost /\ copies' = copies
    <2>1. post'.at = "idle" /\ post' \in Posts BY <1>4 DEF NoPost, Posts
    <2>2. RouteTyped' BY <1>1, <1>3, <1>4, <2>1, Keeps
    <2>3. StillSo' BY <1>1, <2>1 DEF Kept, RouteInv, StillSo
    <2>4. CopiesInv' BY <2>1 DEF CopiesInv
    <2>. QED BY <1>1, <2>2, <2>3, <2>4, Keeps DEF RouteInv
  <1>5. CASE /\ copies' = IF ForThisMachine THEN [copies EXCEPT ![OwnPeer] = @ + 1] ELSE copies
             /\ post' = IF ForThisMachine /\ post.to # NoOne THEN [post EXCEPT !.at = "done"]
                                                         ELSE [post EXCEPT !.at = "find"]
    <2>1. /\ post'.to = post.to /\ post'.exclude = post.exclude /\ post'.form = post.form
          /\ post'.says = post.says /\ post' \in Posts
          /\ post'.at = IF ForThisMachine /\ post.to # NoOne THEN "done" ELSE "find"
      BY <1>2, <1>5
    <2>2. /\ copies' \in [AllPeers -> Nat]
          /\ \A p \in AllPeers : copies'[p] = IF p = OwnPeer /\ ForThisMachine THEN 1 ELSE 0
      BY <1>3, <1>5, OwnOrRemote
    <2>3. RouteTyped' BY <1>1, <2>1, <2>2, Keeps
    <2>4. StillSo' BY <1>1, <2>1, Keeps DEF Kept, RouteInv, StillSo
    <2>5. unforced => LocalPeer = OwnPeer BY DEF LocalPeer, RouteInv, StillSo
    <2>6. unforced => (ForThisMachine <=> Addressed(OwnPeer)) /\ (post.to = OwnPeer => ForThisMachine)
      BY <1>2, <2>5, OwnOrRemote DEF ForThisMachine, Addressed
    <2>7. \A p : Addressed(p)' = Addressed(p) BY <2>1 DEF Addressed
    <2>8. OwnHas' BY <1>1, <2>2, <2>6, <2>7, OwnOrRemote DEF Kept, OwnHas
    <2>9. \A p \in RemotePeers : copies'[p] = 0 BY <2>2, OwnOrRemote
    <2>10. CASE ForThisMachine /\ post.to # NoOne
      <3>1. post.to \notin RemotePeers BY <2>10, OwnOrRemote, NetPostsAssumption
                                       DEF ForThisMachine, LocalPeer, AllPeers
      <3>2. \A p \in RemotePeers : ~Reaches(p)' BY <2>1, <2>10, <3>1 DEF Reaches, Addressed
      <3>3. \A p \in RemotePeers : Sent(p)' BY <2>9, <3>2 DEF Sent
      <3>. QED BY <1>1, <2>1, <2>3, <2>4, <2>8, <2>10, <3>3, Keeps DEF RouteInv, CopiesInv
    <2>11. CASE ~(ForThisMachine /\ post.to # NoOne)
      <3>1. unforced' => post'.to # OwnPeer BY <1>1, <2>1, <2>6, <2>11, OwnOrRemote DEF Kept
      <3>. QED BY <1>1, <2>1, <2>3, <2>4, <2>8, <2>9, <2>11, <3>1, Keeps DEF RouteInv, CopiesInv
    <2>. QED BY <2>10, <2>11
  <1>. QED BY <1>4, <1>5 DEF PostToOtherContext

(* The peers that it goes to besides are looked up.                         *)
LEMMA LookUpHolds == ASSUME RouteInv, LookUp PROVE RouteInv'
  <1>1. Kept /\ post.at = "find" /\ copies' = copies BY DEF LookUp, routeHistory, Kept
  <1>. DEFINE left == IF post.to = NoOne THEN BroadcastPeers ELSE {post.to} \cap Known
  <1>2. post' = [at |-> "send", to |-> post.to, exclude |-> post.exclude, form |-> post.form,
                 says |-> post.says, left |-> left]
    BY DEF LookUp
  <1>3. /\ post.to \in AllPeers \cup {NoOne} /\ post.exclude \in AllPeers \cup {NoOne}
        /\ post.form \in Versions /\ post.says \in Versions
    BY <1>1 DEF RouteInv, RouteTyped, Posts, NoPost
  <1>4. left \in SUBSET AllPeers BY DEF BroadcastPeers, Known
  <1>5. \A p \in RemotePeers : p \in left <=> p \in Known /\ Addressed(p)
    BY OwnOrRemote, NetPostsAssumption DEF BroadcastPeers, Addressed, LocalPeer, Known, AllPeers
  <1>6. unforced => OwnPeer \notin left
    BY <1>1 DEF BroadcastPeers, LocalPeer, RouteInv, StillSo, CopiesInv
  <1>. HIDE DEF left
  <1>7. /\ post'.at = "send" /\ post'.to = post.to /\ post'.exclude = post.exclude
        /\ post'.form = post.form /\ post'.says = post.says /\ post'.left = left
    BY <1>2
  <1>8. post' \in Posts BY <1>2, <1>3, <1>4 DEF Posts
  <1>9. RouteTyped' BY <1>1, <1>8, Keeps DEF RouteInv, RouteTyped
  <1>10. StillSo' BY <1>1, <1>7, Keeps DEF Kept, RouteInv, StillSo
  <1>11. \A p : Addressed(p)' = Addressed(p) BY <1>7 DEF Addressed
  <1>12. ASSUME NEW p \in RemotePeers PROVE Sending(p)'
    <2>1. copies'[p] = 0 BY <1>1 DEF RouteInv, CopiesInv
    <2>2. Reaches(p)' => p \in left BY <1>1, <1>5, <1>11, Keeps DEF Reaches
    <2>. QED BY <1>1, <1>5, <1>7, <1>11, <2>1, <2>2, Keeps DEF Sending
  <1>13. OwnHas' BY <1>1, <1>11 DEF Kept, OwnHas, RouteInv, CopiesInv
  <1>14. CopiesInv' BY <1>1, <1>6, <1>7, <1>12, <1>13 DEF Kept, CopiesInv
  <1>. QED BY <1>1, <1>9, <1>10, <1>14, Keeps DEF RouteInv

(* And it is sent to each of them.                                          *)
LEMMA SendHolds == ASSUME RouteInv, SendOne PROVE RouteInv'
  <1>1. Kept /\ post.at = "send" BY DEF SendOne, routeHistory, Kept
  <1>2. /\ post.left \in SUBSET AllPeers
        /\ \A left \in SUBSET AllPeers, a \in {"send", "done"} :
              LET q == [post EXCEPT !.at = a]
                  r == [post EXCEPT !.left = left]
              IN  /\ q \in Posts /\ q.at = a /\ q.to = post.to /\ q.exclude = post.exclude
                  /\ q.form = post.form /\ q.says = post.says
                  /\ r \in Posts /\ r.at = "send" /\ r.to = post.to /\ r.exclude = post.exclude
                  /\ r.form = post.form /\ r.says = post.says /\ r.left = left
    BY <1>1 DEF RouteInv, RouteTyped, Posts, NoPost
  <1>3. /\ copies \in [AllPeers -> Nat] /\ OwnHas /\ (unforced => OwnPeer \notin post.left)
        /\ \A p \in RemotePeers : Sending(p)
    BY <1>1 DEF RouteInv, RouteTyped, CopiesInv
  <1>4. CASE post.left = {} /\ post' = [post EXCEPT !.at = "done"] /\ copies' = copies
    <2>1. /\ post'.at = "done" /\ post'.to = post.to /\ post'.exclude = post.exclude
          /\ post'.form = post.form /\ post'.says = post.says /\ post' \in Posts
      BY <1>2, <1>4
    <2>2. RouteTyped' BY <1>1, <1>3, <1>4, <2>1, Keeps
    <2>3. StillSo' BY <1>1, <2>1, Keeps DEF Kept, RouteInv, StillSo
    <2>4. \A p : Addressed(p)' = Addressed(p) /\ (Reaches(p)' <=> Reaches(p))
      BY <1>1, <2>1, Keeps DEF Kept, Addressed, Reaches
    <2>5. \A p \in RemotePeers : Sent(p)' BY <1>1, <1>3, <1>4, <2>4 DEF Kept, Sending, Sent
    <2>6. OwnHas' BY <1>1, <1>3, <1>4, <2>4 DEF Kept, OwnHas
    <2>7. CopiesInv' BY <2>1, <2>5, <2>6 DEF CopiesInv
    <2>. QED BY <1>1, <2>2, <2>3, <2>7, Keeps DEF RouteInv
  <1>5. ASSUME NEW p \in post.left, post' = [post EXCEPT !.left = @ \ {p}],
               copies' = IF post.to = NoOne => p \in active
                         THEN [copies EXCEPT ![p] = @ + 1] ELSE copies
        PROVE  RouteInv'
    <2>. DEFINE left == post.left \ {p}
    <2>0. left \in SUBSET AllPeers /\ post' = [post EXCEPT !.left = left] /\ p \in AllPeers
      BY <1>2, <1>5
    <2>. HIDE DEF left
    <2>1. /\ post'.at = "send" /\ post'.to = post.to /\ post'.exclude = post.exclude
          /\ post'.form = post.form /\ post'.says = post.says
          /\ post'.left = left /\ post' \in Posts
      BY <1>2, <2>0
    <2>2. /\ copies' \in [AllPeers -> Nat]
          /\ \A q \in AllPeers : copies'[q] = IF q = p /\ (post.to = NoOne => p \in active)
                                              THEN copies[q] + 1 ELSE copies[q]
      BY <1>3, <1>5, <2>0
    <2>3. RouteTyped' BY <1>1, <2>1, <2>2, Keeps
    <2>4. StillSo' BY <1>1, <2>1, Keeps DEF Kept, RouteInv, StillSo
    <2>5. \A q : Addressed(q)' = Addressed(q) /\ (Reaches(q)' <=> Reaches(q))
      BY <1>1, <2>1, Keeps DEF Kept, Addressed, Reaches
    <2>6. ASSUME NEW q \in RemotePeers PROVE Sending(q)'
      <3>1. Sending(q) /\ q \in AllPeers BY <1>3, OwnOrRemote
      <3>2. CASE q = p
        <4>1. copies[q] = 0 /\ Addressed(q) /\ (q \in steady => q \in Known)
          BY <1>5, <3>1, <3>2 DEF Sending
        <4>2. q \notin left BY <3>2 DEF left
        <4>3. copies'[q] = IF post.to = NoOne => p \in active THEN 1 ELSE 0 BY <2>2, <3>1, <3>2, <4>1
        <4>4. q \in steady => (Reaches(q) <=> (post.to = NoOne => p \in active))
          BY <3>2, <4>1 DEF Reaches
        <4>. QED BY <1>1, <2>1, <2>5, <4>1, <4>2, <4>3, <4>4 DEF Kept, Sending
      <3>3. CASE q # p
        <4>1. copies'[q] = copies[q] /\ (q \in left <=> q \in post.left) BY <2>2, <3>1, <3>3 DEF left
        <4>. QED BY <1>1, <2>1, <2>5, <3>1, <4>1, Keeps DEF Kept, Sending
      <3>. QED BY <3>2, <3>3
    <2>7. OwnHas' /\ (unforced' => OwnPeer \notin post'.left)
      <3>1. unforced => p # OwnPeer BY <1>3, <1>5
      <3>. QED BY <1>1, <1>3, <2>1, <2>2, <2>5, <3>1, OwnOrRemote DEF Kept, OwnHas, left
    <2>8. CopiesInv' BY <2>1, <2>6, <2>7 DEF CopiesInv
    <2>. QED BY <1>1, <2>3, <2>4, <2>8, Keeps DEF RouteInv
  <1>. QED BY <1>4, <1>5 DEF SendOne

(* The next one.                                                            *)
LEMMA NextHolds == ASSUME RouteInv, NextMessage PROVE RouteInv'
  <1>1. Kept /\ copies' = copies /\ post'.at = "idle" /\ post' \in Posts
    BY DEF NextMessage, routeHistory, Kept, NoPost, Posts
  <1>2. RouteTyped' BY <1>1, Keeps DEF RouteInv, RouteTyped
  <1>3. StillSo' /\ CopiesInv' BY <1>1 DEF Kept, RouteInv, StillSo, CopiesInv
  <1>. QED BY <1>1, <1>2, <1>3, Keeps DEF RouteInv

(* The client's own messages: what it is told of its server is what is read *)
(* there, and less where it is told nothing.                                *)
LEMMA ServerHolds == ASSUME RouteInv, PostToServer PROVE RouteInv'
  <1>1. UNCHANGED <<versions, active, forced, host, post, copies, steady, raced, unforced>>
    BY DEF PostToServer, routeHistory
  <1>2. /\ host.version \in {Unknown} \cup Versions
        /\ toServer'.form = HostVersion
        /\ toServer'.reads = IF Hosting \/ Running THEN kVersionCurrent ELSE host.version
        /\ toServer'.to # "nowhere" => Hosting \/ Running \/ host.version # Unknown
    BY DEF PostToServer, RouteInv, RouteTyped
  <1>3. ServerReads'
    BY <1>2 DEF ServerReads, HostVersion, Versions, Unknown, kVersionInitial, kVersionCurrent
  <1>4. (unforced => ~forced) /\ forced \in BOOLEAN /\ unforced \in BOOLEAN
    BY DEF RouteInv, RouteTyped, StillSo
  <1>. QED BY <1>1, <1>3, <1>4, OtherHolds DEF RouteInv, RouteTyped

-----------------------------------------------------------------------------
(* Every step keeps the invariant.                                          *)
LEMMA RouteHolds == ASSUME RouteInv, [RouteNext]_routeVars PROVE RouteInv'
  <1>0. /\ versions \in [AllPeers -> {Unknown} \cup Versions] /\ active \subseteq AllPeers
        /\ (unforced => ~forced) /\ forced \in BOOLEAN /\ unforced \in BOOLEAN /\ ServerReads
        /\ host \in [hosting : BOOLEAN, running : BOOLEAN, connected : BOOLEAN,
                     version : {Unknown} \cup Versions]
    BY DEF RouteInv, RouteTyped, StillSo
  <1>1. ASSUME NEW p \in AllPeers, Hello(p) PROVE RouteInv'
    <2>1. PICK v \in Versions : versions' = [versions EXCEPT ![p] = v]
      BY <1>1 DEF Hello, Versions
    <2>. QED BY <1>0, <1>1, <2>1, PeerChanges DEF Hello
  <1>2. ASSUME NEW p \in AllPeers, ClientConnects(p) PROVE RouteInv'
    <2>1. /\ versions' \in [AllPeers -> {Unknown} \cup Versions]
          /\ \A q \in AllPeers : q # p => versions'[q] = versions[q]
      BY <1>0, <1>2 DEF ClientConnects
    <2>. QED BY <1>0, <1>2, <2>1, PeerChanges DEF ClientConnects
  <1>3. ASSUME NEW p \in AllPeers, PeerLeaves(p) PROVE RouteInv'
    BY <1>0, <1>3, PeerChanges DEF PeerLeaves
  <1>4. ASSUME NEW on \in BOOLEAN, ForceRemote(on) PROVE RouteInv'
    <2>1. ServerReads' BY <1>0, <1>4 DEF ForceRemote, PeersChange, ServerReads
    <2>. QED BY <1>0, <1>4, <2>1, OtherHolds DEF ForceRemote, PeersChange
  <1>5. CASE ClientLearns
    <2>1. ServerReads' BY <1>0, <1>5 DEF ClientLearns, PeersChange, ServerReads
    <2>2. host' \in [hosting : BOOLEAN, running : BOOLEAN, connected : BOOLEAN,
                     version : {Unknown} \cup Versions]
      BY <1>5 DEF ClientLearns, Versions
    <2>. QED BY <1>0, <1>5, <2>1, <2>2, OtherHolds DEF ClientLearns, PeersChange, routeHistory
  <1>6. CASE UNCHANGED routeVars
    <2>1. ServerReads' BY <1>0, <1>6 DEF routeVars, ServerReads
    <2>. QED BY <1>0, <1>6, <2>1, OtherHolds DEF routeVars
  <1>. QED BY <1>1, <1>2, <1>3, <1>4, <1>5, <1>6, StringifyHolds, BinaryHolds, LocalHolds,
              LookUpHolds, SendHolds, NextHolds, ServerHolds
           DEF RouteNext, ServerRoutes, ClientRoutes

(***************************************************************************)
(* While any peers say hello, connect or leave and the switch is turned, at *)
(* each step of its way, a message of Ext.Net goes to no machine twice and  *)
(* to none that it is not for; a peer of which nothing changed meanwhile    *)
(* has it if it is for that one, in a form that it reads; the host's own    *)
(* client has it once, unless the switch was on; and the flag is of another *)
(* form only when some peer's version changed between the two looks         *)
(* (PostMessageToUser, BroadcastMessage and PostMessageToServer with        *)
(* net.cpp's server_send, server_broadcast and client_send).  For any       *)
(* peers, messages and changes.                                             *)
(***************************************************************************)
THEOREM MessagesRouted == RouteSpec => []RoutedAsAsked
  <1>1. RouteInv => RoutedAsAsked
    <2>. SUFFICES ASSUME RouteInv PROVE RoutedAsAsked OBVIOUS
    <2>1. EachAddressedOnce
      BY DEF RouteInv, CopiesInv, Sent, Reaches, OwnHas, EachAddressedOnce
    <2>2. post.at = "done" =>
            /\ ~raced => post.says = post.form
            /\ \A p \in steady \cap Known : post.form <= versions[p]
      BY DEF RouteInv, StillSo
    <2>3. post.at = "done" => \A p \in RemotePeers \cap steady : copies[p] = 1 => p \in Known
      BY DEF RouteInv, CopiesInv, Sent, Reaches
    <2>4. raced \in BOOLEAN BY DEF RouteInv, RouteTyped
    <2>5. FormIsUnderstood BY <2>2, <2>3, <2>4 DEF FormIsUnderstood, RouteInv, ServerReads
    <2>. QED BY <2>1, <2>5 DEF RoutedAsAsked
  <1>. QED BY <1>1, RouteStarts, RouteHolds, PTL DEF RouteSpec

-----------------------------------------------------------------------------
(* How the extender gets into a peer.  A peer p of which c was checked, x   *)
(* was returned, and where ClientConnect's hook is h: the extender's        *)
(* protocol is nowhere but first, and unless a peer came back where another *)
(* was (r), one that was checked is as bg3le knows it.                      *)
Protocols == {"game", "ours"}
Places == PeerAddresses \cup {Nowhere}
PeerRecords == [address : Places, factory : Places, valid : BOOLEAN, message : BOOLEAN,
                protocols : Seq(Protocols), room : Nat]
CheckRecords == [peer : Places, factory : Places]
EndOk(p, c, x, h, r) ==
    /\ \A i \in 1..Len(p.protocols) : p.protocols[i] = "ours" => i = 1
    /\ p.message /\ HasOurs(p.protocols) => h # "untried"
    /\ r \/ /\ x => p.message /\ HasOurs(p.protocols)
            /\ c.peer = p.address /\ c.factory = p.factory /\ p.factory # Nowhere => p.valid
            /\ p.protocols # <<>> \/ p.message => p.valid
ExtendInv ==
    /\ peers \in [Ends -> PeerRecords] /\ checkedPeer \in [Ends -> CheckRecords]
    /\ extended \in [Ends -> BOOLEAN] /\ reused \in BOOLEAN
    /\ \A e \in Ends : EndOk(peers[e], checkedPeer[e], extended[e], hook, reused)

(* No end has a peer yet.                                                   *)
LEMMA ExtendStarts == ASSUME ExtendInit PROVE ExtendInv
  <1>1. Unmade \in PeerRecords /\ Unmade.protocols = <<>> /\ ~Unmade.message /\ Unmade.factory = Nowhere
    BY EmptySeq DEF Unmade, PeerRecords, Places
  <1>2. Unchecked \in CheckRecords BY DEF Unchecked, CheckRecords, Places
  <1>3. EndOk(Unmade, Unchecked, FALSE, "untried", FALSE) BY <1>1, EmptySeq DEF EndOk
  <1>. QED BY <1>1, <1>2, <1>3 DEF ExtendInit, ExtendInv

(* A step that leaves the other end alone need only be right for its own.   *)
LEMMA EndMoves ==
  ASSUME ExtendInv, NEW e \in Ends, NEW p \in PeerRecords, NEW c \in CheckRecords,
         NEW x \in BOOLEAN, reused' \in BOOLEAN,
         peers' = [peers EXCEPT ![e] = p], checkedPeer' = [checkedPeer EXCEPT ![e] = c],
         extended' = [extended EXCEPT ![e] = x], EndOk(p, c, x, hook', reused'),
         reused => reused', hook # "untried" => hook' # "untried"
  PROVE  ExtendInv'
  <1>1. /\ peers' \in [Ends -> PeerRecords] /\ checkedPeer' \in [Ends -> CheckRecords]
        /\ extended' \in [Ends -> BOOLEAN] /\ reused' \in BOOLEAN
    BY DEF ExtendInv
  <1>2. ASSUME NEW d \in Ends PROVE EndOk(peers'[d], checkedPeer'[d], extended'[d], hook', reused')
    <2>1. CASE d = e
      <3>1. peers'[d] = p /\ checkedPeer'[d] = c /\ extended'[d] = x BY <2>1 DEF ExtendInv
      <3>. QED BY <3>1
    <2>2. CASE d # e
      <3>1. peers'[d] = peers[d] /\ checkedPeer'[d] = checkedPeer[d] /\ extended'[d] = extended[d]
        BY <2>2 DEF ExtendInv
      <3>2. EndOk(peers[d], checkedPeer[d], extended[d], hook, reused) BY DEF ExtendInv
      <3>. QED BY <3>1, <3>2 DEF EndOk
    <2>. QED BY <2>1, <2>2
  <1>. QED BY <1>1, <1>2 DEF ExtendInv

(* One end as it is.                                                        *)
LEMMA OfEnd ==
  ASSUME ExtendInv, NEW e \in Ends
  PROVE  /\ peers[e] \in PeerRecords /\ checkedPeer[e] \in CheckRecords
         /\ extended[e] \in BOOLEAN /\ reused \in BOOLEAN
         /\ EndOk(peers[e], checkedPeer[e], extended[e], hook, reused)
         /\ checkedPeer = [checkedPeer EXCEPT ![e] = checkedPeer[e]]
         /\ extended = [extended EXCEPT ![e] = extended[e]]
         /\ peers = [peers EXCEPT ![e] = peers[e]]
  BY DEF ExtendInv

(* A list of protocols with one more at its end.                            *)
LEMMA Appended ==
  ASSUME NEW list \in Seq(Protocols)
  PROVE  /\ Append(list, "game") \in Seq(Protocols) /\ Append(list, "game") # <<>>
         /\ HasOurs(Append(list, "game")) <=> HasOurs(list)
         /\ (\A i \in 1..Len(list) : list[i] = "ours" => i = 1)
               => \A i \in 1..Len(Append(list, "game")) : Append(list, "game")[i] = "ours" => i = 1
  <1>. DEFINE q == Append(list, "game")
              n == Len(list)
  <1>1. /\ n \in Nat /\ q \in Seq(Protocols) /\ Len(q) = n + 1 /\ q[n + 1] = "game"
        /\ \A i \in 1..n : q[i] = list[i]
    BY AppendProperties, LenProperties DEF Protocols
  <1>2. q # <<>> BY <1>1, EmptySeq
  <1>. HIDE DEF q, n
  <1>3. \A i \in 1..(n + 1) : i = n + 1 \/ i \in 1..n BY <1>1
  <1>4. \A i \in 1..n : i \in 1..(n + 1) BY <1>1
  <1>5. HasOurs(q) <=> HasOurs(list)
    <2>1. HasOurs(q) <=> \E i \in 1..(n + 1) : q[i] = "ours" BY <1>1 DEF HasOurs, Contains
    <2>2. HasOurs(list) <=> \E i \in 1..n : list[i] = "ours" BY DEF HasOurs, Contains, n
    <2>. QED BY <1>1, <1>3, <1>4, <2>1, <2>2
  <1>6. ASSUME \A i \in 1..n : list[i] = "ours" => i = 1, NEW i \in 1..(n + 1), q[i] = "ours" PROVE i = 1
    BY <1>1, <1>3, <1>6
  <1>. QED BY <1>1, <1>2, <1>5, <1>6 DEF q, n

(* And with the extender's at its head.                                     *)
LEMMA Headed ==
  ASSUME NEW list \in Seq(Protocols), ~HasOurs(list)
  PROVE  LET q == InsertProtocol(list)
         IN  /\ q \in Seq(Protocols) /\ q # <<>> /\ HasOurs(q)
             /\ \A i \in 1..Len(q) : q[i] = "ours" => i = 1
  <1>. DEFINE q == <<"ours">> \o list
              n == Len(list)
              one == <<"ours">>
  <1>1. one \in Seq(Protocols) /\ Len(one) = 1 /\ one[1] = "ours" BY DEF Protocols
  <1>. HIDE DEF one
  <1>2. /\ one \o list \in Seq(Protocols) /\ Len(one \o list) = 1 + n /\ n \in Nat
        /\ \A i \in 1..(1 + n) : (one \o list)[i] = IF i <= 1 THEN one[i] ELSE list[i - 1]
    <2>1. n \in Nat BY LenProperties
    <2>2. /\ one \o list \in Seq(Protocols) /\ Len(one \o list) = Len(one) + Len(list)
          /\ \A i \in 1..(Len(one) + Len(list)) :
                (one \o list)[i] = IF i <= Len(one) THEN one[i] ELSE list[i - Len(one)]
      BY <1>1, ConcatProperties
    <2>. QED BY <1>1, <2>1, <2>2
  <1>3. q = one \o list BY DEF one
  <1>. HIDE DEF q
  <1>4. \A i \in 1..n : list[i] # "ours" BY DEF HasOurs, Contains
  <1>5. 1 \in 1..(1 + n) /\ \A i \in 1..(1 + n) : i = 1 \/ (~(i <= 1) /\ i - 1 \in 1..n) BY <1>2
  <1>. HIDE DEF n
  <1>6. \A i \in 1..Len(q) : q[i] = "ours" => i = 1 BY <1>2, <1>3, <1>4, <1>5
  <1>7. Len(q) = 1 + n /\ q[1] = "ours" BY <1>1, <1>2, <1>3, <1>5
  <1>8. HasOurs(q) BY <1>5, <1>7 DEF HasOurs, Contains
  <1>9. q # <<>> BY <1>2, <1>7, EmptySeq
  <1>. QED BY <1>2, <1>3, <1>6, <1>8, <1>9 DEF q, InsertProtocol

-----------------------------------------------------------------------------
(* The engine's peers: a new one, which is filled in later, and protocols   *)
(* of the game's after those that are there.                                *)
LEMMA MakePeerHolds == ASSUME ExtendInv, NEW e \in Ends, MakePeer(e) PROVE ExtendInv'
  <1>1. PICK address \in PeerAddresses, factory \in PeerAddresses :
          /\ peers' = [peers EXCEPT ![e] = [Unmade EXCEPT !.address = address, !.factory = factory]]
          /\ reused' = (reused \/ checkedPeer[e] = [peer |-> address, factory |-> factory])
    BY DEF MakePeer
  <1>. DEFINE p == [Unmade EXCEPT !.address = address, !.factory = factory]
              r == reused \/ checkedPeer[e] = [peer |-> address, factory |-> factory]
              c == checkedPeer[e]
  <1>2. /\ p \in PeerRecords /\ p.address = address /\ p.factory = factory
        /\ p.protocols = <<>> /\ ~p.message
    BY EmptySeq DEF Unmade, PeerRecords, Places
  <1>3. c \in CheckRecords /\ c.peer = address /\ c.factory = factory => r
    BY DEF CheckRecords
  <1>4. r \in BOOLEAN /\ (reused => r) BY OfEnd
  <1>5. c \in CheckRecords /\ checkedPeer' = [checkedPeer EXCEPT ![e] = c]
    BY OfEnd DEF MakePeer
  <1>6. reused' = r BY <1>1
  <1>. HIDE DEF p, c, r
  <1>7. EndOk(p, c, FALSE, hook, r) BY <1>2, <1>3, <1>5, EmptySeq DEF EndOk
  <1>8. /\ peers' = [peers EXCEPT ![e] = p] /\ extended' = [extended EXCEPT ![e] = FALSE]
        /\ hook' = hook /\ FALSE \in BOOLEAN
    BY <1>1 DEF MakePeer, p
  <1>9. EndOk(p, c, FALSE, hook', reused') BY <1>6, <1>7, <1>8
  <1>10. reused' \in BOOLEAN /\ (reused => reused') BY <1>4, <1>6
  <1>. QED BY <1>2, <1>5, <1>8, <1>9, <1>10, EndMoves

(* The engine fills a peer.                                                 *)
LEMMA FillPeerHolds == ASSUME ExtendInv, NEW e \in Ends, FillPeer(e) PROVE ExtendInv'
  <1>. DEFINE old == peers[e]
              c == checkedPeer[e]
              x == extended[e]
  <1>0. PICK room \in 1..MaxProtocols :
          peers' = [peers EXCEPT ![e].valid = TRUE, ![e].protocols = <<"game">>, ![e].room = room]
    BY DEF FillPeer
  <1>. DEFINE p == [old EXCEPT !.valid = TRUE, !.protocols = <<"game">>, !.room = room]
  <1>1. /\ old \in PeerRecords /\ c \in CheckRecords /\ x \in BOOLEAN /\ reused \in BOOLEAN
        /\ EndOk(old, c, x, hook, reused) /\ ~old.valid
        /\ checkedPeer = [checkedPeer EXCEPT ![e] = c] /\ extended = [extended EXCEPT ![e] = x]
    BY OfEnd DEF FillPeer
  <1>2. /\ peers' = [peers EXCEPT ![e] = p] /\ UNCHANGED <<checkedPeer, extended, hook, reused>>
    BY <1>0 DEF FillPeer, ExtendInv
  <1>. HIDE DEF old, c, x
  <1>3. <<"game">> \in Seq(Protocols) /\ Len(<<"game">>) = 1 /\ <<"game">>[1] = "game" BY DEF Protocols
  <1>4. room \in Nat BY NetExtendAssumption
  <1>5. p \in PeerRecords /\ p.valid /\ p.protocols = <<"game">> /\ p.message = old.message
    BY <1>1, <1>3, <1>4 DEF PeerRecords
  <1>. HIDE DEF p
  <1>6. ~HasOurs(p.protocols) BY <1>3, <1>5 DEF HasOurs, Contains
  <1>7. \A i \in 1..Len(p.protocols) : p.protocols[i] # "ours"
    BY <1>6 DEF HasOurs, Contains
  <1>8. reused \/ ~x BY <1>1 DEF EndOk
  <1>9. EndOk(p, c, x, hook, reused) BY <1>1, <1>5, <1>6, <1>7, <1>8 DEF EndOk
  <1>10. /\ checkedPeer' = [checkedPeer EXCEPT ![e] = c] /\ extended' = [extended EXCEPT ![e] = x]
         /\ EndOk(p, c, x, hook', reused') /\ peers' = [peers EXCEPT ![e] = p]
    BY <1>1, <1>2, <1>9
  <1>11. c \in CheckRecords /\ x \in BOOLEAN /\ reused' \in BOOLEAN /\ (reused => reused')
         /\ (hook # "untried" => hook' # "untried")
    BY <1>1, <1>2
  <1>. QED BY <1>5, <1>10, <1>11, EndMoves

(* The engine adds a protocol of its own.                                   *)
LEMMA AddProtocolHolds == ASSUME ExtendInv, NEW e \in Ends, AddProtocol(e) PROVE ExtendInv'
  <1>. DEFINE old == peers[e]
              c == checkedPeer[e]
              x == extended[e]
              list == Append(old.protocols, "game")
              p == [old EXCEPT !.protocols = list]
  <1>1. /\ old \in PeerRecords /\ c \in CheckRecords /\ x \in BOOLEAN /\ reused \in BOOLEAN
        /\ EndOk(old, c, x, hook, reused) /\ old.valid
        /\ checkedPeer = [checkedPeer EXCEPT ![e] = c] /\ extended = [extended EXCEPT ![e] = x]
    BY OfEnd DEF AddProtocol
  <1>2. /\ peers' = [peers EXCEPT ![e] = p] /\ UNCHANGED <<checkedPeer, extended, hook, reused>>
    BY DEF AddProtocol, ExtendInv
  <1>. HIDE DEF old, c, x
  <1>3. old.protocols \in Seq(Protocols) BY <1>1 DEF PeerRecords
  <1>4. /\ list \in Seq(Protocols) /\ (HasOurs(list) <=> HasOurs(old.protocols))
        /\ \A i \in 1..Len(list) : list[i] = "ours" => i = 1
    BY <1>1, <1>3, Appended DEF EndOk
  <1>. HIDE DEF list
  <1>5. /\ p \in PeerRecords /\ p.protocols = list /\ p.message = old.message /\ p.valid = old.valid
        /\ p.address = old.address /\ p.factory = old.factory
    BY <1>1, <1>4 DEF PeerRecords
  <1>. HIDE DEF p
  <1>6. EndOk(p, c, x, hook, reused) BY <1>1, <1>4, <1>5 DEF EndOk
  <1>7. /\ checkedPeer' = [checkedPeer EXCEPT ![e] = c] /\ extended' = [extended EXCEPT ![e] = x]
        /\ EndOk(p, c, x, hook', reused') /\ peers' = [peers EXCEPT ![e] = p]
    BY <1>1, <1>2, <1>6
  <1>8. c \in CheckRecords /\ x \in BOOLEAN /\ reused' \in BOOLEAN /\ (reused => reused')
        /\ (hook # "untried" => hook' # "untried")
    BY <1>1, <1>2
  <1>. QED BY <1>5, <1>7, <1>8, EndMoves

(* What extend has found of a peer: what it goes on with is valid, but in   *)
(* the place of another that was.                                           *)
LEMMA Checks ==
  ASSUME ExtendInv, NEW e \in Ends
  PROVE  /\ CheckPeer(e) \in CheckRecords
         /\ CheckPeer(e).factory # Nowhere => reused \/ peers[e].valid
         /\ CheckPeer(e).factory = peers[e].factory \/ CheckPeer(e).factory = Nowhere
  <1>1. /\ peers[e] \in PeerRecords /\ checkedPeer[e] \in CheckRecords
        /\ EndOk(peers[e], checkedPeer[e], extended[e], hook, reused)
    BY OfEnd
  <1>2. CASE ~Recheck(e) BY <1>1, <1>2 DEF Recheck, CheckPeer, EndOk
  <1>3. CASE Recheck(e) BY <1>1, <1>3 DEF CheckPeer, PeerRecords, CheckRecords, Places
  <1>. QED BY <1>2, <1>3

(* The protocols after insert_protocol.                                     *)
LEMMA Inserts ==
  ASSUME NEW p \in PeerRecords, NEW reserved \in BOOLEAN,
         \A i \in 1..Len(p.protocols) : p.protocols[i] = "ours" => i = 1
  PROVE  LET q == Inserted(p, reserved)
         IN  /\ q \in PeerRecords /\ q.message = p.message /\ q.valid = p.valid
             /\ q.address = p.address /\ q.factory = p.factory
             /\ \A i \in 1..Len(q.protocols) : q.protocols[i] = "ours" => i = 1
             /\ HasOurs(p.protocols) => HasOurs(q.protocols)
             /\ HasOurs(q.protocols) \/ q = p
  <1>1. p.protocols \in Seq(Protocols) /\ p.room \in Nat BY DEF PeerRecords
  <1>2. CASE HasOurs(p.protocols) BY <1>2 DEF Inserted
  <1>3. CASE ~HasOurs(p.protocols)
    <2>. DEFINE list == InsertProtocol(p.protocols)
    <2>1. /\ list \in Seq(Protocols) /\ HasOurs(list)
          /\ \A i \in 1..Len(list) : list[i] = "ours" => i = 1
      BY <1>1, <1>3, Headed
    <2>. DEFINE room == IF Len(p.protocols) < p.room THEN p.room ELSE p.room + 1
                q == [p EXCEPT !.protocols = list, !.room = room]
    <2>2. Inserted(p, reserved) \in {p, q}
      BY <1>1, <1>3 DEF Inserted, PeerRecords
    <2>. HIDE DEF list
    <2>3. room \in Nat BY <1>1
    <2>. HIDE DEF room
    <2>4. /\ q \in PeerRecords /\ q.message = p.message /\ q.valid = p.valid
          /\ q.address = p.address /\ q.factory = p.factory /\ q.protocols = list
      BY <2>1, <2>3 DEF PeerRecords
    <2>. HIDE DEF q
    <2>. QED BY <1>3, <2>1, <2>2, <2>4
  <1>. QED BY <1>2, <1>3

(* extend itself, whatever of it fails.                                     *)
LEMMA ExtendHolds == ASSUME ExtendInv, NEW e \in Ends, Extend(e) PROVE ExtendInv'
  <1>. DEFINE p == peers[e]
              c == CheckPeer(e)
  <1>1. /\ p \in PeerRecords /\ reused \in BOOLEAN /\ peers = [peers EXCEPT ![e] = p]
        /\ EndOk(p, checkedPeer[e], extended[e], hook, reused)
    BY OfEnd
  <1>2. /\ c \in CheckRecords
        /\ c.factory # Nowhere => reused \/ p.valid
        /\ c.factory = p.factory \/ c.factory = Nowhere
    BY Checks
  <1>3. checkedPeer' = [checkedPeer EXCEPT ![e] = c] /\ reused' = reused BY DEF Extend
  <1>4. CASE c.factory = Nowhere
    <2>1. extended' = [extended EXCEPT ![e] = FALSE] /\ peers' = peers /\ hook' = hook
      BY <1>4 DEF Extend
    <2>2. peers' = [peers EXCEPT ![e] = p] BY <1>1, <2>1
    <2>. HIDE DEF p, c
    <2>3. EndOk(p, c, FALSE, hook, reused) BY <1>1, <1>4 DEF EndOk
    <2>4. EndOk(p, c, FALSE, hook', reused') /\ p \in PeerRecords /\ c \in CheckRecords
      BY <1>1, <1>2, <1>3, <2>1, <2>3
    <2>5. FALSE \in BOOLEAN /\ reused' \in BOOLEAN /\ (reused => reused')
          /\ (hook # "untried" => hook' # "untried")
      BY <1>1, <1>3, <2>1
    <2>. QED BY <1>3, <2>1, <2>2, <2>4, <2>5, EndMoves
  <1>5. CASE c.factory # Nowhere
    <2>1. PICK done \in BOOLEAN, reserved \in BOOLEAN, works \in BOOLEAN :
            LET q == [peers[e] EXCEPT !.message = Registered(peers[e], done)]
                r == IF q.message THEN Inserted(q, reserved) ELSE q
                ok == q.message /\ HasOurs(r.protocols)
            IN  /\ peers' = [peers EXCEPT ![e] = r]
                /\ extended' = [extended EXCEPT ![e] = ok]
                /\ hook' = IF ok /\ ~(peers[e].message /\ HasOurs(peers[e].protocols))
                           THEN HookAfter(works) ELSE hook
      BY <1>5 DEF Extend
    <2>. DEFINE q == [p EXCEPT !.message = Registered(p, done)]
                r == IF q.message THEN Inserted(q, reserved) ELSE q
                ok == q.message /\ HasOurs(r.protocols)
                h == IF ok /\ ~(p.message /\ HasOurs(p.protocols)) THEN HookAfter(works) ELSE hook
    <2>2. /\ peers' = [peers EXCEPT ![e] = r] /\ extended' = [extended EXCEPT ![e] = ok]
          /\ hook' = h
      BY <2>1
    <2>. HIDE DEF p, c
    <2>3. /\ q \in PeerRecords /\ q.protocols = p.protocols /\ q.valid = p.valid
          /\ q.address = p.address /\ q.factory = p.factory /\ (p.message => q.message)
      BY <1>1 DEF PeerRecords, Registered
    <2>4. \A i \in 1..Len(q.protocols) : q.protocols[i] = "ours" => i = 1
      BY <1>1, <2>3 DEF EndOk
    <2>. HIDE DEF q
    <2>5. /\ r \in PeerRecords /\ r.message = q.message /\ r.valid = p.valid
          /\ r.address = p.address /\ r.factory = p.factory
          /\ \A i \in 1..Len(r.protocols) : r.protocols[i] = "ours" => i = 1
          /\ HasOurs(r.protocols) \/ r = q
      BY <2>3, <2>4, Inserts
    <2>. HIDE DEF r
    <2>6. ok \in BOOLEAN BY <2>3 DEF PeerRecords
    <2>7. \A w \in BOOLEAN : HookAfter(w) # "untried" BY DEF HookAfter
    <2>8. hook # "untried" => h # "untried" BY <2>7
    <2>9. ok => h # "untried" BY <1>1, <2>7 DEF EndOk
    <2>. HIDE DEF h
    <2>10. EndOk(r, c, ok, h, reused)
      <3>1. ok => r.message /\ HasOurs(r.protocols) BY <2>5
      <3>2. r.message /\ HasOurs(r.protocols) => ok BY <2>5
      <3>. HIDE DEF ok
      <3>3. reused \/ r.valid BY <1>2, <1>5, <2>5
      <3>. QED BY <2>5, <2>9, <3>1, <3>2, <3>3 DEF EndOk
    <2>. HIDE DEF ok
    <2>11. EndOk(r, c, ok, hook', reused') BY <1>3, <2>2, <2>10
    <2>12. reused' \in BOOLEAN /\ (reused => reused') /\ (hook # "untried" => hook' # "untried")
      BY <1>1, <1>3, <2>2, <2>8
    <2>13. r \in PeerRecords /\ c \in CheckRecords BY <1>2, <2>5
    <2>14. /\ peers' = [peers EXCEPT ![e] = r] /\ checkedPeer' = [checkedPeer EXCEPT ![e] = c]
           /\ extended' = [extended EXCEPT ![e] = ok]
      BY <1>3, <2>2
    <2>. QED BY <2>6, <2>11, <2>12, <2>13, <2>14, EndMoves
  <1>. QED BY <1>4, <1>5

(* Every peer that was extended has message 400, and the extender's         *)
(* protocol once and before all of the game's (extend, register_message,    *)
(* insert_protocol, in net.cpp): for lists of any length and any number of  *)
(* peers made in one another's place.                                       *)
THEOREM ExtendedFirst == ExtendSpec => []OursIsFirst
  <1>1. ASSUME ExtendInv, [ExtendNext]_extendVars PROVE ExtendInv'
    <2>1. CASE UNCHANGED extendVars BY <1>1, <2>1 DEF extendVars, ExtendInv, EndOk
    <2>. QED BY <1>1, <2>1, MakePeerHolds, FillPeerHolds, AddProtocolHolds, ExtendHolds
             DEF ExtendNext
  <1>2. ExtendInv => OursIsFirst
    <2>. SUFFICES ASSUME ExtendInv, NEW e \in Ends, ~reused
                  PROVE  /\ \A i \in DOMAIN peers[e].protocols : peers[e].protocols[i] = "ours" => i = 1
                         /\ extended[e] => /\ peers[e].message /\ hook # "untried"
                                           /\ Head(peers[e].protocols) = "ours"
                         /\ peers[e].protocols # <<>> \/ peers[e].message => peers[e].valid
      BY DEF OursIsFirst
    <2>. DEFINE p == peers[e]
    <2>1. p \in PeerRecords /\ EndOk(p, checkedPeer[e], extended[e], hook, reused) BY OfEnd
    <2>2. p.protocols \in Seq(Protocols) BY <2>1 DEF PeerRecords
    <2>3. DOMAIN p.protocols = 1..Len(p.protocols) BY <2>2, LenProperties
    <2>. HIDE DEF p
    <2>4. ASSUME extended[e] PROVE p.message /\ hook # "untried" /\ Head(p.protocols) = "ours"
      <3>1. p.message /\ HasOurs(p.protocols) /\ hook # "untried" BY <2>1, <2>4 DEF EndOk
      <3>2. PICK i \in 1..Len(p.protocols) : p.protocols[i] = "ours"
        BY <3>1 DEF HasOurs, Contains
      <3>3. i = 1 BY <2>1, <3>2 DEF EndOk
      <3>4. p.protocols # <<>> BY <3>2, EmptySeq
      <3>5. Head(p.protocols) = p.protocols[1] BY <2>2, <3>4, HeadTailProperties
      <3>. QED BY <3>1, <3>2, <3>3, <3>5
    <2>. QED BY <2>1, <2>3, <2>4 DEF EndOk, p
  <1>. QED BY <1>1, <1>2, ExtendStarts, PTL DEF ExtendSpec

-----------------------------------------------------------------------------
(* What the messages under way to and from a machine, and what both ends    *)
(* remember of it, say of the handshake in this connection.                 *)
MachineInv(m) ==
    /\ ~Connected(m) => /\ toHost[m] = <<>> /\ toMachine[m] = <<>>
                        /\ m \notin told /\ m \notin freshPosting
    /\ Contains(toHost[m], "signed") \/ Contains(toHost[m], "hello") => m \in Extended
    /\ Contains(toHost[m], "hello") \/ Contains(toHost[m], "post") => hostExtends /\ m \in told
    /\ Contains(toMachine[m], "hello") => m \in Extended /\ hostExtends /\ m \in told
    /\ Contains(toMachine[m], "post") => m \in greeted
    /\ m \in greeted => m \in Extended
    /\ hostExtends /\ m \in told /\ peer[m] \in known => m \in greeted
    /\ m \in Extended /\ Connected(m) /\ hostKnown[m] => hostExtends /\ m \in told
    /\ m \in freshPosting => hostExtends /\ m \in told

NetInv ==
    /\ NetTypeOK
    /\ \A m, n \in Machines : Connected(m) /\ peer[m] = peer[n] => m = n
    /\ \A m \in Machines : MachineInv(m)
    /\ \A p \in fresh : \E m \in greeted : peer[m] = p

(* What a queue contains after each use of it.                              *)
LEMMA Queued ==
  ASSUME NEW S, NEW q \in Seq(S), NEW x \in S
  PROVE  /\ Append(q, x) \in Seq(S)
         /\ \A k : Contains(Append(q, x), k) <=> Contains(q, k) \/ k = x
  <1>. DEFINE r == Append(q, x)
  <1>1. /\ r \in Seq(S) /\ Len(r) = Len(q) + 1 /\ Len(q) \in Nat
        /\ \A i \in 1..Len(q) : r[i] = q[i]
        /\ r[Len(q) + 1] = x
    BY AppendProperties, LenProperties
  <1>. HIDE DEF r
  <1>2. ASSUME NEW k PROVE Contains(r, k) <=> Contains(q, k) \/ k = x
    <2>1. \A i \in 1..Len(r) : i \in 1..Len(q) \/ i = Len(q) + 1 BY <1>1
    <2>2. \A i \in 1..Len(q) : i \in 1..Len(r) BY <1>1
    <2>3. Len(q) + 1 \in 1..Len(r) BY <1>1
    <2>. QED BY <1>1, <2>1, <2>2, <2>3 DEF Contains
  <1>. QED BY <1>1, <1>2 DEF r

(* A queue of one message contains that one.                                *)
LEMMA FirstQueued ==
  ASSUME NEW S, NEW x \in S
  PROVE  /\ <<x>> \in Seq(S)
         /\ \A k : Contains(<<x>>, k) <=> k = x
  BY DEF Contains

(* An empty queue contains nothing.                                         *)
LEMMA NothingQueued == ASSUME NEW k PROVE ~Contains(<<>>, k)
  BY DEF Contains

(* What is left of it when its head is taken.                                *)
LEMMA Unqueued ==
  ASSUME NEW S, NEW q \in Seq(S), q # <<>>
  PROVE  /\ Tail(q) \in Seq(S) /\ Contains(q, Head(q))
         /\ \A k : Contains(Tail(q), k) => Contains(q, k)
  <1>1. /\ Tail(q) \in Seq(S) /\ Len(Tail(q)) = Len(q) - 1 /\ Head(q) = q[1]
        /\ \A i \in 1..Len(Tail(q)) : Tail(q)[i] = q[i + 1]
        /\ Len(q) \in Nat /\ Len(q) > 0
    BY HeadTailProperties, LenProperties, EmptySeq
  <1>2. \A i \in 1..Len(Tail(q)) : i + 1 \in 1..Len(q) BY <1>1
  <1>. QED BY <1>1, <1>2 DEF Contains

(* Nothing is connected yet.                                                  *)
LEMMA NetStarts == ASSUME NetInit PROVE NetInv
  <1>1. /\ peer \in [Machines -> Peers \cup {NoPeer}] /\ toHost \in [Machines -> Seq(Kinds)]
        /\ toMachine \in [Machines -> Seq(Connect400)] /\ hostKnown \in [Machines -> BOOLEAN]
    BY DEF NetInit
  <1>2. connects \in 0..MaxConnects /\ posts \in 0..MaxPosts /\ servers \in 1..MaxServers
    BY ExtenderNetAssumption DEF NetInit
  <1>3. NetTypeOK BY <1>1, <1>2 DEF NetInit, NetTypeOK
  <1>. QED BY <1>3, NothingQueued DEF NetInit, NetInv, MachineInv, Connected

(* A new connection carries only the ClientConnect.                           *)
LEMMA ConnectHolds == ASSUME NetInv, NEW m \in Machines, Connect(m) PROVE NetInv'
  <1>1. NetTypeOK BY DEF NetInv
  <1>. DEFINE sign == IF m \in Extended THEN "signed" ELSE "unsigned"
  <1>2. sign \in Kinds BY DEF Kinds
  <1>3. <<sign>> \in Seq(Kinds) /\ (\A k : Contains(<<sign>>, k) <=> k = sign)
    <2>. HIDE DEF sign
    <2>. QED BY <1>2, FirstQueued
  <1>4. PICK p \in Peers : /\ \A n \in Machines : peer[n] # p
                           /\ peer' = [peer EXCEPT ![m] = p]
    BY DEF Connect
  <1>5. toHost' = [toHost EXCEPT ![m] = <<sign>>] BY DEF Connect
  <1>6. sign = "signed" => m \in Extended BY DEF Kinds
  <1>7. sign \notin {"hello", "post"} OBVIOUS
  <1>. HIDE DEF sign
  <1>8. NetTypeOK'
    <2>1. hostKnown' \in [Machines -> BOOLEAN] BY <1>1 DEF Connect, HostForgotten, NetTypeOK
    <2>2. connects' \in 0..MaxConnects BY <1>1, ExtenderNetAssumption DEF Connect, NetTypeOK
    <2>. QED BY <1>1, <1>3, <1>4, <1>5, <2>1, <2>2 DEF Connect, NetTypeOK, serverVars, historyVars
  <1>9. p # NoPeer BY ExtenderNetAssumption
  <1>10. \A n, o \in Machines : Connected(n)' /\ peer'[n] = peer'[o] => n = o
    BY <1>1, <1>4, <1>9 DEF NetInv, Connected, NetTypeOK
  <1>11. m \notin told /\ m \notin greeted /\ m \notin freshPosting /\ toMachine[m] = <<>>
    BY <1>1 DEF NetInv, MachineInv, Connect, NetTypeOK
  <1>12. ASSUME NEW n \in Machines PROVE MachineInv(n)'
    <2>1. CASE n = m
      <3>1. Connected(m)' /\ (m \in Extended => ~hostKnown'[m]) /\ toHost'[m] = <<sign>>
        BY <1>1, <1>4, <1>5, <1>9 DEF Connect, HostForgotten, Connected, NetTypeOK
      <3>. QED BY <1>3, <1>6, <1>7, <1>11, <2>1, <3>1, NothingQueued
               DEF MachineInv, Connect, serverVars, historyVars
    <2>2. CASE n # m
      <3>1. /\ peer'[n] = peer[n] /\ toHost'[n] = toHost[n] /\ hostKnown'[n] = hostKnown[n]
        BY <1>1, <1>4, <1>5, <2>2 DEF Connect, HostForgotten, NetTypeOK
      <3>. QED BY <3>1 DEF NetInv, MachineInv, Connected, Connect, serverVars, historyVars
    <2>. QED BY <2>1, <2>2
  <1>13. \A n \in greeted : n # m /\ peer'[n] = peer[n]
    BY <1>1, <1>4, <1>11 DEF NetTypeOK
  <1>14. \A q \in fresh' : \E n \in greeted' : peer'[n] = q
    BY <1>13 DEF NetInv, Connect, historyVars
  <1>. QED BY <1>8, <1>10, <1>12, <1>14 DEF NetInv

(* The connections that are gone take all that was said in them.            *)
LEMMA DroppedHolds ==
  ASSUME NetInv, NEW S \in SUBSET Machines, Dropped(S),
         hostExtends' \in BOOLEAN, known' \in {known, {}}, servers' \in 1..MaxServers,
         hostExtends' = hostExtends \/ S = Machines,
         UNCHANGED <<connects, posts, sending, clientVars>>
  PROVE  NetInv'
  <1>1. NetTypeOK BY DEF NetInv
  <1>2. <<>> \in Seq(Kinds) /\ <<>> \in Seq(Connect400) /\ \A k : ~Contains(<<>>, k)
    BY NothingQueued
  <1>3. NetTypeOK' BY <1>1, <1>2 DEF NetTypeOK, Dropped, clientVars
  <1>4. \A n \in S : /\ peer'[n] = NoPeer /\ toHost'[n] = <<>> /\ toMachine'[n] = <<>>
                     /\ n \notin told' /\ n \notin greeted' /\ n \notin freshPosting'
    BY DEF Dropped
  <1>5. \A n \in Machines \ S :
           /\ peer'[n] = peer[n] /\ toHost'[n] = toHost[n] /\ toMachine'[n] = toMachine[n]
           /\ (n \in told <=> n \in told') /\ (n \in greeted <=> n \in greeted')
           /\ (n \in freshPosting <=> n \in freshPosting')
           /\ hostExtends' = hostExtends
    BY DEF Dropped
  <1>6. \A n, o \in Machines : Connected(n)' /\ peer'[n] = peer'[o] => n = o
    BY <1>4, <1>5 DEF NetInv, Connected
  <1>7. ASSUME NEW n \in Machines PROVE MachineInv(n)'
    <2>1. CASE n \in S BY <1>2, <1>4, <2>1 DEF MachineInv, Connected
    <2>2. CASE n \notin S
      <3>1. MachineInv(n) BY DEF NetInv
      <3>2. hostKnown' = hostKnown BY DEF clientVars
      <3>3. peer'[n] \in known' => peer[n] \in known BY <1>5, <2>2
      <3>. QED BY <1>5, <2>2, <3>1, <3>2, <3>3 DEF MachineInv, Connected
    <2>. QED BY <2>1, <2>2
  <1>8. ASSUME NEW q \in fresh' PROVE \E n \in greeted' : peer'[n] = q
    <2>1. q \in fresh /\ \A n \in S : peer[n] # q BY DEF Dropped
    <2>2. PICK n \in greeted : peer[n] = q BY <2>1 DEF NetInv
    <2>3. n \in Machines \ S BY <1>1, <2>1, <2>2 DEF NetTypeOK
    <2>. QED BY <1>5, <2>2, <2>3
  <1>. QED BY <1>3, <1>6, <1>7, <1>8 DEF NetInv

(* The server's hello goes to a client that signed.                          *)
LEMMA ClientConnectHolds == ASSUME NetInv, NEW m \in Machines, OnClientConnect(m) PROVE NetInv'
  <1>1. NetTypeOK BY DEF NetInv
  <1>2. /\ toHost[m] \in Seq(Kinds) /\ toHost[m] # <<>> /\ toMachine[m] \in Seq(Connect400)
        /\ toHost' = [toHost EXCEPT ![m] = Tail(@)] /\ told' = told \cup {m}
        /\ UNCHANGED <<hostExtends, peer, hostKnown, posting, sending, greeted, fresh, freshPosting,
                       connects, posts, servers>>
    BY <1>1 DEF OnClientConnect, Has, NetTypeOK, clientVars
  <1>3. /\ Tail(toHost[m]) \in Seq(Kinds) /\ Contains(toHost[m], Head(toHost[m]))
        /\ \A k : Contains(Tail(toHost[m]), k) => Contains(toHost[m], k)
    BY <1>2, Unqueued
  <1>4. /\ Append(toMachine[m], "hello") \in Seq(Connect400)
        /\ \A k : Contains(Append(toMachine[m], "hello"), k)
                    <=> Contains(toMachine[m], k) \/ k = "hello"
    <2>1. "hello" \in Connect400 BY DEF Connect400
    <2>. QED BY <1>2, <2>1, Queued
  <1>5. /\ known' \subseteq known /\ (hostExtends => peer[m] \notin known')
        /\ \/ toMachine' = toMachine
           \/ /\ hostExtends /\ m \in Extended
              /\ toMachine' = [toMachine EXCEPT ![m] = Append(@, "hello")]
    <2>1. Has(m, toHost, "signed") => m \in Extended BY <1>3 DEF Has, NetInv, MachineInv
    <2>. QED BY <2>1 DEF OnClientConnect, ToMachine, PeerForgotten
  <1>6. toMachine' \in [Machines -> Seq(Connect400)] BY <1>1, <1>4, <1>5 DEF NetTypeOK
  <1>7. NetTypeOK' BY <1>1, <1>2, <1>3, <1>5, <1>6 DEF NetTypeOK
  <1>8. Connected(m)
    BY <1>2 DEF NetInv, MachineInv
  <1>9. ASSUME NEW n \in Machines PROVE MachineInv(n)'
    <2>1. MachineInv(n) BY DEF NetInv
    <2>2. CASE n = m
      <3>1. toHost'[n] = Tail(toHost[n]) BY <1>1, <1>2, <2>2 DEF NetTypeOK
      <3>2. \/ toMachine'[n] = toMachine[n]
            \/ hostExtends /\ n \in Extended /\ toMachine'[n] = Append(toMachine[n], "hello")
        BY <1>1, <1>5, <2>2 DEF NetTypeOK
      <3>. QED BY <1>2, <1>3, <1>4, <1>5, <1>8, <2>1, <2>2, <3>1, <3>2 DEF MachineInv, Connected
    <2>3. CASE n # m
      <3>1. toHost'[n] = toHost[n] /\ toMachine'[n] = toMachine[n] BY <1>1, <1>2, <1>5, <2>3 DEF NetTypeOK
      <3>. QED BY <1>2, <1>5, <2>1, <2>3, <3>1 DEF MachineInv, Connected
    <2>. QED BY <2>2, <2>3
  <1>. QED BY <1>2, <1>7, <1>9 DEF NetInv, Connected

(* The peer of a machine that said hello is known, and no other machine's.    *)
LEMMA ServerHelloHolds == ASSUME NetInv, NEW m \in Machines, ServerHello(m) PROVE NetInv'
  <1>1. NetTypeOK BY DEF NetInv
  <1>2. /\ toHost[m] \in Seq(Kinds) /\ toHost[m] # <<>> /\ Head(toHost[m]) = "hello"
        /\ toHost' = [toHost EXCEPT ![m] = Tail(@)] /\ known' = known \cup {peer[m]}
        /\ greeted' = greeted \cup {m}
        /\ UNCHANGED <<hostExtends, peer, hostKnown, posting, sending, told, fresh, freshPosting,
                       connects, posts, servers, toMachine>>
    BY <1>1 DEF ServerHello, Has, NetTypeOK, clientVars, PeerOf
  <1>3. /\ Tail(toHost[m]) \in Seq(Kinds) /\ Contains(toHost[m], "hello")
        /\ \A k : Contains(Tail(toHost[m]), k) => Contains(toHost[m], k)
    BY <1>2, Unqueued
  <1>4. m \in told /\ m \in Extended BY <1>3 DEF NetInv, MachineInv
  <1>5. Connected(m) BY <1>2 DEF NetInv, MachineInv
  <1>6. peer[m] \in Peers BY <1>1, <1>5 DEF NetTypeOK, Connected
  <1>7. NetTypeOK' BY <1>1, <1>2, <1>3, <1>4, <1>6 DEF NetTypeOK
  <1>8. ASSUME NEW n \in Machines PROVE MachineInv(n)'
    <2>1. MachineInv(n) BY DEF NetInv
    <2>2. CASE n = m
      <3>1. toHost'[n] = Tail(toHost[n]) BY <1>1, <1>2, <2>2 DEF NetTypeOK
      <3>. QED BY <1>2, <1>3, <1>4, <1>5, <2>1, <2>2, <3>1 DEF MachineInv, Connected
    <2>3. CASE n # m
      <3>1. toHost'[n] = toHost[n] BY <1>1, <1>2, <2>3 DEF NetTypeOK
      <3>2. peer[n] # peer[m] BY <1>5, <2>3 DEF NetInv
      <3>. QED BY <1>2, <2>1, <2>3, <3>1, <3>2 DEF MachineInv, Connected
    <2>. QED BY <2>2, <2>3
  <1>9. \A q \in fresh' : \E n \in greeted' : peer'[n] = q BY <1>2 DEF NetInv
  <1>. QED BY <1>2, <1>7, <1>8, <1>9 DEF NetInv, Connected

(* A client answers a hello only.                                            *)
LEMMA ClientHelloHolds == ASSUME NetInv, NEW m \in Machines, ClientHello(m) PROVE NetInv'
  <1>1. NetTypeOK BY DEF NetInv
  <1>2. /\ toMachine[m] \in Seq(Connect400) /\ toMachine[m] # <<>> /\ Head(toMachine[m]) = "hello"
        /\ toHost[m] \in Seq(Kinds) /\ m \in Extended
        /\ toMachine' = [toMachine EXCEPT ![m] = Tail(@)]
        /\ hostKnown' = [hostKnown EXCEPT ![m] = TRUE]
        /\ toHost' = toHost \/ toHost' = [toHost EXCEPT ![m] = Append(@, "hello")]
        /\ UNCHANGED <<hostExtends, peer, known, posting, sending, told, greeted, fresh, freshPosting,
                       connects, posts, servers>>
    BY <1>1 DEF ClientHello, Has, NetTypeOK, serverVars, historyVars, ToHost
  <1>3. /\ Tail(toMachine[m]) \in Seq(Connect400) /\ Contains(toMachine[m], "hello")
        /\ \A k : Contains(Tail(toMachine[m]), k) => Contains(toMachine[m], k)
    BY <1>2, Unqueued
  <1>4. /\ Append(toHost[m], "hello") \in Seq(Kinds)
        /\ \A k : Contains(Append(toHost[m], "hello"), k)
                    <=> Contains(toHost[m], k) \/ k = "hello"
    <2>1. "hello" \in Kinds BY DEF Kinds, Connect400
    <2>. QED BY <1>2, <2>1, Queued
  <1>5. m \in told /\ hostExtends BY <1>3 DEF NetInv, MachineInv
  <1>6. NetTypeOK'
    <2>1. toHost' \in [Machines -> Seq(Kinds)] BY <1>1, <1>2, <1>4 DEF NetTypeOK
    <2>. QED BY <1>1, <1>2, <1>3, <2>1 DEF NetTypeOK
  <1>7. ASSUME NEW n \in Machines PROVE MachineInv(n)'
    <2>1. MachineInv(n) BY DEF NetInv
    <2>2. CASE n = m
      <3>1. toMachine'[n] = Tail(toMachine[n]) BY <1>1, <1>2, <2>2 DEF NetTypeOK
      <3>2. toHost'[n] = toHost[n] \/ toHost'[n] = Append(toHost[n], "hello")
        BY <1>1, <1>2, <2>2 DEF NetTypeOK
      <3>3. Connected(n) BY <1>5, <2>1, <2>2 DEF MachineInv
      <3>. QED BY <1>2, <1>3, <1>4, <1>5, <2>1, <2>2, <3>1, <3>2, <3>3 DEF MachineInv, Connected
    <2>3. CASE n # m
      <3>1. toHost'[n] = toHost[n] /\ toMachine'[n] = toMachine[n] /\ hostKnown'[n] = hostKnown[n]
        BY <1>1, <1>2, <2>3 DEF NetTypeOK
      <3>. QED BY <1>2, <2>1, <3>1 DEF MachineInv, Connected
    <2>. QED BY <2>2, <2>3
  <1>. QED BY <1>2, <1>6, <1>7 DEF NetInv, Connected

(* What the scripts are handed says nothing of the handshake.                *)
LEMMA DeliverHolds == ASSUME NetInv, NEW m \in Machines, Deliver(m) PROVE NetInv'
  <1>1. NetTypeOK BY DEF NetInv
  <1>2. UNCHANGED <<hostExtends, peer, connects, posts, servers, known, sending, hostKnown, posting,
                    told, greeted, fresh, freshPosting>>
    BY DEF Deliver, serverVars, clientVars, historyVars
  <1>3. \/ toMachine' = toMachine /\ toHost[m] # <<>> /\ toHost' = [toHost EXCEPT ![m] = Tail(@)]
        \/ toHost' = toHost /\ toMachine[m] # <<>>
           /\ toMachine' = [toMachine EXCEPT ![m] = Tail(@)]
    BY DEF Deliver, Has
  <1>4. ASSUME NEW n \in Machines
        PROVE  /\ toHost'[n] \in Seq(Kinds) /\ toMachine'[n] \in Seq(Connect400)
               /\ \A k : Contains(toHost'[n], k) => Contains(toHost[n], k)
               /\ \A k : Contains(toMachine'[n], k) => Contains(toMachine[n], k)
               /\ toHost[n] = <<>> => toHost'[n] = <<>>
               /\ toMachine[n] = <<>> => toMachine'[n] = <<>>
    <2>1. toHost[n] \in Seq(Kinds) /\ toMachine[n] \in Seq(Connect400) BY <1>1 DEF NetTypeOK
    <2>2. \/ toHost'[n] = toHost[n]
          \/ toHost[n] # <<>> /\ toHost'[n] = Tail(toHost[n])
      <3>1. n \in DOMAIN toHost BY <1>1 DEF NetTypeOK
      <3>2. CASE toHost' = toHost BY <3>2
      <3>3. CASE toHost[m] # <<>> /\ toHost' = [toHost EXCEPT ![m] = Tail(@)] BY <3>1, <3>3
      <3>. QED BY <1>3, <3>2, <3>3
    <2>3. \/ toMachine'[n] = toMachine[n]
          \/ toMachine[n] # <<>> /\ toMachine'[n] = Tail(toMachine[n])
      <3>1. n \in DOMAIN toMachine BY <1>1 DEF NetTypeOK
      <3>2. CASE toMachine' = toMachine BY <3>2
      <3>3. CASE toMachine[m] # <<>> /\ toMachine' = [toMachine EXCEPT ![m] = Tail(@)]
        BY <3>1, <3>3
      <3>. QED BY <1>3, <3>2, <3>3
    <2>4. /\ toHost'[n] \in Seq(Kinds) /\ (toHost[n] = <<>> => toHost'[n] = <<>>)
          /\ \A k : Contains(toHost'[n], k) => Contains(toHost[n], k)
      BY <2>1, <2>2, Unqueued
    <2>5. /\ toMachine'[n] \in Seq(Connect400) /\ (toMachine[n] = <<>> => toMachine'[n] = <<>>)
          /\ \A k : Contains(toMachine'[n], k) => Contains(toMachine[n], k)
      BY <2>1, <2>3, Unqueued
    <2>. QED BY <2>4, <2>5
  <1>5. toHost' \in [Machines -> Seq(Kinds)] /\ toMachine' \in [Machines -> Seq(Connect400)]
    <2>1. DOMAIN toHost' = Machines /\ toHost' = [n \in Machines |-> toHost'[n]]
      BY <1>1, <1>3 DEF NetTypeOK
    <2>2. DOMAIN toMachine' = Machines /\ toMachine' = [n \in Machines |-> toMachine'[n]]
      BY <1>1, <1>3 DEF NetTypeOK
    <2>. QED BY <1>4, <2>1, <2>2
  <1>6. NetTypeOK' BY <1>1, <1>2, <1>5 DEF NetTypeOK
  <1>7. ASSUME NEW n \in Machines PROVE MachineInv(n)'
    <2>1. MachineInv(n) BY DEF NetInv
    <2>. QED BY <1>2, <1>4, <2>1 DEF MachineInv, Connected
  <1>. QED BY <1>2, <1>6, <1>7 DEF NetInv, Connected

(* A peer of this connection that is known said hello in it.                  *)
LEMMA FindPeersHolds == ASSUME NetInv, FindPeers PROVE NetInv'
  <1>1. NetTypeOK BY DEF NetInv
  <1>2. PICK S \in SUBSET known : sending' = S /\ fresh' = {p \in S : \E m \in told : peer[m] = p}
    BY DEF FindPeers
  <1>3. UNCHANGED <<hostExtends, peer, toHost, toMachine, connects, servers, known, hostKnown, posting,
                    told, greeted, freshPosting>> /\ hostExtends
    BY DEF FindPeers, clientVars
  <1>4. posts' \in 0..MaxPosts BY <1>1, ExtenderNetAssumption DEF FindPeers, NetTypeOK
  <1>5. NetTypeOK' BY <1>1, <1>2, <1>3, <1>4 DEF NetTypeOK
  <1>6. \A n \in Machines : MachineInv(n)' BY <1>3 DEF NetInv, MachineInv, Connected
  <1>7. ASSUME NEW q \in fresh' PROVE \E n \in greeted' : peer'[n] = q
    <2>1. PICK n \in told : peer[n] = q BY <1>2
    <2>2. q \in known /\ n \in Machines BY <1>1, <1>2, <2>1 DEF NetTypeOK
    <2>3. n \in greeted BY <1>3, <2>1, <2>2 DEF NetInv, MachineInv
    <2>. QED BY <1>3, <2>1, <2>3
  <1>. QED BY <1>3, <1>5, <1>6, <1>7 DEF NetInv, Connected

(* ... and so did the machine that is sent to.                                *)
LEMMA SendToPeerHolds == ASSUME NetInv, NEW p \in Peers, SendToPeer(p) PROVE NetInv'
  <1>1. NetTypeOK BY DEF NetInv
  <1>2. /\ UNCHANGED <<hostExtends, peer, toHost, connects, posts, servers, known, hostKnown, posting,
                       told, greeted, freshPosting>>
        /\ sending' = sending \ {p} /\ fresh' = fresh \ {p}
    BY DEF SendToPeer, clientVars
  <1>. DEFINE kind == IF p \in fresh THEN "post" ELSE "late"
  <1>3. \/ toMachine' = toMachine
        \/ \E m \in Machines : /\ peer[m] = p
                               /\ toMachine' = [toMachine EXCEPT ![m] = Append(@, kind)]
    BY DEF SendToPeer, ToMachine
  <1>4. kind \in Connect400 /\ kind # "hello" /\ (kind = "post" => p \in fresh) BY DEF Connect400
  <1>. HIDE DEF kind
  <1>5. \A q \in fresh' : \E n \in greeted' : peer'[n] = q BY <1>2 DEF NetInv
  <1>6. CASE toMachine' = toMachine
    <2>1. NetTypeOK' BY <1>1, <1>2, <1>6 DEF NetTypeOK
    <2>. QED BY <1>2, <1>5, <1>6, <2>1 DEF NetInv, MachineInv, Connected
  <1>7. ASSUME NEW m \in Machines, peer[m] = p,
               toMachine' = [toMachine EXCEPT ![m] = Append(@, kind)]
        PROVE  NetInv'
    <2>1. toMachine[m] \in Seq(Connect400) BY <1>1 DEF NetTypeOK
    <2>2. /\ Append(toMachine[m], kind) \in Seq(Connect400)
          /\ \A k : Contains(Append(toMachine[m], kind), k)
                      <=> Contains(toMachine[m], k) \/ k = kind
      BY <1>4, <2>1, Queued
    <2>3. NetTypeOK' BY <1>1, <1>2, <1>7, <2>2 DEF NetTypeOK
    <2>4. Connected(m) BY <1>7, ExtenderNetAssumption DEF Connected
    <2>5. p \in fresh => m \in greeted
      BY <1>1, <1>7, <2>4 DEF NetInv, NetTypeOK
    <2>6. ASSUME NEW n \in Machines PROVE MachineInv(n)'
      <3>1. MachineInv(n) BY DEF NetInv
      <3>2. CASE n = m
        <4>1. toMachine'[n] = Append(toMachine[n], kind) BY <1>1, <1>7, <3>2 DEF NetTypeOK
        <4>. QED BY <1>2, <1>4, <2>2, <2>4, <2>5, <3>1, <3>2, <4>1 DEF MachineInv, Connected
      <3>3. CASE n # m
        <4>1. toMachine'[n] = toMachine[n] BY <1>1, <1>7, <3>3 DEF NetTypeOK
        <4>. QED BY <1>2, <3>1, <4>1 DEF MachineInv, Connected
      <3>. QED BY <3>2, <3>3
    <2>. QED BY <1>2, <1>5, <2>3, <2>6 DEF NetInv, Connected
  <1>. QED BY <1>3, <1>6, <1>7

(* A host that is known in a connection said hello in it.                     *)
LEMMA FindHostHolds == ASSUME NetInv, NEW m \in Machines, FindHost(m) PROVE NetInv'
  <1>1. NetTypeOK BY DEF NetInv
  <1>2. /\ UNCHANGED <<hostExtends, peer, toHost, toMachine, connects, servers, known, sending,
                       hostKnown, told, greeted, fresh>>
        /\ posting' = posting \cup {m} /\ m \in Extended /\ hostKnown[m]
        /\ freshPosting' = IF Connected(m) THEN freshPosting \cup {m} ELSE freshPosting
    BY DEF FindHost, serverVars
  <1>3. posts' \in 0..MaxPosts BY <1>1, ExtenderNetAssumption DEF FindHost, NetTypeOK
  <1>4. NetTypeOK' BY <1>1, <1>2, <1>3 DEF NetTypeOK
  <1>5. Connected(m) => hostExtends /\ m \in told BY <1>2 DEF NetInv, MachineInv
  <1>6. ASSUME NEW n \in Machines PROVE MachineInv(n)'
    <2>1. MachineInv(n) BY DEF NetInv
    <2>2. n \in freshPosting' => n \in freshPosting \/ (n = m /\ Connected(m))
      BY <1>2
    <2>. QED BY <1>2, <1>5, <2>1, <2>2 DEF MachineInv, Connected
  <1>. QED BY <1>2, <1>4, <1>6 DEF NetInv, Connected

(* A machine sends to the host.                                             *)
LEMMA SendToHostHolds == ASSUME NetInv, NEW m \in Machines, SendToHost(m) PROVE NetInv'
  <1>1. NetTypeOK BY DEF NetInv
  <1>. DEFINE kind == IF m \in freshPosting THEN "post" ELSE "late"
  <1>2. /\ UNCHANGED <<hostExtends, peer, toMachine, connects, posts, servers, known, sending,
                       hostKnown, told, greeted, fresh>>
        /\ posting' = posting \ {m} /\ freshPosting' = freshPosting \ {m}
        /\ IF Connected(m) THEN toHost' = [toHost EXCEPT ![m] = Append(@, kind)]
           ELSE toHost' = toHost
    BY DEF SendToHost, ToHost, serverVars
  <1>3. kind \in Kinds /\ kind \notin {"hello", "signed"} /\ (kind = "post" => m \in freshPosting)
    BY DEF Kinds, Connect400
  <1>. HIDE DEF kind
  <1>4. toHost[m] \in Seq(Kinds) BY <1>1 DEF NetTypeOK
  <1>5. /\ Append(toHost[m], kind) \in Seq(Kinds)
        /\ \A k : Contains(Append(toHost[m], kind), k) <=> Contains(toHost[m], k) \/ k = kind
    BY <1>3, <1>4, Queued
  <1>6. NetTypeOK'
    <2>1. toHost' \in [Machines -> Seq(Kinds)] BY <1>1, <1>2, <1>5 DEF NetTypeOK
    <2>. QED BY <1>1, <1>2, <2>1 DEF NetTypeOK
  <1>7. ASSUME NEW n \in Machines PROVE MachineInv(n)'
    <2>1. MachineInv(n) BY DEF NetInv
    <2>2. \/ toHost'[n] = toHost[n]
          \/ n = m /\ Connected(n) /\ toHost'[n] = Append(toHost[n], kind)
      BY <1>1, <1>2 DEF NetTypeOK
    <2>. QED BY <1>2, <1>3, <1>5, <2>1, <2>2 DEF MachineInv, Connected
  <1>. QED BY <1>2, <1>6, <1>7 DEF NetInv, Connected

(* Every step keeps the invariant.                                            *)
LEMMA NetHolds == ASSUME NetInv, [NetNext]_netVars PROVE NetInv'
  <1>1. CASE UNCHANGED netVars
    BY <1>1 DEF netVars, engineVars, serverVars, clientVars, historyVars, NetInv, NetTypeOK,
                MachineInv, Connected
  <1>2. ASSUME NEW m \in Machines, Disconnect(m) PROVE NetInv'
    <2>1. /\ Dropped({m}) /\ {m} \in SUBSET Machines
          /\ UNCHANGED <<hostExtends, connects, posts, servers, known, sending, clientVars>>
      BY <1>2 DEF Disconnect, serverVars
    <2>2. hostExtends' \in BOOLEAN /\ servers' \in 1..MaxServers BY <2>1 DEF NetInv, NetTypeOK
    <2>. QED BY <2>1, <2>2, DroppedHolds
  <1>3. ASSUME NewServer PROVE NetInv'
    <2>1. /\ Dropped(Machines) /\ hostExtends' \in BOOLEAN /\ known' \in {known, {}}
          /\ UNCHANGED <<connects, posts, sending, clientVars>>
      BY <1>3 DEF NewServer
    <2>2. servers' \in 1..MaxServers
      BY <1>3, ExtenderNetAssumption DEF NewServer, NetInv, NetTypeOK
    <2>. QED BY <2>1, <2>2, DroppedHolds
  <1>. QED BY <1>1, <1>2, <1>3, ConnectHolds, ClientConnectHolds, ServerHelloHolds,
              ClientHelloHolds, DeliverHolds, FindPeersHolds, SendToPeerHolds, FindHostHolds,
              SendToHostHolds
           DEF NetNext, Receive

(* Neither side says anything in message 400 before the other's hello of     *)
(* this connection (on_client_connect, handle_extender, server_send and      *)
(* client_send, net.cpp), but for what a reconnection overtook: whatever     *)
(* peer IDs are given again, servers replaced and sends overtaken, for any   *)
(* number of machines and messages.                                          *)
THEOREM HelloComesFirst == NetSpec => [](PostsFollowHello /\ HostSaidHello)
  <1>1. NetInv => PostsFollowHello /\ HostSaidHello
    BY DEF NetInv, MachineInv, PostsFollowHello, HostSaidHello
  <1>. QED BY <1>1, NetStarts, NetHolds, PTL DEF NetSpec
=============================================================================
