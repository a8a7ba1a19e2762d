----------------------------- MODULE StoryProofs ----------------------------
(***************************************************************************)
(* Proofs about StoryListeners, for any node classes and bounds: the cache *)
(* lock and the server state's lock are taken in one order, so that nobody *)
(* waits in a circle, and a tuple is applied once and heard by everybody   *)
(* who was subscribed, but where the hooks were put in by half.  And about *)
(* StorySignatures: the database is the story's.  And about StoryCalls: a  *)
(* fact is found by its values, the engine gets every argument, and the    *)
(* references taken are given back.                                        *)
(***************************************************************************)
EXTENDS StoryListeners, StorySignatures, StoryCalls,
        SequenceTheorems, FiniteSetTheorems, WellFoundedInduction, TLAPS

Stages == {"run", "ran", "handler", "look", "name", "before", "original", "after", "silent", "done"}
Frames == [kind : {"script", "call", "tuple", "listen"}, took : BOOLEAN,
           slot : StorySlots \cup {<<"none", "none">>}, original : {"none", "engine", "watched"},
           stage : Stages,
           todo : Seq(Nat), heard : SUBSET Nat, applied : Nat, due : SUBSET Nat]

Typed == /\ stack \in [StoryThreads -> Seq(Frames)]
         /\ storySlot \in [StorySlots -> {"engine", "watched"}] /\ orphaned \subseteq StorySlots
         /\ original \in [StorySlots -> {"none", "engine", "watched"}]
         /\ listeners \in Seq(Nat) /\ lastListener \in Nat /\ storyLive \subseteq Nat

-----------------------------------------------------------------------------
(* One thread's frames, s, and the locks.  Who calls Osi runs Lua: under a  *)
(* call there is a frame that has the state's lock.  The frame that took a  *)
(* lock is the lowest that needs it.                                        *)
Serves(f) == f.kind \in {"script", "listen"}
LocksOf(s, server, cache, t) ==
    /\ \A i \in 1..Len(s) : Serves(s[i]) =>
          server = t /\ (s[i].took => \A j \in 1..(i - 1) : ~Serves(s[j]))
    /\ \A i \in 1..Len(s) : s[i].kind = "call" =>
          /\ cache = t /\ \E j \in 1..(i - 1) : Serves(s[j])
          /\ s[i].took => \A j \in 1..(i - 1) : s[j].kind # "call"
          /\ s[i].took \/ \E j \in 1..(i - 1) : s[j].kind = "call"
    /\ cache = t => \E i \in 1..Len(s) : s[i].kind = "call"
    /\ \A i \in 1..Len(s) : s[i].kind = "script" => i = 1
LockInv == \A t \in StoryThreads : LocksOf(stack[t], serverLock, cacheLock, t)

(* A tuple under way: who has to hear of it has, once its first trigger is  *)
(* over, and what is due was subscribed by then.                            *)
TupleOk(f, live, last, slots, lost, fresh) ==
    /\ f.slot \in StorySlots /\ slots[f.slot] = "watched" /\ f.due \subseteq 1..last
    /\ f.stage \in {"look", "name", "before", "original", "after", "silent", "done"}
    /\ f.stage = "look" \/ f.original # "none" \/ f.slot \in lost
    /\ f.applied = 0 \/ (f.applied = 1 /\ f.stage \in {"after", "done"})
    /\ f.stage \in {"after", "done"} => f.applied = 1 \/ f.slot \in lost
    /\ f.stage = "silent" \/ ~fresh => f.due = {}
    /\ f.stage \in {"original", "after", "done"} => f.due \cap live \subseteq f.heard

(* A trigger under way, over the tuple it was raised for.                   *)
ListenOk(f, under, live) ==
    /\ under.kind = "tuple" /\ under.stage \in {"before", "after"}
    /\ \A id \in under.due \cap live : id \in f.heard \/ \E k \in 1..Len(f.todo) : f.todo[k] = id

TuplesOf(s, live, last, slots, lost, fresh) ==
    \A i \in 1..Len(s) :
        /\ s[i].kind = "tuple" => TupleOk(s[i], live, last, slots, lost, fresh)
        /\ s[i].kind = "listen" => i > 1 /\ ListenOk(s[i], s[i - 1], live)
TupleInv ==
    /\ \A t \in StoryThreads : TuplesOf(stack[t], storyLive, lastListener, storySlot, orphaned, named = story)
    /\ \A slot \in StorySlots :
          storySlot[slot] = "watched" => original[slot] # "none" \/ slot \in orphaned
    /\ \A id \in storyLive : id <= lastListener /\ id # 0 /\ \E k \in 1..Len(listeners) : listeners[k] = id

StoryInv == Typed /\ LockInv /\ TupleInv

-----------------------------------------------------------------------------
(* A stack with one frame more, with another on top, and with one less.     *)
LEMMA Pushed ==
  ASSUME NEW s \in Seq(Frames), NEW f \in Frames
  PROVE  /\ Append(s, f) \in Seq(Frames) /\ Len(s) \in Nat
         /\ Len(Append(s, f)) = Len(s) + 1 /\ Append(s, f)[Len(s) + 1] = f
         /\ \A i \in 1..Len(s) : Append(s, f)[i] = s[i] /\ s[i] \in Frames
  BY AppendProperties, LenProperties, ElementOfSeq

(* The stack without its top.                                               *)
LEMMA Popped ==
  ASSUME NEW s \in Seq(Frames), s # <<>>
  PROVE  /\ Front(s) \in Seq(Frames) /\ Len(s) \in Nat \ {0} /\ Len(Front(s)) = Len(s) - 1
         /\ \A i \in 1..(Len(s) - 1) : Front(s)[i] = s[i]
         /\ Last(s) = s[Len(s)] /\ Last(s) \in Frames
  <1>1. Len(s) \in Nat \ {0} BY EmptySeq, LenProperties
  <1>2. s[Len(s)] \in Frames BY <1>1, ElementOfSeq
  <1>3. Front(s) = SubSeq(s, 1, Len(s) - 1) BY DEF Front
  <1>4. /\ SubSeq(s, 1, Len(s) - 1) \in Seq(Frames)
        /\ Len(SubSeq(s, 1, Len(s) - 1)) = Len(s) - 1
        /\ \A i \in 1..(Len(s) - 1) : SubSeq(s, 1, Len(s) - 1)[i] = s[i]
    <2>1. Len(s) - 1 \in Nat /\ \A i \in 1..(Len(s) - 1) : s[i] \in Frames /\ 1 + i - 1 = i
      BY <1>1, ElementOfSeq
    <2>2. Len(SubSeq(s, 1, Len(s) - 1)) = Len(s) - 1
      <3>1. \A n \in Nat : n = IF 1 <= n THEN n - 1 + 1 ELSE 0 OBVIOUS
      <3>2. Len(SubSeq(s, 1, Len(s) - 1)) = IF 1 <= Len(s) - 1 THEN (Len(s) - 1) - 1 + 1 ELSE 0
        BY <2>1, SubSeqProperties
      <3>. QED BY <2>1, <3>1, <3>2
    <2>3. \A n \in Nat : n - 1 + 1 = n OBVIOUS
    <2>. QED BY <2>1, <2>2, <2>3, SubSeqProperties
  <1>. QED BY <1>1, <1>2, <1>3, <1>4 DEF Last

(* The stack with another frame on top.                                     *)
LEMMA Replaced ==
  ASSUME NEW s \in Seq(Frames), s # <<>>, NEW f \in Frames
  PROVE  /\ Append(Front(s), f) \in Seq(Frames) /\ Len(s) \in Nat \ {0}
         /\ Len(Append(Front(s), f)) = Len(s) /\ Append(Front(s), f)[Len(s)] = f
         /\ \A i \in 1..(Len(s) - 1) : Append(Front(s), f)[i] = s[i]
  <1>1. /\ Front(s) \in Seq(Frames) /\ Len(s) \in Nat \ {0} /\ Len(Front(s)) = Len(s) - 1
        /\ \A i \in 1..(Len(s) - 1) : Front(s)[i] = s[i]
    BY Popped
  <1>2. /\ Append(Front(s), f) \in Seq(Frames)
        /\ Len(Append(Front(s), f)) = Len(Front(s)) + 1
        /\ Append(Front(s), f)[Len(Front(s)) + 1] = f
        /\ \A i \in 1..Len(Front(s)) : Append(Front(s), f)[i] = Front(s)[i]
    BY <1>1, Pushed
  <1>. QED BY <1>1, <1>2

(* A sequence without one of its elements.                                  *)
LEMMA Removed ==
  ASSUME NEW s \in Seq(Nat), NEW i \in 1..Len(s)
  PROVE  /\ RemoveAt(s, i) \in Seq(Nat)
         /\ \A k \in 1..Len(s) : k # i => \E j \in 1..Len(RemoveAt(s, i)) : RemoveAt(s, i)[j] = s[k]
  <1>. DEFINE a == SubSeq(s, 1, i - 1)
              b == SubSeq(s, i + 1, Len(s))
              n == Len(s)
  <1>1. n \in Nat /\ \A k \in 1..n : s[k] \in Nat BY LenProperties, ElementOfSeq
  <1>2. /\ a \in Seq(Nat) /\ Len(a) = i - 1 /\ \A k \in 1..(i - 1) : a[k] = s[k]
    <2>1. /\ \A k \in 1..(i - 1) : s[k] \in Nat /\ 1 + k - 1 = k
          /\ i - 1 \in Int /\ (i - 1) - 1 + 1 = i - 1 /\ (1 <= i - 1 \/ i - 1 = 0)
      BY <1>1
    <2>. QED BY <2>1, SubSeqProperties
  <1>3. /\ b \in Seq(Nat) /\ Len(b) = n - i /\ \A k \in 1..(n - i) : b[k] = s[i + k]
    <2>1. \A k \in (i + 1)..n : s[k] \in Nat BY <1>1
    <2>2. i + 1 \in Int /\ n \in Int BY <1>1
    <2>3. n - (i + 1) + 1 = n - i BY <1>1
    <2>4. \A k \in 1..(n - i) : (i + 1) + k - 1 = i + k BY <1>1
    <2>5. n - i = IF i + 1 <= n THEN n - i ELSE 0 BY <1>1
    <2>6. /\ b \in Seq(Nat) /\ Len(b) = IF i + 1 <= n THEN n - (i + 1) + 1 ELSE 0
          /\ \A k \in 1..(n - (i + 1) + 1) : b[k] = s[(i + 1) + k - 1]
      BY <2>1, <2>2, SubSeqProperties
    <2>. HIDE DEF b, n
    <2>7. Len(b) = n - i BY <2>3, <2>5, <2>6
    <2>. QED BY <2>3, <2>4, <2>6, <2>7
  <1>4. RemoveAt(s, i) = a \o b BY DEF RemoveAt
  <1>. HIDE DEF a, b
  <1>5. /\ a \o b \in Seq(Nat) /\ Len(a \o b) = (i - 1) + (n - i)
        /\ \A k \in 1..((i - 1) + (n - i)) :
              (a \o b)[k] = IF k <= i - 1 THEN a[k] ELSE b[k - (i - 1)]
    <2>1. /\ a \o b \in Seq(Nat) /\ Len(a \o b) = Len(a) + Len(b)
          /\ \A k \in 1..(Len(a) + Len(b)) :
                (a \o b)[k] = IF k <= Len(a) THEN a[k] ELSE b[k - Len(a)]
      BY <1>2, <1>3, ConcatProperties
    <2>. QED BY <1>2, <1>3, <2>1
  <1>6. ASSUME NEW k \in 1..n, k # i PROVE \E j \in 1..Len(a \o b) : (a \o b)[j] = s[k]
    <2>1. CASE k <= i - 1
      <3>1. k \in 1..(i - 1) /\ k \in 1..((i - 1) + (n - i)) BY <1>1, <2>1
      <3>2. (a \o b)[k] = a[k] BY <1>5, <2>1, <3>1
      <3>3. a[k] = s[k] BY <1>2, <3>1
      <3>4. k \in 1..Len(a \o b) BY <1>5, <3>1
      <3>. QED BY <3>2, <3>3, <3>4
    <2>2. CASE k > i
      <3>1. /\ k - 1 \in 1..Len(a \o b) /\ ~(k - 1 <= i - 1) /\ (k - 1) - (i - 1) = k - i
            /\ k - i \in 1..(n - i) /\ i + (k - i) = k
        BY <1>1, <1>5, <2>2
      <3>2. (a \o b)[k - 1] = s[k] BY <1>3, <1>5, <3>1
      <3>. QED BY <3>1, <3>2
    <2>. QED BY <1>1, <1>6, <2>1, <2>2
  <1>. QED BY <1>4, <1>5, <1>6

-----------------------------------------------------------------------------
(* A thread that takes or lets go of a lock disturbs no other.              *)
LEMMA LocksOther ==
  ASSUME NEW s \in Seq(Frames), NEW t, NEW server, NEW cache, NEW server2, NEW cache2,
         LocksOf(s, server, cache, t),
         server2 = server \/ (server # t /\ server2 # t),
         cache2 = cache \/ (cache # t /\ cache2 # t)
  PROVE  LocksOf(s, server2, cache2, t)
  BY DEF LocksOf

(* A frame that needs no lock, or has the one that it needs already.        *)
LEMMA LocksPush ==
  ASSUME NEW s \in Seq(Frames), NEW f \in Frames, NEW t, NEW server, NEW cache,
         LocksOf(s, server, cache, t), f.kind = "tuple"
  PROVE  LocksOf(Append(s, f), server, cache, t)
  BY Pushed DEF LocksOf, Serves

(* A trigger takes the state's lock if its thread does not have it.         *)
LEMMA LocksListen ==
  ASSUME NEW s \in Seq(Frames), NEW f \in Frames, NEW t, NEW server, NEW cache,
         LocksOf(s, server, cache, t), f.kind = "listen", f.took <=> server # t
  PROVE  LocksOf(Append(s, f), t, cache, t)
  BY Pushed DEF LocksOf, Serves

(* A script's call takes the cache lock, over a frame that runs Lua.        *)
LEMMA LocksCall ==
  ASSUME NEW s \in Seq(Frames), NEW f \in Frames, NEW t, NEW server, NEW cache,
         LocksOf(s, server, cache, t), f.kind = "call", f.took <=> cache # t,
         s # <<>>, Serves(Last(s))
  PROVE  LocksOf(Append(s, f), server, t, t)
  <1>. DEFINE r == Append(s, f)
              n == Len(s)
  <1>1. /\ n \in Nat /\ Len(r) = n + 1 /\ r[n + 1] = f /\ \A i \in 1..n : r[i] = s[i]
    BY Pushed
  <1>2. n \in 1..n /\ Serves(s[n]) BY Popped
  <1>3. ~Serves(f) /\ f.kind # "script" BY DEF Serves
  <1>. HIDE DEF r
  <1>4. \A i \in 1..(n + 1) : i = n + 1 \/ i \in 1..n BY <1>1
  <1>5. \A i \in 1..n : \A j \in 1..(i - 1) : j \in 1..n BY <1>1
  <1>6. LocksOf(s, server, t, t) \/ cache # t OBVIOUS
  <1>7. \A i \in 1..Len(r) : Serves(r[i]) =>
          server = t /\ (r[i].took => \A j \in 1..(i - 1) : ~Serves(r[j]))
    BY <1>1, <1>3, <1>4, <1>5 DEF LocksOf
  <1>8. \A i \in 1..Len(r) : r[i].kind = "call" =>
          /\ \E j \in 1..(i - 1) : Serves(r[j])
          /\ r[i].took => \A j \in 1..(i - 1) : r[j].kind # "call"
          /\ r[i].took \/ \E j \in 1..(i - 1) : r[j].kind = "call"
    <2>. SUFFICES ASSUME NEW i \in 1..Len(r), r[i].kind = "call"
                  PROVE  /\ \E j \in 1..(i - 1) : Serves(r[j])
                         /\ r[i].took => \A j \in 1..(i - 1) : r[j].kind # "call"
                         /\ r[i].took \/ \E j \in 1..(i - 1) : r[j].kind = "call"
      OBVIOUS
    <2>1. CASE i = n + 1
      <3>1. i - 1 = n BY <1>1, <2>1
      <3>2. f.took => \A j \in 1..n : s[j].kind # "call" BY DEF LocksOf
      <3>3. f.took \/ \E j \in 1..n : s[j].kind = "call" BY DEF LocksOf
      <3>. QED BY <1>1, <1>2, <2>1, <3>1, <3>2, <3>3
    <2>2. CASE i \in 1..n
      <3>1. r[i] = s[i] /\ \A j \in 1..(i - 1) : r[j] = s[j] BY <1>1, <1>5, <2>2
      <3>. DEFINE before == 1..(i - 1)
      <3>2. /\ \E j \in before : Serves(s[j])
            /\ s[i].took => \A j \in before : s[j].kind # "call"
            /\ s[i].took \/ \E j \in before : s[j].kind = "call"
        BY <2>2, <3>1 DEF LocksOf
      <3>3. \A j \in before : r[j] = s[j] BY <3>1
      <3>. HIDE DEF before
      <3>. QED BY <3>1, <3>2, <3>3 DEF before
    <2>. QED BY <1>1, <1>4, <2>1, <2>2
  <1>9. \A i \in 1..Len(r) : r[i].kind = "script" => i = 1
    BY <1>1, <1>3, <1>4 DEF LocksOf
  <1>10. Len(r) \in 1..Len(r) /\ r[Len(r)].kind = "call" BY <1>1
  <1>. QED BY <1>7, <1>8, <1>9, <1>10 DEF LocksOf, r

(* A frame on top that is what it was but for how far it is.                *)
LEMMA LocksReplace ==
  ASSUME NEW s \in Seq(Frames), NEW f \in Frames, NEW t, NEW server, NEW cache,
         s # <<>>, LocksOf(s, server, cache, t), f.kind = Last(s).kind, f.took = Last(s).took
  PROVE  LocksOf(Append(Front(s), f), server, cache, t)
  <1>. DEFINE r == Append(Front(s), f)
  <1>1. /\ Len(r) = Len(s) /\ Len(s) \in Nat \ {0}
        /\ \A i \in 1..Len(s) : r[i].kind = s[i].kind /\ r[i].took = s[i].took
    <2>1. /\ Len(r) = Len(s) /\ Len(s) \in Nat \ {0} /\ r[Len(s)] = f
          /\ \A i \in 1..(Len(s) - 1) : r[i] = s[i]
      BY Replaced
    <2>2. Last(s) = s[Len(s)] BY Popped
    <2>. HIDE DEF r
    <2>3. \A i \in 1..Len(s) : i = Len(s) \/ i \in 1..(Len(s) - 1) BY <2>1
    <2>. QED BY <2>1, <2>2, <2>3
  <1>2. \A i \in 1..Len(s) : Serves(r[i]) <=> Serves(s[i]) BY <1>1 DEF Serves
  <1>3. \A i \in 1..Len(s) : \A j \in 1..(i - 1) : j \in 1..Len(s) BY <1>1
  <1>. HIDE DEF r
  <1>4. \A i \in 1..Len(r) : Serves(r[i]) =>
          server = t /\ (r[i].took => \A j \in 1..(i - 1) : ~Serves(r[j]))
    BY <1>1, <1>2, <1>3 DEF LocksOf
  <1>5. \A i \in 1..Len(r) : r[i].kind = "call" =>
          /\ cache = t /\ \E j \in 1..(i - 1) : Serves(r[j])
          /\ r[i].took => \A j \in 1..(i - 1) : r[j].kind # "call"
          /\ r[i].took \/ \E j \in 1..(i - 1) : r[j].kind = "call"
    BY <1>1, <1>2, <1>3 DEF LocksOf
  <1>6. /\ cache = t => \E i \in 1..Len(r) : r[i].kind = "call"
        /\ \A i \in 1..Len(r) : r[i].kind = "script" => i = 1
    BY <1>1 DEF LocksOf
  <1>. QED BY <1>4, <1>5, <1>6 DEF LocksOf, r

(* A frame that ends lets go of the lock that it took.                      *)
LEMMA LocksPop ==
  ASSUME NEW s \in Seq(Frames), NEW t, NEW none, none # t, NEW server, NEW cache,
         s # <<>>, LocksOf(s, server, cache, t)
  PROVE  LocksOf(Front(s),
                 IF Serves(Last(s)) /\ Last(s).took THEN none ELSE server,
                 IF Last(s).kind = "call" /\ Last(s).took THEN none ELSE cache, t)
  <1>. DEFINE r == Front(s)
  <1>1. /\ Len(r) = Len(s) - 1 /\ Len(s) \in Nat \ {0} /\ Last(s) = s[Len(s)]
        /\ \A i \in 1..(Len(s) - 1) : r[i] = s[i]
    BY Popped
  <1>. HIDE DEF r
  <1>. DEFINE n == Len(s)
  <1>2. /\ \A i \in 1..(n - 1) : i \in 1..n /\ (\A j \in 1..(i - 1) : j \in 1..(n - 1))
        /\ n \in 1..n /\ \A i \in 1..n : i = n \/ i \in 1..(n - 1)
    BY <1>1
  <1>3. CASE Serves(Last(s)) /\ Last(s).took
    <2>1. \A i \in 1..Len(r) : ~Serves(r[i])
      <3>1. n \in 1..n /\ Serves(s[n]) /\ s[n].took BY <1>1, <1>2, <1>3
      <3>2. \A i \in 1..(n - 1) : ~Serves(s[i]) BY <3>1 DEF LocksOf
      <3>. QED BY <1>1, <3>2
    <2>2. ASSUME NEW i \in 1..Len(r), r[i].kind = "call" PROVE FALSE
      <3>1. i \in 1..(n - 1) /\ i \in 1..n /\ r[i] = s[i] BY <1>1, <1>2
      <3>2. PICK j \in 1..(i - 1) : Serves(s[j]) BY <2>2, <3>1 DEF LocksOf
      <3>3. j \in 1..(n - 1) /\ r[j] = s[j] BY <1>1, <1>2, <3>1
      <3>. QED BY <1>1, <2>1, <3>2, <3>3
    <2>3. Last(s).kind # "call" BY <1>3 DEF Serves
    <2>4. cache # t BY <1>1, <1>2, <2>2, <2>3 DEF LocksOf
    <2>5. \A i \in 1..Len(r) : r[i].kind # "script" BY <2>1 DEF Serves
    <2>6. LocksOf(r, none, cache, t) BY <2>1, <2>2, <2>4, <2>5 DEF LocksOf
    <2>. QED BY <1>3, <2>3, <2>6 DEF r
  <1>4. CASE Last(s).kind = "call" /\ Last(s).took
    <2>1. ~Serves(Last(s)) BY <1>4 DEF Serves
    <2>2. \A i \in 1..Len(r) : r[i].kind # "call"
      <3>1. n \in 1..n /\ s[n].kind = "call" /\ s[n].took BY <1>1, <1>2, <1>4
      <3>2. \A i \in 1..(n - 1) : s[i].kind # "call" BY <3>1 DEF LocksOf
      <3>. QED BY <1>1, <3>2
    <2>3. \A i \in 1..Len(r) : Serves(r[i]) =>
            server = t /\ (r[i].took => \A j \in 1..(i - 1) : ~Serves(r[j]))
      BY <1>1, <1>2 DEF LocksOf
    <2>4. \A i \in 1..Len(r) : r[i].kind = "script" => i = 1 BY <1>1, <1>2 DEF LocksOf
    <2>5. LocksOf(r, server, none, t) BY <2>2, <2>3, <2>4 DEF LocksOf
    <2>. QED BY <1>4, <2>1, <2>5 DEF r
  <1>5. CASE ~(Serves(Last(s)) /\ Last(s).took) /\ ~(Last(s).kind = "call" /\ Last(s).took)
    <2>1. cache = t => \E i \in 1..Len(r) : r[i].kind = "call"
      <3>1. SUFFICES ASSUME cache = t PROVE \E i \in 1..(n - 1) : s[i].kind = "call" BY <1>1
      <3>2. PICK i \in 1..n : s[i].kind = "call" BY <3>1 DEF LocksOf
      <3>3. CASE i = n
        <4>1. s[n].kind = "call" /\ ~s[n].took /\ n \in 1..n BY <1>1, <1>2, <1>5, <3>2, <3>3
        <4>2. \E j \in 1..(n - 1) : s[j].kind = "call" BY <4>1 DEF LocksOf
        <4>. QED BY <4>2
      <3>. QED BY <1>2, <3>2, <3>3
    <2>2. \A i \in 1..Len(r) : Serves(r[i]) =>
            server = t /\ (r[i].took => \A j \in 1..(i - 1) : ~Serves(r[j]))
      BY <1>1, <1>2 DEF LocksOf
    <2>3. \A i \in 1..Len(r) : r[i].kind = "call" =>
            /\ cache = t /\ \E j \in 1..(i - 1) : Serves(r[j])
            /\ r[i].took => \A j \in 1..(i - 1) : r[j].kind # "call"
            /\ r[i].took \/ \E j \in 1..(i - 1) : r[j].kind = "call"
      <3>. SUFFICES ASSUME NEW i \in 1..Len(r), r[i].kind = "call"
                    PROVE  /\ cache = t /\ \E j \in 1..(i - 1) : Serves(r[j])
                           /\ r[i].took => \A j \in 1..(i - 1) : r[j].kind # "call"
                           /\ r[i].took \/ \E j \in 1..(i - 1) : r[j].kind = "call"
        OBVIOUS
      <3>1. i \in 1..n /\ r[i] = s[i] /\ \A j \in 1..(i - 1) : r[j] = s[j] BY <1>1, <1>2
      <3>. DEFINE before == 1..(i - 1)
      <3>2. /\ cache = t /\ \E j \in before : Serves(s[j])
            /\ s[i].took => \A j \in before : s[j].kind # "call"
            /\ s[i].took \/ \E j \in before : s[j].kind = "call"
        BY <3>1 DEF LocksOf
      <3>3. \A j \in before : r[j] = s[j] BY <3>1
      <3>. HIDE DEF before
      <3>. QED BY <3>1, <3>2, <3>3 DEF before
    <2>4. \A i \in 1..Len(r) : r[i].kind = "script" => i = 1 BY <1>1, <1>2 DEF LocksOf
    <2>5. LocksOf(r, server, cache, t) BY <2>1, <2>2, <2>3, <2>4 DEF LocksOf
    <2>. QED BY <1>5, <2>5 DEF r
  <1>. QED BY <1>3, <1>4, <1>5

-----------------------------------------------------------------------------
(* Fewer to hear of the tuples there are, or listeners that came after      *)
(* them, ask nothing more of the tuples under way.                          *)
LEMMA TuplesGrow ==
  ASSUME NEW s \in Seq(Frames), NEW live, NEW live2, NEW last \in Nat, NEW last2 \in Nat,
         NEW slots, NEW slots2, NEW lost, NEW lost2, NEW fresh, NEW fresh2,
         TuplesOf(s, live, last, slots, lost, fresh),
         \A id \in 1..last : id \in live2 => id \in live,
         last <= last2, \A slot \in StorySlots : slots[slot] = "watched" => slots2[slot] = "watched",
         lost \subseteq lost2, fresh => fresh2
  PROVE  TuplesOf(s, live2, last2, slots2, lost2, fresh2)
  <1>1. ASSUME NEW f, TupleOk(f, live, last, slots, lost, fresh)
        PROVE  TupleOk(f, live2, last2, slots2, lost2, fresh2)
    <2>1. 1..last \subseteq 1..last2 OBVIOUS
    <2>2. f.due \cap live2 \subseteq f.due \cap live BY <1>1 DEF TupleOk
    <2>. QED BY <1>1, <2>1, <2>2 DEF TupleOk
  <1>2. ASSUME NEW f, NEW under, ListenOk(f, under, live), TupleOk(under, live, last, slots, lost, fresh)
        PROVE  ListenOk(f, under, live2)
    <2>1. under.due \cap live2 \subseteq under.due \cap live BY <1>2 DEF TupleOk
    <2>. QED BY <1>2, <2>1 DEF ListenOk
  <1>3. ASSUME NEW i \in 1..Len(s), s[i].kind = "listen"
        PROVE  i > 1 /\ ListenOk(s[i], s[i - 1], live2)
    <2>1. i > 1 /\ ListenOk(s[i], s[i - 1], live) BY <1>3 DEF TuplesOf
    <2>2. i - 1 \in 1..Len(s) BY <2>1, LenProperties
    <2>3. TupleOk(s[i - 1], live, last, slots, lost, fresh) BY <2>1, <2>2 DEF TuplesOf, ListenOk
    <2>. QED BY <1>2, <2>1, <2>3
  <1>. QED BY <1>1, <1>3 DEF TuplesOf

(* A frame more, which is right where it is.                                *)
LEMMA TuplesPush ==
  ASSUME NEW s \in Seq(Frames), NEW f \in Frames, NEW live, NEW last, NEW slots, NEW lost, NEW fresh,
         TuplesOf(s, live, last, slots, lost, fresh),
         f.kind = "tuple" => TupleOk(f, live, last, slots, lost, fresh),
         f.kind = "listen" => s # <<>> /\ ListenOk(f, Last(s), live)
  PROVE  TuplesOf(Append(s, f), live, last, slots, lost, fresh)
  <1>. DEFINE r == Append(s, f)
              n == Len(s)
  <1>1. /\ n \in Nat /\ Len(r) = n + 1 /\ r[n + 1] = f /\ \A i \in 1..n : r[i] = s[i]
    BY Pushed
  <1>2. s # <<>> => n # 0 /\ Last(s) = s[n] BY Popped
  <1>. HIDE DEF r
  <1>3. ASSUME NEW i \in 1..Len(r)
        PROVE  /\ r[i].kind = "tuple" => TupleOk(r[i], live, last, slots, lost, fresh)
               /\ r[i].kind = "listen" => i > 1 /\ ListenOk(r[i], r[i - 1], live)
    <2>1. CASE i = n + 1
      <3>1. r[i] = f /\ i - 1 = n BY <1>1, <2>1
      <3>2. CASE s # <<>>
        <4>1. n \in 1..n /\ r[n] = s[n] /\ i > 1 BY <1>1, <1>2, <2>1, <3>2
        <4>. QED BY <1>2, <3>1, <3>2, <4>1
      <3>. QED BY <3>1, <3>2
    <2>2. CASE i \in 1..n
      <3>1. r[i] = s[i] /\ (i > 1 => i - 1 \in 1..n /\ r[i - 1] = s[i - 1]) BY <1>1, <2>2
      <3>. QED BY <2>2, <3>1 DEF TuplesOf
    <2>. QED BY <1>1, <2>1, <2>2
  <1>. QED BY <1>3 DEF TuplesOf, r

(* A frame less.                                                            *)
LEMMA TuplesPop ==
  ASSUME NEW s \in Seq(Frames), s # <<>>, NEW live, NEW last, NEW slots, NEW lost, NEW fresh,
         TuplesOf(s, live, last, slots, lost, fresh)
  PROVE  TuplesOf(Front(s), live, last, slots, lost, fresh)
  <1>. DEFINE r == Front(s)
              n == Len(s)
  <1>1. n \in Nat \ {0} /\ Len(r) = n - 1 /\ \A i \in 1..(n - 1) : r[i] = s[i] BY Popped
  <1>. HIDE DEF r
  <1>2. ASSUME NEW i \in 1..Len(r)
        PROVE  /\ r[i].kind = "tuple" => TupleOk(r[i], live, last, slots, lost, fresh)
               /\ r[i].kind = "listen" => i > 1 /\ ListenOk(r[i], r[i - 1], live)
    <2>1. i \in 1..n /\ r[i] = s[i] /\ (i > 1 => r[i - 1] = s[i - 1]) BY <1>1
    <2>. QED BY <2>1 DEF TuplesOf
  <1>. QED BY <1>2 DEF TuplesOf, r

(* Another frame on top.                                                    *)
LEMMA TuplesReplace ==
  ASSUME NEW s \in Seq(Frames), s # <<>>, NEW f \in Frames,
         NEW live, NEW last, NEW slots, NEW lost, NEW fresh,
         TuplesOf(s, live, last, slots, lost, fresh),
         f.kind = "tuple" => TupleOk(f, live, last, slots, lost, fresh),
         f.kind = "listen" => Len(s) > 1 /\ ListenOk(f, s[Len(s) - 1], live)
  PROVE  TuplesOf(Append(Front(s), f), live, last, slots, lost, fresh)
  <1>. DEFINE r == Append(Front(s), f)
              n == Len(s)
  <1>1. n \in Nat \ {0} /\ Len(r) = n /\ r[n] = f /\ \A i \in 1..(n - 1) : r[i] = s[i]
    BY Replaced
  <1>. HIDE DEF r
  <1>2. ASSUME NEW i \in 1..Len(r)
        PROVE  /\ r[i].kind = "tuple" => TupleOk(r[i], live, last, slots, lost, fresh)
               /\ r[i].kind = "listen" => i > 1 /\ ListenOk(r[i], r[i - 1], live)
    <2>1. CASE i = n
      <3>1. r[i] = f /\ (n > 1 => r[i - 1] = s[n - 1]) BY <1>1, <2>1
      <3>. QED BY <2>1, <3>1
    <2>2. CASE i \in 1..(n - 1)
      <3>1. i \in 1..n /\ r[i] = s[i] /\ (i > 1 => r[i - 1] = s[i - 1]) BY <1>1, <2>2
      <3>. QED BY <3>1 DEF TuplesOf
    <2>. QED BY <1>1, <2>1, <2>2
  <1>. QED BY <1>2 DEF TuplesOf, r

-----------------------------------------------------------------------------
(* The frames that the actions put on a stack.                              *)
LEMMA NewFrame ==
  ASSUME NEW kind \in {"script", "call", "tuple", "listen"}, NEW took \in BOOLEAN
  PROVE  /\ StoryFrame(kind, took) \in Frames
         /\ StoryFrame(kind, took).kind = kind /\ StoryFrame(kind, took).took = took
         /\ StoryFrame(kind, took).applied = 0 /\ StoryFrame(kind, took).stage = "run"
  BY DEF StoryFrame, Frames, Stages

(* The frame of a trigger.                                                  *)
LEMMA ListenFrame ==
  ASSUME NEW b \in Frames, NEW todo \in Seq(Nat)
  PROVE  LET f == [b EXCEPT !.todo = todo]
         IN  f \in Frames /\ f.kind = b.kind /\ f.took = b.took /\ f.todo = todo
  BY DEF Frames

(* A frame at another stage.                                                *)
LEMMA Staged ==
  ASSUME NEW f \in Frames,
         NEW stage \in Stages
  PROVE  LET g == [f EXCEPT !.stage = stage]
         IN  /\ g \in Frames /\ g.kind = f.kind /\ g.took = f.took /\ g.slot = f.slot
             /\ g.original = f.original
             /\ g.stage = stage /\ g.todo = f.todo /\ g.heard = f.heard
             /\ g.applied = f.applied /\ g.due = f.due
  BY DEF Frames

(* What is on top of a stack.                                               *)
LEMMA TopIs ==
  ASSUME Typed, NEW t \in StoryThreads, stack[t] # <<>>
  PROVE  /\ stack[t] \in Seq(Frames) /\ Top(t) \in Frames /\ Top(t) = stack[t][Len(stack[t])]
         /\ Len(stack[t]) \in 1..Len(stack[t]) /\ Top(t) = Last(stack[t])
  BY Popped DEF Typed, Top

(* The steps of one thread that change its frames and the locks alone.      *)
LEMMA Moves ==
  ASSUME StoryInv, NEW t \in StoryThreads, NEW q \in Seq(Frames),
         stack' = [stack EXCEPT ![t] = q],
         LocksOf(q, serverLock', cacheLock', t),
         serverLock' = serverLock \/ (serverLock \in {NoThread, t} /\ serverLock' \in {NoThread, t}),
         cacheLock' = cacheLock \/ (cacheLock \in {NoThread, t} /\ cacheLock' \in {NoThread, t}),
         TuplesOf(q, storyLive, lastListener, storySlot, orphaned, named = story),
         UNCHANGED <<storySlot, original, orphaned, watching, story, named, listeners, storyLive, lastListener>>
  PROVE  StoryInv'
  <1>1. /\ stack' \in [StoryThreads -> Seq(Frames)] /\ stack'[t] = q
        /\ \A u \in StoryThreads \ {t} : stack'[u] = stack[u]
    BY DEF StoryInv, Typed
  <1>2. Typed' BY <1>1 DEF StoryInv, Typed
  <1>3. ASSUME NEW u \in StoryThreads PROVE LocksOf(stack'[u], serverLock', cacheLock', u)
    <2>1. CASE u # t
      <3>1. stack'[u] = stack[u] /\ stack[u] \in Seq(Frames) BY <1>1, <2>1 DEF StoryInv, Typed
      <3>2. u # NoThread BY StoryAssumption
      <3>3. LocksOf(stack[u], serverLock, cacheLock, u) BY DEF StoryInv, LockInv
      <3>4. serverLock' = serverLock \/ (serverLock # u /\ serverLock' # u) BY <2>1, <3>2
      <3>5. cacheLock' = cacheLock \/ (cacheLock # u /\ cacheLock' # u) BY <2>1, <3>2
      <3>6. LocksOf(stack[u], serverLock', cacheLock', u)
        BY <3>1, <3>3, <3>4, <3>5, LocksOther
      <3>. QED BY <3>1, <3>6
    <2>. QED BY <1>1, <2>1
  <1>4. LockInv' BY <1>3 DEF LockInv
  <1>5. ASSUME NEW u \in StoryThreads
        PROVE  TuplesOf(stack'[u], storyLive, lastListener, storySlot, orphaned, named = story)
    BY <1>1 DEF StoryInv, TupleInv
  <1>6. TupleInv' BY <1>5 DEF StoryInv, TupleInv
  <1>. QED BY <1>2, <1>4, <1>6 DEF StoryInv

(* What the invariant says of one thread.                                   *)
LEMMA OfThread ==
  ASSUME StoryInv, NEW t \in StoryThreads
  PROVE  /\ stack[t] \in Seq(Frames) /\ LocksOf(stack[t], serverLock, cacheLock, t)
         /\ TuplesOf(stack[t], storyLive, lastListener, storySlot, orphaned, named = story)
         /\ t # NoThread
  BY StoryAssumption DEF StoryInv, Typed, LockInv, TupleInv

-----------------------------------------------------------------------------
(* The invariant holds where there is no story yet.                         *)
LEMMA InitHolds == StoryInit => StoryInv
  <1>. SUFFICES ASSUME StoryInit PROVE StoryInv OBVIOUS
  <1>1. Typed
    <2>1. <<>> \in Seq(Frames) /\ <<>> \in Seq(Nat) OBVIOUS
    <2>. QED BY <2>1 DEF Typed, StoryInit
  <1>2. LockInv
    <2>1. Len(<<>>) = 0 OBVIOUS
    <2>. QED BY <2>1, StoryAssumption DEF LockInv, LocksOf, StoryInit
  <1>3. TupleInv BY DEF TupleInv, TuplesOf, StoryInit
  <1>. QED BY <1>1, <1>2, <1>3 DEF StoryInv

(* A script of the server's starts, which has the state's lock.             *)
LEMMA ScriptHolds == ASSUME StoryInv, ScriptEnters PROVE StoryInv'
  <1>. DEFINE f == StoryFrame("script", TRUE)
              q == Append(stack["server"], f)
  <1>1. "server" \in StoryThreads /\ stack["server"] = <<>> BY DEF StoryThreads, ScriptEnters
  <1>2. f \in Frames /\ f.kind = "script" /\ f.took BY NewFrame
  <1>3. /\ stack["server"] \in Seq(Frames)
        /\ LocksOf(stack["server"], serverLock, cacheLock, "server")
        /\ TuplesOf(stack["server"], storyLive, lastListener, storySlot, orphaned, named = story)
    BY <1>1, OfThread
  <1>4. q \in Seq(Frames) /\ Len(q) = 1 /\ q[1] = f
    <2>1. Len(stack["server"]) = 0 BY <1>1
    <2>2. /\ q \in Seq(Frames) /\ Len(q) = Len(stack["server"]) + 1
          /\ q[Len(stack["server"]) + 1] = f
      BY <1>2, <1>3, Pushed
    <2>3. 0 + 1 = 1 OBVIOUS
    <2>. QED BY <2>1, <2>2, <2>3
  <1>5. cacheLock # "server" BY <1>1, <1>3 DEF LocksOf
  <1>. HIDE DEF f, q
  <1>6. LocksOf(q, "server", cacheLock, "server") BY <1>2, <1>4, <1>5 DEF LocksOf, Serves
  <1>7. TuplesOf(q, storyLive, lastListener, storySlot, orphaned, named = story)
    BY <1>2, <1>3, TuplesPush DEF q
  <1>8. stack' = [stack EXCEPT !["server"] = q] BY DEF ScriptEnters, Push, q, f
  <1>. QED BY <1>1, <1>4, <1>6, <1>7, <1>8, Moves DEF ScriptEnters, hookVars

(* And ends, the only frame there is on its thread.                         *)
LEMMA BodyHolds == ASSUME StoryInv, NEW t \in StoryThreads, BodyReturns(t) PROVE StoryInv'
  <1>. DEFINE s == stack[t]
              q == Front(stack[t])
  <1>1. s # <<>> /\ Top(t).kind = "script" BY DEF BodyReturns, In
  <1>2. /\ s \in Seq(Frames) /\ LocksOf(s, serverLock, cacheLock, t) /\ t # NoThread
        /\ TuplesOf(s, storyLive, lastListener, storySlot, orphaned, named = story)
    BY OfThread
  <1>3. Len(s) = 1 /\ serverLock = t /\ Top(t) = s[1]
    <2>1. Len(s) \in 1..Len(s) /\ Top(t) = s[Len(s)] BY <1>1, TopIs DEF StoryInv
    <2>. QED BY <1>1, <1>2, <2>1 DEF LocksOf, Serves
  <1>4. q \in Seq(Frames) /\ Len(q) = 0
    <2>1. q \in Seq(Frames) /\ Len(q) = Len(s) - 1 BY <1>1, <1>2, Popped
    <2>2. 1 - 1 = 0 OBVIOUS
    <2>. QED BY <1>3, <2>1, <2>2
  <1>. HIDE DEF q
  <1>5. cacheLock # t
    <2>1. \A i \in 1..Len(s) : s[i].kind # "call" BY <1>1, <1>3
    <2>. QED BY <1>2, <2>1 DEF LocksOf
  <1>6. LocksOf(q, NoThread, cacheLock, t) BY <1>4, <1>5 DEF LocksOf
  <1>7. TuplesOf(q, storyLive, lastListener, storySlot, orphaned, named = story)
    BY <1>1, <1>2, TuplesPop DEF q
  <1>8. stack' = [stack EXCEPT ![t] = q] BY DEF BodyReturns, Pop, q
  <1>. QED BY <1>3, <1>4, <1>6, <1>7, <1>8, Moves DEF BodyReturns, hookVars

(* osi::insert begins, called by a script or a listener.                    *)
LEMMA InsertHolds == ASSUME StoryInv, NEW t \in StoryThreads, OsiInsert(t) PROVE StoryInv'
  <1>. DEFINE s == stack[t]
              took == cacheLock # t
              f == StoryFrame("call", took)
              q == Append(s, f)
  <1>1. took \in BOOLEAN OBVIOUS
  <1>2. f \in Frames /\ f.kind = "call" /\ f.took = took BY <1>1, NewFrame
  <1>3. /\ s \in Seq(Frames) /\ LocksOf(s, serverLock, cacheLock, t)
        /\ TuplesOf(s, storyLive, lastListener, storySlot, orphaned, named = story)
    BY OfThread
  <1>4. s # <<>> /\ Serves(Last(s)) BY DEF OsiInsert, RunsLua, In, Serves, Top
  <1>5. f.took <=> cacheLock # t BY <1>2
  <1>. HIDE DEF f, s
  <1>6. LocksOf(q, serverLock, t, t) BY <1>2, <1>3, <1>4, <1>5, LocksCall
  <1>7. TuplesOf(q, storyLive, lastListener, storySlot, orphaned, named = story)
    BY <1>2, <1>3, TuplesPush
  <1>8. q \in Seq(Frames) BY <1>2, <1>3, Pushed
  <1>9. stack' = [stack EXCEPT ![t] = q] BY DEF OsiInsert, Push, f, s
  <1>. QED BY <1>6, <1>7, <1>8, <1>9, Moves DEF OsiInsert, hookVars, Free

(* And returns: a call is never the frame of a lock of the state's.         *)
LEMMA InsertReturnHolds ==
  ASSUME StoryInv, NEW t \in StoryThreads, InsertReturns(t) PROVE StoryInv'
  <1>. DEFINE s == stack[t]
              q == Front(s)
  <1>1. s # <<>> /\ Top(t).kind = "call" /\ Top(t) = Last(s) BY DEF InsertReturns, In, Top
  <1>2. /\ s \in Seq(Frames) /\ LocksOf(s, serverLock, cacheLock, t) /\ t # NoThread
        /\ TuplesOf(s, storyLive, lastListener, storySlot, orphaned, named = story)
    BY OfThread
  <1>3. cacheLock = t
    <2>1. Len(s) \in 1..Len(s) /\ Top(t) = s[Len(s)] BY <1>1, TopIs DEF StoryInv
    <2>. QED BY <1>1, <1>2, <2>1 DEF LocksOf
  <1>4. cacheLock' = IF Last(s).took THEN NoThread ELSE cacheLock BY <1>1 DEF InsertReturns
  <1>5. q \in Seq(Frames) BY <1>1, <1>2, Popped
  <1>6. ~Serves(Last(s)) BY <1>1 DEF Serves
  <1>. HIDE DEF s
  <1>7. LocksOf(q, serverLock, cacheLock', t) BY <1>1, <1>2, <1>4, <1>6, LocksPop
  <1>8. TuplesOf(q, storyLive, lastListener, storySlot, orphaned, named = story) BY <1>1, <1>2, TuplesPop
  <1>9. stack' = [stack EXCEPT ![t] = q] BY DEF InsertReturns, Pop, s
  <1>. QED BY <1>3, <1>4, <1>5, <1>7, <1>8, <1>9, Moves DEF InsertReturns, hookVars

-----------------------------------------------------------------------------
(* A tuple comes to a slot: the call it was made for has run, and the       *)
(* replacement, where there is one, has the tuple to see to.                *)
LEMMA TupleHolds ==
  ASSUME StoryInv, NEW t \in StoryThreads, NEW slot \in StorySlots, EngineTuple(t, slot)
  PROVE  StoryInv'
  <1>. DEFINE s == stack[t]
              g == [Top(t) EXCEPT !.stage = "ran"]
              s1 == IF s = <<>> THEN s ELSE Append(Front(s), g)
              f == [StoryFrame("tuple", FALSE) EXCEPT !.slot = slot, !.stage = "look",
                       !.due = IF named = story THEN storyLive ELSE {}]
              q == IF storySlot[slot] = "engine" THEN s1 ELSE Append(s1, f)
  <1>1. /\ s \in Seq(Frames) /\ LocksOf(s, serverLock, cacheLock, t)
        /\ TuplesOf(s, storyLive, lastListener, storySlot, orphaned, named = story)
    BY OfThread
  <1>2. s # <<>> => /\ Top(t).kind = "call" /\ Top(t) = Last(s) /\ Top(t) \in Frames
    <2>1. s # <<>> => In(t, "call") BY DEF EngineTuple
    <2>. QED BY <2>1, TopIs DEF In, StoryInv
  <1>3. s # <<>> => g \in Frames /\ g.kind = "call" /\ g.took = Top(t).took
    BY <1>2, Staged DEF Stages
  <1>4. /\ f \in Frames /\ f.kind = "tuple" /\ f.slot = slot /\ f.stage = "look"
        /\ f.due = (IF named = story THEN storyLive ELSE {}) /\ f.applied = 0
    <2>. DEFINE base == StoryFrame("tuple", FALSE)
                due == IF named = story THEN storyLive ELSE {}
    <2>1. due \in SUBSET Nat BY DEF StoryInv, Typed
    <2>2. base \in Frames /\ base.kind = "tuple" /\ base.applied = 0 BY NewFrame
    <2>3. f = [base EXCEPT !.slot = slot, !.stage = "look", !.due = due] OBVIOUS
    <2>. HIDE DEF base, due, f
    <2>4. /\ f \in Frames /\ f.kind = base.kind /\ f.slot = slot /\ f.stage = "look"
          /\ f.due = due /\ f.applied = base.applied
      <3>1. f.kind = base.kind /\ f.slot = slot /\ f.stage = "look" /\ f.due = due
            /\ f.applied = base.applied
        BY <2>2, <2>3 DEF Frames
      <3>2. f \in Frames BY <2>1, <2>2, <2>3 DEF Frames, Stages
      <3>. QED BY <3>1, <3>2
    <2>. QED BY <2>2, <2>4 DEF due
  <1>. HIDE DEF g, f
  <1>5. /\ s1 \in Seq(Frames) /\ LocksOf(s1, serverLock, cacheLock, t)
        /\ TuplesOf(s1, storyLive, lastListener, storySlot, orphaned, named = story)
    <2>1. CASE s = <<>> BY <1>1, <2>1
    <2>2. CASE s # <<>>
      <3>1. Append(Front(s), g) \in Seq(Frames) BY <1>1, <1>3, <2>2, Replaced
      <3>2. LocksOf(Append(Front(s), g), serverLock, cacheLock, t)
        BY <1>1, <1>2, <1>3, <2>2, LocksReplace
      <3>3. TuplesOf(Append(Front(s), g), storyLive, lastListener, storySlot, orphaned, named = story)
        BY <1>1, <1>3, <2>2, TuplesReplace
      <3>. QED BY <2>2, <3>1, <3>2, <3>3
    <2>. QED BY <2>1, <2>2
  <1>6. storySlot[slot] = "engine" \/ TupleOk(f, storyLive, lastListener, storySlot, orphaned, named = story)
    <2>. SUFFICES ASSUME storySlot[slot] # "engine"
                  PROVE  TupleOk(f, storyLive, lastListener, storySlot, orphaned, named = story)
      OBVIOUS
    <2>1. storySlot[slot] = "watched" BY DEF StoryInv, Typed
    <2>3. \A id \in storyLive : id \in 1..lastListener BY DEF StoryInv, Typed, TupleInv
    <2>. QED BY <1>4, <2>1, <2>3 DEF TupleOk
  <1>. DEFINE r == Append(s1, f)
  <1>7. \/ storySlot[slot] = "engine"
        \/ /\ r \in Seq(Frames)
           /\ LocksOf(r, serverLock, cacheLock, t)
           /\ TuplesOf(r, storyLive, lastListener, storySlot, orphaned, named = story)
    <2>. HIDE DEF s1
    <2>. QED BY <1>4, <1>5, <1>6, Pushed, LocksPush, TuplesPush
  <1>8. stack' = [stack EXCEPT ![t] = q]
    <2>0. stack \in [StoryThreads -> Seq(Frames)] BY DEF StoryInv, Typed
    <2>1. stack' = LET below == IF s = <<>> THEN stack ELSE [stack EXCEPT ![t] = Append(Front(s), g)]
                   IN  IF storySlot[slot] = "engine" THEN below
                       ELSE [below EXCEPT ![t] = Append(@, f)]
      BY DEF EngineTuple, Replace, g, f
    <2>. HIDE DEF s
    <2>2. CASE s = <<>> BY <2>0, <2>1, <2>2 DEF s
    <2>3. CASE s # <<>> BY <2>0, <2>1, <2>3
    <2>. QED BY <2>2, <2>3
  <1>9. /\ q \in Seq(Frames) /\ LocksOf(q, serverLock, cacheLock, t)
        /\ TuplesOf(q, storyLive, lastListener, storySlot, orphaned, named = story)
    BY <1>5, <1>7
  <1>. HIDE DEF q
  <1>. QED BY <1>8, <1>9, Moves DEF EngineTuple, hookVars

(* A frame on top goes to another stage, with no lock taken nor let go of.  *)
LEMMA TopMoves ==
  ASSUME StoryInv, NEW t \in StoryThreads, stack[t] # <<>>, NEW f \in Frames,
         f.kind = Top(t).kind, f.took = Top(t).took,
         f.kind = "tuple" => TupleOk(f, storyLive, lastListener, storySlot, orphaned, named = story),
         f.kind = "listen" => /\ Len(stack[t]) > 1
                              /\ ListenOk(f, stack[t][Len(stack[t]) - 1], storyLive),
         stack' = Replace(t, f),
         UNCHANGED <<serverLock, cacheLock, storySlot, original, orphaned, watching, story, named, listeners,
                     storyLive, lastListener>>
  PROVE  StoryInv'
  <1>. DEFINE s == stack[t]
              q == Append(Front(s), f)
  <1>1. /\ s \in Seq(Frames) /\ LocksOf(s, serverLock, cacheLock, t)
        /\ TuplesOf(s, storyLive, lastListener, storySlot, orphaned, named = story)
    BY OfThread
  <1>2. Top(t) = Last(s) BY DEF Top
  <1>3. LocksOf(q, serverLock, cacheLock, t) BY <1>1, <1>2, LocksReplace
  <1>4. TuplesOf(q, storyLive, lastListener, storySlot, orphaned, named = story) BY <1>1, TuplesReplace
  <1>5. q \in Seq(Frames) BY <1>1, Replaced
  <1>6. stack' = [stack EXCEPT ![t] = q] BY DEF Replace
  <1>. HIDE DEF s, q
  <1>. QED BY <1>3, <1>4, <1>5, <1>6, Moves

(* What the invariant says of the frame on top.                             *)
LEMMA OnTop ==
  ASSUME StoryInv, NEW t \in StoryThreads, stack[t] # <<>>
  PROVE  /\ Top(t) \in Frames
         /\ Top(t).kind = "tuple" => TupleOk(Top(t), storyLive, lastListener, storySlot, orphaned, named = story)
         /\ Top(t).kind = "listen" =>
              /\ Len(stack[t]) > 1
              /\ ListenOk(Top(t), stack[t][Len(stack[t]) - 1], storyLive)
         /\ Serves(Top(t)) => serverLock = t
  <1>1. /\ Top(t) \in Frames /\ Top(t) = stack[t][Len(stack[t])]
        /\ Len(stack[t]) \in 1..Len(stack[t])
    BY TopIs DEF StoryInv
  <1>2. TuplesOf(stack[t], storyLive, lastListener, storySlot, orphaned, named = story) BY OfThread
  <1>3. LocksOf(stack[t], serverLock, cacheLock, t) BY OfThread
  <1>. QED BY <1>1, <1>2, <1>3 DEF TuplesOf, LocksOf

(* The tuple's node is named, and its listeners raised if it has a name.    *)
LEMMA NameHolds == ASSUME StoryInv, NEW t \in StoryThreads, NameNode(t) PROVE StoryInv'
  <1>. DEFINE stage == IF named = story THEN "before" ELSE "silent"
              f == [Top(t) EXCEPT !.stage = stage]
  <1>1. stack[t] # <<>> /\ Top(t).kind = "tuple" /\ Top(t).stage = "name" BY DEF NameNode, In
  <1>2. Top(t) \in Frames /\ TupleOk(Top(t), storyLive, lastListener, storySlot, orphaned, named = story)
    BY <1>1, OnTop
  <1>3. /\ f \in Frames /\ f.kind = "tuple" /\ f.took = Top(t).took /\ f.slot = Top(t).slot
        /\ f.stage = stage /\ f.heard = Top(t).heard /\ f.applied = Top(t).applied
        /\ f.due = Top(t).due /\ f.original = Top(t).original
    <2>1. stage \in Stages
      BY DEF Stages
    <2>. HIDE DEF stage
    <2>. QED BY <1>1, <1>2, <2>1 DEF Frames
  <1>4. stack' = Replace(t, f) BY DEF NameNode
  <1>. HIDE DEF f
  <1>5. TupleOk(f, storyLive, lastListener, storySlot, orphaned, named = story)
    BY <1>1, <1>2, <1>3 DEF TupleOk
  <1>. QED BY <1>1, <1>3, <1>4, <1>5, TopMoves DEF NameNode, hookVars

(* What its slot held is looked up, which was kept or was lost.             *)
LEMMA HookedHolds == ASSUME StoryInv, NEW t \in StoryThreads, HookedFor(t) PROVE StoryInv'
  <1>. DEFINE held == original[Top(t).slot]
              f == [Top(t) EXCEPT !.original = held, !.stage = "name"]
  <1>1. stack[t] # <<>> /\ Top(t).kind = "tuple" /\ Top(t).stage = "look" BY DEF HookedFor, In
  <1>2. Top(t) \in Frames /\ TupleOk(Top(t), storyLive, lastListener, storySlot, orphaned, named = story)
    BY <1>1, OnTop
  <1>3. /\ held \in {"none", "engine", "watched"}
        /\ held # "none" \/ Top(t).slot \in orphaned
    BY <1>2 DEF TupleOk, StoryInv, Typed, TupleInv
  <1>4. stack' = Replace(t, f) BY DEF HookedFor
  <1>. HIDE DEF held
  <1>5. /\ f \in Frames /\ f.kind = "tuple" /\ f.took = Top(t).took /\ f.slot = Top(t).slot
        /\ f.stage = "name" /\ f.heard = Top(t).heard /\ f.applied = Top(t).applied
        /\ f.due = Top(t).due /\ f.original = held
    BY <1>1, <1>2, <1>3 DEF Frames, Stages
  <1>. HIDE DEF f
  <1>6. TupleOk(f, storyLive, lastListener, storySlot, orphaned, named = story)
    BY <1>1, <1>2, <1>3, <1>5 DEF TupleOk
  <1>. QED BY <1>1, <1>4, <1>5, <1>6, TopMoves DEF HookedFor, hookVars

(* The engine's own operation, if it was kept; where the replacement was    *)
(* kept instead, the tuple starts over.                                     *)
LEMMA OriginalHolds == ASSUME StoryInv, NEW t \in StoryThreads, CallOriginal(t) PROVE StoryInv'
  <1>1. /\ stack[t] # <<>> /\ Top(t).kind = "tuple" /\ Top(t).stage \in {"original", "silent"}
    BY DEF CallOriginal, In
  <1>2. Top(t) \in Frames /\ TupleOk(Top(t), storyLive, lastListener, storySlot, orphaned, named = story)
    BY <1>1, OnTop
  <1>3. /\ Top(t).applied = 0 /\ Top(t).original \in {"none", "engine", "watched"}
        /\ Top(t).original # "none" \/ Top(t).slot \in orphaned
    BY <1>1, <1>2 DEF TupleOk, Frames
  <1>4. ASSUME NEW f \in Frames, NEW stage \in Stages, NEW applied \in {0, 1},
               f.kind = "tuple", f.took = Top(t).took, f.slot = Top(t).slot,
               f.original = Top(t).original, f.heard = Top(t).heard, f.due = Top(t).due,
               f.stage = stage, f.applied = applied, stack' = Replace(t, f),
               \/ stage = "look" /\ applied = 0
               \/ /\ stage = IF Top(t).stage = "original" THEN "after" ELSE "done"
                  /\ applied = 1 \/ f.slot \in orphaned
        PROVE  StoryInv'
    <2>1. TupleOk(f, storyLive, lastListener, storySlot, orphaned, named = story)
      BY <1>1, <1>2, <1>4 DEF TupleOk
    <2>. QED BY <1>1, <1>4, <2>1, TopMoves DEF CallOriginal, hookVars
  <1>. DEFINE stage == IF Top(t).stage = "original" THEN "after" ELSE "done"
              over == [Top(t) EXCEPT !.stage = stage]
              done == [over EXCEPT !.applied = @ + 1]
              again == [Top(t) EXCEPT !.stage = "look"]
  <1>5. stack' = Replace(t, CASE Top(t).original = "engine" -> done
                              [] Top(t).original = "none" -> over
                              [] OTHER -> again)
    BY DEF CallOriginal
  <1>6. stage \in Stages BY DEF Stages
  <1>. HIDE DEF stage
  <1>7. /\ over \in Frames /\ over.kind = "tuple" /\ over.took = Top(t).took
        /\ over.slot = Top(t).slot /\ over.original = Top(t).original /\ over.stage = stage
        /\ over.heard = Top(t).heard /\ over.applied = 0 /\ over.due = Top(t).due
    BY <1>1, <1>2, <1>3, <1>6, Staged
  <1>8. CASE Top(t).original = "engine"
    <2>1. stack' = Replace(t, done) BY <1>5, <1>8
    <2>. HIDE DEF over
    <2>2. done = [over EXCEPT !.applied = 1] BY <1>7
    <2>. HIDE DEF done
    <2>3. /\ done \in Frames /\ done.kind = "tuple" /\ done.took = Top(t).took
          /\ done.slot = Top(t).slot /\ done.original = Top(t).original /\ done.stage = stage
          /\ done.heard = Top(t).heard /\ done.applied = 1 /\ done.due = Top(t).due
      BY <1>7, <2>2 DEF Frames
    <2>. QED BY <1>4, <1>6, <2>1, <2>3 DEF stage
  <1>9. CASE Top(t).original = "none"
    <2>1. stack' = Replace(t, over)
      <3>1. Top(t).original # "engine" BY <1>9
      <3>. QED BY <1>5, <1>9, <3>1
    <2>. HIDE DEF over
    <2>. QED BY <1>3, <1>4, <1>6, <1>7, <1>9, <2>1 DEF stage
  <1>10. CASE Top(t).original = "watched"
    <2>1. stack' = Replace(t, again)
      <3>1. Top(t).original # "engine" /\ Top(t).original # "none" BY <1>10
      <3>. QED BY <1>5, <3>1
    <2>2. "look" \in Stages BY DEF Stages
    <2>3. /\ again \in Frames /\ again.kind = "tuple" /\ again.took = Top(t).took
          /\ again.slot = Top(t).slot /\ again.original = Top(t).original /\ again.stage = "look"
          /\ again.heard = Top(t).heard /\ again.applied = 0 /\ again.due = Top(t).due
      BY <1>1, <1>2, <1>3, <2>2, Staged
    <2>. HIDE DEF again
    <2>. QED BY <1>4, <2>1, <2>2, <2>3
  <1>. QED BY <1>3, <1>8, <1>9, <1>10

(* A handler of the trigger's is called, or passed over, and returns.       *)
LEMMA ListenerHolds ==
  ASSUME StoryInv, NEW t \in StoryThreads, CallListener(t) \/ ListenerReturns(t)
  PROVE  StoryInv'
  <1>1. stack[t] # <<>> /\ Top(t).kind = "listen" BY DEF CallListener, ListenerReturns, In
  <1>. DEFINE under == stack[t][Len(stack[t]) - 1]
  <1>2. Top(t) \in Frames /\ Len(stack[t]) > 1 /\ ListenOk(Top(t), under, storyLive)
    BY <1>1, OnTop
  <1>. HIDE DEF under
  <1>3. CASE ListenerReturns(t)
    <2>. DEFINE f == [Top(t) EXCEPT !.stage = "run"]
    <2>1. /\ f \in Frames /\ f.kind = "listen" /\ f.took = Top(t).took
          /\ f.todo = Top(t).todo /\ f.heard = Top(t).heard
      <3>1. "run" \in Stages
        BY DEF Stages
      <3>. QED BY <1>1, <1>2, <3>1, Staged
    <2>2. stack' = Replace(t, f) BY <1>3 DEF ListenerReturns
    <2>. HIDE DEF f
    <2>3. ListenOk(f, under, storyLive) BY <1>2, <2>1 DEF ListenOk
    <2>. QED BY <1>1, <1>2, <1>3, <2>1, <2>2, <2>3, TopMoves DEF ListenerReturns, hookVars, under
  <1>4. CASE CallListener(t)
    <2>. DEFINE todo == Top(t).todo
                id == Head(todo)
                next == [Top(t) EXCEPT !.todo = Tail(@)]
                f == IF id \in storyLive
                     THEN [next EXCEPT !.stage = "handler", !.heard = @ \cup {id}] ELSE next
    <2>1. todo \in Seq(Nat) /\ todo # <<>> BY <1>2, <1>4 DEF CallListener, Frames
    <2>2. /\ id \in Nat /\ Tail(todo) \in Seq(Nat) /\ id = todo[1] /\ Len(todo) \in Nat \ {0}
          /\ Len(Tail(todo)) = Len(todo) - 1
          /\ \A k \in 1..(Len(todo) - 1) : Tail(todo)[k] = todo[k + 1]
      BY <2>1, HeadTailProperties, EmptySeq, LenProperties, ElementOfSeq
    <2>. HIDE DEF id, todo
    <2>3. /\ f \in Frames /\ f.kind = "listen" /\ f.took = Top(t).took /\ f.todo = Tail(todo)
          /\ f.heard = IF id \in storyLive THEN Top(t).heard \cup {id} ELSE Top(t).heard
      <3>1. /\ next \in Frames /\ next.kind = "listen" /\ next.took = Top(t).took
            /\ next.todo = Tail(todo) /\ next.heard = Top(t).heard
        BY <1>1, <1>2, <2>2 DEF Frames, todo
      <3>2. Top(t).heard \cup {id} \in SUBSET Nat BY <1>2, <2>2 DEF Frames
      <3>. HIDE DEF next
      <3>3. CASE id \in storyLive
        <4>1. f = [next EXCEPT !.stage = "handler", !.heard = Top(t).heard \cup {id}]
          BY <3>1, <3>3
        <4>. HIDE DEF f
        <4>. QED BY <3>1, <3>2, <3>3, <4>1 DEF Frames, Stages
      <3>. QED BY <3>1, <3>3
    <2>4. stack' = Replace(t, f) BY <1>4 DEF CallListener, id, todo
    <2>. HIDE DEF f
    <2>5. ASSUME NEW x \in under.due \cap storyLive
          PROVE  x \in f.heard \/ \E k \in 1..Len(f.todo) : f.todo[k] = x
      <3>1. x \in Top(t).heard \/ \E k \in 1..Len(todo) : todo[k] = x
        BY <1>2 DEF ListenOk, todo
      <3>2. CASE x \in Top(t).heard BY <2>3, <3>2
      <3>3. ASSUME NEW k \in 1..Len(todo), todo[k] = x PROVE x \in f.heard \/ \E j \in 1..Len(f.todo) : f.todo[j] = x
        <4>1. CASE k = 1 BY <2>2, <2>3, <3>3, <4>1
        <4>2. CASE k # 1
          <5>1. k - 1 \in 1..(Len(todo) - 1) /\ (k - 1) + 1 = k BY <2>2, <4>2
          <5>2. Tail(todo)[k - 1] = x BY <2>2, <3>3, <5>1
          <5>. QED BY <2>2, <2>3, <5>1, <5>2
        <4>. QED BY <4>1, <4>2
      <3>. QED BY <3>1, <3>2, <3>3
    <2>6. ListenOk(f, under, storyLive) BY <1>2, <2>5 DEF ListenOk
    <2>. QED BY <1>1, <1>2, <1>4, <2>3, <2>4, <2>6, TopMoves DEF CallListener, hookVars, under
  <1>. QED BY <1>3, <1>4

-----------------------------------------------------------------------------
(* A trigger enters the server's state, with the listeners as they are.     *)
LEMMA TriggerHolds == ASSUME StoryInv, NEW t \in StoryThreads, OsirisTrigger(t) PROVE StoryInv'
  <1>. DEFINE s == stack[t]
              took == serverLock # t
              f == [StoryFrame("listen", took) EXCEPT !.todo = listeners]
              q == Append(s, f)
  <1>1. /\ s # <<>> /\ Top(t).kind = "tuple" /\ Top(t).stage \in {"before", "after"}
        /\ Top(t) = Last(s)
    BY DEF OsirisTrigger, In, Top
  <1>2. TupleOk(Top(t), storyLive, lastListener, storySlot, orphaned, named = story) BY <1>1, OnTop
  <1>3. f \in Frames /\ f.kind = "listen" /\ f.took = took /\ f.todo = listeners
    <2>1. took \in BOOLEAN /\ listeners \in Seq(Nat) BY DEF StoryInv, Typed
    <2>. DEFINE base == StoryFrame("listen", took)
    <2>2. base \in Frames /\ base.kind = "listen" /\ base.took = took BY <2>1, NewFrame
    <2>3. f = [base EXCEPT !.todo = listeners] OBVIOUS
    <2>. HIDE DEF took, base, f
    <2>. QED BY <2>1, <2>2, <2>3, ListenFrame
  <1>4. /\ s \in Seq(Frames) /\ LocksOf(s, serverLock, cacheLock, t)
        /\ TuplesOf(s, storyLive, lastListener, storySlot, orphaned, named = story)
    BY OfThread
  <1>5. f.took <=> serverLock # t BY <1>3
  <1>6. stack' = [stack EXCEPT ![t] = q] BY DEF OsirisTrigger, Push
  <1>. HIDE DEF f, s
  <1>7. ListenOk(f, Last(s), storyLive) BY <1>1, <1>3 DEF ListenOk, StoryInv, TupleInv
  <1>8. LocksOf(q, t, cacheLock, t) BY <1>3, <1>4, <1>5, LocksListen
  <1>9. TuplesOf(q, storyLive, lastListener, storySlot, orphaned, named = story)
    BY <1>1, <1>3, <1>4, <1>7, TuplesPush
  <1>10. q \in Seq(Frames) BY <1>3, <1>4, Pushed
  <1>. QED BY <1>6, <1>8, <1>9, <1>10, Moves DEF OsirisTrigger, hookVars, Free

(* And returns to its tuple: who was due and is subscribed has heard.       *)
LEMMA TriggerReturnHolds ==
  ASSUME StoryInv, NEW t \in StoryThreads, TriggerReturns(t) PROVE StoryInv'
  <1>. DEFINE s == stack[t]
              under == Front(s)
              tuple == Last(under)
              stage == IF tuple.stage = "before" THEN "original" ELSE "done"
              f == [tuple EXCEPT !.stage = stage, !.heard = @ \cup Top(t).heard,
                                 !.due = @ \cap storyLive]
              q == Append(Front(under), f)
  <1>1. /\ s # <<>> /\ Top(t).kind = "listen" /\ Top(t) = Last(s) /\ Top(t).todo = <<>>
    BY DEF TriggerReturns, In, Top
  <1>2. /\ Top(t) \in Frames /\ Len(s) > 1 /\ ListenOk(Top(t), s[Len(s) - 1], storyLive)
        /\ serverLock = t
    BY <1>1, OnTop DEF Serves
  <1>3. /\ s \in Seq(Frames) /\ LocksOf(s, serverLock, cacheLock, t) /\ t # NoThread
        /\ TuplesOf(s, storyLive, lastListener, storySlot, orphaned, named = story)
    BY OfThread
  <1>4. /\ under \in Seq(Frames) /\ Len(s) \in Nat /\ Len(under) = Len(s) - 1
        /\ \A i \in 1..(Len(s) - 1) : under[i] = s[i]
    BY <1>1, <1>3, Popped
  <1>5. stack' = [stack EXCEPT ![t] = q] BY DEF TriggerReturns
  <1>6. serverLock' = IF Last(s).took THEN NoThread ELSE serverLock BY <1>1 DEF TriggerReturns
  <1>. HIDE DEF s
  <1>7. Serves(Last(s)) /\ Last(s).kind # "call" BY <1>1 DEF Serves
  <1>8. LocksOf(under, serverLock', cacheLock, t)
    <2>1. LocksOf(Front(s), IF Serves(Last(s)) /\ Last(s).took THEN NoThread ELSE serverLock,
                  IF Last(s).kind = "call" /\ Last(s).took THEN NoThread ELSE cacheLock, t)
      BY <1>1, <1>3, LocksPop
    <2>2. (IF Serves(Last(s)) /\ Last(s).took THEN NoThread ELSE serverLock) = serverLock'
      BY <1>6, <1>7
    <2>3. (IF Last(s).kind = "call" /\ Last(s).took THEN NoThread ELSE cacheLock) = cacheLock
      BY <1>7
    <2>. QED BY <2>1, <2>2, <2>3
  <1>9. TuplesOf(under, storyLive, lastListener, storySlot, orphaned, named = story)
    BY <1>1, <1>3, TuplesPop
  <1>10. under # <<>>
    <2>1. Len(under) > 0 BY <1>2, <1>4
    <2>. QED BY <2>1
  <1>. HIDE DEF under
  <1>11. /\ tuple \in Frames /\ tuple = s[Len(s) - 1]
         /\ TupleOk(tuple, storyLive, lastListener, storySlot, orphaned, named = story)
    <2>1. tuple \in Frames /\ tuple = under[Len(under)] /\ Len(under) \in Nat \ {0}
      BY <1>4, <1>10, Popped
    <2>2. Len(under) \in 1..Len(under) BY <2>1
    <2>3. tuple = s[Len(s) - 1] BY <1>4, <2>1, <2>2
    <2>4. tuple.kind = "tuple" BY <1>2, <2>3 DEF ListenOk
    <2>. QED BY <1>9, <2>1, <2>2, <2>3, <2>4 DEF TuplesOf
  <1>12. /\ tuple.kind = "tuple" /\ tuple.stage \in {"before", "after"}
         /\ tuple.due \cap storyLive \subseteq Top(t).heard
    <2>1. Len(Top(t).todo) = 0 BY <1>1
    <2>. QED BY <1>2, <1>11, <2>1 DEF ListenOk
  <1>. HIDE DEF tuple
  <1>13. /\ f \in Frames /\ f.kind = "tuple" /\ f.took = tuple.took /\ f.slot = tuple.slot
         /\ f.original = tuple.original
         /\ f.stage = stage /\ f.heard = tuple.heard \cup Top(t).heard
         /\ f.applied = tuple.applied /\ f.due = tuple.due \cap storyLive
    <2>1. stage \in Stages
      BY DEF Stages
    <2>2. tuple.heard \cup Top(t).heard \in SUBSET Nat /\ tuple.due \cap storyLive \in SUBSET Nat
      BY <1>2, <1>11 DEF Frames
    <2>. HIDE DEF stage
    <2>3. f = [tuple EXCEPT !.stage = stage, !.heard = tuple.heard \cup Top(t).heard,
                            !.due = tuple.due \cap storyLive]
      OBVIOUS
    <2>. HIDE DEF f
    <2>. QED BY <1>11, <1>12, <2>1, <2>2, <2>3 DEF Frames
  <1>. HIDE DEF f
  <1>14. TupleOk(f, storyLive, lastListener, storySlot, orphaned, named = story)
    BY <1>11, <1>12, <1>13 DEF TupleOk
  <1>15. LocksOf(q, serverLock', cacheLock, t)
    BY <1>4, <1>8, <1>10, <1>12, <1>13, LocksReplace DEF tuple
  <1>16. TuplesOf(q, storyLive, lastListener, storySlot, orphaned, named = story)
    BY <1>4, <1>9, <1>10, <1>13, <1>14, TuplesReplace
  <1>17. q \in Seq(Frames) BY <1>4, <1>10, <1>13, Replaced
  <1>. HIDE DEF q
  <1>. QED BY <1>2, <1>5, <1>6, <1>15, <1>16, <1>17, Moves DEF TriggerReturns, hookVars

(* The replacement returns to the engine.                                   *)
LEMMA TupleReturnHolds ==
  ASSUME StoryInv, NEW t \in StoryThreads, TupleReturns(t) PROVE StoryInv'
  <1>. DEFINE s == stack[t]
              q == Front(s)
  <1>1. s # <<>> /\ Last(s).kind = "tuple" BY DEF TupleReturns, In, Top
  <1>2. /\ s \in Seq(Frames) /\ LocksOf(s, serverLock, cacheLock, t) /\ t # NoThread
        /\ TuplesOf(s, storyLive, lastListener, storySlot, orphaned, named = story)
    BY OfThread
  <1>3. stack' = [stack EXCEPT ![t] = q] BY DEF TupleReturns, Pop
  <1>. HIDE DEF s
  <1>4. ~Serves(Last(s)) /\ Last(s).kind # "call" BY <1>1 DEF Serves
  <1>5. LocksOf(q, serverLock, cacheLock, t) BY <1>1, <1>2, <1>4, LocksPop
  <1>6. TuplesOf(q, storyLive, lastListener, storySlot, orphaned, named = story) BY <1>1, <1>2, TuplesPop
  <1>7. q \in Seq(Frames) BY <1>1, <1>2, Popped
  <1>. QED BY <1>3, <1>5, <1>6, <1>7, Moves DEF TupleReturns, hookVars

-----------------------------------------------------------------------------
(* An install leaves no slot with its replacement and nothing kept, but the *)
(* ones where it stopped.                                                   *)
LEMMA InstallKeeps ==
  ASSUME StoryInv, NEW all \in SUBSET StoryClasses,
         NEW half \in (StoryClasses \ all) \cup {"none"}, ReplaceSlots(all, half)
  PROVE  /\ storySlot' \in [StorySlots -> {"engine", "watched"}] /\ orphaned' \subseteq StorySlots
         /\ original' \in [StorySlots -> {"none", "engine", "watched"}]
         /\ \A slot \in StorySlots : storySlot[slot] = "watched" => storySlot'[slot] = "watched"
         /\ orphaned \subseteq orphaned'
         /\ \A slot \in StorySlots :
               storySlot'[slot] = "watched" => original'[slot] # "none" \/ slot \in orphaned'
  <1>1. /\ storySlot \in [StorySlots -> {"engine", "watched"}] /\ orphaned \subseteq StorySlots
        /\ original \in [StorySlots -> {"none", "engine", "watched"}]
        /\ \A slot \in StorySlots :
              storySlot[slot] = "watched" => original[slot] # "none" \/ slot \in orphaned
    BY DEF StoryInv, Typed, TupleInv
  <1>. DEFINE in(slot) == slot[1] \in all
              halfway(slot) == slot = <<half, "insert">>
  <1>2. /\ storySlot' = [slot \in StorySlots |->
              IF in(slot) \/ halfway(slot) THEN "watched" ELSE storySlot[slot]]
        /\ original' = [slot \in StorySlots |-> IF in(slot) THEN storySlot[slot] ELSE original[slot]]
        /\ orphaned' = orphaned \cup {slot \in StorySlots : halfway(slot)}
    BY DEF ReplaceSlots
  <1>. HIDE DEF in, halfway
  <1>. QED BY <1>1, <1>2

(* A listener more is of no tuple that is under way.                        *)
LEMMA RegisterHolds ==
  ASSUME StoryInv, NEW t \in StoryThreads, RegisterListener(t) PROVE StoryInv'
  <1>1. UNCHANGED <<story, cacheLock, serverLock, stack>> BY DEF RegisterListener
  <1>2. /\ named' = story
        /\ \/ UNCHANGED <<storySlot, original, orphaned>>
           \/ \E all \in SUBSET StoryClasses :
                 \E half \in (StoryClasses \ all) \cup {"none"} : ReplaceSlots(all, half)
    BY DEF RegisterListener, InstallHooks, hookVars
  <1>3. /\ storySlot' \in [StorySlots -> {"engine", "watched"}] /\ orphaned' \subseteq StorySlots
        /\ original' \in [StorySlots -> {"none", "engine", "watched"}]
        /\ \A slot \in StorySlots : storySlot[slot] = "watched" => storySlot'[slot] = "watched"
        /\ orphaned \subseteq orphaned'
        /\ \A slot \in StorySlots :
              storySlot'[slot] = "watched" => original'[slot] # "none" \/ slot \in orphaned'
    BY <1>2, InstallKeeps DEF StoryInv, Typed, TupleInv
  <1>4. \/ UNCHANGED <<listeners, storyLive, lastListener>>
        \/ /\ lastListener' = lastListener + 1
           /\ listeners' = Append(listeners, lastListener + 1)
           /\ storyLive' = storyLive \cup {lastListener + 1}
    BY DEF RegisterListener
  <1>5. /\ lastListener \in Nat /\ listeners \in Seq(Nat) /\ storyLive \subseteq Nat
        /\ Len(listeners) \in Nat
    BY LenProperties DEF StoryInv, Typed
  <1>6. /\ lastListener' \in Nat /\ lastListener <= lastListener'
        /\ \A id \in 1..lastListener : id \in storyLive' => id \in storyLive
    BY <1>4, <1>5
  <1>7. Typed'
    <2>1. lastListener + 1 \in Nat /\ Append(listeners, lastListener + 1) \in Seq(Nat)
      BY <1>5, AppendProperties
    <2>2. listeners' \in Seq(Nat) /\ storyLive' \subseteq Nat BY <1>4, <1>5, <2>1
    <2>. QED BY <1>1, <1>2, <1>3, <1>6, <2>2 DEF StoryInv, Typed
  <1>8. LockInv' BY <1>1 DEF StoryInv, LockInv
  <1>9. ASSUME NEW u \in StoryThreads
        PROVE  TuplesOf(stack[u], storyLive', lastListener', storySlot', orphaned', named' = story)
    <2>1. /\ stack[u] \in Seq(Frames)
          /\ TuplesOf(stack[u], storyLive, lastListener, storySlot, orphaned, named = story)
      BY OfThread
    <2>2. /\ \A slot \in StorySlots : storySlot[slot] = "watched" => storySlot'[slot] = "watched"
          /\ orphaned \subseteq orphaned'
      BY <1>3
    <2>3. lastListener \in Nat /\ lastListener' \in Nat /\ lastListener <= lastListener' BY <1>5, <1>6
    <2>4. \A id \in 1..lastListener : id \in storyLive' => id \in storyLive BY <1>6
    <2>5. (named = story) => (named' = story) BY <1>2
    <2>6. PICK live2, last2, slots2, lost2, fresh2 :
            /\ live2 = storyLive' /\ last2 = lastListener' /\ slots2 = storySlot'
            /\ lost2 = orphaned' /\ fresh2 = (named' = story)
      OBVIOUS
    <2>7. last2 \in Nat /\ lastListener <= last2 /\ \A id \in 1..lastListener : id \in live2 => id \in storyLive
      BY <2>3, <2>4, <2>6
    <2>8. /\ \A slot \in StorySlots : storySlot[slot] = "watched" => slots2[slot] = "watched"
          /\ orphaned \subseteq lost2 /\ ((named = story) => fresh2)
      BY <2>2, <2>5, <2>6
    <2>9. PICK slots1, fresh1 : slots1 = storySlot /\ fresh1 = (named = story) OBVIOUS
    <2>10. /\ TuplesOf(stack[u], storyLive, lastListener, slots1, orphaned, fresh1)
           /\ \A slot \in StorySlots : slots1[slot] = "watched" => slots2[slot] = "watched"
           /\ fresh1 => fresh2
      BY <2>1, <2>8, <2>9
    <2>11. stack[u] \in Seq(Frames) /\ lastListener \in Nat /\ orphaned \subseteq lost2
      BY <2>1, <2>3, <2>8
    <2>12. TuplesOf(stack[u], live2, last2, slots2, lost2, fresh2)
      BY <2>7, <2>10, <2>11, TuplesGrow
    <2>. QED BY <2>6, <2>12
  <1>10. \A id \in storyLive' :
           id <= lastListener' /\ id # 0 /\ \E k \in 1..Len(listeners') : listeners'[k] = id
    <2>1. \A id \in storyLive :
            id <= lastListener /\ id # 0 /\ \E k \in 1..Len(listeners) : listeners[k] = id
      BY DEF StoryInv, TupleInv
    <2>2. CASE UNCHANGED <<listeners, storyLive, lastListener>> BY <2>1, <2>2
    <2>3. CASE /\ lastListener' = lastListener + 1
               /\ listeners' = Append(listeners, lastListener + 1)
               /\ storyLive' = storyLive \cup {lastListener + 1}
      <3>1. /\ Len(listeners') = Len(listeners) + 1
            /\ listeners'[Len(listeners) + 1] = lastListener + 1
            /\ \A k \in 1..Len(listeners) : listeners'[k] = listeners[k]
        BY <1>5, <2>3, AppendProperties
      <3>2. Len(listeners) + 1 \in 1..Len(listeners') /\ 1..Len(listeners) \subseteq 1..Len(listeners')
        BY <1>5, <3>1
      <3>. QED BY <1>5, <2>1, <2>3, <3>1, <3>2
    <2>. QED BY <1>4, <2>2, <2>3
  <1>11. TupleInv' BY <1>1, <1>2, <1>3, <1>9, <1>10 DEF TupleInv
  <1>. QED BY <1>7, <1>8, <1>11 DEF StoryInv

(* A listener less is one that nobody has to raise.                         *)
LEMMA UnregisterHolds ==
  ASSUME StoryInv, NEW t \in StoryThreads, UnregisterListener(t) PROVE StoryInv'
  <1>1. /\ UNCHANGED <<storySlot, original, orphaned, watching, story, named, lastListener, cacheLock,
                       serverLock, stack>>
    BY DEF UnregisterListener, hookVars
  <1>2. PICK id \in storyLive : /\ storyLive' = storyLive \ {id}
                                /\ \E i \in DOMAIN listeners :
                                      listeners[i] = id /\ listeners' = RemoveAt(listeners, i)
    BY DEF UnregisterListener
  <1>3. listeners \in Seq(Nat) /\ Len(listeners) \in Nat /\ DOMAIN listeners = 1..Len(listeners)
    BY LenProperties DEF StoryInv, Typed
  <1>4. PICK i \in 1..Len(listeners) : listeners[i] = id /\ listeners' = RemoveAt(listeners, i)
    BY <1>2, <1>3
  <1>5. /\ listeners' \in Seq(Nat)
        /\ \A k \in 1..Len(listeners) : k # i => \E j \in 1..Len(listeners') : listeners'[j] = listeners[k]
    BY <1>3, <1>4, Removed
  <1>6. Typed' BY <1>1, <1>2, <1>5 DEF StoryInv, Typed
  <1>7. LockInv' BY <1>1 DEF StoryInv, LockInv
  <1>8. ASSUME NEW u \in StoryThreads
        PROVE  TuplesOf(stack[u], storyLive', lastListener, storySlot, orphaned, named = story)
    <2>1. /\ stack[u] \in Seq(Frames) /\ lastListener \in Nat
          /\ TuplesOf(stack[u], storyLive, lastListener, storySlot, orphaned, named = story)
      BY OfThread DEF StoryInv, Typed
    <2>2. \A x \in 1..lastListener : x \in storyLive' => x \in storyLive BY <1>2
    <2>. QED BY <2>1, <2>2, TuplesGrow
  <1>9. ASSUME NEW x \in storyLive'
        PROVE  x <= lastListener /\ x # 0 /\ \E j \in 1..Len(listeners') : listeners'[j] = x
    <2>1. x \in storyLive /\ x # id BY <1>2
    <2>2. PICK k \in 1..Len(listeners) : listeners[k] = x BY <2>1 DEF StoryInv, TupleInv
    <2>3. k # i BY <1>4, <2>1, <2>2
    <2>. QED BY <1>5, <2>1, <2>2, <2>3 DEF StoryInv, TupleInv
  <1>10. TupleInv' BY <1>1, <1>8, <1>9 DEF StoryInv, TupleInv
  <1>. QED BY <1>6, <1>7, <1>10 DEF StoryInv

(* A session's story comes when nobody is in a call, and its listeners are  *)
(* counted afresh.                                                          *)
LEMMA LoadHolds == ASSUME StoryInv, StoryLoads PROVE StoryInv'
  <1>1. /\ UNCHANGED <<storySlot, original, orphaned, watching, cacheLock, serverLock, stack>>
        /\ listeners' = <<>> /\ storyLive' = {} /\ lastListener' = 0
        /\ \A t \in StoryThreads : stack[t] = <<>>
    BY DEF StoryLoads, hookVars
  <1>2. Typed'
    <2>1. <<>> \in Seq(Nat) OBVIOUS
    <2>. QED BY <1>1, <2>1 DEF StoryInv, Typed
  <1>3. LockInv' BY <1>1 DEF StoryInv, LockInv
  <1>4. \A u \in StoryThreads : TuplesOf(stack[u], storyLive', lastListener', storySlot, orphaned, named' = story')
    <2>1. Len(<<>>) = 0 OBVIOUS
    <2>. QED BY <1>1, <2>1 DEF TuplesOf
  <1>5. TupleInv' BY <1>1, <1>4 DEF StoryInv, TupleInv
  <1>. QED BY <1>2, <1>3, <1>5 DEF StoryInv

-----------------------------------------------------------------------------
(* Every step keeps the invariant.                                          *)
LEMMA StepHolds == StoryInv /\ [StoryNext]_storyVars => StoryInv'
  <1>. SUFFICES ASSUME StoryInv, [StoryNext]_storyVars PROVE StoryInv' OBVIOUS
  <1>1. CASE StoryLoads BY <1>1, LoadHolds
  <1>2. CASE ScriptEnters BY <1>2, ScriptHolds
  <1>3. ASSUME NEW t \in StoryThreads,
               \/ RegisterListener(t) \/ UnregisterListener(t) \/ BodyReturns(t) \/ OsiInsert(t)
               \/ InsertReturns(t) \/ (\E slot \in StorySlots : EngineTuple(t, slot))
               \/ HookedFor(t) \/ NameNode(t)
        PROVE  StoryInv'
    BY <1>3, RegisterHolds, UnregisterHolds, BodyHolds, InsertHolds, InsertReturnHolds, TupleHolds,
       HookedHolds, NameHolds
  <1>4. ASSUME NEW t \in StoryThreads,
               \/ OsirisTrigger(t) \/ CallListener(t) \/ ListenerReturns(t) \/ TriggerReturns(t)
               \/ CallOriginal(t) \/ TupleReturns(t)
        PROVE  StoryInv'
    BY <1>4, TriggerHolds, ListenerHolds, TriggerReturnHolds, OriginalHolds, TupleReturnHolds
  <1>5. CASE UNCHANGED storyVars
    BY <1>5 DEF storyVars, hookVars, StoryInv, Typed, LockInv, TupleInv
  <1>. QED BY <1>1, <1>2, <1>3, <1>4, <1>5 DEF StoryNext

(* A tuple that has been seen to was applied once and heard by all it was   *)
(* due to.                                                                  *)
LEMMA Applied == StoryInv => TupleAppliedAndHeard
  <1>. SUFFICES ASSUME StoryInv, NEW t \in StoryThreads, In(t, "tuple"), Top(t).stage = "done"
                PROVE  /\ \/ Top(t).applied = 1
                          \/ Top(t).applied = 0 /\ Top(t).slot \in orphaned
                       /\ (Top(t).due \cap storyLive) \subseteq Top(t).heard
    BY DEF TupleAppliedAndHeard
  <1>1. stack[t] # <<>> /\ Top(t).kind = "tuple" BY DEF In
  <1>. QED BY <1>1, OnTop DEF TupleOk

(* Who holds the cache lock holds the state's lock, so that nobody with the *)
(* one waits for somebody with the other.                                   *)
LEMMA Ordered == StoryInv => NoCircularWait
  <1>. SUFFICES ASSUME StoryInv PROVE NoCircularWait OBVIOUS
  <1>1. ASSUME NEW t \in StoryThreads, cacheLock = t PROVE serverLock = t
    <2>1. LocksOf(stack[t], serverLock, cacheLock, t) /\ Len(stack[t]) \in Nat
      BY OfThread, LenProperties
    <2>2. PICK i \in 1..Len(stack[t]) : stack[t][i].kind = "call" BY <1>1, <2>1 DEF LocksOf
    <2>3. PICK j \in 1..(i - 1) : Serves(stack[t][j]) BY <2>1, <2>2 DEF LocksOf
    <2>4. j \in 1..Len(stack[t]) BY <2>1
    <2>. QED BY <2>1, <2>3, <2>4 DEF LocksOf
  <1>2. ASSUME NEW t \in StoryThreads, RunsLua(t) PROVE serverLock = t
    <2>1. stack[t] # <<>> /\ Serves(Top(t)) BY <1>2 DEF RunsLua, In, Serves
    <2>. QED BY <2>1, OnTop
  <1>3. \A t \in StoryThreads : WaitsFor(t) \in {cacheLock, serverLock, NoThread}
    BY DEF WaitsFor
  <1>. QED BY <1>1, <1>2, <1>3, StoryAssumption DEF NoCircularWait

(* The invariant holds in every state.                                      *)
LEMMA Inductive == StorySpec => []StoryInv
  BY InitHolds, StepHolds, PTL DEF StorySpec

(* A tuple that went through a replaced slot is applied exactly once when   *)
(* its call returns, unless the install that replaced the slot stopped at   *)
(* that class, and every listener that was subscribed when it began and     *)
(* still is has heard of it: for any classes, stories and listeners, calls  *)
(* inside calls, and installs that stop anywhere (osi.cpp, fire and         *)
(* install_node_hooks).                                                     *)
THEOREM TuplesHeard == StorySpec => []TupleAppliedAndHeard
  BY Inductive, Applied, PTL

(* No two threads wait for each other's locks: the state's lock is taken    *)
(* before the cache lock wherever both are held (osi.cpp, insert; lua_host. *)
(* cpp, osiris_trigger).                                                    *)
THEOREM NobodyWaitsInACircle == StorySpec => []NoCircularWait
  BY Inductive, Ordered, PTL

-----------------------------------------------------------------------------
(* StorySignatures.  A set of signatures is the story's when each that is in *)
(* it is as compiled.                                                        *)
OfStory(f, tale) == \A k \in DOMAIN f : k \in DOMAIN tale /\ f[k] = tale[k]
Entries(db, tale) == \A k \in DOMAIN db \cap DOMAIN tale : db[k].sig = tale[k]
NoObjects(db) == \A k \in DOMAIN db : ~db[k].def
WithObjects(db, tale) == DOMAIN db = DOMAIN tale /\ \A k \in DOMAIN db : db[k].def

(* The database has all objects or none.  Unless the story was another's or  *)
(* a write was cut, the store and what is still to be written are the        *)
(* story's, and together all of it or nothing.                               *)
SignatureInv ==
    /\ compiled \in Stories
    /\ unwritten # NoSignature => worked
    /\ worked => NoObjects(database) \/ WithObjects(database, compiled)
    /\ worked /\ defsBound => WithObjects(database, compiled)
    /\ ~foreign => /\ OfStory(store, compiled) /\ OfStory(unwritten, compiled)
                   /\ DOMAIN store \cup DOMAIN unwritten \in {{}, DOMAIN compiled}
    /\ ~foreign /\ worked => /\ Entries(database, compiled)
                             /\ \A k \in EngineKeys : outs[k] = compiled[k]

(* The empty store has no line.                                             *)
LEMMA NoSignatureIsEmpty == DOMAIN NoSignature = {}
  BY DEF NoSignature

(* The walk finds every function of the story, with its object.              *)
LEMMA WalkFinds == /\ DOMAIN Walked = DOMAIN compiled
                   /\ \A k \in DOMAIN compiled : Walked[k].sig = compiled[k] /\ Walked[k].def
  BY DEF Walked

(* What is handed to the store, before a line of it is written, is the       *)
(* database's; when that is the story's, so is what will be stored.          *)
LEMMA StoredAnew ==
  ASSUME NEW db, NEW tale, SaveCachedSignatures(db), DOMAIN db = DOMAIN tale, Entries(db, tale)
  PROVE  /\ OfStory(store', tale) /\ OfStory(unwritten', tale)
         /\ DOMAIN store' \cup DOMAIN unwritten' = DOMAIN tale
  BY NoSignatureIsEmpty DEF SaveCachedSignatures, OfStory, Entries

(* The session's story work reads the signatures.                            *)
LEMMA LoadCountsHolds == ASSUME SignatureInv, LoadOutParamCounts PROVE SignatureInv'
  <1>1. /\ ~worked /\ unwritten = NoSignature /\ worked' = TRUE /\ defsBound' = FALSE
        /\ outs' = OutsFrom(database') /\ UNCHANGED <<compiled, runs, foreign>>
        /\ compiled \in Stories
    BY DEF LoadOutParamCounts, SignatureInv
  <1>2. EngineKeys \subseteq DOMAIN compiled BY <1>1, SignatureAssumption
  <1>3. CASE StoreServes
    <2>1. database' = CachedSignature /\ UNCHANGED <<store, unwritten>>
      BY <1>3 DEF LoadOutParamCounts
    <2>2. /\ DOMAIN database' = DOMAIN store
          /\ \A k \in DOMAIN store : database'[k].sig = store[k] /\ ~database'[k].def
      BY <2>1 DEF CachedSignature
    <2>3. NoObjects(database') BY <2>2 DEF NoObjects
    <2>4. ASSUME ~foreign
          PROVE  Entries(database', compiled) /\ \A k \in EngineKeys : outs'[k] = compiled[k]
      <3>1. OfStory(store, compiled) /\ DOMAIN store = DOMAIN compiled
        BY <1>1, <1>3, <2>4, NoSignatureIsEmpty DEF SignatureInv, StoreServes
      <3>2. Entries(database', compiled) BY <2>2, <3>1 DEF OfStory, Entries
      <3>. QED BY <1>1, <1>2, <2>2, <3>1, <3>2 DEF Entries, OutsFrom
    <2>. QED BY <1>1, <2>1, <2>3, <2>4 DEF SignatureInv
  <1>4. CASE ~StoreServes
    <2>1. database' = Walked /\ SaveCachedSignatures(Walked)
      BY <1>4 DEF LoadOutParamCounts
    <2>2. WithObjects(database', compiled) /\ Entries(database', compiled)
      BY <2>1, WalkFinds DEF WithObjects, Entries
    <2>3. \A k \in EngineKeys : outs'[k] = compiled[k]
      BY <1>1, <1>2, <2>1, WalkFinds DEF OutsFrom
    <2>4. /\ OfStory(store', compiled) /\ OfStory(unwritten', compiled)
          /\ DOMAIN store' \cup DOMAIN unwritten' = DOMAIN compiled
      <3>1. DOMAIN Walked = DOMAIN compiled /\ Entries(Walked, compiled)
        BY WalkFinds DEF Entries
      <3>. QED BY <2>1, <3>1, StoredAnew
    <2>. QED BY <1>1, <2>2, <2>3, <2>4 DEF SignatureInv
  <1>. QED BY <1>3, <1>4

(* A line reaches the file.                                                  *)
LEMMA WriteHolds ==
  ASSUME SignatureInv, NEW k \in StoryKeys, WriteSignature(k)
  PROVE  SignatureInv'
  <1>1. /\ k \in DOMAIN unwritten
        /\ store' = [j \in DOMAIN store \cup {k} |-> IF j = k THEN unwritten[k] ELSE store[j]]
        /\ unwritten' = [j \in DOMAIN unwritten \ {k} |-> unwritten[j]]
        /\ UNCHANGED <<compiled, database, defsBound, outs, worked, runs, foreign>>
    BY DEF WriteSignature, Restrict
  <1>2. worked BY <1>1, NoSignatureIsEmpty DEF SignatureInv
  <1>3. ASSUME ~foreign
        PROVE  /\ OfStory(store', compiled) /\ OfStory(unwritten', compiled)
               /\ DOMAIN store' \cup DOMAIN unwritten' \in {{}, DOMAIN compiled}
    <2>1. OfStory(store, compiled) /\ OfStory(unwritten, compiled)
          /\ DOMAIN store \cup DOMAIN unwritten \in {{}, DOMAIN compiled}
      BY <1>3 DEF SignatureInv
    <2>2. DOMAIN store' = DOMAIN store \cup {k} /\ DOMAIN unwritten' = DOMAIN unwritten \ {k}
      BY <1>1
    <2>3. OfStory(store', compiled) BY <1>1, <2>1, <2>2 DEF OfStory
    <2>4. OfStory(unwritten', compiled) BY <1>1, <2>1, <2>2 DEF OfStory
    <2>5. DOMAIN store' \cup DOMAIN unwritten' = DOMAIN store \cup DOMAIN unwritten
      BY <1>1, <2>2
    <2>. QED BY <2>1, <2>3, <2>4, <2>5
  <1>. QED BY <1>1, <1>2, <1>3 DEF SignatureInv

(* The first use of a story function binds the objects.                      *)
LEMMA BindHolds == ASSUME SignatureInv, BindDefs PROVE SignatureInv'
  <1>1. /\ worked /\ unwritten = NoSignature /\ defsBound' = TRUE
        /\ UNCHANGED <<compiled, outs, worked, runs, foreign>>
    BY DEF BindDefs
  <1>2. CASE \E k \in DOMAIN database : database[k].def
    <2>1. UNCHANGED <<database, store, unwritten>> BY <1>2 DEF BindDefs
    <2>2. WithObjects(database, compiled) BY <1>1, <1>2 DEF SignatureInv, NoObjects
    <2>. QED BY <1>1, <2>1, <2>2 DEF SignatureInv
  <1>3. CASE ~\E k \in DOMAIN database : database[k].def
    <2>1. database' = [k \in DOMAIN compiled |->
                          [sig |-> IF k \in DOMAIN database THEN Completed(k) ELSE compiled[k],
                           def |-> TRUE]]
      BY <1>3 DEF BindDefs
    <2>2. WithObjects(database', compiled) BY <2>1 DEF WithObjects
    <2>3. ASSUME ~foreign PROVE Entries(database', compiled)
      <3>1. Entries(database, compiled) BY <1>1, <2>3 DEF SignatureInv
      <3>2. \A k \in DOMAIN database \cap DOMAIN compiled : Completed(k) = compiled[k]
        BY <3>1 DEF Completed, Entries
      <3>. QED BY <2>1, <3>2 DEF Entries
    <2>4. CASE DOMAIN compiled = DOMAIN database
      <3>1. UNCHANGED <<store, unwritten>> BY <1>3, <2>4 DEF BindDefs
      <3>. QED BY <1>1, <2>2, <2>3, <3>1 DEF SignatureInv
    <2>5. CASE DOMAIN compiled # DOMAIN database
      <3>1. SaveCachedSignatures(database') BY <1>3, <2>5 DEF BindDefs
      <3>2. ASSUME ~foreign
            PROVE  /\ OfStory(store', compiled) /\ OfStory(unwritten', compiled)
                   /\ DOMAIN store' \cup DOMAIN unwritten' = DOMAIN compiled
        <4>1. DOMAIN database' = DOMAIN compiled BY <2>2 DEF WithObjects
        <4>. QED BY <2>3, <3>1, <3>2, <4>1, StoredAnew
      <3>. QED BY <1>1, <2>2, <2>3, <3>2 DEF SignatureInv
    <2>. QED BY <2>4, <2>5
  <1>. QED BY <1>2, <1>3

(* Another session's story, and the end of the process.                      *)
LEMMA StoryChanges ==
  ASSUME SignatureInv, \/ Crash
                       \/ \E s \in Stories : NextStory(s)
  PROVE  SignatureInv'
  <1>1. ASSUME NEW s \in Stories, NextStory(s) PROVE SignatureInv'
    BY <1>1 DEF NextStory, SignatureInv
  <1>2. ASSUME Crash PROVE SignatureInv'
    <2>1. /\ unwritten' = NoSignature /\ worked' = FALSE /\ UNCHANGED compiled
          /\ unwritten = NoSignature => UNCHANGED <<store, foreign>>
          /\ unwritten # NoSignature => foreign' = TRUE
      BY <1>2 DEF Crash
    <2>. QED BY <2>1 DEF SignatureInv
  <1>. QED BY <1>1, <1>2

(* Init and the steps together.                                              *)
LEMMA SignaturesHold == SignatureSpec => []SignatureInv
  <1>1. SignatureInit => SignatureInv
    BY NoSignatureIsEmpty DEF SignatureInit, SignatureInv, OfStory
  <1>2. ASSUME SignatureInv, [SignatureNext]_signatureVars PROVE SignatureInv'
    <2>1. CASE UNCHANGED signatureVars BY <1>2, <2>1 DEF signatureVars, SignatureInv
    <2>. QED BY <1>2, <2>1, LoadCountsHolds, WriteHolds, BindHolds, StoryChanges
             DEF SignatureNext
  <1>. QED BY <1>1, <1>2, PTL DEF SignatureSpec

(* Once its objects are bound the database has the functions of the story    *)
(* that is loaded and no other; and unless another set of mods or a crash    *)
(* came between, the signatures in use are the story's, read from the store  *)
(* or walked (load_out_param_counts, bind_defs in osi.cpp): for any stories  *)
(* and keys, over any number of sessions, mods and crashes.                  *)
THEOREM DatabaseStaysTheStorys == SignatureSpec => []DatabaseIsTheStorys
  <1>1. SignatureInv => DatabaseIsTheStorys
    BY DEF SignatureInv, DatabaseIsTheStorys, BoundToThisStory, SignaturesRightUnlessForeign,
           WithObjects, Entries
  <1>. QED BY <1>1, SignaturesHold, PTL

-----------------------------------------------------------------------------
(* StoryCalls: the pool's references are the facts' own and those leaked,    *)
(* all of them numbers, and the last call did what it was to.                *)
Counts == [DOMAIN StoryTexts -> Int]
CallInv == /\ IsFiniteSet(facts) /\ leaked \in Counts
           /\ CallsComeBack

(* A set of naturals has a least element, the one that Min chooses.          *)
LEMMA MinIs ==
  ASSUME NEW T \in SUBSET Nat, T # {}
  PROVE  Min(T) \in T
  <1>. DEFINE R == OpToRel(<, Nat)
  <1>1. \E x \in T : \A y \in T : <<y, x>> \notin R
    BY WFMin, NatLessThanWellFounded, Zenon
  <1>2. \A x, y \in T : y < x => <<y, x>> \in R BY DEF OpToRel
  <1>. HIDE DEF R
  <1>3. PICK x \in T : \A y \in T : <<y, x>> \notin R BY <1>1
  <1>4. ASSUME NEW y \in T PROVE x <= y
    <2>1. ~(y < x) BY <1>2, <1>3
    <2>. QED BY <2>1
  <1>. QED BY <1>4 DEF Min

(* What a tuple of n values counts of a text is a number.                    *)
LEMMA HandlesCount ==
  ASSUME NEW n \in Nat, NEW row, DOMAIN row = 1..n
  PROVE  HandlesOf(row) \in Counts /\ Released(row) \in Counts
  <1>1. ASSUME NEW S \in SUBSET (1..n) PROVE Cardinality(S) \in Int
    <2>1. IsFiniteSet(1..n) BY FS_Interval
    <2>2. IsFiniteSet(S) BY <2>1, FS_Subset
    <2>3. Cardinality(S) \in Nat BY <2>2, FS_CardinalityType
    <2>. QED BY <2>3
  <1>. QED BY <1>1 DEF HandlesOf, Released, Counts

(* And so is what the facts count of it.                                     *)
LEMMA HeldCount == ASSUME NEW rows, IsFiniteSet(rows) PROVE Held(rows) \in Counts
  <1>1. IsFiniteSet(DOMAIN DbColumns)
    <2>1. DOMAIN DbColumns = 1..Len(DbColumns) /\ Len(DbColumns) \in Nat BY CallsAssumption
    <2>. QED BY <2>1, FS_Interval
  <1>2. IsFiniteSet(rows \X DOMAIN DbColumns) BY <1>1, FS_Product
  <1>3. ASSUME NEW S \in SUBSET (rows \X DOMAIN DbColumns) PROVE Cardinality(S) \in Int
    BY <1>2, FS_Subset, FS_CardinalityType
  <1>. QED BY <1>3 DEF Held, Counts

(* What is written as an argument is one of a tuple's first n values, those  *)
(* before the one that is refused.                                           *)
AreFirst(row, n, types, vs) ==
    \E m \in 0..n : /\ DOMAIN row = 1..m
                    /\ \A i \in 1..m : row[i] = EncodeArg(types[i], vs[i])
(* What an argument becomes in a column.                                    *)
LEMMA EncodedIs ==
  ASSUME NEW n \in Nat, NEW S, NEW vs \in [1..n -> S], NEW types
  PROVE  AreFirst(EncodedUpTo(types, vs), n, types, vs)
  <1>. DEFINE row == EncodedUpTo(types, vs)
  <1>. DEFINE bad == {i \in DOMAIN vs : Mismatched(types[i], vs[i])}
  <1>1. Len(vs) = n OBVIOUS
  <1>2. bad \subseteq 1..n BY DEF bad
  <1>3. row = [i \in 1..(IF bad = {} THEN n ELSE Min(bad) - 1) |-> EncodeArg(types[i], vs[i])]
    BY <1>1 DEF EncodedUpTo
  <1>. HIDE DEF bad, row
  <1>4. (IF bad = {} THEN n ELSE Min(bad) - 1) \in 0..n
    <2>1. CASE bad = {} BY <2>1
    <2>2. CASE bad # {}
      <3>1. Min(bad) \in bad BY <1>2, <2>2, MinIs
      <3>2. Min(bad) \in 1..n BY <1>2, <3>1
      <3>. QED BY <2>2, <3>2
    <2>. QED BY <2>1, <2>2
  <1>5. AreFirst(row, n, types, vs) BY <1>3, <1>4 DEF AreFirst
  <1>. QED BY <1>5 DEF row

(* A number that an Integer holds is itself after it was narrowed.           *)
LEMMA NarrowKeeps ==
  ASSUME NEW n \in Int, n >= -(ArgWidth \div 2), n < ArgWidth \div 2
  PROVE  Narrow(n) = n
  <1>1. ArgWidth \in Nat /\ ArgWidth > 0 BY CallsAssumption
  <1>2. ArgWidth \div 2 \in Int /\ 2 * (ArgWidth \div 2) <= ArgWidth BY <1>1
  <1>3. ASSUME NEW x \in Int, 0 <= x, x < ArgWidth PROVE x % ArgWidth = x BY <1>1, <1>3
  <1>4. n + ArgWidth \div 2 >= 0 /\ n + ArgWidth \div 2 < ArgWidth
    <2>1. PICK h : h = ArgWidth \div 2 OBVIOUS
    <2>2. h \in Int /\ n >= -h /\ n < h /\ 2 * h <= ArgWidth BY <1>2, <2>1
    <2>3. n + h >= 0 /\ n + h < ArgWidth BY <1>1, <2>2
    <2>. QED BY <2>1, <2>3
  <1>5. (n + ArgWidth \div 2) % ArgWidth = n + ArgWidth \div 2 BY <1>2, <1>3, <1>4
  <1>. QED BY <1>2, <1>5 DEF Narrow

(* What crosses, by the declared type's base.                                *)
LEMMA EncodeIs ==
  ASSUME NEW type, NEW v, NEW kind, TypeKnown(type), ResolveAlias(type) = kind, v.type # None
  PROVE  /\ IsString(kind) => EncodeArg(type, v) = [type |-> type, raw |-> [handle |-> v.text]]
         /\ kind = Real => EncodeArg(type, v) = [type |-> type, raw |-> [word |-> v.real]]
         /\ kind = Integer64 => EncodeArg(type, v) = [type |-> type, raw |-> [word |-> v.int]]
         /\ kind = Integer => EncodeArg(type, v) = [type |-> type, raw |-> [word |-> Narrow(v.int)]]
  <1>1. EncodedBase(type, v) = kind BY Zenon DEF EncodedBase
  <1>2. EncodeArg(type, v)
           = [type |-> type, raw |-> CASE IsString(kind) -> [handle |-> v.text]
                                       [] kind = Real -> [word |-> v.real]
                                       [] kind = Integer64 -> [word |-> v.int]
                                       [] OTHER -> [word |-> Narrow(v.int)]]
    BY <1>1, Zenon DEF EncodeArg
  <1>3. IsString(kind) <=> kind \in {"String", "GuidString"} BY DEF IsString, String, GuidString
  <1>. QED BY <1>2, <1>3 DEF Real, Integer64, Integer

(* And what comes back of it.                                                *)
LEMMA DecodeIs ==
  ASSUME NEW tv, NEW kind, TypeKnown(tv.type), ResolveAlias(tv.type) = kind
  PROVE  /\ IsString(kind) => DecodeValue(tv) = [k |-> "string", n |-> tv.raw.handle]
         /\ kind = Real => DecodeValue(tv) = [k |-> "float", n |-> tv.raw.word]
         /\ kind = Integer64 => DecodeValue(tv) = [k |-> "integer", n |-> tv.raw.word]
         /\ kind = Integer => DecodeValue(tv) = [k |-> "integer", n |-> Narrow(tv.raw.word)]
  <1>1. (IF TypeKnown(tv.type) THEN ResolveAlias(tv.type)
         ELSE IF IsHandle(tv.raw) THEN String ELSE Integer) = kind
    BY Zenon
  <1>2. DecodeValue(tv)
           = IF IsString(kind) THEN [k |-> "string", n |-> tv.raw.handle]
             ELSE IF kind = Real THEN [k |-> "float", n |-> tv.raw.word]
             ELSE [k |-> "integer",
                   n |-> IF kind = Integer64 THEN tv.raw.word ELSE Narrow(tv.raw.word)]
    BY <1>1, Zenon DEF DecodeValue
  <1>3. IsString(kind) <=> kind \in {"String", "GuidString"} BY DEF IsString, String, GuidString
  <1>. QED BY <1>2, <1>3 DEF Real, Integer64, Integer

(* A value that fits the declared type is read back from what it was         *)
(* written as.                                                               *)
LEMMA ColumnReadsBack ==
  ASSUME NEW type, NEW arg \in Arguments, Fits(type, arg), Accepts(type, arg)
  PROVE  ColumnMatches(EncodeArg(type, ToValue(arg)), arg)
  <1>1. PICK kind : kind = ResolveAlias(type) OBVIOUS
  <1>2. PICK v : v = ToValue(arg) OBVIOUS
  <1>3. PICK tv : tv = EncodeArg(type, v) OBVIOUS
  <1>4. TypeKnown(type) BY DEF Fits
  <1>5. kind \in {"Integer", "Integer64", "Real", "String", "GuidString"}
    BY <1>1, <1>4, CallsAssumption
    DEF TypeKnown, ResolveAlias, BaseTypes, Integer, Integer64, Real, String, GuidString
  <1>6. arg = [k |-> arg.k, n |-> arg.n]
        /\ (arg.k \in {"integer", "float", "entity"} => arg.n \in Int)
    BY CallsAssumption
  <1>7. /\ arg.k = "string" => v = [type |-> "String", text |-> arg.n, int |-> 0, real |-> 0]
        /\ arg.k = "integer" =>
              v = [type |-> "Integer", text |-> None, int |-> arg.n, real |-> 2 * arg.n]
        /\ arg.k = "float" =>
              v = [type |-> "Real", text |-> None, int |-> Truncated(arg.n), real |-> arg.n]
    BY <1>2 DEF ToValue, String, Integer, Real
  <1>8. CASE kind \in {"String", "GuidString"}
    <2>1. IsString(kind) BY <1>8 DEF IsString, String, GuidString
    <2>2. arg.k = "string"
      BY <1>1, <2>1 DEF Accepts, IsString, String, GuidString, Integer, Integer64, Real
    <2>3. v.type # None /\ v.text = arg.n BY <1>7, <2>2 DEF None
    <2>4. tv = [type |-> type, raw |-> [handle |-> arg.n]]
      BY <1>1, <1>3, <1>4, <2>1, <2>3, EncodeIs
    <2>5. DecodeValue(tv) = arg
      <3>1. tv.type = type /\ tv.raw.handle = arg.n BY <2>4
      <3>. QED BY <1>1, <1>4, <1>6, <2>1, <2>2, <3>1, DecodeIs
    <2>. QED BY <1>2, <1>3, <2>2, <2>5 DEF ColumnMatches
  <1>9. CASE kind = "Real"
    <2>1. kind = Real /\ ~IsString(kind)
      BY <1>9 DEF IsString, String, GuidString, Real
    <2>2. arg.k \in {"integer", "float"}
      BY <1>1, <2>1 DEF Accepts, Integer, Integer64, Real
    <2>3. v.type # None BY <1>7, <2>2 DEF None
    <2>4. tv = [type |-> type, raw |-> [word |-> v.real]]
      BY <1>1, <1>3, <1>4, <2>1, <2>3, EncodeIs
    <2>5. DecodeValue(tv) = [k |-> "float", n |-> v.real]
      <3>1. tv.type = type /\ tv.raw.word = v.real BY <2>4
      <3>. QED BY <1>1, <1>4, <2>1, <3>1, DecodeIs
    <2>. QED BY <1>2, <1>3, <2>2, <2>5 DEF ColumnMatches
  <1>10. CASE kind \in {"Integer", "Integer64"}
    <2>1. ~IsString(kind) /\ kind \in {Integer, Integer64} /\ kind # Real
      BY <1>10 DEF IsString, String, GuidString, Real, Integer, Integer64
    <2>2. arg.k = "integer" BY <1>1, <2>1 DEF Accepts, Fits
    <2>3. v.type # None /\ v.int = arg.n BY <1>7, <2>2 DEF None
    <2>4. kind = Integer => Narrow(arg.n) = arg.n
      BY <1>1, <1>6, <2>2, NarrowKeeps DEF Fits
    <2>5. tv = [type |-> type, raw |-> [word |-> arg.n]]
      BY <1>1, <1>3, <1>4, <2>1, <2>3, <2>4, EncodeIs
    <2>6. DecodeValue(tv) = [k |-> "integer", n |-> arg.n]
      <3>1. tv.type = type /\ tv.raw.word = arg.n BY <2>5
      <3>. QED BY <1>1, <1>4, <2>1, <2>4, <3>1, DecodeIs
    <2>. QED BY <1>2, <1>3, <2>2, <2>6 DEF ColumnMatches
  <1>. QED BY <1>5, <1>8, <1>9, <1>10

-----------------------------------------------------------------------------
(* What is left when what was taken is given back again.                     *)
LEMMA GivenBack ==
  ASSUME NEW was \in Counts, NEW lost \in Counts, NEW took \in Counts, NEW then \in Counts
  PROVE  /\ Minus(AddTo(AddTo(AddTo(was, lost), took), Minus(then, was)), took) = AddTo(then, lost)
         /\ Minus(AddTo(AddTo(was, lost), took), took) = AddTo(was, lost)
  BY DEF Counts, AddTo, Minus

(* And when some of what a query's outputs took is not given back.           *)
LEMMA LeftOver ==
  ASSUME NEW was \in Counts, NEW lost \in Counts, NEW took \in Counts,
         NEW given \in Counts, NEW back \in Counts
  PROVE  /\ Minus(Minus(AddTo(AddTo(AddTo(was, lost), took), given), back), took)
               = AddTo(was, AddTo(lost, Minus(given, back)))
         /\ AddTo(lost, Minus(given, back)) \in Counts
  BY DEF Counts, AddTo, Minus

(* A tuple goes in or out.                                                   *)
LEMMA TupleBalances ==
  ASSUME CallInv, NEW args \in [1..Len(DbColumns) -> Arguments], NEW slot,
         InsertTuple(args, slot)
  PROVE  IsFiniteSet(facts') /\ leaked' \in Counts /\ ReferencesBalanced'
  <1>. DEFINE vs == [i \in DOMAIN args |-> ToValue(args[i])]
  <1>1. PICK row : row = EncodedUpTo(DbColumns, vs) OBVIOUS
  <1>2. PICK n : n = Len(DbColumns) OBVIOUS
  <1>3. n \in Nat /\ vs \in [1..n -> {ToValue(arg) : arg \in Arguments}]
    <2>1. n \in Nat BY <1>2, CallsAssumption
    <2>2. DOMAIN args = 1..n BY <1>2
    <2>. QED BY <2>1, <2>2
  <1>4. /\ facts' = facts \/ facts' = facts \cup {row} \/ facts' \subseteq facts
        /\ refs' = Minus(AddTo(AddTo(refs, HandlesOf(row)), Minus(Held(facts'), Held(facts))),
                         HandlesOf(row))
        /\ leaked' = leaked
    BY <1>1 DEF InsertTuple, EngineInserts, EngineRetracts
  <1>. HIDE DEF vs
  <1>6. \E m \in Nat : DOMAIN row = 1..m
    <2>1. PICK S : vs \in [1..n -> S] BY <1>3
    <2>2. AreFirst(EncodedUpTo(DbColumns, vs), n, DbColumns, vs)
      BY <1>3, <2>1, EncodedIs, Zenon
    <2>. QED BY <1>1, <1>3, <2>2 DEF AreFirst
  <1>7. HandlesOf(row) \in Counts BY <1>6, HandlesCount
  <1>8. IsFiniteSet(facts) /\ leaked \in Counts /\ refs = AddTo(Held(facts), leaked)
    BY DEF CallInv, CallsComeBack, ReferencesBalanced
  <1>9. IsFiniteSet(facts')
    <2>1. IsFiniteSet(facts \cup {row}) BY <1>8, FS_AddElement
    <2>. QED BY <1>4, <1>8, <2>1, FS_Subset
  <1>10. Held(facts) \in Counts /\ Held(facts') \in Counts BY <1>8, <1>9, HeldCount
  <1>11. refs' = AddTo(Held(facts'), leaked) BY <1>4, <1>7, <1>8, <1>10, GivenBack
  <1>12. Held(facts)' = Held(facts') BY DEF Held
  <1>. QED BY <1>4, <1>8, <1>9, <1>11, <1>12 DEF ReferencesBalanced

(* A database is given a fact: one that Get finds by its values.             *)
LEMMA DispatchHolds ==
  ASSUME CallInv, NEW args \in [1..Len(DbColumns) -> Arguments], StoryDispatch(args)
  PROVE  CallInv'
  <1>. DEFINE vs == [i \in DOMAIN args |-> ToValue(args[i])]
  <1>1. PICK row : row = EncodedUpTo(DbColumns, vs) OBVIOUS
  <1>2. PICK n : n = Len(DbColumns) OBVIOUS
  <1>3. n \in Nat /\ DOMAIN args = 1..n /\ DOMAIN DbColumns = 1..n BY <1>2, CallsAssumption
  <1>4. /\ InsertTuple(args, "insert")
        /\ \A i \in 1..n : Accepts(DbColumns[i], args[i])
    BY <1>3 DEF StoryDispatch
  <1>5. /\ lastCall' = [op |-> "insert", ok |-> Len(row) = n, args |-> args]
        /\ Len(row) = n => row \in facts'
    BY <1>1, <1>2, <1>4 DEF InsertTuple, EngineInserts
  <1>6. IsFiniteSet(facts') /\ leaked' \in Counts /\ ReferencesBalanced'
    BY <1>4, TupleBalances
  <1>7. CallTakesItsArguments' BY <1>5 DEF CallTakesItsArguments
  <1>8. ASSUME Len(row) = n, \A i \in 1..n : Fits(DbColumns[i], args[i])
        PROVE  RowMatches(row, args)
    <2>1. vs = [i \in 1..n |-> ToValue(args[i])] BY <1>3
    <2>. HIDE DEF vs
    <2>2. PICK S : vs \in [1..n -> S]
      <3>1. vs \in [1..n -> {ToValue(arg) : arg \in Arguments}] BY <1>2, <2>1
      <3>. QED BY <3>1
    <2>3. PICK m \in 0..n : /\ DOMAIN row = 1..m
                            /\ \A i \in 1..m : row[i] = EncodeArg(DbColumns[i], vs[i])
      <3>1. AreFirst(EncodedUpTo(DbColumns, vs), n, DbColumns, vs)
        BY <1>3, <2>2, EncodedIs, Zenon
      <3>. QED BY <1>1, <3>1 DEF AreFirst
    <2>5. \A i \in 1..m : row[i] = EncodeArg(DbColumns[i], ToValue(args[i]))
      <3>1. \A i \in 1..m : i \in 1..n BY <1>3
      <3>2. \A i \in 1..n : vs[i] = ToValue(args[i]) BY <2>1
      <3>. QED BY <2>3, <3>1, <3>2
    <2>4. ASSUME NEW i \in DOMAIN row PROVE ColumnMatches(row[i], args[i])
      <3>1. i \in 1..n /\ row[i] = EncodeArg(DbColumns[i], ToValue(args[i]))
        BY <1>3, <2>3, <2>4, <2>5
      <3>2. args[i] \in Arguments BY <1>2, <3>1
      <3>. QED BY <1>4, <1>8, <3>1, <3>2, ColumnReadsBack
    <2>. QED BY <2>4 DEF RowMatches
  <1>9. GetFindsInserted'
    <2>1. lastCall'.args = args /\ (lastCall'.ok => Len(row) = n) BY <1>5
    <2>2. SUFFICES ASSUME lastCall'.ok, \A i \in DOMAIN DbColumns : Fits(DbColumns[i], args[i])
                   PROVE  DbGet(args)' # {}
      BY <2>1 DEF GetFindsInserted, DbGet
    <2>3. row \in facts' /\ RowMatches(row, args) BY <1>3, <1>5, <1>8, <2>1, <2>2
    <2>. QED BY <2>3 DEF DbGet
  <1>. QED BY <1>6, <1>7, <1>9 DEF CallInv, CallsComeBack

(* Facts are taken out of it.                                                *)
LEMMA DeleteHolds ==
  ASSUME CallInv, NEW args \in [1..Len(DbColumns) -> Arguments], DbDelete(args)
  PROVE  CallInv'
  <1>1. InsertTuple(args, "delete") BY DEF DbDelete
  <1>2. lastCall'.op = "delete" BY <1>1 DEF InsertTuple
  <1>3. CallTakesItsArguments' /\ GetFindsInserted'
    BY <1>2 DEF CallTakesItsArguments, GetFindsInserted
  <1>. QED BY <1>1, <1>3, TupleBalances DEF CallInv, CallsComeBack

(* A query of the story's.                                                   *)
LEMMA QueryHolds ==
  ASSUME CallInv, NEW arg, NEW valid \in BOOLEAN, NEW out \in Answers, UserQuery(arg, valid, out)
  PROVE  CallInv'
  <1>1. PICK input : input = EncodedUpTo(<<DbColumns[1]>>, <<ToValue(arg)>>) OBVIOUS
  <1>2. PICK row : row = Row(Outputs, out) OBVIOUS
  <1>3. /\ refs' = Minus(IF valid THEN Minus(AddTo(AddTo(refs, HandlesOf(input)), HandlesOf(row)),
                                              Released(row))
                         ELSE AddTo(refs, HandlesOf(input)), HandlesOf(input))
        /\ leaked' = IF valid THEN AddTo(leaked, Minus(HandlesOf(row), Released(row))) ELSE leaked
        /\ lastCall'.op = "query" /\ facts' = facts
    BY <1>1, <1>2 DEF UserQuery
  <1>4. HandlesOf(input) \in Counts
    <2>1. PICK vs : vs = <<ToValue(arg)>> OBVIOUS
    <2>2. vs \in [1..1 -> {ToValue(arg)}] BY <2>1
    <2>3. PICK types : types = <<DbColumns[1]>> OBVIOUS
    <2>4. input = EncodedUpTo(types, vs) BY <1>1, <2>1, <2>3
    <2>5. PICK m \in 0..1 : DOMAIN input = 1..m
      <3>1. 1 \in Nat OBVIOUS
      <3>2. AreFirst(EncodedUpTo(types, vs), 1, types, vs) BY <2>2, <3>1, EncodedIs, Zenon
      <3>. QED BY <2>4, <3>2 DEF AreFirst
    <2>6. m \in Nat OBVIOUS
    <2>. QED BY <2>5, <2>6, HandlesCount
  <1>5. HandlesOf(row) \in Counts /\ Released(row) \in Counts
    <2>1. Len(Outputs) \in Nat /\ DOMAIN out = 1..Len(Outputs) BY CallsAssumption DEF Answers
    <2>2. DOMAIN row = 1..Len(Outputs) BY <1>2, <2>1 DEF Row
    <2>. QED BY <2>1, <2>2, HandlesCount
  <1>6. IsFiniteSet(facts) /\ leaked \in Counts /\ refs = AddTo(Held(facts), leaked)
    BY DEF CallInv, CallsComeBack, ReferencesBalanced
  <1>7. Held(facts) \in Counts BY <1>6, HeldCount
  <1>8. refs' = AddTo(Held(facts), leaked') /\ leaked' \in Counts
    <2>1. CASE valid BY <1>3, <1>4, <1>5, <1>6, <1>7, <2>1, LeftOver
    <2>2. CASE ~valid BY <1>3, <1>4, <1>6, <1>7, <2>2, GivenBack
    <2>. QED BY <2>1, <2>2
  <1>9. CallTakesItsArguments' /\ GetFindsInserted'
    BY <1>3 DEF CallTakesItsArguments, GetFindsInserted
  <1>10. Held(facts)' = Held(facts) BY <1>3 DEF Held
  <1>. QED BY <1>3, <1>6, <1>8, <1>9, <1>10 DEF CallInv, CallsComeBack, ReferencesBalanced

-----------------------------------------------------------------------------
(* The first declaration that passes a test is one that does.                *)
LEMMA FirstIs ==
  ASSUME NEW S \in SUBSET (DOMAIN Overloads), NEW c,
         c = IF S # {} THEN Min(S) ELSE 0, c # 0
  PROVE  c \in S
  <1>1. DOMAIN Overloads \subseteq Nat BY CallsAssumption
  <1>. QED BY <1>1, MinIs

(* The numbers up to n are n.                                                *)
LEMMA CountUpTo == ASSUME NEW n \in Nat PROVE IsFiniteSet(1..n) /\ Cardinality(1..n) = n
  <1>1. IsFiniteSet(1..n) /\ Cardinality(1..n) = IF 1 > n THEN 0 ELSE n - 1 + 1
    BY FS_Interval
  <1>. QED BY <1>1

(* A declaration's fields.                                                   *)
LEMMA DeclarationIs ==
  ASSUME NEW c \in DOMAIN Overloads
  PROVE  /\ Overloads[c].known \in BOOLEAN /\ Overloads[c].params \in Nat
         /\ Overloads[c].outs \subseteq 1..Overloads[c].params
  <1>1. Overloads[c] \in [params : Nat, known : BOOLEAN, outs : SUBSET Nat]
    <2>. DEFINE R == [params : Nat, known : BOOLEAN, outs : SUBSET Nat]
    <2>1. Overloads \in Seq(R) BY CallsAssumption
    <2>. HIDE DEF R
    <2>2. Overloads[c] \in R BY <2>1
    <2>. QED BY <2>2 DEF R
  <1>2. Overloads[c].outs \subseteq 1..Overloads[c].params BY CallsAssumption
  <1>. QED BY <1>1, <1>2

(* The declaration a call is for has room for its arguments: as many inputs, *)
(* or, of one whose outputs are unknown, as many parameters.                 *)
LEMMA ChosenTakes ==
  ASSUME NEW argc \in 0..4, Chosen(argc) # 0
  PROVE  /\ Chosen(argc) \in DOMAIN Overloads
         /\ LET fn == Overloads[Chosen(argc)]
            IN  IF fn.known THEN fn.params - Cardinality(fn.outs) = argc ELSE argc <= fn.params
  <1>. DEFINE Exact == {i \in 1..Len(Overloads) : ExpectedInputs(Overloads[i]) = argc}
              Open == {i \in 1..Len(Overloads) : /\ ExpectedInputs(Overloads[i]) < 0
                                                 /\ argc <= Overloads[i].params}
              exact == IF Exact # {} THEN Min(Exact) ELSE 0
              open == IF Open # {} THEN Min(Open) ELSE 0
  <1>1. Chosen(argc) = IF exact # 0 THEN exact ELSE open
    BY DEF Chosen, FirstOf, SelectInSeq
  <1>2. DOMAIN Overloads = 1..Len(Overloads) BY CallsAssumption
  <1>3. PICK c : c = Chosen(argc) OBVIOUS
  <1>4. Exact \subseteq DOMAIN Overloads /\ Open \subseteq DOMAIN Overloads BY <1>2
  <1>5. \A i \in Exact : ExpectedInputs(Overloads[i]) = argc OBVIOUS
  <1>6. \A i \in Open : ExpectedInputs(Overloads[i]) < 0 /\ argc <= Overloads[i].params OBVIOUS
  <1>. HIDE DEF Exact, Open
  <1>7. c \in Exact \/ c \in Open
    <2>1. CASE exact # 0 BY <1>1, <1>3, <1>4, <2>1, FirstIs
    <2>2. CASE exact = 0 BY <1>1, <1>3, <1>4, <2>2, FirstIs
    <2>. QED BY <2>1, <2>2
  <1>8. c \in DOMAIN Overloads BY <1>4, <1>7
  <1>9. PICK fn : fn = Overloads[c] OBVIOUS
  <1>10. fn.known \in BOOLEAN /\ fn.params \in Nat BY <1>8, <1>9, DeclarationIs
  <1>11. fn.known => Cardinality(fn.outs) \in Nat /\ Cardinality(fn.outs) <= fn.params
    <2>1. fn.outs \subseteq 1..fn.params BY <1>8, <1>9, DeclarationIs
    <2>2. IsFiniteSet(1..fn.params) /\ Cardinality(1..fn.params) = fn.params
      BY <1>10, CountUpTo
    <2>3. IsFiniteSet(fn.outs) /\ Cardinality(fn.outs) <= fn.params BY <2>1, <2>2, FS_Subset
    <2>. QED BY <2>3, FS_CardinalityType
  <1>12. ExpectedInputs(fn) = IF ~fn.known THEN -1 ELSE fn.params - Cardinality(fn.outs)
    BY DEF ExpectedInputs
  <1>13. IF fn.known THEN fn.params - Cardinality(fn.outs) = argc ELSE argc <= fn.params
    <2>1. CASE c \in Exact
      <3>1. ExpectedInputs(fn) = argc BY <1>5, <1>9, <2>1
      <3>. QED BY <1>10, <1>12, <3>1
    <2>2. CASE c \in Open
      <3>1. ExpectedInputs(fn) < 0 /\ argc <= fn.params BY <1>6, <1>9, <2>2
      <3>. QED BY <1>10, <1>11, <1>12, <3>1
    <2>. QED BY <1>7, <2>1, <2>2
  <1>. QED BY <1>3, <1>8, <1>9, <1>13

(* A call of the engine's.                                                   *)
LEMMA EngineCallHolds ==
  ASSUME CallInv, NEW argc \in 0..4, NEW handled \in BOOLEAN, Dispatch(argc, handled)
  PROVE  CallInv'
  <1>1. UNCHANGED <<refs, facts, leaked>> BY DEF Dispatch
  <1>2. ReferencesBalanced' /\ IsFiniteSet(facts') /\ leaked' \in Counts
    BY <1>1 DEF CallInv, CallsComeBack, ReferencesBalanced, Held, AddTo
  <1>3. PICK c : c = Chosen(argc) OBVIOUS
  <1>4. CASE c = 0
    <2>1. lastCall'.op = "story" BY <1>3, <1>4 DEF Dispatch
    <2>. QED BY <1>2, <2>1 DEF CallInv, CallsComeBack, CallTakesItsArguments, GetFindsInserted
  <1>5. CASE c # 0
    <2>1. PICK fn : fn = Overloads[c] OBVIOUS
    <2>2. PICK given : given = {i \in 1..fn.params : IsOutput(fn, i, argc)} OBVIOUS
    <2>3. /\ lastCall'.op = "engine" /\ lastCall'.argc = argc
          /\ lastCall'.placed = Placed(fn, argc) /\ lastCall'.params = fn.params
          /\ lastCall'.results = IF handled THEN Cardinality(given)
                                 ELSE IF ~fn.known THEN fn.params - argc
                                 ELSE Cardinality(fn.outs)
      BY <1>3, <1>5, <2>1, <2>2 DEF Dispatch
    <2>4. /\ c \in DOMAIN Overloads
          /\ IF fn.known THEN fn.params - Cardinality(fn.outs) = argc ELSE argc <= fn.params
      BY <1>3, <1>5, <2>1, ChosenTakes
    <2>5. /\ fn.known \in BOOLEAN /\ fn.params \in Nat
          /\ fn.outs \subseteq 1..fn.params
      BY <2>1, <2>4, DeclarationIs
    <2>6. IsFiniteSet(1..fn.params) /\ Cardinality(1..fn.params) = fn.params
      BY <2>5, CountUpTo
    <2>7. given \subseteq 1..fn.params /\ IsFiniteSet(given) BY <2>2, <2>6, FS_Subset
    <2>8. Cardinality(given) = fn.params - argc /\ Cardinality(given) \in Nat
      <3>1. Cardinality(given) \in Nat BY <2>7, FS_CardinalityType
      <3>2. CASE fn.known
        <4>1. given = fn.outs BY <2>2, <2>5, <3>2 DEF IsOutput
        <4>. QED BY <2>4, <2>5, <3>1, <3>2, <4>1
      <3>3. CASE ~fn.known
        <4>1. given = (argc + 1)..fn.params BY <2>2, <2>5, <3>3 DEF IsOutput
        <4>2. Cardinality((argc + 1)..fn.params) = fn.params - argc
          BY <2>4, <2>5, <3>3, FS_Interval
        <4>. QED BY <3>1, <4>1, <4>2
      <3>. QED BY <2>5, <3>2, <3>3
    <2>9. Placed(fn, argc) = argc
      <3>1. PICK places : places = {i \in 1..fn.params : ~IsOutput(fn, i, argc)} OBVIOUS
      <3>2. places = (1..fn.params) \ given BY <2>2, <3>1
      <3>3. Cardinality(places) = fn.params - Cardinality(given)
        <4>1. (1..fn.params) \cap given = given BY <2>7
        <4>2. PICK all : all = 1..fn.params OBVIOUS
        <4>3. Cardinality(all \ given) = Cardinality(all) - Cardinality(all \cap given)
          BY <2>6, <2>7, <4>2, FS_Difference
        <4>. QED BY <2>6, <3>2, <4>1, <4>2, <4>3
      <3>4. Cardinality(places) = argc BY <2>5, <2>8, <3>3
      <3>5. Placed(fn, argc) = Min({argc, argc}) BY <3>1, <3>4 DEF Placed
      <3>6. Min({argc, argc}) \in {argc, argc} BY MinIs
      <3>. QED BY <3>5, <3>6
    <2>10. lastCall'.results = fn.params - argc
      <3>1. fn.known => Cardinality(fn.outs) = fn.params - argc
        <4>1. fn.known => given = fn.outs BY <2>2, <2>5 DEF IsOutput
        <4>. QED BY <2>8, <4>1
      <3>. QED BY <2>3, <2>5, <2>8, <3>1
    <2>. QED BY <1>2, <2>3, <2>9, <2>10
         DEF CallInv, CallsComeBack, CallTakesItsArguments, GetFindsInserted
  <1>. QED BY <1>4, <1>5

(* Before the first call.                                                    *)
LEMMA CallStart == ASSUME CallInit PROVE CallInv
  <1>1. facts = {} /\ lastCall.op = "none" BY DEF CallInit
  <1>2. IsFiniteSet(facts) BY <1>1, FS_EmptySet
  <1>3. leaked \in Counts BY DEF CallInit, Counts
  <1>4. Held({}) = [t \in DOMAIN StoryTexts |-> 0]
    <2>1. ASSUME NEW t \in DOMAIN StoryTexts
          PROVE  {o \in {} \X DOMAIN DbColumns : o[1][o[2]].raw = [handle |-> t]} = {}
      OBVIOUS
    <2>2. Cardinality({}) = 0 BY FS_EmptySet
    <2>. QED BY <2>1, <2>2 DEF Held
  <1>5. ReferencesBalanced BY <1>1, <1>4 DEF ReferencesBalanced, CallInit, AddTo
  <1>. QED BY <1>1, <1>2, <1>3, <1>5
       DEF CallInv, CallsComeBack, CallTakesItsArguments, GetFindsInserted

(***************************************************************************)
(* Whatever the database's columns, the query's outputs, the engine's      *)
(* declarations and the arguments a script passes: a fact that             *)
(* osi_story_dispatch inserts is found again by Get with the same values,  *)
(* a call of the engine's takes every argument and gives every output,     *)
(* and the references insert_tuple and query take on the string pool are   *)
(* given back, but for outputs of a type nothing is known of.              *)
(***************************************************************************)
THEOREM OsiCallsComeBack == CallSpec => []CallsComeBack
  <1>1. ASSUME CallInv, [CallNext]_callVars PROVE CallInv'
    <2>. USE <1>1
    <2>1. CASE UNCHANGED callVars
      <3>1. UNCHANGED <<refs, facts, lastCall, leaked>> BY <2>1 DEF callVars
      <3>2. DbGet(lastCall.args)' = DbGet(lastCall.args) BY <3>1 DEF DbGet
      <3>. QED BY <3>1, <3>2 DEF CallInv, CallsComeBack, ReferencesBalanced, Held, AddTo,
                                 CallTakesItsArguments, GetFindsInserted
    <2>2. ASSUME NEW args \in [1..Len(DbColumns) -> Arguments],
                 StoryDispatch(args) \/ DbDelete(args)
          PROVE  CallInv'
      BY <2>2, DispatchHolds, DeleteHolds
    <2>3. ASSUME NEW arg \in Arguments, NEW valid \in BOOLEAN, NEW out \in Answers,
                 UserQuery(arg, valid, out)
          PROVE  CallInv'
      BY <2>3, QueryHolds
    <2>4. ASSUME NEW argc \in 0..4, NEW handled \in BOOLEAN, Dispatch(argc, handled)
          PROVE  CallInv'
      BY <2>4, EngineCallHolds
    <2>. QED BY <2>1, <2>2, <2>3, <2>4 DEF CallNext
  <1>2. CallInv => CallsComeBack BY DEF CallInv
  <1>. QED BY <1>1, <1>2, CallStart, PTL DEF CallSpec
=============================================================================
