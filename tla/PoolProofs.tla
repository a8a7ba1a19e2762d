----------------------------- MODULE PoolProofs -----------------------------
(***************************************************************************)
(* Proofs about what is given out and comes back: that no two blocks of    *)
(* the allocator overlap, whoever frees them (FastAlloc), that a path of   *)
(* the grid's pool is one request's (Pathfinding), that a variable of the  *)
(* server's comes to every client as it is (UserVars), that a mod's files  *)
(* run once, its bootstrap under its own UUID (ModLoading), that what the  *)
(* interfaces fire runs the handler it was for (NoesisUi, ImGui), that a   *)
(* timer is called in its time (LuaTimers), that a component's event comes *)
(* to everybody who stays subscribed (EntityEvents), and that mods' events *)
(* keep their subscribers and each message is logged once (LuaEvents).     *)
(***************************************************************************)
EXTENDS FastAlloc, Pathfinding, UserVars, ModLoading, NoesisUi, ImGui, LuaTimers,
        EntityEvents, LuaEvents, SequenceTheorems, FiniteSetTheorems, WellFoundedInduction, TLAPS

(* What is handed out lies beside everything else that is: a run of a bytes *)
(* from x, and one of b bytes from y.                                       *)
Apart(x, a, y, b) == x + a <= y \/ y + b <= x
Room(b) == BytesOf(b.class)
List(t, k) == pools[t].free[k]
Mapped == chunks * ArenaChunk

AllocTypeOK ==
    /\ pools \in [Threads -> [free : [ClassNumbers -> Seq(Nat)], arena : Nat, left : Nat]]
    /\ chunks \in Nat
    /\ \A b \in live : /\ b \in [at : Nat, size : Nat, class : ClassNumbers]
                       /\ b.size + HeaderSize <= Room(b)

(* The blocks in use bear their class; they, what waits in the lists and    *)
(* what is left of the threads' arenas lie apart, in what was mapped.       *)
LiveInv ==
    /\ \A b \in live : b.at \in DOMAIN heads /\ heads[b.at] = b.class /\ b.at + Room(b) <= Mapped
    /\ \A b, c \in live : b # c => Apart(b.at, Room(b), c.at, Room(c))
ArenaInv ==
    /\ \A t \in Threads : pools[t].arena + pools[t].left <= Mapped
    /\ \A t, u \in Threads : t # u => Apart(pools[t].arena, pools[t].left, pools[u].arena, pools[u].left)
    /\ \A t \in Threads : \A b \in live : Apart(pools[t].arena, pools[t].left, b.at, Room(b))
FreeInv ==
    \A t \in Threads : \A k \in ClassNumbers : \A i \in 1..Len(List(t, k)) :
        /\ List(t, k)[i] + BytesOf(k) <= Mapped
        /\ \A b \in live : Apart(List(t, k)[i], BytesOf(k), b.at, Room(b))
        /\ \A u \in Threads : Apart(List(t, k)[i], BytesOf(k), pools[u].arena, pools[u].left)
        /\ \A u \in Threads : \A l \in ClassNumbers : \A j \in 1..Len(List(u, l)) :
               (t = u /\ k = l /\ i = j)
               \/ Apart(List(t, k)[i], BytesOf(k), List(u, l)[j], BytesOf(l))
AllocInv == AllocTypeOK /\ LiveInv /\ ArenaInv /\ FreeInv

-----------------------------------------------------------------------------
(* The classes' sizes.                                                      *)
LEMMA Rooms == /\ \A k \in ClassNumbers : BytesOf(k) \in Nat /\ 1 <= BytesOf(k) /\ BytesOf(k) <= ArenaChunk
               /\ ArenaChunk \in Nat
  BY AllocAssumption DEF BytesOf, ClassNumbers

(* A set of naturals has a least element: the library's well-foundedness of *)
(* the order, as a fact without the relation.                               *)
LEMMA Least ==
  ASSUME NEW T \in SUBSET Nat, T # {}
  PROVE  \E x \in T : \A y \in T : x <= y
  <1>. DEFINE R == OpToRel(<, Nat)
  <1>1. \E x \in T : \A y \in T : <<y, x>> \notin R
    BY WFMin, NatLessThanWellFounded, Zenon
  <1>2. \A x, y \in T : y < x => <<y, x>> \in R BY DEF OpToRel
  <1>. HIDE DEF R
  <1>3. PICK x \in T : \A y \in T : <<y, x>> \notin R BY <1>1
  <1>4. ASSUME NEW y \in T PROVE x <= y
    <2>1. ~(y < x) BY <1>2, <1>3
    <2>. QED BY <2>1
  <1>. QED BY <1>4

(* The class of a size that is ours has room for it and the header.         *)
LEMMA ClassFits ==
  ASSUME NEW size \in Sizes, ClassOf(size) # Foreign
  PROVE  /\ size \in Nat /\ ClassOf(size) \in ClassNumbers
         /\ size + HeaderSize <= BytesOf(ClassOf(size))
  <1>. DEFINE fit == {c \in ClassNumbers : BytesOf(c) >= size + HeaderSize}
  <1>1. fit # {} /\ ClassOf(size) = CHOOSE c \in fit : \A d \in fit : c <= d BY DEF ClassOf
  <1>2. fit \in SUBSET Nat BY AllocAssumption DEF ClassNumbers
  <1>3. \E c \in fit : \A d \in fit : c <= d BY <1>1, <1>2, Least
  <1>4. ClassOf(size) \in fit BY <1>1, <1>3
  <1>5. size \in Nat BY AllocAssumption
  <1>. QED BY <1>4, <1>5, Rooms DEF HeaderSize

(* What is mapped, and what is when one more chunk is.                      *)
LEMMA MapsMore ==
  ASSUME chunks \in Nat
  PROVE  Mapped \in Nat /\ (chunks + 1) * ArenaChunk = Mapped + ArenaChunk
  BY Rooms DEF Mapped

(* A list's blocks, and those it has without the first or with one more.    *)
LEMMA ListHead ==
  ASSUME NEW s \in Seq(Nat), s # <<>>
  PROVE  /\ Head(s) = s[1] /\ 1 \in 1..Len(s) /\ Tail(s) \in Seq(Nat)
         /\ \A i \in 1..Len(Tail(s)) : i + 1 \in 1..Len(s) /\ i + 1 # 1 /\ Tail(s)[i] = s[i + 1]
         /\ \A i, j \in 1..Len(Tail(s)) : i + 1 = j + 1 => i = j
  <1>1. Len(s) \in Nat \ {0} /\ Head(s) = s[1] /\ Tail(s) \in Seq(Nat) /\ Len(Tail(s)) = Len(s) - 1
    BY EmptySeq, LenProperties, HeadTailProperties
  <1>2. \A i \in 1..Len(Tail(s)) : i + 1 \in 1..Len(s) /\ i + 1 # 1 /\ Tail(s)[i] = s[i + 1]
    BY <1>1, HeadTailProperties
  <1>3. \A i, j \in 1..Len(Tail(s)) : i + 1 = j + 1 => i = j BY <1>1
  <1>. QED BY <1>1, <1>2, <1>3

(* And one with a block put first.                                          *)
LEMMA ListPut ==
  ASSUME NEW s \in Seq(Nat), NEW x \in Nat
  PROVE  /\ <<x>> \o s \in Seq(Nat) /\ (<<x>> \o s)[1] = x
         /\ \A i \in 1..Len(<<x>> \o s) : i # 1 => i - 1 \in 1..Len(s) /\ (<<x>> \o s)[i] = s[i - 1]
         /\ \A i, j \in 1..Len(<<x>> \o s) : i - 1 = j - 1 => i = j
  <1>1. Len(s) \in Nat /\ Len(<<x>> \o s) = Len(s) + 1 /\ <<x>> \o s \in Seq(Nat)
    BY LenProperties, ConcatProperties
  <1>2. (<<x>> \o s)[1] = x OBVIOUS
  <1>3. \A i \in 1..Len(<<x>> \o s) : i # 1 => i - 1 \in 1..Len(s) /\ (<<x>> \o s)[i] = s[i - 1]
    BY <1>1
  <1>4. \A i, j \in 1..Len(<<x>> \o s) : i - 1 = j - 1 => i = j BY <1>1
  <1>. QED BY <1>1, <1>2, <1>3, <1>4

(* There is nothing at first.                                               *)
LEMMA AllocStarts == ASSUME AllocInit PROVE AllocInv
  <1>1. /\ pools = [t \in Threads |->
                      [free |-> [c \in ClassNumbers |-> <<>>], arena |-> 0, left |-> 0]]
        /\ chunks = 0 /\ live = {}
    BY DEF AllocInit
  <1>2. \A t \in Threads : pools[t].arena = 0 /\ pools[t].left = 0 BY <1>1
  <1>3. \A t \in Threads : \A k \in ClassNumbers : Len(List(t, k)) = 0 BY <1>1 DEF List
  <1>4. AllocTypeOK BY <1>1 DEF AllocTypeOK
  <1>5. LiveInv BY <1>1 DEF LiveInv
  <1>6. ArenaInv BY <1>1, <1>2, MapsMore DEF ArenaInv, Apart
  <1>7. FreeInv
    <2>1. \A i : i \notin 1..0 OBVIOUS
    <2>. QED BY <1>3, <2>1 DEF FreeInv
  <1>. QED BY <1>4, <1>5, <1>6, <1>7 DEF AllocInv

(* A block more in use, which lies apart from those there are.              *)
TakenBy(x, k) ==
    /\ x + BytesOf(k) <= Mapped'
    /\ \A b \in live : Apart(x, BytesOf(k), b.at, Room(b))
(* A block apart from all else comes into use.                              *)
LEMMA LiveGrows ==
  ASSUME AllocInv, Mapped <= Mapped', Mapped \in Nat, Mapped' \in Nat,
         NEW x \in Nat, NEW size \in Nat, NEW k \in ClassNumbers, size + HeaderSize <= BytesOf(k),
         TakenBy(x, k), live' = live \cup {[at |-> x, size |-> size, class |-> k]},
         heads' = [a \in DOMAIN heads \cup {x} |-> IF a = x THEN k ELSE heads[a]]
  PROVE  /\ LiveInv'
         /\ \A b \in live' : /\ b \in [at : Nat, size : Nat, class : ClassNumbers]
                             /\ b.size + HeaderSize <= Room(b)
         /\ \A b \in live' : b \in live \/ (b.at = x /\ Room(b) = BytesOf(k))
  <1>1. /\ AllocTypeOK /\ LiveInv
        /\ \A c \in ClassNumbers : BytesOf(c) \in Nat /\ 1 <= BytesOf(c)
    BY Rooms DEF AllocInv
  <1>2. PICK new : new = [at |-> x, size |-> size, class |-> k] OBVIOUS
  <1>3. /\ live' = live \cup {new}
        /\ new \in [at : Nat, size : Nat, class : ClassNumbers]
        /\ new.at = x /\ new.class = k /\ new.size = size /\ Room(new) = BytesOf(k)
    BY <1>2 DEF Room
  <1>4. \A b \in live : /\ b.at \in Nat /\ Room(b) \in Nat /\ 1 <= Room(b)
                        /\ Apart(x, BytesOf(k), b.at, Room(b)) /\ b.at + Room(b) <= Mapped
    BY <1>1 DEF AllocTypeOK, LiveInv, Room, TakenBy
  <1>5. \A b \in live : b.at # x BY <1>1, <1>4 DEF Apart
  <1>6. \A b \in live' : /\ b \in [at : Nat, size : Nat, class : ClassNumbers]
                         /\ b.size + HeaderSize <= Room(b)
    BY <1>1, <1>3 DEF AllocTypeOK
  <1>7. \A b \in live' : b.at \in DOMAIN heads' /\ heads'[b.at] = b.class /\ b.at + Room(b) <= Mapped'
    <2>1. ASSUME NEW b \in live
          PROVE  b.at \in DOMAIN heads' /\ heads'[b.at] = b.class /\ b.at + Room(b) <= Mapped'
      <3>1. b.at \in DOMAIN heads /\ heads[b.at] = b.class BY <1>1 DEF LiveInv
      <3>2. b.at + Room(b) <= Mapped' BY <1>4
      <3>. QED BY <1>5, <3>1, <3>2
    <2>2. new.at \in DOMAIN heads' /\ heads'[new.at] = new.class /\ new.at + Room(new) <= Mapped'
      BY <1>3 DEF TakenBy
    <2>. QED BY <1>3, <2>1, <2>2
  <1>8. ASSUME NEW b \in live', NEW c \in live', b # c PROVE Apart(b.at, Room(b), c.at, Room(c))
    <2>1. CASE b \in live /\ c \in live BY <1>1, <1>8, <2>1 DEF LiveInv
    <2>2. CASE b = new /\ c \in live BY <1>3, <1>4, <2>2
    <2>3. CASE c = new /\ b \in live
      <3>1. Apart(x, BytesOf(k), b.at, Room(b)) BY <1>4, <2>3
      <3>. QED BY <1>3, <2>3, <3>1 DEF Apart
    <2>. QED BY <1>3, <1>8, <2>1, <2>2, <2>3
  <1>9. LiveInv' BY <1>7, <1>8 DEF LiveInv, Room, Apart
  <1>. QED BY <1>3, <1>6, <1>9 DEF Room

(* What a call of alloc_hook does: the block comes from the thread's list,  *)
(* from its arena, or from the chunk mapped next.                           *)
FromList(t, k, x) ==
    /\ List(t, k) # <<>> /\ x = Head(List(t, k)) /\ chunks' = chunks
    /\ pools' = [pools EXCEPT ![t].free[k] = Tail(List(t, k))]
FromArena(t, k, x) ==
    /\ pools[t].left >= BytesOf(k) /\ x = pools[t].arena /\ chunks' = chunks
    /\ pools' = [pools EXCEPT ![t] = [pools[t] EXCEPT !.arena = x + BytesOf(k),
                                                      !.left = pools[t].left - BytesOf(k)]]
FromChunk(t, k, x) ==
    /\ x = Mapped /\ chunks' = chunks + 1
    /\ pools' = [pools EXCEPT ![t] = [pools[t] EXCEPT !.arena = x + BytesOf(k),
                                                      !.left = ArenaChunk - BytesOf(k)]]
(* What an allocation does.                                                 *)
LEMMA AllocIs ==
  ASSUME AllocInv, NEW t \in Threads, NEW size \in Sizes, AllocHook(t, size)
  PROVE  \E k \in ClassNumbers : \E x :
            /\ size \in Nat /\ size + HeaderSize <= BytesOf(k)
            /\ live' = live \cup {[at |-> x, size |-> size, class |-> k]}
            /\ heads' = [a \in DOMAIN heads \cup {x} |-> IF a = x THEN k ELSE heads[a]]
            /\ FromList(t, k, x) \/ FromArena(t, k, x) \/ FromChunk(t, k, x)
  <1>. DEFINE k == ClassOf(size)
              carved == Carve(t, BytesOf(k))
              x == IF List(t, k) # <<>> THEN Head(List(t, k)) ELSE carved.at
  <1>1. k \in ClassNumbers /\ size \in Nat /\ size + HeaderSize <= BytesOf(k)
    BY ClassFits DEF AllocHook
  <1>2. /\ live' = live \cup {[at |-> x, size |-> size, class |-> k]}
        /\ heads' = [a \in DOMAIN heads \cup {x} |-> IF a = x THEN k ELSE heads[a]]
        /\ IF List(t, k) # <<>> THEN /\ pools' = [pools EXCEPT ![t].free[k] = Tail(List(t, k))]
                                     /\ chunks' = chunks
                                ELSE pools' = [pools EXCEPT ![t] = carved.pool] /\ chunks' = chunks + carved.mapped
    BY DEF AllocHook, List
  <1>3. CASE List(t, k) # <<>>
    <2>1. FromList(t, k, x) BY <1>2, <1>3 DEF FromList
    <2>. QED BY <1>1, <1>2, <2>1
  <1>4. CASE List(t, k) = <<>> /\ pools[t].left >= BytesOf(k)
    <2>1. carved = [at |-> pools[t].arena, mapped |-> 0,
                    pool |-> [pools[t] EXCEPT !.arena = @ + BytesOf(k), !.left = @ - BytesOf(k)]]
      BY <1>4 DEF Carve
    <2>2. x = pools[t].arena /\ chunks' = chunks
      BY <1>2, <1>4, <2>1 DEF AllocInv, AllocTypeOK
    <2>3. pools' = [pools EXCEPT ![t] = [pools[t] EXCEPT !.arena = pools[t].arena + BytesOf(k),
                                                         !.left = pools[t].left - BytesOf(k)]]
      BY <1>2, <1>4, <2>1
    <2>4. FromArena(t, k, x) BY <1>4, <2>2, <2>3 DEF FromArena
    <2>. QED BY <1>1, <1>2, <2>4
  <1>5. CASE List(t, k) = <<>> /\ ~(pools[t].left >= BytesOf(k))
    <2>0. ~(BytesOf(k) > ArenaChunk) BY <1>1, Rooms
    <2>1. carved = [at |-> chunks * ArenaChunk, mapped |-> 1,
                    pool |-> [pools[t] EXCEPT !.arena = chunks * ArenaChunk + BytesOf(k),
                                              !.left = ArenaChunk - BytesOf(k)]]
      BY <1>5, <2>0 DEF Carve
    <2>2. x = Mapped /\ chunks' = chunks + 1 BY <1>2, <1>5, <2>1 DEF Mapped
    <2>3. pools' = [pools EXCEPT ![t] = [pools[t] EXCEPT !.arena = Mapped + BytesOf(k),
                                                         !.left = ArenaChunk - BytesOf(k)]]
      BY <1>2, <1>5, <2>1 DEF Mapped
    <2>4. FromChunk(t, k, x) BY <2>2, <2>3 DEF FromChunk
    <2>. QED BY <1>1, <1>2, <2>4
  <1>. QED BY <1>3, <1>4, <1>5

(* A block that waited in a list is apart from what is in use, and the list *)
(* has it no more.                                                          *)
LEMMA FromListHolds ==
  ASSUME AllocInv, NEW t \in Threads, NEW k \in ClassNumbers, NEW size \in Nat, NEW x,
         size + HeaderSize <= BytesOf(k), FromList(t, k, x),
         live' = live \cup {[at |-> x, size |-> size, class |-> k]},
         heads' = [a \in DOMAIN heads \cup {x} |-> IF a = x THEN k ELSE heads[a]]
  PROVE  AllocInv'
  <1>1. /\ AllocTypeOK /\ ArenaInv /\ FreeInv /\ Mapped' = Mapped /\ Mapped \in Nat
        /\ \A c \in ClassNumbers : BytesOf(c) \in Nat /\ 1 <= BytesOf(c)
    BY MapsMore, Rooms DEF AllocInv, AllocTypeOK, Mapped, FromList
  <1>2. PICK s \in Seq(Nat) : s = List(t, k) BY <1>1 DEF AllocTypeOK, List
  <1>3. /\ x = s[1] /\ 1 \in 1..Len(s) /\ Tail(s) \in Seq(Nat) /\ s # <<>> /\ x \in Nat
        /\ \A i \in 1..Len(Tail(s)) : i + 1 \in 1..Len(s) /\ i + 1 # 1 /\ Tail(s)[i] = s[i + 1]
        /\ \A i, j \in 1..Len(Tail(s)) : i + 1 = j + 1 => i = j
    BY <1>2, ListHead, ElementOfSeq DEF FromList
  <1>4. /\ pools' = [pools EXCEPT ![t].free[k] = Tail(s)]
        /\ \A u \in Threads : pools[u] \in [free : [ClassNumbers -> Seq(Nat)], arena : Nat, left : Nat]
    BY <1>1, <1>2 DEF FromList, AllocTypeOK
  <1>5. /\ \A u \in Threads : pools'[u].arena = pools[u].arena /\ pools'[u].left = pools[u].left
        /\ List(t, k)' = Tail(s)
        /\ \A u \in Threads : \A l \in ClassNumbers : (u # t \/ l # k) => List(u, l)' = List(u, l)
        /\ pools' \in [Threads -> [free : [ClassNumbers -> Seq(Nat)], arena : Nat, left : Nat]]
    BY <1>1, <1>3, <1>4 DEF AllocTypeOK, List
  <1>6. TakenBy(x, k) BY <1>1, <1>2, <1>3 DEF FreeInv, TakenBy
  <1>7. /\ LiveInv'
        /\ \A b \in live' : /\ b \in [at : Nat, size : Nat, class : ClassNumbers]
                            /\ b.size + HeaderSize <= Room(b)
        /\ \A b \in live' : b \in live \/ (b.at = x /\ Room(b) = BytesOf(k))
    BY <1>1, <1>3, <1>6, LiveGrows
  <1>8. AllocTypeOK' BY <1>1, <1>5, <1>7 DEF AllocTypeOK, Room, FromList
  <1>9. ArenaInv'
    <2>1. \A u \in Threads : Apart(x, BytesOf(k), pools[u].arena, pools[u].left)
      BY <1>1, <1>2, <1>3 DEF FreeInv
    <2>2. \A u \in Threads : \A b \in live' : Apart(pools[u].arena, pools[u].left, b.at, Room(b))
      BY <1>1, <1>7, <2>1 DEF ArenaInv, Apart
    <2>. QED BY <1>1, <1>5, <2>2 DEF ArenaInv, Apart, Room
  (* Each block still in a list was in it, and is not the one taken.        *)
  <1>10. ASSUME NEW u \in Threads, NEW l \in ClassNumbers, NEW i \in 1..Len(List(u, l)')
         PROVE  \E m \in 1..Len(List(u, l)) :
                   /\ List(u, l)'[i] = List(u, l)[m] /\ (u = t /\ l = k => m = i + 1 /\ m # 1)
                   /\ (u # t \/ l # k => m = i)
    <2>1. CASE u = t /\ l = k BY <1>2, <1>3, <1>5, <1>10, <2>1
    <2>2. CASE u # t \/ l # k BY <1>5, <1>10, <2>2
    <2>. QED BY <2>1, <2>2
  <1>11. ASSUME NEW u \in Threads, NEW l \in ClassNumbers, NEW i \in 1..Len(List(u, l)')
         PROVE  /\ List(u, l)'[i] + BytesOf(l) <= Mapped
                /\ \A b \in live' : Apart(List(u, l)'[i], BytesOf(l), b.at, Room(b))
                /\ \A v \in Threads : Apart(List(u, l)'[i], BytesOf(l), pools[v].arena, pools[v].left)
                /\ \A v \in Threads : \A o \in ClassNumbers : \A j \in 1..Len(List(v, o)') :
                      (u = v /\ l = o /\ i = j)
                      \/ Apart(List(u, l)'[i], BytesOf(l), List(v, o)'[j], BytesOf(o))
    <2>1. PICK m \in 1..Len(List(u, l)) :
             /\ List(u, l)'[i] = List(u, l)[m] /\ (u = t /\ l = k => m = i + 1 /\ m # 1)
             /\ (u # t \/ l # k => m = i)
      BY <1>10
    <2>2. /\ List(u, l)[m] + BytesOf(l) <= Mapped
          /\ \A b \in live : Apart(List(u, l)[m], BytesOf(l), b.at, Room(b))
          /\ \A v \in Threads : Apart(List(u, l)[m], BytesOf(l), pools[v].arena, pools[v].left)
      BY <1>1 DEF FreeInv
    <2>3. Apart(List(u, l)[m], BytesOf(l), x, BytesOf(k)) BY <1>1, <1>2, <1>3, <2>1 DEF FreeInv
    <2>4. ASSUME NEW v \in Threads, NEW o \in ClassNumbers, NEW j \in 1..Len(List(v, o)')
          PROVE  (u = v /\ l = o /\ i = j) \/ Apart(List(u, l)[m], BytesOf(l), List(v, o)'[j], BytesOf(o))
      <3>1. PICK w \in 1..Len(List(v, o)) :
               /\ List(v, o)'[j] = List(v, o)[w] /\ (v = t /\ o = k => w = j + 1 /\ w # 1)
               /\ (v # t \/ o # k => w = j)
        BY <1>10
      <3>2. (u = v /\ l = o /\ m = w) \/ Apart(List(u, l)[m], BytesOf(l), List(v, o)[w], BytesOf(o))
        BY <1>1 DEF FreeInv
      <3>3. u = v /\ l = o /\ m = w => i = j BY <1>3, <1>5, <2>1, <3>1
      <3>. QED BY <3>1, <3>2, <3>3
    <2>5. \A b \in live' : Apart(List(u, l)[m], BytesOf(l), b.at, Room(b)) BY <1>7, <2>2, <2>3
    <2>6. List(u, l)'[i] = List(u, l)[m] BY <2>1
    <2>7. /\ List(u, l)'[i] + BytesOf(l) <= Mapped
          /\ \A b \in live' : Apart(List(u, l)'[i], BytesOf(l), b.at, Room(b))
          /\ \A v \in Threads : Apart(List(u, l)'[i], BytesOf(l), pools[v].arena, pools[v].left)
      BY <2>2, <2>5, <2>6
    <2>8. \A v \in Threads : \A o \in ClassNumbers : \A j \in 1..Len(List(v, o)') :
             (u = v /\ l = o /\ i = j)
             \/ Apart(List(u, l)'[i], BytesOf(l), List(v, o)'[j], BytesOf(o))
      BY <2>4, <2>6
    <2>. QED BY <2>7, <2>8
  <1>12. FreeInv'
    <2>1. ASSUME NEW u \in Threads, NEW l \in ClassNumbers, NEW i \in 1..Len(List(u, l)')
          PROVE  /\ List(u, l)'[i] + BytesOf(l) <= Mapped'
                 /\ \A b \in live' : Apart(List(u, l)'[i], BytesOf(l), b.at, Room(b))
                 /\ \A v \in Threads : Apart(List(u, l)'[i], BytesOf(l), pools'[v].arena, pools'[v].left)
                 /\ \A v \in Threads : \A o \in ClassNumbers : \A j \in 1..Len(List(v, o)') :
                       (u = v /\ l = o /\ i = j)
                       \/ Apart(List(u, l)'[i], BytesOf(l), List(v, o)'[j], BytesOf(o))
      <3>1. /\ List(u, l)'[i] + BytesOf(l) <= Mapped'
            /\ \A b \in live' : Apart(List(u, l)'[i], BytesOf(l), b.at, Room(b))
        BY <1>1, <1>11
      <3>2. \A v \in Threads : Apart(List(u, l)'[i], BytesOf(l), pools'[v].arena, pools'[v].left)
        BY <1>5, <1>11
      <3>. QED BY <1>11, <3>1, <3>2
    <2>. QED BY <2>1 DEF FreeInv, Apart, Room
  <1>. QED BY <1>7, <1>8, <1>9, <1>12 DEF AllocInv

(* A stretch that lies apart from everything but the thread's own arena is  *)
(* made into a block and what is left for the thread.                       *)
Stretch(t, x, a) ==
    /\ x + a <= Mapped'
    /\ \A b \in live : Apart(x, a, b.at, Room(b))
    /\ \A u \in Threads : u # t => Apart(x, a, pools[u].arena, pools[u].left)
    /\ \A u \in Threads : \A l \in ClassNumbers : \A i \in 1..Len(List(u, l)) :
           Apart(x, a, List(u, l)[i], BytesOf(l))
(* A block is carved from an arena, or from a new chunk.                    *)
LEMMA CarveHolds ==
  ASSUME AllocInv, NEW t \in Threads, NEW k \in ClassNumbers, NEW size \in Nat, NEW x \in Nat, NEW n \in Nat,
         size + HeaderSize <= BytesOf(k), chunks' \in Nat, Mapped \in Nat, Mapped' \in Nat, Mapped <= Mapped',
         pools' = [pools EXCEPT ![t] = [pools[t] EXCEPT !.arena = x + BytesOf(k), !.left = n]],
         Stretch(t, x, BytesOf(k) + n),
         live' = live \cup {[at |-> x, size |-> size, class |-> k]},
         heads' = [a \in DOMAIN heads \cup {x} |-> IF a = x THEN k ELSE heads[a]]
  PROVE  AllocInv'
  <1>1. /\ AllocTypeOK /\ LiveInv /\ ArenaInv /\ FreeInv
        /\ \A c \in ClassNumbers : BytesOf(c) \in Nat /\ 1 <= BytesOf(c)
    BY Rooms DEF AllocInv
  <1>2. \A u \in Threads : pools[u] \in [free : [ClassNumbers -> Seq(Nat)], arena : Nat, left : Nat]
    BY <1>1 DEF AllocTypeOK
  <1>3. PICK w \in Nat : w = BytesOf(k) /\ 1 <= w BY <1>1
  <1>4. /\ pools'[t].arena = x + w /\ pools'[t].left = n
        /\ \A u \in Threads : u # t => pools'[u] = pools[u]
        /\ \A u \in Threads : \A l \in ClassNumbers : List(u, l)' = List(u, l)
        /\ pools' \in [Threads -> [free : [ClassNumbers -> Seq(Nat)], arena : Nat, left : Nat]]
    <2>1. PICK own : own = [pools[t] EXCEPT !.arena = x + w, !.left = n] OBVIOUS
    <2>2. /\ own \in [free : [ClassNumbers -> Seq(Nat)], arena : Nat, left : Nat]
          /\ own.arena = x + w /\ own.left = n /\ own.free = pools[t].free
      <3>1. x + w \in Nat BY <1>3
      <3>. QED BY <1>2, <2>1, <3>1
    <2>3. pools' = [pools EXCEPT ![t] = own] BY <1>3, <2>1
    <2>4. /\ pools' \in [Threads -> [free : [ClassNumbers -> Seq(Nat)], arena : Nat, left : Nat]]
          /\ pools'[t] = own /\ \A u \in Threads : u # t => pools'[u] = pools[u]
      BY <1>1, <2>2, <2>3 DEF AllocTypeOK
    <2>5. \A u \in Threads : \A l \in ClassNumbers : List(u, l)' = List(u, l)
      BY <2>2, <2>4 DEF List
    <2>. QED BY <2>2, <2>4, <2>5
  <1>5. \A b \in live : b.at \in Nat /\ Room(b) \in Nat BY <1>1 DEF AllocTypeOK, Room
  <1>6. \A b \in live : Apart(x, w, b.at, Room(b)) /\ Apart(x + w, n, b.at, Room(b))
    BY <1>3, <1>5 DEF Stretch, Apart
  <1>6a. x + w + n <= Mapped' BY <1>3 DEF Stretch
  <1>7. TakenBy(x, k) BY <1>3, <1>6, <1>6a DEF TakenBy
  <1>8. /\ LiveInv'
        /\ \A b \in live' : /\ b \in [at : Nat, size : Nat, class : ClassNumbers]
                            /\ b.size + HeaderSize <= Room(b)
        /\ \A b \in live' : b \in live \/ (b.at = x /\ Room(b) = w)
    BY <1>3, <1>7, LiveGrows
  <1>9. AllocTypeOK' BY <1>4, <1>8 DEF AllocTypeOK, Room
  <1>10. \A u \in Threads : u # t =>
            Apart(x, w, pools[u].arena, pools[u].left) /\ Apart(x + w, n, pools[u].arena, pools[u].left)
    <2>. SUFFICES ASSUME NEW u \in Threads, u # t
                  PROVE  /\ Apart(x, w, pools[u].arena, pools[u].left)
                         /\ Apart(x + w, n, pools[u].arena, pools[u].left)
      OBVIOUS
    <2>1. PICK y \in Nat : y = pools[u].arena BY <1>2
    <2>2. PICK r \in Nat : r = pools[u].left BY <1>2
    <2>3. Apart(x, w + n, y, r) BY <1>3, <2>1, <2>2 DEF Stretch
    <2>4. Apart(x, w, y, r) /\ Apart(x + w, n, y, r) BY <2>3 DEF Apart
    <2>. QED BY <2>1, <2>2, <2>4
  <1>11. ArenaInv'
    <2>1. ASSUME NEW u \in Threads PROVE pools'[u].arena + pools'[u].left <= Mapped'
      <3>1. CASE u = t BY <1>4, <1>6a, <3>1
      <3>2. CASE u # t
        <4>1. PICK y \in Nat : y = pools[u].arena + pools[u].left BY <1>2
        <4>2. y <= Mapped BY <1>1, <4>1 DEF ArenaInv
        <4>3. y <= Mapped' BY <4>2
        <4>. QED BY <1>4, <3>2, <4>1, <4>3
      <3>. QED BY <3>1, <3>2
    <2>2. ASSUME NEW u \in Threads, NEW v \in Threads, u # v
          PROVE  Apart(pools'[u].arena, pools'[u].left, pools'[v].arena, pools'[v].left)
      <3>1. CASE u # t /\ v # t BY <1>1, <1>4, <2>2, <3>1 DEF ArenaInv
      <3>2. CASE u = t BY <1>4, <1>10, <2>2, <3>2
      <3>3. CASE v = t BY <1>4, <1>10, <2>2, <3>3 DEF Apart
      <3>. QED BY <3>1, <3>2, <3>3
    <2>3. ASSUME NEW u \in Threads, NEW b \in live'
          PROVE  Apart(pools'[u].arena, pools'[u].left, b.at, Room(b))
      <3>1. CASE u # t /\ b \in live BY <1>1, <1>4, <3>1 DEF ArenaInv
      <3>2. CASE u = t /\ b \in live BY <1>4, <1>6, <3>2
      <3>3. CASE u # t /\ b.at = x /\ Room(b) = w BY <1>4, <1>10, <3>3 DEF Apart
      <3>4. CASE u = t /\ b.at = x /\ Room(b) = w BY <1>4, <3>4 DEF Apart
      <3>. QED BY <1>8, <2>3, <3>1, <3>2, <3>3, <3>4
    <2>. QED BY <2>1, <2>2, <2>3 DEF ArenaInv, Apart, Room
  <1>12. FreeInv'
    <2>1. ASSUME NEW u \in Threads, NEW l \in ClassNumbers, NEW i \in 1..Len(List(u, l))
          PROVE  /\ List(u, l)[i] + BytesOf(l) <= Mapped'
                 /\ \A b \in live' : Apart(List(u, l)[i], BytesOf(l), b.at, Room(b))
                 /\ \A v \in Threads : Apart(List(u, l)[i], BytesOf(l), pools'[v].arena, pools'[v].left)
      <3>1. PICK y \in Nat : y = List(u, l)[i]
        <4>1. List(u, l) \in Seq(Nat) BY <1>2 DEF List
        <4>. QED BY <4>1, ElementOfSeq
      <3>2. PICK r \in Nat : r = BytesOf(l) BY <1>1
      <3>3. /\ y + r <= Mapped /\ \A b \in live : Apart(y, r, b.at, Room(b))
            /\ \A v \in Threads : Apart(y, r, pools[v].arena, pools[v].left)
        BY <1>1, <3>1, <3>2 DEF FreeInv
      <3>4. Apart(x, w + n, y, r) BY <1>3, <3>1, <3>2 DEF Stretch
      <3>5. Apart(y, r, x, w) /\ Apart(y, r, x + w, n) BY <3>4 DEF Apart
      <3>6. \A b \in live' : Apart(y, r, b.at, Room(b)) BY <1>8, <3>3, <3>5
      <3>7. \A v \in Threads : Apart(y, r, pools'[v].arena, pools'[v].left) BY <1>4, <3>3, <3>5
      <3>8. y + r <= Mapped' BY <3>3
      <3>. QED BY <3>1, <3>2, <3>6, <3>7, <3>8
    <2>2. \A u, v \in Threads : \A l, o \in ClassNumbers :
             \A i \in 1..Len(List(u, l)) : \A j \in 1..Len(List(v, o)) :
                (u = v /\ l = o /\ i = j)
                \/ Apart(List(u, l)[i], BytesOf(l), List(v, o)[j], BytesOf(o))
      BY <1>1 DEF FreeInv
    <2>3. ASSUME NEW u \in Threads, NEW l \in ClassNumbers, NEW i \in 1..Len(List(u, l)')
          PROVE  /\ List(u, l)'[i] + BytesOf(l) <= Mapped'
                 /\ \A b \in live' : Apart(List(u, l)'[i], BytesOf(l), b.at, Room(b))
                 /\ \A v \in Threads : Apart(List(u, l)'[i], BytesOf(l), pools'[v].arena, pools'[v].left)
                 /\ \A v \in Threads : \A o \in ClassNumbers : \A j \in 1..Len(List(v, o)') :
                       (u = v /\ l = o /\ i = j)
                       \/ Apart(List(u, l)'[i], BytesOf(l), List(v, o)'[j], BytesOf(o))
      <3>1. \A v \in Threads : \A o \in ClassNumbers : List(v, o)' = List(v, o) BY <1>4
      <3>2. List(u, l)' = List(u, l) /\ i \in 1..Len(List(u, l)) BY <3>1
      <3>3. /\ List(u, l)'[i] + BytesOf(l) <= Mapped'
            /\ \A b \in live' : Apart(List(u, l)'[i], BytesOf(l), b.at, Room(b))
            /\ \A v \in Threads : Apart(List(u, l)'[i], BytesOf(l), pools'[v].arena, pools'[v].left)
        BY <2>1, <3>2
      <3>4. \A v \in Threads : \A o \in ClassNumbers : \A j \in 1..Len(List(v, o)') :
               (u = v /\ l = o /\ i = j)
               \/ Apart(List(u, l)'[i], BytesOf(l), List(v, o)'[j], BytesOf(o))
        BY <2>2, <3>1, <3>2
      <3>. QED BY <3>3, <3>4
    <2>. QED BY <2>3 DEF FreeInv, Apart, Room
  <1>. QED BY <1>8, <1>9, <1>11, <1>12 DEF AllocInv

(* Whatever alloc_hook gives, it gives what nobody has.                     *)
LEMMA AllocHolds ==
  ASSUME AllocInv, NEW t \in Threads, NEW size \in Sizes, AllocHook(t, size)
  PROVE  AllocInv'
  <1>1. PICK k \in ClassNumbers : \E x :
            /\ size \in Nat /\ size + HeaderSize <= BytesOf(k)
            /\ live' = live \cup {[at |-> x, size |-> size, class |-> k]}
            /\ heads' = [a \in DOMAIN heads \cup {x} |-> IF a = x THEN k ELSE heads[a]]
            /\ FromList(t, k, x) \/ FromArena(t, k, x) \/ FromChunk(t, k, x)
    BY AllocIs
  <1>2. PICK x :
            /\ size \in Nat /\ size + HeaderSize <= BytesOf(k)
            /\ live' = live \cup {[at |-> x, size |-> size, class |-> k]}
            /\ heads' = [a \in DOMAIN heads \cup {x} |-> IF a = x THEN k ELSE heads[a]]
            /\ FromList(t, k, x) \/ FromArena(t, k, x) \/ FromChunk(t, k, x)
    BY <1>1
  <1>3. /\ AllocTypeOK /\ LiveInv /\ ArenaInv /\ FreeInv
        /\ Mapped \in Nat /\ (chunks + 1) * ArenaChunk = Mapped + ArenaChunk /\ chunks \in Nat
        /\ \A c \in ClassNumbers : BytesOf(c) \in Nat /\ BytesOf(c) <= ArenaChunk
        /\ ArenaChunk \in Nat
    BY MapsMore, Rooms DEF AllocInv, AllocTypeOK
  <1>4. \A u \in Threads : pools[u].arena \in Nat /\ pools[u].left \in Nat BY <1>3 DEF AllocTypeOK
  <1>5. \A u \in Threads : \A l \in ClassNumbers : \A i \in 1..Len(List(u, l)) : List(u, l)[i] \in Nat
    <2>1. \A u \in Threads : \A l \in ClassNumbers : List(u, l) \in Seq(Nat)
      BY <1>3 DEF AllocTypeOK, List
    <2>. QED BY <2>1, ElementOfSeq
  <1>6. CASE FromList(t, k, x) BY <1>2, <1>6, FromListHolds
  <1>7. CASE FromArena(t, k, x)
    <2>1. PICK n \in Nat : n = pools[t].left - BytesOf(k) /\ BytesOf(k) + n = pools[t].left
      BY <1>3, <1>4, <1>7 DEF FromArena
    <2>2. /\ x = pools[t].arena /\ x \in Nat /\ Mapped' = Mapped /\ chunks' \in Nat
          /\ pools' = [pools EXCEPT ![t] = [pools[t] EXCEPT !.arena = x + BytesOf(k), !.left = n]]
      BY <1>3, <1>4, <1>7, <2>1 DEF FromArena, Mapped
    <2>3. x + (BytesOf(k) + n) <= Mapped'
      <3>1. x + pools[t].left <= Mapped BY <1>3, <2>2 DEF ArenaInv
      <3>2. x + (BytesOf(k) + n) = x + pools[t].left BY <1>3, <1>4, <2>1, <2>2
      <3>. QED BY <2>2, <3>1, <3>2
    <2>4. \A b \in live : Apart(x, BytesOf(k) + n, b.at, Room(b)) BY <1>3, <2>1, <2>2 DEF ArenaInv
    <2>5. \A u \in Threads : u # t => Apart(x, BytesOf(k) + n, pools[u].arena, pools[u].left)
      BY <1>3, <2>1, <2>2 DEF ArenaInv
    <2>6. \A u \in Threads : \A l \in ClassNumbers : \A i \in 1..Len(List(u, l)) :
             Apart(x, BytesOf(k) + n, List(u, l)[i], BytesOf(l))
      BY <1>3, <2>1, <2>2 DEF FreeInv, Apart
    <2>7. Mapped' \in Nat /\ Mapped <= Mapped' BY <1>3, <2>2
    <2>8. Stretch(t, x, BytesOf(k) + n) BY <2>3, <2>4, <2>5, <2>6 DEF Stretch
    <2>9. Mapped \in Nat BY <1>3
    <2>. QED BY <1>2, <2>2, <2>7, <2>8, <2>9, CarveHolds
  <1>8. CASE FromChunk(t, k, x)
    <2>1. PICK n \in Nat : n = ArenaChunk - BytesOf(k) /\ BytesOf(k) + n = ArenaChunk BY <1>3
    <2>2. /\ x = Mapped /\ x \in Nat /\ chunks' \in Nat /\ Mapped' = Mapped + ArenaChunk
          /\ pools' = [pools EXCEPT ![t] = [pools[t] EXCEPT !.arena = x + BytesOf(k), !.left = n]]
      BY <1>3, <1>8, <2>1 DEF FromChunk, Mapped
    <2>3. x + (BytesOf(k) + n) <= Mapped' BY <1>3, <2>1, <2>2
    <2>4. \A b \in live : Apart(x, BytesOf(k) + n, b.at, Room(b)) BY <1>3, <2>2 DEF LiveInv, Apart
    <2>5. \A u \in Threads : u # t => Apart(x, BytesOf(k) + n, pools[u].arena, pools[u].left)
      BY <1>3, <2>2 DEF ArenaInv, Apart
    <2>6. \A u \in Threads : \A l \in ClassNumbers : \A i \in 1..Len(List(u, l)) :
             Apart(x, BytesOf(k) + n, List(u, l)[i], BytesOf(l))
      BY <1>3, <2>2 DEF FreeInv, Apart
    <2>7. Mapped' \in Nat /\ Mapped <= Mapped' BY <1>3, <2>2
    <2>8. Stretch(t, x, BytesOf(k) + n) BY <2>3, <2>4, <2>5, <2>6 DEF Stretch
    <2>9. Mapped \in Nat BY <1>3
    <2>. QED BY <1>2, <2>2, <2>7, <2>8, <2>9, CarveHolds
  <1>. QED BY <1>2, <1>6, <1>7, <1>8

(* A block freed goes from its caller to the list of whoever freed it.      *)
LEMMA FreeHolds ==
  ASSUME AllocInv, NEW t \in Threads, NEW b \in live, FreeHook(t, b)
  PROVE  AllocInv'
  <1>1. /\ AllocTypeOK /\ LiveInv /\ ArenaInv /\ FreeInv /\ Mapped' = Mapped
        /\ \A c \in ClassNumbers : BytesOf(c) \in Nat /\ 1 <= BytesOf(c)
    BY Rooms DEF AllocInv, FreeHook, Mapped
  <1>2. PICK k \in ClassNumbers : k = b.class BY <1>1 DEF AllocTypeOK
  <1>3. PICK x \in Nat : x = b.at BY <1>1 DEF AllocTypeOK
  <1>4. PICK s \in Seq(Nat) : s = List(t, k) BY <1>1 DEF AllocTypeOK, List
  <1>5. Room(b) = BytesOf(k) /\ heads[x] = k BY <1>1, <1>2, <1>3 DEF Room, LiveInv
  <1>6. PICK put \in Seq(Nat) :
           /\ put = <<x>> \o s /\ put[1] = x
           /\ \A i \in 1..Len(put) : i # 1 => i - 1 \in 1..Len(s) /\ put[i] = s[i - 1]
           /\ \A i, j \in 1..Len(put) : i - 1 = j - 1 => i = j
    BY ListPut
  <1>7. /\ live' = live \ {b} /\ chunks' = chunks
        /\ heads' = [a \in DOMAIN heads \ {x} |-> heads[a]]
        /\ pools' = [pools EXCEPT ![t].free[k] = put]
    BY <1>3, <1>4, <1>5, <1>6 DEF FreeHook, List
  <1>8. /\ \A u \in Threads : pools'[u].arena = pools[u].arena /\ pools'[u].left = pools[u].left
        /\ List(t, k)' = put
        /\ \A u \in Threads : \A l \in ClassNumbers : (u # t \/ l # k) => List(u, l)' = List(u, l)
        /\ pools' \in [Threads -> [free : [ClassNumbers -> Seq(Nat)], arena : Nat, left : Nat]]
    <2>1. \A u \in Threads : pools[u] \in [free : [ClassNumbers -> Seq(Nat)], arena : Nat, left : Nat]
      BY <1>1 DEF AllocTypeOK
    <2>. QED BY <1>1, <1>7, <2>1 DEF AllocTypeOK, List
  <1>9. AllocTypeOK' BY <1>1, <1>7, <1>8 DEF AllocTypeOK, Room
  <1>10. \A c \in live' : /\ c \in live /\ c.at \in Nat /\ Room(c) \in Nat
                          /\ Apart(x, BytesOf(k), c.at, Room(c)) /\ c.at # x
    <2>. SUFFICES ASSUME NEW c \in live'
                  PROVE  /\ c \in live /\ c.at \in Nat /\ Room(c) \in Nat
                         /\ Apart(x, BytesOf(k), c.at, Room(c)) /\ c.at # x
      OBVIOUS
    <2>1. c \in live /\ c # b BY <1>7
    <2>2. c.at \in Nat /\ Room(c) \in Nat /\ 1 <= Room(c) BY <1>1, <2>1 DEF AllocTypeOK, Room
    <2>3. Apart(x, BytesOf(k), c.at, Room(c)) BY <1>1, <1>3, <1>5, <2>1 DEF LiveInv
    <2>4. c.at # x BY <1>1, <2>2, <2>3 DEF Apart
    <2>. QED BY <2>1, <2>2, <2>3, <2>4
  <1>11. LiveInv'
    <2>1. \A c \in live' : c.at \in DOMAIN heads' /\ heads'[c.at] = c.class /\ c.at + Room(c) <= Mapped'
      BY <1>1, <1>7, <1>10 DEF LiveInv
    <2>2. \A c, d \in live' : c # d => Apart(c.at, Room(c), d.at, Room(d))
      BY <1>1, <1>10 DEF LiveInv
    <2>. QED BY <2>1, <2>2 DEF LiveInv, Room, Apart
  <1>12. ArenaInv' BY <1>1, <1>8, <1>10 DEF ArenaInv, Apart, Room
  (* Each block in a list was in it, or is the one freed.                   *)
  <1>13. ASSUME NEW u \in Threads, NEW l \in ClassNumbers, NEW i \in 1..Len(List(u, l)')
         PROVE  \/ u = t /\ l = k /\ i = 1 /\ List(u, l)'[i] = x
                \/ \E m \in 1..Len(List(u, l)) :
                      /\ List(u, l)'[i] = List(u, l)[m] /\ (u = t /\ l = k => m = i - 1)
                      /\ (u # t \/ l # k => m = i)
    <2>1. CASE u = t /\ l = k BY <1>4, <1>6, <1>8, <1>13, <2>1
    <2>2. CASE u # t \/ l # k BY <1>8, <1>13, <2>2
    <2>. QED BY <2>1, <2>2
  (* What is so of the block freed, towards everything else.                *)
  <1>14. /\ x + BytesOf(k) <= Mapped
         /\ \A c \in live' : Apart(x, BytesOf(k), c.at, Room(c))
         /\ \A v \in Threads : Apart(x, BytesOf(k), pools[v].arena, pools[v].left)
         /\ \A v \in Threads : \A o \in ClassNumbers : \A j \in 1..Len(List(v, o)) :
                /\ Apart(x, BytesOf(k), List(v, o)[j], BytesOf(o))
                /\ Apart(List(v, o)[j], BytesOf(o), x, BytesOf(k))
    <2>1. x + BytesOf(k) <= Mapped BY <1>1, <1>3, <1>5 DEF LiveInv
    <2>2. \A v \in Threads : Apart(x, BytesOf(k), pools[v].arena, pools[v].left)
      <3>1. \A v \in Threads : Apart(pools[v].arena, pools[v].left, x, BytesOf(k))
        BY <1>1, <1>3, <1>5 DEF ArenaInv
      <3>. QED BY <3>1 DEF Apart
    <2>3. \A v \in Threads : \A o \in ClassNumbers : \A j \in 1..Len(List(v, o)) :
             Apart(List(v, o)[j], BytesOf(o), x, BytesOf(k))
      BY <1>1, <1>3, <1>5 DEF FreeInv
    <2>. QED BY <1>10, <2>1, <2>2, <2>3 DEF Apart
  <1>15. ASSUME NEW u \in Threads, NEW l \in ClassNumbers, NEW i \in 1..Len(List(u, l)')
         PROVE  /\ List(u, l)'[i] + BytesOf(l) <= Mapped
                /\ \A c \in live' : Apart(List(u, l)'[i], BytesOf(l), c.at, Room(c))
                /\ \A v \in Threads : Apart(List(u, l)'[i], BytesOf(l), pools[v].arena, pools[v].left)
                /\ \A v \in Threads : \A o \in ClassNumbers : \A j \in 1..Len(List(v, o)') :
                      (u = v /\ l = o /\ i = j)
                      \/ Apart(List(u, l)'[i], BytesOf(l), List(v, o)'[j], BytesOf(o))
    <2>1. CASE u = t /\ l = k /\ i = 1 /\ List(u, l)'[i] = x
      <3>1. ASSUME NEW v \in Threads, NEW o \in ClassNumbers, NEW j \in 1..Len(List(v, o)')
            PROVE  (u = v /\ l = o /\ i = j) \/ Apart(x, BytesOf(k), List(v, o)'[j], BytesOf(o))
        <4>1. \/ v = t /\ o = k /\ j = 1 /\ List(v, o)'[j] = x
              \/ \E m \in 1..Len(List(v, o)) :
                    /\ List(v, o)'[j] = List(v, o)[m] /\ (v = t /\ o = k => m = j - 1)
                    /\ (v # t \/ o # k => m = j)
          BY <1>13
        <4>2. CASE v = t /\ o = k /\ j = 1 /\ List(v, o)'[j] = x BY <2>1, <4>2
        <4>3. ASSUME NEW m \in 1..Len(List(v, o)), List(v, o)'[j] = List(v, o)[m]
              PROVE  Apart(x, BytesOf(k), List(v, o)'[j], BytesOf(o))
          BY <1>14, <4>3
        <4>. QED BY <4>1, <4>2, <4>3
      <3>2. /\ List(u, l)'[i] + BytesOf(l) <= Mapped
            /\ \A c \in live' : Apart(List(u, l)'[i], BytesOf(l), c.at, Room(c))
            /\ \A v \in Threads : Apart(List(u, l)'[i], BytesOf(l), pools[v].arena, pools[v].left)
        BY <1>14, <2>1
      <3>. QED BY <2>1, <3>1, <3>2
    <2>2. ASSUME NEW m \in 1..Len(List(u, l)),
                 List(u, l)'[i] = List(u, l)[m], u = t /\ l = k => m = i - 1, u # t \/ l # k => m = i
          PROVE  /\ List(u, l)'[i] + BytesOf(l) <= Mapped
                 /\ \A c \in live' : Apart(List(u, l)'[i], BytesOf(l), c.at, Room(c))
                 /\ \A v \in Threads : Apart(List(u, l)'[i], BytesOf(l), pools[v].arena, pools[v].left)
                 /\ \A v \in Threads : \A o \in ClassNumbers : \A j \in 1..Len(List(v, o)') :
                       (u = v /\ l = o /\ i = j)
                       \/ Apart(List(u, l)'[i], BytesOf(l), List(v, o)'[j], BytesOf(o))
      <3>1. /\ List(u, l)[m] + BytesOf(l) <= Mapped
            /\ \A c \in live' : Apart(List(u, l)[m], BytesOf(l), c.at, Room(c))
            /\ \A v \in Threads : Apart(List(u, l)[m], BytesOf(l), pools[v].arena, pools[v].left)
        BY <1>1, <1>10 DEF FreeInv
      <3>2. ASSUME NEW v \in Threads, NEW o \in ClassNumbers, NEW j \in 1..Len(List(v, o)')
            PROVE  (u = v /\ l = o /\ i = j) \/ Apart(List(u, l)[m], BytesOf(l), List(v, o)'[j], BytesOf(o))
        <4>1. \/ v = t /\ o = k /\ j = 1 /\ List(v, o)'[j] = x
              \/ \E w \in 1..Len(List(v, o)) :
                    /\ List(v, o)'[j] = List(v, o)[w] /\ (v = t /\ o = k => w = j - 1)
                    /\ (v # t \/ o # k => w = j)
          BY <1>13
        <4>2. CASE v = t /\ o = k /\ j = 1 /\ List(v, o)'[j] = x BY <1>14, <4>2
        <4>3. ASSUME NEW w \in 1..Len(List(v, o)), List(v, o)'[j] = List(v, o)[w],
                     v = t /\ o = k => w = j - 1, v # t \/ o # k => w = j
              PROVE  (u = v /\ l = o /\ i = j) \/ Apart(List(u, l)[m], BytesOf(l), List(v, o)'[j], BytesOf(o))
          <5>1. (u = v /\ l = o /\ m = w) \/ Apart(List(u, l)[m], BytesOf(l), List(v, o)[w], BytesOf(o))
            BY <1>1 DEF FreeInv
          <5>2. u = v /\ l = o /\ m = w => i = j BY <1>6, <1>8, <2>2, <4>3
          <5>. QED BY <4>3, <5>1, <5>2
        <4>. QED BY <4>1, <4>2, <4>3
      <3>3. /\ List(u, l)'[i] + BytesOf(l) <= Mapped
            /\ \A c \in live' : Apart(List(u, l)'[i], BytesOf(l), c.at, Room(c))
            /\ \A v \in Threads : Apart(List(u, l)'[i], BytesOf(l), pools[v].arena, pools[v].left)
        BY <2>2, <3>1
      <3>4. \A v \in Threads : \A o \in ClassNumbers : \A j \in 1..Len(List(v, o)') :
               (u = v /\ l = o /\ i = j)
               \/ Apart(List(u, l)'[i], BytesOf(l), List(v, o)'[j], BytesOf(o))
        BY <2>2, <3>2
      <3>. QED BY <3>3, <3>4
    <2>3. CASE \E m \in 1..Len(List(u, l)) :
                  /\ List(u, l)'[i] = List(u, l)[m] /\ (u = t /\ l = k => m = i - 1)
                  /\ (u # t \/ l # k => m = i)
      <3>1. PICK m \in 1..Len(List(u, l)) :
                  /\ List(u, l)'[i] = List(u, l)[m] /\ (u = t /\ l = k => m = i - 1)
                  /\ (u # t \/ l # k => m = i)
        BY <2>3
      <3>2. (u = t /\ l = k => m = i - 1) /\ (u # t \/ l # k => m = i) BY <3>1
      <3>. QED BY <2>2, <3>1, <3>2
    <2>4. \/ u = t /\ l = k /\ i = 1 /\ List(u, l)'[i] = x
          \/ \E m \in 1..Len(List(u, l)) :
                /\ List(u, l)'[i] = List(u, l)[m] /\ (u = t /\ l = k => m = i - 1)
                /\ (u # t \/ l # k => m = i)
      BY <1>13
    <2>. QED BY <2>1, <2>3, <2>4
  <1>16. FreeInv'
    <2>1. ASSUME NEW u \in Threads, NEW l \in ClassNumbers, NEW i \in 1..Len(List(u, l)')
          PROVE  /\ List(u, l)'[i] + BytesOf(l) <= Mapped'
                 /\ \A c \in live' : Apart(List(u, l)'[i], BytesOf(l), c.at, Room(c))
                 /\ \A v \in Threads : Apart(List(u, l)'[i], BytesOf(l), pools'[v].arena, pools'[v].left)
                 /\ \A v \in Threads : \A o \in ClassNumbers : \A j \in 1..Len(List(v, o)') :
                       (u = v /\ l = o /\ i = j)
                       \/ Apart(List(u, l)'[i], BytesOf(l), List(v, o)'[j], BytesOf(o))
      <3>1. /\ List(u, l)'[i] + BytesOf(l) <= Mapped'
            /\ \A c \in live' : Apart(List(u, l)'[i], BytesOf(l), c.at, Room(c))
        BY <1>1, <1>15
      <3>2. \A v \in Threads : Apart(List(u, l)'[i], BytesOf(l), pools'[v].arena, pools'[v].left)
        BY <1>8, <1>15
      <3>. QED BY <1>15, <3>1, <3>2
    <2>. QED BY <2>1 DEF FreeInv, Apart, Room
  <1>. QED BY <1>9, <1>11, <1>12, <1>16 DEF AllocInv

(* The invariant holds throughout.                                          *)
LEMMA AllocInductive == AllocSpec => []AllocInv
  <1>1. AllocInv /\ [AllocNext]_allocVars => AllocInv'
    <2>. SUFFICES ASSUME AllocInv, [AllocNext]_allocVars PROVE AllocInv' OBVIOUS
    <2>1. CASE AllocNext BY <2>1, AllocHolds, FreeHolds DEF AllocNext
    <2>2. CASE UNCHANGED allocVars
      BY <2>2 DEF allocVars, AllocInv, AllocTypeOK, LiveInv, ArenaInv, FreeInv, List, Mapped
    <2>. QED BY <2>1, <2>2
  <1>. QED BY <1>1, AllocStarts, PTL DEF AllocSpec

(* What the invariant says of blocks, for the bytes in them.                *)
LEMMA Disjoint ==
  ASSUME AllocInv
  PROVE  BlocksApart
  <1>1. /\ AllocTypeOK /\ LiveInv /\ FreeInv
        /\ \A c \in ClassNumbers : BytesOf(c) \in Nat /\ 1 <= BytesOf(c)
    BY Rooms DEF AllocInv
  <1>2. ASSUME NEW b \in live
        PROVE  /\ b.at \in Nat /\ Room(b) \in Nat
               /\ \A y \in Payload(b) : y \in Int /\ b.at + 1 <= y /\ y < b.at + Room(b)
               /\ \A y \in Header(b) : y = b.at /\ y \in Int /\ y < b.at + Room(b)
    <2>1. PICK x \in Nat : x = b.at BY <1>1 DEF AllocTypeOK
    <2>2. PICK size \in Nat : size = b.size BY <1>1 DEF AllocTypeOK
    <2>3. PICK room \in Nat : room = Room(b) BY <1>1 DEF AllocTypeOK, Room
    <2>4. size + 1 <= room BY <1>1, <2>2, <2>3 DEF AllocTypeOK, HeaderSize
    <2>5. Payload(b) = (x + 1)..(x + 1 + size - 1) /\ Header(b) = x..(x + 1 - 1)
      BY <2>1, <2>2 DEF Payload, Header, HeaderSize
    <2>6. \A y \in Payload(b) : y \in Int /\ x + 1 <= y /\ y < x + room BY <2>4, <2>5
    <2>7. \A y \in Header(b) : y = x /\ y \in Int /\ y < x + room BY <2>4, <2>5
    <2>. QED BY <2>1, <2>3, <2>6, <2>7
  <1>3. \A b \in live : \A y \in Payload(b) \cup Header(b) : y \in Int /\ b.at <= y /\ y < b.at + Room(b)
    BY <1>2
  <1>4. ASSUME NEW b \in live, NEW c \in live, b # c
        PROVE  (Payload(b) \cup Header(b)) \cap (Payload(c) \cup Header(c)) = {}
    <2>1. Apart(b.at, Room(b), c.at, Room(c)) BY <1>1, <1>4 DEF LiveInv
    <2>2. b.at \in Nat /\ Room(b) \in Nat /\ c.at \in Nat /\ Room(c) \in Nat BY <1>2
    <2>3. \A y \in Payload(b) \cup Header(b) : y \notin Payload(c) \cup Header(c)
      BY <1>3, <2>1, <2>2 DEF Apart
    <2>. QED BY <2>3
  <1>5. ASSUME NEW b \in live PROVE Payload(b) \cap Header(b) = {}
    <2>1. b.at \in Nat /\ \A y \in Payload(b) : y \in Int /\ b.at + 1 <= y BY <1>2
    <2>2. \A y \in Header(b) : y = b.at BY <1>2
    <2>. QED BY <2>1, <2>2
  <1>6. ASSUME NEW t \in Threads, NEW k \in ClassNumbers, NEW i \in DOMAIN pools[t].free[k]
        PROVE  \A b \in live : (Payload(b) \cup Header(b))
                                  \cap (List(t, k)[i]..(List(t, k)[i] + BytesOf(k) - 1)) = {}
    <2>1. List(t, k) \in Seq(Nat) /\ i \in 1..Len(List(t, k)) BY <1>1, <1>6 DEF AllocTypeOK, List
    <2>2. PICK x \in Nat : x = List(t, k)[i] BY <2>1, ElementOfSeq
    <2>3. PICK room \in Nat : room = BytesOf(k) BY <1>1
    <2>4. ASSUME NEW b \in live, NEW y \in Payload(b) \cup Header(b) PROVE y \notin x..(x + room - 1)
      <3>1. Apart(x, room, b.at, Room(b)) BY <1>1, <2>1, <2>2, <2>3 DEF FreeInv
      <3>2. y \in Int /\ b.at <= y /\ y < b.at + Room(b) BY <1>3, <2>4
      <3>3. b.at \in Nat /\ Room(b) \in Nat BY <1>2
      <3>. QED BY <3>1, <3>2, <3>3 DEF Apart
    <2>. QED BY <2>2, <2>3, <2>4
  <1>7. \A b, c \in live : Payload(b) \cap Header(c) = {} BY <1>4, <1>5
  <1>8. \A b, c \in live : b # c => Payload(b) \cap Payload(c) = {} /\ Header(b) \cap Header(c) = {}
    BY <1>4
  <1>. QED BY <1>6, <1>7, <1>8 DEF BlocksApart, List

(* Nobody's memory overlaps another's, a header or a block that waits to be *)
(* used again, whichever threads carve and free (fast_alloc.cpp, alloc_hook *)
(* and free_hook): for any threads, sizes and number of chunks.             *)
THEOREM BlocksNeverOverlap == AllocSpec => []BlocksApart
  BY AllocInductive, Disjoint, PTL
-----------------------------------------------------------------------------
(* The grid's paths (Pathfinding).                                          *)
PathTypeOK ==
    /\ pool \in [1..PoolSize -> [InUse : BOOLEAN, SearchComplete : BOOLEAN, of : Nat]]
    /\ requests \subseteq [id : Nat, at : 1..PoolSize, immediate : BOOLEAN]
    /\ made \in Nat

(* A path is in use when a request has it, and no other request has it.     *)
HasPath(at) == \E r \in requests : r.at = at
PathInv ==
    /\ PathTypeOK
    /\ \A r, q \in requests : r.at = q.at => r = q
    /\ \A at \in 1..PoolSize : pool[at].InUse <=> HasPath(at)

(* No path is in use at first.                                              *)
LEMMA PathStarts == ASSUME PathInit PROVE PathInv
  <1>1. /\ pool = [at \in 1..PoolSize |-> [InUse |-> FALSE, SearchComplete |-> FALSE, of |-> 0]]
        /\ requests = {} /\ made = 0
    BY DEF PathInit
  <1>. QED BY <1>1 DEF PathInv, PathTypeOK, HasPath

(* A search, by the engine or by a script, says that a path is complete.    *)
LEMMA SearchHolds ==
  ASSUME PathInv, NEW at, pool' = [pool EXCEPT ![at].SearchComplete = TRUE], UNCHANGED <<requests, made>>
  PROVE  PathInv'
  <1>1. PathTypeOK BY DEF PathInv
  <1>2. /\ pool' \in [1..PoolSize -> [InUse : BOOLEAN, SearchComplete : BOOLEAN, of : Nat]]
        /\ \A b \in 1..PoolSize : pool'[b].InUse = pool[b].InUse
    BY <1>1 DEF PathTypeOK
  <1>. QED BY <1>1, <1>2 DEF PathInv, PathTypeOK, HasPath

(* A request gets a path that no request has.                               *)
LEMMA BeginHolds ==
  ASSUME PathInv, NEW immediate \in BOOLEAN, BeginPathfinding(immediate)
  PROVE  PathInv'
  <1>1. PathTypeOK BY DEF PathInv
  <1>2. PICK at \in 1..PoolSize :
           /\ ~pool[at].InUse
           /\ pool' = [pool EXCEPT ![at] = [InUse |-> TRUE, SearchComplete |-> FALSE, of |-> made + 1]]
           /\ requests' = requests \cup {[id |-> made + 1, at |-> at, immediate |-> immediate]}
    BY <1>1 DEF BeginPathfinding, FirstFree, PathTypeOK
  <1>3. PICK new : new = [id |-> made + 1, at |-> at, immediate |-> immediate] OBVIOUS
  <1>4. /\ requests' = requests \cup {new} /\ new.at = at
        /\ new \in [id : Nat, at : 1..PoolSize, immediate : BOOLEAN]
        /\ \A r \in requests : r.at # at
    BY <1>1, <1>2, <1>3 DEF PathInv, PathTypeOK, HasPath
  <1>5. /\ pool' \in [1..PoolSize -> [InUse : BOOLEAN, SearchComplete : BOOLEAN, of : Nat]]
        /\ pool'[at].InUse /\ \A b \in 1..PoolSize : b # at => pool'[b] = pool[b]
    BY <1>1, <1>2 DEF PathTypeOK
  <1>6. PathTypeOK' BY <1>1, <1>4, <1>5 DEF PathTypeOK, BeginPathfinding
  <1>7. \A r, q \in requests' : r.at = q.at => r = q BY <1>4 DEF PathInv
  <1>8. \A b \in 1..PoolSize : pool'[b].InUse <=> \E r \in requests' : r.at = b
    BY <1>4, <1>5 DEF PathInv, HasPath
  <1>. QED BY <1>6, <1>7, <1>8 DEF PathInv, HasPath

(* Paths are freed, and the requests that have them are gone.               *)
LEMMA ReleaseHolds ==
  ASSUME PathInv, NEW released, made' = made,
         pool' = [at \in DOMAIN pool |-> IF at \in released THEN Freed(pool, at)[at] ELSE pool[at]],
         requests' = {r \in requests : r.at \notin released}
  PROVE  PathInv'
  <1>1. PathTypeOK /\ DOMAIN pool = 1..PoolSize BY DEF PathInv, PathTypeOK
  <1>2. /\ pool' \in [1..PoolSize -> [InUse : BOOLEAN, SearchComplete : BOOLEAN, of : Nat]]
        /\ \A at \in 1..PoolSize : IF at \in released THEN ~pool'[at].InUse ELSE pool'[at] = pool[at]
    BY <1>1 DEF PathTypeOK, Freed
  <1>3. \A at \in 1..PoolSize : pool'[at].InUse <=> \E r \in requests' : r.at = at
    BY <1>2 DEF PathInv, HasPath
  <1>. QED BY <1>1, <1>2, <1>3 DEF PathInv, PathTypeOK, HasPath

(* Every step keeps the invariant.                                          *)
LEMMA PathStep == ASSUME PathInv, [PathNext]_pathVars PROVE PathInv'
  <1>1. DOMAIN pool = 1..PoolSize BY DEF PathInv, PathTypeOK
  <1>2. CASE EngineSearches BY <1>2, SearchHolds DEF EngineSearches
  <1>3. ASSUME NEW immediate \in BOOLEAN, BeginPathfinding(immediate) PROVE PathInv'
    BY <1>3, BeginHolds
  <1>4. ASSUME NEW at \in 1..PoolSize, FindPath(at) PROVE PathInv' BY <1>4, SearchHolds DEF FindPath
  <1>5. ASSUME NEW at \in 1..PoolSize, ReleasePath(at) PROVE PathInv'
    <2>1. /\ pool' = [b \in DOMAIN pool |-> IF b \in {at} THEN Freed(pool, b)[b] ELSE pool[b]]
          /\ requests' = {r \in requests : r.at \notin {at}} /\ made' = made
      BY <1>1, <1>5 DEF ReleasePath, Freed
    <2>. QED BY <2>1, ReleaseHolds
  <1>6. CASE PathfindingUpdate
    <2>. DEFINE Ended(r) == r.immediate \/ pool[r.at].SearchComplete
                released == {r.at : r \in {q \in requests : Ended(q)}}
    <2>1. /\ pool' = [at \in DOMAIN pool |-> IF at \in released THEN Freed(pool, at)[at] ELSE pool[at]]
          /\ requests' = {r \in requests : ~Ended(r)} /\ made' = made
      BY <1>6 DEF PathfindingUpdate
    <2>2. \A r \in requests : r.at \in released <=> Ended(r) BY DEF PathInv
    <2>3. requests' = {r \in requests : r.at \notin released} BY <2>1, <2>2
    <2>. QED BY <2>1, <2>3, ReleaseHolds
  <1>7. CASE CallPathCallback \/ PathCallbackReturns \/ UNCHANGED pathVars
    BY <1>7 DEF CallPathCallback, PathCallbackReturns, pathVars, PathInv, PathTypeOK, HasPath
  <1>. QED BY <1>2, <1>3, <1>4, <1>5, <1>6, <1>7 DEF PathNext

(* A path of the pool is in use exactly when one request has it, for a pool *)
(* of any size and any requests, searches and releases, also those made     *)
(* from callbacks (path_request, path_release and PathfindingUpdate of the  *)
(* prelude, src/src/lua_host.cpp; bg3le_ai_path_create).                    *)
THEOREM PathsNeverShared == PathSpec => []OneRequestPerPath
  <1>1. PathInv => OneRequestPerPath
    <2>. SUFFICES ASSUME PathInv, NEW at \in DOMAIN pool
                  PROVE  Cardinality({r \in requests : r.at = at}) = IF pool[at].InUse THEN 1 ELSE 0
      BY DEF OneRequestPerPath
    <2>1. at \in 1..PoolSize BY DEF PathInv, PathTypeOK
    <2>2. CASE pool[at].InUse
      <3>1. PICK r \in requests : r.at = at BY <2>1, <2>2 DEF PathInv, HasPath
      <3>2. {q \in requests : q.at = at} = {r} BY <3>1 DEF PathInv
      <3>. QED BY <2>2, <3>2, FS_Singleton
    <2>3. CASE ~pool[at].InUse
      <3>1. {q \in requests : q.at = at} = {} BY <2>1, <2>3 DEF PathInv, HasPath
      <3>. QED BY <2>3, <3>1, FS_EmptySet
    <2>. QED BY <2>2, <2>3
  <1>. QED BY <1>1, PathStarts, PathStep, PTL DEF PathSpec

-----------------------------------------------------------------------------
(* A set of positions has a greatest one, which is its Max.                 *)
LEMMA Greatest ==
  ASSUME NEW n \in Nat, NEW T \in SUBSET (1..n), T # {}
  PROVE  Max(T) \in T /\ \A y \in T : y <= Max(T)
  <1>. DEFINE U == {n - y : y \in T}
  <1>1. U \in SUBSET Nat /\ U # {}
    <2>1. \A y \in T : y \in 1..n OBVIOUS
    <2>2. \A y \in 1..n : n - y \in Nat OBVIOUS
    <2>. QED BY <2>1, <2>2
  <1>2. PICK u \in U : \A y \in U : u <= y BY <1>1, Least
  <1>3. PICK x \in T : u = n - x OBVIOUS
  <1>4. \A y \in T : x >= y
    <2>. SUFFICES ASSUME NEW y \in T PROVE x >= y OBVIOUS
    <2>1. n - y \in U OBVIOUS
    <2>2. n - x <= n - y BY <1>2, <1>3, <2>1
    <2>. QED BY <2>2
  <1>. HIDE DEF U
  <1>5. \E z \in T : \A y \in T : z >= y BY <1>4
  <1>6. Max(T) \in T /\ \A y \in T : Max(T) >= y BY <1>5, Zenon DEF Max
  <1>. QED BY <1>6

-----------------------------------------------------------------------------
(* UserVars: what a client will hold of a variable when its queue was       *)
(* applied is what the server holds, unless the server has yet to send it.  *)
Values   == VarValues \cup {NoVar}
Payloads == {[from |-> p, values |-> f] : p \in Places,
             f \in UNION {[D -> Values] : D \in SUBSET Variables}}
VarsTypeOK ==
    /\ stores \in [Places -> [Variables -> Values]]
    /\ dirty \in [Places -> SUBSET ((Owners \cup {All}) \X VarKeys)]
    /\ inbox \in [Places -> Seq(Payloads)]
    /\ forgets \in Nat

(* i is the place of the last payload of a queue that carries v.             *)
Carries(box, i, v) == v \in DOMAIN box[i].values
LastOf(box, i, v) ==
    /\ i \in DOMAIN box /\ Carries(box, i, v)
    /\ \A j \in DOMAIN box : Carries(box, j, v) => j <= i

(* What v will be where it is `held` and `box` has yet to be applied.        *)
WillBe(box, held, v, x) ==
    \/ held = x /\ \A i \in DOMAIN box : ~Carries(box, i, v)
    \/ \E i \in DOMAIN box : LastOf(box, i, v) /\ box[i].values[v] = x

(* A variable that the server alone writes.                                  *)
ServersOwn(v) == Options[v[2]].SyncToClient /\ v \notin changed
ClientsSilent(v) ==
    /\ \A p \in Clients : v \notin dirty[p] /\ <<All, v[2]>> \notin dirty[p]
    /\ \A i \in DOMAIN inbox["Server"] : ~Carries(inbox["Server"], i, v)
InStep(v) ==
    \A p \in Clients : v \in dirty["Server"] \/ WillBe(inbox[p], stores[p][v], v, stores["Server"][v])

VarsInv ==
    /\ VarsTypeOK
    /\ \A p \in Clients : \A i \in DOMAIN inbox[p] : inbox[p][i].from = "Server"
    /\ forgets = 0 => \A v \in Variables : ServersOwn(v) => ClientsSilent(v) /\ InStep(v)

(* Nothing is dirty or on its way, and every value is nil.                   *)
LEMMA VarsStart == ASSUME VarsInit PROVE VarsInv
  <1>1. /\ stores \in [Places -> [Variables -> Values]] /\ inbox \in [Places -> Seq(Payloads)]
        /\ dirty \in [Places -> SUBSET ((Owners \cup {All}) \X VarKeys)]
    BY DEF VarsInit, Values
  <1>2. \A p \in Places : DOMAIN inbox[p] = {} BY DEF VarsInit
  <1>3. "Server" \in Places /\ Clients \subseteq Places BY DEF Places
  <1>4. \A v \in Variables, p \in Places : stores[p][v] = NoVar /\ dirty[p] = {} BY DEF VarsInit
  <1>. QED BY <1>1, <1>2, <1>3, <1>4
           DEF VarsInit, VarsInv, VarsTypeOK, ClientsSilent, InStep, WillBe

(* A payload more at the end of a queue.                                     *)
LEMMA Posting ==
  ASSUME NEW box \in Seq(Payloads), NEW m \in Payloads
  PROVE  LET r == Append(box, m)
             n == Len(box)
         IN  /\ r \in Seq(Payloads) /\ n \in Nat /\ DOMAIN r = 1..(n + 1) /\ DOMAIN box = 1..n
             /\ \A i \in 1..n : r[i] = box[i]
             /\ r[n + 1] = m
  BY AppendProperties, LenProperties

(* It changes nothing for a variable that it does not carry ...              *)
LEMMA PostedOther ==
  ASSUME NEW box \in Seq(Payloads), NEW m \in Payloads, NEW v, v \notin DOMAIN m.values
  PROVE  /\ (\A i \in DOMAIN box : ~Carries(box, i, v))
               => \A i \in DOMAIN Append(box, m) : ~Carries(Append(box, m), i, v)
         /\ \A h, x : WillBe(box, h, v, x) => WillBe(Append(box, m), h, v, x)
  <1>. DEFINE r == Append(box, m)
              n == Len(box)
  <1>1. /\ r \in Seq(Payloads) /\ n \in Nat /\ DOMAIN r = 1..(n + 1) /\ DOMAIN box = 1..n
        /\ \A i \in 1..n : r[i] = box[i]
        /\ r[n + 1] = m
    BY Posting
  <1>. HIDE DEF r, n
  <1>2. \A i \in DOMAIN r : Carries(r, i, v) => i \in DOMAIN box /\ Carries(box, i, v)
    BY <1>1 DEF Carries
  <1>3. ASSUME NEW h, NEW x, WillBe(box, h, v, x) PROVE WillBe(r, h, v, x)
    <2>1. CASE h = x /\ \A i \in DOMAIN box : ~Carries(box, i, v)
      BY <1>2, <2>1 DEF WillBe
    <2>2. ASSUME NEW i \in DOMAIN box, LastOf(box, i, v), box[i].values[v] = x
          PROVE  WillBe(r, h, v, x)
      <3>1. i \in DOMAIN r /\ r[i] = box[i] BY <1>1
      <3>2. LastOf(r, i, v) BY <1>2, <2>2, <3>1 DEF LastOf, Carries
      <3>. QED BY <2>2, <3>1, <3>2 DEF WillBe
    <2>. QED BY <1>3, <2>1, <2>2 DEF WillBe
  <1>. QED BY <1>2, <1>3 DEF r

(* ... and is the last for one that it does.                                 *)
LEMMA PostedOwn ==
  ASSUME NEW box \in Seq(Payloads), NEW m \in Payloads, NEW v, NEW h, v \in DOMAIN m.values
  PROVE  WillBe(Append(box, m), h, v, m.values[v])
  <1>. DEFINE r == Append(box, m)
              n == Len(box)
  <1>1. n \in Nat /\ DOMAIN r = 1..(n + 1) /\ r[n + 1] = m BY Posting
  <1>. HIDE DEF r, n
  <1>2. n + 1 \in DOMAIN r /\ \A j \in DOMAIN r : j <= n + 1 BY <1>1
  <1>3. LastOf(r, n + 1, v) BY <1>1, <1>2 DEF LastOf, Carries
  <1>4. WillBe(r, h, v, m.values[v]) BY <1>1, <1>2, <1>3 DEF WillBe
  <1>. QED BY <1>4 DEF r

(* What is sent is typed.                                                    *)
LEMMA Sending ==
  ASSUME NEW p \in Places, NEW T \in SUBSET Variables, NEW f \in [T -> Values]
  PROVE  [from |-> p, values |-> f] \in Payloads
  <1>1. f \in UNION {[D -> Values] : D \in SUBSET Variables} OBVIOUS
  <1>. QED BY <1>1 DEF Payloads

(* After p marked or sent: the queues of the receivers have a payload more   *)
(* of what was taken, the rest is marked still, and a client sends nothing   *)
(* that it has not marked.                                                   *)
Sent(p, marks, values, boxes) ==
    /\ dirty' \in [Places -> SUBSET ((Owners \cup {All}) \X VarKeys)]
    /\ inbox' \in [Places -> Seq(Payloads)]
    /\ dirty'[p] \subseteq marks /\ \A q \in Places \ {p} : dirty'[q] = dirty[q]
    /\ (\A q \in Clients : \A i \in DOMAIN boxes[q] : boxes[q][i].from = "Server")
          => (\A q \in Clients : \A i \in DOMAIN inbox'[q] : inbox'[q][i].from = "Server")
    /\ p \in Clients => \A q \in Clients : inbox'[q] = boxes[q]
    /\ p = "Server" => inbox'["Server"] = boxes["Server"]
    /\ \A v \in Variables :
          /\ v \notin marks /\ <<All, v[2]>> \notin marks
          /\ \A i \in DOMAIN boxes["Server"] : ~Carries(boxes["Server"], i, v)
          => \A i \in DOMAIN inbox'["Server"] : ~Carries(inbox'["Server"], i, v)
    /\ p = "Server" => \A v \in Variables, q \in Clients : \A h :
          /\ Options[v[2]].SyncToClient
          /\ v \in marks \/ WillBe(boxes[q], h, v, values[v])
          => v \in dirty'[p] \/ WillBe(inbox'[q], h, v, values[v])

(* A mark alone.                                                             *)
LEMMA MarkSends ==
  ASSUME VarsTypeOK, NEW p \in Places, NEW marks \in SUBSET ((Owners \cup {All}) \X VarKeys),
         NEW values, dirty' = [dirty EXCEPT ![p] = marks], inbox' = inbox
  PROVE  Sent(p, marks, values, inbox)
  BY DEF VarsTypeOK, Sent

(* flush: what is marked and syncs goes, with or without a tick.             *)
LEMMA FlushSends ==
  ASSUME VarsTypeOK, NEW p \in Places, NEW keys \in SUBSET VarKeys, NEW onTick \in BOOLEAN,
         NEW marks \in SUBSET ((Owners \cup {All}) \X VarKeys),
         NEW values \in [Variables -> Values], NEW boxes \in [Places -> Seq(Payloads)],
         Flush(p, keys, marks, values, boxes, onTick)
  PROVE  Sent(p, marks, values, boxes)
  <1>. DEFINE T == Taken(p, keys, marks, values, onTick)
              f == [v \in T |-> values[v]]
              m == [from |-> p, values |-> f]
  <1>1. T \in SUBSET Variables /\ \A v \in T : v \in marks \/ <<All, v[2]>> \in marks
    BY DEF Taken
  <1>2. /\ dirty' = [dirty EXCEPT ![p] = Kept(p, keys, marks, onTick)]
        /\ inbox' = IF T = {} THEN boxes
                    ELSE [q \in Places |-> IF q \in Receivers(p) THEN Append(boxes[q], m)
                                                                 ELSE boxes[q]]
    BY DEF Flush
  <1>3. /\ m \in Payloads /\ m.from = p /\ DOMAIN m.values = T
        /\ \A v \in T : m.values[v] = values[v]
    <2>. HIDE DEF T
    <2>1. f \in [T -> Values] BY <1>1
    <2>2. DOMAIN f = T /\ \A v \in T : f[v] = values[v] OBVIOUS
    <2>. HIDE DEF f
    <2>3. m \in Payloads BY <1>1, <2>1, Sending
    <2>. QED BY <2>2, <2>3
  <1>4. ASSUME p = "Server", NEW v \in Variables, Options[v[2]].SyncToClient, v \in marks
        PROVE  v \in T \/ v \in Kept(p, keys, marks, onTick)
    <2>1. CASE v[2] \notin keys BY <1>4, <2>1 DEF Kept
    <2>2. CASE onTick /\ ~Syncs(p, v[2], onTick) BY <1>4, <2>2 DEF Kept
    <2>3. CASE v[2] \in keys /\ ~onTick BY <1>4, <2>3 DEF Taken, Syncs
    <2>4. CASE v[2] \in keys /\ Syncs(p, v[2], onTick) BY <1>4, <2>4 DEF Taken
    <2>. QED BY <2>1, <2>2, <2>3, <2>4
  <1>5. Kept(p, keys, marks, onTick) \subseteq marks BY DEF Kept
  <1>6. "Server" \in Places /\ Clients \subseteq Places /\ "Server" \notin Clients
        /\ Places = {"Server"} \cup Clients
    BY DEF Places, Clients
  <1>7. Receivers(p) = IF p = "Server" THEN Clients ELSE {"Server"} BY DEF Receivers
  <1>. HIDE DEF T, f, m
  <1>8. dirty' \in [Places -> SUBSET ((Owners \cup {All}) \X VarKeys)] BY <1>2, <1>5 DEF VarsTypeOK
  <1>9. dirty'[p] = Kept(p, keys, marks, onTick) /\ \A q \in Places \ {p} : dirty'[q] = dirty[q]
    BY <1>2 DEF VarsTypeOK
  <1>10. ASSUME NEW q \in Places
         PROVE  /\ inbox'[q] = boxes[q] \/ (q \in Receivers(p) /\ inbox'[q] = Append(boxes[q], m))
                /\ q \notin Receivers(p) => inbox'[q] = boxes[q]
                /\ q \in Receivers(p) /\ T # {} => inbox'[q] = Append(boxes[q], m)
                /\ Append(boxes[q], m) \in Seq(Payloads) /\ boxes[q] \in Seq(Payloads)
    <2>1. boxes[q] \in Seq(Payloads) OBVIOUS
    <2>2. Append(boxes[q], m) \in Seq(Payloads) BY <1>3, <2>1, AppendProperties
    <2>3. CASE T = {} BY <1>2, <2>1, <2>2, <2>3
    <2>4. CASE T # {} BY <1>2, <2>1, <2>2, <2>4
    <2>. QED BY <2>3, <2>4
  <1>11. inbox' \in [Places -> Seq(Payloads)]
    <2>1. CASE T = {} BY <1>2, <2>1
    <2>2. CASE T # {} BY <1>2, <1>10, <2>2
    <2>. QED BY <2>1, <2>2
  <1>12. ASSUME \A q \in Clients : \A i \in DOMAIN boxes[q] : boxes[q][i].from = "Server",
                NEW q \in Clients, NEW i \in DOMAIN inbox'[q]
         PROVE  inbox'[q][i].from = "Server"
    <2>1. CASE inbox'[q] = boxes[q] BY <1>12, <2>1
    <2>2. CASE q \in Receivers(p) /\ inbox'[q] = Append(boxes[q], m)
      <3>1. p = "Server" BY <1>6, <1>7, <2>2
      <3>2. boxes[q] \in Seq(Payloads) BY <1>6, <1>10
      <3>3. \/ i \in DOMAIN boxes[q] /\ inbox'[q][i] = boxes[q][i]
            \/ inbox'[q][i] = m
        <4>. DEFINE r == Append(boxes[q], m)
                    n == Len(boxes[q])
        <4>1. /\ n \in Nat /\ DOMAIN r = 1..(n + 1) /\ DOMAIN boxes[q] = 1..n
              /\ (\A j \in 1..n : r[j] = boxes[q][j]) /\ r[n + 1] = m
          BY <1>3, <3>2, Posting
        <4>2. i \in 1..(n + 1) /\ inbox'[q][i] = r[i] BY <2>2, <4>1
        <4>. HIDE DEF n, r
        <4>. QED BY <4>1, <4>2
      <3>. QED BY <1>3, <1>12, <3>1, <3>3
    <2>. QED BY <1>6, <1>10, <2>1, <2>2
  <1>13. ASSUME NEW v \in Variables, v \notin marks, <<All, v[2]>> \notin marks,
                \A i \in DOMAIN boxes["Server"] : ~Carries(boxes["Server"], i, v)
         PROVE  \A i \in DOMAIN inbox'["Server"] : ~Carries(inbox'["Server"], i, v)
    <2>1. v \notin DOMAIN m.values BY <1>1, <1>3, <1>13
    <2>2. boxes["Server"] \in Seq(Payloads)
          /\ inbox'["Server"] \in {boxes["Server"], Append(boxes["Server"], m)}
      BY <1>6, <1>10
    <2>3. \A i \in DOMAIN Append(boxes["Server"], m) : ~Carries(Append(boxes["Server"], m), i, v)
      BY <1>3, <1>13, <2>1, <2>2, PostedOther
    <2>. QED BY <1>13, <2>2, <2>3
  <1>14. ASSUME p = "Server", NEW v \in Variables, NEW q \in Clients, Options[v[2]].SyncToClient,
                NEW h, v \in marks \/ WillBe(boxes[q], h, v, values[v])
         PROVE  v \in dirty'[p] \/ WillBe(inbox'[q], h, v, values[v])
    <2>1. q \in Places /\ q \in Receivers(p) BY <1>6, <1>7, <1>14
    <2>2. boxes[q] \in Seq(Payloads) BY <2>1
    <2>3. CASE v \in T
      <3>1. inbox'[q] = Append(boxes[q], m) BY <1>10, <2>1, <2>3
      <3>2. m.values[v] = values[v] /\ v \in DOMAIN m.values BY <1>3, <2>3
      <3>3. WillBe(Append(boxes[q], m), h, v, m.values[v]) BY <1>3, <2>2, <3>2, PostedOwn
      <3>. QED BY <3>1, <3>2, <3>3
    <2>4. CASE v \notin T
      <3>1. v \in dirty'[p] \/ WillBe(boxes[q], h, v, values[v]) BY <1>4, <1>9, <1>14, <2>4
      <3>2. v \notin DOMAIN m.values BY <1>3, <2>4
      <3>3. \A x : WillBe(boxes[q], h, v, x) => WillBe(Append(boxes[q], m), h, v, x)
        BY <1>3, <2>2, <3>2, PostedOther
      <3>4. inbox'[q] \in {boxes[q], Append(boxes[q], m)} BY <1>10, <2>1
      <3>. QED BY <3>1, <3>3, <3>4
    <2>. QED BY <2>3, <2>4
  <1>15. dirty'[p] \subseteq marks BY <1>5, <1>9
  <1>16. p \in Clients => \A q \in Clients : inbox'[q] = boxes[q] BY <1>6, <1>7, <1>10
  <1>17. p = "Server" => inbox'["Server"] = boxes["Server"] BY <1>6, <1>7, <1>10
  <1>. QED BY <1>8, <1>9, <1>11, <1>12, <1>13, <1>14, <1>15, <1>16, <1>17 DEF Sent

(* What must hold of the values, marks and queues that p sends from.         *)
LEMMA SentHolds ==
  ASSUME VarsInv, NEW p \in Places, NEW marks \in SUBSET ((Owners \cup {All}) \X VarKeys),
         NEW values \in [Variables -> Values], NEW boxes \in [Places -> Seq(Payloads)],
         Sent(p, marks, values, boxes), stores' = [stores EXCEPT ![p] = values],
         forgets' = forgets,
         \A q \in Clients : \A i \in DOMAIN boxes[q] : boxes[q][i].from = "Server",
         forgets = 0 => \A v \in Variables : ServersOwn(v)' =>
            /\ ServersOwn(v)
            /\ p \in Clients => v \notin marks /\ <<All, v[2]>> \notin marks
            /\ \A i \in DOMAIN boxes["Server"] : ~Carries(boxes["Server"], i, v)
            /\ \A q \in Clients :
                  \/ v \in IF p = "Server" THEN marks ELSE dirty["Server"]
                  \/ WillBe(boxes[q], stores'[q][v], v, stores'["Server"][v])
  PROVE  VarsInv'
  <1>1. VarsTypeOK BY DEF VarsInv
  <1>2. "Server" \in Places /\ Clients \subseteq Places /\ "Server" \notin Clients
        /\ Places = {"Server"} \cup Clients
    BY DEF Places, Clients
  <1>3. VarsTypeOK' BY <1>1 DEF VarsTypeOK, Sent
  <1>4. \A q \in Clients : \A i \in DOMAIN inbox'[q] : inbox'[q][i].from = "Server" BY DEF Sent
  <1>5. ASSUME forgets = 0, NEW v \in Variables, ServersOwn(v)'
        PROVE  ClientsSilent(v)' /\ InStep(v)'
    <2>1. /\ ServersOwn(v) /\ ClientsSilent(v)
          /\ p \in Clients => v \notin marks /\ <<All, v[2]>> \notin marks
          /\ \A i \in DOMAIN boxes["Server"] : ~Carries(boxes["Server"], i, v)
          /\ \A q \in Clients :
                \/ v \in IF p = "Server" THEN marks ELSE dirty["Server"]
                \/ WillBe(boxes[q], stores'[q][v], v, stores'["Server"][v])
      BY <1>5 DEF VarsInv
    <2>2. \A q \in Clients : v \notin dirty'[q] /\ <<All, v[2]>> \notin dirty'[q]
      BY <1>2, <2>1 DEF ClientsSilent, Sent
    <2>3. \A i \in DOMAIN inbox'["Server"] : ~Carries(inbox'["Server"], i, v)
      BY <1>2, <2>1 DEF Sent
    <2>4. ASSUME NEW q \in Clients
          PROVE  v \in dirty'["Server"] \/ WillBe(inbox'[q], stores'[q][v], v, stores'["Server"][v])
      <3>1. CASE p = "Server"
        <4>1. stores'["Server"][v] = values[v] BY <1>1, <3>1 DEF VarsTypeOK
        <4>2. Options[v[2]].SyncToClient BY <2>1 DEF ServersOwn
        <4>. QED BY <2>1, <3>1, <4>1, <4>2 DEF Sent
      <3>2. CASE p \in Clients
        <4>1. inbox'[q] = boxes[q] /\ dirty'["Server"] = dirty["Server"] /\ p # "Server"
          BY <1>2, <3>2 DEF Sent
        <4>. QED BY <2>1, <4>1
      <3>. QED BY <1>2, <3>1, <3>2
    <2>5. ClientsSilent(v)' BY <2>2, <2>3 DEF ClientsSilent, Carries
    <2>6. InStep(v)' BY <2>4 DEF InStep, WillBe, LastOf, Carries
    <2>. QED BY <2>5, <2>6
  <1>6. forgets' = 0 => \A v \in Variables : ServersOwn(v)' => ClientsSilent(v)' /\ InStep(v)'
    BY <1>5
  <1>. QED BY <1>3, <1>4, <1>6 DEF VarsInv

(* A write marks what it writes, and a client's write counts as a change.    *)
LEMMA WriteHolds ==
  ASSUME VarsInv, NEW p \in Places, NEW w \in Variables, NEW value \in Values,
         WriteVariable(p, w, value)
  PROVE  VarsInv'
  <1>. DEFINE marks  == dirty[p] \cup {w}
              values == [stores[p] EXCEPT ![w] = value]
  <1>1. VarsTypeOK BY DEF VarsInv
  <1>2. /\ marks \in SUBSET ((Owners \cup {All}) \X VarKeys) /\ values \in [Variables -> Values]
        /\ inbox \in [Places -> Seq(Payloads)]
    BY <1>1 DEF VarsTypeOK, Variables
  <1>3. /\ stores' = [stores EXCEPT ![p] = values] /\ forgets' = forgets
        /\ changed' = IF p = "Server" THEN changed ELSE changed \cup {w}
    BY DEF WriteVariable
  <1>4. Sent(p, marks, values, inbox)
    <2>1. CASE Options[w[2]].SyncOnWrite
      <3>1. Flush(p, VarKeys, marks, values, inbox, FALSE) BY <2>1 DEF WriteVariable
      <3>. HIDE DEF marks, values
      <3>. QED BY <1>1, <1>2, <3>1, FlushSends
    <2>2. CASE ~Options[w[2]].SyncOnWrite
      <3>1. dirty' = [dirty EXCEPT ![p] = marks] /\ inbox' = inbox BY <2>2 DEF WriteVariable
      <3>. HIDE DEF marks, values
      <3>. QED BY <1>1, <1>2, <3>1, MarkSends
    <2>. QED BY <2>1, <2>2
  <1>5. ASSUME forgets = 0, NEW v \in Variables, ServersOwn(v)'
        PROVE  /\ ServersOwn(v)
               /\ p \in Clients => v \notin marks /\ <<All, v[2]>> \notin marks
               /\ \A i \in DOMAIN inbox["Server"] : ~Carries(inbox["Server"], i, v)
               /\ \A q \in Clients :
                     \/ v \in IF p = "Server" THEN marks ELSE dirty["Server"]
                     \/ WillBe(inbox[q], stores'[q][v], v, stores'["Server"][v])
    <2>1. ServersOwn(v) /\ (p # "Server" => v # w) BY <1>3, <1>5 DEF ServersOwn
    <2>2. ClientsSilent(v) /\ InStep(v) BY <1>5, <2>1 DEF VarsInv
    <2>3. <<All, v[2]>> # w BY UserVarsAssumption DEF Variables
    <2>4. p \in Clients => v \notin marks /\ <<All, v[2]>> \notin marks
      BY <2>1, <2>2, <2>3 DEF ClientsSilent, Clients
    <2>5. ASSUME NEW q \in Clients
          PROVE  \/ v \in IF p = "Server" THEN marks ELSE dirty["Server"]
                 \/ WillBe(inbox[q], stores'[q][v], v, stores'["Server"][v])
      <3>1. v \in dirty["Server"] \/ WillBe(inbox[q], stores[q][v], v, stores["Server"][v])
        BY <2>2 DEF InStep
      <3>2. CASE v = w /\ p = "Server" BY <3>2
      <3>3. CASE v # w
        <4>1. \A r \in Places : stores'[r][v] = stores[r][v] BY <1>1, <1>3, <3>3 DEF VarsTypeOK
        <4>2. stores'[q][v] = stores[q][v] /\ stores'["Server"][v] = stores["Server"][v]
          BY <4>1 DEF Places
        <4>. QED BY <3>1, <4>2
      <3>. QED BY <2>1, <3>2, <3>3
    <2>. QED BY <2>1, <2>2, <2>4, <2>5 DEF ClientsSilent
  <1>6. \A q \in Clients : \A i \in DOMAIN inbox[q] : inbox[q][i].from = "Server" BY DEF VarsInv
  <1>. HIDE DEF marks, values
  <1>. QED BY <1>2, <1>3, <1>4, <1>5, <1>6, SentHolds

(* Marking and sending what is stored.                                       *)
LEMMA StoredSends ==
  ASSUME VarsInv, NEW p \in Places, NEW marks \in SUBSET ((Owners \cup {All}) \X VarKeys),
         dirty[p] \subseteq marks, Sent(p, marks, stores[p], inbox), stores' = stores,
         forgets' = forgets,
         \A v \in Variables : ServersOwn(v)' =>
            /\ ServersOwn(v)
            /\ p \in Clients => marks \cap {v, <<All, v[2]>>} \subseteq dirty[p]
  PROVE  VarsInv'
  <1>1. VarsTypeOK BY DEF VarsInv
  <1>2. stores[p] \in [Variables -> Values] /\ inbox \in [Places -> Seq(Payloads)]
        /\ stores' = [stores EXCEPT ![p] = stores[p]]
    BY <1>1 DEF VarsTypeOK
  <1>3. ASSUME forgets = 0, NEW v \in Variables, ServersOwn(v)'
        PROVE  /\ ServersOwn(v)
               /\ p \in Clients => v \notin marks /\ <<All, v[2]>> \notin marks
               /\ \A i \in DOMAIN inbox["Server"] : ~Carries(inbox["Server"], i, v)
               /\ \A q \in Clients :
                     \/ v \in IF p = "Server" THEN marks ELSE dirty["Server"]
                     \/ WillBe(inbox[q], stores'[q][v], v, stores'["Server"][v])
    <2>1. ServersOwn(v) /\ (p \in Clients => marks \cap {v, <<All, v[2]>>} \subseteq dirty[p])
      BY <1>3
    <2>2. ClientsSilent(v) /\ InStep(v) BY <1>3, <2>1 DEF VarsInv
    <2>3. p \in Clients => v \notin marks /\ <<All, v[2]>> \notin marks
      BY <2>1, <2>2 DEF ClientsSilent
    <2>. QED BY <2>1, <2>2, <2>3 DEF ClientsSilent, InStep
  <1>4. \A q \in Clients : \A i \in DOMAIN inbox[q] : inbox[q][i].from = "Server" BY DEF VarsInv
  <1>. QED BY <1>2, <1>3, <1>4, SentHolds

(* DirtyModVariables and DirtyUserVariables.                                 *)
LEMMA MarkHolds ==
  ASSUME VarsInv, NEW p \in Places, NEW o \in Owners \cup {All}, NEW k \in VarKeys,
         MarkDirty(p, <<o, k>>)
  PROVE  VarsInv'
  <1>. DEFINE mark == <<o, k>>
              marks == dirty[p] \cup {mark}
  <1>1. VarsTypeOK BY DEF VarsInv
  <1>2. /\ marks \in SUBSET ((Owners \cup {All}) \X VarKeys) /\ stores[p] \in [Variables -> Values]
        /\ inbox \in [Places -> Seq(Payloads)]
    BY <1>1 DEF VarsTypeOK
  <1>3. /\ stores' = stores /\ forgets' = forgets
        /\ changed' = IF p = "Server" THEN changed
                      ELSE changed \cup {v \in Variables : mark \in {v, <<All, v[2]>>}}
    BY DEF MarkDirty
  <1>4. \/ Flush(p, VarKeys, marks, stores[p], inbox, FALSE)
        \/ dirty' = [dirty EXCEPT ![p] = marks] /\ inbox' = inbox
    BY <1>1 DEF MarkDirty, VarsTypeOK
  <1>. HIDE DEF marks
  <1>5. Sent(p, marks, stores[p], inbox) BY <1>1, <1>2, <1>4, FlushSends, MarkSends
  <1>6. \A v \in Variables : ServersOwn(v)' =>
            /\ ServersOwn(v)
            /\ p \in Clients => marks \cap {v, <<All, v[2]>>} \subseteq dirty[p]
    BY <1>3 DEF ServersOwn, marks, Clients
  <1>7. dirty[p] \subseteq marks BY DEF marks
  <1>. QED BY <1>2, <1>3, <1>5, <1>6, <1>7, StoredSends

(* SyncModVariables and SyncUserVariables.                                   *)
LEMMA SyncHolds ==
  ASSUME VarsInv, NEW p \in Places, NEW keys \in SUBSET VarKeys, Sync(p, keys)
  PROVE  VarsInv'
  <1>1. VarsTypeOK BY DEF VarsInv
  <1>2. /\ dirty[p] \in SUBSET ((Owners \cup {All}) \X VarKeys) /\ stores[p] \in [Variables -> Values]
        /\ inbox \in [Places -> Seq(Payloads)]
    BY <1>1 DEF VarsTypeOK
  <1>3. /\ stores' = stores /\ forgets' = forgets /\ changed' = changed
        /\ Flush(p, keys, dirty[p], stores[p], inbox, FALSE)
    BY DEF Sync
  <1>4. Sent(p, dirty[p], stores[p], inbox) BY <1>1, <1>2, <1>3, FlushSends
  <1>5. \A v \in Variables : ServersOwn(v)' =>
            /\ ServersOwn(v)
            /\ p \in Clients => dirty[p] \cap {v, <<All, v[2]>>} \subseteq dirty[p]
    BY <1>3 DEF ServersOwn
  <1>. QED BY <1>2, <1>3, <1>4, <1>5, StoredSends

(* What a queue brings of each variable is its last.                         *)
LEMMA AppliedIs ==
  ASSUME VarsTypeOK, NEW p \in Places
  PROVE  /\ Applied(p) \in [Variables -> Values]
         /\ \A v \in Variables : (\A i \in DOMAIN inbox[p] : ~Carries(inbox[p], i, v))
                                  => Applied(p)[v] = stores[p][v]
         /\ \A v \in Variables : \A x :
               /\ \A i \in DOMAIN inbox[p] : Carries(inbox[p], i, v)
                                            => v \in Accepted(p, inbox[p][i])
               /\ WillBe(inbox[p], stores[p][v], v, x)
               => Applied(p)[v] = x
  <1>. DEFINE n == Len(inbox[p])
  <1>1. /\ inbox[p] \in Seq(Payloads) /\ n \in Nat /\ DOMAIN inbox[p] = 1..n
        /\ \A i \in 1..n : inbox[p][i] \in Payloads
    BY LenProperties DEF VarsTypeOK
  <1>. HIDE DEF n
  <1>2. stores[p] \in [Variables -> Values] BY DEF VarsTypeOK
  <1>3. \A m \in Payloads : /\ DOMAIN m.values \subseteq Variables
                             /\ \A v \in DOMAIN m.values : m.values[v] \in Values
    BY DEF Payloads
  <1>4. ASSUME NEW v \in Variables
        PROVE  /\ Bringing(p, v) \subseteq 1..n
               /\ \A i \in Bringing(p, v) : Carries(inbox[p], i, v)
               /\ Bringing(p, v) # {} => /\ Max(Bringing(p, v)) \in Bringing(p, v)
                                         /\ \A j \in Bringing(p, v) : j <= Max(Bringing(p, v))
    <2>1. Bringing(p, v) \subseteq 1..n BY <1>1 DEF Bringing
    <2>2. \A i \in Bringing(p, v) : Carries(inbox[p], i, v) BY DEF Bringing, Accepted, Carries
    <2>. QED BY <1>1, <2>1, <2>2, Greatest
  <1>5. ASSUME NEW v \in Variables
        PROVE  (IF Bringing(p, v) = {} THEN stores[p][v]
                ELSE inbox[p][Max(Bringing(p, v))].values[v]) \in Values
    <2>1. CASE Bringing(p, v) = {} BY <1>2, <2>1
    <2>2. CASE Bringing(p, v) # {}
      <3>1. PICK i \in 1..n : i = Max(Bringing(p, v)) /\ Carries(inbox[p], i, v) BY <1>4, <2>2
      <3>2. inbox[p][i] \in Payloads BY <1>1
      <3>. QED BY <1>3, <2>2, <3>1, <3>2 DEF Carries
    <2>. QED BY <2>1, <2>2
  <1>6. Applied(p) \in [Variables -> Values] BY <1>5 DEF Applied
  <1>7. ASSUME NEW v \in Variables, \A i \in DOMAIN inbox[p] : ~Carries(inbox[p], i, v)
        PROVE  Applied(p)[v] = stores[p][v]
    <2>1. Bringing(p, v) = {} BY <1>1, <1>4, <1>7
    <2>. QED BY <2>1 DEF Applied
  <1>8. ASSUME NEW v \in Variables, NEW x,
               \A i \in DOMAIN inbox[p] : Carries(inbox[p], i, v) => v \in Accepted(p, inbox[p][i]),
               WillBe(inbox[p], stores[p][v], v, x)
        PROVE  Applied(p)[v] = x
    <2>1. CASE stores[p][v] = x /\ \A i \in DOMAIN inbox[p] : ~Carries(inbox[p], i, v)
      BY <1>7, <2>1
    <2>2. ASSUME NEW i \in DOMAIN inbox[p], LastOf(inbox[p], i, v), inbox[p][i].values[v] = x
          PROVE  Applied(p)[v] = x
      <3>1. i \in Bringing(p, v) BY <1>8, <2>2 DEF LastOf, Bringing
      <3>2. Max(Bringing(p, v)) \in Bringing(p, v) /\ i <= Max(Bringing(p, v)) BY <1>4, <3>1
      <3>3. Max(Bringing(p, v)) \in 1..n /\ Max(Bringing(p, v)) <= i
        BY <1>1, <1>4, <2>2, <3>2 DEF LastOf
      <3>4. Max(Bringing(p, v)) = i BY <1>1, <3>2, <3>3
      <3>. QED BY <2>2, <3>1, <3>4 DEF Applied
    <2>. QED BY <1>8, <2>1, <2>2 DEF WillBe
  <1>. QED BY <1>6, <1>7, <1>8

(* A tick applies the queue and sends what is due after it.                  *)
LEMMA TickHolds == ASSUME VarsInv, NEW p \in Places, VarTick(p) PROVE VarsInv'
  <1>. DEFINE boxes == [inbox EXCEPT ![p] = <<>>]
              marks == dirty[p] \cup UNION {Passed(p, inbox[p][i]) : i \in DOMAIN inbox[p]}
              values == Applied(p)
  <1>1. VarsTypeOK BY DEF VarsInv
  <1>2. "Server" \in Places /\ Clients \subseteq Places /\ "Server" \notin Clients
        /\ Places = {"Server"} \cup Clients
    BY DEF Places, Clients
  <1>3. values \in [Variables -> Values] BY <1>1, AppliedIs
  <1>4. <<>> \in Seq(Payloads) /\ DOMAIN <<>> = {} OBVIOUS
  <1>5. /\ boxes \in [Places -> Seq(Payloads)] /\ boxes[p] = <<>>
        /\ \A q \in Places : q # p => boxes[q] = inbox[q]
    BY <1>1, <1>4 DEF VarsTypeOK
  <1>6. marks \in SUBSET ((Owners \cup {All}) \X VarKeys)
    <2>1. dirty[p] \in SUBSET ((Owners \cup {All}) \X VarKeys) BY <1>1 DEF VarsTypeOK
    <2>2. ASSUME NEW i \in DOMAIN inbox[p] PROVE Passed(p, inbox[p][i]) \subseteq Variables
      <3>1. inbox[p] \in Seq(Payloads) BY <1>1 DEF VarsTypeOK
      <3>2. inbox[p][i] \in Payloads BY <3>1
      <3>3. DOMAIN inbox[p][i].values \subseteq Variables BY <3>2 DEF Payloads
      <3>. QED BY <3>3 DEF Passed, Accepted
    <2>3. Variables \subseteq (Owners \cup {All}) \X VarKeys BY DEF Variables
    <2>. QED BY <2>1, <2>2, <2>3
  <1>7. p # "Server" => marks = dirty[p] BY DEF Passed
  <1>8. dirty[p] \subseteq marks OBVIOUS
  <1>9. /\ stores' = [stores EXCEPT ![p] = values] /\ forgets' = forgets /\ changed' = changed
        /\ Flush(p, VarKeys, marks, values, boxes, TRUE)
    BY DEF VarTick
  <1>. HIDE DEF boxes, marks, values
  <1>10. Sent(p, marks, values, boxes) BY <1>1, <1>3, <1>5, <1>6, <1>9, FlushSends
  <1>11. \A q \in Clients : \A i \in DOMAIN boxes[q] : boxes[q][i].from = "Server"
    BY <1>2, <1>4, <1>5 DEF VarsInv
  <1>12. ASSUME forgets = 0, NEW v \in Variables, ServersOwn(v)'
        PROVE  /\ ServersOwn(v)
               /\ p \in Clients => v \notin marks /\ <<All, v[2]>> \notin marks
               /\ \A i \in DOMAIN boxes["Server"] : ~Carries(boxes["Server"], i, v)
               /\ \A q \in Clients :
                     \/ v \in IF p = "Server" THEN marks ELSE dirty["Server"]
                     \/ WillBe(boxes[q], stores'[q][v], v, stores'["Server"][v])
    <2>1. ServersOwn(v) BY <1>9, <1>12 DEF ServersOwn
    <2>2. ClientsSilent(v) /\ InStep(v) BY <1>12, <2>1 DEF VarsInv
    <2>3. p \in Clients => v \notin marks /\ <<All, v[2]>> \notin marks
      BY <1>2, <1>7, <2>2 DEF ClientsSilent
    <2>4. \A i \in DOMAIN boxes["Server"] : ~Carries(boxes["Server"], i, v)
      BY <1>2, <1>4, <1>5, <2>2 DEF ClientsSilent
    <2>5. \A q \in Places : q # p => stores'[q][v] = stores[q][v]
      BY <1>1, <1>9 DEF VarsTypeOK
    <2>6. stores'[p][v] = Applied(p)[v] BY <1>1, <1>9 DEF VarsTypeOK, values
    <2>7. stores'["Server"][v] = stores["Server"][v]
      <3>1. CASE p = "Server"
        <4>1. \A i \in DOMAIN inbox[p] : ~Carries(inbox[p], i, v) BY <2>2, <3>1 DEF ClientsSilent
        <4>. QED BY <1>1, <2>6, <3>1, <4>1, AppliedIs
      <3>2. CASE p # "Server" BY <1>2, <2>5, <3>2
      <3>. QED BY <3>1, <3>2
    <2>8. ASSUME NEW q \in Clients
          PROVE  \/ v \in IF p = "Server" THEN marks ELSE dirty["Server"]
                 \/ WillBe(boxes[q], stores'[q][v], v, stores'["Server"][v])
      <3>1. v \in dirty["Server"] \/ WillBe(inbox[q], stores[q][v], v, stores["Server"][v])
        BY <2>2 DEF InStep
      <3>2. CASE q # p
        <4>1. boxes[q] = inbox[q] /\ stores'[q][v] = stores[q][v] BY <1>2, <1>5, <2>5, <3>2
        <4>. QED BY <1>8, <2>7, <3>1, <4>1
      <3>3. CASE q = p /\ WillBe(inbox[q], stores[q][v], v, stores["Server"][v])
        <4>1. \A i \in DOMAIN inbox[p] : Carries(inbox[p], i, v) => v \in Accepted(p, inbox[p][i])
          <5>1. \A i \in DOMAIN inbox[p] : inbox[p][i].from = "Server" BY <3>3 DEF VarsInv
          <5>. QED BY <2>1, <5>1 DEF Carries, Accepted, Syncs, ServersOwn
        <4>2. Applied(p)[v] = stores["Server"][v] BY <1>1, <3>3, <4>1, AppliedIs
        <4>3. stores'[q][v] = stores'["Server"][v] BY <2>6, <2>7, <3>3, <4>2
        <4>4. boxes[q] = <<>> BY <1>5, <3>3
        <4>. QED BY <1>4, <4>3, <4>4 DEF WillBe
      <3>4. CASE q = p /\ v \in dirty["Server"] BY <1>2, <3>4
      <3>. QED BY <3>1, <3>2, <3>3, <3>4
    <2>. QED BY <2>1, <2>3, <2>4, <2>8
  <1>. QED BY <1>3, <1>5, <1>6, <1>9, <1>10, <1>11, <1>12, SentHolds

(* Every step keeps the invariant.                                           *)
LEMMA VarsHold == ASSUME VarsInv, [VarsNext]_varVars PROVE VarsInv'
  <1>1. CASE UNCHANGED varVars
    BY <1>1 DEF varVars, VarsInv, VarsTypeOK, ServersOwn, ClientsSilent, InStep, WillBe, LastOf,
                Carries
  <1>2. ASSUME NEW p \in Places, Sync(p, ModKeys) \/ Sync(p, VarKeys \ ModKeys) PROVE VarsInv'
    <2>1. PICK keys \in SUBSET VarKeys : Sync(p, keys)
      BY <1>2, UserVarsAssumption
    <2>. QED BY <2>1, SyncHolds
  <1>3. ASSUME NEW p \in Clients, RebuildVars(p) PROVE VarsInv'
    <2>1. VarsTypeOK /\ p \in Places BY DEF VarsInv, Places
    <2>2. forgets' = forgets + 1 /\ inbox' = inbox
          /\ stores' = [stores EXCEPT ![p] = [v \in Variables |-> NoVar]]
          /\ dirty' = [dirty EXCEPT ![p] = {}]
      BY <1>3 DEF RebuildVars
    <2>3. [v \in Variables |-> NoVar] \in [Variables -> Values] BY DEF Values
    <2>4. VarsTypeOK' BY <2>1, <2>2, <2>3 DEF VarsTypeOK
    <2>5. forgets' # 0 BY <2>1, <2>2 DEF VarsTypeOK
    <2>. QED BY <2>2, <2>4, <2>5 DEF VarsInv
  <1>4. ASSUME NEW value \in Values, RestoreVars([v \in Variables |-> value]) PROVE VarsInv'
    <2>1. VarsTypeOK /\ "Server" \in Places BY DEF VarsInv, Places
    <2>2. forgets' = forgets + 1 /\ inbox' = inbox /\ dirty' = dirty
          /\ stores' = [stores EXCEPT !["Server"] = [v \in Variables |-> value]]
      BY <1>4 DEF RestoreVars
    <2>3. [v \in Variables |-> value] \in [Variables -> Values] OBVIOUS
    <2>4. VarsTypeOK' BY <2>1, <2>2, <2>3 DEF VarsTypeOK
    <2>5. forgets' # 0 BY <2>1, <2>2 DEF VarsTypeOK
    <2>. QED BY <2>2, <2>4, <2>5 DEF VarsInv
  <1>. QED BY <1>1, <1>2, <1>3, <1>4, WriteHolds, MarkHolds, TickHolds DEF VarsNext, Values

(* A variable that only the server writes is the same on every client once   *)
(* nothing of it is on its way (take, flush, ApplyVarSync, ApplyNetVars in   *)
(* lua_host.cpp): for any variables and options of theirs, however often it  *)
(* was written, marked, synced by hand, sent with the tick or received.      *)
THEOREM ServersValueArrives == VarsSpec => []ServerValueArrives
  <1>1. ASSUME VarsInv PROVE ServerValueArrives
    <2>. SUFFICES ASSUME NEW v \in Variables, forgets = 0, ServersOwn(v), Quiet(v), NEW p \in Clients
                  PROVE  stores[p][v] = stores["Server"][v]
      BY DEF ServerValueArrives, ServersOwn
    <2>1. v \notin dirty["Server"] /\ \A i \in DOMAIN inbox[p] : ~Carries(inbox[p], i, v)
      BY DEF Quiet, Places, Carries
    <2>2. WillBe(inbox[p], stores[p][v], v, stores["Server"][v])
      BY <1>1, <2>1 DEF VarsInv, InStep
    <2>. QED BY <2>1, <2>2 DEF WillBe, LastOf
  <1>. QED BY <1>1, VarsStart, VarsHold, PTL DEF VarsSpec

-----------------------------------------------------------------------------
(* ModLoading: a file that was run is kept or is running, and the bootstrap *)
(* that runs is the outermost of what is running.                           *)
Required == Mods \X Mods \X Files
Runs == Mods \X Mods \X (Files \cup {Boot})
ModTypeOK ==
    /\ DOMAIN packed \subseteq Mods /\ running \in Seq(Runs)
    /\ required \in [Mods -> SUBSET (Mods \X Files)] /\ ran \in [Required -> Nat]

RunInv == \A t \in Required :
    /\ ran[t] <= 1
    /\ ran[t] = 1 => <<t[2], t[3]>> \in required[t[1]] \/ Contains(running, t)
UuidInv ==
    /\ \A i \in 1..Len(running) : running[i][3] = Boot => i = 1
    /\ IF running # <<>> /\ running[1][3] = Boot THEN moduleUuid = running[1][1]
                                                 ELSE moduleUuid = NoMod
ModInv == ModTypeOK /\ RunInv /\ UuidInv

(* Nothing runs, and nothing was required.                                   *)
LEMMA ModStarts == ASSUME ModInit PROVE ModInv
  <1>1. ModTypeOK
    <2>1. ran \in [Required -> Nat] BY DEF ModInit, Required
    <2>2. required \in [Mods -> SUBSET (Mods \X Files)] BY DEF ModInit
    <2>. QED BY <2>1, <2>2 DEF ModInit, ModTypeOK
  <1>2. RunInv BY DEF ModInit, RunInv, Required
  <1>3. UuidInv BY DEF ModInit, UuidInv
  <1>. QED BY <1>1, <1>2, <1>3 DEF ModInv

(* A bootstrap runs when nothing else does.                                  *)
LEMMA BootHolds == ASSUME ModInv, NEW m \in Mods, LoadModFrom(m) PROVE ModInv'
  <1>1. ModTypeOK /\ running = <<>> BY DEF ModInv, LoadModFrom
  <1>2. DOMAIN packed' \subseteq Mods BY <1>1 DEF LoadModFrom, Restrict, ModTypeOK
  <1>3. UNCHANGED <<required, ran>> BY DEF LoadModFrom
  <1>4. \/ UNCHANGED <<moduleUuid, running>>
        \/ moduleUuid' = m /\ running' = <<<<m, m, Boot>>>>
    BY DEF LoadModFrom
  <1>5. CASE UNCHANGED <<moduleUuid, running>>
    BY <1>2, <1>3, <1>5 DEF ModInv, ModTypeOK, RunInv, UuidInv
  <1>6. CASE moduleUuid' = m /\ running' = <<<<m, m, Boot>>>>
    <2>1. <<m, m, Boot>> \in Runs BY DEF Runs
    <2>2. running' \in Seq(Runs) BY <1>6, <2>1
    <2>3. ModTypeOK' BY <1>1, <1>2, <1>3, <2>2 DEF ModTypeOK
    <2>4. \A t \in Required : ran[t] = 1 => <<t[2], t[3]>> \in required[t[1]]
      BY <1>1 DEF ModInv, RunInv, Contains
    <2>5. RunInv' BY <1>3, <2>4 DEF ModInv, RunInv
    <2>6. Len(running') = 1 /\ running'[1] = <<m, m, Boot>> /\ running' # <<>> BY <1>6
    <2>7. UuidInv' BY <1>6, <2>6 DEF UuidInv
    <2>. QED BY <2>3, <2>5, <2>7 DEF ModInv
  <1>. QED BY <1>4, <1>5, <1>6

(* A bootstrap that returns leaves nothing running.                          *)
LEMMA BootReturnHolds == ASSUME ModInv, NEW ok \in BOOLEAN, BootstrapReturns(ok) PROVE ModInv'
  <1>1. ModTypeOK BY DEF ModInv
  <1>2. /\ Len(running) = 1 /\ running[1][3] = Boot /\ running' = <<>> /\ moduleUuid' = NoMod
        /\ UNCHANGED <<packed, required, ran>>
    BY DEF BootstrapReturns
  <1>3. ModTypeOK' BY <1>1, <1>2 DEF ModTypeOK
  <1>4. \A t \in Required : ~Contains(running, t)
    BY <1>2, ModLoadingAssumption DEF Contains, Required
  <1>5. RunInv' BY <1>2, <1>4 DEF ModInv, RunInv
  <1>6. UuidInv' BY <1>2 DEF UuidInv
  <1>. QED BY <1>3, <1>5, <1>6 DEF ModInv

(* A file that runs once more was not run, or is running.                    *)
LEMMA RequireHolds ==
  ASSUME ModInv, NEW r \in Mods, NEW m \in Mods, NEW f \in Files, NEW named \in BOOLEAN,
         ModRequire(r, m, f, named)
  PROVE  ModInv'
  <1>. DEFINE t == <<r, m, f>>
              n == Len(running)
  <1>1. ModTypeOK BY DEF ModInv
  <1>2. /\ <<m, f>> \notin required[r] /\ running' = Append(running, t)
        /\ ran' = IF Contains(running, t) THEN ran ELSE [ran EXCEPT ![t] = @ + 1]
        /\ UNCHANGED <<packed, moduleUuid, required>>
    BY DEF ModRequire
  <1>3. t \in Required /\ t \in Runs /\ t[1] = r /\ t[2] = m /\ t[3] = f /\ t[3] # Boot
    BY ModLoadingAssumption DEF Required, Runs
  <1>. HIDE DEF t
  <1>4. /\ running' \in Seq(Runs) /\ n \in Nat /\ Len(running') = n + 1 /\ running'[n + 1] = t
        /\ \A i \in 1..n : running'[i] = running[i]
    BY <1>1, <1>2, <1>3, AppendProperties, LenProperties DEF ModTypeOK
  <1>5. \A u : Contains(running', u) <=> Contains(running, u) \/ u = t
    <2>. SUFFICES ASSUME NEW u PROVE Contains(running', u) <=> Contains(running, u) \/ u = t
      OBVIOUS
    <2>. HIDE DEF n
    <2>1. n + 1 \in 1..(n + 1) /\ \A i \in 1..n : i \in 1..(n + 1) BY <1>4
    <2>2. \A i \in 1..(n + 1) : i \in 1..n \/ i = n + 1 BY <1>4
    <2>3. Contains(running, u) <=> \E i \in 1..n : running[i] = u BY DEF Contains, n
    <2>4. Contains(running', u) <=> \E i \in 1..(n + 1) : running'[i] = u BY <1>4 DEF Contains
    <2>. QED BY <1>4, <2>1, <2>2, <2>3, <2>4
  <1>6. ran' \in [Required -> Nat] BY <1>1, <1>2, <1>3 DEF ModTypeOK
  <1>7. ModTypeOK' BY <1>1, <1>2, <1>4, <1>6 DEF ModTypeOK
  <1>8. RunInv'
    <2>. SUFFICES ASSUME NEW u \in Required
                  PROVE  /\ ran'[u] <= 1
                         /\ ran'[u] = 1 => \/ <<u[2], u[3]>> \in required'[u[1]]
                                           \/ Contains(running', u)
      BY DEF RunInv, Contains
    <2>1. ran[u] \in Nat /\ ran[u] <= 1
          /\ (ran[u] = 1 => <<u[2], u[3]>> \in required[u[1]] \/ Contains(running, u))
      BY <1>1 DEF ModInv, RunInv, ModTypeOK
    <2>2. CASE ran' = ran BY <1>2, <1>5, <2>1, <2>2
    <2>3. CASE ~Contains(running, t) /\ ran' = [ran EXCEPT ![t] = @ + 1]
      <3>1. CASE u = t
        <4>1. ran[t] = 0 BY <1>2, <1>3, <2>1, <2>3, <3>1
        <4>2. ran'[t] = 1 BY <1>1, <1>3, <2>3, <4>1 DEF ModTypeOK
        <4>. QED BY <1>5, <3>1, <4>2
      <3>2. CASE u # t
        <4>1. ran'[u] = ran[u] BY <1>1, <2>3, <3>2 DEF ModTypeOK
        <4>. QED BY <1>2, <1>5, <2>1, <4>1
      <3>. QED BY <3>1, <3>2
    <2>. QED BY <1>2, <2>2, <2>3
  <1>9. UuidInv'
    <2>1. \A i \in 1..(n + 1) : i \in 1..n \/ i = n + 1 BY <1>4
    <2>2. \A i \in 1..Len(running') : running'[i][3] = Boot => i = 1
      BY <1>3, <1>4, <2>1 DEF ModInv, UuidInv
    <2>3. running' # <<>> BY <1>4
    <2>4. CASE running = <<>>
      <3>1. running'[1] = t BY <1>4, <2>4
      <3>. QED BY <1>2, <1>3, <2>2, <2>4, <3>1 DEF ModInv, UuidInv
    <2>5. CASE running # <<>>
      <3>1. 1 \in 1..n BY <1>1, <1>4, <2>5, EmptySeq DEF ModTypeOK
      <3>2. running'[1] = running[1] BY <1>4, <3>1
      <3>. QED BY <1>2, <2>2, <2>3, <2>5, <3>2 DEF ModInv, UuidInv
    <2>. QED BY <2>4, <2>5
  <1>. QED BY <1>7, <1>8, <1>9 DEF ModInv

(* The file that returns is kept from then on.                               *)
LEMMA ReturnHolds == ASSUME ModInv, NEW ok \in BOOLEAN, FileReturns(ok) PROVE ModInv'
  <1>. DEFINE n == Len(running)
              top == running[n]
  <1>1. ModTypeOK BY DEF ModInv
  <1>2. /\ running # <<>> /\ top[3] # Boot /\ running' = SubSeq(running, 1, n - 1)
        /\ required' = [required EXCEPT ![top[1]] = @ \cup {<<top[2], top[3]>>}]
        /\ UNCHANGED <<packed, moduleUuid, ran>>
    BY DEF FileReturns, Front, Last
  <1>3. n \in Nat \ {0} /\ n - 1 \in Nat /\ n - 1 <= n BY <1>1, <1>2, EmptySeq, LenProperties DEF ModTypeOK
  <1>4. /\ running' \in Seq(Runs) /\ Len(running') = n - 1
        /\ \A i \in 1..(n - 1) : running'[i] = running[i]
    <2>1. running \in Seq(Runs) /\ \A i \in 1..(n - 1) : running[i] \in Runs
      BY <1>1, <1>3 DEF ModTypeOK
    <2>2. 1 \in Int /\ n - 1 \in Int /\ 1 <= n BY <1>3
    <2>. HIDE DEF n, top
    <2>3. /\ SubSeq(running, 1, n - 1) \in Seq(Runs)
          /\ Len(SubSeq(running, 1, n - 1)) = IF 1 <= n - 1 THEN n - 1 - 1 + 1 ELSE 0
          /\ \A i \in 1..(n - 1 - 1 + 1) : SubSeq(running, 1, n - 1)[i] = running[1 + i - 1]
      BY <1>3, <2>1, <2>2, SubSeqProperties
    <2>4. \A i \in 1..(n - 1) : i \in 1..(n - 1 - 1 + 1) /\ 1 + i - 1 = i BY <1>3
    <2>5. (IF 1 <= n - 1 THEN n - 1 - 1 + 1 ELSE 0) = n - 1 BY <1>3
    <2>. QED BY <1>2, <2>3, <2>4, <2>5
  <1>5. top \in Runs BY <1>1, <1>3 DEF ModTypeOK
  <1>6. top[1] \in Mods /\ top[2] \in Mods /\ top[3] \in Files BY <1>2, <1>5 DEF Runs
  <1>7. \A i \in 1..n : i \in 1..(n - 1) \/ i = n BY <1>3
  <1>. HIDE DEF top
  <1>8. required' \in [Mods -> SUBSET (Mods \X Files)] BY <1>1, <1>2, <1>6 DEF ModTypeOK
  <1>9. ModTypeOK' BY <1>1, <1>2, <1>4, <1>8 DEF ModTypeOK
  <1>10. RunInv'
    <2>. SUFFICES ASSUME NEW u \in Required
                  PROVE  /\ ran'[u] <= 1
                         /\ ran'[u] = 1 => \/ <<u[2], u[3]>> \in required'[u[1]]
                                           \/ Contains(running', u)
      BY DEF RunInv, Contains
    <2>1. ran[u] <= 1
          /\ (ran[u] = 1 => <<u[2], u[3]>> \in required[u[1]] \/ Contains(running, u))
      BY DEF ModInv, RunInv
    <2>2. u[1] \in Mods BY DEF Required
    <2>3. required[u[1]] \subseteq required'[u[1]] BY <1>1, <1>2, <2>2 DEF ModTypeOK
    <2>4. u = top => <<u[2], u[3]>> \in required'[u[1]] BY <1>1, <1>2, <2>2 DEF ModTypeOK
    <2>5. Contains(running, u) => u = top \/ Contains(running', u)
      <3>1. ASSUME Contains(running, u) PROVE u = top \/ Contains(running', u)
        <4>1. PICK i \in 1..n : running[i] = u BY <3>1 DEF Contains
        <4>2. CASE i = n
          <5>1. top = running[n] BY DEF top
          <5>. QED BY <4>1, <4>2, <5>1
        <4>3. CASE i \in 1..(n - 1)
          <5>1. running'[i] = u /\ i \in 1..Len(running') BY <1>4, <4>1, <4>3
          <5>. QED BY <5>1 DEF Contains
        <4>. QED BY <1>7, <4>1, <4>2, <4>3
      <3>. QED BY <3>1
    <2>. QED BY <1>2, <2>1, <2>3, <2>4, <2>5
  <1>11. UuidInv'
    <2>1. \A i \in 1..Len(running') : running'[i][3] = Boot => i = 1
      <3>1. \A i \in 1..(n - 1) : i \in 1..n BY <1>3
      <3>. QED BY <1>4, <3>1 DEF ModInv, UuidInv
    <2>2. CASE n = 1
      <3>1. running' = <<>> BY <1>4, <2>2, EmptySeq
      <3>2. running[1][3] # Boot BY <1>2, <2>2 DEF top
      <3>. QED BY <1>2, <2>1, <3>1, <3>2 DEF ModInv, UuidInv
    <2>3. CASE n # 1
      <3>1. 1 \in 1..(n - 1)
        <4>. HIDE DEF n
        <4>. QED BY <1>3, <2>3
      <3>2. running'[1] = running[1] /\ running' # <<>> BY <1>4, <3>1, EmptySeq
      <3>. QED BY <1>2, <2>1, <3>2 DEF ModInv, UuidInv
    <2>. QED BY <2>2, <2>3
  <1>. QED BY <1>9, <1>10, <1>11 DEF ModInv

(* Every step keeps the invariant; the load order and its caches are none of *)
(* its business.                                                             *)
LEMMA ModsHold == ASSUME ModInv, [ModNext]_modVars PROVE ModInv'
  <1>1. CASE UNCHANGED <<running, required, ran, moduleUuid, packed>>
    BY <1>1 DEF ModInv, ModTypeOK, RunInv, UuidInv
  <1>2. ASSUME LoadModScripts PROVE ModInv'
    <2>1. DOMAIN packed' \subseteq Mods BY <1>2 DEF LoadModScripts, LoadPositions
    <2>2. UNCHANGED <<running, required, ran, moduleUuid>> BY <1>2 DEF LoadModScripts
    <2>. QED BY <2>1, <2>2 DEF ModInv, ModTypeOK, RunInv, UuidInv
  <1>3. CASE UNCHANGED modVars BY <1>1, <1>3 DEF modVars
  <1>4. ASSUME NEW m \in Mods, EngineLoads(m) \/ IsModLoaded(m) PROVE ModInv'
    BY <1>1, <1>4 DEF EngineLoads, IsModLoaded, loadVars
  <1>5. ASSUME NEW s \in Settings, SettingsWritten(s) PROVE ModInv'
    BY <1>1, <1>5 DEF SettingsWritten, loadVars
  <1>. QED BY <1>2, <1>3, <1>4, <1>5, BootHolds, BootReturnHolds, RequireHolds, ReturnHolds
           DEF ModNext

(* A file is run once for the mod that requires it, also after it failed,    *)
(* except inside itself, and ModuleUUID is the mod's while its bootstrap     *)
(* runs and no other time (load_mod_from, mod_require in lua_host.cpp): for  *)
(* any mods and files, in any order, nested to any depth.                    *)
THEOREM ModsLoadOnce == ModSpec => []LoadedOnceAsItself
  <1>1. ASSUME ModInv PROVE LoadedOnceAsItself
    <2>1. ModTypeOK /\ RunInv /\ UuidInv BY <1>1 DEF ModInv
    <2>2. FileRunsOnce BY <2>1 DEF ModTypeOK, RunInv, FileRunsOnce
    <2>3. DOMAIN running = 1..Len(running) /\ Len(running) \in Nat
      BY <2>1, LenProperties DEF ModTypeOK
    <2>4. running # <<>> => 1 \in DOMAIN running BY <2>1, <2>3, EmptySeq DEF ModTypeOK
    <2>5. \A i \in DOMAIN running : running[i][3] = Boot => i = 1 /\ running # <<>>
      BY <2>1, <2>3, EmptySeq DEF UuidInv
    <2>6. (\E i \in DOMAIN running : running[i][3] = Boot)
            <=> (running # <<>> /\ running[1][3] = Boot)
      BY <2>4, <2>5
    <2>7. UuidOnlyInBootstrap BY <2>1, <2>6 DEF UuidInv, UuidOnlyInBootstrap
    <2>. QED BY <2>2, <2>7 DEF LoadedOnceAsItself
  <1>. QED BY <1>1, ModStarts, ModsHold, PTL DEF ModSpec

-----------------------------------------------------------------------------
(* NoesisUi: every command that waits, and the one whose handler ran last,   *)
(* is of the state that is there, and while that is rebuilt there is none.   *)
(* Where the update is hooked, no proxy of a deferred function's generation  *)
(* is of an element that is gone.                                            *)
FiredAs(kind) == [id : Nat, kind : {kind}, state : Nat]
FiredNow == [id : Nat, kind : {"command"}, state : {uiState}]
AnyFired == FiredNow \cup FiredAs("write") \cup FiredAs("event")
Subscription == [id : Nat, active : BOOLEAN]
Bindings(S) == UNION {[D -> Nat] : D \in SUBSET S}

NoesisTypeOK ==
    /\ filed \subseteq Nat /\ lastHandler \in Nat /\ uiState \in Nat
    /\ bound \in Bindings(UiCommands) /\ watched \in Bindings(UiProperties)
    /\ subscribed \in Seq(Subscription)
    /\ writes \in Seq(FiredAs("write")) /\ routed \in Seq(FiredAs("event"))
    /\ relay \in Seq(FiredAs("event"))

NoesisInv ==
    /\ NoesisTypeOK
    /\ commands \in Seq(FiredNow) /\ commandsRan \in Seq(AnyFired)
    /\ inLua = "reset" => commands = <<>> /\ commandsRan = <<>> /\ DOMAIN bound = {}
    /\ hooked /\ inLua = "deferred" => current \cap freed = {}
    /\ ~stray

(* Nothing is bound under the empty sequence.                                *)
LEMMA NothingBound == \A S : <<>> \in Bindings(S) /\ DOMAIN <<>> = {}
  <1>1. TAKE S
  <1>2. <<>> \in [{} -> Nat] /\ DOMAIN <<>> = {} OBVIOUS
  <1>. QED BY <1>2 DEF Bindings

(* One more binding, or one less, are bindings.                              *)
LEMMA BindMore ==
  ASSUME NEW S, NEW f \in Bindings(S), NEW c \in S, NEW n \in Nat
  PROVE  [x \in DOMAIN f \cup {c} |-> IF x = c THEN n ELSE f[x]] \in Bindings(S)
  <1>1. PICK D \in SUBSET S : f \in [D -> Nat] BY DEF Bindings
  <1>2. [x \in DOMAIN f \cup {c} |-> IF x = c THEN n ELSE f[x]] \in [D \cup {c} -> Nat]
    BY <1>1
  <1>3. D \cup {c} \in SUBSET S BY <1>1
  <1>. QED BY <1>2, <1>3 DEF Bindings

(* A binding is taken away.                                                 *)
LEMMA BindLess ==
  ASSUME NEW S, NEW f \in Bindings(S), NEW c
  PROVE  [x \in DOMAIN f \ {c} |-> f[x]] \in Bindings(S)
  <1>1. PICK D \in SUBSET S : f \in [D -> Nat] BY DEF Bindings
  <1>2. [x \in DOMAIN f \ {c} |-> f[x]] \in [D \ {c} -> Nat]
    BY <1>1
  <1>3. D \ {c} \in SUBSET S BY <1>1
  <1>. QED BY <1>2, <1>3 DEF Bindings

(* An element of a sequence, and a subscription that delivers no more.       *)
LEMMA ElementOf == ASSUME NEW S, NEW s \in Seq(S), NEW i \in 1..Len(s) PROVE s[i] \in S
  OBVIOUS
(* A subscription is no longer active.                                      *)
LEMMA Unsubscribed ==
  ASSUME NEW x \in Subscription PROVE [x EXCEPT !.active = FALSE] \in Subscription
  BY DEF Subscription

(* A handler is filed under an id.                                           *)
LEMMA Filing ==
  ASSUME filed \subseteq Nat, lastHandler \in Nat, NEW without, AddHandler(without)
  PROVE  filed' \subseteq Nat /\ lastHandler' \in Nat /\ lastHandler' = lastHandler + 1
  <1>1. /\ lastHandler' = lastHandler + 1
        /\ filed' = (filed \ without) \cup {lastHandler + 1}
    BY DEF AddHandler
  <1>2. lastHandler + 1 \in Nat OBVIOUS
  <1>. QED BY <1>1, <1>2

(* A key of bindings has an id.                                              *)
LEMMA BoundTo ==
  ASSUME NEW S, NEW f \in Bindings(S), NEW c \in DOMAIN f
  PROVE  f[c] \in Nat
  BY DEF Bindings

(* The queues of a state that stays stay its own.                            *)
LEMMA NoesisStarts == ASSUME NoesisInit PROVE NoesisInv
  <1>1. \A S : <<>> \in Seq(S) OBVIOUS
  <1>. QED BY <1>1, NothingBound DEF NoesisInit, NoesisInv, NoesisTypeOK

(* What scripts bind while they run; it is never during a rebuild.           *)
BindingsOK == /\ filed \subseteq Nat /\ lastHandler \in Nat
              /\ bound \in Bindings(UiCommands) /\ watched \in Bindings(UiProperties)
              /\ subscribed \in Seq(Subscription)
Binds == \/ \E c \in UiCommands : SetCommandHandler(c) \/ ClearCommandHandler(c)
         \/ \E has \in BOOLEAN : SubscribeTo(has)
         \/ \E i \in 1..MaxUiSubs : UnsubscribeFrom(i)
         \/ \E p \in UiProperties : RegisterType(p)

(* Binding files numbers.                                                   *)
LEMMA BindingTypes == ASSUME BindingsOK, Binds PROVE BindingsOK'
  <1>1. lastHandler + 1 \in Nat BY DEF BindingsOK
  <1>2. ASSUME NEW c \in UiCommands, SetCommandHandler(c) PROVE BindingsOK'
    <2>1. filed' \subseteq Nat /\ lastHandler' \in Nat
      BY <1>2, Filing DEF SetCommandHandler, BindingsOK
    <2>2. bound' \in Bindings(UiCommands)
      BY <1>1, <1>2, BindMore DEF SetCommandHandler, BindingsOK
    <2>. QED BY <1>2, <2>1, <2>2 DEF SetCommandHandler, BindingsOK
  <1>3. ASSUME NEW c \in UiCommands, ClearCommandHandler(c) PROVE BindingsOK'
    <2>1. bound' \in Bindings(UiCommands)
      BY <1>3, BindLess DEF ClearCommandHandler, BindingsOK
    <2>. QED BY <1>3, <2>1 DEF ClearCommandHandler, BindingsOK
  <1>4. ASSUME NEW has \in BOOLEAN, SubscribeTo(has) PROVE BindingsOK'
    <2>1. CASE has
      <3>1. AddHandler({}) /\ subscribed' = Append(subscribed, [id |-> lastHandler + 1, active |-> TRUE])
        BY <1>4, <2>1 DEF SubscribeTo
      <3>2. filed' \subseteq Nat /\ lastHandler' \in Nat BY <3>1, Filing DEF BindingsOK
      <3>3. [id |-> lastHandler + 1, active |-> TRUE] \in Subscription BY <1>1 DEF Subscription
      <3>4. subscribed' \in Seq(Subscription)
        BY <3>1, <3>3 DEF BindingsOK
      <3>. QED BY <1>4, <3>2, <3>4 DEF SubscribeTo, BindingsOK
    <2>2. CASE ~has
      BY <1>1, <1>4, <2>2 DEF SubscribeTo, BindingsOK
    <2>. QED BY <2>1, <2>2
  <1>5. ASSUME NEW i \in 1..MaxUiSubs, UnsubscribeFrom(i) PROVE BindingsOK'
    <2>1. i \in 1..Len(subscribed) /\ subscribed' = [subscribed EXCEPT ![i].active = FALSE]
      BY <1>5 DEF UnsubscribeFrom, BindingsOK
    <2>2. subscribed[i] \in Subscription BY <2>1, ElementOf DEF BindingsOK
    <2>3. [subscribed[i] EXCEPT !.active = FALSE] \in Subscription BY <2>2, Unsubscribed
    <2>4. subscribed' = [subscribed EXCEPT ![i] = [subscribed[i] EXCEPT !.active = FALSE]]
      BY <2>1
    <2>5. subscribed' \in Seq(Subscription)
      BY <2>1, <2>3, <2>4 DEF BindingsOK
    <2>. QED BY <1>5, <2>5 DEF UnsubscribeFrom, BindingsOK
  <1>6. ASSUME NEW p \in UiProperties, RegisterType(p) PROVE BindingsOK'
    <2>1. filed' \subseteq Nat /\ lastHandler' \in Nat
      BY <1>6, Filing DEF RegisterType, BindingsOK
    <2>2. watched' \in Bindings(UiProperties)
      BY <1>1, <1>6, BindMore DEF RegisterType, BindingsOK
    <2>. QED BY <1>6, <2>1, <2>2 DEF RegisterType, BindingsOK
  <1>. QED BY <1>2, <1>3, <1>4, <1>5, <1>6 DEF Binds

(* Lua binds and takes back.                                                *)
LEMMA BindsHold == ASSUME NoesisInv, Binds PROVE NoesisInv'
  <1>1. /\ inLua # "reset"
        /\ UNCHANGED <<queueVars, scopeVars, inLua, hostVars, commandsRan>>
    BY DEF Binds, SetCommandHandler, ClearCommandHandler, SubscribeTo, UnsubscribeFrom,
           RegisterType, Running
  <1>2. BindingsOK' BY BindingTypes DEF BindingsOK, NoesisInv, NoesisTypeOK
  <1>3. NoesisTypeOK' BY <1>1, <1>2 DEF BindingsOK, NoesisInv, NoesisTypeOK, queueVars, hostVars
  <1>4. FiredNow' = FiredNow /\ AnyFired' = AnyFired BY <1>1 DEF FiredNow, AnyFired, hostVars
  <1>. QED BY <1>1, <1>3, <1>4 DEF NoesisInv, queueVars, scopeVars, hostVars

(* What fires on the UI thread waits with the id it is bound to.             *)
LEMMA FiredIs ==
  ASSUME NoesisInv, NEW n \in Nat
  PROVE  /\ Fired(n, "command") \in FiredNow
         /\ Fired(n, "write") \in FiredAs("write")
         /\ Fired(n, "event") \in FiredAs("event")
  BY DEF Fired, FiredNow, FiredAs, NoesisInv, NoesisTypeOK

(* The interface fires.                                                     *)
LEMMA FiringHolds ==
  ASSUME NoesisInv,
         \/ \E c \in UiCommands : CommandFired(c)
         \/ \E p \in UiProperties : PropertyWritten(p)
         \/ \E i \in 1..MaxUiSubs : EventRaised(i)
         \/ EventQueued
  PROVE  NoesisInv'
  <1>1. FiredNow = [id : Nat, kind : {"command"}, state : {uiState}] BY DEF FiredNow
  <1>2. ASSUME NEW c \in UiCommands, CommandFired(c) PROVE NoesisInv'
    <2>1. /\ c \in DOMAIN bound /\ commands' = Append(commands, Fired(bound[c], "command"))
          /\ UNCHANGED <<bindingVars, writes, routed, relay, scopeVars, inLua, hostVars, commandsRan>>
      BY <1>2 DEF CommandFired
    <2>2. Fired(bound[c], "command") \in FiredNow
      BY <2>1, BoundTo, FiredIs DEF NoesisInv, NoesisTypeOK
    <2>3. commands' \in Seq(FiredNow) BY <2>1, <2>2 DEF NoesisInv
    <2>4. FiredNow' = FiredNow /\ AnyFired' = AnyFired BY <2>1 DEF FiredNow, AnyFired, hostVars
    <2>5. NoesisTypeOK' BY <2>1 DEF NoesisInv, NoesisTypeOK, bindingVars, hostVars
    <2>. QED BY <2>1, <2>3, <2>4, <2>5 DEF NoesisInv, bindingVars, scopeVars, hostVars
  <1>3. ASSUME NEW p \in UiProperties, PropertyWritten(p) PROVE NoesisInv'
    <2>1. /\ p \in DOMAIN watched /\ writes' = Append(writes, Fired(watched[p], "write"))
          /\ UNCHANGED <<bindingVars, commands, routed, relay, scopeVars, inLua, hostVars, commandsRan>>
      BY <1>3 DEF PropertyWritten
    <2>2. Fired(watched[p], "write") \in FiredAs("write")
      BY <2>1, BoundTo, FiredIs DEF NoesisInv, NoesisTypeOK
    <2>3. writes' \in Seq(FiredAs("write")) BY <2>1, <2>2 DEF NoesisInv, NoesisTypeOK
    <2>4. FiredNow' = FiredNow /\ AnyFired' = AnyFired BY <2>1 DEF FiredNow, AnyFired, hostVars
    <2>5. NoesisTypeOK' BY <2>1, <2>3 DEF NoesisInv, NoesisTypeOK, bindingVars, hostVars
    <2>. QED BY <2>1, <2>4, <2>5 DEF NoesisInv, bindingVars, scopeVars, hostVars
  <1>4. ASSUME NEW i \in 1..MaxUiSubs, EventRaised(i) PROVE NoesisInv'
    <2>1. /\ i \in DOMAIN subscribed /\ relay' = <<Fired(subscribed[i].id, "event")>>
          /\ UNCHANGED <<bindingVars, commands, writes, routed, scopeVars, inLua, hostVars, commandsRan>>
      BY <1>4 DEF EventRaised
    <2>2. subscribed[i] \in Subscription BY <2>1, ElementOf DEF NoesisInv, NoesisTypeOK
    <2>3. Fired(subscribed[i].id, "event") \in FiredAs("event")
      BY <2>2, FiredIs DEF Subscription
    <2>4. relay' \in Seq(FiredAs("event")) BY <2>1, <2>3
    <2>5. FiredNow' = FiredNow /\ AnyFired' = AnyFired BY <2>1 DEF FiredNow, AnyFired, hostVars
    <2>6. NoesisTypeOK' BY <2>1, <2>4 DEF NoesisInv, NoesisTypeOK, bindingVars, hostVars
    <2>. QED BY <2>1, <2>5, <2>6 DEF NoesisInv, bindingVars, scopeVars, hostVars
  <1>5. ASSUME EventQueued PROVE NoesisInv'
    <2>1. /\ relay # <<>> /\ routed' = Append(routed, Head(relay)) /\ relay' = <<>>
          /\ UNCHANGED <<bindingVars, commands, writes, scopeVars, inLua, hostVars, commandsRan>>
      BY <1>5 DEF EventQueued
    <2>2. Head(relay) \in FiredAs("event") BY <2>1 DEF NoesisInv, NoesisTypeOK
    <2>3. routed' \in Seq(FiredAs("event")) /\ relay' \in Seq(FiredAs("event"))
      BY <2>1, <2>2 DEF NoesisInv, NoesisTypeOK
    <2>5. FiredNow' = FiredNow /\ AnyFired' = AnyFired BY <2>1 DEF FiredNow, AnyFired, hostVars
    <2>6. NoesisTypeOK' BY <2>1, <2>3 DEF NoesisInv, NoesisTypeOK, bindingVars, hostVars
    <2>. QED BY <2>1, <2>5, <2>6 DEF NoesisInv, bindingVars, scopeVars, hostVars
  <1>. QED BY <1>2, <1>3, <1>4, <1>5

(* What is delivered is of this state, or was no command.                    *)
LEMMA CarriedOver ==
  ASSUME NEW e \in AnyFired, Deliver(e)
  PROVE  commandsRan' \in Seq(AnyFired)
  BY DEF Deliver

QueuesOK == /\ commands \in Seq(FiredNow) /\ writes \in Seq(FiredAs("write"))
            /\ routed \in Seq(FiredAs("event")) /\ relay \in Seq(FiredAs("event"))
            /\ commandsRan \in Seq(AnyFired)
Delivers == PumpCommands \/ PumpWrites \/ PumpEvents \/ UiEventNow

(* A turn of the pump's loops, or an event at once, takes the first of its   *)
(* queue.                                                                    *)
LEMMA QueuesKept == ASSUME QueuesOK, Delivers, UNCHANGED uiState PROVE QueuesOK'
  <1>1. FiredNow' = FiredNow /\ AnyFired' = AnyFired BY DEF FiredNow, AnyFired
  <1>2. ASSUME PumpCommands PROVE QueuesOK'
    <2>1. UNCHANGED <<writes, routed, relay>> BY <1>2 DEF PumpCommands
    <2>2. CASE commands = <<>> BY <1>1, <1>2, <2>1, <2>2 DEF PumpCommands, QueuesOK
    <2>3. CASE commands # <<>>
      <3>1. commands' = Tail(commands) /\ Deliver(Head(commands)) BY <1>2, <2>3 DEF PumpCommands
      <3>2. Head(commands) \in FiredNow /\ Tail(commands) \in Seq(FiredNow)
        BY <2>3 DEF QueuesOK
      <3>3. commandsRan' \in Seq(AnyFired) BY <3>1, <3>2, CarriedOver DEF AnyFired
      <3>. QED BY <1>1, <2>1, <3>1, <3>2, <3>3 DEF QueuesOK
    <2>. QED BY <2>2, <2>3
  <1>3. ASSUME PumpWrites PROVE QueuesOK'
    <2>1. UNCHANGED <<commands, routed, relay>> BY <1>3 DEF PumpWrites
    <2>2. CASE writes = <<>> BY <1>1, <1>3, <2>1, <2>2 DEF PumpWrites, QueuesOK
    <2>3. CASE writes # <<>>
      <3>1. writes' = Tail(writes) /\ Deliver(Head(writes)) BY <1>3, <2>3 DEF PumpWrites
      <3>2. Head(writes) \in FiredAs("write") /\ Tail(writes) \in Seq(FiredAs("write"))
        BY <2>3 DEF QueuesOK
      <3>3. commandsRan' \in Seq(AnyFired) BY <3>1, <3>2, CarriedOver DEF AnyFired
      <3>. QED BY <1>1, <2>1, <3>1, <3>2, <3>3 DEF QueuesOK
    <2>. QED BY <2>2, <2>3
  <1>4. ASSUME PumpEvents PROVE QueuesOK'
    <2>1. UNCHANGED <<commands, writes, relay>> BY <1>4 DEF PumpEvents
    <2>2. CASE routed = <<>> BY <1>1, <1>4, <2>1, <2>2 DEF PumpEvents, QueuesOK
    <2>3. CASE routed # <<>>
      <3>1. routed' = Tail(routed) /\ Deliver(Head(routed)) BY <1>4, <2>3 DEF PumpEvents
      <3>2. Head(routed) \in FiredAs("event") /\ Tail(routed) \in Seq(FiredAs("event"))
        BY <2>3 DEF QueuesOK
      <3>3. commandsRan' \in Seq(AnyFired) BY <3>1, <3>2, CarriedOver DEF AnyFired
      <3>. QED BY <1>1, <2>1, <3>1, <3>2, <3>3 DEF QueuesOK
    <2>. QED BY <2>2, <2>3
  <1>5. ASSUME UiEventNow PROVE QueuesOK'
    <2>1. /\ relay # <<>> /\ relay' = <<>> /\ Deliver(Head(relay))
          /\ UNCHANGED <<commands, writes, routed>>
      BY <1>5 DEF UiEventNow
    <2>2. Head(relay) \in FiredAs("event") BY <2>1 DEF QueuesOK
    <2>3. commandsRan' \in Seq(AnyFired) BY <2>1, <2>2, CarriedOver DEF AnyFired
    <2>. QED BY <1>1, <2>1, <2>3 DEF QueuesOK
  <1>. QED BY <1>2, <1>3, <1>4, <1>5 DEF Delivers

(* What was fired is delivered.                                             *)
LEMMA DeliveryHolds == ASSUME NoesisInv, Delivers PROVE NoesisInv'
  <1>1. /\ inLua # "reset" /\ inLua # "deferred" /\ inLua' \notin {"reset", "deferred"}
        /\ UNCHANGED <<bindingVars, scopeVars, hostVars>>
    BY DEF Delivers, PumpCommands, PumpWrites, PumpEvents, UiEventNow
  <1>2. QueuesOK BY DEF QueuesOK, NoesisInv, NoesisTypeOK
  <1>3. QueuesOK' BY <1>1, <1>2, QueuesKept DEF hostVars
  <1>4. NoesisTypeOK' BY <1>1, <1>3 DEF NoesisInv, NoesisTypeOK, QueuesOK, bindingVars, hostVars
  <1>. QED BY <1>1, <1>3, <1>4 DEF NoesisInv, QueuesOK, bindingVars, scopeVars, hostVars

(* Only a live proxy reaches its element: a use of another is refused, or    *)
(* answered from the proxy.                                                  *)
LEMMA OnlyLiveReach == ASSUME NEW e, Reaching(e) # {} PROVE e \in current
  <1>1. SUFFICES ASSUME e \notin current PROVE Reaching(e) = {} OBVIOUS
  <1>2. ~Live(e) BY <1>1 DEF Live
  <1>3. SUFFICES ASSUME NEW how \in {"read", "write", "call", "count", "text"},
                        NEW key \in Keys, NEW collection \in BOOLEAN
                 PROVE  Outcome(e, how, key, collection)
                          \in {"expired", "method", "name", "dead reference"}
    BY DEF Reaching
  <1>4. CASE how = "read" BY <1>2, <1>4 DEF Outcome, ReadKey
  <1>5. CASE how = "write" BY <1>2, <1>5 DEF Outcome, WriteKey
  <1>6. CASE how = "call" BY <1>2, <1>6 DEF Outcome, CallMethod
  <1>7. CASE how = "count" BY <1>2, <1>7 DEF Outcome, Count
  <1>8. CASE how = "text" BY <1>2, <1>8 DEF Outcome, Describe
  <1>. QED BY <1>4, <1>5, <1>6, <1>7, <1>8

(* Proxies, generations and the elements they are of.                        *)
LEMMA ScopesHold ==
  ASSUME NoesisInv,
         \/ \E e \in UiElements : WrapElement(e) \/ FreeElement(e) \/ UseProxy(e)
         \/ Defer \/ ScriptRuns \/ ScriptReturns \/ UiPump \/ UiRunDeferred
         \/ DeferredReturns \/ ClientTicksItself
  PROVE  NoesisInv'
  <1>1. UNCHANGED <<bindingVars, queueVars, uiState, commandsRan, hooked>>
    BY DEF WrapElement, FreeElement, UseProxy, Defer, ScriptRuns, ScriptReturns, UiPump,
           UiRunDeferred, DeferredReturns, ClientTicksItself, hostVars, scopeVars
  <1>2. NoesisTypeOK' /\ FiredNow' = FiredNow /\ AnyFired' = AnyFired
    BY <1>1 DEF NoesisInv, NoesisTypeOK, bindingVars, queueVars, FiredNow, AnyFired
  <1>3. inLua' = "reset" => inLua = "reset"
    BY DEF WrapElement, FreeElement, UseProxy, Defer, ScriptRuns, ScriptReturns, UiPump,
           UiRunDeferred, DeferredReturns, ClientTicksItself, scopeVars
  <1>4. ASSUME NEW e \in UiElements, WrapElement(e) \/ FreeElement(e)
        PROVE  (hooked' /\ inLua' = "deferred" => current' \cap freed' = {}) /\ ~stray'
    BY <1>4 DEF WrapElement, FreeElement, NoesisInv, hostVars
  <1>5. ASSUME NEW e \in UiElements, UseProxy(e)
        PROVE  (hooked' /\ inLua' = "deferred" => current' \cap freed' = {}) /\ ~stray'
    <2>1. e \in current BY <1>5, OnlyLiveReach DEF UseProxy
    <2>. QED BY <1>5, <2>1 DEF UseProxy, NoesisInv, scopeVars
  <1>6. ASSUME Defer \/ ScriptRuns \/ ScriptReturns \/ UiPump \/ UiRunDeferred
                 \/ DeferredReturns \/ ClientTicksItself
        PROVE  (hooked' /\ inLua' = "deferred" => current' \cap freed' = {}) /\ ~stray'
    BY <1>6 DEF Defer, ScriptRuns, ScriptReturns, UiPump, UiRunDeferred, DeferredReturns,
                ClientTicksItself, NoesisInv, scopeVars, hostVars
  <1>7. (hooked' /\ inLua' = "deferred" => current' \cap freed' = {}) /\ ~stray'
    BY <1>4, <1>5, <1>6
  <1>. QED BY <1>1, <1>2, <1>3, <1>7 DEF NoesisInv, bindingVars, queueVars

(* The state is rebuilt.                                                     *)
LEMMA RebuildHolds == ASSUME NoesisInv, UiReset \/ StateRebuilt PROVE NoesisInv'
  <1>1. \A S : <<>> \in Seq(S) OBVIOUS
  <1>2. ASSUME UiReset PROVE NoesisInv'
    <2>1. /\ bound' = <<>> /\ commands' = <<>> /\ routed' = <<>> /\ filed' = {} /\ lastHandler' = 0
          /\ subscribed' = [i \in DOMAIN subscribed |-> [subscribed[i] EXCEPT !.active = FALSE]]
          /\ inLua' = "reset" /\ commandsRan' = <<>> /\ UNCHANGED <<watched, writes, relay, hostVars>>
      BY <1>2 DEF UiReset
    <2>2. subscribed' \in Seq(Subscription)
      <3>1. subscribed \in Seq(Subscription) BY DEF NoesisInv, NoesisTypeOK
      <3>. DEFINE off(i) == [subscribed[i] EXCEPT !.active = FALSE]
      <3>2. ASSUME NEW i \in 1..Len(subscribed) PROVE off(i) \in Subscription
        <4>1. subscribed[i] \in Subscription BY <3>1, ElementOf
        <4>. QED BY <4>1, Unsubscribed
      <3>4. subscribed' = [i \in 1..Len(subscribed) |-> off(i)] BY <2>1, <3>1
      <3>. HIDE DEF off
      <3>3. subscribed' \in [1..Len(subscribed) -> Subscription] BY <3>2, <3>4
      <3>. QED BY <3>1, <3>3
    <2>3. bound' \in Bindings(UiCommands) /\ DOMAIN bound' = {} BY <2>1, NothingBound
    <2>4. NoesisTypeOK' BY <1>1, <2>1, <2>2, <2>3 DEF NoesisInv, NoesisTypeOK, hostVars
    <2>. QED BY <1>1, <2>1, <2>3, <2>4 DEF NoesisInv, hostVars
  <1>3. ASSUME StateRebuilt PROVE NoesisInv'
    <2>1. /\ inLua = "reset" /\ inLua' = "none" /\ uiState' = uiState + 1
          /\ UNCHANGED <<bindingVars, queueVars, scopeVars, hooked, commandsRan, stray>>
      BY <1>3 DEF StateRebuilt
    <2>2. commands' = <<>> /\ commandsRan' = <<>> BY <2>1 DEF NoesisInv, queueVars
    <2>3. NoesisTypeOK' BY <2>1 DEF NoesisInv, NoesisTypeOK, bindingVars, queueVars
    <2>. QED BY <1>1, <2>1, <2>2, <2>3 DEF NoesisInv
  <1>. QED BY <1>2, <1>3

(* Init and the steps together.                                              *)
LEMMA NoesisHolds == NoesisSpec => []NoesisInv
  <1>1. ASSUME NoesisInv, [NoesisNext]_noesisVars PROVE NoesisInv'
    <2>1. CASE UNCHANGED noesisVars
      BY <1>1, <2>1 DEF noesisVars, NoesisInv, NoesisTypeOK, FiredNow, AnyFired
    <2>. QED BY <1>1, <2>1, BindsHold, FiringHolds, DeliveryHolds, ScopesHold, RebuildHolds
             DEF NoesisNext, Binds, Delivers
  <1>. QED BY <1>1, NoesisStarts, PTL DEF NoesisSpec

(* A command runs its handler only in the state that bound it, whatever is   *)
(* bound, fired and rebuilt in between, and where the interface's update is  *)
(* hooked a deferred function reaches no element that was freed              *)
(* (bg3le_ui_reset and bg3le_ui_run_deferred in vendor/bg3le_noesis_lua.inl, *)
(* UiPump and live in lua_host.cpp): for any commands, elements and lengths  *)
(* of the queues, over any resets.                                           *)
THEOREM UiStaysWithItsOwn == NoesisSpec => []UiReachesItsOwn
  <1>1. ASSUME NoesisInv PROVE UiReachesItsOwn
    <2>1. \A i \in DOMAIN commandsRan : commandsRan[i] \in AnyFired BY <1>1 DEF NoesisInv
    <2>2. CommandRunsForItsState
      BY <2>1 DEF CommandRunsForItsState, AnyFired, FiredNow, FiredAs
    <2>. QED BY <1>1, <2>2 DEF NoesisInv, UiReachesItsOwn, DeferredReachesLiveElements
  <1>. QED BY <1>1, NoesisHolds, PTL

-----------------------------------------------------------------------------
(* ImGui.  An id belongs to a widget's handler when it is not filed, or is   *)
(* the one set for the widget; a widget whose object was collected is the    *)
(* exception.  Ids are given out once.                                       *)
IsSetFor(id, h) == id \in callbacks => h \in lost \/ handler[h] = id

(* What fired and what is queued, all of it for the handlers that are set.   *)
GoodDrawn == {e \in [id : Nat, widget : Handles] : e.id <= lastId /\ IsSetFor(e.id, e.widget)}
GoodPosted == {e \in [id : Nat, state : Addresses, widget : Handles] :
                  e.id <= lastId /\ IsSetFor(e.id, e.widget)}
Owned == UNION {[D -> Addresses] : D \in SUBSET Nat}

WidgetsOK ==
    /\ widgetsMade \in 0..MaxWidgets
    /\ DOMAIN widgets \subseteq Handles
    /\ slot \in [DOMAIN widgets -> Nat]
    /\ handler \in [Handles -> Nat]
    /\ lastId \in Nat /\ callbacks \subseteq 1..lastId

ObjectsOK == \A h \in Handles :
    h \in lost \/ handler[h] = IF h \in DOMAIN registered THEN registered[h] ELSE 0

SlotsOK == \A h \in DOMAIN widgets : slot[h] <= lastId /\ IsSetFor(slot[h], h)

ImGuiInv ==
    /\ state \in Addresses /\ owners \in Owned
    /\ WidgetsOK /\ ObjectsOK /\ SlotsOK
    /\ drawn \in Seq(GoodDrawn) /\ posted \in Seq(GoodPosted)

(* The owner of a new id, and of one forgotten.                              *)
LEMMA OwnersOK ==
  ASSUME state \in Addresses, NEW own \in Owned, NEW id \in Nat, NEW ids
  PROVE  WithOwner(own, id) \in Owned /\ WithoutWidget(own, ids) \in Owned
  <1>1. PICK D \in SUBSET Nat : own \in [D -> Addresses] BY DEF Owned
  <1>2. WithOwner(own, id) \in [D \cup {id} -> Addresses] BY <1>1 DEF WithOwner
  <1>3. WithoutWidget(own, ids) \in [D \ ids -> Addresses] BY <1>1 DEF WithoutWidget
  <1>4. D \cup {id} \in SUBSET Nat /\ D \ ids \in SUBSET Nat BY <1>1
  <1>. QED BY <1>2, <1>3, <1>4 DEF Owned

(* What clearing a widget's delegate leaves.                                 *)
LEMMA ClearedOK ==
  ASSUME ImGuiInv, NEW h
  PROVE  /\ Cleared(h).owners \in Owned
         /\ Cleared(h).slot \in [DOMAIN widgets -> Nat]
         /\ \A x \in DOMAIN widgets : Cleared(h).slot[x] = IF x = h THEN 0 ELSE slot[x]
  <1>1. slot \in [DOMAIN widgets -> Nat] /\ owners \in Owned /\ state \in Addresses
    BY DEF ImGuiInv, WidgetsOK
  <1>2. WithoutWidget(owners, {slot[h]}) \in Owned BY <1>1, OwnersOK
  <1>3. CASE h \in DOMAIN widgets BY <1>1, <1>2, <1>3 DEF Cleared
  <1>4. CASE h \notin DOMAIN widgets BY <1>1, <1>4 DEF Cleared
  <1>. QED BY <1>3, <1>4

(* A step that keeps every id where it belongs keeps the queues good.        *)
LEMMA QueuesGood ==
  ASSUME drawn \in Seq(GoodDrawn), posted \in Seq(GoodPosted),
         lastId \in Nat, lastId' \in Nat, lastId <= lastId',
         \A id \in Nat, h \in Handles : id <= lastId /\ IsSetFor(id, h) => IsSetFor(id, h)'
  PROVE  drawn \in Seq(GoodDrawn') /\ posted \in Seq(GoodPosted')
  <1>1. GoodDrawn \subseteq GoodDrawn' BY DEF GoodDrawn
  <1>2. GoodPosted \subseteq GoodPosted' BY DEF GoodPosted
  <1>3. drawn \in [1..Len(drawn) -> GoodDrawn] /\ Len(drawn) \in Nat OBVIOUS
  <1>4. posted \in [1..Len(posted) -> GoodPosted] /\ Len(posted) \in Nat OBVIOUS
  <1>5. drawn \in [1..Len(drawn) -> GoodDrawn'] BY <1>1, <1>3
  <1>6. posted \in [1..Len(posted) -> GoodPosted'] BY <1>2, <1>4
  <1>. QED BY <1>3, <1>4, <1>5, <1>6

(* A widget is made, and its object.                                         *)
LEMMA MakeWidgetOK ==
  ASSUME NEW objects, NEW h, NEW x
  PROVE  (IF x \in DOMAIN MakeWidget(objects, h) THEN MakeWidget(objects, h)[x] ELSE 0)
            = (IF x \in DOMAIN objects THEN objects[x] ELSE 0)
  BY DEF MakeWidget

(* A widget is made.                                                        *)
LEMMA MakeHolds == ASSUME ImGuiInv, NEW parent, Make(parent) PROVE ImGuiInv'
  <1>. DEFINE h == widgetsMade + 1
  <1>1. /\ widgetsMade < MaxWidgets /\ widgetsMade' = h
        /\ widgets' = [x \in DOMAIN widgets \cup {h} |-> IF x = h THEN parent ELSE widgets[x]]
        /\ slot' = [x \in DOMAIN slot \cup {h} |-> IF x = h THEN 0 ELSE slot[x]]
        /\ registered' = MakeWidget(registered, h)
        /\ UNCHANGED <<state, owners, lastId, drawn, posted, callbacks, handler, lost, resets>>
    BY DEF Make
  <1>2. WidgetsOK BY DEF ImGuiInv
  <1>3. h \in Handles /\ h \in 0..MaxWidgets BY <1>1, <1>2, ImGuiAssumption DEF WidgetsOK, Handles
  <1>. HIDE DEF h
  <1>4. DOMAIN widgets' = DOMAIN widgets \cup {h} BY <1>1
  <1>5. slot' \in [DOMAIN widgets' -> Nat] BY <1>1, <1>2, <1>4 DEF WidgetsOK
  <1>6. WidgetsOK' BY <1>1, <1>2, <1>3, <1>4, <1>5 DEF WidgetsOK
  <1>7. ObjectsOK' BY <1>1, MakeWidgetOK DEF ObjectsOK, ImGuiInv
  <1>8. SlotsOK'
    <2>1. SUFFICES ASSUME NEW x \in DOMAIN widgets'
                   PROVE  slot'[x] <= lastId /\ (slot'[x] \in callbacks => x \in lost \/ handler[x] = slot'[x])
      BY <1>1 DEF SlotsOK, IsSetFor
    <2>2. CASE x = h BY <1>1, <1>2, <2>2 DEF WidgetsOK
    <2>3. CASE x # h
      <3>1. x \in DOMAIN widgets /\ slot'[x] = slot[x] BY <1>1, <1>2, <1>4, <2>3 DEF WidgetsOK
      <3>. QED BY <3>1 DEF ImGuiInv, SlotsOK, IsSetFor
    <2>. QED BY <2>2, <2>3
  <1>9. GoodDrawn' = GoodDrawn /\ GoodPosted' = GoodPosted
    BY <1>1 DEF GoodDrawn, GoodPosted, IsSetFor
  <1>. QED BY <1>1, <1>6, <1>7, <1>8, <1>9 DEF ImGuiInv

(* A handler is taken back or set on a widget h: its id, was, is filed no    *)
(* more, and another, id, is new or none.  Everybody else's stays.           *)
LEMMA Rehandled ==
  ASSUME ImGuiInv, NEW h \in Handles, h \in DOMAIN registered, NEW id \in Nat,
         NEW new \in SUBSET {id}, lastId < id,
         callbacks' = (callbacks \ {registered[h]}) \cup new,
         DOMAIN registered' = DOMAIN registered,
         \A x \in DOMAIN registered :
            registered'[x] = IF x # h THEN registered[x] ELSE IF new = {} THEN 0 ELSE id,
         handler' = [handler EXCEPT ![h] = IF new = {} THEN 0 ELSE id],
         lastId' \in Nat, lastId <= lastId', new # {} => id <= lastId',
         UNCHANGED <<widgets, widgetsMade, lost, state, drawn, posted>>,
         owners' \in Owned, slot' \in [DOMAIN widgets -> Nat],
         \A x \in DOMAIN widgets :
            \/ x # h /\ slot'[x] = slot[x]
            \/ x = h /\ slot'[x] = IF new = {} THEN 0 ELSE id
  PROVE  ImGuiInv'
  <1>. DEFINE now == IF new = {} THEN 0 ELSE id
  <1>1. WidgetsOK /\ ObjectsOK /\ SlotsOK BY DEF ImGuiInv
  <1>7. new = {} \/ new = {id} OBVIOUS
  <1>2. now \in Nat /\ now <= lastId' /\ (new = {} \/ new = {id})
    <2>1. CASE new = {} BY <2>1
    <2>2. CASE new = {id}
      <3>1. new # {} BY <2>2
      <3>. QED BY <2>2, <3>1
    <2>. QED BY <1>7, <2>1, <2>2
  <1>3. WidgetsOK'
    <2>3. lastId \in Nat /\ callbacks \subseteq 1..lastId BY <1>1 DEF WidgetsOK
    <2>4. 1..lastId \subseteq 1..lastId' BY <2>3
    <2>5. new \subseteq 1..lastId'
      <3>1. CASE new = {} BY <3>1
      <3>2. CASE new = {id}
        <4>1. new # {} /\ id <= lastId' BY <3>2
        <4>2. id \in 1..lastId' BY <2>3, <4>1
        <4>. QED BY <3>2, <4>2
      <3>. QED BY <1>7, <3>1, <3>2
    <2>1. callbacks' \subseteq 1..lastId' BY <2>3, <2>4, <2>5
    <2>2. handler' \in [Handles -> Nat] BY <1>1, <1>2 DEF WidgetsOK
    <2>. QED BY <1>1, <2>1, <2>2 DEF WidgetsOK
  <1>4. ObjectsOK'
    <2>1. SUFFICES ASSUME NEW x \in Handles, x \notin lost
                   PROVE  handler'[x] = IF x \in DOMAIN registered' THEN registered'[x] ELSE 0
      BY DEF ObjectsOK
    <2>2. handler[x] = IF x \in DOMAIN registered THEN registered[x] ELSE 0
      BY <1>1, <2>1 DEF ObjectsOK
    <2>3. handler'[x] = IF x = h THEN now ELSE handler[x] BY <1>1 DEF WidgetsOK
    <2>. QED BY <2>2, <2>3
  <1>5. ASSUME NEW i \in Nat, NEW x \in Handles, i <= lastId, IsSetFor(i, x)
        PROVE  IsSetFor(i, x)'
    <2>1. SUFFICES ASSUME i \in callbacks', x \notin lost PROVE handler'[x] = i
      BY DEF IsSetFor
    <2>2. i \in callbacks /\ i # registered[h] /\ i # 0
      BY <1>1, <1>2, <1>5, <2>1 DEF WidgetsOK
    <2>3. handler[x] = i BY <1>5, <2>1, <2>2 DEF IsSetFor
    <2>4. x # h BY <1>1, <2>1, <2>2, <2>3 DEF ObjectsOK
    <2>. QED BY <1>1, <2>3, <2>4 DEF WidgetsOK
  <1>6. SlotsOK'
    <2>1. SUFFICES ASSUME NEW x \in DOMAIN widgets
                   PROVE  slot'[x] <= lastId' /\ IsSetFor(slot[x], x)'
      BY DEF SlotsOK
    <2>2. x \in Handles BY <1>1 DEF WidgetsOK
    <2>3. CASE x # h
      <3>1. slot'[x] = slot[x] /\ slot[x] \in Nat /\ slot[x] <= lastId /\ IsSetFor(slot[x], x)
        BY <1>1, <2>3 DEF WidgetsOK, SlotsOK
      <3>2. (slot[x])' = slot[x] /\ lastId \in Nat BY <1>1, <3>1 DEF WidgetsOK
      <3>3. slot'[x] <= lastId' BY <3>1, <3>2
      <3>4. \A i : i = slot[x] => IsSetFor(i, x)' BY <1>5, <2>2, <3>1
      <3>. QED BY <3>1, <3>3, <3>4 DEF IsSetFor
    <2>4. CASE x = h
      <3>1. slot'[x] = now BY <2>4
      <3>2. handler'[x] = now BY <1>1, <2>2, <2>4 DEF WidgetsOK
      <3>. QED BY <1>2, <3>1, <3>2 DEF IsSetFor
    <2>. QED BY <2>3, <2>4
  <1>8. drawn' \in Seq(GoodDrawn') /\ posted' \in Seq(GoodPosted')
    BY <1>1, <1>5, QueuesGood DEF ImGuiInv, WidgetsOK
  <1>. QED BY <1>3, <1>4, <1>6, <1>8 DEF ImGuiInv

(* widget.OnX = function.                                                    *)
LEMMA SetHandlerHolds ==
  ASSUME ImGuiInv, NEW h \in Handles, SetHandler(h) PROVE ImGuiInv'
  <1>. DEFINE was == registered[h]
              left == IF was # 0 THEN Cleared(h) ELSE [slot |-> slot, owners |-> owners]
              id == lastId + 1
  <1>1. /\ h \in DOMAIN registered
        /\ UNCHANGED <<state, widgets, widgetsMade, drawn, posted, lost, resets>>
    BY DEF SetHandler
  <1>2. /\ WidgetsOK /\ owners \in Owned /\ state \in Addresses /\ id \in Nat /\ lastId < id
        /\ lastId \in Nat /\ slot \in [DOMAIN widgets -> Nat]
    BY DEF ImGuiInv, WidgetsOK
  <1>3. CASE h \in DOMAIN widgets
    <2>1. /\ lastId' = id /\ owners' = WithOwner(left.owners, id)
          /\ slot' = [left.slot EXCEPT ![h] = id]
          /\ callbacks' = (callbacks \ {was}) \cup {id}
          /\ registered' = [registered EXCEPT ![h] = id]
          /\ handler' = [handler EXCEPT ![h] = id]
      BY <1>3 DEF SetHandler
    <2>2. /\ left.owners \in Owned /\ left.slot \in [DOMAIN widgets -> Nat]
          /\ \A x \in DOMAIN widgets \ {h} : left.slot[x] = slot[x]
      BY <1>2, ClearedOK
    <2>. HIDE DEF left
    <2>3. owners' \in Owned BY <1>2, <2>1, <2>2, OwnersOK
    <2>4. /\ slot' \in [DOMAIN widgets -> Nat]
          /\ \A x \in DOMAIN widgets : \/ x # h /\ slot'[x] = slot[x]
                                       \/ x = h /\ slot'[x] = id
      BY <1>2, <1>3, <2>1, <2>2
    <2>6. /\ DOMAIN registered' = DOMAIN registered
          /\ \A x \in DOMAIN registered : registered'[x] = IF x # h THEN registered[x] ELSE id
      BY <2>1
    <2>. HIDE DEF id
    <2>5. {id} # {} /\ {id} \in SUBSET {id} /\ id <= lastId' /\ lastId <= lastId' BY <1>2, <2>1
    <2>. QED BY <1>1, <1>2, <2>1, <2>3, <2>4, <2>5, <2>6, Rehandled
  <1>4. CASE h \notin DOMAIN widgets
    <2>1. /\ callbacks' = callbacks \ {was} /\ registered' = [registered EXCEPT ![h] = 0]
          /\ handler' = [handler EXCEPT ![h] = 0] /\ UNCHANGED <<owners, slot, lastId>>
      BY <1>4 DEF SetHandler
    <2>2. \A x \in DOMAIN widgets : x # h /\ slot'[x] = slot[x] BY <1>4, <2>1
    <2>6. /\ DOMAIN registered' = DOMAIN registered
          /\ \A x \in DOMAIN registered : registered'[x] = IF x # h THEN registered[x] ELSE 0
      BY <2>1
    <2>7. lastId <= lastId' /\ lastId' \in Nat BY <1>2, <2>1
    <2>3. {} \in SUBSET {id} /\ callbacks' = (callbacks \ {was}) \cup {} BY <2>1
    <2>. HIDE DEF id
    <2>. QED BY <1>1, <1>2, <2>1, <2>2, <2>3, <2>6, <2>7, Rehandled
  <1>. QED BY <1>3, <1>4

(* widget.OnX = nil.                                                         *)
LEMMA ClearHandlerHolds ==
  ASSUME ImGuiInv, NEW h \in Handles, ClearHandler(h) PROVE ImGuiInv'
  <1>. DEFINE was == registered[h]
              id == lastId + 1
  <1>1. /\ h \in DOMAIN registered /\ handler' = [handler EXCEPT ![h] = 0]
        /\ UNCHANGED <<state, widgets, widgetsMade, drawn, posted, lost, resets>>
    BY DEF ClearHandler
  <1>2. /\ WidgetsOK /\ owners \in Owned /\ state \in Addresses /\ id \in Nat /\ lastId < id
        /\ lastId \in Nat /\ slot \in [DOMAIN widgets -> Nat] /\ 0 \notin callbacks
    BY DEF ImGuiInv, WidgetsOK
  <1>3. {} \in SUBSET {id} OBVIOUS
  <1>4. CASE was # 0
    <2>1. /\ callbacks' = (callbacks \ {was}) \cup {} /\ registered' = [registered EXCEPT ![h] = 0]
          /\ slot' = Cleared(h).slot /\ owners' = Cleared(h).owners /\ UNCHANGED lastId
      BY <1>4 DEF ClearHandler
    <2>2. /\ owners' \in Owned /\ slot' \in [DOMAIN widgets -> Nat]
          /\ \A x \in DOMAIN widgets : \/ x # h /\ slot'[x] = slot[x]
                                       \/ x = h /\ slot'[x] = 0
      BY <2>1, ClearedOK
    <2>3. lastId <= lastId' /\ lastId' \in Nat BY <1>2, <2>1
    <2>4. /\ DOMAIN registered' = DOMAIN registered
          /\ \A x \in DOMAIN registered : registered'[x] = IF x # h THEN registered[x] ELSE 0
      BY <2>1
    <2>. HIDE DEF id
    <2>. QED BY <1>1, <1>2, <1>3, <2>1, <2>2, <2>3, <2>4, Rehandled
  <1>5. CASE was = 0
    <2>1. /\ h \in DOMAIN widgets /\ lastId' = id /\ slot' = [slot EXCEPT ![h] = 0]
          /\ UNCHANGED <<callbacks, registered, owners>>
      BY <1>5 DEF ClearHandler
    <2>2. callbacks' = (callbacks \ {was}) \cup {} BY <1>2, <1>5, <2>1
    <2>4. /\ slot' \in [DOMAIN widgets -> Nat]
          /\ \A x \in DOMAIN widgets : \/ x # h /\ slot'[x] = slot[x]
                                       \/ x = h /\ slot'[x] = 0
      BY <1>2, <2>1
    <2>5. lastId <= lastId' /\ lastId' \in Nat BY <1>2, <2>1
    <2>6. /\ DOMAIN registered' = DOMAIN registered
          /\ \A x \in DOMAIN registered : registered'[x] = IF x # h THEN registered[x] ELSE 0
      BY <1>5, <2>1
    <2>. HIDE DEF id
    <2>. QED BY <1>1, <1>2, <1>3, <2>1, <2>2, <2>4, <2>5, <2>6, Rehandled
  <1>. QED BY <1>4, <1>5

(* A widget is destroyed, with what is below it: the ids of its own object   *)
(* are filed no more, everybody else's stay, fired or queued as they may be. *)
LEMMA DestroyHolds == ASSUME ImGuiInv, NEW h \in Handles, Destroy(h) PROVE ImGuiInv'
  <1>1. PICK gone \in SUBSET DOMAIN widgets :
            /\ h \in DOMAIN registered /\ h \in DOMAIN widgets
            /\ widgets' = WithoutWidget(widgets, gone) /\ slot' = WithoutWidget(slot, gone)
            /\ callbacks' = callbacks \ {registered[h]}
            /\ registered' = WithoutWidget(registered, {h})
            /\ handler' = [handler EXCEPT ![h] = 0]
            /\ UNCHANGED <<state, widgetsMade, owners, lastId, drawn, posted, lost, resets>>
    BY DEF Destroy
  <1>2. WidgetsOK /\ ObjectsOK /\ SlotsOK BY DEF ImGuiInv
  <1>3. /\ DOMAIN widgets' = DOMAIN widgets \ gone /\ slot' \in [DOMAIN widgets' -> Nat]
        /\ \A x \in DOMAIN widgets' : slot'[x] = slot[x]
    BY <1>1, <1>2 DEF WidgetsOK, WithoutWidget
  <1>4. WidgetsOK' BY <1>1, <1>2, <1>3 DEF WidgetsOK
  <1>5. ObjectsOK'
    <2>1. SUFFICES ASSUME NEW x \in Handles, x \notin lost
                   PROVE  handler'[x] = IF x \in DOMAIN registered' THEN registered'[x] ELSE 0
      BY <1>1 DEF ObjectsOK
    <2>2. handler[x] = IF x \in DOMAIN registered THEN registered[x] ELSE 0
      BY <1>2, <2>1 DEF ObjectsOK
    <2>3. handler'[x] = IF x = h THEN 0 ELSE handler[x] BY <1>1, <1>2 DEF WidgetsOK
    <2>4. /\ DOMAIN registered' = DOMAIN registered \ {h}
          /\ \A y \in DOMAIN registered' : registered'[y] = registered[y]
      BY <1>1 DEF WithoutWidget
    <2>. QED BY <2>2, <2>3, <2>4
  <1>6. ASSUME NEW i \in Nat, NEW x \in Handles, i <= lastId, IsSetFor(i, x)
        PROVE  IsSetFor(i, x)'
    <2>1. SUFFICES ASSUME i \in callbacks', x \notin lost PROVE handler'[x] = i
      BY <1>1 DEF IsSetFor
    <2>2. i \in callbacks /\ i # registered[h] BY <1>1, <2>1
    <2>3. handler[x] = i BY <1>6, <2>1, <2>2 DEF IsSetFor
    <2>4. x # h BY <1>1, <1>2, <2>1, <2>2, <2>3 DEF ObjectsOK
    <2>. QED BY <1>1, <1>2, <2>3, <2>4 DEF WidgetsOK
  <1>7. SlotsOK'
    <2>1. SUFFICES ASSUME NEW x \in DOMAIN widgets'
                   PROVE  slot'[x] <= lastId' /\ IsSetFor(slot[x], x)'
      BY DEF SlotsOK
    <2>2. /\ x \in Handles /\ slot'[x] = slot[x] /\ slot[x] \in Nat /\ slot[x] <= lastId
          /\ IsSetFor(slot[x], x)
      BY <1>2, <1>3, <2>1 DEF WidgetsOK, SlotsOK
    <2>3. \A i : i = slot[x] => IsSetFor(i, x)' BY <1>6, <2>2
    <2>. QED BY <1>1, <2>2, <2>3 DEF IsSetFor
  <1>8. drawn' \in Seq(GoodDrawn') /\ posted' \in Seq(GoodPosted')
    BY <1>1, <1>2, <1>6, QueuesGood DEF ImGuiInv, WidgetsOK
  <1>. QED BY <1>1, <1>4, <1>5, <1>7, <1>8 DEF ImGuiInv

(* An object is made for a widget again, or collected.                       *)
LEMMA ObjectsHold ==
  ASSUME ImGuiInv, NEW h \in Handles,
         \/ /\ registered' = MakeWidget(registered, h) /\ UNCHANGED lost
         \/ /\ registered' = WithoutWidget(registered, {h}) /\ h \in DOMAIN registered
            /\ lost' = IF registered[h] # 0 THEN lost \cup {h} ELSE lost,
         UNCHANGED <<state, owners, widgets, widgetsMade, slot, handler, lastId, callbacks>>
  PROVE  /\ state' \in Addresses /\ owners' \in Owned /\ WidgetsOK' /\ ObjectsOK' /\ SlotsOK'
         /\ drawn \in Seq(GoodDrawn') /\ posted \in Seq(GoodPosted')
  <1>1. WidgetsOK /\ ObjectsOK /\ SlotsOK /\ lost \subseteq lost' BY DEF ImGuiInv
  <1>2. WidgetsOK' BY <1>1 DEF WidgetsOK
  <1>3. \A i, x : IsSetFor(i, x) => IsSetFor(i, x)' BY <1>1 DEF IsSetFor
  <1>4. SlotsOK' BY <1>1 DEF SlotsOK, IsSetFor
  <1>5. ObjectsOK'
    <2>1. CASE registered' = MakeWidget(registered, h) /\ UNCHANGED lost
      BY <1>1, <2>1, MakeWidgetOK DEF ObjectsOK
    <2>2. CASE /\ registered' = WithoutWidget(registered, {h}) /\ h \in DOMAIN registered
               /\ lost' = IF registered[h] # 0 THEN lost \cup {h} ELSE lost
      BY <1>1, <2>2 DEF ObjectsOK, WithoutWidget
    <2>. QED BY <2>1, <2>2
  <1>6. drawn \in Seq(GoodDrawn') /\ posted \in Seq(GoodPosted')
    BY <1>1, <1>3, QueuesGood DEF ImGuiInv, WidgetsOK
  <1>. QED BY <1>2, <1>4, <1>5, <1>6 DEF ImGuiInv

(* Widgets move, and are read; a click is kept while a frame is drawn.       *)
LEMMA TreeHolds ==
  ASSUME ImGuiInv, NEW h \in Handles,
         \/ ReadWidget(h) \/ CollectObject(h) \/ Fires(h)
         \/ \E v : AttachChild(h, v)
  PROVE  ImGuiInv'
  <1>1. ASSUME ReadWidget(h) PROVE ImGuiInv'
    <2>1. /\ registered' = MakeWidget(registered, h)
          /\ UNCHANGED <<state, widgets, widgetsMade, slot, owners, lastId, drawn, posted,
                         callbacks, handler, lost>>
      BY <1>1 DEF ReadWidget
    <2>. QED BY <2>1, ObjectsHold DEF ImGuiInv
  <1>2. ASSUME CollectObject(h) PROVE ImGuiInv'
    <2>1. /\ registered' = WithoutWidget(registered, {h}) /\ h \in DOMAIN registered
          /\ lost' = IF registered[h] # 0 THEN lost \cup {h} ELSE lost
          /\ UNCHANGED <<state, widgets, widgetsMade, slot, owners, lastId, drawn, posted,
                         callbacks, handler>>
      BY <1>2 DEF CollectObject
    <2>. QED BY <2>1, ObjectsHold DEF ImGuiInv
  <1>3. ASSUME Fires(h) PROVE ImGuiInv'
    <2>1. /\ h \in DOMAIN widgets /\ drawn' = Append(drawn, [id |-> slot[h], widget |-> h])
          /\ UNCHANGED <<state, widgets, widgetsMade, slot, owners, lastId, posted,
                         callbacks, registered, handler, lost>>
      BY <1>3 DEF Fires
    <2>2. [id |-> slot[h], widget |-> h] \in GoodDrawn
      BY <2>1 DEF ImGuiInv, WidgetsOK, SlotsOK, GoodDrawn
    <2>3. drawn' \in Seq(GoodDrawn) BY <2>1, <2>2 DEF ImGuiInv
    <2>. QED BY <2>1, <2>3
             DEF ImGuiInv, WidgetsOK, ObjectsOK, SlotsOK, GoodDrawn, GoodPosted, IsSetFor
  <1>4. ASSUME NEW v, AttachChild(h, v) PROVE ImGuiInv'
    <2>1. /\ widgets' = [widgets EXCEPT ![v.handle] = h]
          /\ UNCHANGED <<state, widgetsMade, slot, owners, lastId, drawn, posted, callbacks,
                         registered, handler, lost>>
      BY <1>4 DEF AttachChild
    <2>2. DOMAIN widgets' = DOMAIN widgets BY <2>1
    <2>. QED BY <2>1, <2>2
             DEF ImGuiInv, WidgetsOK, ObjectsOK, SlotsOK, GoodDrawn, GoodPosted, IsSetFor
  <1>. QED BY <1>1, <1>2, <1>3, <1>4

(* What fired in the frame is queued; when the queue is full its first goes. *)
LEMMA PostHolds == ASSUME ImGuiInv, Post PROVE ImGuiInv'
  <1>. DEFINE e == Head(drawn)
              room == IF Len(posted) >= kMaxQueued THEN Tail(posted) ELSE posted
              put == [id |-> e.id, state |-> owners[e.id], widget |-> e.widget]
  <1>1. /\ drawn # <<>> /\ drawn' = Tail(drawn)
        /\ posted' = IF e.id \in DOMAIN owners THEN Append(room, put) ELSE posted
        /\ UNCHANGED <<state, widgets, widgetsMade, slot, owners, lastId, callbacks,
                       registered, handler, lost>>
    BY DEF Post
  <1>2. drawn \in Seq(GoodDrawn) /\ posted \in Seq(GoodPosted) /\ owners \in Owned
    BY DEF ImGuiInv
  <1>3. e \in GoodDrawn /\ Tail(drawn) \in Seq(GoodDrawn) BY <1>1, <1>2
  <1>. HIDE DEF e
  <1>4. room \in Seq(GoodPosted)
    <2>1. CASE Len(posted) >= kMaxQueued
      <3>1. posted # <<>> BY <1>2, <2>1, ImGuiAssumption
      <3>. QED BY <1>2, <2>1, <3>1
    <2>2. CASE ~(Len(posted) >= kMaxQueued) BY <1>2, <2>2
    <2>. QED BY <2>1, <2>2
  <1>5. e.id \in DOMAIN owners => put \in GoodPosted
    BY <1>2, <1>3 DEF GoodDrawn, GoodPosted, Owned
  <1>. HIDE DEF room, put
  <1>6. posted' \in Seq(GoodPosted)
    <2>1. CASE e.id \in DOMAIN owners BY <1>1, <1>4, <1>5, <2>1
    <2>2. CASE e.id \notin DOMAIN owners BY <1>1, <1>2, <2>2
    <2>. QED BY <2>1, <2>2
  <1>. QED BY <1>1, <1>3, <1>6
           DEF ImGuiInv, WidgetsOK, ObjectsOK, SlotsOK, GoodDrawn, GoodPosted, IsSetFor

(* Two runs of what a set has, one after the other.                          *)
LEMMA InOne == ASSUME NEW S, NEW a \in Seq(S), NEW b \in Seq(S) PROVE a \o b \in Seq(S)
  OBVIOUS

(* The first event of this state leaves the queue.                           *)
LEMMA TakeEventHolds == ASSUME ImGuiInv, TakeEvent PROVE ImGuiInv'
  <1>1. PICK at \in FirstMine :
            /\ posted' = SubSeq(posted, 1, at - 1) \o SubSeq(posted, at + 1, Len(posted))
            /\ \/ registered' = MakeWidget(registered, posted[at].widget)
               \/ registered' = registered
            /\ UNCHANGED <<state, widgets, widgetsMade, slot, owners, lastId, drawn,
                           callbacks, handler, lost>>
    BY DEF TakeEvent
  <1>2. posted \in Seq(GoodPosted) /\ at \in 1..Len(posted) BY DEF ImGuiInv, FirstMine
  <1>3. posted[at] \in GoodPosted /\ posted[at].widget \in Handles BY <1>2 DEF GoodPosted
  <1>4. /\ SubSeq(posted, 1, at - 1) \in Seq(GoodPosted)
        /\ SubSeq(posted, at + 1, Len(posted)) \in Seq(GoodPosted)
    <2>1. \A i \in 1..Len(posted) : posted[i] \in GoodPosted BY <1>2
    <2>. QED BY <1>2, <2>1, SubSeqProperties
  <1>5. posted' \in Seq(GoodPosted) BY <1>1, <1>4, InOne
  <1>6. CASE registered' = registered
    BY <1>1, <1>5, <1>6
       DEF ImGuiInv, WidgetsOK, ObjectsOK, SlotsOK, GoodDrawn, GoodPosted, IsSetFor
  <1>7. CASE registered' = MakeWidget(registered, posted[at].widget)
    <2>1. GoodPosted' = GoodPosted BY <1>1 DEF GoodPosted, IsSetFor
    <2>2. /\ state' \in Addresses /\ owners' \in Owned /\ WidgetsOK' /\ ObjectsOK' /\ SlotsOK'
          /\ drawn \in Seq(GoodDrawn')
      BY <1>1, <1>3, <1>7, ObjectsHold
    <2>. QED BY <1>1, <1>5, <2>1, <2>2 DEF ImGuiInv
  <1>. QED BY <1>1, <1>6, <1>7

(* The Lua state and the tree start again.                                   *)
LEMMA UiStartHolds == ASSUME UiInit PROVE ImGuiInv
  <1>1. /\ DOMAIN <<>> = {} /\ <<>> \in [{} -> Nat] /\ <<>> \in [{} -> Addresses]
        /\ \A S : <<>> \in Seq(S)
    OBVIOUS
  <1>2. owners \in Owned BY <1>1 DEF UiInit, Owned
  <1>. QED BY <1>1, <1>2, ImGuiAssumption DEF UiInit, ImGuiInv, WidgetsOK, ObjectsOK, SlotsOK

(* The states are rebuilt.                                                  *)
LEMMA ImGuiResetHolds == ASSUME ImGuiInv, ImGuiReset PROVE ImGuiInv'
  <1>1. /\ state' \in Addresses /\ widgets' = <<>> /\ widgetsMade' = 0 /\ slot' = <<>>
        /\ drawn' = <<>> /\ callbacks' = {} /\ registered' = <<>>
        /\ handler' = [h \in Handles |-> 0] /\ lost' = {} /\ UNCHANGED <<owners, lastId, posted>>
    BY DEF ImGuiReset
  <1>2. DOMAIN <<>> = {} /\ <<>> \in [{} -> Nat] /\ \A S : <<>> \in Seq(S) OBVIOUS
  <1>3. lastId \in Nat BY DEF ImGuiInv, WidgetsOK
  <1>4. WidgetsOK' BY <1>1, <1>2, <1>3, ImGuiAssumption DEF WidgetsOK
  <1>5. ObjectsOK' /\ SlotsOK' BY <1>1, <1>2 DEF ObjectsOK, SlotsOK
  <1>6. \A i, x : IsSetFor(i, x)' BY <1>1 DEF IsSetFor
  <1>7. posted' \in Seq(GoodPosted') BY <1>1, <1>3, <1>6, QueuesGood DEF ImGuiInv
  <1>. QED BY <1>1, <1>2, <1>4, <1>5, <1>7 DEF ImGuiInv

(* Init and the steps together.                                              *)
LEMMA ImGuiHolds == UiSpec => []ImGuiInv
  <1>1. ASSUME ImGuiInv, [UiNext]_uiVars PROVE ImGuiInv'
    <2>1. CASE UNCHANGED uiVars
      BY <1>1, <2>1 DEF uiVars, ImGuiInv, WidgetsOK, ObjectsOK, SlotsOK, GoodDrawn, GoodPosted,
                        IsSetFor
    <2>2. ASSUME NEW h \in Handles, AddWidget(h) PROVE ImGuiInv'
      BY <1>1, <2>2, MakeHolds DEF AddWidget
    <2>3. ASSUME NewWindow PROVE ImGuiInv' BY <1>1, <2>3, MakeHolds DEF NewWindow
    <2>. QED BY <1>1, <2>1, <2>2, <2>3, TreeHolds, SetHandlerHolds, ClearHandlerHolds,
                DestroyHolds, PostHolds, TakeEventHolds, ImGuiResetHolds
             DEF UiNext
  <1>. QED BY <1>1, UiStartHolds, PTL DEF UiSpec

(* An event runs the handler its widget has when it is delivered, or none:   *)
(* not one that was replaced, taken back or destroyed while it was queued,   *)
(* nor one of before a reset (delegate_post in vendor/imgui_events.cpp,      *)
(* imgui_pump and the widgets' objects in lua_host.cpp): for any tree,       *)
(* number of handlers and length of the queue, over any resets.              *)
THEOREM HandlersRunOnlyWhileSet == UiSpec => HandlerRunsOnlyWhileSet
  <1>1. ASSUME ImGuiInv, TakeEvent, NEW at \in FirstMine
        PROVE  LET e == posted[at]
               IN  \/ e.id \notin callbacks \/ e.widget \in lost
                   \/ handler[e.widget] = e.id
    <2>1. posted[at] \in GoodPosted BY <1>1 DEF ImGuiInv, FirstMine
    <2>. QED BY <2>1 DEF GoodPosted, IsSetFor
  <1>2. ASSUME ImGuiInv, [UiNext]_uiVars
        PROVE  [TakeEvent =>
                  \A at \in FirstMine :
                     LET e == posted[at]
                     IN  \/ e.id \notin callbacks \/ e.widget \in lost
                         \/ handler[e.widget] = e.id]_uiVars
    BY <1>1, <1>2
  <1>. QED BY <1>2, ImGuiHolds, PTL DEF UiSpec, HandlerRunsOnlyWhileSet

-----------------------------------------------------------------------------
(* LuaTimers: a timer is not due before it has run for the time it was to    *)
(* wait, and what a pass collected has, whatever is done to it before its    *)
(* turn.                                                                     *)
TimerKind == [due : Int, every : Nat, realtime : BOOLEAN, persistent : BOOLEAN,
              paused : BOOLEAN, remaining : Int, asked : Int, waited : Int]
NodeKind == [left : Nat, every : Nat, paused : BOOLEAN]

OnTime(t, now) ==
    IF t.paused THEN t.remaining >= 0 /\ t.waited + t.remaining >= t.asked
    ELSE t.waited >= t.asked \/ t.waited + t.due - now >= t.asked
Over(t, now) ==
    t.waited >= t.asked /\ t.due <= now /\ (t.paused => t.remaining = 0)

TimersTyped ==
    /\ nextHandle \in Nat \ {0} /\ gameClock \in Nat
    /\ DOMAIN timers \subseteq 1..(nextHandle - 1)
    /\ \A h \in DOMAIN timers : timers[h] \in TimerKind
    /\ saved \in Seq(NodeKind)
TimersInv ==
    /\ TimersTyped
    /\ \A h \in DOMAIN timers : OnTime(timers[h], gameClock)
    /\ \A d \in due : d.h \in 1..(nextHandle - 1)
    /\ \A d, e \in due : d.h = e.h => d = e
    /\ \A d \in due : d.h \in DOMAIN timers => Over(timers[d.h], gameClock)

(* math.max(0, n).                                                           *)
LEMMA NotNegative ==
  ASSUME NEW n \in Int PROVE Max({0, n}) = IF n >= 0 THEN n ELSE 0
  <1>1. \E x \in {0, n} : \A y \in {0, n} : x >= y
    <2>1. CASE n >= 0 BY <2>1
    <2>2. CASE n < 0 BY <2>2
    <2>. QED BY <2>1, <2>2
  <1>2. Max({0, n}) \in {0, n} /\ \A y \in {0, n} : Max({0, n}) >= y BY <1>1 DEF Max
  <1>. QED BY <1>2

(* A timer that is started is on time.                                       *)
LEMMA TimerStarts ==
  ASSUME TimersTyped, NEW ms \in Int, NEW every \in Nat,
         NEW real \in BOOLEAN, NEW stays \in BOOLEAN
  PROVE  LET t == Timer(ms, every, real, stays) IN t \in TimerKind /\ OnTime(t, gameClock)
  <1>1. PICK n \in Nat : Max({0, ms}) = n BY NotNegative
  <1>2. Timer(ms, every, real, stays) =
          [due |-> gameClock + n, every |-> every, realtime |-> real, persistent |-> stays,
           paused |-> FALSE, remaining |-> 0, asked |-> n, waited |-> 0]
    BY <1>1 DEF Timer
  <1>. QED BY <1>2 DEF TimersTyped, TimerKind, OnTime

(* Before any timer is started.                                              *)
LEMMA TimersStart == ASSUME TimersInit PROVE TimersInv
  BY DEF TimersInit, TimersInv, TimersTyped

(* One timer changes and is on time, and over if it was collected.           *)
LEMMA OneChanges ==
  ASSUME TimersInv, NEW k \in DOMAIN timers, NEW t \in TimerKind, OnTime(t, gameClock),
         timers' = [timers EXCEPT ![k] = t], Over(timers[k], gameClock) => Over(t, gameClock),
         UNCHANGED <<nextHandle, gameClock, due, saved>>
  PROVE  TimersInv'
  <1>1. /\ DOMAIN timers' = DOMAIN timers /\ timers'[k] = t
        /\ \A h \in DOMAIN timers : h # k => timers'[h] = timers[h]
    BY DEF TimersInv, TimersTyped
  <1>2. TimersTyped' BY <1>1 DEF TimersInv, TimersTyped
  <1>3. (\A h \in DOMAIN timers : OnTime(timers[h], gameClock))' BY <1>1 DEF TimersInv, OnTime
  <1>4. (\A d \in due : d.h \in DOMAIN timers => Over(timers[d.h], gameClock))'
    BY <1>1 DEF TimersInv, Over
  <1>. QED BY <1>2, <1>3, <1>4 DEF TimersInv

(* A timer is started.                                                       *)
LEMMA WaitForHolds ==
  ASSUME TimersInv, NEW ms \in Delays, NEW every \in Periods,
         NEW real \in BOOLEAN, NEW stays \in BOOLEAN, WaitFor(ms, every, real, stays)
  PROVE  TimersInv'
  <1>. DEFINE t == Timer(ms, every, real, stays)
  <1>1. t \in TimerKind /\ OnTime(t, gameClock)
    BY TimerStarts, TimersAssumption DEF TimersInv
  <1>. HIDE DEF t
  <1>2. /\ timers' = With(timers, nextHandle, t) /\ nextHandle' = nextHandle + 1
        /\ UNCHANGED <<gameClock, due, runningTimers, saved>>
    BY DEF WaitFor, t
  <1>3. /\ DOMAIN timers' = DOMAIN timers \cup {nextHandle} /\ timers'[nextHandle] = t
        /\ \A h \in DOMAIN timers : h # nextHandle => timers'[h] = timers[h]
        /\ nextHandle \notin DOMAIN timers
    BY <1>2 DEF With, TimersInv, TimersTyped
  <1>4. TimersTyped' BY <1>1, <1>2, <1>3 DEF TimersInv, TimersTyped
  <1>5. (\A h \in DOMAIN timers : OnTime(timers[h], gameClock))'
    BY <1>1, <1>2, <1>3 DEF TimersInv, OnTime
  <1>6. (\A d \in due : d.h \in 1..(nextHandle - 1))'
    BY <1>2 DEF TimersInv, TimersTyped
  <1>7. (\A d \in due : d.h \in DOMAIN timers => Over(timers[d.h], gameClock))'
    BY <1>2, <1>3 DEF TimersInv, TimersTyped, Over
  <1>. QED BY <1>2, <1>4, <1>5, <1>6, <1>7 DEF TimersInv

(* A timer that is cancelled, paused, resumed or called.                     *)
LEMMA CancelHolds == ASSUME TimersInv, NEW h, Cancel(h) PROVE TimersInv'
  <1>1. /\ timers' = Without(timers, {h}) /\ UNCHANGED <<nextHandle, gameClock, due, saved>>
    BY DEF Cancel
  <1>2. DOMAIN timers' \subseteq DOMAIN timers /\ \A k \in DOMAIN timers' : timers'[k] = timers[k]
    BY <1>1 DEF Without
  <1>. QED BY <1>1, <1>2 DEF TimersInv, TimersTyped, OnTime, Over

(* A pause keeps the time that is left.                                      *)
LEMMA PauseHolds == ASSUME TimersInv, NEW h \in DOMAIN timers, Pause(h) PROVE TimersInv'
  <1>. DEFINE was == timers[h]
              left == was.due - gameClock
              t == [was EXCEPT !.paused = TRUE, !.remaining = Max({0, left})]
  <1>1. was \in TimerKind /\ OnTime(was, gameClock) /\ gameClock \in Nat
    BY DEF TimersInv, TimersTyped
  <1>2. Max({0, left}) = IF left >= 0 THEN left ELSE 0 BY <1>1, NotNegative DEF TimerKind
  <1>3. timers' = [timers EXCEPT ![h] = t] /\ ~was.paused
    BY DEF Pause
  <1>. HIDE DEF was
  <1>4. t \in TimerKind /\ OnTime(t, gameClock)
    <2>1. Max({0, left}) \in Int /\ Max({0, left}) >= 0 /\ Max({0, left}) >= left
      BY <1>1, <1>2 DEF TimerKind
    <2>2. t \in TimerKind BY <1>1, <2>1 DEF TimerKind
    <2>3. t.paused /\ t.remaining = Max({0, left}) /\ t.waited = was.waited /\ t.asked = was.asked
      BY <1>1 DEF TimerKind
    <2>. HIDE DEF t
    <2>. QED BY <1>1, <1>3, <2>1, <2>2, <2>3 DEF TimerKind, OnTime
  <1>5. Over(was, gameClock) => Over(t, gameClock) BY <1>1, <1>2, <1>3 DEF TimerKind, Over
  <1>6. UNCHANGED <<nextHandle, gameClock, due, saved>> BY DEF Pause
  <1>. HIDE DEF t
  <1>. QED BY <1>3, <1>4, <1>5, <1>6, OneChanges DEF was

(* And resuming gives it back.                                               *)
LEMMA ResumeHolds == ASSUME TimersInv, NEW h \in DOMAIN timers, Resume(h) PROVE TimersInv'
  <1>. DEFINE was == timers[h]
              at == gameClock + was.remaining
              t == [was EXCEPT !.paused = FALSE, !.due = at, !.remaining = 0]
  <1>1. was \in TimerKind /\ OnTime(was, gameClock) /\ gameClock \in Nat
    BY DEF TimersInv, TimersTyped
  <1>2. timers' = [timers EXCEPT ![h] = t] /\ was.paused
    BY DEF Resume
  <1>. HIDE DEF was
  <1>3. at \in Int /\ at = gameClock + was.remaining BY <1>1 DEF TimerKind
  <1>. HIDE DEF at
  <1>4. t \in TimerKind
    <2>. DEFINE u == [was EXCEPT !.paused = FALSE, !.due = at]
    <2>1. u \in TimerKind BY <1>1, <1>3 DEF TimerKind
    <2>2. t = [u EXCEPT !.remaining = 0] OBVIOUS
    <2>. HIDE DEF u, t
    <2>. QED BY <2>1, <2>2 DEF TimerKind
  <1>5. /\ ~t.paused /\ t.due = at /\ t.remaining = 0
        /\ t.waited = was.waited /\ t.asked = was.asked
    BY <1>1 DEF TimerKind
  <1>. HIDE DEF t
  <1>6. OnTime(t, gameClock) BY <1>1, <1>2, <1>3, <1>4, <1>5 DEF TimerKind, OnTime
  <1>7. Over(was, gameClock) => Over(t, gameClock)
    BY <1>1, <1>2, <1>3, <1>4, <1>5 DEF TimerKind, Over
  <1>8. UNCHANGED <<nextHandle, gameClock, due, saved>> BY DEF Resume
  <1>. QED BY <1>2, <1>4, <1>6, <1>7, <1>8, OneChanges DEF was

(* Time passes for the timers that are not paused; those that are due now    *)
(* have waited.                                                              *)
LEMMA BeginPassHolds ==
  ASSUME TimersInv, due = {}, NEW now \in Nat, BeginPass(now) PROVE TimersInv'
  <1>1. /\ now >= gameClock /\ gameClock' = now /\ UNCHANGED <<nextHandle, saved>>
        /\ due' = {[h |-> h, realtime |-> timers[h].realtime, at |-> timers[h].due] : h \in DueAt(now)}
    BY DEF BeginPass
  <1>2. DOMAIN timers' = DOMAIN timers BY DEF BeginPass
  <1>3. ASSUME NEW h \in DOMAIN timers
        PROVE  /\ timers'[h] \in TimerKind /\ OnTime(timers'[h], now)
               /\ h \in DueAt(now) => Over(timers'[h], now)
    <2>. DEFINE t == timers[h]
    <2>1. timers'[h] = [t EXCEPT !.waited = IF t.paused THEN t.waited ELSE t.waited + now - gameClock]
      BY DEF BeginPass
    <2>2. t \in TimerKind /\ OnTime(t, gameClock) /\ gameClock \in Nat BY DEF TimersInv, TimersTyped
    <2>3. h \in DueAt(now) => ~t.paused /\ now >= t.due BY DEF DueAt
    <2>. HIDE DEF t
    <2>4. CASE t.paused BY <1>1, <2>1, <2>2, <2>3, <2>4 DEF TimerKind, OnTime, Over
    <2>5. CASE ~t.paused BY <1>1, <2>1, <2>2, <2>3, <2>5 DEF TimerKind, OnTime, Over
    <2>. QED BY <2>2, <2>4, <2>5 DEF TimerKind
  <1>4. DueAt(now) \subseteq DOMAIN timers BY DEF DueAt
  <1>5. \A d \in due' : d.h \in DueAt(now) BY <1>1
  <1>6. \A d, e \in due' : d.h = e.h => d = e BY <1>1
  <1>7. TimersTyped' BY <1>1, <1>2, <1>3 DEF TimersInv, TimersTyped
  <1>8. (\A h \in DOMAIN timers : OnTime(timers[h], gameClock))' BY <1>1, <1>2, <1>3
  <1>9. (\A d \in due : d.h \in 1..(nextHandle - 1))'
    BY <1>1, <1>4, <1>5 DEF TimersInv, TimersTyped
  <1>10. (\A d \in due : d.h \in DOMAIN timers => Over(timers[d.h], gameClock))'
    BY <1>1, <1>3, <1>4, <1>5
  <1>. QED BY <1>6, <1>7, <1>8, <1>9, <1>10 DEF TimersInv

(* A timer's turn in the pass.                                               *)
LEMMA FireHolds == ASSUME TimersInv, Fire PROVE TimersInv'
  <1>1. PICK first \in due :
          /\ due' = due \ {first} /\ UNCHANGED <<nextHandle, gameClock, saved>>
          /\ IF first.h \notin DOMAIN timers
             THEN UNCHANGED <<timers, runningTimers>>
             ELSE timers' = IF timers[first.h].every = 0 THEN Without(timers, {first.h})
                            ELSE [timers EXCEPT ![first.h].due = NextDue(timers[first.h])]
    BY DEF Fire
  <1>. DEFINE k == first.h
  <1>2. \A d \in due' : d \in due /\ d.h # k BY <1>1 DEF TimersInv
  <1>3. (\A d \in due : d.h \in 1..(nextHandle - 1))' BY <1>1 DEF TimersInv
  <1>4. (\A d, e \in due : d.h = e.h => d = e)' BY <1>1 DEF TimersInv
  <1>5. CASE k \notin DOMAIN timers
    BY <1>1, <1>2, <1>3, <1>4, <1>5 DEF TimersInv, TimersTyped, OnTime, Over
  <1>6. CASE k \in DOMAIN timers /\ timers[k].every = 0
    <2>1. DOMAIN timers' \subseteq DOMAIN timers /\ \A h \in DOMAIN timers' : timers'[h] = timers[h]
      BY <1>1, <1>6 DEF Without
    <2>. QED BY <1>1, <1>2, <1>3, <1>4, <2>1 DEF TimersInv, TimersTyped, OnTime, Over
  <1>7. CASE k \in DOMAIN timers /\ timers[k].every # 0
    <2>. DEFINE was == timers[k]
                t == [was EXCEPT !.due = NextDue(was)]
    <2>1. was \in TimerKind /\ OnTime(was, gameClock) /\ Over(was, gameClock) /\ gameClock \in Nat
      BY <1>1, <1>7 DEF TimersInv, TimersTyped
    <2>2. timers' = [timers EXCEPT ![k] = t] BY <1>1, <1>7
    <2>. HIDE DEF was, k
    <2>3. NextDue(was) \in Int BY <2>1 DEF NextDue, TimerKind
    <2>4. t \in TimerKind /\ OnTime(t, gameClock) BY <2>1, <2>3 DEF TimerKind, OnTime, Over
    <2>. HIDE DEF t
    <2>5. /\ DOMAIN timers' = DOMAIN timers /\ timers'[k] = t
          /\ \A h \in DOMAIN timers : h # k => timers'[h] = timers[h]
      BY <1>7, <2>2
    <2>6. TimersTyped' BY <1>1, <2>4, <2>5 DEF TimersInv, TimersTyped
    <2>7. (\A h \in DOMAIN timers : OnTime(timers[h], gameClock))'
      BY <1>1, <2>4, <2>5 DEF TimersInv
    <2>8. (\A d \in due : d.h \in DOMAIN timers => Over(timers[d.h], gameClock))'
      BY <1>1, <1>2, <2>5 DEF TimersInv
    <2>. QED BY <1>3, <1>4, <2>6, <2>7, <2>8 DEF TimersInv
  <1>. QED BY <1>5, <1>6, <1>7

(* What is saved of a timer is the time it has left.                         *)
LEMMA FrozenIs ==
  ASSUME TimersInv, NEW h \in DOMAIN timers PROVE Frozen(timers[h]) \in NodeKind
  <1>. DEFINE t == timers[h]
  <1>1. t \in TimerKind /\ OnTime(t, gameClock) /\ gameClock \in Nat BY DEF TimersInv, TimersTyped
  <1>. HIDE DEF t
  <1>2. t.due - gameClock \in Int BY <1>1 DEF TimerKind
  <1>3. Max({0, t.due - gameClock}) \in Nat BY <1>2, NotNegative
  <1>4. (IF t.paused THEN t.remaining ELSE Max({0, t.due - gameClock})) \in Nat
    BY <1>1, <1>3 DEF TimerKind, OnTime
  <1>. QED BY <1>1, <1>4 DEF Frozen, NodeKind, TimerKind, t

(* The timers of a save, and those that come back from it.                   *)
LEMMA CollectHolds == ASSUME TimersInv, CollectSaveExtras PROVE TimersInv'
  <1>1. PICK order \in [1..Cardinality(Persistent) -> Persistent] :
          saved' = [i \in DOMAIN order |-> Frozen(timers[order[i]])]
    BY DEF CollectSaveExtras
  <1>2. UNCHANGED <<timers, nextHandle, gameClock, due, runningTimers>> BY DEF CollectSaveExtras
  <1>3. Cardinality(Persistent) \in Nat
    <2>1. Persistent \in SUBSET (1..(nextHandle - 1)) BY DEF Persistent, TimersInv, TimersTyped
    <2>2. 1 \in Int /\ nextHandle - 1 \in Int BY DEF TimersInv, TimersTyped
    <2>3. IsFiniteSet(1..(nextHandle - 1)) BY <2>2, FS_Interval
    <2>4. IsFiniteSet(Persistent) BY <2>1, <2>3, FS_Subset
    <2>. QED BY <2>4, FS_CardinalityType
  <1>4. \A i \in 1..Cardinality(Persistent) : saved'[i] \in NodeKind
    <2>1. \A i \in 1..Cardinality(Persistent) : order[i] \in DOMAIN timers BY DEF Persistent
    <2>. QED BY <1>1, <2>1, FrozenIs
  <1>5. saved' \in [1..Cardinality(Persistent) -> NodeKind]
    <2>1. DOMAIN order = 1..Cardinality(Persistent) OBVIOUS
    <2>. QED BY <1>1, <1>4, <2>1
  <1>6. saved' \in Seq(NodeKind) BY <1>3, <1>5
  <1>. QED BY <1>2, <1>6 DEF TimersInv, TimersTyped, OnTime, Over

(* A timer restored waits for what it had left.                              *)
LEMMA ThawedIs ==
  ASSUME TimersTyped, NEW node \in NodeKind
  PROVE  Thawed(node) \in TimerKind /\ OnTime(Thawed(node), gameClock)
  <1>. DEFINE t == Timer(node.left, node.every, FALSE, TRUE)
  <1>1. node.left \in Nat /\ node.every \in Nat /\ node.paused \in BOOLEAN BY DEF NodeKind
  <1>2. t \in TimerKind /\ OnTime(t, gameClock)
    <2>1. node.left \in Int /\ FALSE \in BOOLEAN /\ TRUE \in BOOLEAN BY <1>1
    <2>. QED BY <1>1, <2>1, TimerStarts
  <1>3. t.asked = node.left /\ t.waited = 0 BY <1>1, NotNegative DEF Timer
  <1>. HIDE DEF t
  <1>4. Thawed(node) = [t EXCEPT !.paused = node.paused,
                                 !.remaining = IF node.paused THEN node.left ELSE 0]
    BY DEF Thawed, t
  <1>5. Thawed(node) \in TimerKind
    <2>1. (IF node.paused THEN node.left ELSE 0) \in Int BY <1>1
    <2>. QED BY <1>1, <1>2, <1>4, <2>1 DEF TimerKind
  <1>6. ~t.paused BY DEF t, Timer
  <1>7. OnTime(Thawed(node), gameClock)
    <2>1. CASE node.paused BY <1>1, <1>2, <1>3, <1>4, <2>1 DEF TimerKind, OnTime
    <2>2. CASE ~node.paused BY <1>1, <1>2, <1>3, <1>4, <1>6, <2>2 DEF TimerKind, OnTime
    <2>. QED BY <2>1, <2>2
  <1>. QED BY <1>5, <1>7

(* The timers of the save are started anew.                                  *)
LEMMA RestoreHolds == ASSUME TimersInv, due = {}, RestoreSaveExtras PROVE TimersInv'
  <1>1. /\ nextHandle' = nextHandle + Len(saved)
        /\ UNCHANGED <<gameClock, due, runningTimers, saved>>
        /\ timers' = [h \in (DOMAIN timers \ Persistent) \cup (nextHandle .. nextHandle' - 1) |->
                        IF h >= nextHandle THEN Thawed(saved[h - nextHandle + 1]) ELSE timers[h]]
    BY DEF RestoreSaveExtras
  <1>2. Len(saved) \in Nat /\ nextHandle \in Nat \ {0} BY DEF TimersInv, TimersTyped
  <1>3. ASSUME NEW h \in DOMAIN timers'
        PROVE  /\ timers'[h] \in TimerKind /\ OnTime(timers'[h], gameClock)
               /\ h \in 1..(nextHandle' - 1)
    <2>1. CASE h \in DOMAIN timers /\ h < nextHandle
      BY <1>1, <1>2, <2>1 DEF TimersInv, TimersTyped
    <2>2. CASE h \in nextHandle .. nextHandle' - 1
      <3>1. h - nextHandle + 1 \in 1..Len(saved) BY <1>1, <1>2, <2>2
      <3>2. saved[h - nextHandle + 1] \in NodeKind BY <3>1 DEF TimersInv, TimersTyped
      <3>3. timers'[h] = Thawed(saved[h - nextHandle + 1]) BY <1>1, <1>2, <2>2
      <3>. QED BY <1>1, <1>2, <2>2, <3>2, <3>3, ThawedIs DEF TimersInv
    <2>. QED BY <1>1, <2>1, <2>2 DEF TimersInv, TimersTyped
  <1>4. TimersTyped'
    <2>1. nextHandle' \in Nat \ {0} BY <1>1, <1>2
    <2>2. gameClock' \in Nat /\ saved' \in Seq(NodeKind) BY <1>1 DEF TimersInv, TimersTyped
    <2>. QED BY <1>3, <2>1, <2>2 DEF TimersTyped
  <1>. QED BY <1>1, <1>3, <1>4 DEF TimersInv

(* Every step keeps them on time.                                            *)
LEMMA TimersHold == TimersSpec => []TimersInv
  <1>1. ASSUME TimersInv, [TimersNext]_timerVars PROVE TimersInv'
    <2>1. CASE UNCHANGED timerVars
      BY <1>1, <2>1 DEF timerVars, TimersInv, TimersTyped, OnTime, Over
    <2>2. ASSUME CallbackReturns PROVE TimersInv'
      BY <1>1, <2>2 DEF CallbackReturns, TimersInv, TimersTyped, OnTime, Over
    <2>3. ASSUME NEW ms \in Delays, NEW every \in Periods, NEW kind \in {"game", "real", "saved"},
                 WaitFor(ms, every, kind = "real", kind = "saved")
          PROVE  TimersInv'
      <3>1. (kind = "real") \in BOOLEAN /\ (kind = "saved") \in BOOLEAN OBVIOUS
      <3>. QED BY <1>1, <2>3, <3>1, WaitForHolds
    <2>4. ASSUME NEW h \in DOMAIN timers, Cancel(h) \/ Pause(h) \/ Resume(h) PROVE TimersInv'
      BY <1>1, <2>4, CancelHolds, PauseHolds, ResumeHolds
    <2>5. ASSUME due = {}, \/ \E now \in 0..MaxTime : BeginPass(now)
                           \/ CollectSaveExtras \/ RestoreSaveExtras
          PROVE  TimersInv'
      <3>1. \A now \in 0..MaxTime : now \in Nat BY TimersAssumption
      <3>. QED BY <1>1, <2>5, <3>1, BeginPassHolds, CollectHolds, RestoreHolds
    <2>. QED BY <1>1, <2>1, <2>2, <2>3, <2>4, <2>5, FireHolds DEF TimersNext
  <1>. QED BY <1>1, TimersStart, PTL DEF TimersSpec

(* Only a timer's turn in the pass makes it the one that runs.               *)
LEMMA RunsByTurn ==
  ASSUME TimersInv, [TimersNext]_timerVars, runningTimers' # runningTimers, runningTimers' # NoTimer
  PROVE  LET h == runningTimers' IN
         /\ h \in DOMAIN timers /\ Over(timers[h], gameClock)
         /\ timers[h].every # 0 => timers' = [timers EXCEPT ![h].due = NextDue(timers[h])]
  <1>1. Fire
    BY DEF TimersNext, timerVars, WaitFor, Cancel, Pause, Resume, BeginPass, CollectSaveExtras,
           RestoreSaveExtras, CallbackReturns
  <1>2. PICK first \in due :
          IF first.h \notin DOMAIN timers
          THEN UNCHANGED <<timers, runningTimers>>
          ELSE /\ runningTimers' = first.h
               /\ timers' = IF timers[first.h].every = 0 THEN Without(timers, {first.h})
                            ELSE [timers EXCEPT ![first.h].due = NextDue(timers[first.h])]
    BY <1>1 DEF Fire
  <1>. QED BY <1>2 DEF TimersInv

(***************************************************************************)
(* A timer's callback is called only once the timer has run for the time   *)
(* it was to wait, however it was paused, resumed, saved and restored on   *)
(* the way, and one that repeats stays in step with its first schedule or  *)
(* at most two periods behind (lua_host.cpp, RunTimers, Pause, Resume,     *)
(* CollectSaveExtras, RestoreSaveExtras).                                  *)
(***************************************************************************)
THEOREM TimersAreOnTime == TimersSpec => TimersKeepTime
  <1>. DEFINE Delayed == runningTimers' \notin {NoTimer, runningTimers} =>
                /\ runningTimers' \in DOMAIN timers
                /\ timers[runningTimers'].waited >= timers[runningTimers'].asked
                /\ timers[runningTimers'].due <= gameClock
              Repeats == \A h \in DOMAIN timers :
                runningTimers' = h /\ runningTimers # h /\ timers[h].every > 0 =>
                  LET t == timers[h] next == timers'[h].due
                  IN  /\ next >= gameClock - 2 * t.every
                      /\ next <= gameClock + t.every
                      /\ next = gameClock \/ next = t.due + t.every
  <1>1. ASSUME TimersInv, [TimersNext]_timerVars PROVE Delayed
    BY <1>1, RunsByTurn DEF Over
  <1>2. ASSUME TimersInv, [TimersNext]_timerVars PROVE Repeats
    <2>1. SUFFICES ASSUME NEW h \in DOMAIN timers, runningTimers' = h, runningTimers # h,
                          timers[h].every > 0
                   PROVE  LET t == timers[h] next == timers'[h].due
                          IN  /\ next >= gameClock - 2 * t.every
                              /\ next <= gameClock + t.every
                              /\ next = gameClock \/ next = t.due + t.every
      OBVIOUS
    <2>. DEFINE t == timers[h]
    <2>2. h # NoTimer BY <1>2, TimersAssumption DEF TimersInv, TimersTyped
    <2>3. t \in TimerKind /\ gameClock \in Nat BY <1>2 DEF TimersInv, TimersTyped
    <2>4. /\ Over(t, gameClock)
          /\ timers' = [timers EXCEPT ![h].due = NextDue(t)]
      BY <1>2, <2>1, <2>2, <2>3, RunsByTurn DEF TimerKind
    <2>5. timers'[h].due = NextDue(t) BY <2>3, <2>4 DEF TimerKind
    <2>. HIDE DEF t
    <2>6. /\ NextDue(t) >= gameClock - 2 * t.every /\ NextDue(t) <= gameClock + t.every
          /\ NextDue(t) = gameClock \/ NextDue(t) = t.due + t.every
      BY <2>3, <2>4 DEF NextDue, TimerKind, Over
    <2>. QED BY <2>5, <2>6 DEF t
  <1>3. TimersSpec => [][Delayed]_timerVars BY <1>1, TimersHold, PTL DEF TimersSpec
  <1>4. TimersSpec => [][Repeats]_timerVars BY <1>2, TimersHold, PTL DEF TimersSpec
  <1>. QED BY <1>3, <1>4 DEF TimersKeepTime, FiresAfterItsDelay, RepeatsInStep

-----------------------------------------------------------------------------
(* EntityEvents: who was subscribed when an event is fired and still is, has *)
(* been called or is yet to come in its traversal, unless a handler          *)
(* subscribed.  What the deliveries hold is anything.                        *)
IsSeq(s) == s \in Seq({s[i] : i \in DOMAIN s})

FiringOK(f, table, next) ==
    /\ f = [kind |-> f.kind, entity |-> f.entity, rest |-> f.rest, cur |-> f.cur,
            from |-> f.from, called |-> f.called, added |-> f.added]
    /\ f.added \in BOOLEAN /\ f.from \subseteq 1..(next - 1)
    /\ \A id \in f.from \cap DOMAIN table : Matches(table[id], f.kind, f.entity)
    /\ f.added \/ f.from \cap DOMAIN table \subseteq f.rest \cup f.called
FiringsOK(s, table, next) ==
    /\ IsSeq(s)
    /\ \A i \in 1..Len(s) : FiringOK(s[i], table, next)
EntityInv ==
    /\ nextSub \in Nat \ {0} /\ DOMAIN subs \subseteq 1..(nextSub - 1)
    /\ FiringsOK(firing, subs, nextSub)

(* A function on 1..n is a sequence.                                         *)
LEMMA MakesSeq ==
  ASSUME NEW n \in Nat, NEW s, s = [i \in 1..n |-> s[i]]
  PROVE  IsSeq(s) /\ Len(s) = n /\ DOMAIN s = 1..n
  <1>1. DOMAIN s = 1..n OBVIOUS
  <1>. DEFINE S == {s[i] : i \in DOMAIN s}
  <1>2. \A i \in 1..n : s[i] \in S BY <1>1
  <1>. HIDE DEF S
  <1>3. s \in [1..n -> S] BY <1>1, <1>2
  <1>4. s \in Seq(S) /\ Len(s) = n BY <1>1, <1>3
  <1>. QED BY <1>1, <1>4 DEF IsSeq, S

(* What a sequence is, whatever its members.                                *)
LEMMA SeqIs ==
  ASSUME NEW s, IsSeq(s)
  PROVE  Len(s) \in Nat /\ DOMAIN s = 1..Len(s) /\ s = [i \in 1..Len(s) |-> s[i]]
  <1>. DEFINE S == {s[i] : i \in DOMAIN s}
  <1>1. s \in Seq(S) BY DEF IsSeq
  <1>. HIDE DEF S
  <1>. QED BY <1>1

(* A frame on top of the others.                                            *)
LEMMA Pushed ==
  ASSUME NEW s, IsSeq(s), NEW e
  PROVE  /\ IsSeq(Append(s, e)) /\ Len(Append(s, e)) = Len(s) + 1 /\ Append(s, e)[Len(s) + 1] = e
         /\ \A i \in 1..Len(s) : Append(s, e)[i] = s[i]
  <1>. DEFINE S == {s[i] : i \in DOMAIN s} \cup {e}
              t == Append(s, e)
  <1>1. \A i \in 1..Len(s) : s[i] \in S BY SeqIs
  <1>2. e \in S OBVIOUS
  <1>. HIDE DEF S
  <1>3. s \in [1..Len(s) -> S] /\ Len(s) \in Nat BY <1>1, SeqIs
  <1>4. s \in Seq(S) BY <1>3
  <1>5. /\ t \in Seq(S) /\ Len(t) = Len(s) + 1 /\ t[Len(s) + 1] = e
        /\ \A i \in 1..Len(s) : t[i] = s[i]
    BY <1>2, <1>4
  <1>. HIDE DEF t
  <1>6. t = [i \in 1..Len(t) |-> t[i]] /\ Len(t) \in Nat BY <1>5
  <1>7. IsSeq(t) BY <1>6, MakesSeq
  <1>. QED BY <1>5, <1>7 DEF t

(* And the top one taken off.                                               *)
LEMMA Popped ==
  ASSUME NEW s, IsSeq(s), s # <<>>
  PROVE  /\ IsSeq(Front(s)) /\ Len(Front(s)) = Len(s) - 1 /\ Len(s) >= 1
         /\ \A i \in 1..(Len(s) - 1) : Front(s)[i] = s[i]
  <1>. DEFINE S == {s[i] : i \in DOMAIN s}
              t == Front(s)
  <1>1. s \in Seq(S) BY DEF IsSeq
  <1>. HIDE DEF S
  <1>2. Len(s) \in Nat /\ Len(s) >= 1 BY <1>1
  <1>3. PICK n \in Nat : n = Len(s) - 1 BY <1>2
  <1>4. \A i \in 1..n : s[i] \in S BY <1>1, <1>2, <1>3
  <1>5. t = SubSeq(s, 1, n) BY <1>3 DEF Front
  <1>. HIDE DEF t
  <1>6. /\ t \in Seq(S) /\ Len(t) = IF 1 <= n THEN n - 1 + 1 ELSE 0
        /\ \A i \in 1..(n - 1 + 1) : t[i] = s[1 + i - 1]
    BY <1>4, <1>5, SubSeqProperties
  <1>7. Len(t) = n /\ \A i \in 1..n : t[i] = s[i] BY <1>6
  <1>8. t = [i \in 1..n |-> t[i]] BY <1>6, <1>7
  <1>9. IsSeq(t) BY <1>8, MakesSeq
  <1>. QED BY <1>2, <1>3, <1>7, <1>9 DEF t

(* A frame changed in its place.                                             *)
LEMMA Changed ==
  ASSUME NEW s, IsSeq(s), NEW t, DOMAIN t = DOMAIN s, t = [i \in DOMAIN t |-> t[i]]
  PROVE  IsSeq(t) /\ Len(t) = Len(s)
  <1>1. Len(s) \in Nat /\ DOMAIN s = 1..Len(s) BY SeqIs
  <1>2. t = [i \in 1..Len(s) |-> t[i]] BY <1>1
  <1>. QED BY <1>1, <1>2, MakesSeq

(* Whoever unsubscribes is not due any more.                                 *)
LEMMA StillOK ==
  ASSUME NEW f, NEW table, NEW less, NEW next, FiringOK(f, table, next),
         DOMAIN less \subseteq DOMAIN table, \A id \in DOMAIN less : less[id] = table[id]
  PROVE  FiringOK(f, less, next)
  BY DEF FiringOK

(* A frame is made for who is subscribed.                                    *)
LEMMA FrameOK ==
  ASSUME EntityInv, NEW kind, NEW e PROVE FiringOK(EntityFrame(kind, e), subs, nextSub)
  BY DEF EntityInv, FiringOK, EntityFrame

(* Before anything is subscribed.                                           *)
LEMMA EntityStarts == ASSUME EntityInit PROVE EntityInv
  <1>1. firing = [i \in 1..0 |-> firing[i]] BY DEF EntityInit
  <1>2. IsSeq(firing) /\ Len(firing) = 0 BY <1>1, MakesSeq
  <1>. QED BY <1>2 DEF EntityInit, EntityInv, FiringsOK

(* A handler subscribes: the traversals under way may go anywhere.           *)
LEMMA SubscribeHolds ==
  ASSUME EntityInv, NEW kind, NEW e, NEW once, NEW world, SubscribeEntity(kind, e, once, world)
  PROVE  EntityInv'
  <1>1. /\ nextSub' = nextSub + 1 /\ DOMAIN subs' = DOMAIN subs \cup {nextSub}
        /\ \A i \in DOMAIN subs : i # nextSub => subs'[i] = subs[i]
    BY DEF SubscribeEntity
  <1>2. PICK left : firing' = [i \in DOMAIN firing |->
                                 [firing[i] EXCEPT !.rest = left[i], !.added = TRUE]]
    BY DEF SubscribeEntity
  <1>3. Len(firing) \in Nat /\ DOMAIN firing = 1..Len(firing) BY SeqIs DEF EntityInv, FiringsOK
  <1>4. firing' = [i \in 1..Len(firing) |-> firing'[i]] BY <1>2, <1>3
  <1>5. IsSeq(firing') /\ Len(firing') = Len(firing) BY <1>3, <1>4, MakesSeq
  <1>6. ASSUME NEW i \in 1..Len(firing) PROVE FiringOK(firing'[i], subs', nextSub')
    <2>. DEFINE f == firing[i]
    <2>1. FiringOK(f, subs, nextSub) BY DEF EntityInv, FiringsOK
    <2>2. firing'[i] = [f EXCEPT !.rest = left[i], !.added = TRUE] BY <1>2, <1>3
    <2>. HIDE DEF f
    <2>3. firing'[i] = [kind |-> f.kind, entity |-> f.entity, rest |-> left[i], cur |-> f.cur,
                        from |-> f.from, called |-> f.called, added |-> TRUE]
      BY <2>1, <2>2 DEF FiringOK
    <2>4. f.from \subseteq 1..(nextSub' - 1) /\ nextSub \notin f.from
      BY <1>1, <2>1 DEF FiringOK, EntityInv
    <2>5. \A id \in f.from \cap DOMAIN subs' : Matches(subs'[id], f.kind, f.entity)
      BY <1>1, <2>1, <2>4 DEF FiringOK
    <2>. QED BY <2>3, <2>4, <2>5 DEF FiringOK
  <1>7. nextSub' \in Nat \ {0} /\ DOMAIN subs' \subseteq 1..(nextSub' - 1) BY <1>1 DEF EntityInv
  <1>. QED BY <1>5, <1>6, <1>7 DEF EntityInv, FiringsOK

(* A handler unsubscribes.                                                  *)
LEMMA UnsubscribeHolds == ASSUME EntityInv, NEW id, UnsubscribeEntity(id) PROVE EntityInv'
  <1>1. /\ DOMAIN subs' \subseteq DOMAIN subs /\ \A i \in DOMAIN subs' : subs'[i] = subs[i]
        /\ UNCHANGED <<nextSub, firing>>
    BY DEF UnsubscribeEntity
  <1>2. \A i \in 1..Len(firing) : FiringOK(firing[i], subs', nextSub)
    BY <1>1, StillOK DEF EntityInv, FiringsOK
  <1>. QED BY <1>1, <1>2 DEF EntityInv, FiringsOK

(* A component made at once, and an event of the delivery, are fired.        *)
LEMMA FiredHolds ==
  ASSUME EntityInv, FireEntityEvent \/ \E e \in Entities : CreateComponentImmediate(e)
  PROVE  EntityInv'
  <1>1. UNCHANGED <<subs, nextSub>> BY DEF FireEntityEvent, CreateComponentImmediate
  <1>2. CASE firing' = firing BY <1>1, <1>2 DEF EntityInv, FiringsOK
  <1>3. ASSUME NEW kind, NEW e, firing' = Append(firing, EntityFrame(kind, e)) PROVE EntityInv'
    <2>. DEFINE f == EntityFrame(kind, e)
    <2>1. FiringOK(f, subs, nextSub) BY FrameOK
    <2>. HIDE DEF f
    <2>2. /\ IsSeq(firing') /\ Len(firing') = Len(firing) + 1 /\ firing'[Len(firing) + 1] = f
          /\ \A i \in 1..Len(firing) : firing'[i] = firing[i]
      BY <1>3, Pushed DEF f, EntityInv, FiringsOK
    <2>3. Len(firing) \in Nat BY SeqIs DEF EntityInv, FiringsOK
    <2>4. \A i \in 1..Len(firing') : FiringOK(firing'[i], subs, nextSub)
      BY <2>1, <2>2, <2>3 DEF EntityInv, FiringsOK
    <2>. QED BY <1>1, <2>2, <2>4 DEF EntityInv, FiringsOK
  <1>4. ASSUME NEW kind, NEW e, firing' = <<EntityFrame(kind, e)>> PROVE EntityInv'
    <2>. DEFINE f == EntityFrame(kind, e)
    <2>1. FiringOK(f, subs, nextSub) BY FrameOK
    <2>. HIDE DEF f
    <2>2. firing' = [i \in 1..1 |-> firing'[i]] /\ firing'[1] = f BY <1>4 DEF f
    <2>3. IsSeq(firing') /\ Len(firing') = 1 BY <2>2, MakesSeq
    <2>. QED BY <1>1, <2>1, <2>2, <2>3 DEF EntityInv, FiringsOK
  <1>. QED BY <1>2, <1>3, <1>4 DEF FireEntityEvent, CreateComponentImmediate

(* A subscription of the traversal is called.                               *)
LEMMA CallHolds == ASSUME EntityInv, NEW id \in DOMAIN subs, CallHandler(id) PROVE EntityInv'
  <1>. DEFINE f == Last(firing)
              n == Len(firing)
              now == [f EXCEPT !.cur = id, !.rest = @ \ {id}, !.called = @ \cup {id}]
  <1>1. /\ DOMAIN subs' \subseteq DOMAIN subs /\ \A i \in DOMAIN subs' : subs'[i] = subs[i]
        /\ UNCHANGED nextSub /\ firing' = [firing EXCEPT ![n] = now] /\ firing # <<>>
    BY DEF CallHandler
  <1>2. IsSeq(firing) /\ n \in Nat /\ n >= 1 /\ n \in 1..n /\ f = firing[n]
    BY <1>1, SeqIs, Popped DEF EntityInv, FiringsOK, Last
  <1>3. FiringOK(f, subs, nextSub) BY <1>2 DEF EntityInv, FiringsOK
  <1>. HIDE DEF f
  <1>4. FiringOK(now, subs, nextSub)
    <2>1. now = [kind |-> f.kind, entity |-> f.entity, rest |-> f.rest \ {id}, cur |-> id,
                 from |-> f.from, called |-> f.called \cup {id}, added |-> f.added]
      <3>. DEFINE rest == f.rest \ {id}
                  called == f.called \cup {id}
      <3>1. now = [f EXCEPT !.cur = id, !.rest = rest, !.called = called] OBVIOUS
      <3>2. f = [kind |-> f.kind, entity |-> f.entity, rest |-> f.rest, cur |-> f.cur,
                 from |-> f.from, called |-> f.called, added |-> f.added]
        BY <1>3 DEF FiringOK
      <3>. HIDE DEF rest, called, now
      <3>3. now = [kind |-> f.kind, entity |-> f.entity, rest |-> rest, cur |-> id,
                   from |-> f.from, called |-> called, added |-> f.added]
        BY <3>1, <3>2
      <3>. QED BY <3>3 DEF rest, called
    <2>. HIDE DEF now
    <2>. QED BY <1>3, <2>1 DEF FiringOK
  <1>. HIDE DEF now, n
  <1>5. /\ IsSeq(firing') /\ Len(firing') = n /\ firing'[n] = now
        /\ \A i \in 1..n : i # n => firing'[i] = firing[i]
    <2>1. DOMAIN firing = 1..n BY <1>2, SeqIs DEF n
    <2>2. /\ DOMAIN firing' = DOMAIN firing /\ firing' = [i \in DOMAIN firing' |-> firing'[i]]
          /\ firing'[n] = now /\ \A i \in 1..n : i # n => firing'[i] = firing[i]
      BY <1>1, <1>2, <2>1
    <2>3. IsSeq(firing') /\ Len(firing') = n BY <1>2, <2>2, Changed DEF n
    <2>. QED BY <2>2, <2>3
  <1>6. \A i \in 1..Len(firing') : FiringOK(firing'[i], subs, nextSub)
    BY <1>4, <1>5 DEF EntityInv, FiringsOK, n
  <1>7. \A i \in 1..Len(firing') : FiringOK(firing'[i], subs', nextSub)
    BY <1>1, <1>6, StillOK
  <1>. QED BY <1>1, <1>5, <1>7 DEF EntityInv, FiringsOK

(* A handler is done, or the traversal breaks off in one.                    *)
LEMMA DoneOK ==
  ASSUME NEW s, FiringsOK(s, subs, nextSub), NEW k \in 1..Len(s)
  PROVE  FiringsOK([s EXCEPT ![k].cur = NoSub], subs, nextSub)
  <1>. DEFINE f == s[k]
              now == [f EXCEPT !.cur = NoSub]
              t == [s EXCEPT ![k] = now]
  <1>1. [s EXCEPT ![k].cur = NoSub] = t OBVIOUS
  <1>2. FiringOK(f, subs, nextSub) /\ IsSeq(s) BY DEF FiringsOK
  <1>. HIDE DEF f
  <1>3. FiringOK(now, subs, nextSub)
    <2>1. now = [kind |-> f.kind, entity |-> f.entity, rest |-> f.rest, cur |-> NoSub,
                 from |-> f.from, called |-> f.called, added |-> f.added]
      BY <1>2 DEF FiringOK
    <2>. HIDE DEF now
    <2>. QED BY <1>2, <2>1 DEF FiringOK
  <1>. HIDE DEF now
  <1>4. /\ IsSeq(t) /\ Len(t) = Len(s) /\ t[k] = now
        /\ \A i \in 1..Len(s) : i # k => t[i] = s[i]
    <2>1. DOMAIN s = 1..Len(s) BY <1>2, SeqIs
    <2>2. /\ DOMAIN t = DOMAIN s /\ t = [i \in DOMAIN t |-> t[i]]
          /\ t[k] = now /\ \A i \in 1..Len(s) : i # k => t[i] = s[i]
      BY <2>1
    <2>. HIDE DEF t
    <2>. QED BY <1>2, <2>2, Changed
  <1>. HIDE DEF t
  <1>5. \A i \in 1..Len(t) : FiringOK(t[i], subs, nextSub) BY <1>3, <1>4 DEF FiringsOK
  <1>. QED BY <1>1, <1>4, <1>5 DEF FiringsOK

(* The frames under the top one, and the top one.                           *)
LEMMA FrontOK ==
  ASSUME EntityInv, firing # <<>>
  PROVE  FiringsOK(Front(firing), subs, nextSub) /\ Len(Front(firing)) = Len(firing) - 1
         /\ Len(firing) \in Nat /\ Len(firing) >= 1 /\ FiringOK(Last(firing), subs, nextSub)
  <1>1. IsSeq(firing) BY DEF EntityInv, FiringsOK
  <1>2. /\ IsSeq(Front(firing)) /\ Len(Front(firing)) = Len(firing) - 1 /\ Len(firing) >= 1
        /\ \A i \in 1..(Len(firing) - 1) : Front(firing)[i] = firing[i]
    BY <1>1, Popped
  <1>3. Len(firing) \in Nat BY <1>1, SeqIs
  <1>4. \A i \in 1..Len(Front(firing)) : FiringOK(Front(firing)[i], subs, nextSub)
    BY <1>2, <1>3 DEF EntityInv, FiringsOK
  <1>5. FiringOK(Last(firing), subs, nextSub) BY <1>2, <1>3 DEF EntityInv, FiringsOK, Last
  <1>. QED BY <1>2, <1>3, <1>4, <1>5 DEF FiringsOK

(* A handler returns or a firing ends.                                      *)
LEMMA FiringsHold ==
  ASSUME EntityInv, EntityHandlerReturns \/ TraversalFails \/ FiringEnds PROVE EntityInv'
  <1>1. firing # <<>> /\ UNCHANGED <<subs, nextSub>>
    BY DEF EntityHandlerReturns, TraversalFails, FiringEnds
  <1>2. SUFFICES FiringsOK(firing', subs, nextSub) BY <1>1 DEF EntityInv
  <1>3. CASE EntityHandlerReturns
    <2>1. Len(firing) \in 1..Len(firing) BY <1>1, FrontOK
    <2>. QED BY <1>3, <2>1, DoneOK DEF EntityHandlerReturns, EntityInv
  <1>4. CASE TraversalFails
    <2>1. CASE Len(firing) = 1
      <3>1. firing' = <<>> BY <1>4, <2>1 DEF TraversalFails
      <3>2. firing' = [i \in 1..0 |-> firing'[i]] BY <3>1
      <3>3. IsSeq(firing') /\ Len(firing') = 0 BY <3>2, MakesSeq
      <3>. QED BY <3>3 DEF FiringsOK
    <2>2. CASE Len(firing) # 1
      <3>1. firing' = [Front(firing) EXCEPT ![Len(firing) - 1].cur = NoSub]
        BY <1>4, <2>2 DEF TraversalFails
      <3>2. Len(firing) - 1 \in 1..Len(Front(firing)) /\ FiringsOK(Front(firing), subs, nextSub)
        BY <1>1, <2>2, FrontOK
      <3>. QED BY <3>1, <3>2, DoneOK
    <2>. QED BY <2>1, <2>2
  <1>5. CASE FiringEnds BY <1>1, <1>5, FrontOK DEF FiringEnds
  <1>. QED BY <1>3, <1>4, <1>5

(* Every step keeps them.                                                   *)
LEMMA EntityHolds == EntitySpec => []EntityInv
  <1>1. ASSUME EntityInv, [EntityNext]_entityVars PROVE EntityInv'
    <2>1. CASE UNCHANGED <<subs, nextSub, firing>> BY <1>1, <2>1 DEF EntityInv, FiringsOK
    <2>2. ASSUME NEW e \in Entities, EngineCreates(e) \/ EngineDestroys(e) \/ EngineChanges(e)
          PROVE  UNCHANGED <<subs, nextSub, firing>>
      BY <2>2 DEF EngineCreates, EngineDestroys, EngineChanges
    <2>3. ASSUME DeliverComponentEvents PROVE UNCHANGED <<subs, nextSub, firing>>
      BY <2>3 DEF DeliverComponentEvents
    <2>4. ASSUME UNCHANGED entityVars PROVE UNCHANGED <<subs, nextSub, firing>>
      BY <2>4 DEF entityVars
    <2>. QED BY <1>1, <2>1, <2>2, <2>3, <2>4, SubscribeHolds, UnsubscribeHolds, FiredHolds,
                CallHolds, FiringsHold DEF EntityNext
  <1>. QED BY <1>1, EntityStarts, PTL DEF EntitySpec

(***************************************************************************)
(* When the firing of an event is over, whoever was subscribed to it then  *)
(* and still is has been called, and the rest of the delivery goes on:     *)
(* unless a handler subscribed to something meanwhile (lua_host.cpp,       *)
(* FireEntityEvent, DeliverComponentEvents).                               *)
(***************************************************************************)
THEOREM EventsReachWhoStays == EntitySpec => NothingDroppedUnlessAdded
  <1>. DEFINE Reached == Len(firing') < Len(firing) =>
                \/ Last(firing).added
                \/ /\ Last(firing).from \cap DOMAIN subs \subseteq Last(firing).called
                   /\ deliver' = deliver
  <1>1. ASSUME EntityInv, [EntityNext]_entityVars PROVE [Reached]_firing
    <2>1. SUFFICES ASSUME Len(firing') < Len(firing), firing' # firing PROVE Reached
      OBVIOUS
    <2>2. IsSeq(firing) /\ Len(firing) \in Nat BY <1>1, SeqIs DEF EntityInv, FiringsOK
    <2>3. ASSUME FireEntityEvent \/ \E e \in Entities : CreateComponentImmediate(e) PROVE FALSE
      <3>1. firing' = firing \/ (firing = <<>> /\ Len(firing') = 1)
              \/ \E kind, e : firing' = Append(firing, EntityFrame(kind, e))
        BY <2>3 DEF FireEntityEvent, CreateComponentImmediate
      <3>. QED BY <2>1, <2>2, <3>1, Pushed
    <2>4. ASSUME NEW kind, NEW e, NEW once, NEW world, SubscribeEntity(kind, e, once, world)
          PROVE  FALSE
      <3>1. PICK left : firing' = [i \in DOMAIN firing |->
                                     [firing[i] EXCEPT !.rest = left[i], !.added = TRUE]]
        BY <2>4 DEF SubscribeEntity
      <3>2. DOMAIN firing = 1..Len(firing) BY <2>2, SeqIs
      <3>3. firing' = [i \in 1..Len(firing) |-> firing'[i]] BY <3>1, <3>2
      <3>4. Len(firing') = Len(firing) BY <2>2, <3>3, MakesSeq
      <3>. QED BY <2>1, <2>2, <3>4
    <2>5. ASSUME NEW id, CallHandler(id) PROVE FALSE
      <3>1. PICK f : firing' = [firing EXCEPT ![Len(firing)] = f] BY <2>5 DEF CallHandler
      <3>2. DOMAIN firing' = DOMAIN firing /\ firing' = [i \in DOMAIN firing' |-> firing'[i]]
        BY <3>1
      <3>3. Len(firing') = Len(firing) BY <2>2, <3>2, Changed
      <3>. QED BY <2>1, <2>2, <3>3
    <2>6. ASSUME EntityHandlerReturns PROVE FALSE
      <3>1. PICK f : firing' = [firing EXCEPT ![Len(firing)] = f]
        BY <2>6 DEF EntityHandlerReturns
      <3>2. DOMAIN firing' = DOMAIN firing /\ firing' = [i \in DOMAIN firing' |-> firing'[i]]
        BY <3>1
      <3>3. Len(firing') = Len(firing) BY <2>2, <3>2, Changed
      <3>. QED BY <2>1, <2>2, <3>3
    <2>7. ASSUME TraversalFails PROVE Reached BY <2>7 DEF TraversalFails
    <2>8. ASSUME FiringEnds PROVE Reached
      <3>. DEFINE f == Last(firing)
      <3>1. FiringOK(f, subs, nextSub) BY <1>1, <2>8, FrontOK DEF FiringEnds
      <3>2. /\ \A id \in f.rest \cap DOMAIN subs : ~Matches(subs[id], f.kind, f.entity)
            /\ deliver' = deliver
        BY <2>8 DEF FiringEnds
      <3>. HIDE DEF f
      <3>3. f.added \/ f.from \cap DOMAIN subs \subseteq f.called BY <3>1, <3>2 DEF FiringOK
      <3>. QED BY <3>2, <3>3 DEF f
    <2>9. ASSUME UNCHANGED firing PROVE FALSE BY <2>1, <2>9
    <2>10. ASSUME NEW id, UnsubscribeEntity(id) PROVE UNCHANGED firing
      BY <2>10 DEF UnsubscribeEntity
    <2>11. ASSUME NEW e \in Entities, EngineCreates(e) \/ EngineDestroys(e) \/ EngineChanges(e)
           PROVE  UNCHANGED firing
      BY <2>11 DEF EngineCreates, EngineDestroys, EngineChanges
    <2>12. ASSUME DeliverComponentEvents \/ UNCHANGED entityVars PROVE UNCHANGED firing
      BY <2>12 DEF DeliverComponentEvents, entityVars
    <2>. HIDE DEF Reached
    <2>. QED BY <1>1, <2>3, <2>4, <2>5, <2>6, <2>7, <2>8, <2>9, <2>10, <2>11, <2>12 DEF EntityNext
  <1>2. EntitySpec => [][Reached]_firing BY <1>1, EntityHolds, PTL DEF EntitySpec
  <1>. QED BY <1>2 DEF NothingDroppedUnlessAdded

-----------------------------------------------------------------------------
(* LuaEvents, what is around the events: the message whose event is being   *)
(* thrown, if any, is asked for and not yet ended; every other one was      *)
(* ended once.                                                              *)
IsThrown(e) ==
    e = [name |-> e.name, can |-> e.can, prevented |-> e.prevented, input |-> e.input]
ThrownOK ==
    /\ IsSeq(thrown) /\ \A i \in 1..Len(thrown) : IsThrown(thrown[i])
    /\ \A i, j \in 1..Len(thrown) : thrown[i].name = "Log" /\ thrown[j].name = "Log" => i = j
    /\ dispatchingLog => \E i \in 1..Len(thrown) : thrown[i].name = "Log"
    /\ ~ dispatchingLog => \A i \in 1..Len(thrown) : thrown[i].name # "Log"
LinesOK ==
    /\ dispatchingLog \in BOOLEAN
    /\ lines \in [asked : Nat, written : Nat, prevented : Nat]
    /\ dispatchingLog => lines.asked = lines.written + lines.prevented + 1
    /\ ~ dispatchingLog => lines.asked = lines.written + lines.prevented
LogInv == ThrownOK /\ LinesOK

(* Nothing is thrown at first.                                              *)
LEMMA LogStarts == ASSUME EngineEventsInit PROVE LogInv
  <1>1. /\ thrown = <<>> /\ dispatchingLog = FALSE
        /\ lines = [asked |-> 0, written |-> 0, prevented |-> 0]
    BY DEF EngineEventsInit
  <1>2. IsSeq(thrown) /\ Len(thrown) = 0
    BY <1>1 DEF IsSeq
  <1>3. /\ lines \in [asked : Nat, written : Nat, prevented : Nat]
        /\ lines.asked = lines.written + lines.prevented
    BY <1>1
  <1>4. LinesOK
    BY <1>1, <1>3, Zenon DEF LinesOK
  <1>. QED
    BY <1>1, <1>2, <1>4 DEF LogInv, ThrownOK

(* The input's events are none of the log's.                                *)
LEMMA InputNames == ASSUME NEW kind \in DOMAIN InputEvent PROVE InputEvent[kind].name # "Log"
  <1>1. kind \in {1, 2, 3, 4, 5, 6}
    BY DEF InputEvent
  <1>2. /\ InputEvent[1].name = "KeyInput"
        /\ InputEvent[2].name = "MouseButtonInput"
        /\ InputEvent[3].name = "MouseWheelInput"
        /\ InputEvent[4].name = "ControllerAxisInput"
        /\ InputEvent[5].name = "ControllerButtonInput"
        /\ InputEvent[6].name = "ViewportResized"
    BY DEF InputEvent
  <1>. HIDE DEF InputEvent
  <1>. QED
    BY <1>1, <1>2

(* An event is thrown inside the others.                                    *)
LEMMA ThrowOne ==
  ASSUME ThrownOK, NEW e, IsThrown(e), thrown' = Append(thrown, e),
         \/ e.name # "Log" /\ UNCHANGED dispatchingLog
         \/ e.name = "Log" /\ ~ dispatchingLog /\ dispatchingLog' = TRUE
  PROVE  ThrownOK'
  <1>1. /\ IsSeq(thrown') /\ Len(thrown') = Len(thrown) + 1 /\ thrown'[Len(thrown) + 1] = e
        /\ \A i \in 1..Len(thrown) : thrown'[i] = thrown[i]
    BY Pushed DEF ThrownOK
  <1>2. Len(thrown) \in Nat
    BY SeqIs DEF ThrownOK
  <1>. QED
    BY <1>1, <1>2 DEF ThrownOK

(* An event that is not the log's is thrown.                                *)
LEMMA FireToHolds ==
  ASSUME LogInv, NEW name, name # "Log", NEW preventable, NEW input,
         FireTo(name, preventable, input)
  PROVE  LogInv'
  <1>. DEFINE e == [name |-> name, can |-> preventable, prevented |-> FALSE, input |-> input]
  <1>1. IsThrown(e) /\ e.name # "Log"
    BY DEF IsThrown
  <1>2. thrown' = Append(thrown, e) /\ UNCHANGED <<dispatchingLog, lines>>
    BY DEF FireTo, logVars
  <1>. HIDE DEF e
  <1>3. ThrownOK'
    BY <1>1, <1>2, ThrowOne DEF LogInv
  <1>. QED
    BY <1>2, <1>3 DEF LogInv, LinesOK

(* A handler keeps the innermost event's default from being done.           *)
LEMMA PreventHolds == ASSUME LogInv, PreventAction PROVE LogInv'
  <1>. DEFINE n == Len(thrown)
  <1>1. /\ thrown # <<>> /\ thrown' = [thrown EXCEPT ![n].prevented = TRUE]
        /\ UNCHANGED <<dispatchingLog, lines>>
    BY DEF PreventAction, logVars
  <1>2. IsSeq(thrown) /\ n \in Nat /\ DOMAIN thrown = 1..n
    BY SeqIs DEF LogInv, ThrownOK
  <1>3. IsSeq(thrown') /\ Len(thrown') = n
    BY <1>1, <1>2, Changed
  <1>4. ASSUME NEW i \in 1..n PROVE IsThrown(thrown'[i]) /\ thrown'[i].name = thrown[i].name
    <2>. DEFINE e == thrown[i]
    <2>1. e = [name |-> e.name, can |-> e.can, prevented |-> e.prevented, input |-> e.input]
      BY DEF IsThrown, LogInv, ThrownOK
    <2>2. thrown'[i] = e \/ thrown'[i] = [e EXCEPT !.prevented = TRUE]
      BY <1>1, <1>2
    <2>. HIDE DEF e
    <2>3. DOMAIN e = {"name", "can", "prevented", "input"}
      BY <2>1
    <2>4. CASE thrown'[i] = [e EXCEPT !.prevented = TRUE]
      BY <2>1, <2>3, <2>4 DEF e, IsThrown
    <2>. QED
      BY <2>1, <2>2, <2>4 DEF e, IsThrown
  <1>. QED
    BY <1>1, <1>3, <1>4 DEF LogInv, ThrownOK, LinesOK

(* A throw ends: with the log event's its message is ended.                 *)
LEMMA ThrownHolds == ASSUME LogInv, Thrown PROVE LogInv'
  <1>. DEFINE n == Len(thrown)
              e == thrown[n]
  <1>1. /\ IsSeq(thrown') /\ Len(thrown') = n - 1 /\ n >= 1 /\ n \in Nat
        /\ \A i \in 1..n - 1 : thrown'[i] = thrown[i]
    BY Popped, SeqIs DEF Thrown, LogInv, ThrownOK, Front
  <1>2. CASE e.name = "Log"
    <2>1. dispatchingLog /\ dispatchingLog' = FALSE
      BY <1>1, <1>2 DEF Thrown, LogInv, ThrownOK
    <2>2. \A i \in 1..n - 1 : thrown[i].name # "Log"
      BY <1>1, <1>2 DEF LogInv, ThrownOK
    <2>3. \/ lines' = [lines EXCEPT !.prevented = @ + 1]
          \/ lines' = [lines EXCEPT !.written = @ + 1]
      BY <1>2 DEF Thrown
    <2>4. /\ lines \in [asked : Nat, written : Nat, prevented : Nat]
          /\ lines.asked = lines.written + lines.prevented + 1
      BY <2>1, Zenon DEF LogInv, LinesOK
    <2>5. /\ lines' \in [asked : Nat, written : Nat, prevented : Nat]
          /\ lines'.asked = lines'.written + lines'.prevented
      BY <2>3, <2>4
    <2>6. LinesOK'
      BY <2>1, <2>5, Zenon DEF LinesOK
    <2>. QED
      BY <1>1, <2>1, <2>2, <2>6 DEF LogInv, ThrownOK
  <1>3. CASE e.name # "Log"
    <2>1. UNCHANGED <<dispatchingLog, lines>>
      BY <1>3 DEF Thrown, logVars
    <2>2. \A i \in 1..n : thrown[i].name = "Log" => i \in 1..n - 1
      BY <1>1, <1>3
    <2>3. LinesOK'
      BY <2>1 DEF LogInv, LinesOK
    <2>4. \A i \in 1..n - 1 : i \in 1..n
      BY <1>1
    <2>5. /\ \A i \in 1..n : IsThrown(thrown[i])
          /\ \A i, j \in 1..n : thrown[i].name = "Log" /\ thrown[j].name = "Log" => i = j
          /\ dispatchingLog => \E i \in 1..n : thrown[i].name = "Log"
          /\ ~ dispatchingLog => \A i \in 1..n : thrown[i].name # "Log"
      BY DEF LogInv, ThrownOK
    <2>. HIDE DEF n, e
    <2>6. ThrownOK'
      BY <1>1, <2>1, <2>2, <2>4, <2>5 DEF ThrownOK
    <2>. QED
      BY <2>3, <2>6 DEF LogInv
  <1>. QED
    BY <1>2, <1>3

(* A message is logged, by a handler of the log event or by anyone else.    *)
LEMMA LogHolds == ASSUME LogInv, NEW level, LogMessage(level) PROVE LogInv'
  <1>1. CASE dispatchingLog
    <2>1. /\ lines' = [lines EXCEPT !.asked = @ + 1, !.written = @ + 1]
          /\ UNCHANGED <<thrown, dispatchingLog>>
      BY <1>1 DEF LogMessage
    <2>2. /\ lines \in [asked : Nat, written : Nat, prevented : Nat]
          /\ lines.asked = lines.written + lines.prevented + 1
      BY <1>1, Zenon DEF LogInv, LinesOK
    <2>3. /\ lines' \in [asked : Nat, written : Nat, prevented : Nat]
          /\ lines'.asked = lines'.written + lines'.prevented + 1
      <3>1. PICK a \in Nat, w \in Nat, p \in Nat :
                lines = [asked |-> a, written |-> w, prevented |-> p]
        BY <2>2
      <3>2. lines' = [asked |-> a + 1, written |-> w + 1, prevented |-> p]
        BY <2>1, <3>1
      <3>3. a = w + p + 1
        BY <2>2, <3>1
      <3>. QED
        BY <3>2, <3>3
    <2>4. LinesOK'
      BY <1>1, <2>1, <2>3 DEF LinesOK
    <2>. QED
      BY <2>1, <2>4 DEF LogInv, ThrownOK
  <1>2. CASE ~ dispatchingLog
    <2>. DEFINE e == [name |-> "Log", can |-> TRUE, prevented |-> FALSE, input |-> FALSE]
    <2>1. IsThrown(e) /\ e.name = "Log"
      BY DEF IsThrown
    <2>2. /\ thrown' = Append(thrown, e) /\ dispatchingLog' = TRUE
          /\ lines' = [lines EXCEPT !.asked = @ + 1]
      BY <1>2 DEF LogMessage
    <2>3. LinesOK'
      BY <1>2, <2>2 DEF LogInv, LinesOK
    <2>. HIDE DEF e
    <2>4. ThrownOK'
      BY <1>2, <2>1, <2>2, ThrowOne DEF LogInv
    <2>. QED
      BY <2>3, <2>4 DEF LogInv
  <1>. QED
    BY <1>1, <1>2

(* Every step of the events keeps the log's.                                *)
LEMMA LogKept == EngineEventsSpec => []LogInv
  <1>1. ASSUME LogInv, [EngineEventsNext]_engineEventVars PROVE LogInv'
    <2>. USE <1>1
    <2>5. ASSUME UNCHANGED <<thrown, dispatchingLog, lines>> PROVE LogInv'
      BY <2>5 DEF LogInv, ThrownOK, LinesOK
    <2>1. ASSUME NEW name \in (SharedEvents \ {"Log"}) \cup ServerEvents, FireEvent(name)
          PROVE  LogInv'
      <3>1. name # "Log"
        BY DEF SharedEvents, ServerEvents
      <3>. QED
        BY <2>1, <3>1, FireToHolds DEF FireEvent
    <2>2. ASSUME NEW kind \in DOMAIN InputEvent, FireInput(kind) PROVE LogInv'
      BY <2>2, InputNames, FireToHolds DEF FireInput
    <2>3. CASE PreventAction \/ Thrown
      BY <2>3, PreventHolds, ThrownHolds
    <2>4. ASSUME NEW level \in 1..Len(LogLevels), LogMessage(level) \/ SetLogLevel(level)
          PROVE  LogInv'
      <3>1. CASE LogMessage(level)
        BY <3>1, LogHolds
      <3>2. CASE SetLogLevel(level)
        BY <2>5, <3>2 DEF SetLogLevel
      <3>. QED
        BY <2>4, <3>1, <3>2
    <2>6. ASSUME NEW m \in EventMods \cup {"none"}, Bootstraps(m) PROVE LogInv'
      BY <2>5, <2>6 DEF Bootstraps, logVars
    <2>7. ASSUME NEW m \in EventMods, NEW e \in ModEventNames,
                 \/ RegisterModEvent(m, e)
                 \/ \E listener \in Listeners : SubscribeModEvent(m, e, listener)
          PROVE  LogInv'
      BY <2>5, <2>7 DEF RegisterModEvent, SubscribeModEvent, logVars
    <2>8. ASSUME NEW name \in CommandNames, NEW listener \in Listeners,
                 RegisterConsoleCommand(name, listener)
          PROVE  LogInv'
      BY <2>5, <2>8 DEF RegisterConsoleCommand, logVars
    <2>9. CASE UNCHANGED engineEventVars
      BY <2>5, <2>9 DEF engineEventVars
    <2>. QED
      BY <2>1, <2>2, <2>3, <2>4, <2>6, <2>7, <2>8, <2>9 DEF EngineEventsNext
  <1>. QED
    BY <1>1, LogStarts, PTL DEF EngineEventsSpec

(* A step that changes the mods' events adds one, or a subscriber to one.   *)
LEMMA SubscribersStay ==
  ASSUME [EngineEventsNext]_engineEventVars
  PROVE  \A x \in DOMAIN modEvents :
             x \in DOMAIN modEvents' /\ modEvents[x] \subseteq modEvents'[x]
  <1>1. ASSUME NEW m, NEW e, NEW listener, SubscribeModEvent(m, e, listener)
        PROVE  \A x \in DOMAIN modEvents :
                   x \in DOMAIN modEvents' /\ modEvents[x] \subseteq modEvents'[x]
    BY <1>1 DEF SubscribeModEvent
  <1>2. ASSUME NEW m, NEW e, RegisterModEvent(m, e)
        PROVE  \A x \in DOMAIN modEvents :
                   x \in DOMAIN modEvents' /\ modEvents[x] \subseteq modEvents'[x]
    BY <1>2 DEF RegisterModEvent
  <1>3. ASSUME UNCHANGED modEvents
        PROVE  \A x \in DOMAIN modEvents :
                   x \in DOMAIN modEvents' /\ modEvents[x] \subseteq modEvents'[x]
    BY <1>3
  <1>4. \/ \E m \in EventMods, e \in ModEventNames :
              \/ RegisterModEvent(m, e)
              \/ \E listener \in Listeners : SubscribeModEvent(m, e, listener)
        \/ UNCHANGED modEvents
    BY DEF EngineEventsNext, engineEventVars, FireEvent, FireInput, FireTo, PreventAction,
           Thrown, LogMessage, SetLogLevel, Bootstraps, RegisterConsoleCommand
  <1>. QED
    BY <1>1, <1>2, <1>3, <1>4

(* Whoever subscribes to a mod's event hears it from then on, whichever of  *)
(* the two mods is loaded first, and an event a mod registers once more is  *)
(* kept; and what a handler of Ext.Events.Log logs throws no second event   *)
(* inside the first, every message being written or held back once: the     *)
(* ModEvents and the Logger of the Lua prelude.                             *)
THEOREM EventsComeToTheirs == EngineEventsSpec => EventsReachTheirs
  <1>1. LogInv => LogEndsEachMessage
    <2>. SUFFICES ASSUME LogInv PROVE LogEndsEachMessage
      OBVIOUS
    <2>. DEFINE L == {i \in DOMAIN thrown : thrown[i].name = "Log"}
    <2>1. DOMAIN thrown = 1..Len(thrown)
      BY DEF LogInv, ThrownOK
    <2>2. L = {} \/ \E i \in L : L = {i}
      BY <2>1 DEF LogInv, ThrownOK
    <2>3. Cardinality(L) <= 1
      <3>. HIDE DEF L
      <3>. QED
        <4>1. CASE L = {}
          BY <4>1, FS_EmptySet
        <4>2. ASSUME NEW i \in L, L = {i} PROVE Cardinality(L) = 1
          BY <4>2, FS_Singleton, Zenon
        <4>. QED
          BY <2>2, <4>1, <4>2
    <2>4. thrown = <<>> => lines.asked = lines.written + lines.prevented
      <3>1. ASSUME thrown = <<>> PROVE ~ dispatchingLog
        <4>1. Len(thrown) = 0
          BY <3>1
        <4>. QED
          BY <4>1 DEF LogInv, ThrownOK
      <3>. QED
        BY <3>1, Zenon DEF LogInv, LinesOK
    <2>. QED
      BY <2>3, <2>4 DEF LogEndsEachMessage
  <1>2. [EngineEventsNext]_engineEventVars =>
            [\A x \in DOMAIN modEvents :
                x \in DOMAIN modEvents' /\ modEvents[x] \subseteq modEvents'[x]]_modEvents
    BY SubscribersStay
  <1>. QED
    BY <1>1, <1>2, LogKept, PTL DEF EngineEventsSpec, EventsReachTheirs, ModSubscribersKept
=============================================================================
