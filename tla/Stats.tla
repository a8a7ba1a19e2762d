------------------------------- MODULE Stats -------------------------------
(***************************************************************************)
(* Ext.Stats: the engine's stats as Lua sees them (lua_host.cpp).  A stat  *)
(* has one number per attribute; what the number means is the attribute's  *)
(* kind: the value itself, a label's index, or the index of an entry in a  *)
(* pool all stats share.  Ext.Stats.Get makes a proxy, which caches what   *)
(* it reads; several proxies can stand for one stat.                       *)
(*                                                                         *)
(* A behaviour follows one attribute, of each kind in turn.  A Lua value   *)
(* is [k, v]: nil, integer, string or list (of strings).                   *)
(***************************************************************************)
EXTENDS Integers, Sequences, SequencesExt, FiniteSets, FiniteSetsExt

CONSTANTS
    StatKinds,     \* the kinds of attribute looked at
    StatList,      \* stat -> its modifier list
    Proxies,       \* the proxies scripts hold
    GivenValues,   \* the Lua values assigned, a sequence
    LabelIndex,    \* the enumeration: label -> its index
    StatNumber,        \* text -> the number it reads as, for those that do
    Parts,         \* text -> its parts between semicolons
    StatGuids,         \* the texts that are GUIDs
    PoolRoom,      \* the capacity of a pool
    MaxFunctors,   \* bound: functors made
    MaxSets,       \* bound: functor sets made
    MaxNames       \* bound: names of a combo set

Direct == {"int", "enum"}
Pooled == {"float", "flags", "string", "condition", "guid"}
StatLists == {"functors", "requirements", "combo", "roll"}

ASSUME StatsAssumption ==
    /\ StatKinds \subseteq Direct \union Pooled \union StatLists \union {"aiflags", "memo"}
    /\ PoolRoom \in Nat

VARIABLES
    attr,       \* the kind of the attribute this behaviour is about
    statSlot,       \* stat -> what the engine holds for it
    statPool,       \* the entries of the attribute's pool, shared by all stats
    sets,       \* the functor sets; a stat's slot is the index of one
    proxies,    \* proxy -> its stat and what it has cached, if anything
    behind,     \* the proxies whose cache the engine has left behind
    statWritten     \* the last write: its stat and whether it was taken

statVars == <<attr, statSlot, statPool, sets, proxies, behind, statWritten>>

StatNames == DOMAIN StatList
LuaNil == [k |-> "nil", v |-> 0]
Num(n) == [k |-> "integer", v |-> n]
Text(t) == [k |-> "string", v |-> t]
ListOf(s) == [k |-> "list", v |-> s]
Same(a, b) == a.k = b.k /\ a.v = b.v

Unset == -1
NoCache == <<>>
NoProxy == [stat |-> "none", cache |-> NoCache]

EmptyStat(kind) ==
    CASE kind \in Direct -> 0
      [] kind \in Pooled -> Unset
      [] kind = "functors" -> 0
      [] kind \in {"requirements", "combo"} -> <<>>
      [] kind = "roll" -> {}
      [] OTHER -> ""

StatsInit ==
    /\ attr \in StatKinds
    /\ statSlot = [s \in StatNames |-> EmptyStat(attr)]
    /\ statPool = <<>>
    /\ sets = <<>>
    /\ proxies = [p \in Proxies |-> NoProxy]
    /\ behind = {}
    /\ statWritten = [stat |-> {}, taken |-> FALSE]

-----------------------------------------------------------------------------
\* Reading: read_attribute.

\* A mask's labels, in the enumeration's order: index n is bit n - 1.
LabelsOf(mask) == {l \in DOMAIN LabelIndex : LabelIndex[l] - 1 \in mask}

PoolEntry(raw) == IF raw \in DOMAIN statPool THEN <<statPool[raw]>> ELSE <<>>

\* StatsAttrLabel: the label with that index, none for a number without one.
ReadLabel(raw) ==
    LET labels == {l \in DOMAIN LabelIndex : LabelIndex[l] = raw}
    IN  IF labels = {} THEN Text("") ELSE Text(CHOOSE l \in labels : TRUE)

\* StatsAttrFloat and StatsAttrGuid: nil where the index is not in the pool.
ReadFloat(raw) == IF PoolEntry(raw) = <<>> THEN LuaNil ELSE Num(statPool[raw])
ReadGuid(raw) == IF PoolEntry(raw) = <<>> THEN LuaNil ELSE Text(statPool[raw])

\* StatsAttrString, and the conditions alike: "" where it is not.
ReadText(raw) == IF PoolEntry(raw) = <<>> THEN Text("") ELSE Text(statPool[raw])

\* StatsAttrFlags: an empty list where it is not.
ReadFlags(raw) ==
    [k |-> "flags", v |-> IF PoolEntry(raw) = <<>> THEN {} ELSE LabelsOf(statPool[raw])]

\* StatsFunctorGroups: one group, or nil for a stat without functors.
ReadFunctorGroups(raw) ==
    IF raw = 0 THEN LuaNil ELSE [k |-> "list", v |-> sets[raw], set |-> raw]

\* StatsRequirements, and StatsComboGet: the stat's own lists.
ReadRequirements(raw) == ListOf(raw)
ReadCombo(raw) == ListOf(raw)

\* StatsRollConditions: name -> expression, nil for a stat without any.
ReadRolls(raw) == IF raw = {} THEN LuaNil ELSE [k |-> "rolls", v |-> raw]

\* StatsAIFlags: text on the stat itself.
ReadAiFlags(raw) == Text(raw)

\* read_attribute, by kind; MemorizationRequirements are never there.
ReadAttribute(s) ==
    LET raw == statSlot[s]
    IN  CASE attr = "int" -> Num(raw)
          [] attr = "enum" -> ReadLabel(raw)
          [] attr = "float" -> ReadFloat(raw)
          [] attr = "guid" -> ReadGuid(raw)
          [] attr \in {"string", "condition"} -> ReadText(raw)
          [] attr = "flags" -> ReadFlags(raw)
          [] attr = "functors" -> ReadFunctorGroups(raw)
          [] attr = "requirements" -> ReadRequirements(raw)
          [] attr = "combo" -> ReadCombo(raw)
          [] attr = "roll" -> ReadRolls(raw)
          [] attr = "aiflags" -> ReadAiFlags(raw)
          [] attr = "memo" -> LuaNil

CachedStat(p) == proxies[p].cache # NoCache

\* Ext.Stats.Get: a proxy with nothing cached.
GetStat(p, s) ==
    /\ proxies' = [proxies EXCEPT ![p] = [stat |-> s, cache |-> NoCache]]
    /\ behind' = behind \ {p}
    /\ UNCHANGED <<attr, statSlot, statPool, sets, statWritten>>

\* stat_proxy.__index, and __pairs, which reads what is not cached yet.
StatIndex(p) ==
    /\ proxies[p] # NoProxy /\ ~ CachedStat(p)
    /\ proxies' = [proxies EXCEPT ![p].cache = <<ReadAttribute(proxies[p].stat)>>]
    /\ UNCHANGED <<attr, statSlot, statPool, sets, behind, statWritten>>

-----------------------------------------------------------------------------
\* Writing: stat_write.  An encoding is <<>> when the value is refused, else
\* <<the stat's new number or content, the pool after it>>.

\* An entry the pool has is shared; a new one takes the spare capacity.
Intern(entry) ==
    IF \E i \in DOMAIN statPool : statPool[i] = entry
    THEN <<CHOOSE i \in DOMAIN statPool : statPool[i] = entry, statPool>>
    ELSE IF Len(statPool) < PoolRoom THEN <<Len(statPool) + 1, Append(statPool, entry)>> ELSE <<>>

Stored(content) == <<content, statPool>>

\* SetRawAttribute takes stats-file text: "" resets a number or label to 0 and
\* a float to nothing, a number may be text, flags and names are split.
FromText(value) ==
    IF value.k # "string" THEN value
    ELSE CASE value.v = "" /\ attr \in Direct -> Num(0)
           [] value.v = "" /\ attr \in {"float", "guid"} -> LuaNil
           [] attr \in {"int", "float"} /\ value.v \in DOMAIN StatNumber -> Num(StatNumber[value.v])
           [] attr \in {"flags", "requirements"} -> ListOf(Parts[value.v])
           [] OTHER -> value

\* A flag set is one entry of the int64 pool: bit n - 1 for index n.
EncodeFlags(value) ==
    LET labels == IF value.k = "string" THEN <<value.v>> ELSE value.v
    IN  IF value.k \notin {"string", "list"} \/ \E i \in DOMAIN labels : labels[i] \notin DOMAIN LabelIndex
        THEN <<>>
        ELSE Intern({LabelIndex[labels[i]] - 1 : i \in DOMAIN labels} \ {-1})

\* StatsFloatIntern; nil clears the attribute.
EncodeFloat(value) ==
    CASE value.k = "nil" -> Stored(Unset)
      [] value.k = "integer" -> Intern(value.v)
      [] OTHER -> <<>>

\* StatsGuidIntern: text that is no GUID is refused.
EncodeGuid(value) ==
    CASE value.k = "nil" -> Stored(Unset)
      [] value.k = "string" /\ value.v \in StatGuids -> Intern(value.v)
      [] OTHER -> <<>>

\* StatsStringIntern.
EncodeText(value) == IF value.k = "string" THEN Intern(value.v) ELSE <<>>

\* StatsConditionIntern; "" is no condition.
EncodeCondition(value) ==
    CASE value.k # "string" -> <<>>
      [] value.v = "" -> Stored(Unset)
      [] OTHER -> Intern(value.v)

NumberText(n) == CHOOSE t \in DOMAIN StatNumber : StatNumber[t] = n

\* StatsRollSet: one condition by the name Default for a text or number, none
\* for "", nil or a table without names.
EncodeRolls(value) ==
    LET text == IF value.k = "integer" THEN NumberText(value.v) ELSE value.v
    IN  IF value.k \in {"nil", "list"} THEN Stored({})
        ELSE IF text = "" THEN Stored({})
        ELSE Stored({<<"Default", text>>})

EncodeEnum(value) ==
    CASE value.k = "integer" -> Stored(value.v)
      [] value.k = "string" /\ value.v \in DOMAIN LabelIndex -> Stored(LabelIndex[value.v])
      [] OTHER -> <<>>

\* nil is no requirement, and text has no elements to go through, so that it
\* clears them too; a number raises, and a name that is none refuses the list.
EncodeRequirements(value) ==
    LET names == IF value.k = "list" THEN value.v ELSE <<>>
    IN  IF value.k = "integer" \/ \E i \in DOMAIN names : names[i] \notin DOMAIN LabelIndex
        THEN <<>>
        ELSE Stored(names)

Encode(value) ==
    CASE attr = "int" -> IF value.k = "integer" THEN Stored(value.v) ELSE <<>>
      [] attr = "enum" -> EncodeEnum(value)
      [] attr = "float" -> EncodeFloat(value)
      [] attr = "guid" -> EncodeGuid(value)
      [] attr = "string" -> EncodeText(value)
      [] attr = "condition" -> EncodeCondition(value)
      [] attr = "flags" -> EncodeFlags(value)
      [] attr = "requirements" -> EncodeRequirements(value)
      [] attr = "roll" -> EncodeRolls(value)
      [] OTHER -> <<>>

\* What is cached is dropped, to be read from the engine again.
Uncached(p) == [proxies EXCEPT ![p].cache = NoCache]
Others(p, s) == {q \in Proxies \ {p} : proxies[q].stat = s /\ CachedStat(q)}

Refused(s) ==
    /\ statWritten' = [stat |-> {s}, taken |-> FALSE]
    /\ UNCHANGED <<attr, statSlot, statPool, sets, proxies, behind>>

\* The stat's content is replaced, and the other proxies are not told.
Take(p, content, newPool, newProxies, left) ==
    LET s == proxies[p].stat
    IN  /\ statSlot' = [statSlot EXCEPT ![s] = content]
        /\ statPool' = newPool
        /\ proxies' = newProxies
        /\ behind' = (IF newProxies[p].cache = NoCache THEN behind \ {p} ELSE behind \union left)
                        \union Others(p, s)
        /\ statWritten' = [stat |-> {s}, taken |-> TRUE]
        /\ UNCHANGED <<attr, sets>>

\* The attributes that are a number: encoded, stored, and the cache dropped.
WriteSlot(p, value) ==
    LET e == Encode(value)
    IN  IF e = <<>> THEN Refused(proxies[p].stat)
        ELSE Take(p, e[1], e[2], Uncached(p), {})

\* StatsAIFlagsSet.
SetAiFlags(p, text) == Take(p, text, statPool, Uncached(p), {})

\* StatsSetFunctors: functor text is parsed into a set of its own.
SetFunctors(p, functor) ==
    LET s == proxies[p].stat
    IN  /\ sets' = Append(sets, <<functor>>)
        /\ statSlot' = [statSlot EXCEPT ![s] = Len(sets) + 1]
        /\ proxies' = Uncached(p)
        /\ behind' = (behind \ {p}) \union Others(p, s)
        /\ statWritten' = [stat |-> {s}, taken |-> TRUE]
        /\ UNCHANGED <<attr, statPool>>

\* ComboProperties and ComboCategories: the set is replaced, and what the
\* writing proxy had cached of it is kept.
ComboWrite(p, names) == Take(p, names, statPool, proxies, {})

\* stat.Attribute = value.  Functors and MemorizationRequirements are refused.
NewIndex(p, value) ==
    /\ proxies[p] # NoProxy
    /\ CASE attr = "combo" -> IF value.k = "list" THEN ComboWrite(p, value.v)
                              ELSE Refused(proxies[p].stat)
         [] attr = "aiflags" -> SetAiFlags(p, IF value.k = "string" THEN value.v ELSE "")
         [] attr \in {"functors", "memo"} -> Refused(proxies[p].stat)
         [] OTHER -> WriteSlot(p, value)

\* StatsCopyFrom: only within a modifier list.
SameList(p, from) == StatList[from] = StatList[proxies[p].stat]

\* Mutant: the cache is kept over the copy.
CopyFromKeepsCache(p, from, fails) ==
    /\ proxies[p] # NoProxy /\ from # proxies[p].stat
    /\ SameList(p, from)
    /\ ~ fails
    /\ Take(p, statSlot[from], statPool, proxies, {})

\* stat:CopyFrom(name): refused across modifier lists; functor sets are shared
\* with the source.  The maps are copied after the numbers, and a copy that
\* fails there leaves the cache as it was.
CopyFrom(p, from, fails) ==
    /\ proxies[p] # NoProxy /\ from # proxies[p].stat
    /\ IF ~ SameList(p, from) THEN Refused(proxies[p].stat)
       ELSE IF ~ fails THEN Take(p, statSlot[from], statPool, Uncached(p), {})
       ELSE IF attr \in {"functors", "roll"} THEN Refused(proxies[p].stat)
       ELSE Take(p, statSlot[from], statPool, proxies, IF CachedStat(p) THEN {p} ELSE {})

\* The functor group a proxy has read: AddNew and Remove change the set it was
\* read from and the list that was read, and nobody else's.
GroupOf(p) == attr = "functors" /\ CachedStat(p) /\ proxies[p].cache[1].k = "list"
Using(g) == {s \in StatNames : statSlot[s] = g}

EditGroup(p, functors, listed) ==
    LET g == proxies[p].cache[1].set
    IN  /\ sets' = [sets EXCEPT ![g] = functors]
        /\ proxies' = [proxies EXCEPT ![p].cache[1].v = listed]
        /\ behind' = behind \union {q \in Proxies \ {p} :
                                        GroupOf(q) /\ proxies[q].cache[1].set = g}
        /\ statWritten' = [stat |-> Using(g), taken |-> TRUE]
        /\ UNCHANGED <<attr, statSlot, statPool>>

\* An address no list holds.
FreshFunctor ==
    LET lists == {sets[g] : g \in DOMAIN sets}
                    \union {proxies[p].cache[1].v : p \in {q \in Proxies : GroupOf(q)}}
    IN  CHOOSE f \in 1..(MaxFunctors + 1) :
            \A l \in lists : ~ Contains(l, f)

AddNew(p) ==
    /\ GroupOf(p) /\ FreshFunctor <= MaxFunctors
    /\ LET c == proxies[p].cache[1]
       IN  EditGroup(p, Append(sets[c.set], FreshFunctor), Append(c.v, FreshFunctor))

\* A functor another view removed is not found, and the list keeps it.
RemoveFunctor(p, f) ==
    /\ GroupOf(p)
    /\ LET c == proxies[p].cache[1]
       IN  /\ Contains(c.v, f) /\ Contains(sets[c.set], f)
           /\ EditGroup(p, SelectSeq(sets[c.set], LAMBDA x : x # f),
                        SelectSeq(c.v, LAMBDA x : x # f))

\* stat:SetRawAttribute(name, text), which logs a refusal.  A ComboCategory
\* line is appended; functor text is parsed into a new set.
SetRawAttribute(p, value) ==
    /\ proxies[p] # NoProxy /\ value.k = "string"
    /\ CASE attr = "combo" ->
                LET names == statSlot[proxies[p].stat] \o Parts[value.v]
                IN  Len(names) <= MaxNames /\ ComboWrite(p, names)
         [] attr = "aiflags" -> SetAiFlags(p, value.v)
         [] attr = "memo" -> Refused(proxies[p].stat)
         [] attr = "functors" ->
                /\ Len(sets) < MaxSets /\ FreshFunctor <= MaxFunctors
                /\ SetFunctors(p, FreshFunctor)
         [] OTHER -> WriteSlot(p, FromText(value))

StatsNext ==
    \E p \in Proxies :
        \/ \E s \in StatNames : GetStat(p, s)
        \/ StatIndex(p)
        \/ \E i \in DOMAIN GivenValues :
               NewIndex(p, GivenValues[i]) \/ SetRawAttribute(p, GivenValues[i])
        \/ \E s \in StatNames, fails \in BOOLEAN : CopyFrom(p, s, fails)
        \/ AddNew(p)
        \/ \E f \in 1..MaxFunctors : RemoveFunctor(p, f)

StatsSpec == StatsInit /\ [][StatsNext]_statVars

-----------------------------------------------------------------------------

\* What a proxy has cached is what the engine holds, unless another proxy of
\* the stat wrote it since or a copy failed half way.
CachesAreCurrent ==
    \A p \in Proxies :
        CachedStat(p) /\ p \notin behind =>
            Same(proxies[p].cache[1], ReadAttribute(proxies[p].stat))

\* Every write of a proxy's own drops its cache or keeps it in step ("Read back
\* from the engine rather than cached as written", lua_host.cpp:15429), whatever
\* the attribute but for the combo sets.
CacheIsCurrent == attr # "combo" => CachesAreCurrent

\* Not so of ComboProperties and ComboCategories: stat_write returns before it
\* drops the cache (lua_host.cpp:15195), and what was read before is read again.
ComboCacheIsCurrent == attr = "combo" => CachesAreCurrent

\* A write changes what the stat it is made on reads as, and no other stat's,
\* though they share the pools; a refused one changes nothing.
WritesStayApart ==
    [][\A s \in StatNames :
          ~ Same(ReadAttribute(s), ReadAttribute(s)') => s \in statWritten'.stat /\ statWritten'.taken]_statVars

\* A write reaches its own stat only, and of every attribute but the combo sets
\* what the writing proxy has cached of it.
StatsInStep ==
    /\ [][CacheIsCurrent']_statVars
    /\ WritesStayApart
=============================================================================
