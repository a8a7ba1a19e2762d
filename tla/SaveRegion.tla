------------------------------ MODULE SaveRegion ----------------------------
(***************************************************************************)
(* The variables' part of the ScriptExtenderSave region (savegame.cpp):    *)
(* what Ext.Vars holds is turned into typed nodes under their owner's GUID *)
(* and read back into a store that has been cleared.  A save made where    *)
(* the Lua state cannot be asked, or when the asking fails, writes what    *)
(* the last read held.  Module SaveData has the caches' life over games    *)
(* and resets; here it is the values that matter, and one game.            *)
(*                                                                         *)
(* The LSF visitor is the engine's: it is taken to keep what it is given.  *)
(* User and mod variables take the same path and are not told apart.       *)
(*                                                                         *)
(* Values go through Ext.Json and Ext.Types.Serialize (lua_host.cpp), as   *)
(* functions on a heap of Lua values.  A value is [t, v]: for a table or a *)
(* view of an engine object, v is its place in the heap, and the heap may  *)
(* have cycles and shared tables.  JSON is a tree; how it is laid out as   *)
(* text is left out, and so is the order of an object's members.           *)
(***************************************************************************)
EXTENDS Integers, Sequences, SequencesExt, FiniteSets

CONSTANTS
    Heap,          \* place -> [kind, items, pointer]; an item is <<key, value>>
    LabelsOfBits,  \* bitfield -> its set labels, a sequence
    VarOwners,     \* spelling of an owner -> its GUID as formatted, "" if none
    SavedVars,     \* the names registered as persistent
    OtherVars,     \* names registered with Persistent = false, or not at all
    VarValues,     \* the values scripts set, a sequence
    ForeignNodes,  \* regions found in saves that were made by bg3se
    StringifyDepth,\* the depth Ext.Json.Stringify goes to (64)
    MaxSaveOps     \* bound: values set, saves and reads

Plain == {"array", "object"}                 \* a table, by its layout
Views == {"struct", "list", "map"}           \* userdata with __pairs

Lua(t, v) == [t |-> t, v |-> v]
LuaNull == Lua("nil", "")
Node(j, v, items) == [j |-> j, v |-> v, items |-> items]
Leaf(j, v) == Node(j, v, <<>>)
KindOf(v) == IF v.t = "table" THEN Heap[v.v].kind ELSE "none"

\* What a walk gives: it failed, or the JSON and the objects seen by then.
Failed == [ok |-> FALSE, json |-> Leaf("null", ""), seen |-> {}]
Gives(json, seen) == [ok |-> TRUE, json |-> json, seen |-> seen]

JsonNumber(v) == IF v.v \in {"nan", "inf"} THEN Leaf("null", "") ELSE Leaf("num", v.v)

InternalType(v, seen, o) == IF o.internal THEN Gives(Leaf("str", v.v), seen) ELSE Failed

\* A table's key is a string or a number; an object's may be an entity too.
KeyOk(key, proxy, o) == key.t \in {"string", "integer"} \/ (proxy /\ o.internal)
KeyText(array, key) == IF array THEN "" ELSE key.v

\* The items a view gives: the loop stops after it is over the limit.
Limited(n, items, o) ==
    IF n.kind # "struct" /\ o.limitItems # -1 /\ Len(items) > o.limitItems + 1
    THEN SubSeq(items, 1, o.limitItems + 1) ELSE items

RECURSIVE Stringified(_, _, _, _), Emit(_, _, _, _, _, _)

\* emit: the members one after the other, each a level deeper.
Emit(items, array, depth, seen, o, done) ==
    IF items = <<>> THEN Gives(Node(IF array THEN "arr" ELSE "obj", "", done), seen)
    ELSE LET one == Stringified(Head(items)[2], depth + 1, seen, o)
         IN  IF ~ one.ok THEN Failed
             ELSE Emit(Tail(items), array, depth, one.seen, o,
                       Append(done, <<KeyText(array, Head(items)[1]), one.json>>))

\* stringify_table and stringify_proxy, for what may be walked.
Walk(v, depth, seen, o) ==
    LET n == Heap[v.v]
        items == IF n.kind \in Views THEN Limited(n, n.items, o) ELSE n.items
        array == n.kind \in {"array", "list"}
        marked == IF o.avoid THEN seen \union {v.v} ELSE seen
    IN  CASE o.limitDepth # -1 /\ depth > o.limitDepth ->
                Gives(Leaf("str", "*DEPTH LIMIT EXCEEDED*"), seen)
          [] o.avoid /\ v.v \in seen -> Gives(Leaf("str", "*RECURSION*"), seen)
          [] ~ array /\ \E i \in DOMAIN items : ~ KeyOk(items[i][1], n.kind \in Views, o) -> Failed
          [] OTHER -> Emit(items, array, depth, marked, o, <<>>)

Stringified(v, depth, seen, o) ==
    CASE depth > o.maxDepth -> Failed
      [] v.t = "nil" -> Gives(Leaf("null", ""), seen)
      [] v.t = "boolean" -> Gives(Leaf("bool", v.v), seen)
      [] v.t = "integer" -> Gives(Leaf("int", v.v), seen)
      [] v.t = "float" -> Gives(JsonNumber(v), seen)
      [] v.t \in {"string", "enum"} -> Gives(Leaf("str", v.v), seen)
      [] v.t = "bits" ->
            Gives(Node("arr", "", [i \in DOMAIN LabelsOfBits[v.v] |->
                                      <<"", Leaf("str", LabelsOfBits[v.v][i])>>]), seen)
      [] KindOf(v) \in Plain \/ (KindOf(v) \in Views /\ o.iterate) -> Walk(v, depth, seen, o)
      [] OTHER -> InternalType(v, seen, o)

\* Ext.Json.Stringify.
Stringify(v, o) == Stringified(v, 0, {}, o)

\* Its options as SavedValue, DumpExport and DumpShallow give them.
SaveOptions(maxDepth) ==
    [internal |-> FALSE, iterate |-> FALSE, avoid |-> FALSE, maxDepth |-> maxDepth,
     limitDepth |-> -1, limitItems |-> -1]
DumpOptions(maxDepth) ==
    [SaveOptions(maxDepth) EXCEPT !.internal = TRUE, !.iterate = TRUE, !.avoid = TRUE]
ShallowOptions(maxDepth) == [DumpOptions(maxDepth) EXCEPT !.limitDepth = 1, !.limitItems = 3]

-----------------------------------------------------------------------------
\* A value as a tree, which two values are compared by: the members of a
\* table that hold something, under their keys.
RECURSIVE Tree(_), Parsed(_)

Held(items) == {i \in DOMAIN items : items[i][2].t # "nil"}
Tree(v) ==
    IF v.t # "table" THEN [t |-> v.t, v |-> v.v, members |-> {}]
    ELSE LET items == Heap[v.v].items
         IN  [t |-> "table", v |-> "",
              members |-> {<<items[i][1].t, items[i][1].v, Tree(items[i][2])>> : i \in Held(items)}]

\* Ext.Json.Parse: objects are keyed by strings, arrays from one, and a null
\* leaves a hole.
Parsed(json) ==
    LET items == json.items
        held == {i \in DOMAIN items : items[i][2].j # "null"}
        leaf(t) == [t |-> t, v |-> json.v, members |-> {}]
    IN  CASE json.j = "null" -> leaf("nil")
          [] json.j = "bool" -> leaf("boolean")
          [] json.j = "int" -> leaf("integer")
          [] json.j = "num" -> leaf("float")
          [] json.j = "str" -> leaf("string")
          [] json.j = "arr" ->
                [t |-> "table", v |-> "",
                 members |-> {<<"integer", ToString(i), Parsed(items[i][2])>> : i \in held}]
          [] json.j = "obj" ->
                [t |-> "table", v |-> "",
                 members |-> {<<"string", items[i][1], Parsed(items[i][2])>> : i \in held}]

-----------------------------------------------------------------------------
\* What is reached from a value.
RECURSIVE Below(_, _)
Below(places, n) ==
    IF n = 0 THEN places
    ELSE Below(places \union
               {x \in DOMAIN Heap : \E p \in places : \E i \in DOMAIN Heap[p].items :
                    Heap[p].items[i][2] = Lua("table", x)}, n - 1)
Reached(v) == IF v.t = "table" THEN Below({v.v}, Cardinality(DOMAIN Heap)) ELSE {}
Leaves(v) ==
    (IF v.t = "table" THEN {} ELSE {v}) \union
    UNION {{Heap[p].items[i][2] : i \in DOMAIN Heap[p].items} : p \in Reached(v)}
Cyclic(v) ==
    \E p \in Reached(v) : \E i \in DOMAIN Heap[p].items :
        LET c == Heap[p].items[i][2] IN c.t = "table" /\ p \in Reached(c)

-----------------------------------------------------------------------------
VARIABLES
    store,     \* <<owner, name>> -> what it holds, for those that hold something
    region,    \* the save: a sequence of [owner, name, type, val]
    extras,    \* g_extras: the same, as last read
    toRestore, \* g_extras_pending
    kept,      \* history: what the save should give back: owner, name, tree
    owed,      \* history: the same, of the save that was last read
    missing,   \* history: what the last restoring should have put there and did not
    saveOps

regionVars == <<store, region, extras, toRestore, kept, owed, missing, saveOps>>

\* A variable holds a value a script has set, or one that a save has given it.
Given(value) == [value |-> value, val |-> Tree(LuaNull)]
Back(val) == [value |-> LuaNull, val |-> val]
Canonical(owner) == VarOwners[owner] = owner

RegionInit ==
    /\ store = <<>>
    /\ region \in {<<>>} \union {ForeignNodes[i] : i \in DOMAIN ForeignNodes}
    /\ extras = <<>> /\ toRestore = FALSE
    /\ kept = {<<n.owner, n.name, n.val>> : n \in ToSet(region)}
    /\ owed = {} /\ missing = {}
    /\ saveOps = 0

Op == saveOps < MaxSaveOps /\ saveOps' = saveOps + 1

\* A script sets a variable, or clears it.
SetVar(owner, name, value) ==
    /\ Op
    /\ store' = [x \in (DOMAIN store \ {<<owner, name>>}) \union
                          (IF value.t = "nil" THEN {} ELSE {<<owner, name>>}) |->
                    IF x = <<owner, name>> THEN Given(value) ELSE store[x]]
    /\ UNCHANGED <<region, extras, toRestore, kept, owed, missing>>

-----------------------------------------------------------------------------
\* saved_value: the type a value is saved as, none for one that is not saved,
\* and a failure for a table that has no JSON.
AsNode(type, val) == [ok |-> TRUE, node |-> <<[type |-> type, val |-> val]>>]
Composite(v) ==
    LET s == Stringify(v, SaveOptions(StringifyDepth))
    IN  IF s.ok THEN AsNode(4, Parsed(s.json)) ELSE [ok |-> FALSE, node |-> <<>>]
ScalarType == [boolean |-> 5, integer |-> 1, float |-> 2, string |-> 3, table |-> 4]
SavedValue(x) ==
    LET v == store[x].value
    IN  CASE v.t = "nil" -> AsNode(ScalarType[store[x].val.t], store[x].val)
          [] v.t \in {"boolean", "integer", "float", "string"} -> AsNode(ScalarType[v.t], Tree(v))
          [] v.t \in {"table", "entity", "enum", "bits"} -> Composite(v)
          [] OTHER -> [ok |-> TRUE, node |-> <<>>]

\* CollectSaveExtras: one value that fails fails them all.
Persisted == {x \in DOMAIN store : x[2] \in SavedVars}
CollectOk == \A x \in Persisted : SavedValue(x).ok
CollectedRegion ==
    {[owner |-> x[1], name |-> x[2], type |-> SavedValue(x).node[1].type,
      val |-> SavedValue(x).node[1].val] : x \in {y \in Persisted : SavedValue(y).node # <<>>}}

NoTree == Tree(LuaNull)

\* Mutant: a string is written by the slot of another type.
WriteValueNoText(n) == IF n.type \in {3, 6} THEN [n EXCEPT !.val = NoTree] ELSE n

\* visit_value as it writes: there is no writer for a binary composite, so
\* only its type is written.
WriteValue(n) == IF n.type = 6 THEN [n EXCEPT !.val = NoTree] ELSE n

\* visit_owned as it writes: a node per owner, under its GUID; an owner that
\* is no GUID is passed over.
WriteOwned(nodes) ==
    LET guids == SelectSeq(nodes, LAMBDA n : VarOwners[n.owner] # "")
    IN  [i \in DOMAIN guids |-> [WriteValue(guids[i]) EXCEPT !.owner = VarOwners[guids[i].owner]]]

\* What a script that set a value expects of a save: the value itself, when
\* all of it is of types JSON has and no other spelling of its owner claims it.
Exact(v) ==
    /\ ~ Cyclic(v)
    /\ \A l \in Leaves(v) : l.t \in {"boolean", "integer", "string", "float", "table"} /\ l.v # "nan"
    /\ \A p \in Reached(v) : /\ Heap[p].kind \in Plain
                             /\ Heap[p].kind = "object" =>
                                   \A i \in DOMAIN Heap[p].items : Heap[p].items[i][1].t = "string"
Claimed(x) == \E y \in DOMAIN store \ {x} : y[2] = x[2] /\ VarOwners[y[1]] = VarOwners[x[1]]
Expected(x) == IF store[x].value.t = "nil" THEN store[x].val ELSE Tree(store[x].value)
Promised ==
    {<<x[1], x[2], Expected(x)>> :
        x \in {y \in Persisted : /\ Canonical(y[1]) /\ ~ Claimed(y)
                                 /\ store[y].value.t # "nil" => Exact(store[y].value)}}

\* visit_extras as the game saves; the variables come in no particular order.
SaveExtras(asked) ==
    /\ Op
    /\ IF asked /\ CollectOk
       THEN /\ \E nodes \in SetToSeqs(CollectedRegion) : region' = WriteOwned(nodes)
            /\ kept' = Promised
       ELSE /\ region' = WriteOwned(extras)
            /\ kept' = {<<n.owner, n.name, n.val>> : n \in {m \in ToSet(extras) : m.type # 6}}
    /\ UNCHANGED <<store, extras, toRestore, owed, missing>>

-----------------------------------------------------------------------------
\* read_variables, visit_value: a binary value without its buffer is dropped.
ReadOwned(nodes) == SelectSeq(nodes, LAMBDA n : ~ (n.type = 6 /\ n.val = NoTree))

\* RestoreSaveExtras: what is there is cleared, then each node set in turn.
RestoredRegion(nodes) ==
    LET of(x) == {i \in DOMAIN nodes : <<nodes[i].owner, nodes[i].name>> = x}
    IN  [x \in {<<n.owner, n.name>> : n \in ToSet(nodes)} |->
            Back(nodes[CHOOSE i \in of(x) : \A j \in of(x) : j <= i].val)]
Restore(nodes, promised) ==
    /\ store' = RestoredRegion(nodes)
    /\ missing' = {k \in promised : \/ <<k[1], k[2]>> \notin DOMAIN RestoredRegion(nodes)
                                    \/ RestoredRegion(nodes)[<<k[1], k[2]>>].val # k[3]}

\* visit_extras as a save is read: restored at once on the story's thread,
\* else when the mods are loaded next.
ReadExtras(onStory) ==
    LET nodes == ReadOwned(region)
    IN  /\ Op
        /\ extras' = nodes /\ toRestore' = ~ onStory
        /\ owed' = kept
        /\ IF onStory THEN Restore(nodes, kept) ELSE UNCHANGED <<store, missing>>
        /\ UNCHANGED <<region, kept>>

RestoreExtras ==
    /\ toRestore /\ toRestore' = FALSE
    /\ Restore(extras, owed)
    /\ UNCHANGED <<region, extras, kept, owed, saveOps>>

RegionNext ==
    \/ \E o \in DOMAIN VarOwners, n \in SavedVars \union OtherVars, i \in DOMAIN VarValues :
           SetVar(o, n, VarValues[i])
    \/ \E asked \in BOOLEAN : SaveExtras(asked)
    \/ \E onStory \in BOOLEAN : ReadExtras(onStory)
    \/ RestoreExtras

RegionSpec == RegionInit /\ [][RegionNext]_regionVars

-----------------------------------------------------------------------------

\* A variable comes out of a save as it went in: through saved_value, the
\* nodes under the owner's GUID and RestoreSaveExtras, and also when the save
\* in between was made without asking the Lua state, for every value JSON has
\* and an owner under the spelling GUIDs are formatted in.  What bg3se saved
\* as binary comes back too, unless such a save is written in between.
SavedComesBack == missing = {}
=============================================================================
