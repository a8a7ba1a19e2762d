------------------------------ MODULE MCValues -------------------------------
(* What crosses between Lua and the engine, each kind of value on its own   *)
(* (part): vectors, memory, the story's tuples, signatures and calls,       *)
(* fields, containers and stats; and the ways messages and synced variables *)
(* take from there to other machines.                                       *)
EXTENDS LuaMath, FastAlloc, StoryListeners, StorySignatures, StoryCalls,
        Fields, Containers, Stats, NetPosts, NetWire

(* LuaMath: scalars, vectors of every length, matrices that are not         *)
(* symmetric, and tables of no length a value has.                          *)
MCMathInputs ==
    {NumberOf(2), Table(<<3>>), Table(<<1, 2>>), Table(<<1, 2, 3>>), Table(<<0, 0, 1>>),
     Table(<<0, 3, 4>>), Table(<<1, 2, 3, 4>>), Table(<<1, 0, 0, 0>>), Table(<<1, 1, 0, 1>>),
     Table(<<1, 0, 0, 2, 1, 0, 0, 3, 1>>), Table(<<0, 1, 0, -1, 0, 0, 0, 0, 1>>),
     Table(<<1, 0, 0, 0, 2, 1, 0, 0, 0, 0, 1, 0, 5, 6, 7, 1>>),
     Table(<<0, 1, 0, 0, -1, 0, 0, 0, 0, 0, 1, 0, 0, 0, 0, 1>>),
     Table(<<1, 2, 3, 4, 5>>), [type |-> "other", els |-> <<>>]}

(* StorySignatures: a story without mods, and one with a mod that changes   *)
(* one signature and adds another.                                          *)
MCStories == {[e |-> "s1", p |-> "s1"], [e |-> "s1", p |-> "s2", q |-> "s1"]}

-----------------------------------------------------------------------------
(* StoryCalls: a database of two columns, a query with an output whose type *)
(* is not known, and a call in two arities beside one that was not seen.    *)
MCColumns == <<"Npc", "Integer">>
MCOutputs == <<"GuidString", "Mystery">>
MCOverloads == <<[params |-> 3, known |-> TRUE, outs |-> {3}],
                 [params |-> 4, known |-> TRUE, outs |-> {2}],
                 [params |-> 1, known |-> FALSE, outs |-> {}]>>
MCAlias == [Npc |-> "GuidString", Level |-> "Integer"]
MCTexts == [g |-> TRUE, t |-> FALSE]
MCArguments ==
    {[k |-> "integer", n |-> -1], [k |-> "integer", n |-> 5], [k |-> "float", n |-> 3],
     [k |-> "entity", n |-> 9], [k |-> "string", n |-> "g"], [k |-> "string", n |-> "t"],
     [k |-> "nil", n |-> 0], [k |-> "table", n |-> 0]}

-----------------------------------------------------------------------------
(* Fields: one of each kind, and values of every Lua type, lists of what    *)
(* some kinds take and others refuse.                                       *)
MCFieldKinds ==
    [b |-> "bool", i |-> "int8", u |-> "uint8", e |-> "enum", fl |-> "flags",
     g |-> "guid", s |-> "string", h |-> "entity", a |-> "array", l |-> "list", t |-> "texts",
     o |-> "optional", v |-> "version", bf |-> "bitflag", ov |-> "override",
     p |-> "pointer", r |-> "readonly"]
LuaInt(n) == [k |-> "integer", v |-> n]
LuaText(t) == [k |-> "string", v |-> t]
LuaNothing == [k |-> "nil", v |-> 0]
LuaList(s) == [k |-> "list", v |-> s]
MCAssigned ==
    << LuaNothing, [k |-> "boolean", v |-> FALSE], [k |-> "boolean", v |-> TRUE],
       LuaInt(-1), LuaInt(1), LuaInt(9), LuaText("x"), LuaText("guid"),
       [k |-> "entity", v |-> "e1"], LuaList(<<LuaInt(1), LuaText("x")>>),
       LuaList(<<LuaInt(3), LuaInt(2)>>), LuaList(<<LuaNothing, LuaInt(1)>>),
       LuaList(<<LuaText("x"), LuaText("y")>>),
       LuaList(<<LuaText("x"), [k |-> "boolean", v |-> TRUE], LuaInt(1)>>) >>
MCLabels == [x |-> 1, y |-> 2]
MCFlagBits == [x |-> 1, y |-> 4]

-----------------------------------------------------------------------------
(* Containers: a key that is spelled in two ways.                           *)
MCSpelling == [k1 |-> "k1", K1 |-> "k1", k2 |-> "k2"]

-----------------------------------------------------------------------------
(* Stats: two stats of one list.                                            *)
MCStatList == [s1 |-> "A", s2 |-> "A"]
MCGiven == <<LuaNil, Num(1), Text(""), Text("1"), Text("x"), ListOf(<<"x", "y">>)>>
MCLabelIndex == [x |-> 1, y |-> 2, none |-> 0]
MCNumber == [t \in {"1"} |-> 1]
MCParts == [t \in {"", "1", "x", "x;y"} |->
              CASE t = "" -> <<>> [] t = "x;y" -> <<"x", "y">> [] OTHER -> <<t>>]

-----------------------------------------------------------------------------

VARIABLE part

engineVars == <<mathVars, allocVars, storyVars, signatureVars, callVars, fieldVars,
                containerVars, statVars>>
messageVars == <<routeVars, wireVars, extendVars>>
MCVars == <<part, engineVars, messageVars>>

MCPartNames == {"math", "memory", "tuples", "signatures", "calls", "fields",
                "containers", "stats", "routing", "asking", "wire", "extending"}

MCInit ==
    /\ part \in MCPartNames
    /\ MathInit /\ AllocInit /\ StoryInit
    /\ SignatureInit /\ (part # "signatures" => compiled = [e |-> "s1", p |-> "s1"])
    /\ CallInit
    /\ FieldsInit /\ (part # "fields" => field = "b")
    /\ ContainersInit /\ (part # "containers" => shape = CHOOSE s \in Shapes : TRUE)
    /\ StatsInit /\ (part # "stats" => attr = "int")
    /\ RouteInit /\ WireInit /\ ExtendInit
    /\ part # "wire" => synced = <<>>

ValuesNext ==
    \/ /\ part = "math" /\ MathNext
       /\ UNCHANGED <<allocVars, storyVars, signatureVars, callVars,
                      fieldVars, containerVars, statVars>>
    \/ /\ part = "memory" /\ AllocNext
       /\ UNCHANGED <<mathVars, storyVars, signatureVars, callVars,
                      fieldVars, containerVars, statVars>>
    \/ /\ part = "tuples" /\ StoryNext
       /\ UNCHANGED <<mathVars, allocVars, signatureVars, callVars,
                      fieldVars, containerVars, statVars>>
    \/ /\ part = "signatures" /\ SignatureNext
       /\ UNCHANGED <<mathVars, allocVars, storyVars, callVars,
                      fieldVars, containerVars, statVars>>
    \/ /\ part = "calls" /\ CallNext
       /\ UNCHANGED <<mathVars, allocVars, storyVars, signatureVars,
                      fieldVars, containerVars, statVars>>
    \/ /\ part = "fields" /\ FieldsNext
       /\ UNCHANGED <<mathVars, allocVars, storyVars, signatureVars,
                      callVars, containerVars, statVars>>
    \/ /\ part = "containers" /\ ContainersNext
       /\ UNCHANGED <<mathVars, allocVars, storyVars, signatureVars,
                      callVars, fieldVars, statVars>>
    \/ /\ part = "stats" /\ StatsNext
       /\ UNCHANGED <<mathVars, allocVars, storyVars, signatureVars,
                      callVars, fieldVars, containerVars>>

MessagesNext ==
    \/ /\ part = "routing" /\ (ServerRoutes \/ \E on \in BOOLEAN : ForceRemote(on))
       /\ UNCHANGED <<wireVars, extendVars>>
    \/ /\ part = "asking" /\ (ClientRoutes \/ \E on \in BOOLEAN : ForceRemote(on))
       /\ UNCHANGED <<wireVars, extendVars>>
    \/ /\ part = "wire" /\ WireNext
       /\ UNCHANGED <<routeVars, extendVars>>
    \/ /\ part = "extending" /\ ExtendNext
       /\ UNCHANGED <<routeVars, wireVars>>

MCNext ==
    /\ UNCHANGED part
    /\ \/ ValuesNext /\ UNCHANGED messageVars
       \/ MessagesNext /\ UNCHANGED engineVars

MCSpec == MCInit /\ [][MCNext]_MCVars
==============================================================================
