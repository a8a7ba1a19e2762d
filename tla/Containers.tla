----------------------------- MODULE Containers -----------------------------
(***************************************************************************)
(* Arrays, maps and sets of engine objects as Lua sees them (the prelude   *)
(* of lua_host.cpp).  A component's container is read on every access; one *)
(* of an object (a template, a resource) is a snapshot that each view      *)
(* keeps and reads again after its own writes.  Writes go to the engine,   *)
(* by index for an array, by the slot a key had for a map.                 *)
(*                                                                         *)
(* An element has a visible part `v`, which Lua copies, and a hidden part  *)
(* `h`, which only stays where the element itself does.                    *)
(***************************************************************************)
EXTENDS Integers, Sequences, SequencesExt, FiniteSets, Functions

CONSTANTS
    Nil, Bad,         \* no value; a value whose write raises
    ElementValues,    \* the other values written
    MapKeys,          \* the keys of maps and of sets, as the engine has them
    Spelling,         \* how scripts spell them: text -> key
    ObjectViews,      \* the views of an object's container
    MaxElements       \* bound on the length of a container

VARIABLES
    shape,     \* what the container is, see Shapes
    content,   \* the engine's elements in order: [key, v, h]
    snap,      \* object view -> the elements it read last
    lastWrite       \* the last operation, for the properties

containerVars == <<shape, content, snap, lastWrite>>

Array(s) == s.kind = "array"

\* in_place: the array has Erase and Append (a CompactSet has only Resize), the
\* map has MapRemove (a LegacyMap has only MapInsert).
Shapes == [kind : {"array", "map"}, object : BOOLEAN, struct : BOOLEAN, in_place : BOOLEAN]
            \cup [kind : {"set"}, object : {FALSE}, struct : {FALSE}, in_place : {TRUE}]

Default(key) == [key |-> key, v |-> 0, h |-> 0]
Visible(els) == [i \in DOMAIN els |-> els[i].v]
SlotsOf(els, key) == {i \in DOMAIN els : els[i].key = key}
KeysIn(els) == {els[i].key : i \in DOMAIN els}

ContainersInit ==
    /\ shape \in Shapes
    /\ content = IF Array(shape) THEN <<[key |-> 0, v |-> 1, h |-> 1], [key |-> 0, v |-> 2, h |-> 2]>>
                 ELSE <<>>
    /\ snap = [w \in ObjectViews |-> content]
    /\ lastWrite = [op |-> "none"]

-----------------------------------------------------------------------------
\* A write in progress is [ok, now, seen]: whether nothing has raised, what the
\* engine holds, and what the view has read of it.  A component's view reads
\* when asked.

Start(view) == [ok |-> TRUE, now |-> content,
                seen |-> IF shape.object THEN snap[view] ELSE content]
Fail(w) == [w EXCEPT !.ok = FALSE]
Scan(w) == [w EXCEPT !.seen = w.now]
Reread(w) == IF w.ok THEN Scan(w) ELSE w
Holding(w, els) == [w EXCEPT !.now = els]

\* SetField of a plain element, Unserialize of a struct; one that raises stays,
\* and so does one at an index that does not resolve.
Written(w, i, v) ==
    IF v = Bad \/ i \notin DOMAIN w.now THEN Fail(w)
    ELSE Holding(w, [w.now EXCEPT ![i].v = v])

\* In order, up to the first that raises.
WriteList(w, vs) ==
    FoldLeftDomain(LAMBDA x, i : IF x.ok THEN Written(x, i, vs[i]) ELSE x, w, vs)

\* bg3le_meta_array_resize: a fresh array of default elements.
Resize(n) == [i \in 1..n |-> Default(0)]

\* A list assigned whole: assign_array writes plain elements and passes over
\* tables, with which FillStructElements or its like fills structs, if called.
AssignList(w, vs, fills) ==
    LET sized == Holding(w, Resize(Len(vs)))
    IN  IF shape.struct /\ ~ fills THEN sized ELSE WriteList(sized, vs)

\* ResizedList: the visible parts without the i-th, and v at the end.
ResizedList(els, i, v) ==
    LET kept == IF i \in DOMAIN els THEN RemoveAt(els, i) ELSE els
    IN  IF v = Nil THEN Visible(kept) ELSE Append(Visible(kept), v)

\* Mutant: the array is shortened at its end.
ArrayEraseLast(els, i) == Front(els)

\* array_erase_thunk, array_append_thunk.
ArrayErase(els, i) == RemoveAt(els, i)
ArrayAppend(els) == Append(els, Default(0))

\* map_rebuild: the last entry moves into the hole; a new one goes last.
MapRemove(els, key) ==
    LET i == CHOOSE j \in SlotsOf(els, key) : TRUE
    IN  Front([els EXCEPT ![i] = els[Len(els)]])
MapInsert(els, key) == IF key \in KeysIn(els) THEN els ELSE Append(els, Default(key))

Done(op, view, at, value, w) ==
    /\ content' = w.now
    /\ snap' = IF shape.object THEN [snap EXCEPT ![view] = w.seen] ELSE snap
    /\ lastWrite' = [op |-> op, at |-> at, value |-> value, ok |-> w.ok,
                fresh |-> shape.object => snap[view] = content]
    /\ UNCHANGED shape

\* An object's container read again from its owner.
Fetch(view) ==
    /\ shape.object
    /\ snap' = [snap EXCEPT ![view] = content]
    /\ lastWrite' = [op |-> "fetch"]
    /\ UNCHANGED <<shape, content>>

-----------------------------------------------------------------------------
\* make_array's __newindex: arr[i] = v on a component.  `proxy` tells whether
\* v is another proxy, which fills a struct, or a table, which does not.
ArrayNewIndex(w, i, v, proxy) ==
    LET n == Len(w.now)
        erases  == v = Nil /\ i \in 1..n
        appends == v # Nil /\ i = n + 1
    IN  CASE erases /\ shape.in_place -> Holding(w, ArrayErase(w.now, i))
          [] appends /\ shape.in_place -> Written(Holding(w, ArrayAppend(w.now)), i, v)
          [] (erases \/ i = n + 1) /\ ~ (appends /\ shape.in_place) /\ ~ (erases /\ shape.in_place) ->
                AssignList(w, ResizedList(w.now, i, v), TRUE)
          [] i \notin 1..(n + 1) -> w
          [] OTHER -> IF shape.struct /\ ~ proxy THEN Fail(w) ELSE Written(w, i, v)

\* The `write` of an object's array: the length is the snapshot's, and a list
\* assigned whole is not refilled.
ObjectArrayWrite(w, i, v, proxy) ==
    LET n == Len(w.seen)
    IN  CASE i \notin 1..(n + 1) -> w
          [] i = n + 1 /\ v = Nil -> Fail(w)
          [] v = Nil /\ i # n + 1 /\ shape.in_place /\ i \in DOMAIN w.now ->
                Scan(Holding(w, ArrayErase(w.now, i)))
          [] v # Nil /\ i = n + 1 /\ shape.in_place ->
                Scan(Written(Holding(w, ArrayAppend(w.now)), i, v))
          [] \/ v = Nil /\ i # n + 1 /\ ~ (shape.in_place /\ i \in DOMAIN w.now)
             \/ v # Nil /\ i = n + 1 /\ ~ shape.in_place ->
                Reread(AssignList(w, ResizedList(w.seen, i, v), FALSE))
          [] OTHER -> IF shape.struct /\ ~ proxy THEN Fail(w)
                      ELSE Reread(Written(w, i, v))

ArrayWrite(view, i, v, proxy) ==
    /\ Array(shape)
    /\ v = Nil \/ Len(content) < MaxElements
    /\ Done("element", view, i, v,
            IF shape.object THEN ObjectArrayWrite(Start(view), i, v, proxy)
            ELSE ArrayNewIndex(Start(view), i, v, proxy))

\* A whole list assigned: CopyInPlace from a proxy of the same length, else
\* assign_array, with the structs filled.
ArrayAssign(view, vs, proxy) ==
    LET w == Start(view)
    IN  /\ Array(shape)
        /\ Done("whole", view, 0, vs,
                Reread(IF proxy /\ Len(vs) = Len(w.seen) THEN WriteList(w, vs)
                     ELSE AssignList(w, vs, TRUE)))

-----------------------------------------------------------------------------
\* Where an entry is written: the slot the view had for the key, or the one it
\* has after it was added.
EntrySlot(seen, now, key, added) ==
    CHOOSE i \in SlotsOf(IF added THEN now ELSE seen, key) : TRUE

\* make_map's __newindex, and the `write` of an object's map.  A struct given
\* as a table replaces the entry: removed, added, then filled.
MapNewIndex(w, key, v, copy) ==
    LET seen     == IF shape.object THEN w.seen ELSE w.now
        here     == SlotsOf(seen, key) # {}
        gone     == shape.struct /\ here /\ shape.in_place /\ key \in KeysIn(w.now)
        base     == IF gone THEN MapRemove(w.now, key) ELSE w.now
        added    == ~ here \/ gone
        now      == IF added THEN MapInsert(base, key) ELSE w.now
        slot     == EntrySlot(seen, now, key, added)
        put      == Written(IF added THEN Scan(Holding(w, now)) ELSE w, slot, v)
    IN  CASE v = Nil /\ ~ here -> w
          [] v = Nil /\ here -> IF shape.in_place /\ key \in KeysIn(w.now)
                                THEN Scan(Holding(w, MapRemove(w.now, key)))
                                ELSE Fail(w)
          [] v # Nil /\ copy /\ here /\ shape.struct ->
                Written(w, EntrySlot(seen, now, key, FALSE), v)
          [] OTHER -> IF put.ok THEN [put EXCEPT !.seen[slot].v = v] ELSE put

MapWrite(view, key, v) ==
    /\ shape.kind = "map"
    /\ Done("element", view, key, v, MapNewIndex(Start(view), key, v, FALSE))

\* RefillMap: the wanted entries are written, in any order, then the keys not
\* among them removed.  An error ends it where it is.
RefillMap(w, order, values, copy) ==
    LET write(x, key) == IF x.ok THEN MapNewIndex(x, key, values[key], copy) ELSE x
        drop(x, key)  == IF x.ok /\ key \notin DOMAIN values
                         THEN MapNewIndex(x, key, Nil, FALSE) ELSE x
    IN  FoldLeft(drop, FoldLeft(write, w, order), [i \in DOMAIN w.seen |-> w.seen[i].key])

MapAssign(view, values, copy) ==
    /\ shape.kind = "map"
    /\ \E order \in SetToSeqs(DOMAIN values) :
           Done("whole", view, 0, values, RefillMap(Start(view), order, values, copy))

-----------------------------------------------------------------------------
\* HashSetView.  The set is written whole.  key_of: a key is looked for as the
\* engine has it, however a script spells it; what is no key is not found.
KeyOf(text) == IF text \in DOMAIN Spelling THEN Spelling[text] ELSE Nil

\* assign_set, assign_scalar_set: every text becomes a key before anything is
\* written; one that does not ends it; a key given twice is one.
SetSet(w, texts) ==
    IF \E i \in DOMAIN texts : texts[i] \notin DOMAIN Spelling THEN Fail(w)
    ELSE Holding(w, FoldLeft(LAMBDA els, t : MapInsert(els, Spelling[t]), <<>>, texts))

SetWrite(text, present) ==
    LET w     == Start("none")
        texts == [i \in DOMAIN w.now |-> w.now[i].key]
        at    == SlotsOf(w.now, KeyOf(text))
    IN  /\ shape.kind = "set"
        /\ Done("element", "none", text, present,
                CASE present /\ at = {} -> SetSet(w, Append(texts, text))
                  [] ~ present /\ at # {} -> SetSet(w, RemoveAt(texts, CHOOSE i \in at : TRUE))
                  [] OTHER -> w)

SetAssign(texts) ==
    /\ shape.kind = "set"
    /\ Done("whole", "none", 0, texts, SetSet(Start("none"), texts))

-----------------------------------------------------------------------------
Assignable == ElementValues \cup {Bad}
Lists == UNION {[1..n -> Assignable] : n \in 0..2}
Tables == UNION {[ks -> Assignable] : ks \in SUBSET MapKeys}
Texts == DOMAIN Spelling \cup {"unknown"}

\* A component's views are all one, and only a struct is copied from a proxy.
Views == IF shape.object THEN ObjectViews ELSE {CHOOSE view \in ObjectViews : TRUE}
Copied == {FALSE, shape.struct}

ContainersNext ==
    \/ \E view \in Views :
         \/ Fetch(view)
         \/ \E i \in 0..(MaxElements + 1), v \in Assignable \cup {Nil}, proxy \in Copied :
               ArrayWrite(view, i, v, proxy)
         \/ \E vs \in Lists, proxy \in BOOLEAN : ArrayAssign(view, vs, proxy)
         \/ \E key \in MapKeys, v \in Assignable \cup {Nil} : MapWrite(view, key, v)
         \/ \E values \in Tables, copy \in Copied : MapAssign(view, values, copy)
    \/ \E text \in Texts, present \in BOOLEAN : SetWrite(text, present)
    \/ \E a, b \in Texts : SetAssign(<<a, b>>)

ContainersSpec == ContainersInit /\ [][ContainersNext]_containerVars

-----------------------------------------------------------------------------
\* What the properties say of a step, the one that made `last` what it is.
Steps == lastWrite'.op \notin {"none", "fetch"} /\ lastWrite'.fresh

\* An array as a Lua table would be after arr[at] = value.
TableAfter(els, at, value) ==
    CASE at \notin 1..(Len(els) + 1) -> Visible(els)
      [] at \in 1..Len(els) /\ value # Nil -> [Visible(els) EXCEPT ![at] = value]
      [] OTHER -> ResizedList(els, at, value)

EntryOf(els, key) == els[CHOOSE i \in DOMAIN els : els[i].key = key]

\* Whether the step gives an object's array of structs another length without
\* Erase and Append: the structs are not filled again then.
Resizes == shape.object /\ shape.struct /\ ~ shape.in_place /\ Array(shape)
             /\ lastWrite'.op = "element" /\ (lastWrite'.value = Nil \/ lastWrite'.at = Len(content) + 1)

ArrayLanded(by) ==
    Visible(content') = IF by.op = "whole" THEN by.value
                        ELSE TableAfter(content, by.at, by.value)
MapLanded(by) ==
    IF by.op = "whole"
    THEN /\ KeysIn(content') = DOMAIN by.value
         /\ \A key \in KeysIn(content') : EntryOf(content', key).v = by.value[key]
    ELSE /\ KeysIn(content') = IF by.value = Nil THEN KeysIn(content) \ {by.at}
                               ELSE KeysIn(content) \cup {by.at}
         /\ by.value # Nil => EntryOf(content', by.at).v = by.value
SetLanded(by) ==
    IF by.op = "whole" THEN KeysIn(content') = {Spelling[by.value[i]] : i \in DOMAIN by.value}
    ELSE (KeyOf(by.at) \in KeysIn(content')) = by.value

\* A container assigned to through a view that has read it as it is, with no
\* error, reads as a Lua table would: an index or key set, added or removed, a
\* whole list, table or set in place of the old; a set's key in any spelling.
\* Not an object's array of structs that is resized, see ResizedIsTheList.
LandsAsAsked ==
    [][Steps /\ lastWrite'.ok /\ ~ Resizes =>
         CASE Array(shape) -> ArrayLanded(lastWrite')
           [] shape.kind = "map" -> MapLanded(lastWrite')
           [] shape.kind = "set" -> SetLanded(lastWrite')]_containerVars

\* An array resized for arr[i] = nil or arr[#arr + 1] = v has the other
\* elements' values: structs are refilled after the resize.
ResizedIsTheList ==
    [][Steps /\ lastWrite'.ok /\ Array(shape) => ArrayLanded(lastWrite')]_containerVars

ArrayOthersKept(at, value) ==
    LET n == Len(content)
    IN  CASE at \in 1..n /\ value = Nil -> content' = RemoveAt(content, at)
          [] at \in 1..(n + 1) /\ value # Nil ->
                \A i \in (1..n) \ {at} : content'[i] = content[i]
          [] OTHER -> TRUE

\* Through such a view, a write of one entry, failed or not, leaves every other
\* one as it was, what Lua cannot see of it included; and no failure loses a
\* key of a map or a set: only its own entry may be left at its default.  (Not
\* arr[#arr + 1] = nil on a component, which assigns the whole list again.)
OthersKept ==
    [][Steps =>
         CASE shape.kind = "set" -> ~ lastWrite'.ok => content' = content
           [] shape.kind = "map" ->
                 /\ ~ lastWrite'.ok => KeysIn(content) \subseteq KeysIn(content')
                 /\ lastWrite'.op = "element" =>
                      \A key \in KeysIn(content) \ {lastWrite'.at} :
                         EntryOf(content', key) = EntryOf(content, key)
           [] OTHER -> shape.in_place /\ lastWrite'.op = "element" =>
                          ArrayOthersKept(lastWrite'.at, lastWrite'.value)]_containerVars

\* A change lands where it was asked to, and nowhere else.
ChangesLand ==
    LandsAsAsked /\ OthersKept
=============================================================================
