------------------------------- MODULE Fields -------------------------------
(***************************************************************************)
(* Component fields read and written from Lua (lua_host.cpp, GetField and  *)
(* SetField): each kind of field has its conversion from a Lua value to    *)
(* what the engine's memory holds and back.  A conversion that refuses its *)
(* value raises or returns; containers are changed step by step, so a      *)
(* refusal can leave some of the steps done.                               *)
(*                                                                         *)
(* A Lua value is [k, v]: nil, boolean, integer, string, list (of Lua      *)
(* values) or entity.                                                      *)
(***************************************************************************)
EXTENDS Integers, Sequences, SequencesExt, FiniteSets, FiniteSetsExt, TLC

CONSTANTS
    FieldKinds,   \* field -> its kind, see Kinds
    Assigned,     \* the Lua values assigned, a sequence
    Byte,         \* how many values an 8-bit field holds
    Labels,       \* the enumeration: label -> number
    FlagBits,     \* the flags: label -> its bit
    FlagBit,      \* the bit of the flag that is a field of its own
    FieldGuids,        \* the strings that parse as a GUID
    Extent        \* how many elements a fixed array has

Kinds == {"bool", "int8", "uint8", "enum", "flags", "guid", "string", "entity",
          "array", "list", "texts", "optional", "version", "bitflag", "override", "pointer",
          "readonly"}

ASSUME FieldAssumption == \A f \in DOMAIN FieldKinds : FieldKinds[f] \in Kinds

VARIABLES
    field,     \* the field scripts assign in this behaviour
    memory,    \* what the engine holds of it
    written    \* the last assignment: its value, whether it was taken

fieldVars == <<field, memory, written>>

NullHandle == "NullHandle"

Blank(kind) ==
    CASE kind \in {"guid", "string"} -> ""
      [] kind = "entity" -> NullHandle
      [] kind = "array" -> [i \in 1..Extent |-> 0]
      [] kind \in {"list", "texts"} -> <<>>
      [] kind = "optional" -> [engaged |-> FALSE, payload |-> 0]
      [] kind = "override" -> [value |-> 0, overridden |-> FALSE]
      [] OTHER -> 0

FieldsInit ==
    /\ field \in DOMAIN FieldKinds
    /\ memory = Blank(FieldKinds[field])
    /\ written = [taken |-> FALSE]

-----------------------------------------------------------------------------
\* From Lua: [taken, now].  `was` is what the memory holds before.

BitSet(raw, bit) == (raw \div bit) % 2 = 1

Takes(now) == [taken |-> TRUE, now |-> now]
Refuses(was) == [taken |-> FALSE, now |-> was]

\* enum_arg_in_place: a label is its number, of a bitmask its bit, and a list of
\* labels of a bitmask the sum of their bits; an unknown label raises.  Anything
\* else is left as it is.
Unlabelled(value) ==
    /\ value.k = "string" => value.v \in DOMAIN Labels
EnumNumber(value) ==
    IF value.k = "string" THEN [k |-> "integer", v |-> Labels[value.v]] ELSE value

FlagLabels(value) ==
    CASE value.k = "string" -> <<value>>
      [] value.k = "list" -> value.v
      [] OTHER -> <<>>
FlagsKnown(value) ==
    \A i \in DOMAIN FlagLabels(value) :
        FlagLabels(value)[i].k = "string" /\ FlagLabels(value)[i].v \in DOMAIN FlagBits
FlagSet(value) == {FlagLabels(value)[i].v : i \in DOMAIN FlagLabels(value)}
FlagNumber(value) ==
    IF value.k \in {"string", "list"}
    THEN [k |-> "integer", v |-> SumSet({FlagBits[label] : label \in FlagSet(value)})]
    ELSE value

\* An integer's low bits.
WriteInteger(value, was) ==
    IF value.k = "integer" THEN Takes(value.v % Byte) ELSE Refuses(was)

WriteEnum(value, was) ==
    IF Unlabelled(value) THEN WriteInteger(EnumNumber(value), was) ELSE Refuses(was)

WriteFlags(value, was) ==
    IF FlagsKnown(value) THEN WriteInteger(FlagNumber(value), was) ELSE Refuses(was)

HasText(v) == v.k \in {"string", "integer"}
TextOf(v) == IF v.k = "integer" THEN ToString(v.v) ELSE v.v

\* write_field of text, GUID and entity: nil is the null string or handle, and
\* a number converts to its text.
WriteText(value, was) ==
    CASE value.k = "nil" -> Takes("")
      [] HasText(value) -> Takes(TextOf(value))
      [] OTHER -> Refuses(was)
WriteGuid(value, was) ==
    IF value.k = "string" /\ value.v \in FieldGuids THEN Takes(value.v) ELSE Refuses(was)
WriteEntity(value, was) ==
    CASE value.k = "nil" -> Takes(NullHandle)
      [] value.k = "entity" -> Takes(value.v)
      [] OTHER -> Refuses(was)

\* write_version: the minor number is masked one bit wider than it is read.
WriteVersion(value, was) ==
    IF value.k = "list" /\ Len(value.v) = 2 /\ \A i \in 1..2 : value.v[i].k = "integer"
    THEN LET major == value.v[1].v % 4
             minor == value.v[2].v % 4
             spill == minor \div 2
         IN  Takes(2 * (IF spill = 1 /\ major % 2 = 0 THEN major + 1 ELSE major)
                   + (minor % 2))
    ELSE Refuses(was)

\* The elements of a table are written in order; the first that is no number
\* raises, and the ones before it stay written.
Elements(vs, was) ==
    LET bad == {i \in DOMAIN vs : i \in DOMAIN was /\ vs[i].k \notin {"integer", "nil"}}
        stop == IF bad = {} THEN Len(was) + 1 ELSE Min(bad)
    IN  [taken |-> bad = {},
         now |-> [i \in DOMAIN was |->
                    IF i < stop /\ i \in DOMAIN vs /\ vs[i].k = "integer"
                    THEN vs[i].v % Byte ELSE was[i]]]

\* A fixed array: a short table leaves the rest alone.
WriteArray(value, was) ==
    IF value.k = "list" THEN Elements(value.v, was) ELSE Refuses(was)

\* assign_array: push_packed closes the holes, the array becomes a fresh one of
\* that length, then the elements are written; only a table is taken.
Packed(vs) == SelectSeq(vs, LAMBDA v : v.k # "nil")
AssignArray(value, was) ==
    IF value.k # "list" THEN Refuses(was)
    ELSE LET vs == Packed(value.v)
             resized == [i \in 1..Len(vs) |-> 0]
         IN  Elements(vs, resized)

\* Of texts: one that has none (a boolean, a table) does not raise, and what
\* write_field answers is passed over: the element stays the empty string of a
\* fresh array, and the assignment is taken.
AssignTexts(value, was) ==
    IF value.k # "list" THEN Refuses(was)
    ELSE LET vs == Packed(value.v)
         IN  Takes([i \in DOMAIN vs |-> IF HasText(vs[i]) THEN TextOf(vs[i]) ELSE ""])

\* Mutant: the payload of an optional is written without its labels.
WriteOptionalRaw(value, was) ==
    IF value.k = "nil" THEN Takes([engaged |-> FALSE, payload |-> 0])
    ELSE Takes([engaged |-> TRUE, payload |-> WriteInteger(value, was.payload).now])

\* write_optional: nil clears it; else it is engaged, and then its payload is
\* written as a field of its kind is.
WriteOptional(value, was) ==
    IF value.k = "nil" THEN Takes([engaged |-> FALSE, payload |-> 0])
    ELSE LET w == WriteEnum(value, was.payload)
         IN  [taken |-> w.taken, now |-> [engaged |-> TRUE, payload |-> w.now]]

\* A flag of a flags field: its bit is set or cleared, whatever the value is.
Truthy(value) == ~ (value.k = "nil" \/ (value.k = "boolean" /\ ~ value.v))
WriteBit(value, was) ==
    Takes(IF Truthy(value) /\ ~ BitSet(was, FlagBit) THEN was + FlagBit
          ELSE IF ~ Truthy(value) /\ BitSet(was, FlagBit) THEN was - FlagBit ELSE was)

\* An OverrideableProperty: its value; bg3le_meta_after_write marks it.
WriteOverride(value, was, unserializing) ==
    LET w == WriteInteger(value, was.value)
    IN  [taken |-> w.taken,
         now |-> [value |-> w.now,
                  overridden |-> was.overridden \/ (w.taken /\ ~ unserializing)]]

\* write_field, by kind, after l_set_field's own refusals.
WriteField(kind, value, was, unserializing) ==
    CASE kind \in {"readonly", "pointer"} -> Refuses(was)
      [] kind = "bool" -> Takes(IF Truthy(value) THEN 1 ELSE 0)
      [] kind \in {"int8", "uint8"} -> WriteInteger(value, was)
      [] kind = "enum" -> WriteEnum(value, was)
      [] kind = "flags" -> WriteFlags(value, was)
      [] kind = "guid" -> WriteGuid(value, was)
      [] kind = "string" -> WriteText(value, was)
      [] kind = "entity" -> WriteEntity(value, was)
      [] kind = "version" -> WriteVersion(value, was)
      [] kind = "array" -> WriteArray(value, was)
      [] kind = "list" -> AssignArray(value, was)
      [] kind = "texts" -> AssignTexts(value, was)
      [] kind = "optional" -> WriteOptional(value, was)
      [] kind = "bitflag" -> WriteBit(value, was)
      [] kind = "override" -> WriteOverride(value, was, unserializing)

Assign(value, unserializing) ==
    LET w == WriteField(FieldKinds[field], value, memory, unserializing)
    IN  /\ memory' = w.now
        /\ written' = [taken |-> w.taken, value |-> value, marks |-> ~ unserializing]
        /\ UNCHANGED field

\* l_set_field, of a component.
SetField(value) == Assign(value, FALSE)

\* l_object_set_field, of any other object: Ext.Types.Unserialize writes an
\* OverrideableProperty's value and leaves the mark.
ObjectSetField(value, unserializing) == Assign(value, unserializing)

-----------------------------------------------------------------------------
\* To Lua: push_field, push_enum, read_optional.

Signed(raw) == IF raw >= Byte \div 2 THEN raw - Byte ELSE raw
Named(raw) ==
    IF \E l \in DOMAIN Labels : Labels[l] = raw
    THEN [k |-> "string", v |-> CHOOSE l \in DOMAIN Labels : Labels[l] = raw]
    ELSE [k |-> "integer", v |-> raw]

\* push_field: what the bytes of each kind are in Lua.
PushField(kind, raw) ==
    CASE kind = "bool" -> [k |-> "boolean", v |-> raw = 1]
      [] kind = "int8" -> [k |-> "integer", v |-> Signed(raw)]
      [] kind = "uint8" -> [k |-> "integer", v |-> raw]
      [] kind \in {"guid", "string"} -> [k |-> "string", v |-> raw]
      [] kind = "entity" -> IF raw = NullHandle THEN [k |-> "nil", v |-> 0]
                            ELSE [k |-> "entity", v |-> raw]
      [] kind \in {"array", "list"} ->
            [k |-> "list", v |-> [i \in DOMAIN raw |-> [k |-> "integer", v |-> raw[i]]]]
      [] kind = "texts" ->
            [k |-> "list", v |-> [i \in DOMAIN raw |-> [k |-> "string", v |-> raw[i]]]]
      [] kind = "override" -> [k |-> "integer", v |-> raw.value]
      [] kind = "version" -> [k |-> "list", v |-> <<[k |-> "integer", v |-> raw \div 2],
                                                    [k |-> "integer", v |-> raw % 2]>>]

\* push_enum: a label where there is one, a bitmask as the set of its flags.
PushEnum(kind, raw) ==
    IF kind = "enum" THEN Named(raw)
    ELSE [k |-> "flags", v |-> {l \in DOMAIN FlagBits : BitSet(raw, FlagBits[l])}]

ReadOptional(raw) == IF raw.engaged THEN Named(raw.payload) ELSE [k |-> "nil", v |-> 0]

\* l_get_field: a flag, then an enumeration, then an optional, then the rest.
GetField(kind, raw) ==
    CASE kind = "bitflag" -> [k |-> "boolean", v |-> BitSet(raw, FlagBit)]
      [] kind \in {"enum", "flags"} -> PushEnum(kind, raw)
      [] kind = "optional" -> ReadOptional(raw)
      [] OTHER -> PushField(kind, raw)

FieldsNext ==
    \E i \in DOMAIN Assigned :
        \/ SetField(Assigned[i])
        \/ \E unserializing \in BOOLEAN : ObjectSetField(Assigned[i], unserializing)

FieldsSpec == FieldsInit /\ [][FieldsNext]_fieldVars

-----------------------------------------------------------------------------

\* What an assigned value is as a value of the kind, when the kind can hold it.
InRange(kind, value) ==
    CASE kind = "int8" -> value.v \in -(Byte \div 2) .. (Byte \div 2 - 1)
      [] kind \in {"uint8", "override"} -> value.v \in 0..(Byte - 1)
      [] kind \in {"enum", "optional"} -> value.k = "integer" => value.v \in 0..(Byte - 1)
      [] kind = "flags" -> value.k \in {"string", "list"}
      [] kind = "version" -> value.v[1].v \in 0..3 /\ value.v[2].v \in 0..1
      [] OTHER -> TRUE

Equal(kind, value, read) ==
    CASE kind \in {"bool", "bitflag"} -> read.v = Truthy(value)
      [] kind = "override" -> read = value /\ (written.marks => memory.overridden)
      [] kind \in {"enum", "optional"} ->
            (read.k = value.k /\ read.v = value.v) \/ (value.k = "integer" /\ read.k = "string"
                             /\ Labels[read.v] = value.v)
      [] kind = "flags" -> read.v = FlagSet(value)
      [] kind \in {"guid", "string"} ->
            read.v = (IF value.k = "nil" THEN "" ELSE TextOf(value))
      [] kind = "array" -> \A i \in DOMAIN read.v \cap DOMAIN value.v :
                                value.v[i].k = "integer" => read.v[i].v = value.v[i].v % Byte
      [] kind = "list" -> [i \in DOMAIN read.v |-> read.v[i].v]
                            = [i \in DOMAIN Packed(value.v) |-> Packed(value.v)[i].v % Byte]
      [] kind = "texts" ->
            /\ Len(read.v) = Len(Packed(value.v))
            /\ \A i \in DOMAIN read.v : LET v == Packed(value.v)[i]
                                       IN  HasText(v) => read.v[i].v = TextOf(v)
      [] OTHER -> read = value

\* A value SetField took reads back as the same value: a number in range, a
\* label as that label or its number, a flag or a list of flags as that set, nil
\* as the null of its kind, an optional as its payload, a list with its holes
\* closed.  (In a list of texts, what has none is not held to.)
TakenReadsBack ==
    written.taken =>
        LET kind == FieldKinds[field]
        IN  InRange(kind, written.value) =>
                Equal(kind, written.value, GetField(kind, memory))

\* A refused assignment leaves the field as it was, unless it is a container
\* that is changed in steps: an optional is engaged before its payload is
\* written, a list resized before its elements are, an array's first elements
\* written before the one that is refused.
RefusedChangesOnlyContainers ==
    [][~written'.taken /\ memory' # memory =>
            FieldKinds[field] \in {"array", "list", "optional"}]_fieldVars

\* Not so: of a list that was taken, an element that was refused reads as the
\* empty string (assign_array passes over what write_field answers).
EveryElementTaken ==
    written.taken /\ FieldKinds[field] = "texts" =>
        \A i \in DOMAIN Packed(written.value.v) : HasText(Packed(written.value.v)[i])

\* What a field took is what it reads as, and what it refused changes only
\* containers.
FieldsReadBack ==
    /\ [][TakenReadsBack']_fieldVars
    /\ RefusedChangesOnlyContainers
=============================================================================
