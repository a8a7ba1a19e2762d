------------------------------ MODULE UserVars ------------------------------
(* Ext.Vars: mod variables and entities' user variables in the server's Lua *)
(* state, in the host's own client's and in a client's on another machine.  *)
(* A write marks the variable dirty; a tick, a write or a call of Sync      *)
(* sends what is due.  The host's two states talk through the queues of     *)
(* NetChannels, the other machine is reached as ExtenderNet says.           *)
(* Every state has registered the variables; values are taken as they are.  *)
EXTENDS Integers, Sequences, SequencesExt, FiniteSetsExt

CONSTANTS
    NoVar,
    VarKeys,         \* registered variables
    Options,      \* key -> the options it is registered with
    Owners,       \* modules and entities, each with its own values
    ModKeys,      \* the keys that are mod variables, the rest are users'
    VarValues,
    MaxWrites,    \* writes made
    MaxForgets    \* rebuilds and restored saves

Clients == {"Host", "Peer"}
Places == {"Server"} \cup Clients
All == "*"        \* the bucket of DirtyUserVariables without an entity

\* It is the bucket of no entity, and every variable has its options.
ASSUME UserVarsAssumption ==
    /\ All \notin Owners /\ ModKeys \subseteq VarKeys
    /\ \A k \in VarKeys : Options[k].SyncToClient \in BOOLEAN

VARIABLES
    stores,       \* place -> owner and key -> value
    dirty,        \* place -> {<<owner, key>>}
    inbox,        \* place -> payloads, oldest first
    varWrites,       \* number of writes
    forgets,      \* number of rebuilds and restores
    changed       \* history: variables a client wrote or marked

varVars == <<stores, dirty, inbox, varWrites, forgets, changed>>

Variables == Owners \X VarKeys

\* syncs: whether a variable goes from one kind of place to the other, and
\* with a tick only if it asks for that.
Syncs(p, k, onTick) ==
    /\ IF p = "Server" THEN Options[k].SyncToClient ELSE Options[k].SyncToServer
    /\ onTick => Options[k].SyncOnTick

Writeable(p, k) ==
    IF p = "Server" THEN Options[k].WriteableOnServer
                    ELSE Options[k].WriteableOnClient

\* take: what is due of the dirty ones and goes; All stands for every entity
\* with a value.  Without a tick, what does not sync is forgotten.
Taken(p, keys, marks, values, onTick) ==
    {v \in Variables :
        /\ v[2] \in keys /\ Syncs(p, v[2], onTick)
        /\ \/ v \in marks
           \/ <<All, v[2]>> \in marks /\ values[v] # NoVar}

\* Mutant: a tick clears the marks of what it does not send, too.
KeptNone(p, keys, marks, onTick) == {m \in marks : m[2] \notin keys}

Kept(p, keys, marks, onTick) ==
    {m \in marks : m[2] \notin keys
                   \/ (onTick /\ ~ Syncs(p, m[2], onTick))}

\* flush: the values go to the other context and to other machines.  The
\* host's client sends to its own server only.
Receivers(p) == IF p = "Server" THEN Clients ELSE {"Server"}

Flush(p, keys, marks, values, boxes, onTick) ==
    LET taken == Taken(p, keys, marks, values, onTick)
        sent  == [from |-> p, values |-> [v \in taken |-> values[v]]]
    IN  /\ dirty' = [dirty EXCEPT ![p] = Kept(p, keys, marks, onTick)]
        /\ inbox' = IF taken = {} THEN boxes
                    ELSE [q \in Places |->
                            IF q \in Receivers(p) THEN Append(boxes[q], sent)
                                                  ELSE boxes[q]]

-----------------------------------------------------------------------------
VarsInit ==
    /\ stores = [p \in Places |-> [v \in Variables |-> NoVar]]
    /\ dirty = [p \in Places |-> {}]
    /\ inbox = [p \in Places |-> <<>>]
    /\ varWrites = 0
    /\ forgets = 0
    /\ changed = {}

\* A mod assigns to a mod variable or to entity.Vars: refused where it may
\* not be written; sent at once, with all that is dirty, if it asks for it.
WriteVariable(p, v, value) ==
    LET marks  == dirty[p] \cup {v}
        values == [stores[p] EXCEPT ![v] = value]
    IN  /\ varWrites < MaxWrites
        /\ Writeable(p, v[2])
        /\ varWrites' = varWrites + 1
        /\ stores' = [stores EXCEPT ![p] = values]
        /\ changed' = IF p = "Server" THEN changed ELSE changed \cup {v}
        /\ IF Options[v[2]].SyncOnWrite
           THEN Flush(p, VarKeys, marks, values, inbox, FALSE)
           ELSE dirty' = [dirty EXCEPT ![p] = marks] /\ UNCHANGED inbox
        /\ UNCHANGED forgets

\* DirtyModVariables of one variable; DirtyUserVariables of one, for one
\* entity or all, which also sends if the variable is synced on write.
MarkDirty(p, mark) ==
    /\ varWrites < MaxWrites
    /\ mark[1] = All => mark[2] \notin ModKeys
    /\ varWrites' = varWrites + 1
    /\ IF mark[2] \notin ModKeys /\ Options[mark[2]].SyncOnWrite
       THEN Flush(p, VarKeys, dirty[p] \cup {mark}, stores[p], inbox, FALSE)
       ELSE dirty' = [dirty EXCEPT ![p] = @ \cup {mark}] /\ UNCHANGED inbox
    /\ changed' = IF p = "Server" THEN changed
                  ELSE changed \cup {v \in Variables : mark \in {v, <<All, v[2]>>}}
    /\ UNCHANGED <<stores, forgets>>

\* SyncModVariables, SyncUserVariables.
Sync(p, keys) ==
    /\ \E m \in dirty[p] : m[2] \in keys
    /\ Flush(p, keys, dirty[p], stores[p], inbox, FALSE)
    /\ UNCHANGED <<stores, varWrites, forgets, changed>>

\* ApplyVarSync between the host's states, ApplyNetVars from the other
\* machine: the latter takes only what syncs in this direction, and has the
\* server send a client's change on.
Accepted(p, payload) ==
    IF {p, payload.from} = {"Server", "Host"} THEN DOMAIN payload.values
    ELSE {v \in DOMAIN payload.values : Syncs(payload.from, v[2], FALSE)}

Passed(p, payload) ==
    {v \in Accepted(p, payload) :
        p = "Server" /\ payload.from = "Peer" /\ Options[v[2]].SyncToClient}

\* The values when the queue of p was applied in its order: of each variable
\* the last one that was brought.
Bringing(p, v) == {i \in DOMAIN inbox[p] : v \in Accepted(p, inbox[p][i])}
Applied(p) ==
    [v \in Variables |-> IF Bringing(p, v) = {} THEN stores[p][v]
                         ELSE inbox[p][Max(Bringing(p, v))].values[v]]

\* The tick: the messages of the drain in their order, then FlushVars.
VarTick(p) ==
    LET values == Applied(p)
        marks  == dirty[p] \cup UNION {Passed(p, inbox[p][i]) : i \in DOMAIN inbox[p]}
    IN  /\ inbox[p] # <<>> \/ \E m \in dirty[p] : Syncs(p, m[2], TRUE)
        /\ stores' = [stores EXCEPT ![p] = values]
        /\ Flush(p, VarKeys, marks, values, [inbox EXCEPT ![p] = <<>>], TRUE)
        /\ UNCHANGED <<varWrites, forgets, changed>>

\* A client's state is rebuilt; what was on its way to it stays.
RebuildVars(p) ==
    /\ forgets < MaxForgets
    /\ forgets' = forgets + 1
    /\ stores' = [stores EXCEPT ![p] = [v \in Variables |-> NoVar]]
    /\ dirty' = [dirty EXCEPT ![p] = {}]
    /\ UNCHANGED <<inbox, varWrites, changed>>

\* The variables' part of RestoreSaveExtras: the server's values are those of
\* a save; nothing is marked.
RestoreVars(values) ==
    /\ forgets < MaxForgets
    /\ forgets' = forgets + 1
    /\ stores' = [stores EXCEPT !["Server"] = values]
    /\ UNCHANGED <<dirty, inbox, varWrites, changed>>

VarsNext ==
    \/ \E p \in Places, v \in Variables, value \in VarValues \cup {NoVar} :
          WriteVariable(p, v, value)
    \/ \E p \in Places, o \in Owners \cup {All}, k \in VarKeys : MarkDirty(p, <<o, k>>)
    \/ \E p \in Places : Sync(p, ModKeys) \/ Sync(p, VarKeys \ ModKeys)
    \/ \E p \in Places : VarTick(p)
    \/ \E p \in Clients : RebuildVars(p)
    \/ \E value \in VarValues \cup {NoVar} : RestoreVars([v \in Variables |-> value])

VarsSpec == VarsInit /\ [][VarsNext]_varVars
-----------------------------------------------------------------------------
\* Nothing of v is on its way from a place: neither dirty nor in a message.
Quiet(v) ==
    /\ \A p \in Places : {v, <<All, v[2]>>} \cap dirty[p] = {}
    /\ \A p \in Places : \A i \in DOMAIN inbox[p] :
          v \notin DOMAIN inbox[p][i].values

\* A variable the server alone has written is the same everywhere once
\* nothing of it is on its way, in whatever order it was written, marked,
\* synced by hand, sent with the tick and received; a value of nil crosses
\* too.  Only a state that was rebuilt or restored may lack it.
ServerValueArrives ==
    \A v \in Variables :
        /\ forgets = 0 /\ Options[v[2]].SyncToClient
        /\ v \notin changed /\ Quiet(v)
        => \A p \in Clients : stores[p][v] = stores["Server"][v]

\* A client's change reaches the server, and the server passes it "on to the
\* other clients": once nothing is on its way a client's variable that syncs
\* both ways and was never written twice is the same everywhere.
ChangeReachesAll ==
    \A v \in Variables :
        /\ forgets = 0 /\ varWrites = 1 /\ v \in changed /\ Quiet(v)
        /\ Options[v[2]].SyncToClient /\ Options[v[2]].SyncToServer
        => \A p, q \in Places : stores[p][v] = stores[q][v]
=============================================================================
