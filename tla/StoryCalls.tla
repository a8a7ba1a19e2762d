----------------------------- MODULE StoryCalls -----------------------------
(***************************************************************************)
(* Osi.* from Lua: which declaration a call is for, how its arguments      *)
(* become Osiris' typed values and back, and the references it takes on    *)
(* Osiris' string pool.  One database with the columns Columns, one user   *)
(* query, one name the engine maps with the declarations Overloads.        *)
(*                                                                         *)
(* A Lua argument is [k, n]: its kind and its number or text.  Numbers are *)
(* counted in halves, so that a float can lie between two integers.  Osiris*)
(* holds a typed value [type, raw]: a handle of the pool, or a word.       *)
(***************************************************************************)
EXTENDS Integers, Sequences, FiniteSets, FiniteSetsExt, SequencesExt

CONSTANTS
    DbColumns,     \* the database's declared types
    Outputs,     \* the query: one input column, then these output types
    Overloads,   \* the engine's declarations: [params, known, outs], outs the
                 \* positions of the outputs, when the store knew them
    Alias,       \* story type -> base type; a type not in it is unknown
    StoryTexts,       \* the strings used, each with whether it ends in a uuid
    Arguments,   \* the Lua arguments tried
    ArgWidth,       \* how many integers an Integer holds, 2^32 in Osiris
    MaxFacts     \* bound on the facts of the database

Integer == "Integer"
Integer64 == "Integer64"
Real == "Real"
String == "String"
GuidString == "GuidString"
None == "None"
BaseTypes == {Integer, Integer64, Real, String, GuidString}

\* An alias stands for a base type, and an output is one of the parameters.
ASSUME CallsAssumption ==
    /\ DbColumns \in Seq(STRING) /\ Outputs \in Seq(STRING)
    /\ \A type \in DOMAIN Alias : Alias[type] \in BaseTypes
    /\ Overloads \in Seq([params : Nat, known : BOOLEAN, outs : SUBSET Nat])
    /\ \A i \in DOMAIN Overloads : Overloads[i].outs \subseteq 1..Overloads[i].params
    /\ \A arg \in Arguments : /\ arg = [k |-> arg.k, n |-> arg.n]
                              /\ arg.k \in {"integer", "float", "entity"} => arg.n \in Int
    /\ ArgWidth \in Nat \ {0}

VARIABLES
    refs,    \* the pool: how many references each text has
    facts,   \* the database: a set of rows of typed values
    lastCall,    \* the last call: what it did
    leaked   \* references of outputs whose story type is unknown

callVars == <<refs, facts, lastCall, leaked>>

-----------------------------------------------------------------------------
\* resolve_alias, type_known, is_string_type

ResolveAlias(type) ==
    IF type \in DOMAIN Alias THEN Alias[type] ELSE type
TypeKnown(type) == type \in BaseTypes \cup DOMAIN Alias
IsString(base) == base \in {String, GuidString}

\* Mutant: the low 32 bits read without their sign.
NarrowUnsigned(n) == n % ArgWidth

\* An Integer keeps the low 32 bits, read as a signed number.
Narrow(n) == ((n + ArgWidth \div 2) % ArgWidth) - ArgWidth \div 2

\* to_value: what crosses into Osiris, or nothing when Osiris has no type for
\* it.  A float also gives its integer part, which an Integer column takes.
Truncated(halves) == IF halves >= 0 THEN halves \div 2 ELSE -((-halves) \div 2)

ToValue(arg) ==
    CASE arg.k = "string" -> [type |-> String, text |-> arg.n, int |-> 0, real |-> 0]
      [] arg.k = "integer" -> [type |-> Integer, text |-> None, int |-> arg.n, real |-> 2 * arg.n]
      [] arg.k = "float" -> [type |-> Real, text |-> None, int |-> Truncated(arg.n), real |-> arg.n]
      [] arg.k = "entity" -> [type |-> Integer64, text |-> None, int |-> arg.n, real |-> 0]
      [] arg.k = "nil" -> [type |-> None, text |-> None, int |-> 0, real |-> 0]

Convertible(arg) == arg.k # "table"

\* osi_check_inputs: by the declared base; an unresolved type is left alone.
Accepts(type, arg) ==
    LET base == ResolveAlias(type)
    IN  CASE IsString(base) -> arg.k = "string"
          [] base \in {Integer, Integer64} -> arg.k \in {"integer", "float", "entity"}
          [] base = Real -> arg.k \in {"integer", "float"}
          [] OTHER -> TRUE

\* encode_arg: the base it is written as; the caller's own type decides when
\* the story's is unknown.
EncodedBase(type, v) ==
    IF TypeKnown(type) THEN ResolveAlias(type)
    ELSE IF v.type # String THEN v.type
    ELSE IF StoryTexts[v.text] THEN GuidString ELSE String

Mismatched(type, v) ==
    v.type # None /\ TypeKnown(type) /\ (IsString(ResolveAlias(type)) # (v.type = String))

EncodeArg(type, v) ==
    LET base == EncodedBase(type, v)
    IN  IF v.type = None THEN [type |-> None, raw |-> [word |-> 0]]
        ELSE [type |-> type,
              raw |-> CASE IsString(base) -> [handle |-> v.text]
                        [] base = Real -> [word |-> v.real]
                        [] base = Integer64 -> [word |-> v.int]
                        [] OTHER -> [word |-> Narrow(v.int)]]

IsHandle(raw) == "handle" \in DOMAIN raw

\* decode_value, and value_by_shape for a type nothing is known of.
DecodeValue(tv) ==
    LET base == IF TypeKnown(tv.type) THEN ResolveAlias(tv.type)
                ELSE IF IsHandle(tv.raw) THEN String ELSE Integer
    IN  IF IsString(base) THEN [k |-> "string", n |-> tv.raw.handle]
        ELSE IF base = Real THEN [k |-> "float", n |-> tv.raw.word]
        ELSE [k |-> "integer",
              n |-> IF base = Integer64 THEN tv.raw.word ELSE Narrow(tv.raw.word)]

\* row_matches: nil is any value; the wrong type raises, here "no row".
ColumnMatches(tv, arg) ==
    LET held == DecodeValue(tv)
    IN  \/ arg.k = "nil"
        \/ held.k = "string" /\ arg = held
        \/ held.k = "float" /\ arg.k \in {"integer", "float"}
             /\ held.n = ToValue(arg).real
        \/ held.k = "integer" /\ arg.k = "integer" /\ held.n = arg.n

RowMatches(row, args) == \A i \in DOMAIN row : ColumnMatches(row[i], args[i])

-----------------------------------------------------------------------------
\* References

HandlesOf(row) == [t \in DOMAIN StoryTexts |->
                    Cardinality({i \in DOMAIN row : row[i].raw = [handle |-> t]})]
Held(rows) == [t \in DOMAIN StoryTexts |->
                    Cardinality({o \in rows \X DOMAIN DbColumns :
                                     o[1][o[2]].raw = [handle |-> t]})]
AddTo(a, b) == [t \in DOMAIN StoryTexts |-> a[t] + b[t]]
Minus(a, b) == [t \in DOMAIN StoryTexts |-> a[t] - b[t]]

\* The arguments up to the first that encode_arg refuses, or all of them.
EncodedUpTo(types, vs) ==
    LET bad == {i \in DOMAIN vs : Mismatched(types[i], vs[i])}
        n == IF bad = {} THEN Len(vs) ELSE Min(bad) - 1
    IN  [i \in 1..n |-> EncodeArg(types[i], vs[i])]

CallInit ==
    /\ refs = [t \in DOMAIN StoryTexts |-> 0]
    /\ facts = {}
    /\ lastCall = [op |-> "none"]
    /\ leaked = [t \in DOMAIN StoryTexts |-> 0]

\* What the engine does with a tuple (external): a fact is kept once, with
\* references of its own; a retracted tuple's None columns stand for any value.
EngineInserts(row) ==
    /\ facts' = facts \cup {row}
    /\ Cardinality(facts') <= MaxFacts
EngineRetracts(row) ==
    facts' = {f \in facts : \E i \in DOMAIN row :
                    row[i].type # None /\ row[i].raw # f[i].raw}

\* insert_tuple: intern and encode in order; an argument that does not fit
\* ends the call with the handles so far given back.  After the engine's call
\* they are given back too: it keeps references of its own.
InsertTuple(args, slot) ==
    LET vs == [i \in DOMAIN args |-> ToValue(args[i])]
        row == EncodedUpTo(DbColumns, vs)
        ok == Len(row) = Len(DbColumns)
        taken == AddTo(refs, HandlesOf(row))
    IN  /\ IF ~ok THEN UNCHANGED facts
           ELSE IF slot = "insert" THEN EngineInserts(row) ELSE EngineRetracts(row)
        /\ refs' = Minus(AddTo(taken, Minus(Held(facts'), Held(facts))), HandlesOf(row))
        /\ lastCall' = [op |-> slot, ok |-> ok, args |-> args]
        /\ UNCHANGED leaked

\* Osi.DB_Name(...): osi_story_dispatch.  declared_inputs finds no declaration
\* for another number of arguments.
StoryDispatch(args) ==
    /\ Len(args) = Len(DbColumns)
    /\ \A i \in DOMAIN args : Accepts(DbColumns[i], args[i]) /\ Convertible(args[i])
                                /\ args[i].k # "nil"
    /\ InsertTuple(args, "insert")

\* Osi.DB_Name:Delete(...): nil is any value; the types are not checked first.
DbDelete(args) ==
    /\ Len(args) = Len(DbColumns)
    /\ \A i \in DOMAIN args : Convertible(args[i])
    /\ InsertTuple(args, "delete")

\* Osi.DB_Name:Get(...): the rows that match, decoded.
DbGet(args) == {f \in facts : RowMatches(f, args)}

\* Osi.QRY_Name(input): encode the input, let the node answer, decode the
\* outputs.  The engine's copies took a reference each; query gives back those
\* whose type resolves to a string.
Answers == {out \in [1..Len(Outputs) -> {[handle |-> t] : t \in DOMAIN StoryTexts}
                                             \cup {[word |-> 1]}] :
                \A i \in DOMAIN out : TypeKnown(Outputs[i]) =>
                    (IsHandle(out[i]) <=> IsString(ResolveAlias(Outputs[i])))}
Row(types, raws) == [i \in DOMAIN raws |-> [type |-> types[i], raw |-> raws[i]]]
Released(row) == [t \in DOMAIN StoryTexts |->
                    Cardinality({i \in DOMAIN row : IsString(ResolveAlias(row[i].type))
                                                     /\ row[i].raw = [handle |-> t]})]

UserQuery(arg, valid, out) ==
    LET input == EncodedUpTo(<<DbColumns[1]>>, <<ToValue(arg)>>)
        row == Row(Outputs, out)
        taken == AddTo(refs, HandlesOf(input))
    IN  /\ Accepts(DbColumns[1], arg) /\ arg.k # "nil"
        /\ refs' = Minus(IF valid THEN Minus(AddTo(taken, HandlesOf(row)), Released(row))
                         ELSE taken, HandlesOf(input))
        /\ leaked' = IF valid THEN AddTo(leaked, Minus(HandlesOf(row), Released(row)))
                     ELSE leaked
        /\ lastCall' = [op |-> "query", ok |-> valid,
                    values |-> IF valid THEN [i \in DOMAIN row |-> DecodeValue(row[i])]
                               ELSE [i \in DOMAIN row |-> "nil"]]
        /\ UNCHANGED facts

-----------------------------------------------------------------------------
\* The engine's own functions

IsOutput(fn, i, inputs) ==
    IF ~fn.known THEN i > inputs ELSE i \in fn.outs
ExpectedInputs(fn) ==
    IF ~fn.known THEN -1 ELSE fn.params - Cardinality(fn.outs)

\* osi_dispatch: the first declaration with that many inputs; else the first
\* whose outputs are unknown and that has room; else the story's own.
FirstOf(Test(_)) ==
    SelectInSeq(Overloads, Test)

Chosen(argc) ==
    LET exact == FirstOf(LAMBDA fn : ExpectedInputs(fn) = argc)
        open == FirstOf(LAMBDA fn : ExpectedInputs(fn) < 0 /\ argc <= fn.params)
    IN  IF exact # 0 THEN exact ELSE open

\* invoke: the inputs go to the parameters that are no outputs, in order.
Placed(fn, argc) ==
    LET places == {i \in 1..fn.params : ~IsOutput(fn, i, argc)}
    IN  Min({argc, Cardinality(places)})

Dispatch(argc, handled) ==
    LET c == Chosen(argc)
    IN  /\ lastCall' = IF c = 0 THEN [op |-> "story", argc |-> argc]
                   ELSE LET fn == Overloads[c]
                            outs == {i \in 1..fn.params : IsOutput(fn, i, argc)}
                        IN  [op |-> "engine", argc |-> argc, fn |-> c,
                             placed |-> Placed(fn, argc),
                             params |-> fn.params,
                             results |-> IF handled THEN Cardinality(outs)
                                         ELSE IF ~fn.known THEN fn.params - argc
                                         ELSE Cardinality(fn.outs)]
        /\ UNCHANGED <<refs, facts, leaked>>

CallNext ==
    \/ \E args \in [1..Len(DbColumns) -> Arguments] :
            StoryDispatch(args) \/ DbDelete(args)
    \/ \E arg \in Arguments, valid \in BOOLEAN, out \in Answers :
            leaked = [t \in DOMAIN StoryTexts |-> 0] /\ UserQuery(arg, valid, out)
    \/ \E argc \in 0..4, handled \in BOOLEAN : Dispatch(argc, handled)

CallSpec == CallInit /\ [][CallNext]_callVars

-----------------------------------------------------------------------------

\* The pool's references are the facts' own: every path of an insert, a
\* retract or a query gives back what it took, the ones where an argument is
\* refused after others were interned included.  What is left over is outputs
\* of a story type nothing is known of, which query does not give back.
ReferencesBalanced ==
    refs = AddTo(Held(facts), leaked)

\* A fact a script puts into a database is found by Get with the same values,
\* through the encoding to the declared type and back.  A number that the
\* column's type cannot hold is the exception (osi.cpp, encode_arg narrows it).
Fits(type, arg) ==
    /\ TypeKnown(type)
    /\ arg.k = "float" => ResolveAlias(type) = Real
    /\ arg.k = "entity" => FALSE
    /\ arg.k = "integer" /\ ResolveAlias(type) = Integer =>
            arg.n >= -(ArgWidth \div 2) /\ arg.n < ArgWidth \div 2
GetFindsInserted ==
    (/\ lastCall.op = "insert" /\ lastCall.ok
     /\ \A i \in DOMAIN DbColumns : Fits(DbColumns[i], lastCall.args[i]))
        => DbGet(lastCall.args) # {}

\* A call to the engine places every argument it was given, and returns as
\* many values as the declaration has outputs, whether the outputs are known
\* or the caller's count decides.
CallTakesItsArguments ==
    lastCall.op = "engine" =>
        lastCall.placed = lastCall.argc /\ lastCall.results = lastCall.params - lastCall.argc

\* A fact that was inserted is found, an engine call takes all its arguments
\* and gives all its outputs, and neither keeps references it took.
CallsComeBack ==
    GetFindsInserted /\ CallTakesItsArguments /\ ReferencesBalanced
=============================================================================
