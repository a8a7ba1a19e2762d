----------------------------- MODULE ModSettings -----------------------------
(***************************************************************************)
(* tools/modsettings.cpp: a load order from a directory of archives.  Each *)
(* archive's meta.lsx names its modules and what they need; the order puts *)
(* a module's needs before it, and is by name otherwise.  Placing a module *)
(* recurses into its needs, here a stack of the modules being placed.      *)
(***************************************************************************)
EXTENDS Integers, Sequences, SequencesExt, FiniteSets

CONSTANTS
    Modules,       \* the modules, by UUID
    Paks,          \* the archives: pak -> the module it holds
    ModuleNeeds,   \* the sets of needs tried: functions module -> sequence of UUIDs
    Rank,          \* module -> the rank of its name
    BaseModules    \* the UUIDs the game provides

VARIABLES
    needs,      \* module -> what its meta.lsx says it needs
    unread,     \* the archives readdir has still to give
    found,      \* the modules read: std::vector<Mod> mods, in its present order
    slotOf,     \* byUuid: module -> the element of the vector it points at
    toPlace,    \* the loop over mods: how many are placed from it
    frames,     \* the calls of place under way: [mod, next need]
    placed,     \* placed
    order,      \* out
    report,     \* the missing dependencies written to stderr
    stage       \* "read", "place", "written"

settingsVars == <<needs, unread, found, slotOf, toPlace, frames, placed, order, report, stage>>

SettingsInit ==
    /\ needs \in ModuleNeeds
    /\ unread = DOMAIN Paks
    /\ found = <<>>
    /\ slotOf = <<>>
    /\ toPlace = 0
    /\ frames = <<>>
    /\ placed = {}
    /\ order = <<>>
    /\ report = {}
    /\ stage = "read"

\* read_metas of the next archive readdir gives; one without a meta.lsx that
\* parses is left out.
ReadArchive(pak, readable) ==
    /\ stage = "read" /\ pak \in unread
    /\ unread' = unread \ {pak}
    /\ found' = IF readable THEN Append(found, Paks[pak]) ELSE found
    /\ UNCHANGED <<needs, slotOf, toPlace, frames, placed, order, report, stage>>

ByRank(s) == SortSeq(s, LAMBDA a, b : Rank[a] < Rank[b])

\* ordered: byUuid points at the elements of the vector, which is sorted after.
BeginOrdered ==
    /\ stage = "read" /\ unread = {}
    /\ slotOf' = [m \in Range(found) |-> SelectLastInSeq(found, LAMBDA x : x = m)]
    /\ found' = ByRank(found)
    /\ stage' = "place"
    /\ UNCHANGED <<needs, unread, toPlace, frames, placed, order, report>>

Placing == {frames[i].mod : i \in DOMAIN frames}

\* place(mod): nothing for one that is placed or being placed.
Enter(m) ==
    IF m \in placed \/ m \in Placing THEN <<>> ELSE <<[mod |-> m, next |-> 1]>>

PlaceNext ==
    /\ stage = "place" /\ frames = <<>> /\ toPlace < Len(found)
    /\ toPlace' = toPlace + 1
    /\ frames' = Enter(found[toPlace + 1])
    /\ UNCHANGED <<needs, unread, found, slotOf, placed, order, report, stage>>

\* The element byUuid points at for a need.
Pointed(need) == found[slotOf[need]]

\* Mutant: a need that is not installed ends the loop over the needs.
PlaceNeedStops ==
    /\ frames # <<>>
    /\ LET f == Last(frames)
       IN  /\ f.next <= Len(needs[f.mod])
           /\ LET need == needs[f.mod][f.next]
                  rest == [f EXCEPT !.next = IF need \in DOMAIN slotOf THEN @ + 1
                                             ELSE Len(needs[f.mod]) + 1]
              IN  frames' = Front(frames) \o <<rest>>
                                \o (IF need \in DOMAIN slotOf THEN Enter(Pointed(need)) ELSE <<>>)
    /\ UNCHANGED <<needs, unread, found, slotOf, toPlace, placed, order, report, stage>>

PlaceNeed ==
    /\ frames # <<>>
    /\ LET f == Last(frames)
       IN  /\ f.next <= Len(needs[f.mod])
           /\ LET need == needs[f.mod][f.next]
              IN  frames' = Front(frames) \o <<[f EXCEPT !.next = @ + 1]>>
                                \o (IF need \in DOMAIN slotOf THEN Enter(Pointed(need)) ELSE <<>>)
    /\ UNCHANGED <<needs, unread, found, slotOf, toPlace, placed, order, report, stage>>

PlaceDone ==
    /\ frames # <<>>
    /\ LET m == Last(frames).mod
       IN  /\ Last(frames).next > Len(needs[m])
           /\ placed' = placed \union {m}
           /\ order' = IF m \in placed THEN order ELSE Append(order, m)
    /\ frames' = Front(frames)
    /\ UNCHANGED <<needs, unread, found, slotOf, toPlace, report, stage>>

\* main: the order is written, then what no archive and not the game provides
\* is reported.
WriteOrder ==
    /\ stage = "place" /\ frames = <<>> /\ toPlace = Len(found)
    /\ stage' = "written"
    /\ report' = {<<m, n>> \in Range(order) \X (Modules \union BaseModules) :
                    Contains(needs[m], n) /\ n \notin Range(order) /\ n \notin BaseModules}
    /\ UNCHANGED <<needs, unread, found, slotOf, toPlace, frames, placed, order>>

SettingsNext ==
    \/ \E pak \in DOMAIN Paks, readable \in BOOLEAN : ReadArchive(pak, readable)
    \/ BeginOrdered \/ PlaceNext \/ PlaceNeed \/ PlaceDone \/ WriteOrder

SettingsSpec == SettingsInit /\ [][SettingsNext]_settingsVars /\ WF_settingsVars(SettingsNext)

-----------------------------------------------------------------------------

PositionOf(m) == CHOOSE i \in DOMAIN order : order[i] = m

\* A need that itself needs the module, at any distance, is a cycle.
Needing(m) == {n \in Modules : Contains(needs[m], n)}
Acyclic ==
    \E rank \in [Modules -> 1..Cardinality(Modules)] :
        \A m \in Modules : \A n \in Needing(m) : rank[n] < rank[m]

\* "Dependencies before dependents, and alphabetical within a tier".
DependenciesFirst ==
    stage = "written" /\ Acyclic =>
        \A m \in Range(order) : \A n \in Needing(m) \intersect Range(order) :
            PositionOf(n) < PositionOf(m)

\* Dependencies come before dependents when readdir gave the archives in name
\* order, so that sorting moved nothing byUuid points at.
DependenciesFirstIfSorted ==
    (\A m \in DOMAIN slotOf : found[slotOf[m]] = m) => DependenciesFirst

\* Every module read is in the order once, cycles and second copies included.
EveryModuleOnce ==
    stage = "written" => IsInjective(order) /\ Range(order) = Range(found)

\* The order that is written has every module once, and each after its needs
\* as far as the sort left the archives in place.
OrderIsWhole ==
    EveryModuleOnce /\ DependenciesFirstIfSorted
=============================================================================
