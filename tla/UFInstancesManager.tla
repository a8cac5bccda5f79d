------------------------- MODULE UFInstancesManager -------------------------
(***************************************************************************)
(* UFInstancesManager::newUFInstance (src/lib/UFInstancesManager.cpp:67-81)*)
(* interns uninterpreted-function instances: a content (function and      *)
(* argument list) seen before gets the id it got then, a new one gets the  *)
(* next index of mUFInstances.  print (35-65) requires 0 < id < size.      *)
(*                                                                         *)
(* Data: a content is a record [fn, args] from the constant set Contents;  *)
(* the manager's constructor (UFInstancesManager.h, not in this            *)
(* repository) reserves slot 0, which is what print's id != 0 relies on.   *)
(***************************************************************************)
EXTENDS Integers, Sequences, SequencesExt, FiniteSets, TLC

CONSTANTS
    Contents,     \* the UFInstanceContents callers build
    Reserved      \* the placeholder mUFInstances holds at index 0

VARIABLES
    ufInstances,  \* mUFInstances: index -> content (as a 0-based list)
    ufIdMap       \* mUFInstanceIdMap: content -> id

ufVars == <<ufInstances, ufIdMap>>

\* The size of mUFInstances.
Size == Len(ufInstances)

\* mUFInstances[id] for a 0-based id.
ContentOf(id) == ufInstances[id + 1]

\* Mutation: no placeholder at index 0.
UFInitUnreserved ==
    /\ ufInstances = <<>>
    /\ ufIdMap = <<>>

\* The constructor: slot 0 holds the placeholder.
UFInit ==
    /\ ufInstances = <<Reserved>>
    /\ ufIdMap = <<>>

\* Mutation: a new id is assigned without the lookup.
newUFInstanceUnshared(c) ==
    /\ ufIdMap' = (c :> Size) @@ ufIdMap
    /\ ufInstances' = Append(ufInstances, c)

\* newUFInstance: return the id of an equal content, or append the content
\* and map it to its index.
newUFInstance(c) ==
    IF c \in DOMAIN ufIdMap
    THEN UNCHANGED ufVars
    ELSE /\ ufIdMap' = ufIdMap @@ (c :> Size)
         /\ ufInstances' = Append(ufInstances, c)

\* The ids newUFInstance has returned so far.
Issued == {ufIdMap[c] : c \in DOMAIN ufIdMap}

UFTypeOK ==
    /\ Len(ufInstances) >= 1 /\ ufInstances[1] = Reserved
    /\ ufInstances \in Seq(Contents \cup {Reserved})
    /\ DOMAIN ufIdMap \subseteq Contents

\* Interning: equal contents share one instance, and the id map and the
\* instance list are inverse to each other, so print finds under an id
\* the content it was issued for.
InterningConsistent ==
    /\ \A c \in DOMAIN ufIdMap : ufIdMap[c] < Size /\ ContentOf(ufIdMap[c]) = c
    /\ \A id \in 1..Size - 1 : ufIdMap[ContentOf(id)] = id

=============================================================================
