----------------------------- MODULE ActivePointer -----------------------------
(***************************************************************************)
(* What publication promises, in both implementations: one pointer, moved  *)
(* by compare-and-swap on the parent the new generation was built from     *)
(* ("only candidate(parent = active) may advance the active pointer",      *)
(* README.md:37).  PulseStore.publish does it in a SQLite transaction, the *)
(* publish_generation Lambda in a DynamoDB transaction; StorePublication   *)
(* and AwsPublication are shown to implement this module.                  *)
(***************************************************************************)
EXTENDS Integers, FiniteSets

CONSTANTS
    Generation,  \* generation identifiers
    None         \* the pointer before the first publication

VARIABLES
    active,   \* active_generation_id
    version,  \* version / pointer_version
    lineage   \* <<g, parent>> for every generation ever published

pointerVars == <<active, version, lineage>>

Published == {e[1] : e \in lineage}

Init ==
    /\ active = None
    /\ version = 0
    /\ lineage = {}

(* g becomes visible; the parent it names is the one it replaces. *)
Publish(g) ==
    /\ g \notin Published
    /\ active' = g
    /\ version' = version + 1
    /\ lineage' = lineage \cup {<<g, active>>}

Next == \E g \in Generation : Publish(g)

Spec == Init /\ [][Next]_pointerVars

-----------------------------------------------------------------------------
PointerTypeOK ==
    /\ active \in Generation \cup {None}
    /\ version \in Nat
    /\ lineage \subseteq Generation \X (Generation \cup {None})

(* The published generations form one line: each was published once, no two  *)
(* replaced the same parent, every parent had been published, and only the   *)
(* active one has not been replaced.                                         *)
OneLine ==
    /\ \A d, e \in lineage : d[1] = e[1] => d = e
    /\ \A d, e \in lineage : d[2] = e[2] => d = e
    /\ \A e \in lineage : e[2] \in Published \cup {None}
    /\ \A g \in Published : g # active <=> \E e \in lineage : e[2] = g
    /\ active = None <=> lineage = {}
    /\ active # None => active \in Published

(* The pointer version counts the publications. *)
VersionCountsPublications == IsFiniteSet(lineage) /\ version = Cardinality(lineage)
=============================================================================
