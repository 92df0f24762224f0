-------------------------- MODULE ActivePointerProofs --------------------------
(***************************************************************************)
(* Compare-and-swap on the parent makes the published generations one      *)
(* line, for any set of generations.  The three invariants are inductive   *)
(* together: Publish(g) extends the line at its open end, which is the     *)
(* active generation, with a generation that is not on it yet.             *)
(***************************************************************************)
EXTENDS ActivePointer, FiniteSetTheorems, TLAPS

PointerInv == PointerTypeOK /\ OneLine /\ VersionCountsPublications

LEMMA PointerInit ==
    ASSUME None \notin Generation, Init
    PROVE  PointerInv
  <1>1. Published = {}
      BY DEF Init, Published
  <1>2. PointerTypeOK
      BY DEF Init, PointerTypeOK
  <1>3. OneLine
      BY <1>1 DEF Init, OneLine
  <1>4. VersionCountsPublications
      BY FS_EmptySet DEF Init, VersionCountsPublications
  <1> QED  BY <1>2, <1>3, <1>4 DEF PointerInv

LEMMA PublishKeepsTheLine ==
    ASSUME None \notin Generation, PointerInv, NEW g \in Generation, Publish(g)
    PROVE  PointerInv'
  <1> DEFINE e == <<g, active>>
  <1>1. /\ g \notin Published
        /\ active' = g /\ version' = version + 1 /\ lineage' = lineage \cup {e}
      BY DEF Publish
  <1>2. Published' = Published \cup {g}
    <2>1. Published' = {d[1] : d \in lineage \cup {e}}
        BY <1>1 DEF Published
    <2>2. \A h : h \in Published' <=> h \in Published \/ h = e[1]
        BY <2>1 DEF Published
    <2> QED  BY <2>2
  <1>3. e \notin lineage /\ e[1] = g /\ e[2] = active
      BY <1>1 DEF Published
  <1>4. PointerTypeOK'
      BY <1>1 DEF PointerInv, PointerTypeOK
  <1>5. OneLine'
    <2> USE DEF PointerInv, OneLine
    <2>1. \A d \in lineage : d[1] # g /\ d[2] # active
      <3> SUFFICES ASSUME NEW d \in lineage PROVE d[1] # g /\ d[2] # active
          OBVIOUS
      <3>1. d[1] # g
          BY <1>1 DEF Published
      <3>2. d[2] # active
        <4>1. CASE active = None
            BY <4>1
        <4>2. CASE active # None
            BY <4>2
        <4> QED  BY <4>1, <4>2
      <3> QED  BY <3>1, <3>2
    <2>2. \A c, d \in lineage' : c[1] = d[1] => c = d
        BY <1>1, <1>3, <2>1
    <2>3. \A c, d \in lineage' : c[2] = d[2] => c = d
        BY <1>1, <1>3, <2>1
    <2>4. \A d \in lineage' : d[2] \in Published' \cup {None}
        BY <1>1, <1>2, <1>3
    <2>5. \A h \in Published' : h # active' <=> \E d \in lineage' : d[2] = h
      <3> SUFFICES ASSUME NEW h \in Published'
                   PROVE  h # g <=> \E d \in lineage' : d[2] = h
          BY <1>1
      <3>1. CASE h = g
        <4>1. active # g
            BY <1>1
        <4>2. \A d \in lineage : d[2] # g
            BY <1>1
        <4> QED  BY <1>1, <1>3, <3>1, <4>1, <4>2
      <3>2. CASE h # g /\ h = active
          BY <1>1, <1>3, <3>2
      <3>3. CASE h # g /\ h # active
          BY <1>1, <1>2, <1>3, <3>3
      <3> QED  BY <3>1, <3>2, <3>3
    <2>6. active' # None /\ lineage' # {} /\ active' \in Published'
        BY <1>1, <1>2
    <2> QED  BY <2>2, <2>3, <2>4, <2>5, <2>6
  <1>6. VersionCountsPublications'
      BY <1>1, <1>3, FS_AddElement DEF PointerInv, VersionCountsPublications
  <1> QED  BY <1>4, <1>5, <1>6 DEF PointerInv

(* Whatever generations are published, in whatever order: they form one line *)
(* whose end is the active one, and the pointer version is its length.  This *)
(* is what the parent check of PulseStore.publish and of                     *)
(* publication_transaction is for.                                           *)
THEOREM PointerCorrect ==
    ASSUME None \notin Generation
    PROVE  Spec => [](PointerTypeOK /\ OneLine /\ VersionCountsPublications)
  <1>1. Init => PointerInv
      BY PointerInit
  <1>2. PointerInv /\ [Next]_pointerVars => PointerInv'
    <2> SUFFICES ASSUME PointerInv, [Next]_pointerVars PROVE PointerInv'
        OBVIOUS
    <2>1. CASE Next
        BY <2>1, PublishKeepsTheLine DEF Next
    <2>2. CASE UNCHANGED pointerVars
        BY <2>2 DEF pointerVars, PointerInv, PointerTypeOK, OneLine,
                    VersionCountsPublications, Published
    <2> QED  BY <2>1, <2>2
  <1>3. PointerInv => PointerTypeOK /\ OneLine /\ VersionCountsPublications
      BY DEF PointerInv
  <1> QED  BY <1>1, <1>2, <1>3, PTL DEF Spec
=============================================================================
