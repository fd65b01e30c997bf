--------------------------- MODULE LinkStoreProofs ---------------------------
(***************************************************************************)
(* What the SQL statements of LinkStore do to the tables, for every set of *)
(* users, slugs and links: the lemmas that the proofs about the services   *)
(* over them rest on.                                                      *)
(***************************************************************************)
EXTENDS LinkStore, TLAPS

(* A limit in force is a number: the plan's, or a value of an override. *)
LEMMA EffectiveNat ==
  ASSUME TablesTypeOK, NEW u \in Users, NEW f \in Fields
  PROVE  Effective(u, f) \in Nat
<1>1. CASE overrides[u] = Null \/ overrides[u][f] = Null
  BY <1>1, PlanAssumption DEF Effective
<1>2. CASE ~(overrides[u] = Null \/ overrides[u][f] = Null)
  <2>1. overrides[u] \in Override
    BY <1>2 DEF TablesTypeOK
  <2>2. overrides[u][f] \in Limits
    BY <1>2, <2>1 DEF Override
  <2> QED BY <1>2, <2>2, PlanAssumption DEF Effective
<1> QED BY <1>1, <1>2

(* The insert adds a well-formed row and its identifier. *)
LEMMA InsertTyping ==
  ASSUME TablesTypeOK, NEW i \in LinkIds, NEW u \in Users, NEW s \in Slugs, InsertLink(i, u, s)
  PROVE  TablesTypeOK' /\ usedIds \subseteq usedIds'
  BY DEF TablesTypeOK, InsertLink, Link

(* The update of the flag changes no identifier and leaves rows rows. *)
LEMMA SetActiveTyping ==
  ASSUME TablesTypeOK, NEW i \in LinkIds, NEW on \in BOOLEAN, SetActive(i, on)
  PROVE  TablesTypeOK' /\ usedIds' = usedIds
<1>1. links[i] \in Link
  BY DEF TablesTypeOK, SetActive, Live
<1>2. [links[i] EXCEPT !.active = on] \in Link
  BY <1>1 DEF Link
<1>3. links' \in [LinkIds -> Link \cup {Null}]
  BY <1>1, <1>2 DEF TablesTypeOK, SetActive
<1>4. \A j \in LinkIds : links'[j] # Null => links[j] # Null
  BY DEF TablesTypeOK, SetActive, Live
<1> QED BY <1>3, <1>4 DEF TablesTypeOK, SetActive

(* The delete leaves rows rows and hands out no identifier. *)
LEMMA DeleteTyping ==
  ASSUME TablesTypeOK, NEW i \in LinkIds, DeleteLink(i)
  PROVE  TablesTypeOK' /\ usedIds' = usedIds
  BY DEF TablesTypeOK, DeleteLink

(* The upsert writes a well-formed row of overrides. *)
LEMMA UpsertTyping ==
  ASSUME TablesTypeOK, NEW u \in Users, NEW dto \in OverrideDtos, UpsertOverride(u, dto)
  PROVE  TablesTypeOK'
<1> DEFINE row == [f \in Fields |-> IF f \in DOMAIN dto THEN dto[f]
                     ELSE IF overrides[u] = Null THEN Null ELSE overrides[u][f]]
<1>1. PICK F \in SUBSET Fields : dto \in [F -> Limits \cup {Null}]
  BY DEF OverrideDtos
<1>2. overrides[u] # Null => overrides[u] \in [Fields -> Limits \cup {Null}]
  BY DEF TablesTypeOK, Override
<1>3. row \in Override
  BY <1>1, <1>2 DEF Override
<1> HIDE DEF row
<1>4. overrides' = [overrides EXCEPT ![u] = row] /\ UNCHANGED <<links, usedIds>>
  BY DEF UpsertOverride, row
<1> QED BY <1>3, <1>4 DEF TablesTypeOK

(* The removal of an override leaves the links alone. *)
LEMMA DeleteOverrideTyping ==
  ASSUME TablesTypeOK, NEW u \in Users, DeleteOverride(u)
  PROVE  TablesTypeOK' /\ usedIds' = usedIds
  BY DEF TablesTypeOK, DeleteOverride

-----------------------------------------------------------------------------
(* Any statement that changes a table. *)
Statement == \/ \E i \in LinkIds, u \in Users, s \in Slugs : InsertLink(i, u, s)
             \/ \E i \in LinkIds, on \in BOOLEAN : SetActive(i, on)
             \/ \E i \in LinkIds : DeleteLink(i)
             \/ \E u \in Users, dto \in OverrideDtos : UpsertOverride(u, dto)
             \/ \E u \in Users : DeleteOverride(u)

(* Identifiers are never given up, and a row that is gone stays gone. *)
RowsGoForGood == /\ usedIds \subseteq usedIds'
                 /\ \A i \in usedIds : Live(i)' => Live(i)

(* Every statement keeps the tables typed and revives no row. *)
LEMMA StatementTyping ==
  ASSUME TablesTypeOK, Statement
  PROVE  TablesTypeOK' /\ RowsGoForGood
<1> USE DEF RowsGoForGood
<1>1. ASSUME NEW i \in LinkIds, NEW u \in Users, NEW s \in Slugs, InsertLink(i, u, s)
      PROVE  TablesTypeOK' /\ RowsGoForGood
  BY <1>1, InsertTyping DEF InsertLink, Live, TablesTypeOK
<1>2. ASSUME NEW i \in LinkIds, NEW on \in BOOLEAN, SetActive(i, on)
      PROVE  TablesTypeOK' /\ RowsGoForGood
  <2>1. \A j \in LinkIds : Live(j)' => Live(j)
    BY <1>2 DEF SetActive, Live, TablesTypeOK
  <2> QED BY <1>2, <2>1, SetActiveTyping DEF TablesTypeOK
<1>3. ASSUME NEW i \in LinkIds, DeleteLink(i)
      PROVE  TablesTypeOK' /\ RowsGoForGood
  <2>1. \A j \in LinkIds : Live(j)' => Live(j)
    BY <1>3 DEF DeleteLink, Live, TablesTypeOK
  <2> QED BY <1>3, <2>1, DeleteTyping DEF TablesTypeOK
<1>4. ASSUME NEW u \in Users, NEW dto \in OverrideDtos, UpsertOverride(u, dto)
      PROVE  TablesTypeOK' /\ RowsGoForGood
  BY <1>4, UpsertTyping DEF UpsertOverride, Live
<1>5. ASSUME NEW u \in Users, DeleteOverride(u)
      PROVE  TablesTypeOK' /\ RowsGoForGood
  BY <1>5, DeleteOverrideTyping DEF DeleteOverride, Live
<1> QED BY <1>1, <1>2, <1>3, <1>4, <1>5 DEF Statement

(* A row that stays keeps its owner. *)
OwnersKept == \A i \in usedIds : Live(i)' => links'[i].owner = links[i].owner

(* No statement changes the owner of a row.                                *)
LEMMA StatementKeepsOwners ==
  ASSUME TablesTypeOK, Statement
  PROVE  OwnersKept
<1>1. ASSUME NEW i \in LinkIds, NEW u \in Users, NEW s \in Slugs, InsertLink(i, u, s) PROVE OwnersKept
  BY <1>1 DEF InsertLink, OwnersKept, TablesTypeOK
<1>2. ASSUME NEW i \in LinkIds, NEW on \in BOOLEAN, SetActive(i, on) PROVE OwnersKept
  <2>1. links[i] \in Link
    BY <1>2 DEF SetActive, Live, TablesTypeOK
  <2>2. [links[i] EXCEPT !.active = on].owner = links[i].owner
    BY <2>1 DEF Link
  <2> QED BY <1>2, <2>2 DEF SetActive, OwnersKept, TablesTypeOK
<1>3. ASSUME NEW i \in LinkIds, DeleteLink(i) PROVE OwnersKept
  BY <1>3 DEF DeleteLink, OwnersKept, Live, TablesTypeOK
<1>4. CASE UNCHANGED links
  BY <1>4 DEF OwnersKept
<1> QED BY <1>1, <1>2, <1>3, <1>4 DEF Statement, UpsertOverride, DeleteOverride
=============================================================================
