------------------------------ MODULE LinkStore ------------------------------
(***************************************************************************)
(* The rows that LinksService, AdminService and RedirectService share: the *)
(* links table and the per-user overrides of the plan.  Every operator     *)
(* that changes a table is one SQL statement, atomic in PostgreSQL; what   *)
(* happens between two statements is up to the modules that extend this.   *)
(* isActive and disabledAt are always written together: they are one flag. *)
(***************************************************************************)
EXTENDS Integers, FiniteSets

CONSTANTS Users,     \* rows of users: no operation of the program deletes one
          Slugs,
          LinkIds,   \* row identifiers (UUIDs), enough of them for a run
          Fields,    \* the limits of a plan that a module reads
          Limits,    \* values an override can give to a limit
          Plan,      \* [Fields -> Nat], the plan every user is on
          Null

ASSUME PlanAssumption == /\ Limits \subseteq Nat
                         /\ Plan \in [Fields -> Nat]
ASSUME NullAssumption == /\ Null \notin Users \cup Slugs \cup LinkIds \cup Nat
                         /\ Null \notin [owner : Users, slug : Slugs, active : BOOLEAN]
                         /\ Null \notin [Fields -> Limits \cup {Null}]
ASSUME IdsAssumption  == IsFiniteSet(LinkIds)

VARIABLES links,     \* links[i]: the row, or Null
          usedIds,   \* identifiers handed out so far: a UUID is never reused
          overrides  \* overrides[u]: the row of user_overrides, or Null

tables == <<links, usedIds, overrides>>

Link     == [owner : Users, slug : Slugs, active : BOOLEAN]
Override == [Fields -> Limits \cup {Null}]

TablesTypeOK == /\ links \in [LinkIds -> Link \cup {Null}]
                /\ usedIds \subseteq LinkIds
                /\ \A i \in LinkIds : links[i] # Null => i \in usedIds
                /\ overrides \in [Users -> Override \cup {Null}]

TablesInit == /\ links = [i \in LinkIds |-> Null]
              /\ usedIds = {}
              /\ overrides = [u \in Users |-> Null]
-----------------------------------------------------------------------------
Live(i)      == links[i] # Null
OwnedBy(u)   == {i \in LinkIds : Live(i) /\ links[i].owner = u}

SlugTakenByActive(s) ==   \* mutant: uniqueness of the active links only
  \E i \in LinkIds : Live(i) /\ links[i].active /\ links[i].slug = s
SlugTaken(s) == \E i \in LinkIds : Live(i) /\ links[i].slug = s

EffectiveOfRow(u, f) == IF overrides[u] = Null THEN Plan[f] ELSE overrides[u][f]   \* mutant: no ?? per field

(* override ?? plan: a limit of 0 is a limit, an absent one is not. *)
Effective(u, f) == IF overrides[u] = Null \/ overrides[u][f] = Null
                   THEN Plan[f] ELSE overrides[u][f]

InsertAnyId(i, u, s) ==   \* mutant: identifiers of deleted rows are reused
  /\ ~Live(i) /\ ~SlugTaken(s)
  /\ links' = [links EXCEPT ![i] = [owner |-> u, slug |-> s, active |-> TRUE]]
  /\ usedIds' = usedIds \cup {i}
  /\ UNCHANGED overrides

(* INSERT: @unique on slug, and the identifier is new. *)
InsertLink(i, u, s) ==
  /\ i \notin usedIds /\ ~SlugTaken(s)
  /\ links' = [links EXCEPT ![i] = [owner |-> u, slug |-> s, active |-> TRUE]]
  /\ usedIds' = usedIds \cup {i}
  /\ UNCHANGED overrides

(* UPDATE by primary key of the flag: the row has to be there. *)
SetActive(i, on) == /\ Live(i)
                    /\ links' = [links EXCEPT ![i].active = on]
                    /\ UNCHANGED <<usedIds, overrides>>

(* DELETE by primary key: the row has to be there. *)
DeleteLink(i) == /\ Live(i)
                 /\ links' = [links EXCEPT ![i] = Null]
                 /\ UNCHANGED <<usedIds, overrides>>

(* UPSERT: the fields the request names are written, null clears one; the  *)
(* others keep their value, or are null in a new row.                      *)
UpsertOverride(u, dto) ==
  /\ overrides' = [overrides EXCEPT ![u] =
       [f \in Fields |-> IF f \in DOMAIN dto THEN dto[f]
                         ELSE IF overrides[u] = Null THEN Null ELSE overrides[u][f]]]
  /\ UNCHANGED <<links, usedIds>>

DeleteOverride(u) == /\ overrides[u] # Null
                     /\ overrides' = [overrides EXCEPT ![u] = Null]
                     /\ UNCHANGED <<links, usedIds>>

(* The bodies updateUserOverride accepts: any of the fields, null included. *)
OverrideDtos == UNION {[F -> Limits \cup {Null}] : F \in SUBSET Fields}
=============================================================================
