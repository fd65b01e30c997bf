------------------------------- MODULE Listing -------------------------------
(***************************************************************************)
(* A client reads its links page by page, the newest first, while other    *)
(* requests insert and delete links.  A page is two statements that        *)
(* LinksService.findAllByUser sends together and that the database answers *)
(* in either order, each from the rows of its own moment; the client asks  *)
(* for the next page as long as meta.totalPages says there is one.         *)
(* AdminService.listUsers is the same code over the users.                 *)
(***************************************************************************)
EXTENDS Integers, FiniteSets, SequencesExt

CONSTANTS Rows,    \* the links the user may ever have
          Times,   \* the values of createdAt
          Limits,  \* the page sizes a client may ask for
          None     \* no value

ASSUME ListingAssumption == /\ IsFiniteSet(Rows) /\ Times \subseteq Nat
                            /\ Limits \subseteq 1..100 /\ None \notin Nat
                            /\ \A s \in SUBSET Rows : s # None

VARIABLES
  born,    \* born[i]: createdAt of row i, None when it is not in the table
  gone,    \* the rows that were deleted
  limit,   \* the page size of this walk
  page,    \* the page the client asks for next, or waits for; 0 at the end
  asked,   \* whether it waits for it
  total,   \* the answer of count, None until there is one
  data,    \* the rows findMany answered with, None until it has
  seen,    \* seen[i]: the number of pages that showed row i
  stayed,  \* the rows that have been there since the walk began
  noise    \* what has disturbed the walk

table   == <<born, gone>>
walk    == <<limit, page, asked, seen>>
answers == <<total, data>>

There == {i \in Rows : born[i] # None}

ListingInit ==
  /\ born \in [Rows -> Times \cup {None}] /\ gone = {}
  /\ limit \in Limits /\ page = 1 /\ asked = FALSE
  /\ total = None /\ data = None
  /\ seen = [i \in Rows |-> 0]
  /\ stayed = There /\ noise = {}

(* orderBy createdAt desc leaves rows of one instant in any order. *)
AnyOrder == SetToSeqs(There)   \* mutant: no orderBy
NewestFirst == {s \in SetToSeqs(There) :
                  \A j, k \in DOMAIN s : j < k => born[s[j]] >= born[s[k]]}
Ties == \E i, j \in There : i # j /\ born[i] = born[j]

SkipPages(p, n) == p * n       \* mutant: pages counted from zero
Skip(p, n) == (p - 1) * n

FindMany ==
  /\ asked /\ data = None
  /\ \E s \in NewestFirst :
       data' = {s[j] : j \in (Skip(page, limit) + 1 .. Skip(page, limit) + limit) \cap DOMAIN s}
  /\ noise' = IF Ties THEN noise \cup {"tie"} ELSE noise
  /\ UNCHANGED <<table, walk, total, stayed>>

Count ==
  /\ asked /\ total = None
  /\ total' = Cardinality(There)
  /\ UNCHANGED <<table, walk, data, stayed, noise>>

TotalPages == (total + limit - 1) \div limit

(* The client sends the request for its page: what was counted too early   *)
(* for an earlier page does not matter any more.                           *)
Ask == /\ page > 0 /\ ~asked
       /\ asked' = TRUE /\ noise' = noise \ {"late"}
       /\ UNCHANGED <<table, limit, page, seen, answers, stayed>>

Reply == /\ total # None /\ data # None
         /\ seen' = [i \in Rows |-> seen[i] + (IF i \in data THEN 1 ELSE 0)]
         /\ page' = IF page < TotalPages THEN page + 1 ELSE 0
         /\ asked' = FALSE /\ total' = None /\ data' = None
         /\ UNCHANGED <<table, limit, stayed, noise>>

(* Other requests of the user, while the walk goes on.  createdAt is set   *)
(* by the statement, so a row need not be the newest when it appears.      *)
CreateRow(i) ==
  /\ page > 0 /\ i \notin There \cup gone
  /\ \E t \in Times : born' = [born EXCEPT ![i] = t]
  /\ noise' = noise \cup {"insert"}
                    \cup (IF asked /\ total # None /\ data = None THEN {"late"} ELSE {})
  /\ UNCHANGED <<gone, walk, answers, stayed>>

DeleteRow(i) ==
  /\ page > 0 /\ i \in There
  /\ born' = [born EXCEPT ![i] = None] /\ gone' = gone \cup {i}
  /\ stayed' = stayed \ {i} /\ noise' = noise \cup {"delete"}
  /\ UNCHANGED <<walk, answers>>

(* A client that has walked to the last page has seen every link that was  *)
(* there all along, unless a link was deleted (the rest moves up a page),  *)
(* two links share an instant, or one was created between the count and    *)
(* the page of the last answer: insertions alone only push rows to later   *)
(* pages, which the next count announces.                                  *)
NothingMissed == (page = 0 /\ noise \cap {"delete", "tie", "late"} = {})
                   => \A i \in stayed : seen[i] > 0

(* No link is shown twice unless one was created during the walk or two    *)
(* share an instant: deletions alone never bring a row back.               *)
ShownOnce == noise \cap {"insert", "tie"} = {} => \A i \in Rows : seen[i] <= 1
=============================================================================
