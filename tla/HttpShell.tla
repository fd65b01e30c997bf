------------------------------ MODULE HttpShell ------------------------------
(***************************************************************************)
(* What a request passes before a service is called: the route that Nest   *)
(* registered first among those that match, the guards of the controller   *)
(* and of the handler, the pipes of the arguments, the handler, and the    *)
(* exception filter for whatever one of them throws.  A client walks the   *)
(* pages of its links (Listing) through this shell; another behaviour is   *)
(* any other request.                                                      *)
(***************************************************************************)
EXTENDS Listing

CONSTANTS Arrivals,     \* the other requests, records like WalkRequest
          Fold(_),      \* Fold(s): segment s in lower case, as Express compares it
          IsUUID(_),    \* IsUUID(s): ParseUUIDPipe accepts segment s
          SlugAllowed(_),  \* SlugAllowed(s): CreateLinkDto accepts s as a slug
          MaxInt           \* the largest integer Prisma takes, 2^63 - 1

VARIABLES req,      \* the request being served, or served last
          route,    \* the route it matched, None without one
          todo,     \* what it still has to pass, in order
          user,     \* what the JWT strategy found out: a role, or None
          answer    \* what it was answered with, None before

shell == <<req, route, todo, user, answer>>
listing == <<table, walk, answers, stayed, noise>>

----------------------------------------------------------------------------
(* The routes, in the order app.module.ts imports their modules and each   *)
(* controller declares them.  "*" is a parameter of the path.              *)

At(m, p, g, h) == [method |-> m, path |-> p, guards |-> g, handler |-> h,
                   class |-> IF p # <<>> /\ Head(p) = "admin" THEN {"ADMIN"} ELSE None,
                   own |-> None]   \* the roles @Roles names: of the class, of the handler

HealthRoutes == << At("GET", <<"health">>, <<>>, "check") >>
AuthRoutes ==
  << At("POST", <<"auth", "register">>, <<>>, "register"),
     At("POST", <<"auth", "login">>, <<>>, "login"),
     At("POST", <<"auth", "refresh">>, <<>>, "refresh"),
     At("POST", <<"auth", "logout">>, <<"jwt">>, "logout") >>
LinksRoutes ==
  << At("POST", <<"links">>, <<"jwt">>, "create"),
     At("GET", <<"links">>, <<"jwt">>, "findAll"),
     At("GET", <<"links", "*">>, <<"jwt">>, "findOne"),
     At("PATCH", <<"links", "*", "disable">>, <<"jwt">>, "disable"),
     At("PATCH", <<"links", "*", "enable">>, <<"jwt">>, "enable"),
     At("DELETE", <<"links", "*">>, <<"jwt">>, "delete") >>
AnalyticsRoutes == << At("GET", <<"analytics", "links", "*">>, <<"jwt">>, "getStats") >>
RedirectRoutes == << At("GET", <<"*">>, <<>>, "redirect") >>
AdminRoutes ==
  LET admin(m, p, h) == At(m, p, <<"jwt", "roles">>, h)
  IN << admin("GET", <<"admin", "stats">>, "getSystemStats"),
        admin("GET", <<"admin", "users">>, "listUsers"),
        admin("PATCH", <<"admin", "users", "*", "overrides">>, "updateOverride"),
        admin("DELETE", <<"admin", "users", "*", "overrides">>, "removeOverride"),
        admin("PATCH", <<"admin", "links", "*", "disable">>, "disableLink"),
        admin("PATCH", <<"admin", "links", "*", "enable">>, "enableLink") >>

RedirectFirst == RedirectRoutes \o HealthRoutes \o AuthRoutes \o LinksRoutes
                   \o AnalyticsRoutes \o AdminRoutes   \* mutant: another order
Routes == HealthRoutes \o AuthRoutes \o LinksRoutes \o AnalyticsRoutes
            \o RedirectRoutes \o AdminRoutes

Fits(r, at) == /\ r.method = at.method /\ Len(r.path) = Len(at.path)
               /\ \A k \in DOMAIN r.path : at.path[k] \in {"*", Fold(r.path[k])}
FirstFit(r) == SelectInSeq(Routes, LAMBDA at : Fits(r, at))   \* 0 when none does

(* No value of the program is None, and no slug CreateLinkDto accepts,     *)
(* six characters at least, reads links in lower case.                     *)
Segments == {"links"} \cup UNION {Range(r.path) : r \in Arrivals}
ASSUME ShellAssumption ==
  /\ \A r \in Arrivals : r.path \in Seq(STRING)
  /\ None \notin {"USER", "ADMIN", "done", "BadRequest", "InternalServerError"}
  /\ MaxInt \in Nat /\ MaxInt >= 100   \* any page size of the DTO fits
  /\ None # {"ADMIN"} /\ \A k \in DOMAIN Routes : Routes[k] # None
  /\ \A s \in Segments : SlugAllowed(s) => Fold(s) # "links"

----------------------------------------------------------------------------
(* GlobalExceptionFilter: an HttpException answers with its own status,    *)
(* anything else that is thrown with 500.                                  *)
HttpErrors == {"BadRequest", "Unauthorized", "Forbidden", "NotFound"}
StatusOf(e) == e   \* mutant: instanceof HttpException dropped
Status(e) == IF e \in HttpErrors THEN e ELSE "InternalServerError"
Throw(e)  == todo' = <<>> /\ answer' = Status(e)
Pass      == todo' = Tail(todo) /\ answer' = None
NextIs(s) == todo # <<>> /\ Head(todo) = s

Receive(r) ==
  /\ todo = <<>> /\ ~asked
  /\ req' = r /\ user' = None
  /\ \/ FirstFit(r) = 0 /\ route' = None /\ Throw("NotFound")
     \/ /\ FirstFit(r) # 0 /\ route' = Routes[FirstFit(r)]
        /\ todo' = route'.guards \o <<"pipes", "handler">> /\ answer' = None

WalkRequest == [method |-> "GET", path |-> <<"links">>, token |-> "USER",
                body |-> "good", page |-> page, limit |-> limit]

(* A valid token carries the role it was signed with. *)
JwtAuthGuard ==
  /\ NextIs("jwt")
  /\ \/ req.token \in {"USER", "ADMIN"} /\ user' = req.token /\ Pass
     \/ req.token \notin {"USER", "ADMIN"} /\ Throw("Unauthorized") /\ UNCHANGED user
  /\ UNCHANGED <<req, route>>

OwnRoles(at) == at.own   \* mutant: the metadata of the handler only
RequiredRoles(at) == IF at.own # None THEN at.own ELSE at.class

RolesGuard ==
  /\ NextIs("roles")
  /\ LET required == RequiredRoles(route)
     IN \/ (required # None => user \in required) /\ Pass
        \/ required # None /\ user \notin required /\ Throw("Forbidden")
  /\ UNCHANGED <<req, route, user>>

(* The arguments of each handler: identifiers through ParseUUIDPipe, a     *)
(* body or a query through the ValidationPipe of main.ts and its DTO.      *)
AnyPage(p, n) == n \in 1..100   \* mutant: page is not checked
ValidPage(p, n) == p \in Nat /\ p >= 1 /\ n \in 1..100
ValidArguments ==
  CASE route.handler \in {"register", "login", "refresh", "logout", "create"} -> req.body = "good"
    [] route.handler \in {"findOne", "delete", "disable", "enable"} -> IsUUID(req.path[2])
    [] route.handler \in {"removeOverride", "disableLink", "enableLink", "getStats"} -> IsUUID(req.path[3])
    [] route.handler = "updateOverride" -> IsUUID(req.path[3]) /\ req.body = "good"
    [] route.handler = "findAll" -> ValidPage(req.page, req.limit)
    [] OTHER -> TRUE

Pipes == /\ NextIs("pipes")
         /\ \/ ValidArguments /\ Pass
            \/ ~ValidArguments /\ Throw("BadRequest")
         /\ UNCHANGED <<req, route, user>>

(* Prisma takes an integer of 64 bits for skip, never below 0, and for     *)
(* take.  The DTO asks for no more than a positive integer as a page.      *)
QueryAccepted(p, n) ==
  p \in Int /\ n \in Int /\ Skip(p, n) \in 0..MaxInt /\ n \in -MaxInt..MaxInt

Handle ==
  /\ NextIs("handler")
  /\ \/ /\ route.handler \in {"findAll", "listUsers"} /\ ~QueryAccepted(req.page, req.limit)
        /\ Throw("PrismaClientValidationError") /\ UNCHANGED listing
     \/ /\ route.handler = "findAll" /\ QueryAccepted(req.page, req.limit)
        /\ Ask /\ todo' = <<"rows">> /\ UNCHANGED answer
     \/ /\ route.handler # "findAll"
        /\ route.handler = "listUsers" => QueryAccepted(req.page, req.limit)
        /\ todo' = <<>> /\ answer' = "done" /\ UNCHANGED listing
  /\ UNCHANGED <<req, route, user>>

Rendered == /\ Reply /\ todo' = <<>> /\ answer' = "done" /\ UNCHANGED <<req, route, user>>

----------------------------------------------------------------------------
ShellInit == /\ ListingInit
             /\ req = None /\ route = None /\ todo = <<>> /\ user = None /\ answer = None

(* Bound: one other request at most, to a user without links, and no walk  *)
(* after it.                                                               *)
Walking == req = None \/ (route # None /\ route.handler = "findAll")

ShellNext ==
  \/ req = None /\ There \cup gone = {} /\ (\E r \in Arrivals : Receive(r)) /\ UNCHANGED listing
  \/ page > 0 /\ (page = 1 <=> req = None) /\ Receive(WalkRequest) /\ UNCHANGED listing
  \/ (JwtAuthGuard \/ RolesGuard \/ Pipes) /\ UNCHANGED listing
  \/ Handle \/ Rendered
  \/ (FindMany \/ Count) /\ UNCHANGED shell
  \/ (\E i \in Rows : CreateRow(i) \/ DeleteRow(i)) /\ Walking /\ UNCHANGED shell

ShellSpec == ShellInit /\ [][ShellNext]_<<listing, shell>>

----------------------------------------------------------------------------
(* Every variable stays within its type. *)
ShellTypeOK ==
  /\ born \in [Rows -> Times \cup {None}] /\ gone \subseteq Rows /\ stayed \subseteq There
  /\ limit \in Limits /\ page \in Nat /\ asked = (todo = <<"rows">>)
  /\ total \in Nat \cup {None} /\ (data = None \/ data \subseteq Rows)
  /\ seen \in [Rows -> Nat] /\ noise \subseteq {"insert", "delete", "tie", "late"}
  /\ user \in {None, "USER", "ADMIN"} /\ answer \in HttpErrors \cup {None, "done", "InternalServerError"}

(* Of the routes a request fits, it gets the one with the fewest           *)
(* parameters, although Nest takes the first: every slug CreateLinkDto     *)
(* accepts is served by the redirect, except the one that reads health.    *)
Parameters(at) == Cardinality({k \in DOMAIN at.path : at.path[k] = "*"})
RightHandler ==
  route # None =>
    /\ \A k \in DOMAIN Routes : Fits(req, Routes[k]) => Parameters(route) <= Parameters(Routes[k])
    /\ (/\ req.method = "GET" /\ Len(req.path) = 1
        /\ SlugAllowed(req.path[1]) /\ Fold(req.path[1]) # "health") => route.handler = "redirect"

(* Nothing under /admin is handled for anyone but an administrator, and    *)
(* nothing that acts for a user without a valid token, however the path is *)
(* spelled and whatever else is wrong with the request.                    *)
AdmittedOnly ==
  (NextIs("handler") \/ asked \/ answer \in {"done", "BadRequest", "InternalServerError"}) =>
    /\ (Len(req.path) > 1 /\ Fold(req.path[1]) = "admin") => req.token = "ADMIN"
    /\ route.handler \notin {"check", "register", "login", "refresh", "redirect"}
         => req.token \in {"USER", "ADMIN"}

(* A page of links ends in a 500 only when it begins past the integers     *)
(* Prisma takes: the DTO, which has no upper bound for a page, lets        *)
(* nothing else through that Prisma refuses.  The administrator's list has *)
(* no DTO and fails for any bad page.                                      *)
PagesFailOnlyBeyondInt ==
  answer = "InternalServerError" =>
    \/ route.handler = "listUsers"
    \/ route.handler = "findAll" /\ req.page \in Int /\ Skip(req.page, req.limit) > MaxInt
=============================================================================
