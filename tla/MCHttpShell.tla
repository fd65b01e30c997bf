----------------------------- MODULE MCHttpShell -----------------------------
(* Instances of HttpShell for TLC. *)
EXTENDS HttpShell, TLC

CONSTANTS i1, i2, i3, i4, NaN

Symmetry == Permutations({i1, i2, i3, i4})

(* Segments: a few in two spellings, an identifier, and slugs. *)
LowerCase(s) == CASE s = "Health" -> "health" [] s = "Admin" -> "admin" [] OTHER -> s
IsId(s)      == s = "uuid"
SixLetters(s) == s \in {"health", "Health", "analytics", "my-slug", "uuid"}

Paths ==
  {<<s>> : s \in {"health", "Health", "links", "analytics", "admin", "my-slug"}}
  \cup {<<"auth", s>> : s \in {"register", "login", "refresh", "logout"}}
  \cup {<<"links", s>> : s \in {"uuid", "my-slug"}}
  \cup {<<"links", s, t>> : s \in {"uuid", "my-slug"}, t \in {"enable", "disable"}}
  \cup {<<"analytics", "links", s>> : s \in {"uuid", "my-slug"}}
  \cup {<<a, s>> : a \in {"admin", "Admin"}, s \in {"stats", "users"}}
  \cup {<<"admin", "users", s, "overrides">> : s \in {"uuid", "my-slug"}}
  \cup {<<a, "links", s, t>> : a \in {"admin", "Admin"}, s \in {"uuid"}, t \in {"enable", "disable"}}

Tokens == {"none", "expired", "USER", "ADMIN"}

(* Requests for a list take pages nobody gets: the others are the walk's.  *)
(* The last three begin past MaxInt, by one or more, or are longer.        *)
BadPages == {<<0, 1>>, <<-1, 2>>, <<NaN, 1>>, <<1, NaN>>, <<1, 101>>,
             <<MaxInt + 2, 1>>, <<MaxInt, 2>>, <<1, MaxInt + 1>>}
Request(m, p, t, b, q) == [method |-> m, path |-> p, token |-> t, body |-> b, page |-> q[1], limit |-> q[2]]

Others ==
  {Request(m, p, t, b, <<1, 1>>) : m \in {"POST", "PATCH", "DELETE"}, p \in Paths, t \in Tokens, b \in {"good", "bad"}}
  \cup {Request("GET", p, t, "good", <<1, 1>>) : p \in Paths \ {<<"links">>}, t \in Tokens}
  \cup {Request("GET", p, t, "good", q) : p \in {<<"links">>, <<"admin", "users">>}, t \in Tokens, q \in BadPages}
=============================================================================
