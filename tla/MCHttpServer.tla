---------------------------- MODULE MCHttpServer ----------------------------
(***************************************************************************)
(* A text file, one with a NUL byte, one larger than the response buffer   *)
(* and one that is missing, asked for with every kind of range by one      *)
(* client; another one comes between.  The first name is the beginning of  *)
(* the second.                                                             *)
(***************************************************************************)
EXTENDS HttpServer, TLC

CONSTANTS B1, B2, B3, c1, c2

MCByte == {B1, B2, B3, Nul}

MCContent == [page |-> <<B1, B2, B3>>, page2 |-> <<B1, Nul, B3>>,
              large |-> <<B1, B2, B3, B1, B2, B3>>]

MCUri == DOMAIN MCContent \cup {"missing"}

MCCut == [u \in MCUri |-> IF u = "page2" THEN {"missing", "page"} ELSE {"missing"}]

\* The head of a 206 is the longer one.
MCRoom == [s \in {200, 206} |-> IF s = 200 THEN 4 ELSE 3]

Get(uri, range) == [method |-> "GET", uri |-> uri, range |-> range]

From(s, e) == [start |-> s, end |-> e]

Requests ==
  {[method |-> "other", uri |-> "page", range |-> NoRange]}
    \cup {Get(u, NoRange) : u \in MCUri}
    \cup {Get("page", r) : r \in {OtherUnit, From(Empty, 2), From(1, Empty),
                                   From(1, 3), From(3, Empty)}}
    \cup {Get("page2", From(0, 0)), Get("large", From(1, Empty))}

MCRequest == (c1 :> Requests) @@ (c2 :> {Get("missing", NoRange)})

=============================================================================
