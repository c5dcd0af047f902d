------------------------------ MODULE MCFunnels ------------------------------
(* Instances of Funnels: "hook" and "page" are HTTPS endpoints, "db" is TCP. *)
EXTENDS Funnels

\* web and copy claim the same endpoint.
MCLabel ==
  [c \in Containers |-> CASE c = "web" -> "page" [] c = "copy" -> "page"
                          [] c = "api" -> "hook" [] c = "sql" -> "db"]
=============================================================================
