-------------------------- MODULE MCServeReconcile --------------------------
(***************************************************************************)
(* Instances of ServeReconcile.  "web" is an ordinary name with up to two  *)
(* ports; "ops" is on IGNORE_SERVICE_NAMES and served before DockTail      *)
(* starts.                                                                 *)
(***************************************************************************)
EXTENDS ServeReconcile

L(idx, name, port, proto, path) ==
  [idx |-> idx, name |-> name, port |-> port, proto |-> proto, path |-> path]

\* app: web:80 over http; api: the same endpoint on another path; raw: the same
\* endpoint over tcp; two: another port of the name; alt: two ports, 80 and 8080;
\* dup: app's endpoint and another port over tcp; ctl: a port of the ignored name.
MCLabels ==
  [c \in Containers |->
     CASE c = "app" -> {L(0, "web", "80", "http", "/")}
       [] c = "api" -> {L(0, "web", "80", "http", "/api")}
       [] c = "raw" -> {L(0, "web", "80", "tcp", "/")}
       [] c = "two" -> {L(0, "web", "443", "http", "/")}
       [] c = "alt" -> {L(0, "web", "80", "http", "/"), L(1, "web", "8080", "http", "/")}
       [] c = "ctl" -> {L(0, "ops", "80", "tcp", "/")}
       [] c = "dup" -> {L(0, "web", "80", "http", "/"), L(1, "web", "443", "tcp", "/")}]

OpsServed ==
  [k \in Keys |-> IF k = <<"ops", "80">>
                  THEN [proto |-> "http", handlers |-> {<<"/", "a1">>}]
                  ELSE NoEndpoint]
\* Of the ports used here only 8080 starts with the digits of another one.
MCLooksLike == [p \in Ports |-> IF p = "80" THEN Ports \cap {"80", "8080"} ELSE {p}]

NothingServed == [k \in Keys |-> NoEndpoint]
=============================================================================
