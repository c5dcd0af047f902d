------------------------ MODULE MCServiceDefinitions ------------------------
(* Two hosts that share a Service: only one of them describes it, and the   *)
(* other ignores the first one's second Service.                           *)
EXTENDS ServiceDefinitions

MCIgnored == [h \in Hosts |-> IF h = "h2" THEN {"ops"} ELSE {}]
MCDeclares == [h \in Hosts |-> IF h = "h2" THEN {"web"} ELSE Names]
MCTags == [h \in Hosts |-> [n \in Names |-> IF n = "web" THEN "tag" ELSE None]]
MCComments == [h \in Hosts |-> [n \in Names |-> IF h = "h1" /\ n = "web" THEN "about" ELSE None]]
=============================================================================
