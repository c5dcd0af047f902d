---------------------------- MODULE MCDiscovery ----------------------------
(***************************************************************************)
(* Instances of Discovery: containers with every combination of labels on  *)
(* a simple network, which it may leave, and a few on several networks,    *)
(* which the changes turn into other sets. Network 1 and 3 are named       *)
(* x_back and z_back, 2 bridge.                                            *)
(***************************************************************************)
EXTENDS Discovery, TLC

E(name, target, port, sproto, proto, path, proxy) ==
  [name |-> name, target |-> target, port |-> port, sproto |-> sproto, proto |-> proto,
   path |-> path, proxy |-> proxy]

Plain(name, target) == E(name, target, "", "", "", Undeclared, "")

F(target, public, proto, path) ==
  [on |-> TRUE, target |-> target, public |-> public, proto |-> proto, path |-> path]

NoFunnel == [on |-> FALSE, target |-> "", public |-> "", proto |-> "", path |-> Undeclared]

Funnels == {NoFunnel, F("80", "", "", Undeclared), F("80", "8443", "https", "/api"),
            F("80", "22", "tcp", Undeclared), F("80", "22", "", Undeclared),
            F("80", "", "tcp", "/api"), F("", "", "", Undeclared)}

Ports == {"80", "443", "81", ""}

C(service, funnel, entries, direct, network, mode, published, ignore) ==
  [service |-> service, funnel |-> funnel, entries |-> entries, direct |-> direct,
   network |-> network, mode |-> mode, ignore |-> ignore, nets |-> Networks,
   published |-> [p \in Ports |-> IF p \in DOMAIN published THEN published[p] ELSE "no"]]

\* Every reading of the labels of one service, with at most one bad protocol.
Protocols == ({"", "https", "tcp"} \X {"", "tcp"}) \cup {<<"bad", "">>, <<"", "bad">>}

Labels ==
  {Plain("web", "")} \cup
  {E("web", t, p, q[1], q[2], w[1], w[2]) : t \in {"443", "80"}, p \in {"", "443"}, q \in Protocols,
     w \in {<<Undeclared, "">>, <<"api", "">>, <<Undeclared, "2">>}}

Unpublished == [p \in {} |-> "no"]

Labelled ==
  {C(TRUE, NoFunnel, <<e>>, TRUE, NoLabel, "bridge", Unpublished, FALSE) : e \in Labels}
  \cup {C(TRUE, NoFunnel, <<Plain("web", "80"), e>>, TRUE, NoLabel, "bridge", Unpublished,
          FALSE) : e \in {l \in Labels : l.target # "443" /\ l.proto # "tcp"}}
  \cup {C(s, f, <<e, Plain("web", "81")>>, TRUE, NoLabel, "bridge", Unpublished, FALSE) :
          s \in BOOLEAN, f \in Funnels, e \in {Plain("web", "80"), Plain("", "80")}}
  \cup {C(s, F("80", "", "", Undeclared), <<Plain("web", "80")>>, TRUE, NoLabel, "bridge",
          Unpublished, TRUE) : s \in BOOLEAN}

Mixed == ("80" :> "fixed") @@ ("81" :> "dynamic")

\* A container with two services, direct or not, on a network it names or not.
N(direct, network) ==
  C(TRUE, NoFunnel, <<Plain("web", "80"), Plain("ops", "81")>>, direct, network, "bridge", Mixed,
    FALSE)

Networked ==
  {N(TRUE, NoLabel), N(FALSE, NoLabel),
   C(FALSE, F("80", "", "", Undeclared), <<Plain("", "")>>, TRUE, NoLabel, "bridge", Unpublished,
     FALSE)}

Bare == [kind |-> "bare", nets |-> {}, id |-> FALSE, routed |-> TRUE]

Bridged(nets, id, routed) == [kind |-> "bridged", nets |-> nets, id |-> id, routed |-> routed]

MCSituations ==
  ({[c EXCEPT !.nets = {Bridge}] : c \in Labelled} \X {{Bridge}} \X {Bare})
  \cup (Networked \X {{2}, {1, 3}}
        \X {Bare, Bridged({2}, FALSE, TRUE), Bridged({1, 3}, TRUE, TRUE)})
  \cup ({N(TRUE, 1), N(FALSE, 1), N(TRUE, SuffixLabel)}
        \X {{1, 3}} \X {Bridged({1, 3}, TRUE, TRUE)})
  \cup ({N(d, NoLabel) : d \in BOOLEAN} \X {{2}} \X {Bridged({1}, FALSE, FALSE)})
  \cup ({C(TRUE, NoFunnel, <<Plain("web", "80")>>, d, NoLabel, m, Mixed, FALSE) :
           d \in BOOLEAN, m \in {"host", "none"}}
        \X {{}} \X [kind : {"hostnet", "bridged"}, nets : {{2}}, id : BOOLEAN,
            routed : BOOLEAN])
============================================================================
