----------------------------- MODULE Discovery -----------------------------
(***************************************************************************)
(* What DockTail makes of one container: its labels are parsed into        *)
(* services (docker.Client.parseContainer), each with an address for       *)
(* tailscaled and one for the local check, and the services are reported   *)
(* by the reconciler (running containers) and by the discovery loop of the *)
(* cloud collector (stopped ones too). Both first list the containers and  *)
(* then inspect them, and they share c.latest and the two addresses of the *)
(* agent itself, which are looked up once.                                 *)
(***************************************************************************)
EXTENDS Naturals, FiniteSets, FiniteSetsExt

CONSTANTS
  Networks,    \* Docker networks, numbered in the order of their names
  Bridge,      \* the one named "bridge"
  SuffixLabel, \* what docktail.service.network says when it names them by a suffix
  Suffixed,    \* those named "..._<the label's value>"
  Situations,  \* triples of a container (its labels and configuration; its entries are
               \* the primary service and the indexed ones in order; its nets bound the
               \* networks it is put on), of the networks it
               \* is on at first, and of the agent [kind, nets, id, routed]: where DockTail
               \* runs, its networks, whether it finds its own id under /proc and whether
               \* one of its networks has a gateway
  MaxChanges   \* bound on what happens to the container and to DockTail

NoLabel == 0        \* docktail.service.network is not set
Undeclared == "undeclared"  \* there is no path label

Forwarding == {"tcp", "tls-terminated-tcp"}
Frontends  == {"http", "https"} \cup Forwarding
Backends   == Frontends \cup {"https+insecure"}
FunnelPorts == {"443", "8443", "10000"}

ASSUME ConstantAssumption ==
  /\ Networks \subseteq Nat \ {0} /\ IsFiniteSet(Networks)
  /\ Bridge \in Networks /\ Suffixed \subseteq Networks
  /\ SuffixLabel \notin Networks \cup {NoLabel}
  /\ \A s \in Situations :
       /\ s[1].network \in Networks \cup {NoLabel, SuffixLabel}
       /\ s[1].mode \in {"bridge", "host", "none"} /\ 1 \in DOMAIN s[1].entries
       /\ \A flag \in {s[1].service, s[1].direct, s[1].ignore, s[1].funnel.on, s[3].id,
                        s[3].routed} :
            flag \in BOOLEAN
       /\ s[2] \subseteq Networks
       /\ s[3].kind \in {"bare", "hostnet", "bridged"} /\ s[3].nets \subseteq Networks
       /\ s[3].kind = "bare" => ~s[3].id
  /\ MaxChanges \in Nat

VARIABLES
  cont, agent,           \* the container and the agent, fixed
  up, attached,          \* the container runs; [Networks -> {"no", "noip", "ip"}]
  changes,
  selfNetOnce, selfNets, \* c.selfNetOnce is done, c.selfNetIDs
  gatewayOnce, gateway,  \* c.gatewayOnce is done, c.gatewayIP
  pc, saw,               \* of the two scans: "idle" or "listed", and the listed state
  latest,                \* the container's services in c.latest
  snapshot,              \* the last full snapshot: [services, skipped, inspected, saw,
                         \* inventory]
  seen,                  \* observer: the keys reported while the container ran
  quiet                  \* observer: nothing changed since the last full snapshot

envVars   == <<cont, agent, up, attached, changes>>
cacheVars == <<selfNetOnce, selfNets, gatewayOnce, gateway>>
vars == <<cont, agent, up, attached, changes, selfNetOnce, selfNets, gatewayOnce, gateway,
          pc, saw, latest, snapshot, seen, quiet>>

Scans == {"reconcile", "cloud"}
Entries == DOMAIN cont.entries

----------------------------------------------------------------------------
\* Labels of one service.

Protocol(e) ==
  IF e.proto # "" THEN e.proto ELSE IF e.target = "443" THEN "https" ELSE "http"

ServicePort(e) ==
  IF e.port # "" THEN e.port ELSE IF e.sproto = "https" THEN "443" ELSE "80"

ServiceProtocol(e) ==
  CASE e.sproto # ""               -> e.sproto
    [] e.sproto = "" /\ Protocol(e) \in Forwarding -> Protocol(e)
    [] OTHER                       -> IF e.port = "443" THEN "https" ELSE "http"

ProtocolsValid(e) == Protocol(e) \in Backends /\ ServiceProtocol(e) \in Frontends

ProxyProtocolValid(e) ==
  e.proxy # "" => ServiceProtocol(e) \in Forwarding /\ e.proxy \in {"1", "2"}

\* "api" stands for a path that does not start with a slash.
PathValid(e) ==
  IF ServiceProtocol(e) \in Forwarding THEN e.path = Undeclared ELSE e.path # "api"

\* A funnel's target port, public port, protocol and path.
FunnelProtocol(f) == IF f.proto = "" THEN "https" ELSE f.proto
FunnelPublic(f)   == IF f.public = "" THEN "443" ELSE f.public

FunnelValid(f) ==
  /\ f.target # ""
  /\ FunnelProtocol(f) \in {"http", "https"} => FunnelPublic(f) \in FunnelPorts
  /\ FunnelProtocol(f) \in Frontends
  /\ FunnelProtocol(f) \in Forwarding => f.path = Undeclared
  /\ f.path # "api"

----------------------------------------------------------------------------
\* Addresses. The networks an inspect shows: a stopped container has no addresses.

Shown(n) == IF attached[n] = "ip" /\ ~up THEN "noip" ELSE attached[n]
Attached == {n \in Networks : Shown(n) # "no"}
WithIP   == {n \in Networks : Shown(n) = "ip"}

\* Where Docker publishes a container port on the host. A port without a fixed host
\* port gets one when the container starts.
Published(port) ==
  \/ cont.published[port] = "fixed"
  \/ cont.published[port] = "dynamic" /\ up

Nowhere == [via |-> "nowhere", net |-> 0, port |-> "", published |-> FALSE]
Via(v, port, published) == [via |-> v, net |-> 0, port |-> port, published |-> published]
On(n, port) ==
  IF n = 0 THEN Nowhere ELSE [via |-> "ip", net |-> n, port |-> port, published |-> FALSE]

\* The network whose address is taken, 0 if there is none. sn are the agent's networks
\* as looked up, p the network that the random order of the map brings up first.
getContainerIP(sn, p) ==
  CASE cont.network \in Attached -> IF cont.network \in WithIP THEN cont.network ELSE 0
    [] cont.network = SuffixLabel /\ Suffixed \cap Attached # {} ->
         IF p \in WithIP THEN p ELSE 0
    [] cont.network = NoLabel /\ WithIP # {} ->
         IF WithIP \cap sn # {} THEN Min(WithIP \cap sn)
         ELSE IF Bridge \in WithIP THEN Bridge ELSE Min(WithIP)
    [] OTHER -> 0

\* The destination tailscaled proxies to.
resolveDestPort(port, sn, p) ==
  CASE cont.mode = "host" -> Via("loopback", port, FALSE)
    [] cont.mode # "host" /\ cont.direct ->
         IF cont.mode = "none" THEN Nowhere ELSE On(getContainerIP(sn, p), port)
    [] OTHER -> IF Published(port) THEN Via("loopback", port, TRUE) ELSE Nowhere

sharesNetworkWith(sn) == sn \cap Attached # {}

\* Mutant: a direct container is probed where it is served, whatever its network mode.
monitorTargetDirectFirst(port, sn, gw, p) ==
  CASE cont.mode = "none" \/ cont.direct -> Nowhere
    [] cont.mode = "host" /\ ~cont.direct -> IF gw = "" THEN Nowhere ELSE Via(gw, port, FALSE)
    [] OTHER -> On(getContainerIP(sn, p), port)

\* Mutant: a published container is probed on the published port of the loopback.
monitorTargetPublished(port, sn, gw, p) ==
  IF cont.mode = "bridge" /\ ~cont.direct THEN Via("loopback", port, TRUE) ELSE Nowhere

\* The address for the local check, or Nowhere for the destination above.
monitorTarget(port, sn, gw, p) ==
  CASE cont.mode = "none" -> Nowhere
    [] cont.mode = "host" -> IF gw = "" THEN Nowhere ELSE Via(gw, port, FALSE)
    [] OTHER ->
         IF ~sharesNetworkWith(sn) /\ gw # "" /\ Published(port) THEN Via(gw, port, TRUE)
         ELSE IF cont.direct THEN Nowhere ELSE On(getContainerIP(sn, p), port)

----------------------------------------------------------------------------
\* The agent looks at itself; the inspect may fail, and on bare metal it does.

SelfLookups == IF agent.kind = "bare" THEN {FALSE} ELSE BOOLEAN

selfNetIDs(ok) == IF ok /\ agent.kind = "bridged" THEN agent.nets ELSE {}

resolveHostGateway(ok) ==
  CASE ~ok /\ agent.id            -> "alias"
    [] ok /\ agent.kind = "bridged" -> IF agent.routed THEN "gateway" ELSE "alias"
    [] OTHER                      -> ""

----------------------------------------------------------------------------
\* The container's services. picks[k] is the network brought up first when the address
\* of entry k is looked for, picks[0] that of the funnel.

PrimaryTried ==
  LET e == cont.entries[1]
  IN cont.service /\ e.name # "" /\ e.target # "" /\ ProtocolsValid(e)

Dest(k, sn, picks) == resolveDestPort(cont.entries[k].target, sn, picks[k])

PrimaryParses(sn, picks) ==
  /\ PrimaryTried /\ Dest(1, sn, picks) # Nowhere
  /\ ProxyProtocolValid(cont.entries[1]) /\ PathValid(cont.entries[1])

\* An indexed service with bad labels is left out.
IndexValid(k) ==
  LET e == cont.entries[k]
  IN e.name # "" /\ e.target # "" /\ ProtocolsValid(e) /\ ProxyProtocolValid(e) /\ PathValid(e)

Endpoint(k) == <<cont.entries[k].name, ServicePort(cont.entries[k])>>

\* The first to claim an endpoint keeps it, even if it has no destination.
Claimed(k) == \E j \in 1..(k - 1) : (j = 1 \/ IndexValid(j)) /\ Endpoint(j) = Endpoint(k)

parseIndexedPorts(sn, picks) ==
  {k \in Entries \ {1} : IndexValid(k) /\ ~Claimed(k) /\ Dest(k, sn, picks) # Nowhere}

FunnelDest(sn, picks) == resolveDestPort(cont.funnel.target, sn, picks[0])

\* A bad primary service or funnel fails the whole container.
Parses(sn, picks) ==
  /\ cont.service => PrimaryParses(sn, picks)
  /\ cont.funnel.on => FunnelValid(cont.funnel) /\ FunnelDest(sn, picks) # Nowhere

FunnelOnly(dest) ==
  [entry |-> 0, name |-> "", port |-> "", dest |-> dest, monitor |-> Nowhere,
   funnel |-> FunnelPublic(cont.funnel)]

\* All indexed services are reached at the address found for the primary one.
ParsedService(k, sn, gw, picks) ==
  LET e == cont.entries[k]
      d == Dest(k, sn, picks)
  IN [entry   |-> k, name |-> e.name, port |-> ServicePort(e),
      dest    |-> IF cont.direct /\ d.via = "ip" THEN [d EXCEPT !.net = Dest(1, sn, picks).net]
                  ELSE d,
      monitor |-> monitorTarget(e.target, sn, gw, picks[k]),
      funnel  |-> IF k = 1 /\ cont.funnel.on THEN FunnelPublic(cont.funnel) ELSE ""]

parseContainer(sn, gw, picks) ==
  IF cont.service
  THEN {ParsedService(k, sn, gw, picks) : k \in {1} \cup parseIndexedPorts(sn, picks)}
  ELSE {FunnelOnly(FunnelDest(sn, picks))}

\* Mutant: a stopped service is keyed by the port the container listens on.
LabelPortTarget(e) == e.target

\* What a stopped container that cannot be parsed is reported as.
LabelPort(e) ==
  CASE e.target = ""                        -> ""
    [] e.target # "" /\ ProtocolsValid(e)   -> ServicePort(e)
    [] OTHER -> IF e.port # "" THEN e.port ELSE e.target

Named == {k \in Entries : cont.service /\ cont.entries[k].name # ""}
FunnelNamed == cont.funnel.on /\ cont.funnel.target # ""

cloudServiceFromLabels(k) ==
  [entry |-> k, name |-> cont.entries[k].name, port |-> LabelPort(cont.entries[k]),
   dest |-> Nowhere, monitor |-> Nowhere,
   funnel |-> IF FunnelNamed /\ k = Min(Named) THEN FunnelPublic(cont.funnel) ELSE ""]

stoppedCloudServices ==
  IF Named = {} /\ FunnelNamed THEN {FunnelOnly(Nowhere)}
  ELSE {cloudServiceFromLabels(k) : k \in Named}

\* The names under which the cloud knows a service, and under which it hears of events.
ContainerName == <<"container">>

Key(s) ==
  CASE s.name # "" -> IF s.port # "" THEN <<s.name, s.port>> ELSE <<s.name>>
    [] s.name = "" /\ s.funnel # "" -> <<"container", "funnel", s.funnel>>
    [] OTHER -> ContainerName

Keys(services) == {Key(s) : s \in services}

\* Mutant: the default port of an https service is forgotten.
servicePortFromAttrsHTTP(e) ==
  CASE e.port # "" -> e.port
    [] e.port = "" /\ e.target = "" -> ""
    [] OTHER -> "80"

servicePortFromAttrs(e) ==
  CASE e.port # "" -> e.port
    [] e.port = "" /\ e.target = "" -> ""
    [] OTHER -> IF e.sproto = "https" THEN "443" ELSE "80"

serviceKeyFromAttrs ==
  LET e == cont.entries[1]
  IN CASE e.name = "" -> ContainerName
       [] OTHER -> IF servicePortFromAttrs(e) # "" THEN <<e.name, servicePortFromAttrs(e)>>
                   ELSE <<e.name>>

serviceKeysForEvent ==
  CASE cont.ignore -> {ContainerName}
    [] ~cont.ignore /\ latest # {} -> Keys(latest)
    [] OTHER -> {serviceKeyFromAttrs}

\* What a check dials: nothing without an address or a port.
checkHostPort(s) == IF s.monitor # Nowhere THEN s.monitor
                    ELSE IF s.entry = 0 THEN Nowhere ELSE s.dest

----------------------------------------------------------------------------
TypeOK ==
  /\ \E s \in Situations : cont = s[1] /\ agent = s[3]
  /\ up \in BOOLEAN /\ attached \in [Networks -> {"no", "noip", "ip"}]
  /\ changes \in 0..MaxChanges
  /\ selfNetOnce \in BOOLEAN /\ gatewayOnce \in BOOLEAN
  /\ selfNets \in {{}, agent.nets}
  /\ gateway \in {"", "gateway", "alias"}
  /\ pc \in [Scans -> {"idle", "listed"}] /\ saw \in [Scans -> BOOLEAN]
  /\ \A s \in latest \cup snapshot.services :
       /\ s.entry \in Entries \cup {0} /\ s.monitor.via \in {"nowhere", "ip", "gateway", "alias"}
       /\ s.dest.via \in {"nowhere", "ip", "loopback"}
  /\ quiet \in BOOLEAN

Init ==
  /\ \E s \in Situations :
       /\ cont = s[1] /\ agent = s[3]
       /\ attached = [n \in Networks |-> IF n \in s[2] THEN "ip" ELSE "no"]
  /\ up \in BOOLEAN
  /\ changes = 0
  /\ selfNetOnce = FALSE /\ selfNets = {} /\ gatewayOnce = FALSE /\ gateway = ""
  /\ pc = [s \in Scans |-> "idle"] /\ saw = [s \in Scans |-> FALSE]
  /\ latest = {}
  /\ snapshot = [services |-> {}, skipped |-> FALSE, inspected |-> FALSE, saw |-> FALSE,
                 inventory |-> FALSE]
  /\ seen = {} /\ quiet = FALSE

\* The list call of GetEnabledContainers shows running containers only.
List(s) ==
  /\ pc[s] = "idle"
  /\ s = "reconcile" => up
  /\ pc' = [pc EXCEPT ![s] = "listed"] /\ saw' = [saw EXCEPT ![s] = up]
  /\ UNCHANGED <<envVars, cacheVars, latest, snapshot, seen, quiet>>

\* The container is not in the reconciler's list.
ListWithout ==
  /\ pc["reconcile"] = "idle" /\ ~up /\ latest # {}
  /\ latest' = {}
  /\ UNCHANGED <<envVars, cacheVars, pc, saw, snapshot, seen, quiet>>

isManaged == cont.service \/ cont.funnel.on

Picks ==
  LET found == IF cont.network = SuffixLabel THEN Suffixed \cap Attached ELSE {}
  IN [{0} \cup Entries -> IF found = {} THEN {Bridge} ELSE found]

\* Which of the agent's own addresses a parse asks for.
UsesSelfNets(sn, picks) ==
  LET looksUpIP == cont.direct /\ cont.network = NoLabel
  IN /\ cont.mode = "bridge"
     /\ \/ PrimaryTried /\ (looksUpIP \/ Dest(1, sn, picks) # Nowhere)
        \/ ~cont.service /\ cont.funnel.on /\ FunnelValid(cont.funnel) /\ looksUpIP

UsesGateway(sn, picks) ==
  /\ PrimaryTried /\ Dest(1, sn, picks) # Nowhere
  /\ \/ cont.mode = "host"
     \/ cont.mode = "bridge" /\ ~sharesNetworkWith(sn)

\* Mutant: only a successful look at itself is remembered.
KnowsRetrying(sn, gw, picks) ==
  /\ \E ok \in SelfLookups : sn = IF selfNetOnce THEN selfNets ELSE selfNetIDs(ok)
  /\ \E ok \in SelfLookups : gw = IF gatewayOnce THEN gateway ELSE resolveHostGateway(ok)
  /\ selfNetOnce' = (sn # {}) /\ selfNets' = sn
  /\ gatewayOnce' = (gw = "gateway") /\ gateway' = gw

\* The agent's networks sn and gateway gw as a parse finds them, looked up or cached.
Knows(sn, gw, picks) ==
  /\ \E ok \in SelfLookups : sn = IF selfNetOnce THEN selfNets ELSE selfNetIDs(ok)
  /\ \E ok \in SelfLookups : gw = IF gatewayOnce THEN gateway ELSE resolveHostGateway(ok)
  /\ IF UsesSelfNets(sn, picks) THEN selfNetOnce' = TRUE /\ selfNets' = sn
     ELSE UNCHANGED <<selfNetOnce, selfNets>>
  /\ IF UsesGateway(sn, picks) THEN gatewayOnce' = TRUE /\ gateway' = gw
     ELSE UNCHANGED <<gatewayOnce, gateway>>

\* GetEnabledContainers inspects what it listed; OnReconcile takes the result.
Reconcile ==
  /\ pc["reconcile"] = "listed"
  /\ pc' = [pc EXCEPT !["reconcile"] = "idle"]
  /\ IF isManaged
     THEN \E sn \in {{}, agent.nets}, gw \in {"", "gateway", "alias"}, picks \in Picks :
            /\ Knows(sn, gw, picks)
            /\ latest' = IF Parses(sn, picks) /\ ~cont.ignore
                         THEN parseContainer(sn, gw, picks) ELSE {}
     ELSE latest' = {} /\ UNCHANGED cacheVars
  /\ UNCHANGED <<envVars, saw, snapshot, seen, quiet>>

\* ContainerInspect fails, or its context is cancelled: the container is skipped.
ReconcileSkips ==
  /\ pc["reconcile"] = "listed" /\ isManaged
  /\ pc' = [pc EXCEPT !["reconcile"] = "idle"]
  /\ latest' = {}
  /\ UNCHANGED <<envVars, cacheVars, saw, snapshot, seen, quiet>>

\* GetCloudContainers and GetOtherContainers, and the snapshot made of them.
Snapshot(services, skipped, inspected) ==
  /\ pc["cloud"] = "listed"
  /\ pc' = [pc EXCEPT !["cloud"] = "idle"]
  /\ latest' = services
  /\ snapshot' = [services |-> services, skipped |-> skipped, inspected |-> inspected,
                  saw |-> saw["cloud"], inventory |-> ~isManaged \/ cont.ignore]
  /\ seen' = IF up /\ saw["cloud"] THEN seen \cup Keys(services) ELSE seen
  /\ quiet' = TRUE
  /\ UNCHANGED <<envVars, saw>>

\* A container that gives no services is skipped if it was listed as running, and
\* otherwise reported as its labels describe it.
Unparsed(inspected) ==
  IF saw["cloud"] THEN Snapshot({}, TRUE, inspected)
                  ELSE Snapshot(stoppedCloudServices, FALSE, inspected)

ScanCloud ==
  IF isManaged /\ ~cont.ignore
  THEN \E sn \in {{}, agent.nets}, gw \in {"", "gateway", "alias"}, picks \in Picks :
         /\ Knows(sn, gw, picks)
         /\ IF Parses(sn, picks) THEN Snapshot(parseContainer(sn, gw, picks), FALSE, TRUE)
            ELSE Unparsed(TRUE)
  ELSE Snapshot({}, FALSE, TRUE) /\ UNCHANGED cacheVars

\* ContainerInspect fails, or its context is cancelled.
ScanCloudSkips ==
  /\ isManaged /\ ~cont.ignore
  /\ Unparsed(FALSE)
  /\ UNCHANGED cacheVars

----------------------------------------------------------------------------
\* The surroundings.
Changed ==
  /\ changes < MaxChanges
  /\ changes' = changes + 1 /\ quiet' = FALSE

StartStop ==
  /\ Changed /\ up' = ~up
  /\ UNCHANGED <<cont, agent, attached, cacheVars, pc, saw, latest, snapshot, seen>>

Connect(n, a) ==
  /\ Changed /\ cont.mode = "bridge" /\ n \in cont.nets /\ attached[n] # a
  /\ attached' = [attached EXCEPT ![n] = a]
  /\ UNCHANGED <<cont, agent, up, cacheVars, pc, saw, latest, snapshot, seen>>

\* DockTail is restarted; the cloud remembers what it was told.
Restart ==
  /\ Changed
  /\ selfNetOnce' = FALSE /\ selfNets' = {} /\ gatewayOnce' = FALSE /\ gateway' = ""
  /\ pc' = [s \in Scans |-> "idle"] /\ saw' = [s \in Scans |-> FALSE]
  /\ latest' = {}
  /\ UNCHANGED <<cont, agent, up, attached, snapshot, seen>>

Next ==
  \/ \E s \in Scans : List(s)
  \/ ListWithout \/ Reconcile \/ ReconcileSkips \/ ScanCloud \/ ScanCloudSkips
  \/ StartStop \/ Restart
  \/ \E n \in Networks, a \in {"no", "noip", "ip"} : Connect(n, a)

Spec == Init /\ [][Next]_vars

----------------------------------------------------------------------------
\* Properties.

\* The services that may be missing although the container is still there: those of a
\* port whose host port is only known while the container runs.
Unresolved == {Endpoint(k) : k \in {j \in Entries \ {1} :
                 ~cont.direct /\ cont.entries[j].target # ""
                 /\ cont.published[cont.entries[j].target] = "dynamic"}}

Ambiguous == cont.network = SuffixLabel /\ Cardinality(Suffixed) > 1

\* A service that a full snapshot reported while its container ran stays in every full
\* snapshot, under the same key, when the container stops, changes its networks or
\* DockTail restarts, and when it is stopped and cannot be inspected: GetCloudContainers
\* "reserves removed for containers that truly leave Docker". Left out are a container
\* that was listed as running and could not be inspected or parsed, an indexed service
\* behind a port Docker picks, and an ambiguous network label.
StaysInCatalog ==
  quiet /\ ~snapshot.skipped /\ ~Ambiguous =>
    seen \ Unresolved \subseteq Keys(snapshot.services)

\* An event of a container with an enabled service, also one that is no longer in
\* c.latest, names a service that the cloud was told of, or the container in the
\* inventory (serviceKeysForEvent).
EventsNameAService ==
  /\ cont.service /\ ~cont.ignore /\ seen # {} =>
       serviceKeysForEvent \subseteq seen \cup Keys(snapshot.services) \cup Keys(latest)
  /\ snapshot.inventory /\ cont.ignore => serviceKeysForEvent = {ContainerName}

\* Whether the agent gets to the container at an address, and whether it could at any.
Reaches(a) ==
  CASE a.via = "ip"        -> agent.kind = "bridged" => a.net \in agent.nets
    [] a.via = "loopback"  -> agent.kind # "bridged"
    [] a.via = "gateway"   -> agent.kind = "bridged" /\ (a.published \/ cont.mode = "host")
    [] OTHER               -> FALSE

HostReachable == agent.kind # "bridged" \/ agent.routed

Reachable(s) ==
  \/ cont.mode = "host" /\ HostReachable
  \/ /\ cont.mode = "bridge" /\ WithIP # {}
     /\ \/ agent.kind # "bridged" \/ WithIP \cap agent.nets # {}
        \/ Published(cont.entries[s.entry].target) /\ HostReachable

\* The local check of a running container dials an address that leads to it from where
\* DockTail runs, never the agent's own loopback, whenever there is one (monitorTarget,
\* getContainerIP). Left out are a network chosen by label, an agent whose look at itself
\* failed, which is cached, and a shared network on which the container has no address.
ChecksReachContainer ==
  \A s \in snapshot.services :
    /\ quiet /\ up /\ snapshot.saw /\ s.entry # 0 /\ Reachable(s)
    /\ cont.network = NoLabel
    /\ selfNetOnce => selfNets = selfNetIDs(agent.kind # "bare")
    /\ gatewayOnce => gateway = resolveHostGateway(agent.kind # "bare")
    /\ agent.kind = "bridged" => Attached \cap agent.nets \subseteq WithIP
    => Reaches(checkHostPort(s))

\* Two scans that both inspect the container and between which nothing changed report the
\* same services at the same addresses, whatever the order of Docker's map of networks,
\* whether the agent's look at itself succeeds, and whatever the reconciler does meanwhile,
\* unless a network label matches several networks (getContainerIP: "an arbitrary IP that
\* flips run to run"). A scan that could not inspect it differs.
StableAddresses ==
  [][(/\ quiet /\ quiet' /\ pc["cloud"] = "listed" /\ pc'["cloud"] = "idle"
      /\ snapshot.saw = saw["cloud"] /\ ~Ambiguous
      /\ snapshot.inspected /\ snapshot'.inspected)
     => snapshot'.services = snapshot.services]_vars

============================================================================
