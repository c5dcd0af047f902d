--------------------------- MODULE DiscoveryProofs ---------------------------
(***************************************************************************)
(* Proofs about Discovery, for all labels, networks, network modes and     *)
(* agents.                                                                 *)
(***************************************************************************)
EXTENDS Discovery, TLAPS, FiniteSetTheorems, WellFoundedInduction

Gateways == {"", "gateway", "alias"}

\* What the cloud is told of the container, when it was listed as running or not.
CloudView(running, sn, gw, picks) ==
  CASE ~isManaged \/ cont.ignore -> {}
    [] isManaged /\ ~cont.ignore /\ Parses(sn, picks) -> parseContainer(sn, gw, picks)
    [] OTHER -> IF running THEN {} ELSE stoppedCloudServices

\* What a parse that found sn and gw asked for is cached.
Cached(sn, gw, picks) ==
  /\ UsesSelfNets(sn, picks) => selfNetOnce /\ selfNets = sn
  /\ UsesGateway(sn, picks) => gatewayOnce /\ gateway = gw

\* While nothing changes, the last full snapshot is what a scan would find again, unless
\* the container could not be inspected.
SnapshotCurrent ==
  quiet /\ snapshot.inspected =>
    \E running \in BOOLEAN, sn \in {{}, agent.nets}, gw \in Gateways, picks \in Picks :
      /\ snapshot.saw = running
      /\ snapshot.services = CloudView(running, sn, gw, picks)
      /\ isManaged /\ ~cont.ignore => Cached(sn, gw, picks)

\* A running container that could not be inspected is reported as nothing.
SkippedEmpty == ~snapshot.inspected /\ snapshot.saw => snapshot.services = {}

\* The labels of the container alone let it be parsed.
LabelsParse ==
  /\ isManaged /\ ~cont.ignore
  /\ cont.service => /\ PrimaryTried
                     /\ ProxyProtocolValid(cont.entries[1]) /\ PathValid(cont.entries[1])
  /\ cont.funnel.on => FunnelValid(cont.funnel)

\* The services it can then have, and their keys.
Placeable(k) ==
  \/ cont.direct \/ cont.mode = "host"
  \/ cont.published[cont.entries[k].target] \in {"fixed", "dynamic"}
Offered == {1} \cup {k \in Entries \ {1} : IndexValid(k) /\ ~Claimed(k) /\ Placeable(k)}
LabelKeys ==
  IF cont.service THEN {Endpoint(k) : k \in Offered}
  ELSE {<<"container", "funnel", FunnelPublic(cont.funnel)>>}

\* What was reported of the running container came from its labels, and the primary
\* service was reported.
SeenFromLabels ==
  seen # {} => /\ LabelsParse /\ seen \subseteq LabelKeys
               /\ cont.service => Endpoint(1) \in seen

IInv == TypeOK /\ SeenFromLabels /\ StaysInCatalog /\ SnapshotCurrent /\ SkippedEmpty

----------------------------------------------------------------------------
(* The container and its addresses. *)

\* What TypeOK says about the container and the agent.
LEMMA Fixed ==
  ASSUME TypeOK
  PROVE  /\ cont.network \in Networks \cup {NoLabel, SuffixLabel}
         /\ cont.mode \in {"bridge", "host", "none"} /\ 1 \in Entries
         /\ cont.service \in BOOLEAN /\ cont.direct \in BOOLEAN /\ cont.ignore \in BOOLEAN
         /\ cont.funnel.on \in BOOLEAN /\ agent.id \in BOOLEAN /\ agent.routed \in BOOLEAN
         /\ agent.kind \in {"bare", "hostnet", "bridged"} /\ agent.nets \subseteq Networks
         /\ agent.kind = "bare" => ~agent.id
<1>1. PICK s \in Situations : cont = s[1] /\ agent = s[3] BY DEF TypeOK
<1>2. \A flag \in {s[1].service, s[1].direct, s[1].ignore, s[1].funnel.on, s[3].id,
                  s[3].routed} :
        flag \in BOOLEAN
  BY ConstantAssumption
<1>3. QED BY <1>1, <1>2, ConstantAssumption DEF Entries

\* The least network of a set that is not empty is in it.
LEMMA MinInSet ==
  ASSUME NEW S \in SUBSET Networks, S # {}
  PROVE  Min(S) \in S
<1>1. S \subseteq Nat BY ConstantAssumption
<1>2. PICK x \in S : \A y \in S : <<y, x>> \notin OpToRel(<, Nat)
  BY <1>1, NatLessThanWellFounded, WFMin
<1>3. ASSUME NEW y \in S PROVE x =< y
  <2>1. x \in Nat /\ y \in Nat BY <1>1
  <2>2. ~(y < x) BY <1>2, <2>1 DEF OpToRel
  <2>3. QED BY <2>1, <2>2
<1>4. QED BY <1>3 DEF Min

\* An address on network 0 is none.
LEMMA OnNetwork ==
  ASSUME NEW n, NEW port
  PROVE  /\ On(n, port) = Nowhere <=> n = 0
         /\ n # 0 => On(n, port).via = "ip" /\ On(n, port).net = n
         /\ On(n, port).via \in {"ip", "nowhere"}
BY DEF On, Nowhere

LEMMA NoVia == Nowhere.via = "nowhere"
BY DEF Nowhere

\* An address via the host is one.
LEMMA ViaHost ==
  ASSUME NEW v, NEW port
  PROVE  /\ Via(v, port, FALSE).via = v /\ Via(v, port, TRUE).via = v
         /\ Via(v, port, TRUE).published
         /\ v # "nowhere" => Via(v, port, FALSE) # Nowhere /\ Via(v, port, TRUE) # Nowhere
<1>1. /\ Via(v, port, FALSE).via = v /\ Via(v, port, TRUE).via = v
      /\ Via(v, port, TRUE).published
  BY DEF Via
<1>2. QED BY <1>1, NoVia

LEMMA ShownNetworks == WithIP \subseteq Attached /\ Attached \subseteq Networks
BY DEF WithIP, Attached

\* Where a service can be reached if no network is named: on a network of its own, and
\* on one it shares with the agent if there is one.
LEMMA UnnamedIP ==
  ASSUME TypeOK, cont.network = NoLabel, NEW sn, NEW p
  PROVE  /\ WithIP # {} => getContainerIP(sn, p) \in WithIP /\ getContainerIP(sn, p) # 0
         /\ WithIP \cap sn # {} => getContainerIP(sn, p) \in WithIP \cap sn
<1>1. cont.network \notin Attached /\ cont.network # SuffixLabel
  BY ShownNetworks, ConstantAssumption DEF NoLabel
<1>2. WithIP # {} => Min(WithIP) \in WithIP BY MinInSet, ShownNetworks
<1>3. WithIP \cap sn # {} => Min(WithIP \cap sn) \in WithIP \cap sn BY MinInSet, ShownNetworks
<1>4. 0 \notin WithIP BY ShownNetworks, ConstantAssumption
<1>5. WithIP # {} => getContainerIP(sn, p) =
                       IF WithIP \cap sn # {} THEN Min(WithIP \cap sn)
                       ELSE IF Bridge \in WithIP THEN Bridge ELSE Min(WithIP)
  BY <1>1 DEF getContainerIP
<1>6. QED BY <1>2, <1>3, <1>4, <1>5

\* Only an ambiguous label leaves the address to the order of Docker's map.
LEMMA AnyPick ==
  ASSUME TypeOK, ~Ambiguous, NEW sn, NEW ps \in Picks, NEW qs \in Picks,
         NEW k \in {0} \cup Entries, NEW j \in {0} \cup Entries
  PROVE  getContainerIP(sn, ps[k]) = getContainerIP(sn, qs[j])
<1>1. CASE cont.network = SuffixLabel /\ Suffixed \cap Attached # {}
  <2>1. ps[k] \in Suffixed /\ qs[j] \in Suffixed BY <1>1 DEF Picks
  <2>2. IsFiniteSet(Suffixed) BY ConstantAssumption, FS_Subset
  <2>3. Cardinality(Suffixed) \in Nat /\ ~(Cardinality(Suffixed) > 1)
    BY <1>1, <2>2, FS_CardinalityType DEF Ambiguous
  <2>4. Cardinality(Suffixed) # 0 BY <2>1, <2>2, FS_EmptySet
  <2>5. Cardinality(Suffixed) = 1 BY <2>3, <2>4
  <2>6. PICK x : Suffixed = {x} BY <2>2, <2>5, FS_Singleton
  <2>7. QED BY <2>1, <2>6
<1>2. CASE ~(cont.network = SuffixLabel /\ Suffixed \cap Attached # {})
  BY <1>2 DEF getContainerIP
<1>3. QED BY <1>1, <1>2

\* The agent's networks matter only to a container that names none.
LEMMA NamedIP ==
  ASSUME NEW sn, NEW tn, NEW p, cont.network # NoLabel
  PROVE  getContainerIP(sn, p) = getContainerIP(tn, p)
BY DEF getContainerIP

----------------------------------------------------------------------------
(* Destinations. *)

\* A destination is an address of the container, or a port of the host.
LEMMA DestType ==
  ASSUME NEW port, NEW sn, NEW p
  PROVE  resolveDestPort(port, sn, p).via \in {"nowhere", "ip", "loopback"}
<1>1. On(getContainerIP(sn, p), port).via \in {"nowhere", "ip"} BY OnNetwork
<1>2. QED BY <1>1, NoVia, ViaHost DEF resolveDestPort

\* So is the address of a check, unless it is the host's.
LEMMA MonitorType ==
  ASSUME NEW port, NEW sn, NEW gw \in Gateways, NEW p
  PROVE  monitorTarget(port, sn, gw, p).via \in {"nowhere", "ip", "gateway", "alias"}
<1>1. On(getContainerIP(sn, p), port).via \in {"nowhere", "ip"} BY OnNetwork
<1>2. QED BY <1>1, NoVia, ViaHost DEF monitorTarget, Gateways

\* Whether a container has a destination depends on the order of its networks only if
\* its label is ambiguous, and on the agent's networks only if it names none.
LEMMA AnyDest ==
  ASSUME TypeOK, ~Ambiguous, NEW ps \in Picks, NEW qs \in Picks,
         NEW k \in {0} \cup Entries, NEW sn, NEW tn,
         cont.mode = "bridge" /\ cont.direct /\ cont.network = NoLabel => sn = tn,
         NEW port
  PROVE  resolveDestPort(port, sn, ps[k]) = resolveDestPort(port, tn, qs[k])
<1>1. CASE cont.mode = "bridge" /\ cont.direct
  <2>1. getContainerIP(sn, ps[k]) = getContainerIP(sn, qs[k]) BY AnyPick
  <2>2. getContainerIP(sn, qs[k]) = getContainerIP(tn, qs[k]) BY <1>1, NamedIP
  <2>3. QED BY <1>1, <2>1, <2>2 DEF resolveDestPort
<1>2. CASE ~(cont.mode = "bridge" /\ cont.direct)
  <2>1. cont.mode \in {"host", "none"} \/ ~cont.direct BY <1>2, Fixed
  <2>2. QED BY <2>1 DEF resolveDestPort
<1>3. QED BY <1>1, <1>2

\* A container that has a destination for its primary service has one for every service
\* that can be placed, but for a port that Docker picks.
LEMMA PlacedTogether ==
  ASSUME TypeOK, ~Ambiguous, NEW ps \in Picks, NEW sn, NEW k \in Entries \ {1},
         Dest(1, sn, ps) # Nowhere, IndexValid(k), Placeable(k), Endpoint(k) \notin Unresolved
  PROVE  Dest(k, sn, ps) # Nowhere
<1>1. CASE cont.mode = "host"
  <2>1. Dest(k, sn, ps) = Via("loopback", cont.entries[k].target, FALSE)
    BY <1>1 DEF Dest, resolveDestPort
  <2>2. QED BY <2>1, ViaHost
<1>2. CASE cont.mode # "host" /\ cont.direct
  <2>1. Dest(1, sn, ps) = IF cont.mode = "none" THEN Nowhere
                          ELSE On(getContainerIP(sn, ps[1]), cont.entries[1].target)
    BY <1>2 DEF Dest, resolveDestPort
  <2>2. Dest(k, sn, ps) = IF cont.mode = "none" THEN Nowhere
                          ELSE On(getContainerIP(sn, ps[k]), cont.entries[k].target)
    BY <1>2 DEF Dest, resolveDestPort
  <2>3. getContainerIP(sn, ps[1]) = getContainerIP(sn, ps[k])
    <3>1. 1 \in {0} \cup Entries /\ k \in {0} \cup Entries BY Fixed
    <3>2. QED BY <3>1, AnyPick
  <2>4. QED BY <2>1, <2>2, <2>3, OnNetwork
<1>3. CASE cont.mode # "host" /\ ~cont.direct
  <2>1. cont.entries[k].target # "" BY DEF IndexValid
  <2>2. cont.published[cont.entries[k].target] # "dynamic" BY <1>3, <2>1 DEF Unresolved
  <2>3. Published(cont.entries[k].target) BY <1>3, <2>2 DEF Placeable, Published
  <2>4. Dest(k, sn, ps) = Via("loopback", cont.entries[k].target, TRUE)
    BY <1>3, <2>3 DEF Dest, resolveDestPort
  <2>5. QED BY <2>4, ViaHost
<1>4. QED BY <1>1, <1>2, <1>3, Fixed

----------------------------------------------------------------------------
(* Keys. *)

\* A service whose labels are valid is known by its endpoint.
LEMMA ParsedKey ==
  ASSUME NEW k, NEW sn, NEW gw, NEW ps, cont.entries[k].name # ""
  PROVE  Key(ParsedService(k, sn, gw, ps)) = Endpoint(k)
<1>1. ServicePort(cont.entries[k]) # "" BY DEF ServicePort
<1>2. /\ ParsedService(k, sn, gw, ps).name = cont.entries[k].name
      /\ ParsedService(k, sn, gw, ps).port = ServicePort(cont.entries[k])
  BY DEF ParsedService
<1>3. QED BY <1>1, <1>2 DEF Key, Endpoint

\* So is that of a stopped container that cannot be parsed.
LEMMA StoppedKey ==
  ASSUME NEW k, cont.entries[k].name # "", cont.entries[k].target # "",
         ProtocolsValid(cont.entries[k])
  PROVE  Key(cloudServiceFromLabels(k)) = Endpoint(k)
<1>1. ServicePort(cont.entries[k]) # "" BY DEF ServicePort
<1>2. LabelPort(cont.entries[k]) = ServicePort(cont.entries[k]) BY DEF LabelPort
<1>3. /\ cloudServiceFromLabels(k).name = cont.entries[k].name
      /\ cloudServiceFromLabels(k).port = LabelPort(cont.entries[k])
  BY DEF cloudServiceFromLabels
<1>4. QED BY <1>1, <1>2, <1>3 DEF Key, Endpoint

LEMMA FunnelKey ==
  ASSUME NEW d
  PROVE  Key(FunnelOnly(d)) = <<"container", "funnel", FunnelPublic(cont.funnel)>>
<1>1. FunnelPublic(cont.funnel) # "" BY DEF FunnelPublic
<1>2. FunnelOnly(d).name = "" /\ FunnelOnly(d).funnel = FunnelPublic(cont.funnel)
  BY DEF FunnelOnly
<1>3. QED BY <1>1, <1>2 DEF Key

\* What a parse reports has the keys of the labels, and implies that they are valid.
LEMMA ParsedKeys ==
  ASSUME TypeOK, isManaged, ~cont.ignore, NEW sn, NEW gw, NEW ps \in Picks, Parses(sn, ps)
  PROVE  /\ LabelsParse /\ Keys(parseContainer(sn, gw, ps)) \subseteq LabelKeys
         /\ cont.service => Endpoint(1) \in Keys(parseContainer(sn, gw, ps))
<1>1. LabelsParse BY DEF LabelsParse, Parses, PrimaryParses
<1>2. CASE cont.service
  <2>1. cont.entries[1].name # "" BY <1>2 DEF Parses, PrimaryParses, PrimaryTried
  <2>2. ASSUME NEW k \in parseIndexedPorts(sn, ps)
        PROVE  k \in Offered /\ cont.entries[k].name # ""
    <3>1. k \in Entries \ {1} /\ IndexValid(k) /\ ~Claimed(k) /\ Dest(k, sn, ps) # Nowhere
      BY DEF parseIndexedPorts
    <3>2. Placeable(k)
      <4>1. CASE cont.direct \/ cont.mode = "host" BY <4>1 DEF Placeable
      <4>2. CASE ~cont.direct /\ cont.mode # "host"
        <5>1. Published(cont.entries[k].target) BY <3>1, <4>2 DEF Dest, resolveDestPort
        <5>2. QED BY <5>1 DEF Published, Placeable
      <4>3. QED BY <4>1, <4>2
    <3>3. QED BY <3>1, <3>2 DEF Offered, IndexValid
  <2>3. Key(ParsedService(1, sn, gw, ps)) = Endpoint(1) BY <2>1, ParsedKey
  <2>4. \A k \in parseIndexedPorts(sn, ps) : Key(ParsedService(k, sn, gw, ps)) = Endpoint(k)
    BY <2>2, ParsedKey
  <2>5. Keys(parseContainer(sn, gw, ps)) =
          {Endpoint(k) : k \in {1} \cup parseIndexedPorts(sn, ps)}
    BY <1>2, <2>3, <2>4 DEF Keys, parseContainer
  <2>6. QED BY <1>1, <1>2, <2>2, <2>5 DEF LabelKeys, Offered
<1>3. CASE ~cont.service
  <2>1. Keys(parseContainer(sn, gw, ps)) = {Key(FunnelOnly(FunnelDest(sn, ps)))}
    BY <1>3 DEF Keys, parseContainer
  <2>2. QED BY <1>1, <1>3, <2>1, FunnelKey DEF LabelKeys
<1>4. QED BY <1>2, <1>3

\* A container that can be parsed again reports all it reported, but for the ports that
\* Docker picks.
LEMMA ParseKeeps ==
  ASSUME TypeOK, ~Ambiguous, LabelsParse, NEW sn, NEW gw, NEW ps \in Picks, Parses(sn, ps)
  PROVE  LabelKeys \ Unresolved \subseteq Keys(parseContainer(sn, gw, ps))
<1>1. CASE cont.service
  <2>1. SUFFICES ASSUME NEW k \in Offered, Endpoint(k) \notin Unresolved
                 PROVE  Endpoint(k) \in Keys(parseContainer(sn, gw, ps))
    BY <1>1 DEF LabelKeys
  <2>2. cont.entries[k].name # ""
    BY <1>1 DEF Offered, IndexValid, Parses, PrimaryParses, PrimaryTried
  <2>3. k \in {1} \cup parseIndexedPorts(sn, ps)
    <3>1. CASE k # 1
      <4>1. k \in Entries \ {1} /\ IndexValid(k) /\ ~Claimed(k) /\ Placeable(k)
        BY <3>1 DEF Offered
      <4>2. Dest(1, sn, ps) # Nowhere BY <1>1 DEF Parses, PrimaryParses
      <4>3. Dest(k, sn, ps) # Nowhere BY <2>1, <4>1, <4>2, PlacedTogether
      <4>4. QED BY <4>1, <4>3 DEF parseIndexedPorts
    <3>2. QED BY <3>1
  <2>4. Key(ParsedService(k, sn, gw, ps)) = Endpoint(k) BY <2>2, ParsedKey
  <2>5. ParsedService(k, sn, gw, ps) \in parseContainer(sn, gw, ps)
    BY <1>1, <2>3 DEF parseContainer
  <2>6. QED BY <2>4, <2>5 DEF Keys
<1>2. CASE ~cont.service
  <2>1. FunnelOnly(FunnelDest(sn, ps)) \in parseContainer(sn, gw, ps)
    BY <1>2 DEF parseContainer
  <2>2. QED BY <1>2, <2>1, FunnelKey DEF LabelKeys, Keys
<1>3. QED BY <1>1, <1>2

\* A stopped container whose labels are valid reports all of them.
LEMMA StoppedKeeps ==
  ASSUME TypeOK, LabelsParse
  PROVE  LabelKeys \subseteq Keys(stoppedCloudServices)
<1>1. CASE cont.service
  <2>1. SUFFICES ASSUME NEW k \in Offered PROVE Endpoint(k) \in Keys(stoppedCloudServices)
    BY <1>1 DEF LabelKeys
  <2>2. /\ k \in Entries /\ cont.entries[k].name # "" /\ cont.entries[k].target # ""
        /\ ProtocolsValid(cont.entries[k])
    BY <1>1, Fixed DEF Offered, IndexValid, LabelsParse, PrimaryTried
  <2>3. k \in Named BY <1>1, <2>2 DEF Named
  <2>4. cloudServiceFromLabels(k) \in stoppedCloudServices BY <2>3 DEF stoppedCloudServices
  <2>5. QED BY <2>2, <2>4, StoppedKey DEF Keys
<1>2. CASE ~cont.service
  <2>1. cont.funnel.on /\ cont.funnel.target # "" BY <1>2 DEF LabelsParse, isManaged, FunnelValid
  <2>2. FunnelOnly(Nowhere) \in stoppedCloudServices
    BY <1>2, <2>1 DEF stoppedCloudServices, Named, FunnelNamed
  <2>3. QED BY <1>2, <2>2, FunnelKey DEF LabelKeys, Keys
<1>3. QED BY <1>1, <1>2

\* An event is named after the primary service, by other rules with the same outcome.
LEMMA EventKey ==
  ASSUME LabelsParse, cont.service
  PROVE  serviceKeyFromAttrs = Endpoint(1)
<1>1. cont.entries[1].name # "" /\ cont.entries[1].target # "" BY DEF LabelsParse, PrimaryTried
<1>2. servicePortFromAttrs(cont.entries[1]) = ServicePort(cont.entries[1])
  BY <1>1 DEF servicePortFromAttrs, ServicePort
<1>3. ServicePort(cont.entries[1]) # "" BY DEF ServicePort
<1>4. QED BY <1>1, <1>2, <1>3 DEF serviceKeyFromAttrs, Endpoint

----------------------------------------------------------------------------
(* Two scans of the same container. *)

\* What a parse finds is independent of what it did not ask the agent for, and of the
\* order of the container's networks.
LEMMA SameParse ==
  ASSUME TypeOK, ~Ambiguous, isManaged, NEW ps \in Picks, NEW qs \in Picks, NEW sn, NEW tn,
         UsesSelfNets(sn, ps) => sn = tn
  PROVE  /\ Parses(sn, ps) <=> Parses(tn, qs)
         /\ Parses(sn, ps) =>
              /\ \A k \in Entries : Dest(k, sn, ps) = Dest(k, tn, qs)
              /\ FunnelDest(sn, ps) = FunnelDest(tn, qs)
<1>1. CASE cont.mode = "bridge" /\ cont.direct /\ cont.network = NoLabel => sn = tn
  <2>1. ASSUME NEW k \in Entries PROVE Dest(k, sn, ps) = Dest(k, tn, qs)
    <3>1. k \in {0} \cup Entries OBVIOUS
    <3>2. QED BY <1>1, <3>1, AnyDest DEF Dest
  <2>2. FunnelDest(sn, ps) = FunnelDest(tn, qs) BY <1>1, AnyDest DEF FunnelDest
  <2>3. Dest(1, sn, ps) = Dest(1, tn, qs) BY <2>1, Fixed
  <2>4. QED BY <2>1, <2>2, <2>3 DEF Parses, PrimaryParses
<1>2. CASE /\ cont.mode = "bridge" /\ cont.direct /\ cont.network = NoLabel
           /\ ~UsesSelfNets(sn, ps)
  <2>1. /\ ~PrimaryTried
        /\ ~cont.service /\ cont.funnel.on => ~FunnelValid(cont.funnel)
    BY <1>2 DEF UsesSelfNets
  <2>2. QED BY <2>1 DEF Parses, PrimaryParses, isManaged
<1>3. QED BY <1>1, <1>2

\* A scan finds what the one before it found, the addresses of the checks included.
LEMMA SameView ==
  ASSUME TypeOK, ~Ambiguous, NEW ps \in Picks, NEW qs \in Picks, NEW sn, NEW tn, NEW gw, NEW hw,
         NEW running,
         isManaged /\ ~cont.ignore => /\ UsesSelfNets(sn, ps) => sn = tn
                                      /\ UsesGateway(sn, ps) => gw = hw
  PROVE  CloudView(running, sn, gw, ps) = CloudView(running, tn, hw, qs)
<1>1. CASE ~isManaged \/ cont.ignore BY <1>1 DEF CloudView
<1>2. CASE isManaged /\ ~cont.ignore /\ ~Parses(sn, ps)
  <2>1. ~Parses(tn, qs) BY <1>2, SameParse
  <2>2. QED BY <1>2, <2>1 DEF CloudView
<1>3. CASE isManaged /\ ~cont.ignore /\ Parses(sn, ps)
  <2>1. /\ Parses(tn, qs)
        /\ \A k \in Entries : Dest(k, sn, ps) = Dest(k, tn, qs)
        /\ FunnelDest(sn, ps) = FunnelDest(tn, qs)
    BY <1>3, SameParse
  <2>2. parseContainer(sn, gw, ps) = parseContainer(tn, hw, qs)
    <3>1. CASE cont.service
      <4>1. 1 \in Entries /\ Dest(1, sn, ps) = Dest(1, tn, qs) BY <2>1, Fixed
      <4>2. parseIndexedPorts(sn, ps) = parseIndexedPorts(tn, qs)
        BY <2>1 DEF parseIndexedPorts
      <4>3. ASSUME NEW k \in Entries
            PROVE  ParsedService(k, sn, gw, ps) = ParsedService(k, tn, hw, qs)
        <5>1. monitorTarget(cont.entries[k].target, sn, gw, ps[k])
                = monitorTarget(cont.entries[k].target, tn, hw, qs[k])
          <6>1. PrimaryTried /\ Dest(1, sn, ps) # Nowhere BY <1>3, <3>1 DEF Parses, PrimaryParses
          <6>2. CASE cont.mode = "none" BY <6>2 DEF monitorTarget
          <6>3. CASE cont.mode = "host"
            <7>1. gw = hw BY <1>3, <6>1, <6>3 DEF UsesGateway
            <7>2. QED BY <6>3, <7>1 DEF monitorTarget
          <6>4. CASE cont.mode = "bridge"
            <7>1. sn = tn BY <1>3, <6>1, <6>4 DEF UsesSelfNets
            <7>2. sharesNetworkWith(sn) \/ gw = hw BY <1>3, <6>1, <6>4 DEF UsesGateway
            <7>3. k \in {0} \cup Entries OBVIOUS
            <7>4. getContainerIP(sn, ps[k]) = getContainerIP(sn, qs[k]) BY <7>3, AnyPick
            <7>5. QED BY <6>4, <7>1, <7>2, <7>4 DEF monitorTarget
          <6>5. QED BY <6>2, <6>3, <6>4, Fixed
        <5>2. Dest(k, sn, ps) = Dest(k, tn, qs) BY <2>1
        <5>3. QED BY <4>1, <5>1, <5>2 DEF ParsedService
      <4>4. {1} \cup parseIndexedPorts(sn, ps) \subseteq Entries
        BY <4>1 DEF parseIndexedPorts
      <4>5. QED BY <3>1, <4>2, <4>3, <4>4 DEF parseContainer
    <3>2. CASE ~cont.service BY <2>1, <3>2 DEF parseContainer
    <3>3. QED BY <3>1, <3>2
  <2>3. QED BY <1>3, <2>1, <2>2 DEF CloudView
<1>4. QED BY <1>1, <1>2, <1>3

----------------------------------------------------------------------------
(* The addresses of checks. *)

\* A scan that asked the agent for the truth about itself, or got it from the cache,
\* sends the checks of a running container to addresses that lead there.
LEMMA CheckLeads ==
  ASSUME TypeOK, up, isManaged, ~cont.ignore,
         NEW sn, NEW gw, NEW ps \in Picks, Cached(sn, gw, ps),
         NEW s \in CloudView(TRUE, sn, gw, ps), s.entry # 0, Reachable(s),
         cont.network = NoLabel,
         selfNetOnce => selfNets = selfNetIDs(agent.kind # "bare"),
         gatewayOnce => gateway = resolveHostGateway(agent.kind # "bare"),
         agent.kind = "bridged" => Attached \cap agent.nets \subseteq WithIP
  PROVE  Reaches(checkHostPort(s))
<1>1. Parses(sn, ps) /\ s \in parseContainer(sn, gw, ps) BY DEF CloudView
<1>2. cont.service
  <2>1. CASE ~cont.service
    <3>1. s = FunnelOnly(FunnelDest(sn, ps)) BY <1>1, <2>1 DEF parseContainer
    <3>2. s.entry = 0 BY <3>1 DEF FunnelOnly
    <3>3. QED BY <3>2
  <2>2. QED BY <2>1
<1>3. PICK k \in {1} \cup parseIndexedPorts(sn, ps) : s = ParsedService(k, sn, gw, ps)
  BY <1>1, <1>2 DEF parseContainer
<1>4. k \in Entries /\ 1 \in {0} \cup Entries /\ k \in {0} \cup Entries
  BY Fixed DEF parseIndexedPorts
<1> DEFINE port == cont.entries[k].target
           n == getContainerIP(sn, ps[k])
<1>5. /\ s.entry = k /\ s.monitor = monitorTarget(port, sn, gw, ps[k])
      /\ s.dest = IF cont.direct /\ Dest(k, sn, ps).via = "ip"
                  THEN [Dest(k, sn, ps) EXCEPT !.net = Dest(1, sn, ps).net]
                  ELSE Dest(k, sn, ps)
  BY <1>3 DEF ParsedService
<1>6. checkHostPort(s) = IF s.monitor # Nowhere THEN s.monitor ELSE s.dest
  BY DEF checkHostPort
<1>7. PrimaryTried /\ Dest(1, sn, ps) # Nowhere BY <1>1, <1>2 DEF Parses, PrimaryParses
<1>8. UsesGateway(sn, ps) =>
        gw = IF agent.kind # "bridged" THEN "" ELSE IF agent.routed THEN "gateway" ELSE "alias"
  <2>1. UsesGateway(sn, ps) => gw = resolveHostGateway(agent.kind # "bare") BY DEF Cached
  <2>2. resolveHostGateway(agent.kind # "bare") =
          IF agent.kind # "bridged" THEN "" ELSE IF agent.routed THEN "gateway" ELSE "alias"
    <3>1. CASE agent.kind = "bare" BY <3>1, Fixed DEF resolveHostGateway
    <3>2. CASE agent.kind # "bare" BY <3>2 DEF resolveHostGateway
    <3>3. QED BY <3>1, <3>2
  <2>3. QED BY <2>1, <2>2
<1>9. CASE cont.mode = "host"
  <2>1. gw = IF agent.kind = "bridged" THEN "gateway" ELSE ""
    <3>1. agent.kind = "bridged" => agent.routed BY <1>9 DEF Reachable, HostReachable
    <3>2. QED BY <1>7, <1>8, <1>9, <3>1 DEF UsesGateway
  <2>2. CASE agent.kind = "bridged"
    <3>1. s.monitor = Via("gateway", port, FALSE) BY <1>5, <1>9, <2>1, <2>2 DEF monitorTarget
    <3>2. /\ Via("gateway", port, FALSE).via = "gateway"
          /\ Via("gateway", port, FALSE) # Nowhere
      BY ViaHost
    <3>3. checkHostPort(s).via = "gateway" BY <1>6, <3>1, <3>2
    <3>4. QED BY <1>9, <2>2, <3>3 DEF Reaches
  <2>3. CASE agent.kind # "bridged"
    <3>1. s.monitor = Nowhere BY <1>5, <1>9, <2>1, <2>3 DEF monitorTarget
    <3>2. Dest(k, sn, ps) = Via("loopback", port, FALSE) BY <1>9 DEF Dest, resolveDestPort
    <3>3. Dest(k, sn, ps).via = "loopback" BY <3>2, ViaHost
    <3>4. s.dest.via = "loopback" BY <1>5, <3>3
    <3>5. QED BY <1>6, <2>3, <3>1, <3>4 DEF Reaches
  <2>4. QED BY <2>2, <2>3
<1>10. CASE cont.mode = "bridge"
  <2>1. WithIP # {} BY <1>10 DEF Reachable
  <2>2. sn = IF agent.kind = "bridged" THEN agent.nets ELSE {}
    <3>1. sn = selfNetIDs(agent.kind # "bare") BY <1>7, <1>10 DEF UsesSelfNets, Cached
    <3>2. QED BY <3>1 DEF selfNetIDs
  <2>3. n \in WithIP /\ n # 0 /\ (WithIP \cap sn # {} => n \in sn) BY <2>1, UnnamedIP
  <2>4. CASE ~sharesNetworkWith(sn) /\ gw # "" /\ Published(port)
    <3>1. gw = "gateway" /\ agent.kind = "bridged"
      <4>1. /\ agent.kind = "bridged"
            /\ gw = IF agent.routed THEN "gateway" ELSE "alias"
        BY <1>7, <1>8, <1>10, <2>4 DEF UsesGateway
      <4>2. agent.routed
        <5>1. WithIP \cap agent.nets = {}
          BY <2>2, <2>4, <4>1, ShownNetworks DEF sharesNetworkWith
        <5>2. QED BY <1>5, <1>10, <4>1, <5>1 DEF Reachable, HostReachable
      <4>3. QED BY <4>1, <4>2
    <3>2. s.monitor = Via(gw, port, TRUE) BY <1>5, <1>10, <2>4 DEF monitorTarget
    <3>3. checkHostPort(s) = Via("gateway", port, TRUE) BY <1>6, <3>1, <3>2, ViaHost
    <3>4. checkHostPort(s).via = "gateway" /\ checkHostPort(s).published BY <3>3, ViaHost
    <3>5. QED BY <3>1, <3>4 DEF Reaches
  <2>5. CASE ~(~sharesNetworkWith(sn) /\ gw # "" /\ Published(port))
    <3>1. s.monitor = IF cont.direct THEN Nowhere ELSE On(n, port)
      BY <1>5, <1>10, <2>5 DEF monitorTarget
    <3>2. ASSUME agent.kind = "bridged" PROVE n \in agent.nets
      <4>1. CASE sharesNetworkWith(sn) BY <2>2, <2>3, <3>2, <4>1 DEF sharesNetworkWith
      <4>2. CASE ~sharesNetworkWith(sn)
        <5>1. gw # "" BY <1>7, <1>8, <1>10, <3>2, <4>2 DEF UsesGateway
        <5>2. ~Published(port) BY <2>5, <4>2, <5>1
        <5>3. WithIP \cap agent.nets # {} BY <1>5, <1>10, <3>2, <5>2 DEF Reachable
        <5>4. QED BY <2>2, <2>3, <3>2, <5>3
      <4>3. QED BY <4>1, <4>2
    <3>3. On(n, port).via = "ip" /\ On(n, port).net = n /\ On(n, port) # Nowhere
      BY <2>3, OnNetwork
    <3>4. CASE ~cont.direct BY <1>6, <3>1, <3>2, <3>3, <3>4 DEF Reaches
    <3>5. CASE cont.direct
      <4>1. ~Ambiguous BY ConstantAssumption DEF Ambiguous
      <4>2. getContainerIP(sn, ps[1]) = n BY <1>4, <4>1, AnyPick
      <4>3. /\ Dest(k, sn, ps) = On(n, port)
            /\ Dest(1, sn, ps) = On(n, cont.entries[1].target)
        BY <1>10, <3>5, <4>2 DEF Dest, resolveDestPort
      <4>4. Dest(1, sn, ps).net = n BY <2>3, <4>3, OnNetwork
      <4>5. s.dest = [On(n, port) EXCEPT !.net = n] BY <1>5, <3>3, <3>5, <4>3, <4>4
      <4>6. s.dest.via = "ip" /\ s.dest.net = n BY <2>3, <4>5 DEF On
      <4>7. QED BY <1>6, <3>1, <3>2, <3>5, <4>6 DEF Reaches
    <3>6. QED BY <3>4, <3>5
  <2>6. QED BY <2>4, <2>5
<1>11. QED BY <1>9, <1>10, Fixed DEF Reachable

----------------------------------------------------------------------------
(* Steps that leave the container as it is. *)

\* What the labels say changes with the labels only.
LEMMA SameLabels ==
  ASSUME cont' = cont
  PROVE  /\ LabelsParse' <=> LabelsParse
         /\ LabelKeys' = LabelKeys /\ Endpoint(1)' = Endpoint(1)
         /\ Unresolved' = Unresolved /\ (Ambiguous' <=> Ambiguous)
<1>1. Entries' = Entries BY DEF Entries
<1>2. ASSUME NEW k PROVE Endpoint(k)' = Endpoint(k) BY DEF Endpoint, ServicePort
<1>3. ASSUME NEW k PROVE IndexValid(k)' <=> IndexValid(k) BY DEF IndexValid
<1>4. ASSUME NEW k PROVE Claimed(k)' <=> Claimed(k) BY <1>2, <1>3 DEF Claimed
<1>5. ASSUME NEW k PROVE Placeable(k)' <=> Placeable(k) BY DEF Placeable
<1>6. Offered' = Offered BY <1>1, <1>3, <1>4, <1>5 DEF Offered
<1>7. LabelKeys' = LabelKeys BY <1>2, <1>6 DEF LabelKeys, FunnelPublic
<1>8. LabelsParse' <=> LabelsParse BY DEF LabelsParse, isManaged, PrimaryTried
<1>9. Unresolved' = Unresolved BY <1>1, <1>2 DEF Unresolved
<1>10. QED BY <1>2, <1>7, <1>8, <1>9 DEF Ambiguous

\* What a scan finds changes with the container and its networks only.
LEMMA SameContainer ==
  ASSUME UNCHANGED <<cont, agent, up, attached>>
  PROVE  /\ Picks' = Picks /\ (isManaged' <=> isManaged) /\ Entries' = Entries
         /\ \A running, sn, gw, ps :
              /\ CloudView(running, sn, gw, ps)' = CloudView(running, sn, gw, ps)
              /\ UsesSelfNets(sn, ps)' <=> UsesSelfNets(sn, ps)
              /\ UsesGateway(sn, ps)' <=> UsesGateway(sn, ps)
<1>1. ASSUME NEW n PROVE Shown(n)' = Shown(n) BY DEF Shown
<1>2. Attached' = Attached /\ WithIP' = WithIP /\ Entries' = Entries
  BY <1>1 DEF Attached, WithIP, Entries
<1>3. Picks' = Picks BY <1>2 DEF Picks
<1>4. ASSUME NEW sn, NEW p PROVE getContainerIP(sn, p)' = getContainerIP(sn, p)
  BY <1>2 DEF getContainerIP
<1>5. ASSUME NEW port PROVE Published(port)' <=> Published(port) BY DEF Published
<1>6. ASSUME NEW port, NEW sn, NEW p
      PROVE  resolveDestPort(port, sn, p)' = resolveDestPort(port, sn, p)
  BY <1>4, <1>5 DEF resolveDestPort
<1>7. ASSUME NEW port, NEW sn, NEW gw, NEW p
      PROVE  monitorTarget(port, sn, gw, p)' = monitorTarget(port, sn, gw, p)
  BY <1>2, <1>4, <1>5 DEF monitorTarget, sharesNetworkWith
<1>8. ASSUME NEW k, NEW sn, NEW ps PROVE Dest(k, sn, ps)' = Dest(k, sn, ps) BY <1>6 DEF Dest
<1>9. ASSUME NEW sn, NEW ps PROVE FunnelDest(sn, ps)' = FunnelDest(sn, ps) BY <1>6 DEF FunnelDest
<1>10. PrimaryTried' <=> PrimaryTried BY DEF PrimaryTried
<1>11. ASSUME NEW sn, NEW ps PROVE Parses(sn, ps)' <=> Parses(sn, ps)
  BY <1>8, <1>9, <1>10 DEF Parses, PrimaryParses
<1>12. ASSUME NEW sn, NEW ps PROVE parseIndexedPorts(sn, ps)' = parseIndexedPorts(sn, ps)
  <2>1. ASSUME NEW k PROVE Endpoint(k)' = Endpoint(k) BY DEF Endpoint, ServicePort
  <2>2. ASSUME NEW k PROVE IndexValid(k)' <=> IndexValid(k) BY DEF IndexValid
  <2>3. ASSUME NEW k PROVE Claimed(k)' <=> Claimed(k) BY <2>1, <2>2 DEF Claimed
  <2>4. QED BY <1>2, <1>8, <2>2, <2>3 DEF parseIndexedPorts
<1>13. ASSUME NEW k, NEW sn, NEW gw, NEW ps
       PROVE  ParsedService(k, sn, gw, ps)' = ParsedService(k, sn, gw, ps)
  BY <1>7, <1>8 DEF ParsedService, ServicePort, FunnelPublic
<1>14. ASSUME NEW d PROVE FunnelOnly(d)' = FunnelOnly(d) BY DEF FunnelOnly, FunnelPublic
<1>15. ASSUME NEW sn, NEW gw, NEW ps PROVE parseContainer(sn, gw, ps)' = parseContainer(sn, gw, ps)
  BY <1>9, <1>12, <1>13, <1>14 DEF parseContainer
<1>16. stoppedCloudServices' = stoppedCloudServices
  <2>1. Named' = Named /\ (FunnelNamed' <=> FunnelNamed) BY <1>2 DEF Named, FunnelNamed
  <2>2. FunnelOnly(Nowhere)' = FunnelOnly(Nowhere) BY <1>14
  <2>3. ASSUME NEW k PROVE cloudServiceFromLabels(k)' = cloudServiceFromLabels(k)
    BY <2>1 DEF cloudServiceFromLabels, LabelPort, FunnelPublic
  <2>4. QED BY <2>1, <2>2, <2>3 DEF stoppedCloudServices
<1>17. isManaged' <=> isManaged BY DEF isManaged
<1>18. ASSUME NEW running, NEW sn, NEW gw, NEW ps
       PROVE  CloudView(running, sn, gw, ps)' = CloudView(running, sn, gw, ps)
  BY <1>11, <1>15, <1>16, <1>17 DEF CloudView
<1>19. ASSUME NEW sn, NEW ps
       PROVE  /\ UsesSelfNets(sn, ps)' <=> UsesSelfNets(sn, ps)
              /\ UsesGateway(sn, ps)' <=> UsesGateway(sn, ps)
  BY <1>2, <1>8, <1>10 DEF UsesSelfNets, UsesGateway, sharesNetworkWith
<1>20. QED BY <1>2, <1>3, <1>17, <1>18, <1>19

\* Labels that are kept keep what was seen, and a snapshot that is kept its keys.
LEMMA SeenKept ==
  ASSUME SeenFromLabels, UNCHANGED <<cont, seen>>
  PROVE  SeenFromLabels'
BY SameLabels DEF SeenFromLabels

LEMMA CatalogKept ==
  ASSUME StaysInCatalog, UNCHANGED <<cont, seen, snapshot>>, quiet' => quiet
  PROVE  StaysInCatalog'
<1>1. Keys(snapshot.services)' = Keys(snapshot.services) BY DEF Keys, Key
<1>2. QED BY <1>1, SameLabels DEF StaysInCatalog

\* What the agent knows of itself stays as it is between two restarts.
Remembers ==
  /\ selfNetOnce => selfNetOnce' /\ selfNets' = selfNets
  /\ gatewayOnce => gatewayOnce' /\ gateway' = gateway

LEMMA SnapshotKept ==
  ASSUME SnapshotCurrent, UNCHANGED <<cont, agent, up, attached, snapshot, quiet>>, Remembers
  PROVE  SnapshotCurrent'
<1>1. SUFFICES ASSUME quiet, snapshot.inspected PROVE SnapshotCurrent' BY DEF SnapshotCurrent
<1>2. PICK running \in BOOLEAN, sn \in {{}, agent.nets}, gw \in Gateways, ps \in Picks :
        /\ snapshot.saw = running
        /\ snapshot.services = CloudView(running, sn, gw, ps)
        /\ isManaged /\ ~cont.ignore => Cached(sn, gw, ps)
  BY <1>1 DEF SnapshotCurrent
<1>3. sn \in {{}, agent.nets}' /\ ps \in Picks' BY <1>2, SameContainer
<1>4. snapshot'.services = CloudView(running, sn, gw, ps)' BY <1>2, SameContainer
<1>5. (isManaged /\ ~cont.ignore)' => isManaged /\ ~cont.ignore BY SameContainer
<1>6. UsesSelfNets(sn, ps)' <=> UsesSelfNets(sn, ps) BY SameContainer
<1>7. UsesGateway(sn, ps)' <=> UsesGateway(sn, ps) BY SameContainer
<1>8. (isManaged /\ ~cont.ignore => Cached(sn, gw, ps))'
  BY <1>2, <1>5, <1>6, <1>7 DEF Cached, Remembers
<1>9. snapshot'.saw = running BY <1>2
<1>10. QED BY <1>2, <1>3, <1>4, <1>8, <1>9 DEF SnapshotCurrent

\* A change makes the snapshot one of the past.
LEMMA SnapshotStale ==
  ASSUME ~quiet'
  PROVE  SnapshotCurrent'
BY DEF SnapshotCurrent

\* What a parse learns it remembers, and what it did not learn it did not use.
LEMMA Learnt ==
  ASSUME TypeOK, NEW sn \in {{}, agent.nets}, NEW gw \in Gateways, NEW ps, Knows(sn, gw, ps)
  PROVE  /\ Remembers
         /\ UsesSelfNets(sn, ps) => selfNetOnce' /\ selfNets' = sn
         /\ UsesGateway(sn, ps) => gatewayOnce' /\ gateway' = gw
         /\ selfNetOnce => sn = selfNets
         /\ gatewayOnce => gw = gateway
         /\ selfNets' \in {{}, agent.nets} /\ gateway' \in Gateways
<1>1. selfNetOnce => sn = selfNets BY DEF Knows
<1>2. gatewayOnce => gw = gateway BY DEF Knows
<1>3. /\ UsesSelfNets(sn, ps) => selfNetOnce' /\ selfNets' = sn
      /\ ~UsesSelfNets(sn, ps) => selfNetOnce' = selfNetOnce /\ selfNets' = selfNets
  BY DEF Knows
<1>4. /\ UsesGateway(sn, ps) => gatewayOnce' /\ gateway' = gw
      /\ ~UsesGateway(sn, ps) => gatewayOnce' = gatewayOnce /\ gateway' = gateway
  BY DEF Knows
<1>5. selfNets \in {{}, agent.nets} /\ gateway \in Gateways BY DEF TypeOK, Gateways
<1>6. QED BY <1>1, <1>2, <1>3, <1>4, <1>5 DEF Remembers

----------------------------------------------------------------------------
(* Types. *)

\* The services a parse or the labels of a stopped container give.
ServiceOK(s) ==
  /\ s.entry \in Entries \cup {0} /\ s.monitor.via \in {"nowhere", "ip", "gateway", "alias"}
  /\ s.dest.via \in {"nowhere", "ip", "loopback"}

LEMMA ParsedType ==
  ASSUME TypeOK, NEW sn, NEW gw \in Gateways, NEW ps
  PROVE  \A s \in parseContainer(sn, gw, ps) : ServiceOK(s)
<1>1. ASSUME NEW k \in Entries PROVE ServiceOK(ParsedService(k, sn, gw, ps))
  <2> DEFINE d == Dest(k, sn, ps)
             s == ParsedService(k, sn, gw, ps)
  <2>1. d.via \in {"nowhere", "ip", "loopback"} BY DestType DEF Dest
  <2>2. /\ s.entry = k /\ s.monitor = monitorTarget(cont.entries[k].target, sn, gw, ps[k])
        /\ s.dest = IF cont.direct /\ d.via = "ip" THEN [d EXCEPT !.net = Dest(1, sn, ps).net]
                    ELSE d
    BY DEF ParsedService
  <2>3. s.monitor.via \in {"nowhere", "ip", "gateway", "alias"} BY <2>2, MonitorType
  <2>4. s.dest.via \in {"nowhere", "ip", "loopback"}
    <3>1. CASE cont.direct /\ d.via = "ip"
      <4>1. cont.mode # "host"
        <5>1. CASE cont.mode = "host"
          <6>1. d = Via("loopback", cont.entries[k].target, FALSE)
            BY <5>1 DEF Dest, resolveDestPort
          <6>2. d.via = "loopback" BY <6>1, ViaHost
          <6>3. QED BY <3>1, <6>2
        <5>2. QED BY <5>1
      <4>2. cont.mode # "none" BY <3>1, NoVia DEF Dest, resolveDestPort
      <4>3. d = On(getContainerIP(sn, ps[k]), cont.entries[k].target)
        BY <3>1, <4>1, <4>2 DEF Dest, resolveDestPort
      <4>4. d = [via |-> "ip", net |-> getContainerIP(sn, ps[k]),
                 port |-> cont.entries[k].target, published |-> FALSE]
        BY <3>1, <4>3, NoVia DEF On
      <4>5. [d EXCEPT !.net = Dest(1, sn, ps).net].via = "ip" BY <4>4
      <4>6. QED BY <2>2, <3>1, <4>5
    <3>2. CASE ~(cont.direct /\ d.via = "ip") BY <2>1, <2>2, <3>2
    <3>3. QED BY <3>1, <3>2
  <2>5. QED BY <2>2, <2>3, <2>4 DEF ServiceOK
<1>2. ServiceOK(FunnelOnly(FunnelDest(sn, ps)))
  <2>1. FunnelDest(sn, ps).via \in {"nowhere", "ip", "loopback"} BY DestType DEF FunnelDest
  <2>2. QED BY <2>1, NoVia DEF FunnelOnly, ServiceOK
<1>3. {1} \cup parseIndexedPorts(sn, ps) \subseteq Entries BY Fixed DEF parseIndexedPorts
<1>4. QED BY <1>1, <1>2, <1>3 DEF parseContainer

LEMMA StoppedType == ASSUME TypeOK PROVE \A s \in stoppedCloudServices : ServiceOK(s)
<1>1. ASSUME NEW k \in Named PROVE ServiceOK(cloudServiceFromLabels(k))
  BY NoVia DEF cloudServiceFromLabels, ServiceOK, Named
<1>2. ServiceOK(FunnelOnly(Nowhere)) BY NoVia DEF FunnelOnly, ServiceOK
<1>3. QED BY <1>1, <1>2 DEF stoppedCloudServices

----------------------------------------------------------------------------
(* A scan. *)

LEMMA PickSome == Picks # {}
<1> DEFINE found == IF cont.network = SuffixLabel THEN Suffixed \cap Attached ELSE {}
           some  == IF found = {} THEN {Bridge} ELSE found
<1>1. PICK n : n \in some OBVIOUS
<1>2. [k \in {0} \cup Entries |-> n] \in [{0} \cup Entries -> some] BY <1>1
<1>3. Picks = [{0} \cup Entries -> some] BY DEF Picks
<1>4. QED BY <1>2, <1>3

\* A scan tells the cloud what it finds, and what was reported of the running container.
Finds(sn, gw, ps) ==
  /\ isManaged /\ ~cont.ignore => Knows(sn, gw, ps)
  /\ ~(isManaged /\ ~cont.ignore) => UNCHANGED cacheVars
  /\ snapshot'.services = CloudView(saw["cloud"], sn, gw, ps)
  /\ isManaged /\ ~cont.ignore /\ ~snapshot'.skipped => Parses(sn, ps) \/ ~saw["cloud"]

\* What the two kinds of scan have in common.
Tells ==
  /\ latest' = snapshot'.services /\ snapshot'.saw = saw["cloud"]
  /\ seen' = IF up /\ saw["cloud"] THEN seen \cup Keys(snapshot'.services) ELSE seen
  /\ quiet' /\ pc' = [pc EXCEPT !["cloud"] = "idle"] /\ UNCHANGED <<envVars, saw>>

LEMMA SnapshotTells ==
  ASSUME NEW services, NEW skipped, NEW inspected, Snapshot(services, skipped, inspected)
  PROVE  /\ Tells /\ snapshot'.services = services
         /\ snapshot'.skipped = skipped /\ snapshot'.inspected = inspected
BY DEF Snapshot, Tells

LEMMA ScanFinds ==
  ASSUME TypeOK, ScanCloud
  PROVE  /\ \E sn \in {{}, agent.nets}, gw \in Gateways, ps \in Picks : Finds(sn, gw, ps)
         /\ Tells /\ snapshot'.inspected
<1>1. CASE isManaged /\ ~cont.ignore
  <2>1. PICK sn \in {{}, agent.nets}, gw \in Gateways, ps \in Picks :
          /\ Knows(sn, gw, ps)
          /\ IF Parses(sn, ps) THEN Snapshot(parseContainer(sn, gw, ps), FALSE, TRUE)
             ELSE Unparsed(TRUE)
    BY <1>1 DEF ScanCloud, Gateways
  <2>2. CASE Parses(sn, ps)
    <3>1. Snapshot(parseContainer(sn, gw, ps), FALSE, TRUE) BY <2>1, <2>2
    <3>2. snapshot'.services = CloudView(saw["cloud"], sn, gw, ps)
      BY <1>1, <2>2, <3>1, SnapshotTells DEF CloudView
    <3>3. Finds(sn, gw, ps) BY <1>1, <2>1, <2>2, <3>2 DEF Finds
    <3>4. QED BY <3>1, <3>3, SnapshotTells
  <2>3. CASE ~Parses(sn, ps) /\ saw["cloud"]
    <3>1. Snapshot({}, TRUE, TRUE) BY <2>1, <2>3 DEF Unparsed
    <3>2. snapshot'.services = CloudView(saw["cloud"], sn, gw, ps)
      BY <1>1, <2>3, <3>1, SnapshotTells DEF CloudView
    <3>3. snapshot'.skipped BY <3>1, SnapshotTells
    <3>4. Finds(sn, gw, ps) BY <1>1, <2>1, <3>2, <3>3 DEF Finds
    <3>5. QED BY <3>1, <3>4, SnapshotTells
  <2>4. CASE ~Parses(sn, ps) /\ ~saw["cloud"]
    <3>1. Snapshot(stoppedCloudServices, FALSE, TRUE) BY <2>1, <2>4 DEF Unparsed
    <3>2. snapshot'.services = CloudView(saw["cloud"], sn, gw, ps)
      BY <1>1, <2>4, <3>1, SnapshotTells DEF CloudView
    <3>3. Finds(sn, gw, ps) BY <1>1, <2>1, <2>4, <3>2 DEF Finds
    <3>4. QED BY <3>1, <3>3, SnapshotTells
  <2>5. QED BY <2>2, <2>3, <2>4
<1>2. CASE ~(isManaged /\ ~cont.ignore)
  <2>1. Snapshot({}, FALSE, TRUE) /\ UNCHANGED cacheVars BY <1>2 DEF ScanCloud
  <2>2. PICK ps \in Picks : TRUE BY PickSome
  <2>3. snapshot'.services = CloudView(saw["cloud"], {}, "", ps)
    BY <1>2, <2>1, SnapshotTells DEF CloudView
  <2>4. Finds({}, "", ps) BY <1>2, <2>1, <2>3 DEF Finds
  <2>5. {} \in {{}, agent.nets} /\ "" \in Gateways BY DEF Gateways
  <2>6. QED BY <2>1, <2>2, <2>4, <2>5, SnapshotTells
<1>3. QED BY <1>1, <1>2

\* A scan that cannot inspect the container says nothing of it while it runs, and what its
\* labels say when it is stopped.
LEMMA SkipFinds ==
  ASSUME TypeOK, ScanCloudSkips
  PROVE  /\ Tells /\ UNCHANGED cacheVars /\ ~snapshot'.inspected
         /\ saw["cloud"] => snapshot'.services = {} /\ snapshot'.skipped
         /\ ~saw["cloud"] => snapshot'.services = stoppedCloudServices
<1>1. Unparsed(FALSE) /\ UNCHANGED cacheVars BY DEF ScanCloudSkips
<1>2. CASE saw["cloud"]
  <2>1. Snapshot({}, TRUE, FALSE) BY <1>1, <1>2 DEF Unparsed
  <2>2. QED BY <1>1, <1>2, <2>1, SnapshotTells
<1>3. CASE ~saw["cloud"]
  <2>1. Snapshot(stoppedCloudServices, FALSE, FALSE) BY <1>1, <1>3 DEF Unparsed
  <2>2. QED BY <1>1, <1>3, <2>1, SnapshotTells
<1>4. QED BY <1>2, <1>3

LEMMA SkipSeen ==
  ASSUME TypeOK, SeenFromLabels, ScanCloudSkips
  PROVE  SeenFromLabels'
<1>1. cont' = cont BY SkipFinds DEF Tells, envVars
<1>2. seen' = seen
  <2>1. CASE saw["cloud"]
    <3>1. Keys(snapshot'.services) = {} BY <2>1, SkipFinds DEF Keys
    <3>2. QED BY <3>1, SkipFinds DEF Tells
  <2>2. CASE ~saw["cloud"] BY <2>2, SkipFinds DEF Tells
  <2>3. QED BY <2>1, <2>2
<1>3. QED BY <1>1, <1>2, SeenKept

LEMMA SkipCatalog ==
  ASSUME TypeOK, SeenFromLabels, ScanCloudSkips
  PROVE  StaysInCatalog'
<1>1. cont' = cont BY SkipFinds DEF Tells, envVars
<1>2. Unresolved' = Unresolved /\ (Ambiguous' <=> Ambiguous) BY <1>1, SameLabels
<1>3. Keys(snapshot.services)' = Keys(snapshot'.services) BY DEF Keys, Key
<1>4. SUFFICES ASSUME ~snapshot'.skipped, ~Ambiguous
               PROVE  seen' \ Unresolved \subseteq Keys(snapshot'.services)
  BY <1>2, <1>3 DEF StaysInCatalog
<1>5. ~saw["cloud"] BY <1>4, SkipFinds
<1>6. seen' = seen /\ snapshot'.services = stoppedCloudServices BY <1>5, SkipFinds DEF Tells
<1>7. SUFFICES ASSUME seen # {} PROVE seen \ Unresolved \subseteq Keys(stoppedCloudServices)
  BY <1>6
<1>8. LabelsParse /\ seen \subseteq LabelKeys BY <1>7 DEF SeenFromLabels
<1>9. QED BY <1>8, StoppedKeeps

\* A scan reports what the labels say.
LEMMA ScanSeen ==
  ASSUME TypeOK, SeenFromLabels, ScanCloud
  PROVE  SeenFromLabels'
<1>1. PICK sn \in {{}, agent.nets}, gw \in Gateways, ps \in Picks : Finds(sn, gw, ps)
  BY ScanFinds
<1>2. cont' = cont BY ScanFinds DEF Tells, envVars
<1>3. /\ LabelsParse' <=> LabelsParse
      /\ LabelKeys' = LabelKeys /\ Endpoint(1)' = Endpoint(1)
  BY <1>2, SameLabels
<1>4. SUFFICES (seen' # {} => /\ LabelsParse /\ seen' \subseteq LabelKeys
                              /\ cont.service => Endpoint(1) \in seen')
  BY <1>2, <1>3 DEF SeenFromLabels
<1>5. CASE seen' = seen BY <1>5 DEF SeenFromLabels
<1>6. CASE saw["cloud"] /\ seen' = seen \cup Keys(snapshot'.services)
  <2>1. CASE isManaged /\ ~cont.ignore /\ Parses(sn, ps)
    <3>1. snapshot'.services = parseContainer(sn, gw, ps) BY <1>1, <2>1 DEF Finds, CloudView
    <3>2. /\ LabelsParse /\ Keys(snapshot'.services) \subseteq LabelKeys
          /\ cont.service => Endpoint(1) \in Keys(snapshot'.services)
      BY <2>1, <3>1, ParsedKeys
    <3>3. QED BY <1>6, <3>2 DEF SeenFromLabels
  <2>2. CASE ~(isManaged /\ ~cont.ignore /\ Parses(sn, ps))
    <3>1. snapshot'.services = {} BY <1>1, <1>6, <2>2 DEF Finds, CloudView
    <3>2. Keys(snapshot'.services) = {} BY <3>1 DEF Keys
    <3>3. QED BY <1>6, <3>2 DEF SeenFromLabels
  <2>3. QED BY <2>1, <2>2
<1>7. QED BY <1>5, <1>6, ScanFinds DEF Tells

\* A scan that skips no running container reports what was seen before.
LEMMA ScanCatalog ==
  ASSUME TypeOK, SeenFromLabels, ScanCloud
  PROVE  StaysInCatalog'
<1>1. PICK sn \in {{}, agent.nets}, gw \in Gateways, ps \in Picks : Finds(sn, gw, ps)
  BY ScanFinds
<1>2. cont' = cont BY ScanFinds DEF Tells, envVars
<1>3. Unresolved' = Unresolved /\ (Ambiguous' <=> Ambiguous) BY <1>2, SameLabels
<1>4. Keys(snapshot.services)' = Keys(snapshot'.services) BY DEF Keys, Key
<1>5. SUFFICES ASSUME ~snapshot'.skipped, ~Ambiguous
               PROVE  seen' \ Unresolved \subseteq Keys(snapshot'.services)
  BY <1>3, <1>4 DEF StaysInCatalog
<1>6. seen' = seen \/ seen' = seen \cup Keys(snapshot'.services) BY ScanFinds DEF Tells
<1>7. SUFFICES seen \ Unresolved \subseteq Keys(snapshot'.services) BY <1>6
<1>8. SUFFICES ASSUME seen # {} PROVE seen \ Unresolved \subseteq Keys(snapshot'.services)
  OBVIOUS
<1>9. LabelsParse /\ seen \subseteq LabelKeys BY <1>8 DEF SeenFromLabels
<1>10. isManaged /\ ~cont.ignore BY <1>9 DEF LabelsParse
<1>11. CASE Parses(sn, ps)
  <2>1. snapshot'.services = parseContainer(sn, gw, ps)
    BY <1>1, <1>10, <1>11 DEF Finds, CloudView
  <2>2. LabelKeys \ Unresolved \subseteq Keys(parseContainer(sn, gw, ps))
    BY <1>5, <1>9, <1>11, ParseKeeps
  <2>3. QED BY <1>9, <2>1, <2>2
<1>12. CASE ~Parses(sn, ps)
  <2>1. ~saw["cloud"] BY <1>1, <1>5, <1>10, <1>12 DEF Finds
  <2>2. snapshot'.services = stoppedCloudServices
    BY <1>1, <1>10, <1>12, <2>1 DEF Finds, CloudView
  <2>3. QED BY <1>9, <2>2, StoppedKeeps
<1>13. QED BY <1>11, <1>12

\* Another scan would find the same.
LEMMA ScanCurrent ==
  ASSUME TypeOK, ScanCloud
  PROVE  SnapshotCurrent'
<1>1. PICK sn \in {{}, agent.nets}, gw \in Gateways, ps \in Picks : Finds(sn, gw, ps)
  BY ScanFinds
<1>2. UNCHANGED <<cont, agent, up, attached>> /\ snapshot'.saw = saw["cloud"]
  BY ScanFinds DEF Tells, envVars
<1>3. PICK running : running = saw["cloud"] OBVIOUS
<1>4. running \in BOOLEAN BY <1>3 DEF TypeOK, Scans
<1>5. snapshot'.services = CloudView(running, sn, gw, ps)'
  BY <1>1, <1>2, <1>3, SameContainer DEF Finds
<1>6. sn \in {{}, agent.nets}' /\ ps \in Picks' BY <1>2, SameContainer
<1>7. UsesSelfNets(sn, ps)' <=> UsesSelfNets(sn, ps) BY <1>2, SameContainer
<1>8. UsesGateway(sn, ps)' <=> UsesGateway(sn, ps) BY <1>2, SameContainer
<1>9. (isManaged /\ ~cont.ignore)' => Knows(sn, gw, ps) BY <1>1, <1>2, SameContainer DEF Finds
<1>10. Knows(sn, gw, ps) => Cached(sn, gw, ps)' BY <1>7, <1>8, Learnt DEF Cached
<1>11. (isManaged /\ ~cont.ignore => Cached(sn, gw, ps))' BY <1>9, <1>10
<1>12. snapshot'.saw = running BY <1>2, <1>3
<1>13. QED BY <1>4, <1>5, <1>6, <1>11, <1>12 DEF SnapshotCurrent

\* A scan leaves the types as they are.
LEMMA ScanType ==
  ASSUME TypeOK, ScanCloud
  PROVE  TypeOK'
<1>1. PICK sn \in {{}, agent.nets}, gw \in Gateways, ps \in Picks : Finds(sn, gw, ps)
  BY ScanFinds
<1>2. UNCHANGED <<cont, agent, up, attached, changes, saw>> /\ latest' = snapshot'.services
  BY ScanFinds DEF Tells, envVars
<1>3. Entries' = Entries BY <1>2 DEF Entries
<1>4. \A s \in CloudView(saw["cloud"], sn, gw, ps) : ServiceOK(s)
  BY ParsedType, StoppedType DEF CloudView
<1>5. \A s \in latest' \cup snapshot'.services :
        /\ s.entry \in Entries' \cup {0}
        /\ s.monitor.via \in {"nowhere", "ip", "gateway", "alias"}
        /\ s.dest.via \in {"nowhere", "ip", "loopback"}
  BY <1>1, <1>2, <1>3, <1>4 DEF Finds, ServiceOK
<1>6. /\ selfNetOnce' = selfNetOnce \/ selfNetOnce' = TRUE
      /\ gatewayOnce' = gatewayOnce \/ gatewayOnce' = TRUE
      /\ selfNets' \in {{}, agent.nets} /\ gateway' \in Gateways
  <2>1. CASE isManaged /\ ~cont.ignore
    <3>1. Knows(sn, gw, ps) BY <1>1, <2>1 DEF Finds
    <3>2. selfNetOnce' = selfNetOnce \/ selfNetOnce' = TRUE BY <3>1 DEF Knows
    <3>3. gatewayOnce' = gatewayOnce \/ gatewayOnce' = TRUE BY <3>1 DEF Knows
    <3>4. QED BY <3>1, <3>2, <3>3, Learnt
  <2>2. CASE ~(isManaged /\ ~cont.ignore)
    <3>1. UNCHANGED <<selfNetOnce, selfNets, gatewayOnce, gateway>>
      BY <1>1, <2>2 DEF Finds, cacheVars
    <3>2. QED BY <3>1 DEF TypeOK, Gateways
  <2>3. QED BY <2>1, <2>2
<1>7. selfNetOnce' \in BOOLEAN BY <1>6, Zenon DEF TypeOK
<1>8. gatewayOnce' \in BOOLEAN BY <1>6, Zenon DEF TypeOK
<1>9. selfNets' \in {{}, agent'.nets} BY <1>2, <1>6
<1>10. gateway' \in {"", "gateway", "alias"} BY <1>6 DEF Gateways
<1>11. pc' \in [Scans -> {"idle", "listed"}] BY ScanFinds DEF Tells, TypeOK, Scans
<1>12. quiet' \in BOOLEAN BY ScanFinds DEF Tells
<1>13. /\ \E s \in Situations : cont' = s[1] /\ agent' = s[3]
       /\ attached' \in [Networks -> {"no", "noip", "ip"}] /\ changes' \in 0..MaxChanges
  BY <1>2 DEF TypeOK
<1>14. up' \in BOOLEAN BY <1>2, Zenon DEF TypeOK
<1>15. saw' \in [Scans -> BOOLEAN] BY <1>2 DEF TypeOK
<1>16. QED BY <1>5, <1>7, <1>8, <1>9, <1>10, <1>11, <1>12, <1>13, <1>14, <1>15 DEF TypeOK

LEMMA SkipType ==
  ASSUME TypeOK, ScanCloudSkips
  PROVE  TypeOK'
<1>1. /\ UNCHANGED <<cont, agent, up, attached, changes, saw>> /\ latest' = snapshot'.services
      /\ UNCHANGED <<selfNetOnce, selfNets, gatewayOnce, gateway>>
  BY SkipFinds DEF Tells, envVars, cacheVars
<1>2. Entries' = Entries BY <1>1 DEF Entries
<1>3. snapshot'.services \in {{}, stoppedCloudServices} BY SkipFinds
<1>4. \A s \in latest' \cup snapshot'.services :
        /\ s.entry \in Entries' \cup {0}
        /\ s.monitor.via \in {"nowhere", "ip", "gateway", "alias"}
        /\ s.dest.via \in {"nowhere", "ip", "loopback"}
  BY <1>1, <1>2, <1>3, StoppedType DEF ServiceOK
<1>5. selfNetOnce' \in BOOLEAN BY <1>1, Zenon DEF TypeOK
<1>6. gatewayOnce' \in BOOLEAN BY <1>1, Zenon DEF TypeOK
<1>7. pc' \in [Scans -> {"idle", "listed"}] BY SkipFinds DEF Tells, TypeOK, Scans
<1>8. quiet' \in BOOLEAN BY SkipFinds DEF Tells
<1>9. /\ \E s \in Situations : cont' = s[1] /\ agent' = s[3]
      /\ attached' \in [Networks -> {"no", "noip", "ip"}] /\ changes' \in 0..MaxChanges
      /\ selfNets' \in {{}, agent'.nets} /\ gateway' \in {"", "gateway", "alias"}
  BY <1>1 DEF TypeOK
<1>10. up' \in BOOLEAN BY <1>1, Zenon DEF TypeOK
<1>11. saw' \in [Scans -> BOOLEAN] BY <1>1 DEF TypeOK
<1>12. QED BY <1>4, <1>5, <1>6, <1>7, <1>8, <1>9, <1>10, <1>11 DEF TypeOK

LEMMA ReconcileType ==
  ASSUME TypeOK, Reconcile
  PROVE  TypeOK' /\ Remembers
<1>1. /\ UNCHANGED <<cont, agent, up, attached, changes, saw, snapshot, quiet>>
      /\ pc' = [pc EXCEPT !["reconcile"] = "idle"]
  BY DEF Reconcile, envVars
<1>2. Entries' = Entries BY <1>1 DEF Entries
<1>3. /\ \A s \in latest' : ServiceOK(s)
      /\ selfNetOnce' = selfNetOnce \/ selfNetOnce' = TRUE
      /\ gatewayOnce' = gatewayOnce \/ gatewayOnce' = TRUE
      /\ selfNets' \in {{}, agent.nets} /\ gateway' \in Gateways
      /\ Remembers
  <2>1. CASE isManaged
    <3>1. PICK sn \in {{}, agent.nets}, gw \in Gateways, ps \in Picks :
            /\ Knows(sn, gw, ps)
            /\ latest' = IF Parses(sn, ps) /\ ~cont.ignore THEN parseContainer(sn, gw, ps)
                         ELSE {}
      BY <2>1 DEF Reconcile, Gateways
    <3>2. \A s \in latest' : ServiceOK(s) BY <3>1, ParsedType
    <3>3. selfNetOnce' = selfNetOnce \/ selfNetOnce' = TRUE BY <3>1 DEF Knows
    <3>4. gatewayOnce' = gatewayOnce \/ gatewayOnce' = TRUE BY <3>1 DEF Knows
    <3>5. QED BY <3>1, <3>2, <3>3, <3>4, Learnt
  <2>2. CASE ~isManaged
    <3>1. latest' = {} /\ UNCHANGED <<selfNetOnce, selfNets, gatewayOnce, gateway>>
      BY <2>2 DEF Reconcile, cacheVars
    <3>2. selfNetOnce => selfNetOnce' BY <3>1, Zenon
    <3>3. gatewayOnce => gatewayOnce' BY <3>1, Zenon
    <3>4. QED BY <3>1, <3>2, <3>3 DEF TypeOK, Gateways, Remembers
  <2>3. QED BY <2>1, <2>2
<1>4. \A s \in latest' \cup snapshot'.services :
        /\ s.entry \in Entries' \cup {0}
        /\ s.monitor.via \in {"nowhere", "ip", "gateway", "alias"}
        /\ s.dest.via \in {"nowhere", "ip", "loopback"}
  BY <1>1, <1>2, <1>3 DEF ServiceOK, TypeOK
<1>5. selfNetOnce' \in BOOLEAN BY <1>3, Zenon DEF TypeOK
<1>6. gatewayOnce' \in BOOLEAN BY <1>3, Zenon DEF TypeOK
<1>7. /\ \E s \in Situations : cont' = s[1] /\ agent' = s[3]
      /\ attached' \in [Networks -> {"no", "noip", "ip"}] /\ changes' \in 0..MaxChanges
      /\ selfNets' \in {{}, agent'.nets} /\ gateway' \in {"", "gateway", "alias"}
      /\ pc' \in [Scans -> {"idle", "listed"}] /\ saw' \in [Scans -> BOOLEAN]
  BY <1>1, <1>3 DEF TypeOK, Gateways, Scans
<1>8. up' \in BOOLEAN BY <1>1, Zenon DEF TypeOK
<1>9. quiet' \in BOOLEAN BY <1>1, Zenon DEF TypeOK
<1>10. QED BY <1>3, <1>4, <1>5, <1>6, <1>7, <1>8, <1>9 DEF TypeOK

\* The other steps take no service from the labels, and keep or forget the caches.
LEMMA OtherType ==
  ASSUME TypeOK, UNCHANGED <<cont, agent>>, snapshot' = snapshot,
         latest' \in {{}, latest},
         up' \in {up, ~up}, attached' \in [Networks -> {"no", "noip", "ip"}],
         changes' \in 0..MaxChanges,
         UNCHANGED cacheVars \/ /\ selfNetOnce' = FALSE /\ selfNets' = {}
                                /\ gatewayOnce' = FALSE /\ gateway' = "",
         pc' \in [Scans -> {"idle", "listed"}], saw' \in [Scans -> BOOLEAN],
         quiet' \in {quiet, FALSE}
  PROVE  TypeOK'
<1>1. Entries' = Entries BY DEF Entries
<1>2. /\ selfNetOnce' = selfNetOnce \/ selfNetOnce' = FALSE
      /\ gatewayOnce' = gatewayOnce \/ gatewayOnce' = FALSE
  BY DEF cacheVars
<1>3. selfNetOnce' \in BOOLEAN BY <1>2, Zenon DEF TypeOK
<1>4. gatewayOnce' \in BOOLEAN BY <1>2, Zenon DEF TypeOK
<1>5. up' \in BOOLEAN BY Zenon DEF TypeOK
<1>6. quiet' \in BOOLEAN BY Zenon DEF TypeOK
<1>7. \A s \in latest' \cup snapshot'.services :
        /\ s.entry \in Entries' \cup {0}
        /\ s.monitor.via \in {"nowhere", "ip", "gateway", "alias"}
        /\ s.dest.via \in {"nowhere", "ip", "loopback"}
  BY <1>1 DEF TypeOK
<1>8. /\ \E s \in Situations : cont' = s[1] /\ agent' = s[3]
      /\ selfNets' \in {{}, agent'.nets} /\ gateway' \in {"", "gateway", "alias"}
  BY DEF TypeOK, cacheVars
<1>9. QED BY <1>3, <1>4, <1>5, <1>6, <1>7, <1>8 DEF TypeOK

----------------------------------------------------------------------------
(* The invariant. *)

LEMMA InitInv == Init => IInv
<1> SUFFICES ASSUME Init PROVE IInv OBVIOUS
<1>1. PICK s \in Situations :
        /\ cont = s[1] /\ agent = s[3]
        /\ attached = [n \in Networks |-> IF n \in s[2] THEN "ip" ELSE "no"]
  BY DEF Init
<1>2. /\ pc \in [Scans -> {"idle", "listed"}] /\ saw \in [Scans -> BOOLEAN]
      /\ attached \in [Networks -> {"no", "noip", "ip"}] /\ changes \in 0..MaxChanges
      /\ selfNets \in {{}, agent.nets} /\ gateway \in {"", "gateway", "alias"}
  <2>1. pc \in [Scans -> {"idle", "listed"}] BY DEF Init
  <2>2. attached \in [Networks -> {"no", "noip", "ip"}] BY <1>1
  <2>3. changes \in 0..MaxChanges
    <3>1. changes = 0 BY DEF Init
    <3>2. MaxChanges \in Nat BY ConstantAssumption
    <3>3. QED BY <3>1, <3>2
  <2>4. selfNets \in {{}, agent.nets} /\ gateway \in {"", "gateway", "alias"} BY DEF Init
  <2>5. saw \in [Scans -> BOOLEAN] BY Zenon DEF Init
  <2>6. QED BY <2>1, <2>2, <2>3, <2>4, <2>5
<1>3. up \in BOOLEAN /\ selfNetOnce \in BOOLEAN /\ gatewayOnce \in BOOLEAN /\ quiet \in BOOLEAN
  BY Zenon DEF Init
<1>4. latest \cup snapshot.services = {} BY DEF Init
<1>5. TypeOK BY <1>1, <1>2, <1>3, <1>4 DEF TypeOK
<1>6. SeenFromLabels /\ StaysInCatalog /\ SnapshotCurrent /\ SkippedEmpty
  BY DEF Init, SeenFromLabels, StaysInCatalog, SnapshotCurrent, SkippedEmpty
<1>7. QED BY <1>5, <1>6 DEF IInv

\* A change of the container or of DockTail leaves what the cloud was told.
LEMMA ChangedInv ==
  ASSUME IInv, TypeOK', UNCHANGED <<cont, seen, snapshot>>, quiet' = FALSE
  PROVE  IInv'
<1>1. SeenFromLabels' BY SeenKept DEF IInv
<1>2. StaysInCatalog' BY CatalogKept DEF IInv
<1>3. SnapshotCurrent' BY SnapshotStale
<1>4. SkippedEmpty' BY DEF IInv, SkippedEmpty
<1>5. QED BY <1>1, <1>2, <1>3, <1>4 DEF IInv

\* So does a step of the reconciler, or one that only lists.
LEMMA QuietInv ==
  ASSUME IInv, TypeOK', Remembers, UNCHANGED <<cont, agent, up, attached, seen, snapshot, quiet>>
  PROVE  IInv'
<1>1. SeenFromLabels' BY SeenKept DEF IInv
<1>2. StaysInCatalog' BY CatalogKept DEF IInv
<1>3. SnapshotCurrent' BY SnapshotKept DEF IInv
<1>4. SkippedEmpty' BY DEF IInv, SkippedEmpty
<1>5. QED BY <1>1, <1>2, <1>3, <1>4 DEF IInv

LEMMA NextInv == IInv /\ [Next]_vars => IInv'
<1> SUFFICES ASSUME IInv, [Next]_vars PROVE IInv' OBVIOUS
<1>1. TypeOK /\ SeenFromLabels BY DEF IInv
<1>2. UNCHANGED cacheVars => Remembers
  <2>1. SUFFICES ASSUME UNCHANGED <<selfNetOnce, selfNets, gatewayOnce, gateway>>
                 PROVE  Remembers
    BY DEF cacheVars
  <2>2. QED BY <2>1, Zenon DEF Remembers
<1>3. attached \in [Networks -> {"no", "noip", "ip"}] /\ changes \in 0..MaxChanges
      /\ pc \in [Scans -> {"idle", "listed"}] /\ saw \in [Scans -> BOOLEAN]
  BY <1>1 DEF TypeOK
<1>4. ASSUME NEW s \in Scans, List(s) PROVE IInv'
  <2>1. /\ UNCHANGED <<cont, agent, up, attached, changes, latest, snapshot, seen, quiet>>
        /\ UNCHANGED cacheVars
    BY <1>4 DEF List, envVars
  <2>2. pc' \in [Scans -> {"idle", "listed"}] BY <1>3, <1>4 DEF List
  <2>3. saw' = [saw EXCEPT ![s] = up] /\ up \in BOOLEAN BY <1>1, <1>4, Zenon DEF List, TypeOK
  <2>4. saw' \in [Scans -> BOOLEAN] BY <1>3, <2>3, Zenon
  <2>5. TypeOK' BY <1>1, <1>3, <2>1, <2>2, <2>4, OtherType
  <2>6. QED BY <1>2, <2>1, <2>5, QuietInv
<1>5. CASE ListWithout
  <2>1. /\ UNCHANGED <<cont, agent, up, attached, changes, pc, saw, snapshot, seen, quiet>>
        /\ UNCHANGED cacheVars /\ latest' = {}
    BY <1>5 DEF ListWithout, envVars
  <2>2. TypeOK' BY <1>1, <1>3, <2>1, OtherType
  <2>3. QED BY <1>2, <2>1, <2>2, QuietInv
<1>6. CASE Reconcile
  <2>1. UNCHANGED <<cont, agent, up, attached, snapshot, seen, quiet>>
    BY <1>6 DEF Reconcile, envVars
  <2>2. QED BY <1>1, <1>6, <2>1, ReconcileType, QuietInv
<1>7. CASE ScanCloud
  <2>1. SkippedEmpty' BY <1>1, <1>7, ScanFinds DEF SkippedEmpty
  <2>2. QED BY <1>1, <1>7, <2>1, ScanType, ScanSeen, ScanCatalog, ScanCurrent DEF IInv
<1>8. ASSUME Changed PROVE changes' \in 0..MaxChanges /\ quiet' = FALSE
  BY <1>3, <1>8, ConstantAssumption DEF Changed
<1>9. CASE StartStop
  <2>1. /\ UNCHANGED <<cont, agent, attached, pc, saw, latest, snapshot, seen>>
        /\ UNCHANGED cacheVars /\ changes' \in 0..MaxChanges /\ quiet' = FALSE
    BY <1>8, <1>9 DEF StartStop
  <2>2. up' \in {up, ~up} BY <1>9 DEF StartStop
  <2>3. TypeOK' BY <1>1, <1>3, <2>1, <2>2, OtherType
  <2>4. QED BY <2>1, <2>3, ChangedInv
<1>10. CASE Restart
  <2>1. /\ UNCHANGED <<cont, agent, up, attached, snapshot, seen>>
        /\ selfNetOnce' = FALSE /\ selfNets' = {} /\ gatewayOnce' = FALSE /\ gateway' = ""
        /\ changes' \in 0..MaxChanges /\ quiet' = FALSE /\ latest' = {}
    BY <1>8, <1>10 DEF Restart
  <2>2. pc' \in [Scans -> {"idle", "listed"}] /\ saw' \in [Scans -> BOOLEAN]
    BY <1>10 DEF Restart
  <2>3. TypeOK' BY <1>1, <1>3, <2>1, <2>2, OtherType
  <2>4. QED BY <2>1, <2>3, ChangedInv
<1>11. ASSUME NEW n \in Networks, NEW a \in {"no", "noip", "ip"}, Connect(n, a) PROVE IInv'
  <2>1. /\ UNCHANGED <<cont, agent, up, pc, saw, latest, snapshot, seen>>
        /\ UNCHANGED cacheVars /\ changes' \in 0..MaxChanges /\ quiet' = FALSE
    BY <1>8, <1>11 DEF Connect
  <2>2. attached' \in [Networks -> {"no", "noip", "ip"}] BY <1>3, <1>11 DEF Connect
  <2>3. TypeOK' BY <1>1, <1>3, <2>1, <2>2, OtherType
  <2>4. QED BY <2>1, <2>3, ChangedInv
<1>12. CASE UNCHANGED vars
  <2>1. /\ UNCHANGED <<cont, agent, up, attached, changes, pc, saw, latest, snapshot, seen, quiet>>
        /\ UNCHANGED cacheVars
    BY <1>12 DEF vars, cacheVars
  <2>2. TypeOK' BY <1>1, <1>3, <2>1, OtherType
  <2>3. QED BY <1>2, <2>1, <2>2, QuietInv
<1>13. CASE ReconcileSkips
  <2>1. /\ UNCHANGED <<cont, agent, up, attached, changes, saw, snapshot, seen, quiet>>
        /\ UNCHANGED cacheVars /\ latest' = {}
    BY <1>13 DEF ReconcileSkips, envVars
  <2>2. pc' \in [Scans -> {"idle", "listed"}] BY <1>3, <1>13 DEF ReconcileSkips
  <2>3. TypeOK' BY <1>1, <1>3, <2>1, <2>2, OtherType
  <2>4. QED BY <1>2, <2>1, <2>3, QuietInv
<1>14. CASE ScanCloudSkips
  <2>1. /\ ~snapshot'.inspected
        /\ snapshot'.saw = saw["cloud"] /\ (saw["cloud"] => snapshot'.services = {})
    BY <1>1, <1>14, SkipFinds DEF Tells
  <2>2. SnapshotCurrent' BY <2>1 DEF SnapshotCurrent
  <2>3. SkippedEmpty' BY <2>1 DEF SkippedEmpty
  <2>4. QED BY <1>1, <1>14, <2>2, <2>3, SkipType, SkipSeen, SkipCatalog DEF IInv
<1>15. QED BY <1>4, <1>5, <1>6, <1>7, <1>9, <1>10, <1>11, <1>12, <1>13, <1>14 DEF Next

LEMMA Invariant == Spec => []IInv
BY InitInv, NextInv, PTL DEF Spec

----------------------------------------------------------------------------
(* The theorems. *)

\* Every variable of the discovery has its type; services are probed on an address of the
\* container or of the host, never on the loopback.
THEOREM TypeCorrect == Spec => []TypeOK
<1>1. IInv => TypeOK BY DEF IInv
<1>2. QED BY <1>1, Invariant, PTL

\* A service that the cloud was told of while its container ran stays in the catalog while
\* the container exists (GetCloudContainers, cloudServicesFromLabels).
THEOREM CatalogStays == Spec => []StaysInCatalog
<1>1. IInv => StaysInCatalog BY DEF IInv
<1>2. QED BY <1>1, Invariant, PTL

\* An event names a service the cloud was told of, or the container (serviceKeysForEvent).
THEOREM EventsNamed == Spec => []EventsNameAService
<1>1. ASSUME IInv PROVE EventsNameAService
  <2>1. ASSUME cont.service, ~cont.ignore, seen # {}
        PROVE  serviceKeysForEvent \subseteq seen \cup Keys(snapshot.services) \cup Keys(latest)
    <3>1. LabelsParse /\ Endpoint(1) \in seen BY <1>1, <2>1 DEF IInv, SeenFromLabels
    <3>2. serviceKeyFromAttrs \in seen BY <2>1, <3>1, EventKey
    <3>3. CASE latest = {} BY <2>1, <3>2, <3>3 DEF serviceKeysForEvent
    <3>4. CASE latest # {} BY <2>1, <3>4 DEF serviceKeysForEvent
    <3>5. QED BY <3>3, <3>4
  <2>2. cont.ignore => serviceKeysForEvent = {ContainerName} BY DEF serviceKeysForEvent
  <2>3. QED BY <2>1, <2>2 DEF EventsNameAService
<1>2. QED BY <1>1, Invariant, PTL

\* The local check of a running container dials an address that leads to it from where
\* DockTail runs, whenever there is one (monitorTarget, getContainerIP).
THEOREM ChecksLead == Spec => []ChecksReachContainer
<1>1. ASSUME IInv PROVE ChecksReachContainer
  <2>1. SUFFICES ASSUME NEW s \in snapshot.services,
                        quiet, up, snapshot.saw, s.entry # 0, Reachable(s),
                        cont.network = NoLabel,
                        selfNetOnce => selfNets = selfNetIDs(agent.kind # "bare"),
                        gatewayOnce => gateway = resolveHostGateway(agent.kind # "bare"),
                        agent.kind = "bridged" => Attached \cap agent.nets \subseteq WithIP
                 PROVE  Reaches(checkHostPort(s))
    BY DEF ChecksReachContainer
  <2>2. PICK running \in BOOLEAN, sn \in {{}, agent.nets}, gw \in Gateways, ps \in Picks :
          /\ snapshot.saw = running
          /\ snapshot.services = CloudView(running, sn, gw, ps)
          /\ isManaged /\ ~cont.ignore => Cached(sn, gw, ps)
    <3>1. snapshot.inspected BY <1>1, <2>1 DEF IInv, SkippedEmpty
    <3>2. QED BY <1>1, <2>1, <3>1 DEF IInv, SnapshotCurrent
  <2>3. running = TRUE BY <2>1, <2>2
  <2>4. s \in CloudView(TRUE, sn, gw, ps) BY <2>2, <2>3
  <2>5. isManaged /\ ~cont.ignore BY <2>4 DEF CloudView
  <2>6. TypeOK /\ Cached(sn, gw, ps) BY <1>1, <2>2, <2>5 DEF IInv
  <2>7. QED BY <2>1, <2>4, <2>5, <2>6, CheckLeads
<1>2. QED BY <1>1, Invariant, PTL

\* Two scans that both inspect the container and between which nothing changed report the
\* same services at the same addresses (getContainerIP).
THEOREM AddressesStable == Spec => StableAddresses
<1>1. ASSUME IInv, [Next]_vars,
             quiet, quiet', pc["cloud"] = "listed", pc'["cloud"] = "idle",
             snapshot.saw = saw["cloud"], ~Ambiguous, snapshot.inspected, snapshot'.inspected
      PROVE  snapshot'.services = snapshot.services
  <2>1. TypeOK /\ SnapshotCurrent BY <1>1 DEF IInv
  <2>2. pc \in [Scans -> {"idle", "listed"}] BY <2>1 DEF TypeOK
  <2>3. ScanCloud
    <3>1. ASSUME NEW s \in Scans, List(s) PROVE FALSE BY <1>1, <2>2, <3>1 DEF List
    <3>2. ~ListWithout BY <1>1 DEF ListWithout
    <3>3. ~Reconcile /\ ~ReconcileSkips
      BY <1>1, <2>2 DEF Reconcile, ReconcileSkips, Scans
    <3>4. ~StartStop /\ ~Restart BY <1>1 DEF StartStop, Restart, Changed
    <3>5. ASSUME NEW n \in Networks, NEW a \in {"no", "noip", "ip"}, Connect(n, a) PROVE FALSE
      BY <1>1, <3>5 DEF Connect, Changed
    <3>6. ~UNCHANGED vars BY <1>1 DEF vars
    <3>7. ~ScanCloudSkips BY <1>1, <2>1, SkipFinds
    <3>8. QED BY <1>1, <3>1, <3>2, <3>3, <3>4, <3>5, <3>6, <3>7 DEF Next
  <2>4. PICK running \in BOOLEAN, sn \in {{}, agent.nets}, gw \in Gateways, ps \in Picks :
          /\ snapshot.saw = running
          /\ snapshot.services = CloudView(running, sn, gw, ps)
          /\ isManaged /\ ~cont.ignore => Cached(sn, gw, ps)
    BY <1>1, <2>1 DEF SnapshotCurrent
  <2>5. PICK tn \in {{}, agent.nets}, hw \in Gateways, qs \in Picks : Finds(tn, hw, qs)
    BY <2>1, <2>3, ScanFinds
  <2>6. snapshot'.services = CloudView(running, tn, hw, qs) BY <1>1, <2>4, <2>5 DEF Finds
  <2>7. isManaged /\ ~cont.ignore => /\ UsesSelfNets(sn, ps) => sn = tn
                                     /\ UsesGateway(sn, ps) => gw = hw
    <3>1. SUFFICES ASSUME isManaged, ~cont.ignore
                   PROVE  /\ UsesSelfNets(sn, ps) => sn = tn
                          /\ UsesGateway(sn, ps) => gw = hw
      OBVIOUS
    <3>2. Knows(tn, hw, qs) BY <2>5, <3>1 DEF Finds
    <3>3. (selfNetOnce => tn = selfNets) /\ (gatewayOnce => hw = gateway)
      BY <2>1, <3>2, Learnt
    <3>4. QED BY <2>4, <3>1, <3>3 DEF Cached
  <2>8. CloudView(running, sn, gw, ps) = CloudView(running, tn, hw, qs)
    BY <1>1, <2>1, <2>7, SameView
  <2>9. QED BY <2>4, <2>6, <2>8
<1>2. IInv /\ [Next]_vars =>
        [(/\ quiet /\ quiet' /\ pc["cloud"] = "listed" /\ pc'["cloud"] = "idle"
          /\ snapshot.saw = saw["cloud"] /\ ~Ambiguous
          /\ snapshot.inspected /\ snapshot'.inspected)
         => snapshot'.services = snapshot.services]_vars
  BY <1>1
<1>3. QED BY <1>2, Invariant, PTL DEF Spec, StableAddresses

============================================================================
