------------------------- MODULE ServiceDefinitions -------------------------
(***************************************************************************)
(* The Service definitions of a tailnet's control plane, which several     *)
(* DockTail hosts write through the API at once: every reconcile cycle of  *)
(* a host defines the Services it wants (syncServiceDefinitions, a read    *)
(* and a write per Service) before it advertises them, and then deletes    *)
(* the definitions no host is registered for                               *)
(* (deleteUnusedServiceDefinitions, a list, a read per Service, a delete). *)
(*                                                                         *)
(* The control plane is external and modelled as the code's comments       *)
(* describe it: a host is registered for a Service some time after it      *)
(* advertises it, and only if the Service is defined when the host's set   *)
(* of Services changes.                                                    *)
(***************************************************************************)
EXTENDS Naturals, FiniteSets

CONSTANTS
  Hosts, Names,
  Managed,     \* the names with DockTail's prefix (isManagedService)
  Ignored,     \* [Hosts -> SUBSET Names], IGNORE_SERVICE_NAMES
  Declares,    \* [Hosts -> SUBSET Names], bound on what the containers of a host declare
  Tags,        \* [Hosts -> [Names -> tags]], None when nothing is declared
  Comments,    \* [Hosts -> [Names -> description]], None when nothing is declared
  Manual,      \* tags only an administrator sets
  None,
  MaxChanges,  \* bound on what containers and administrators change
  MaxFaults    \* bound on API calls that fail

Attrs(f) == (UNION {{f[h][n] : n \in Names} : h \in Hosts}) \cup {None}

ASSUME ConstantAssumption ==
  /\ Managed \subseteq Names /\ Ignored \in [Hosts -> SUBSET Names]
  /\ Declares \in [Hosts -> SUBSET Names]
  /\ Tags \in [Hosts -> [Names -> Attrs(Tags)]]
  /\ Comments \in [Hosts -> [Names -> Attrs(Comments)]]
  /\ Manual # None /\ Manual \notin Attrs(Tags)
  /\ MaxChanges \in Nat /\ MaxFaults \in Nat

VARIABLES
  changes, faults,
  \* the control plane
  defs,        \* the definitions: [exists, tags, comment] of a name
  registered,  \* the hosts it lists for a name
  news,        \* hosts whose advertised set it has not processed
  \* each host
  wants,       \* the Services of its containers
  clash,       \* those with an endpoint several containers claim
  served,      \* the Services of the Serve configuration
  advertised,  \* what tailscaled advertises
  pc, todo, name,
  desired,     \* the cycle's desired set
  frozen,      \* its conflicted names
  got,         \* what getService returned
  \* observer
  since        \* the hosts the name was registered for when h looked

apiVars  == <<defs, registered, news>>
nodeVars == <<wants, clash, served, advertised>>
hostVars == <<nodeVars, pc, todo, name, desired, frozen, got>>
vars == <<changes, faults, apiVars, hostVars, since>>

NoDef == [exists |-> FALSE, tags |-> None, comment |-> None]

Init ==
  /\ changes = 0 /\ faults = 0
  /\ defs = [n \in Names |-> NoDef] /\ registered = [n \in Names |-> {}] /\ news = {}
  /\ wants \in {w \in [Hosts -> SUBSET Names] : \A h \in Hosts : w[h] \subseteq Declares[h]}
  /\ clash = [h \in Hosts |-> {}]
  /\ served = [h \in Hosts |-> {}] /\ advertised = [h \in Hosts |-> {}]
  /\ pc = [h \in Hosts |-> "idle"] /\ todo = [h \in Hosts |-> {}]
  /\ name = [h \in Hosts |-> None]
  /\ desired = [h \in Hosts |-> {}] /\ frozen = [h \in Hosts |-> {}]
  /\ got = [h \in Hosts |-> NoDef] /\ since = [h \in Hosts |-> {}]

\* Host h goes to `label' with `rest' left to do.
Goes(h, label, rest) ==
  /\ pc' = [pc EXCEPT ![h] = label]
  /\ todo' = [todo EXCEPT ![h] = rest]

\* The cycle ends.
Ends(h) ==
  /\ Goes(h, "idle", {})
  /\ desired' = [desired EXCEPT ![h] = {}] /\ frozen' = [frozen EXCEPT ![h] = {}]

Fails == faults < MaxFaults /\ faults' = faults + 1

----------------------------------------------------------------------------
(* The surroundings. *)

Happens == changes < MaxChanges /\ changes' = changes + 1

\* Containers of h come or go: none claims n now, or some do, or they contradict each
\* other.
WantChanges(h) ==
  /\ Happens
  /\ \E n \in Declares[h] : \E claimed \in SUBSET {n} : \E contested \in SUBSET claimed :
       /\ wants' = [wants EXCEPT ![h] = (@ \ {n}) \cup claimed]
       /\ clash' = [clash EXCEPT ![h] = (@ \ {n}) \cup contested]
  /\ UNCHANGED <<faults, apiVars, served, advertised, pc, todo, name, desired, frozen, got, since>>

\* An administrator edits the tags of a definition.
AdminEdits(n) ==
  /\ Happens
  /\ defs[n].exists
  /\ defs' = [defs EXCEPT ![n] = [exists |-> TRUE, tags |-> Manual, comment |-> @.comment]]
  /\ UNCHANGED <<faults, registered, news, hostVars, since>>

\* The control plane processes a host's set of Services.
Propagate(h) ==
  /\ h \in news
  /\ news' = news \ {h}
  /\ registered' = [n \in Names |->
       IF n \in advertised[h] /\ defs[n].exists THEN registered[n] \cup {h}
       ELSE registered[n] \ {h}]
  /\ UNCHANGED <<changes, faults, defs, hostVars, since>>

----------------------------------------------------------------------------
(* syncServiceDefinitions *)

\* Host h advertises the names in A from now on.
Advertises(h, A) ==
  /\ advertised' = [advertised EXCEPT ![h] = A]
  /\ news' = IF A # advertised[h] THEN news \cup {h} ELSE news

\* What the removal is for: served, and neither desired nor ignored. A conflicted name
\* is desired, at the level of names.
Stale(h) == (served[h] \ wants[h]) \ Ignored[h]

\* The cycle reads the containers.
Starts(h) ==
  /\ Goes(h, "sync", wants[h] \ clash[h])
  /\ desired' = [desired EXCEPT ![h] = wants[h]] /\ frozen' = [frozen EXCEPT ![h] = clash[h]]

\* Mutant: Services no longer wanted stay served and advertised.
BeginKeeps(h) ==
  /\ pc[h] = "idle"
  /\ Starts(h)
  /\ UNCHANGED <<changes, faults, apiVars, nodeVars, name, got, since>>
\* Services no longer wanted are withdrawn before the definitions are synced. The drain
\* and the clear of each can fail, one without the other, and the status that finds them
\* can; the cycle goes on.
Begin(h) ==
  /\ pc[h] = "idle"
  /\ Starts(h)
  /\ \E cleared \in SUBSET Stale(h) : \E withdrawn \in SUBSET Stale(h) :
       /\ IF cleared = Stale(h) /\ withdrawn = Stale(h) THEN UNCHANGED faults ELSE Fails
       /\ served' = [served EXCEPT ![h] = @ \ cleared]
       /\ Advertises(h, advertised[h] \ withdrawn)
  /\ UNCHANGED <<changes, defs, registered, wants, clash, name, got, since>>

\* Mutant: only the tags are compared.
DriftedTags(h, n, d) == Tags[h][n] # None /\ d.tags # Tags[h][n]
\* What the labels declare differs; what they do not declare is left alone.
Drifted(h, n, d) ==
  \/ Tags[h][n] # None /\ d.tags # Tags[h][n]
  \/ Comments[h][n] # None /\ d.comment # Comments[h][n]

\* SyncServiceDefinition: getService, and the comparison with the labels.
SyncGet(h, n) ==
  /\ pc[h] = "sync" /\ n \in todo[h]
  /\ IF defs[n].exists /\ ~Drifted(h, n, defs[n])
     THEN Goes(h, "sync", todo[h] \ {n}) /\ UNCHANGED <<name, got>>
     ELSE /\ Goes(h, "put", todo[h] \ {n})
          /\ name' = [name EXCEPT ![h] = n]
          /\ got' = [got EXCEPT ![h] = defs[n]]
  /\ UNCHANGED <<changes, faults, apiVars, nodeVars, desired, frozen, since>>

SyncGetFails(h, n) ==
  /\ pc[h] = "sync" /\ n \in todo[h] /\ Fails
  /\ Goes(h, "sync", todo[h] \ {n})
  /\ UNCHANGED <<changes, apiVars, nodeVars, name, desired, frozen, got, since>>

Declared(label, else) == IF label # None THEN label ELSE else

\* The payload of putService: what is declared, and otherwise what was there.
Merged(h, n, d) ==
  [exists |-> TRUE, tags |-> Declared(Tags[h][n], d.tags),
   comment |-> Declared(Comments[h][n], d.comment)]

PutEnds(h) ==
  /\ Goes(h, "sync", todo[h])
  /\ name' = [name EXCEPT ![h] = None] /\ got' = [got EXCEPT ![h] = NoDef]

SyncPut(h) ==
  /\ pc[h] = "put"
  /\ defs' = [defs EXCEPT ![name[h]] = Merged(h, name[h], got[h])]
  /\ PutEnds(h)
  /\ UNCHANGED <<changes, faults, registered, news, nodeVars, desired, frozen, since>>

SyncPutFails(h) ==
  /\ pc[h] = "put" /\ Fails
  /\ PutEnds(h)
  /\ UNCHANGED <<changes, apiVars, nodeVars, desired, frozen, since>>

\* The adds, the restored advertisements and the funnels succeed. Of a conflicted name
\* other ports may be added.
Advertise(h) ==
  /\ pc[h] = "sync" /\ todo[h] = {}
  /\ Goes(h, "list", {})
  /\ \E added \in SUBSET desired[h] :
       /\ desired[h] \ frozen[h] \subseteq added
       /\ served' = [served EXCEPT ![h] = @ \cup added]
       /\ Advertises(h, advertised[h] \cup added)
  /\ UNCHANGED <<changes, faults, defs, registered, wants, clash, name, desired, frozen, got,
                 since>>

\* One of them fails: any of the desired set is served then, for a refused add may also
\* have cleared what was, and the cycle returns without the deletion. This may happen in
\* every cycle, no bound is set to it.
AdvertiseFails(h) ==
  /\ pc[h] = "sync" /\ todo[h] = {}
  /\ Ends(h)
  /\ \E left \in SUBSET desired[h] :
       /\ served' = [served EXCEPT ![h] = (@ \ desired[h]) \cup left]
       /\ Advertises(h, advertised[h] \cup left)
  /\ UNCHANGED <<changes, faults, defs, registered, wants, clash, name, got, since>>

----------------------------------------------------------------------------
(* deleteUnusedServiceDefinitions *)

\* Mutant: what this host wants is not protected.
UnusedToo(h, n) == n \in Managed /\ n \notin Ignored[h]
Unused(h, n) == n \in Managed /\ n \notin desired[h] /\ n \notin Ignored[h]

\* listServices
List(h) ==
  /\ pc[h] = "list"
  /\ LET unused == {n \in Names : defs[n].exists /\ Unused(h, n)} IN
     IF unused = {} THEN Ends(h) ELSE Goes(h, "check", unused) /\ UNCHANGED <<desired, frozen>>
  /\ UNCHANGED <<changes, faults, apiVars, nodeVars, name, got, since>>

ListFails(h) ==
  /\ pc[h] = "list" /\ Fails
  /\ Ends(h)
  /\ UNCHANGED <<changes, apiVars, nodeVars, name, got, since>>

\* The next name, or the end of the cycle.
Continues(h, rest) ==
  IF rest = {} THEN Ends(h) ELSE Goes(h, "check", rest) /\ UNCHANGED <<desired, frozen>>

\* Mutant: the hosts are not asked for.
CheckUnseen(h, n) ==
  /\ pc[h] = "check" /\ n \in todo[h]
  /\ Goes(h, "delete", todo[h] \ {n}) /\ UNCHANGED <<desired, frozen>>
  /\ name' = [name EXCEPT ![h] = n] /\ since' = [since EXCEPT ![h] = registered[n]]
  /\ UNCHANGED <<changes, faults, apiVars, nodeVars, got>>
\* listServiceHosts: a Service with hosts is kept, and so is one that is gone (404).
Check(h, n) ==
  /\ pc[h] = "check" /\ n \in todo[h]
  /\ IF defs[n].exists /\ registered[n] = {}
     THEN /\ Goes(h, "delete", todo[h] \ {n}) /\ UNCHANGED <<desired, frozen>>
          /\ name' = [name EXCEPT ![h] = n] /\ since' = [since EXCEPT ![h] = registered[n]]
     ELSE Continues(h, todo[h] \ {n}) /\ UNCHANGED <<name, since>>
  /\ UNCHANGED <<changes, faults, apiVars, nodeVars, got>>

CheckFails(h, n) ==
  /\ pc[h] = "check" /\ n \in todo[h] /\ Fails
  /\ Continues(h, todo[h] \ {n})
  /\ UNCHANGED <<changes, apiVars, nodeVars, name, got, since>>

DeleteEnds(h) ==
  /\ Continues(h, todo[h])
  /\ name' = [name EXCEPT ![h] = None] /\ since' = [since EXCEPT ![h] = {}]

\* deleteService; a definition that is gone already is fine.
Delete(h) ==
  /\ pc[h] = "delete"
  /\ defs' = [defs EXCEPT ![name[h]] = NoDef]
  /\ registered' = [registered EXCEPT ![name[h]] = {}]
  /\ DeleteEnds(h)
  /\ UNCHANGED <<changes, faults, news, nodeVars, got>>

DeleteFails(h) ==
  /\ pc[h] = "delete" /\ Fails
  /\ DeleteEnds(h)
  /\ UNCHANGED <<changes, apiVars, nodeVars, got>>

----------------------------------------------------------------------------
HostStep(h) ==
  \/ Begin(h) \/ SyncPut(h) \/ SyncPutFails(h) \/ Advertise(h) \/ AdvertiseFails(h)
  \/ List(h) \/ ListFails(h) \/ Delete(h) \/ DeleteFails(h)
  \/ \E n \in Names : SyncGet(h, n) \/ SyncGetFails(h, n) \/ Check(h, n) \/ CheckFails(h, n)

Next ==
  \/ \E h \in Hosts : HostStep(h) \/ Propagate(h) \/ WantChanges(h)
  \/ \E n \in Names : AdminEdits(n)

Spec == Init /\ [][Next]_vars
\* The hosts' cycles go on, and the control plane processes what they advertise.
FairSpec == Spec /\ \A h \in Hosts : WF_vars(HostStep(h)) /\ WF_vars(Propagate(h))

----------------------------------------------------------------------------
(* Properties. *)

TypeOK ==
  /\ changes \in 0..MaxChanges /\ faults \in 0..MaxFaults
  /\ defs \in [Names -> [exists : BOOLEAN, tags : Attrs(Tags) \cup {Manual},
                          comment : Attrs(Comments)]]
  /\ registered \in [Names -> SUBSET Hosts] /\ news \subseteq Hosts
  /\ wants \in [Hosts -> SUBSET Names] /\ clash \in [Hosts -> SUBSET Names]
  /\ served \in [Hosts -> SUBSET Names] /\ advertised \in [Hosts -> SUBSET Names]
  /\ pc \in [Hosts -> {"idle", "sync", "put", "list", "check", "delete"}]
  /\ todo \in [Hosts -> SUBSET Names] /\ name \in [Hosts -> Names \cup {None}]
  /\ desired \in [Hosts -> SUBSET Names] /\ frozen \in [Hosts -> SUBSET Names]
  /\ since \in [Hosts -> SUBSET Hosts]
  /\ \A n \in Names : registered[n] # {} => defs[n].exists
  /\ \A h \in Hosts : pc[h] \in {"check", "delete"} => todo[h] \cap desired[h] = {}

Deletes(n) == defs[n].exists /\ ~defs'[n].exists

\* A host that was registered for a Service when another one looked keeps it: what a
\* deletion takes away can only have been registered in the window between the
\* host list and the delete.
RegisteredKept ==
  [][\A n \in Names : Deletes(n) =>
       \E h \in Hosts : /\ pc[h] = "delete" /\ name[h] = n
                        /\ since[h] = {} /\ n \notin desired[h] \cup Ignored[h]]_vars

\* A definition that no host wants or must ignore goes away for good, if one host, any of
\* them, goes on having cycles that end well, and if no host is left advertising what it
\* does not serve: such a half-done removal is nobody's to finish, and a host whose
\* cycles all fail never comes to the deletion.
UnusedGoes ==
  \A n \in Managed :
    (/\ \A h \in Hosts : n \notin Ignored[h]
     /\ <>[](\A h \in Hosts : n \notin wants[h] \cup (advertised[h] \ served[h]))
     /\ \E h \in Hosts : []<>(pc[h] = "list"))
    => <>[]~defs[n].exists

\* A Service with a host that goes on wanting it, without a conflict, ends up as the labels
\* say, however the hosts' reads and writes overlap with each other and with an administrator.
LabelsWin ==
  \A n \in Names, h \in Hosts :
    <>[](n \in wants[h] \ clash[h] /\ registered[n] # {} /\ defs[n].exists) =>
      <>[](/\ Tags[h][n] # None => defs[n].tags = Tags[h][n]
           /\ Comments[h][n] # None => defs[n].comment = Comments[h][n])
=============================================================================
