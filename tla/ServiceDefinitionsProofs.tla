---------------------- MODULE ServiceDefinitionsProofs ----------------------
(***************************************************************************)
(* Proofs about ServiceDefinitions, for any number of hosts and names: the *)
(* type invariant with what it says about the control plane, and that no   *)
(* host deletes a definition another one is registered for, except in the  *)
(* window between its look and its delete.                                 *)
(***************************************************************************)
EXTENDS ServiceDefinitions, TLAPS

Defs == [exists : BOOLEAN, tags : Attrs(Tags) \cup {Manual}, comment : Attrs(Comments)]
Labels == {"idle", "sync", "put", "list", "check", "delete"}

\* TypeOK without what it says about the control plane, and with the definition a
\* host holds between its read and its write.
Typed ==
  /\ changes \in 0..MaxChanges /\ faults \in 0..MaxFaults
  /\ defs \in [Names -> Defs] /\ got \in [Hosts -> Defs]
  /\ registered \in [Names -> SUBSET Hosts] /\ news \subseteq Hosts
  /\ wants \in [Hosts -> SUBSET Names] /\ clash \in [Hosts -> SUBSET Names]
  /\ served \in [Hosts -> SUBSET Names] /\ advertised \in [Hosts -> SUBSET Names]
  /\ pc \in [Hosts -> Labels]
  /\ todo \in [Hosts -> SUBSET Names] /\ name \in [Hosts -> Names \cup {None}]
  /\ desired \in [Hosts -> SUBSET Names] /\ frozen \in [Hosts -> SUBSET Names]
  /\ since \in [Hosts -> SUBSET Hosts]

\* Only a defined Service has hosts.
RegisteredDefined == \A n \in Names : registered[n] # {} => defs[n].exists

\* A host that writes or deletes has a Service in hand.
InHand == \A h \in Hosts : pc[h] \in {"put", "delete"} => name[h] \in Names

\* What a host looks at or deletes is neither desired nor ignored, and had no host when
\* it looked.
DeletesUnused ==
  \A h \in Hosts :
    /\ pc[h] \in {"check", "delete"} => todo[h] \cap (desired[h] \cup Ignored[h]) = {}
    /\ pc[h] = "delete" => name[h] \notin desired[h] \cup Ignored[h] /\ since[h] = {}

IInv == Typed /\ RegisteredDefined /\ InHand /\ DeletesUnused

----------------------------------------------------------------------------
(* Definitions. *)

LEMMA NoDefType == NoDef \in Defs /\ ~NoDef.exists
<1>0. ASSUME NEW f PROVE None \in Attrs(f) BY Zenon DEF Attrs
<1>1. None \in Attrs(Tags) /\ None \in Attrs(Comments) BY <1>0
<1>2. QED BY <1>1 DEF NoDef, Defs

\* What syncServiceDefinition writes is a definition, whatever it read.
LEMMA MergedType ==
  ASSUME NEW h \in Hosts, NEW n \in Names, NEW d \in Defs
  PROVE  Merged(h, n, d) \in Defs /\ Merged(h, n, d).exists
<1>1. Tags[h][n] \in Attrs(Tags) /\ Comments[h][n] \in Attrs(Comments) BY ConstantAssumption
<1>2. d.tags \in Attrs(Tags) \cup {Manual} /\ d.comment \in Attrs(Comments) BY DEF Defs
<1>3. /\ Declared(Tags[h][n], d.tags) \in Attrs(Tags) \cup {Manual}
      /\ Declared(Comments[h][n], d.comment) \in Attrs(Comments)
  BY <1>1, <1>2 DEF Declared
<1>4. QED BY <1>3 DEF Merged, Defs

\* The next name to look at, or the end of the cycle.
LEMMA ContinuesType ==
  ASSUME Typed, NEW h \in Hosts, NEW rest \in SUBSET Names, Continues(h, rest)
  PROVE  /\ pc' \in [Hosts -> Labels] /\ todo' \in [Hosts -> SUBSET Names]
         /\ desired' \in [Hosts -> SUBSET Names] /\ frozen' \in [Hosts -> SUBSET Names]
<1>1. CASE rest = {} BY <1>1 DEF Continues, Ends, Goes, Typed, Labels
<1>2. CASE rest # {} BY <1>2 DEF Continues, Goes, Typed, Labels
<1>3. QED BY <1>1, <1>2

----------------------------------------------------------------------------
(* The invariant. *)

LEMMA InitInv == Init => IInv
<1> SUFFICES ASSUME Init PROVE IInv OBVIOUS
<1>1. Typed BY NoDefType, ConstantAssumption DEF Init, Typed, Labels
<1>2. QED BY <1>1 DEF Init, IInv, RegisteredDefined, InHand, DeletesUnused

LEMMA BeginInv == ASSUME IInv, NEW h \in Hosts, Begin(h) PROVE IInv'
<1> USE DEF IInv, apiVars, nodeVars, hostVars
<1>0. PICK cleared \in SUBSET Stale(h), withdrawn \in SUBSET Stale(h) :
        /\ IF cleared = Stale(h) /\ withdrawn = Stale(h) THEN UNCHANGED faults ELSE Fails
        /\ served' = [served EXCEPT ![h] = @ \ cleared]
        /\ Advertises(h, advertised[h] \ withdrawn)
  BY Zenon DEF Begin
<1>1. Typed'
  <2>1. faults' \in 0..MaxFaults BY <1>0, ConstantAssumption DEF Fails, Typed
  <2>2. /\ served' \in [Hosts -> SUBSET Names] /\ advertised' \in [Hosts -> SUBSET Names]
        /\ news' \subseteq Hosts
    BY <1>0 DEF Advertises, Typed
  <2>3. /\ pc' \in [Hosts -> Labels] /\ todo' \in [Hosts -> SUBSET Names]
        /\ desired' \in [Hosts -> SUBSET Names] /\ frozen' \in [Hosts -> SUBSET Names]
    BY DEF Begin, Starts, Goes, Typed, Labels
  <2>4. QED BY <2>1, <2>2, <2>3 DEF Begin, Typed
<1>2. RegisteredDefined' BY DEF Begin, Typed, RegisteredDefined
<1>3. InHand' BY DEF Begin, Starts, Goes, Typed, InHand
<1>4. DeletesUnused' BY DEF Begin, Starts, Goes, Typed, DeletesUnused
<1>5. QED BY <1>1, <1>2, <1>3, <1>4

LEMMA SyncGetInv == ASSUME IInv, NEW h \in Hosts, NEW n \in Names, SyncGet(h, n) PROVE IInv'
<1> USE DEF IInv, apiVars, nodeVars, hostVars
<1>1. Typed'
  <2>1. CASE defs[n].exists /\ ~Drifted(h, n, defs[n])
    BY <2>1 DEF SyncGet, Goes, Typed, Labels
  <2>2. CASE ~(defs[n].exists /\ ~Drifted(h, n, defs[n]))
    BY <2>2 DEF SyncGet, Goes, Typed, Labels
  <2>3. QED BY <2>1, <2>2
<1>2. RegisteredDefined' BY DEF SyncGet, Goes, Typed, RegisteredDefined
<1>3. InHand' BY DEF SyncGet, Goes, Typed, InHand
<1>4. DeletesUnused' BY DEF SyncGet, Goes, Typed, DeletesUnused
<1>5. QED BY <1>1, <1>2, <1>3, <1>4

LEMMA SyncGetFailsInv == ASSUME IInv, NEW h \in Hosts, NEW n \in Names, SyncGetFails(h, n) PROVE IInv'
<1> USE DEF IInv, apiVars, nodeVars, hostVars
<1>1. Typed' BY ConstantAssumption DEF SyncGetFails, Goes, Fails, Typed, Labels
<1>2. RegisteredDefined' BY DEF SyncGetFails, Goes, Fails, Typed, RegisteredDefined
<1>3. InHand' BY DEF SyncGetFails, Goes, Fails, Typed, InHand
<1>4. DeletesUnused' BY DEF SyncGetFails, Goes, Fails, Typed, DeletesUnused
<1>5. QED BY <1>1, <1>2, <1>3, <1>4

LEMMA SyncPutInv == ASSUME IInv, NEW h \in Hosts, SyncPut(h) PROVE IInv'
<1> USE DEF IInv, apiVars, nodeVars, hostVars
<1>0. name[h] \in Names /\ got[h] \in Defs BY DEF SyncPut, InHand, Typed
<1>1. Typed'
  <2>1. Merged(h, name[h], got[h]) \in Defs BY <1>0, MergedType
  <2>2. QED BY <1>0, <2>1, NoDefType DEF SyncPut, Goes, PutEnds, Typed, Labels
<1>2. RegisteredDefined'
  <2>1. Merged(h, name[h], got[h]).exists BY <1>0, MergedType
  <2>2. QED BY <1>0, <2>1 DEF SyncPut, Typed, RegisteredDefined
<1>3. InHand' BY DEF SyncPut, Goes, PutEnds, Typed, InHand
<1>4. DeletesUnused' BY DEF SyncPut, Goes, PutEnds, Typed, DeletesUnused
<1>5. QED BY <1>1, <1>2, <1>3, <1>4

LEMMA SyncPutFailsInv == ASSUME IInv, NEW h \in Hosts, SyncPutFails(h) PROVE IInv'
<1> USE DEF IInv, apiVars, nodeVars, hostVars
<1>1. Typed' BY NoDefType, ConstantAssumption DEF SyncPutFails, Goes, PutEnds, Fails, Typed, Labels
<1>2. RegisteredDefined' BY DEF SyncPutFails, Goes, PutEnds, Fails, Typed, RegisteredDefined
<1>3. InHand' BY DEF SyncPutFails, Goes, PutEnds, Fails, Typed, InHand
<1>4. DeletesUnused' BY DEF SyncPutFails, Goes, PutEnds, Fails, Typed, DeletesUnused
<1>5. QED BY <1>1, <1>2, <1>3, <1>4

LEMMA AdvertiseInv == ASSUME IInv, NEW h \in Hosts, Advertise(h) PROVE IInv'
<1> USE DEF IInv, apiVars, nodeVars, hostVars
<1>1. Typed' BY DEF Advertise, Goes, Advertises, Typed, Labels
<1>2. RegisteredDefined' BY DEF Advertise, Typed, RegisteredDefined
<1>3. InHand' BY DEF Advertise, Goes, Typed, InHand
<1>4. DeletesUnused' BY DEF Advertise, Goes, Typed, DeletesUnused
<1>5. QED BY <1>1, <1>2, <1>3, <1>4

LEMMA AdvertiseFailsInv == ASSUME IInv, NEW h \in Hosts, AdvertiseFails(h) PROVE IInv'
<1> USE DEF IInv, apiVars, nodeVars, hostVars
<1>1. Typed' BY DEF AdvertiseFails, Ends, Goes, Advertises, Typed, Labels
<1>2. RegisteredDefined' BY DEF AdvertiseFails, Typed, RegisteredDefined
<1>3. InHand' BY DEF AdvertiseFails, Ends, Goes, Typed, InHand
<1>4. DeletesUnused' BY DEF AdvertiseFails, Ends, Goes, Typed, DeletesUnused
<1>5. QED BY <1>1, <1>2, <1>3, <1>4

LEMMA ListInv == ASSUME IInv, NEW h \in Hosts, List(h) PROVE IInv'
<1> USE DEF IInv, apiVars, nodeVars, hostVars
<1>0. /\ pc' \in [Hosts -> Labels] /\ todo' \in [Hosts -> SUBSET Names]
      /\ desired' \in [Hosts -> SUBSET Names] /\ frozen' \in [Hosts -> SUBSET Names]
  <2> DEFINE unused == {m \in Names : defs[m].exists /\ Unused(h, m)}
  <2>1. CASE unused = {} BY <2>1 DEF List, Ends, Goes, Typed, Labels
  <2>2. CASE unused # {}
    <3>1. Goes(h, "check", unused) /\ UNCHANGED <<desired, frozen>> BY <2>2 DEF List
    <3>2. unused \in SUBSET Names OBVIOUS
    <3> HIDE DEF unused
    <3>3. QED BY <3>1, <3>2 DEF Goes, Typed, Labels
  <2>3. QED BY <2>1, <2>2
<1>1. Typed' BY <1>0 DEF List, Typed
<1>2. RegisteredDefined' BY DEF List, Ends, Goes, Unused, Typed, RegisteredDefined
<1>3. InHand' BY DEF List, Ends, Goes, Unused, Typed, InHand
<1>4. DeletesUnused' BY DEF List, Ends, Goes, Unused, Typed, DeletesUnused
<1>5. QED BY <1>1, <1>2, <1>3, <1>4

LEMMA ListFailsInv == ASSUME IInv, NEW h \in Hosts, ListFails(h) PROVE IInv'
<1> USE DEF IInv, apiVars, nodeVars, hostVars
<1>1. Typed' BY ConstantAssumption DEF ListFails, Ends, Goes, Fails, Typed, Labels
<1>2. RegisteredDefined' BY DEF ListFails, Ends, Goes, Fails, Typed, RegisteredDefined
<1>3. InHand' BY DEF ListFails, Ends, Goes, Fails, Typed, InHand
<1>4. DeletesUnused' BY DEF ListFails, Ends, Goes, Fails, Typed, DeletesUnused
<1>5. QED BY <1>1, <1>2, <1>3, <1>4

LEMMA CheckInv == ASSUME IInv, NEW h \in Hosts, NEW n \in Names, Check(h, n) PROVE IInv'
<1> USE DEF IInv, apiVars, nodeVars, hostVars
<1>1. Typed'
  <2>1. todo[h] \ {n} \in SUBSET Names BY DEF Typed
  <2>2. CASE defs[n].exists /\ registered[n] = {}
    BY <2>2 DEF Check, Goes, Typed, Labels
  <2>3. CASE ~(defs[n].exists /\ registered[n] = {})
    BY <2>1, <2>3, ContinuesType DEF Check, Typed
  <2>4. QED BY <2>2, <2>3
<1>2. RegisteredDefined' BY DEF Check, Goes, Ends, Continues, Typed, RegisteredDefined
<1>3. InHand' BY DEF Check, Goes, Ends, Continues, Typed, InHand
<1>4. DeletesUnused' BY DEF Check, Goes, Ends, Continues, Typed, DeletesUnused
<1>5. QED BY <1>1, <1>2, <1>3, <1>4

LEMMA CheckFailsInv == ASSUME IInv, NEW h \in Hosts, NEW n \in Names, CheckFails(h, n) PROVE IInv'
<1> USE DEF IInv, apiVars, nodeVars, hostVars
<1>1. Typed'
  <2>1. todo[h] \ {n} \in SUBSET Names BY DEF Typed
  <2>2. QED BY <2>1, ContinuesType, ConstantAssumption DEF CheckFails, Fails, Typed
<1>2. RegisteredDefined' BY DEF CheckFails, Goes, Ends, Continues, Fails, Typed, RegisteredDefined
<1>3. InHand' BY DEF CheckFails, Goes, Ends, Continues, Fails, Typed, InHand
<1>4. DeletesUnused' BY DEF CheckFails, Goes, Ends, Continues, Fails, Typed, DeletesUnused
<1>5. QED BY <1>1, <1>2, <1>3, <1>4

LEMMA DeleteInv == ASSUME IInv, NEW h \in Hosts, Delete(h) PROVE IInv'
<1> USE DEF IInv, apiVars, nodeVars, hostVars
<1>1. Typed'
  <2>1. todo[h] \in SUBSET Names BY DEF Typed
  <2>2. /\ pc' \in [Hosts -> Labels] /\ todo' \in [Hosts -> SUBSET Names]
        /\ desired' \in [Hosts -> SUBSET Names] /\ frozen' \in [Hosts -> SUBSET Names]
    BY <2>1, ContinuesType DEF Delete, DeleteEnds
  <2>3. defs' \in [Names -> Defs] BY NoDefType DEF Delete, Typed
  <2>4. registered' \in [Names -> SUBSET Hosts] BY DEF Delete, Typed
  <2>5. QED BY <2>2, <2>3, <2>4 DEF Delete, DeleteEnds, Typed
<1>2. RegisteredDefined' BY DEF Delete, Goes, Ends, Continues, DeleteEnds, Typed, RegisteredDefined
<1>3. InHand' BY DEF Delete, Goes, Ends, Continues, DeleteEnds, Typed, InHand
<1>4. DeletesUnused' BY DEF Delete, Goes, Ends, Continues, DeleteEnds, Typed, DeletesUnused
<1>5. QED BY <1>1, <1>2, <1>3, <1>4

LEMMA DeleteFailsInv == ASSUME IInv, NEW h \in Hosts, DeleteFails(h) PROVE IInv'
<1> USE DEF IInv, apiVars, nodeVars, hostVars
<1>1. Typed'
  <2>1. todo[h] \in SUBSET Names BY DEF Typed
  <2>2. QED BY <2>1, ContinuesType, ConstantAssumption DEF DeleteFails, DeleteEnds, Fails, Typed
<1>2. RegisteredDefined'
  BY DEF DeleteFails, Goes, Ends, Continues, DeleteEnds, Fails, Typed, RegisteredDefined
<1>3. InHand' BY DEF DeleteFails, Goes, Ends, Continues, DeleteEnds, Fails, Typed, InHand
<1>4. DeletesUnused' BY DEF DeleteFails, Goes, Ends, Continues, DeleteEnds, Fails, Typed, DeletesUnused
<1>5. QED BY <1>1, <1>2, <1>3, <1>4

LEMMA WantChangesInv == ASSUME IInv, NEW h \in Hosts, WantChanges(h) PROVE IInv'
<1> USE DEF IInv, apiVars, nodeVars, hostVars
<1>1. Typed'
  <2>1. PICK n \in Declares[h] : \E claimed \in SUBSET {n} : \E contested \in SUBSET claimed :
          /\ wants' = [wants EXCEPT ![h] = (@ \ {n}) \cup claimed]
          /\ clash' = [clash EXCEPT ![h] = (@ \ {n}) \cup contested]
    BY DEF WantChanges
  <2>2. n \in Names BY ConstantAssumption
  <2>3. wants' \in [Hosts -> SUBSET Names] /\ clash' \in [Hosts -> SUBSET Names]
    BY <2>1, <2>2 DEF Typed
  <2>4. changes' \in 0..MaxChanges BY ConstantAssumption DEF WantChanges, Happens, Typed
  <2>5. QED BY <2>3, <2>4 DEF WantChanges, Typed
<1>2. RegisteredDefined' BY DEF WantChanges, Happens, Typed, RegisteredDefined
<1>3. InHand' BY DEF WantChanges, Happens, Typed, InHand
<1>4. DeletesUnused' BY DEF WantChanges, Happens, Typed, DeletesUnused
<1>5. QED BY <1>1, <1>2, <1>3, <1>4

LEMMA PropagateInv == ASSUME IInv, NEW h \in Hosts, Propagate(h) PROVE IInv'
<1> USE DEF IInv, apiVars, nodeVars, hostVars
<1>1. Typed' BY ConstantAssumption DEF Propagate, Typed, Labels
<1>2. RegisteredDefined' BY DEF Propagate, Typed, RegisteredDefined
<1>3. InHand' BY DEF Propagate, Typed, InHand
<1>4. DeletesUnused' BY DEF Propagate, Typed, DeletesUnused
<1>5. QED BY <1>1, <1>2, <1>3, <1>4

LEMMA AdminEditsInv == ASSUME IInv, NEW n \in Names, AdminEdits(n) PROVE IInv'
<1> USE DEF IInv, apiVars, nodeVars, hostVars
<1>0. PICK d \in Defs : d.exists /\ defs' = [defs EXCEPT ![n] = d]
  <2>1. defs[n].comment \in Attrs(Comments) BY DEF Typed, Defs
  <2>2. [exists |-> TRUE, tags |-> Manual, comment |-> defs[n].comment] \in Defs BY <2>1 DEF Defs
  <2>3. QED BY <2>2 DEF AdminEdits
<1>1. Typed'
  <2>1. changes' \in 0..MaxChanges BY ConstantAssumption DEF AdminEdits, Happens, Typed
  <2>2. defs' \in [Names -> Defs] BY <1>0 DEF Typed
  <2>3. QED BY <2>1, <2>2 DEF AdminEdits, Typed
<1>2. RegisteredDefined' BY <1>0 DEF AdminEdits, Typed, RegisteredDefined
<1>3. InHand' BY DEF AdminEdits, Happens, Typed, InHand
<1>4. DeletesUnused' BY DEF AdminEdits, Happens, Typed, DeletesUnused
<1>5. QED BY <1>1, <1>2, <1>3, <1>4

LEMMA NextInv == IInv /\ [Next]_vars => IInv'
<1> SUFFICES ASSUME IInv, [Next]_vars PROVE IInv' OBVIOUS
<1>1. CASE UNCHANGED vars
  BY <1>1 DEF vars, apiVars, nodeVars, hostVars, IInv, Typed, RegisteredDefined, InHand, DeletesUnused
<1>2. ASSUME NEW h \in Hosts, HostStep(h) PROVE IInv'
  BY <1>2, BeginInv, SyncGetInv, SyncGetFailsInv, SyncPutInv, SyncPutFailsInv, AdvertiseInv, AdvertiseFailsInv,
     ListInv, ListFailsInv, CheckInv, CheckFailsInv, DeleteInv, DeleteFailsInv DEF HostStep
<1>3. ASSUME NEW h \in Hosts, Propagate(h) \/ WantChanges(h) PROVE IInv'
  BY <1>3, PropagateInv, WantChangesInv
<1>4. ASSUME NEW n \in Names, AdminEdits(n) PROVE IInv' BY <1>4, AdminEditsInv
<1>5. QED BY <1>1, <1>2, <1>3, <1>4 DEF Next

LEMMA Invariant == Spec => []IInv
BY InitInv, NextInv, PTL DEF Spec

----------------------------------------------------------------------------
(* What may delete. *)

\* A step that takes a definition away is the delete of a host that has this name in
\* hand: a write, an edit and the control plane's own steps keep what is defined.
LEMMA DeletesOnlyInHand ==
  ASSUME IInv, [Next]_vars, NEW n \in Names, Deletes(n)
  PROVE  \E h \in Hosts : pc[h] = "delete" /\ name[h] = n
<1> USE DEF apiVars, nodeVars, hostVars
<1>1. ASSUME NEW h \in Hosts, Delete(h) PROVE pc[h] = "delete" /\ name[h] = n
  BY <1>1 DEF Delete, Deletes, IInv, Typed
<1>2. ASSUME NEW h \in Hosts, SyncPut(h) PROVE FALSE
  <2>1. name[h] \in Names /\ got[h] \in Defs BY <1>2 DEF SyncPut, IInv, InHand, Typed
  <2>2. Merged(h, name[h], got[h]).exists BY <2>1, MergedType
  <2>3. QED BY <1>2, <2>1, <2>2 DEF SyncPut, Deletes, IInv, Typed
<1>3. ASSUME NEW m \in Names, AdminEdits(m) PROVE FALSE
  <2>1. PICK d : d.exists /\ defs' = [defs EXCEPT ![m] = d] BY <1>3 DEF AdminEdits
  <2>2. QED BY <2>1 DEF Deletes, IInv, Typed
<1>4. ASSUME defs' = defs PROVE FALSE BY <1>4 DEF Deletes
<1>5. ASSUME NEW h \in Hosts, HostStep(h), ~Delete(h), ~SyncPut(h) PROVE defs' = defs
  BY <1>5 DEF HostStep, Begin, SyncGet, SyncGetFails, SyncPutFails, Advertise, AdvertiseFails, List,
       ListFails, Check, CheckFails, DeleteFails
<1>6. ASSUME NEW h \in Hosts, Propagate(h) \/ WantChanges(h) PROVE defs' = defs
  BY <1>6 DEF Propagate, WantChanges
<1>7. ASSUME UNCHANGED vars PROVE defs' = defs BY <1>7 DEF vars
<1>8. QED BY <1>1, <1>2, <1>3, <1>4, <1>5, <1>6, <1>7 DEF Next

----------------------------------------------------------------------------
(* The theorems. *)

\* The hosts' cycles and the control plane keep every variable in its type, only a
\* defined Service has hosts registered for it, and a host never looks for the hosts
\* of a Service it wants itself.
THEOREM TypeCorrect == Spec => []TypeOK
<1>1. IInv => TypeOK
  BY DEF IInv, Typed, RegisteredDefined, DeletesUnused, TypeOK, Defs, Labels
<1>2. QED BY <1>1, Invariant, PTL

\* However many hosts work on the same tailnet, and however their API calls interleave
\* and fail, a definition is only deleted by a host that neither wants nor ignores it and
\* that saw no host registered for it: what a deletion takes away was registered after
\* that look.
THEOREM DeletionsJustified == Spec => RegisteredKept
<1> DEFINE Justified(n) ==
      \E h \in Hosts : /\ pc[h] = "delete" /\ name[h] = n
                       /\ since[h] = {} /\ n \notin desired[h] \cup Ignored[h]
<1>1. ASSUME IInv, [Next]_vars, NEW n \in Names, Deletes(n) PROVE Justified(n)
  BY <1>1, DeletesOnlyInHand DEF IInv, DeletesUnused
<1>2. IInv /\ [Next]_vars => [\A n \in Names : Deletes(n) => Justified(n)]_vars
  BY <1>1
<1>3. QED BY <1>2, Invariant, PTL DEF Spec, RegisteredKept
=============================================================================
