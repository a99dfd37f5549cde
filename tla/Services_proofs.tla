---------------------------- MODULE Services_proofs ----------------------------
(***************************************************************************)
(* Proofs about the lifecycle of the plugin and the discovery, for any     *)
(* plugins and what they offer, any number of callers, troubles and        *)
(* changes of the host.                                                    *)
(***************************************************************************)
EXTENDS Services, FiniteSetTheorems, SequenceTheorems, TLAPS

-----------------------------------------------------------------------------
(***************************************************************************)
(* The registries.                                                         *)
(***************************************************************************)

\* What dropping providers leaves is a registry, and the other batches as
\* they were.
LEMMA DropKeeps ==
    ASSUME NEW r, RegistryOK(r), NEW P \in SUBSET Registered
    PROVE  /\ RegistryOK(Reject(r, P)) /\ RegistryOK(Leave(r, P))
           /\ \A p \in Registered :
                 /\ Reject(r, P).batch[p] = IF p \in P THEN {} ELSE r.batch[p]
                 /\ Leave(r, P).batch[p] = IF p \in P THEN {} ELSE r.batch[p]
<1>. DEFINE b == [p \in Registered |-> IF p \in P THEN {} ELSE r.batch[p]]
            o == [i \in Ids |-> IF \E p \in P : i \in r.batch[p] THEN None ELSE r.owner[i]]
<1>1. b \in [Registered -> SUBSET Ids]  BY DEF RegistryOK
<1>2. o \in [Ids -> Registered \cup {None}]  BY DEF RegistryOK
<1>3. ASSUME NEW i \in Ids, NEW p \in Registered  PROVE i \in b[p] <=> o[i] = p
  <2>1. i \in r.batch[p] <=> r.owner[i] = p  BY DEF RegistryOK
  <2>2. CASE \E q \in P : i \in r.batch[q]
    <3>1. PICK q \in P : i \in r.batch[q]  BY <2>2
    <3>2. r.owner[i] = q  BY <3>1 DEF RegistryOK
    <3>3. o[i] = None  BY <2>2
    <3>4. i \notin b[p]  BY <2>1, <3>1, <3>2
    <3>. QED  BY <3>3, <3>4, ExtensionAssumption
  <2>3. CASE ~\E q \in P : i \in r.batch[q]
    BY <2>1, <2>3
  <2>. QED  BY <2>2, <2>3
<1>4. /\ Reject(r, P).batch = b /\ Reject(r, P).owner = o /\ Reject(r, P).known = r.known \cup P
      /\ Leave(r, P).batch = b /\ Leave(r, P).owner = o /\ Leave(r, P).known = r.known \ P
  BY DEF Reject, Leave, Drop
<1>5. r.known \subseteq Registered  BY DEF RegistryOK
<1>6. \A p \in Registered : b[p] = IF p \in P THEN {} ELSE r.batch[p]  OBVIOUS
<1>. HIDE DEF b, o
<1>7. RegistryOK(Reject(r, P))  BY <1>1, <1>2, <1>3, <1>4, <1>5 DEF RegistryOK
<1>8. RegistryOK(Leave(r, P))  BY <1>1, <1>2, <1>3, <1>4, <1>5 DEF RegistryOK
<1>. QED  BY <1>4, <1>6, <1>7, <1>8

\* A provider that answers gets the batch whole or is rejected, and no other
\* provider has its batch touched.
LEMMA ReplaceKeeps ==
    ASSUME NEW r, RegistryOK(r), NEW p \in Registered, NEW ids \in SUBSET Ids
    PROVE  /\ RegistryOK(Replace(r, p, ids))
           /\ Replace(r, p, ids).batch[p] = IF Valid(r, p, ids) THEN ids ELSE {}
           /\ \A q \in Registered \ {p} : Replace(r, p, ids).batch[q] = r.batch[q]
<1>1. CASE Valid(r, p, ids)
  <2>. DEFINE b == [r.batch EXCEPT ![p] = ids]
              o == [i \in Ids |-> IF i \in ids THEN p
                                  ELSE IF i \in r.batch[p] THEN None ELSE r.owner[i]]
  <2>1. b \in [Registered -> SUBSET Ids] /\ o \in [Ids -> Registered \cup {None}]
    BY DEF RegistryOK
  <2>2. ASSUME NEW i \in Ids, NEW q \in Registered  PROVE i \in b[q] <=> o[i] = q
    <3>1. b[q] = IF q = p THEN ids ELSE r.batch[q]  BY DEF RegistryOK
    <3>2. /\ i \in r.batch[q] <=> r.owner[i] = q
          /\ i \in r.batch[p] <=> r.owner[i] = p
      BY DEF RegistryOK
    <3>3. i \in ids => r.owner[i] \in {None, p}  BY <1>1 DEF Valid
    <3>4. None # q /\ None # p  BY ExtensionAssumption
    <3>. QED  BY <3>1, <3>2, <3>3, <3>4
  <2>3. /\ Replace(r, p, ids).batch = b /\ Replace(r, p, ids).owner = o
        /\ Replace(r, p, ids).known = r.known \cup {p}
    BY <1>1 DEF Replace
  <2>4. b[p] = ids /\ \A q \in Registered \ {p} : b[q] = r.batch[q]  BY DEF RegistryOK
  <2>5. r.known \subseteq Registered  BY DEF RegistryOK
  <2>. HIDE DEF b, o
  <2>6. RegistryOK(Replace(r, p, ids))  BY <2>1, <2>2, <2>3, <2>5 DEF RegistryOK
  <2>. QED  BY <1>1, <2>3, <2>4, <2>6
<1>2. CASE ~Valid(r, p, ids)
  <2>1. Replace(r, p, ids) = Reject(r, {p})  BY <1>2 DEF Replace
  <2>2. /\ RegistryOK(Reject(r, {p}))
        /\ \A q \in Registered : Reject(r, {p}).batch[q] = IF q \in {p} THEN {} ELSE r.batch[q]
    BY DropKeeps
  <2>. QED  BY <1>2, <2>1, <2>2
<1>. QED  BY <1>1, <1>2

\* What becomes of the registries, in the form the invariant has it.
LEMMA BecomesKeeps ==
    ASSUME NEW r, RegistryOK(r), Becomes(r)
    PROVE  RegistryOK(Registry)' /\ batch' = r.batch
<1>1. batch' = r.batch /\ owner' = r.owner /\ known' = r.known  BY DEF Becomes
<1>2. /\ Registry'.batch = r.batch /\ Registry'.owner = r.owner /\ Registry'.known = r.known
  BY <1>1 DEF Registry
<1>. QED  BY <1>1, <1>2 DEF RegistryOK

\* Nobody can take what the builtin provider has, so that it gets its batch
\* each time it is installed.
LEMMA BuiltinIsInstalled ==
    ASSUME ExtensionsOK, Becomes(Replace(Registry, Builtin, offer[Builtin])), offer' = offer,
           batch[Builtin] # {}
    PROVE  batch'[Builtin] = offer[Builtin]
<1>1. Builtin \in Registered /\ offer[Builtin] \in SUBSET Ids
  BY DEF ExtensionsOK, HostOK, Registered
<1>2. batch[Builtin] = offer[Builtin]  BY DEF ExtensionsOK, BuiltinStays
<1>3. RegistryOK(Registry)  BY DEF ExtensionsOK
<1>4. \A i \in offer[Builtin] : owner[i] = Builtin
  BY <1>1, <1>2, <1>3 DEF RegistryOK, Registry
<1>5. Valid(Registry, Builtin, offer[Builtin])  BY <1>4 DEF Valid, Registry
<1>6. Replace(Registry, Builtin, offer[Builtin]).batch[Builtin] = offer[Builtin]
  BY <1>1, <1>3, <1>5, ReplaceKeeps
<1>. QED  BY <1>6 DEF Becomes

-----------------------------------------------------------------------------
(***************************************************************************)
(* The scan.                                                               *)
(***************************************************************************)

\* A scan asks one of the plugins that are left to ask.
LEMMA AskedIsLeft ==
    ASSUME NEW d, scan[d].todo \in SUBSET Plugins, scan[d].todo # {}
    PROVE  Asked(d) \in scan[d].todo
<1>. DEFINE P == scan[d].todo
            places == {Place[p] : p \in P}
<1>1. \A p \in P : Place[p] \in Nat
  <2>. TAKE p \in P
  <2>1. \E i \in DOMAIN Providers : Providers[i] = p  BY DEF Plugins
  <2>2. Place[p] \in DOMAIN Providers  BY <2>1 DEF Place
  <2>. QED  BY <2>2, ExtensionAssumption, LenProperties
<1>2. places \in SUBSET Nat /\ places # {}  BY <1>1
<1>3. IsWellFoundedOn(OpToRel(<, Nat), Nat)  BY NatLessThanWellFounded
<1>. HIDE DEF places
<1>4. PICK m \in places : \A k \in places : <<k, m>> \notin OpToRel(<, Nat)
  BY <1>2, <1>3, WFMin
<1>5. \A k \in places : m <= k
  <2>. TAKE k \in places
  <2>1. ~(k < m) /\ k \in Nat /\ m \in Nat  BY <1>2, <1>4 DEF OpToRel
  <2>. QED  BY <2>1
<1>6. \E p \in P : \A q \in P : Place[p] <= Place[q]  BY <1>5 DEF places
<1>. QED  BY <1>6 DEF Asked

\* A step of discovery d that is under way, and what it may make of its scan:
\* one that is closed makes no call any more.
ScanGoes(d) ==
    /\ DOMAIN scan' = Objects /\ ScanOK(scan[d])' /\ scan[d].at # "none"
    /\ \A e \in Objects \ {d} : scan'[e] = scan[e]
    /\ Scanning(d)' => d \notin shut

\* The rest of a scan keeps the registries, and sweeps out plugins it has not
\* seen and nothing else.
LEMMA OnwardKeeps ==
    ASSUME DiscoveryOK, NEW d \in Objects, scan[d].at # "none",
           NEW r, RegistryOK(r), NEW seen \in SUBSET Plugins, NEW todo_ \in SUBSET Plugins,
           Onward(d, r, seen, todo_)
    PROVE  /\ RegistryOK(Registry)' /\ ScanGoes(d)
           /\ \A p \in Registered : batch'[p] = r.batch[p] \/ p \in Plugins \ seen
           /\ batch'[Builtin] = r.batch[Builtin]
<1>1. DOMAIN scan = Objects  BY DEF DiscoveryOK
<1>2. CASE todo_ # {} /\ d \notin shut
  <2>1. Becomes(r)  BY <1>2 DEF Onward
  <2>2. RegistryOK(Registry)' /\ batch' = r.batch  BY <2>1, BecomesKeeps
  <2>3. scan' = [scan EXCEPT ![d] = [at |-> "describing", todo |-> todo_, seen |-> seen]]
    BY <1>2 DEF Onward
  <2>4. ScanGoes(d)  BY <1>1, <1>2, <2>3 DEF ScanGoes, ScanOK, Ats
  <2>. QED  BY <2>2, <2>4
<1>3. CASE ~(todo_ # {} /\ d \notin shut)
  <2>. DEFINE P == r.known \ (seen \cup {Builtin})
              e == IF todo_ = {} THEN Swept(r, seen) ELSE r
  <2>1. Becomes(e)  BY <1>3 DEF Onward
  <2>2. P \in SUBSET Registered  BY DEF RegistryOK
  <2>3. /\ RegistryOK(Leave(r, P))
        /\ \A p \in Registered : Leave(r, P).batch[p] = IF p \in P THEN {} ELSE r.batch[p]
    BY <2>2, DropKeeps
  <2>4. RegistryOK(e) /\ \A p \in Registered : e.batch[p] = r.batch[p] \/ p \in P
    BY <2>3 DEF Swept
  <2>5. Builtin \in Registered /\ P \subseteq Plugins \ seen
    BY DEF Registered, RegistryOK
  <2>. HIDE DEF e
  <2>6. RegistryOK(Registry)' /\ batch' = e.batch  BY <2>1, <2>4, BecomesKeeps
  <2>7. scan' = [scan EXCEPT ![d] = [Idle EXCEPT !.at = "telling"]]
    BY <1>3 DEF Onward
  <2>8. scan'[d] = [at |-> "telling", todo |-> {}, seen |-> {}]  BY <1>1, <2>7 DEF Idle
  <2>9. ScanGoes(d)  BY <1>1, <2>7, <2>8 DEF ScanGoes, ScanOK, Ats, Scanning
  <2>10. \A p \in Registered : batch'[p] = r.batch[p] \/ p \in P  BY <2>4, <2>6
  <2>11. batch'[Builtin] = r.batch[Builtin]  BY <2>5, <2>10
  <2>. QED  BY <2>5, <2>6, <2>9, <2>10, <2>11
<1>. QED  BY <1>2, <1>3

\* The changes that ListedStays allows to batch p.
MayChange(p) ==
    \/ batch'[p] = offer[p]
    \/ p \in Plugins /\ ~Fit(p)
    \/ \E d \in Objects : /\ scan[d].at = "describing"
                          /\ \/ p \in Plugins \ scan[d].seen
                             \/ p = Asked(d) /\ troubles' # troubles

\* A step of a scan keeps the registries; it changes a batch for an answer to
\* this scan, or for want of one.
LEMMA ScanKeeps ==
    ASSUME ExtensionsOK, NEW d \in Objects, Scan(d)
    PROVE  /\ RegistryOK(Registry)' /\ ScanGoes(d)
           /\ UNCHANGED <<host, beat, shut>> /\ batch'[Builtin] = batch[Builtin]
           /\ \A p \in Registered : batch'[p] # batch[p] => MayChange(p)
<1>1. /\ DOMAIN scan = Objects /\ ScanOK(scan[d])
      /\ \A e \in Objects : ScanOK(scan[e])
      /\ visible \subseteq Plugins /\ bad \subseteq Plugins /\ offer \in [Registered -> SUBSET Ids]
      /\ RegistryOK(Registry) /\ DiscoveryOK /\ troubles \in Nat
  BY DEF ExtensionsOK, HostOK, DiscoveryOK
<1>2. Builtin \in Registered /\ Builtin \notin Plugins /\ Plugins \subseteq Registered
  BY ExtensionAssumption DEF Registered
<1>3. ASSUME UNCHANGED registry  PROVE RegistryOK(Registry)' /\ batch' = batch
  <2>1. Becomes(Registry)  BY <1>3 DEF registry, Becomes, Registry
  <2>. QED  BY <1>1, <1>3, <2>1, BecomesKeeps DEF registry
<1>4. ASSUME NEW at \in Ats, At(d, at), at # "describing", scan[d].at # "none",
             at = "listing" => d \notin shut
      PROVE  ScanGoes(d)
  <2>1. scan'[d] = [scan[d] EXCEPT !.at = at] /\ \A e \in Objects \ {d} : scan'[e] = scan[e]
    BY <1>1, <1>4 DEF At
  <2>2. DOMAIN scan' = Objects  BY <1>1, <1>4 DEF At
  <2>. QED  BY <1>1, <1>4, <2>1, <2>2 DEF ScanGoes, ScanOK, Scanning
<1>5. CASE Begin(d)
  <2>1. ScanGoes(d)  BY <1>4, <1>5 DEF Begin, Ats
  <2>. QED  BY <1>3, <1>5, <2>1 DEF Begin
<1>6. CASE Unlist(d)
  <2>1. ScanGoes(d)  BY <1>4, <1>6 DEF Unlist, Unlisted, Ats
  <2>. QED  BY <1>3, <1>6, <2>1 DEF Unlist, Unlisted
<1>7. CASE Listed(d)
  <2>1. UNCHANGED <<host, beat, shut>> /\ scan[d].at = "listing"  BY <1>7 DEF Listed
  <2>2. CASE d \in shut
    <3>1. At(d, "ended") /\ UNCHANGED registry  BY <1>7, <2>2 DEF Listed
    <3>2. ScanGoes(d)  BY <1>4, <2>1, <3>1 DEF Ats
    <3>. QED  BY <1>3, <2>1, <3>1, <3>2
  <2>3. CASE d \notin shut
    <3>. DEFINE r == Reject(Registry, visible \cap bad)
                s == visible \ bad
    <3>1. Onward(d, r, visible, s)  BY <1>7, <2>3 DEF Listed
    <3>2. /\ RegistryOK(r)
          /\ \A p \in Registered :
                r.batch[p] = IF p \in visible \cap bad THEN {} ELSE Registry.batch[p]
      BY <1>1, <1>2, DropKeeps
    <3>3. s \in SUBSET Plugins  BY <1>1
    <3>. HIDE DEF r, s
    <3>4. /\ RegistryOK(Registry)' /\ ScanGoes(d)
          /\ \A p \in Registered : batch'[p] = r.batch[p] \/ p \in Plugins \ visible
          /\ batch'[Builtin] = r.batch[Builtin]
      BY <1>1, <2>1, <3>1, <3>2, <3>3, OnwardKeeps
    <3>5. ASSUME NEW p \in Registered, batch'[p] # batch[p]  PROVE MayChange(p)
      <4>1. p \in visible \cap bad \/ p \in Plugins \ visible
        BY <3>2, <3>4, <3>5 DEF Registry
      <4>. QED  BY <1>1, <4>1 DEF MayChange, Fit
    <3>6. batch'[Builtin] = batch[Builtin]  BY <1>1, <1>2, <3>2, <3>4 DEF Registry
    <3>. QED  BY <2>1, <3>4, <3>5, <3>6
  <2>. QED  BY <2>2, <2>3
<1>8. ASSUME scan[d].at = "describing"
      PROVE  /\ Asked(d) \in Plugins /\ scan[d].todo \ {Asked(d)} \in SUBSET Plugins
             /\ scan[d].seen \in SUBSET Plugins
  BY <1>1, <1>8, AskedIsLeft DEF ScanOK
<1>9. CASE Described(d)
  <2>. DEFINE q == Asked(d)
              seen == scan[d].seen
              rest == scan[d].todo \ {q}
              r == Replace(Registry, q, offer[q])
  <2>1. /\ scan[d].at = "describing" /\ q \in visible
        /\ Onward(d, r, seen, rest)
        /\ UNCHANGED <<host, beat, shut>>
    BY <1>9 DEF Described
  <2>2. q \in Registered /\ q \in Plugins /\ offer[q] \in SUBSET Ids  BY <1>1, <1>2, <1>8, <2>1
  <2>. HIDE DEF q
  <2>3. /\ RegistryOK(r)
        /\ r.batch[q] = IF Valid(Registry, q, offer[q]) THEN offer[q] ELSE {}
        /\ \A p \in Registered \ {q} : r.batch[p] = Registry.batch[p]
    BY <1>1, <2>2, ReplaceKeeps
  <2>. HIDE DEF r
  <2>4. /\ RegistryOK(Registry)' /\ ScanGoes(d)
        /\ \A p \in Registered : batch'[p] = r.batch[p] \/ p \in Plugins \ seen
        /\ batch'[Builtin] = r.batch[Builtin]
    <3>1. scan[d].at # "none"  BY <2>1
    <3>2. seen \in SUBSET Plugins /\ rest \in SUBSET Plugins  BY <1>8, <2>1
    <3>. HIDE DEF seen, rest
    <3>. QED  BY <1>1, <2>1, <2>3, <3>1, <3>2, OnwardKeeps
  <2>5. batch'[Builtin] = batch[Builtin]  BY <1>2, <2>2, <2>3, <2>4 DEF Registry
  <2>6. ASSUME NEW p \in Registered, batch'[p] # batch[p]  PROVE MayChange(p)
    <3>1. CASE p \notin scan[d].seen
      <4>1. p \in Plugins  BY <2>5, <2>6 DEF Registered
      <4>. QED  BY <2>1, <3>1, <4>1 DEF MayChange
    <3>2. CASE p \in scan[d].seen
      <4>1. batch'[p] = r.batch[p]  BY <2>4, <3>2
      <4>2. p = q  BY <2>3, <2>6, <4>1 DEF Registry
      <4>. QED  BY <2>2, <2>3, <4>1, <4>2 DEF MayChange, Fit
    <3>. QED  BY <3>1, <3>2
  <2>. QED  BY <2>1, <2>4, <2>5, <2>6
<1>10. CASE Undescribed(d)
  <2>. DEFINE q == Asked(d)
              seen == scan[d].seen
              rest == scan[d].todo \ {q}
              r == Reject(Registry, {q})
  <2>1. /\ scan[d].at = "describing"
        /\ Onward(d, r, seen, rest)
        /\ UNCHANGED <<host, beat, shut>>
        /\ q \notin visible \/ troubles' = troubles + 1
    BY <1>10 DEF Undescribed
  <2>2. q \in Registered /\ q \in Plugins  BY <1>1, <1>2, <1>8, <2>1
  <2>7. q = Asked(d)  OBVIOUS
  <2>. HIDE DEF q
  <2>3. /\ RegistryOK(r)
        /\ \A p \in Registered : r.batch[p] = IF p \in {q} THEN {} ELSE Registry.batch[p]
    BY <1>1, <2>2, DropKeeps
  <2>. HIDE DEF r
  <2>4. /\ RegistryOK(Registry)' /\ ScanGoes(d)
        /\ \A p \in Registered : batch'[p] = r.batch[p] \/ p \in Plugins \ seen
        /\ batch'[Builtin] = r.batch[Builtin]
    <3>1. scan[d].at # "none"  BY <2>1
    <3>2. seen \in SUBSET Plugins /\ rest \in SUBSET Plugins  BY <1>8, <2>1
    <3>. HIDE DEF seen, rest
    <3>. QED  BY <1>1, <2>1, <2>3, <3>1, <3>2, OnwardKeeps
  <2>5. batch'[Builtin] = batch[Builtin]  BY <1>2, <2>2, <2>3, <2>4 DEF Registry
  <2>6. ASSUME NEW p \in Registered, batch'[p] # batch[p]  PROVE MayChange(p)
    <3>1. CASE p \notin scan[d].seen
      <4>1. p \in Plugins  BY <2>5, <2>6 DEF Registered
      <4>. QED  BY <2>1, <3>1, <4>1 DEF MayChange
    <3>2. CASE p \in scan[d].seen
      <4>1. batch'[p] = r.batch[p]  BY <2>4, <3>2
      <4>2. p = q  BY <2>3, <2>6, <4>1 DEF Registry
      <4>3. CASE q \notin visible  BY <2>2, <4>2, <4>3 DEF MayChange, Fit
      <4>4. CASE troubles' = troubles + 1  BY <1>1, <2>1, <2>7, <4>2, <4>4 DEF MayChange
      <4>. QED  BY <2>1, <4>3, <4>4
    <3>. QED  BY <3>1, <3>2
  <2>. QED  BY <2>1, <2>4, <2>5, <2>6
<1>. QED  BY <1>5, <1>6, <1>7, <1>9, <1>10 DEF Scan

-----------------------------------------------------------------------------
(***************************************************************************)
(* The sequences of a start and of a close.                                *)
(***************************************************************************)
Steps == Resources \cup {"discovery", "scan"}

LEMMA SequencesAre ==
    /\ StartSequence \in Seq(Steps) /\ Len(StartSequence) = 10
    /\ StartSequence[1] = "store"
    /\ \A i \in 1 .. 10 : (StartSequence[i] = "discovery" <=> i = 7)
                          /\ (StartSequence[i] = "scan" <=> i = 8)
    /\ CleanupSequence \in Seq(Steps) /\ Len(CleanupSequence) = 9
    /\ CloseSequence \in Seq(Steps) /\ Len(CloseSequence) = 9
    /\ \A x \in Resources : \E i \in 1 .. 9 : CleanupSequence[i] = x
    /\ \A x \in Resources : \E i \in 1 .. 9 : CloseSequence[i] = x
    /\ \A i \in 1 .. 9 : CleanupSequence[i] = "store" <=> i = 9
    /\ \A i \in 1 .. 9 : CloseSequence[i] = "store" <=> i = 9
    /\ CleanupSequence[4] = "discovery" /\ CloseSequence[3] = "discovery"
<1>1. StartSequence \in Seq(Steps) /\ Len(StartSequence) = 10
  BY DEF StartSequence, Steps, Resources
<1>2. /\ StartSequence[1] = "store"
      /\ \A i \in 1 .. 10 : (StartSequence[i] = "discovery" <=> i = 7)
                            /\ (StartSequence[i] = "scan" <=> i = 8)
  BY DEF StartSequence
<1>3. CleanupSequence \in Seq(Steps) /\ Len(CleanupSequence) = 9
  BY DEF CleanupSequence, Steps, Resources
<1>4. CloseSequence \in Seq(Steps) /\ Len(CloseSequence) = 9
  BY DEF CloseSequence, Steps, Resources
<1>5. \A x \in Resources : \E i \in 1 .. 9 : CleanupSequence[i] = x
  <2>1. /\ CleanupSequence[1] = "tasks" /\ CleanupSequence[2] = "provider"
        /\ CleanupSequence[3] = "runtime" /\ CleanupSequence[5] = "feedback"
        /\ CleanupSequence[6] = "debug_store" /\ CleanupSequence[7] = "vector_index"
        /\ CleanupSequence[8] = "outbox" /\ CleanupSequence[9] = "store"
    BY DEF CleanupSequence
  <2>. QED  BY <2>1 DEF Resources
<1>6. \A x \in Resources : \E i \in 1 .. 9 : CloseSequence[i] = x
  <2>1. /\ CloseSequence[1] = "tasks" /\ CloseSequence[2] = "runtime"
        /\ CloseSequence[4] = "feedback" /\ CloseSequence[5] = "debug_store"
        /\ CloseSequence[6] = "outbox" /\ CloseSequence[7] = "vector_index"
        /\ CloseSequence[8] = "provider" /\ CloseSequence[9] = "store"
    BY DEF CloseSequence
  <2>. QED  BY <2>1 DEF Resources
<1>7. /\ \A i \in 1 .. 9 : CleanupSequence[i] = "store" <=> i = 9
      /\ CleanupSequence[4] = "discovery"
  BY DEF CleanupSequence
<1>8. /\ \A i \in 1 .. 9 : CloseSequence[i] = "store" <=> i = 9
      /\ CloseSequence[3] = "discovery"
  BY DEF CloseSequence
<1>. QED  BY <1>1, <1>2, <1>3, <1>4, <1>5, <1>6, <1>7, <1>8

\* What is left of a sequence, step by step.
LEMMA LeftIs ==
    ASSUME NEW S, NEW s \in Seq(S), NEW k \in 1 .. Len(s)
    PROVE  /\ Left(s, 1) = s /\ Left(s, Len(s) + 1) = <<>>
           /\ Left(s, k) # <<>> /\ Len(Left(s, k)) = Len(s) - k + 1
           /\ Head(Left(s, k)) = s[k] /\ Tail(Left(s, k)) = Left(s, k + 1)
<1>1. Len(s) \in Nat /\ k \in Int  BY LenProperties
<1>2. Left(s, 1) = s  BY SubSeqFull DEF Left
<1>3. Left(s, Len(s) + 1) = <<>>  BY <1>1, SubSeqEmpty DEF Left
<1>4. Head(Left(s, k)) = s[k] /\ Tail(Left(s, k)) = Left(s, k + 1)
  BY <1>1, HeadTailOfSubSeq DEF Left
<1>5. Len(Left(s, k)) = Len(s) - k + 1
  <2>1. \A i \in k .. Len(s) : s[i] \in S  BY <1>1, ElementOfSeq
  <2>. QED  BY <1>1, <2>1, SubSeqProperties DEF Left
<1>6. Left(s, k) # <<>>  BY <1>1, <1>5
<1>. QED  BY <1>2, <1>3, <1>4, <1>5, <1>6

\* A close begins with everything open that is open, and nothing gone.
LEMMA CloseBegins ==
    ASSUME NEW s \in {CleanupSequence, CloseSequence}, open' \subseteq Resources, todo' = s
    PROVE  CloseGoes(s)'
<1>1. /\ Len(s) = 9 /\ s \in Seq(Steps)
      /\ \A x \in Resources : \E i \in 1 .. 9 : s[i] = x
  BY SequencesAre
<1>2. Left(s, 1) = s  BY <1>1, LeftIs
<1>3. open' \subseteq {s[i] : i \in 1 .. Len(s)}  BY <1>1
<1>. QED  BY <1>1, <1>2, <1>3 DEF CloseGoes

-----------------------------------------------------------------------------
(***************************************************************************)
(* Steps that leave the lifecycle where it is.                             *)
(***************************************************************************)
LifecycleOK == TypeOK /\ StoreFirst /\ StartGoes /\ EndGoes /\ Reloading

\* The rest of a close that is under way, kept when what is gone stays gone.
LEMMA CloseIsKept ==
    ASSUME NEW s, CloseGoes(s), UNCHANGED <<open, todo>>, Gone => Gone'
    PROVE  CloseGoes(s)'
BY DEF CloseGoes

LEMMA LifecycleKept ==
    ASSUME LifecycleOK, UNCHANGED <<state, open, todo, current, life, update, shut>>,
           Gone => Gone'
    PROVE  LifecycleOK'
<1>1. TypeOK' /\ StoreFirst' /\ StartGoes' /\ Reloading'
  BY DEF LifecycleOK, TypeOK, StoreFirst, StartGoes, Reloading
<1>2. EndGoes'  BY CloseIsKept DEF LifecycleOK, EndGoes
<1>. QED  BY <1>1, <1>2 DEF LifecycleOK

\* A step of one scan: no other discovery is disturbed by it.
LEMMA ScanIsKept ==
    ASSUME DiscoveryOK, OneInService, TypeOK, NEW d \in Objects, ScanGoes(d),
           UNCHANGED <<current, shut, beat>>
    PROVE  DiscoveryOK' /\ OneInService' /\ (Gone => Gone')
<1>1. DiscoveryOK'
  BY DEF DiscoveryOK, ScanGoes, ScanOK
<1>2. OneInService'
  BY DEF OneInService, ScanGoes, Scanning, TypeOK
<1>3. ASSUME Gone  PROVE Gone'
  <2>1. CASE current = d  BY <1>3, <2>1 DEF Gone, ScanGoes
  <2>2. CASE current # d
    BY <1>3, <2>2 DEF Gone, ScanGoes, Scanning, TypeOK, DiscoveryOK
  <2>. QED  BY <2>1, <2>2
<1>. QED  BY <1>1, <1>2, <1>3

-----------------------------------------------------------------------------
(***************************************************************************)
(* Where a start or a close is, and where its next step takes it.          *)
(***************************************************************************)
LEMMA StartIsAt ==
    ASSUME StartGoes, state = "starting"
    PROVE  \E k \in 1 .. 10 :
              /\ todo = Left(StartSequence, k) /\ todo # <<>> /\ Len(todo) = 11 - k
              /\ Head(todo) = StartSequence[k] /\ Tail(todo) = Left(StartSequence, k + 1)
              /\ IF k = 1 THEN open = {} ELSE "store" \in open
              /\ current = IF k <= 7 THEN 0 ELSE 1
<1>1. /\ StartSequence \in Seq(Steps) /\ Len(StartSequence) = 10
      /\ \A i \in 1 .. 10 : StartSequence[i] = "discovery" <=> i = 7
  BY SequencesAre
<1>2. PICK k \in 1 .. 10 :
         /\ todo = Left(StartSequence, k)
         /\ IF k = 1 THEN open = {} ELSE "store" \in open
         /\ current = IF \E i \in 1 .. k - 1 : StartSequence[i] = "discovery" THEN 1 ELSE 0
  BY <1>1 DEF StartGoes
<1>3. (\E i \in 1 .. k - 1 : StartSequence[i] = "discovery") <=> k > 7  BY <1>1
<1>4. /\ todo # <<>> /\ Len(todo) = 10 - k + 1
      /\ Head(todo) = StartSequence[k] /\ Tail(todo) = Left(StartSequence, k + 1)
  <2>. DEFINE s == StartSequence
  <2>. HIDE DEF s
  <2>1. s \in Seq(Steps) /\ Len(s) = 10 /\ todo = Left(s, k)  BY <1>1, <1>2 DEF s
  <2>2. /\ Left(s, k) # <<>> /\ Len(Left(s, k)) = Len(s) - k + 1
        /\ Head(Left(s, k)) = s[k] /\ Tail(Left(s, k)) = Left(s, k + 1)
    BY <2>1, LeftIs
  <2>. QED  BY <2>1, <2>2 DEF s
<1>5. 10 - k + 1 = 11 - k  OBVIOUS
<1>6. current = IF k <= 7 THEN 0 ELSE 1  BY <1>2, <1>3
<1>7. Len(todo) = 11 - k  BY <1>4, <1>5
<1>. QED  BY <1>2, <1>4, <1>6, <1>7, Zenon

LEMMA StartGoesTo ==
    ASSUME NEW k \in 2 .. 10, state' = "starting", todo' = Left(StartSequence, k),
           "store" \in open', current' = IF k <= 7 THEN 0 ELSE 1, shut' = {}, update' = "ready"
    PROVE  StartGoes'
<1>1. /\ Len(StartSequence) = 10
      /\ \A i \in 1 .. 10 : StartSequence[i] = "discovery" <=> i = 7
  BY SequencesAre
<1>2. (\E i \in 1 .. k - 1 : StartSequence[i] = "discovery") <=> k > 7  BY <1>1
<1>3. \E j \in 1 .. Len(StartSequence) :
         /\ todo' = Left(StartSequence, j)
         /\ IF j = 1 THEN open' = {} ELSE "store" \in open'
         /\ current' = IF \E i \in 1 .. j - 1 : StartSequence[i] = "discovery" THEN 1 ELSE 0
  BY <1>1, <1>2
<1>. QED  BY <1>3 DEF StartGoes

LEMMA CloseIsAt ==
    ASSUME NEW s \in {CleanupSequence, CloseSequence}, CloseGoes(s)
    PROVE  /\ todo = <<>> => open = {} /\ Gone
           /\ todo # <<>> =>
                 \E k \in 1 .. 9 :
                    /\ Head(todo) = s[k] /\ Tail(todo) = Left(s, k + 1)
                    /\ open \subseteq {s[i] : i \in k .. 9}
                    /\ (\E i \in 1 .. k - 1 : s[i] = "discovery") => Gone
<1>1. s \in Seq(Steps) /\ Len(s) = 9 /\ \E i \in 1 .. 9 : s[i] = "discovery"
  BY SequencesAre
<1>2. PICK k \in 1 .. 10 :
         /\ todo = Left(s, k)
         /\ open \subseteq {s[i] : i \in k .. 9}
         /\ (\E i \in 1 .. k - 1 : s[i] = "discovery") => Gone
  BY <1>1 DEF CloseGoes
<1>3. CASE k = 10
  <2>1. Left(s, Len(s) + 1) = <<>>  BY <1>1, LeftIs
  <2>2. todo = <<>>  BY <1>1, <1>2, <1>3, <2>1
  <2>3. open = {} /\ Gone  BY <1>1, <1>2, <1>3
  <2>. QED  BY <2>2, <2>3
<1>4. CASE k # 10
  <2>1. k \in 1 .. 9  BY <1>4
  <2>2. todo # <<>> /\ Head(todo) = s[k] /\ Tail(todo) = Left(s, k + 1)
    BY <1>1, <1>2, <2>1, LeftIs
  <2>. QED  BY <1>2, <2>1, <2>2
<1>. QED  BY <1>3, <1>4

LEMMA CloseGoesTo ==
    ASSUME NEW s \in {CleanupSequence, CloseSequence}, NEW k \in 1 .. 9,
           todo' = Left(s, k + 1), open' \subseteq {s[i] : i \in k .. 9}, s[k] \notin open',
           (\E i \in 1 .. k : s[i] = "discovery") => Gone'
    PROVE  CloseGoes(s)'
<1>1. Len(s) = 9  BY SequencesAre
<1>2. open' \subseteq {s[i] : i \in k + 1 .. 9}  BY SMT
<1>3. (k + 1) - 1 = k /\ k + 1 \in 1 .. 10  OBVIOUS
<1>4. \E j \in 1 .. Len(s) + 1 :
         /\ todo' = Left(s, j)
         /\ open' \subseteq {s[i] : i \in j .. Len(s)}
         /\ (\E i \in 1 .. j - 1 : s[i] = "discovery") => Gone'
  BY <1>1, <1>2, <1>3
<1>. QED  BY <1>4 DEF CloseGoes

-----------------------------------------------------------------------------
(***************************************************************************)
(* The initial states, and the steps one by one.                           *)
(***************************************************************************)
LEMMA InitHolds == Init => IInv
<1>. SUFFICES ASSUME Init PROVE IInv  OBVIOUS
<1>. USE DEF Init, InitExtensions
<1>1. HostOK
  <2>1. visible \subseteq Plugins /\ bad \subseteq Plugins  BY ExtensionAssumption
  <2>. QED  BY <2>1 DEF HostOK
<1>2. RegistryOK(Registry)  BY ExtensionAssumption DEF RegistryOK, Registry
<1>3. DiscoveryOK  BY EmptySeq DEF DiscoveryOK, ScanOK, Idle, Ats
<1>4. BuiltinStays  BY DEF BuiltinStays, Registered
<1>5. ExtensionsOK  BY <1>1, <1>2, <1>3, <1>4 DEF ExtensionsOK
<1>6. TypeOK /\ StoreFirst  BY ExtensionAssumption DEF TypeOK, StoreFirst, States
<1>7. StartGoes  BY DEF StartGoes
<1>8. EndGoes  BY DEF EndGoes, Ended
<1>9. OneInService  BY DEF OneInService, Objects, Idle
<1>10. Reloading  BY DEF Reloading
<1>. QED  BY <1>5, <1>6, <1>7, <1>8, <1>9, <1>10 DEF IInv

\* Nothing of the discovery is touched.
LEMMA ExtensionsKept ==
    ASSUME IInv, UNCHANGED extensions
    PROVE  ExtensionsOK' /\ (current' = current => OneInService' /\ (Gone => Gone'))
<1>. USE DEF extensions, host, registry, discovery, bounds, IInv
<1>1. HostOK' /\ BuiltinStays' /\ troubles' \in Nat
  BY DEF ExtensionsOK, HostOK, BuiltinStays
<1>2. RegistryOK(Registry)'  BY DEF ExtensionsOK, Registry, RegistryOK
<1>3. DiscoveryOK'  BY DEF ExtensionsOK, DiscoveryOK, ScanOK
<1>4. current' = current => OneInService' /\ (Gone => Gone')
  BY DEF OneInService, Gone, Scanning
<1>. QED  BY <1>1, <1>2, <1>3, <1>4 DEF ExtensionsOK

LEMMA LoadKeeps == ASSUME IInv, Load PROVE IInv'
<1>1. ExtensionsOK' /\ OneInService'  BY ExtensionsKept DEF Load
<1>2. /\ state = "new" /\ state' = "starting" /\ todo' = StartSequence
      /\ UNCHANGED <<extensions, open, current, life, update>>
  BY DEF Load
<1>3. TypeOK' /\ StoreFirst'  BY <1>2 DEF IInv, TypeOK, StoreFirst, States
<1>4. StartGoes'
  <2>1. current = 0 /\ open = {} /\ shut = {} /\ update = "ready"
    BY <1>2 DEF IInv, StartGoes
  <2>2. Left(StartSequence, 1) = StartSequence /\ Len(StartSequence) = 10
    BY SequencesAre, LeftIs
  <2>3. shut' = shut  BY <1>2 DEF extensions, discovery
  <2>. QED  BY <1>2, <2>1, <2>2, <2>3 DEF StartGoes
<1>5. EndGoes'  BY <1>2 DEF EndGoes, Ended
<1>6. Reloading'  BY <1>2 DEF IInv, Reloading
<1>. QED  BY <1>1, <1>3, <1>4, <1>5, <1>6 DEF IInv

LEMMA OpenKeeps == ASSUME IInv, Open PROVE IInv'
<1>1. PICK k \in 1 .. 10 :
         /\ todo = Left(StartSequence, k) /\ todo # <<>> /\ Len(todo) = 11 - k
         /\ Head(todo) = StartSequence[k] /\ Tail(todo) = Left(StartSequence, k + 1)
         /\ IF k = 1 THEN open = {} ELSE "store" \in open
         /\ current = IF k <= 7 THEN 0 ELSE 1
  BY StartIsAt DEF IInv, Open, Opened, Opening
<1>2. /\ state = "starting" /\ todo' = Tail(todo)
      /\ UNCHANGED <<host, scan, shut, bounds, current, life, gate, update, caller>>
  BY DEF Open, Opened, Opening
<1>3. shut = {} /\ update = "ready"  BY <1>2 DEF IInv, StartGoes
<1>4. \/ /\ Head(todo) = "provider"
         /\ Becomes(Replace(Registry, Builtin, offer[Builtin]))
      \/ UNCHANGED registry
  BY DEF Open, Opened, Opening
<1>5. /\ Head(todo) \in Resources
      /\ \/ open' = open \cup {Head(todo)}
         \/ open' = open /\ Head(todo) \in Optional
  BY DEF Open, Opened, Opening, Optional, Resources
<1>6. RegistryOK(Registry)' /\ BuiltinStays'
  <2>1. ExtensionsOK  BY DEF IInv
  <2>2. RegistryOK(Registry) /\ BuiltinStays /\ Builtin \in Registered
        /\ offer[Builtin] \in SUBSET Ids
    BY <2>1 DEF ExtensionsOK, HostOK, Registered
  <2>3. CASE Becomes(Replace(Registry, Builtin, offer[Builtin]))
    <3>1. /\ RegistryOK(Replace(Registry, Builtin, offer[Builtin]))
          /\ Replace(Registry, Builtin, offer[Builtin]).batch[Builtin] \in {{}, offer[Builtin]}
      BY <2>2, ReplaceKeeps
    <3>2. /\ RegistryOK(Registry)'
          /\ batch' = Replace(Registry, Builtin, offer[Builtin]).batch
      BY <2>3, <3>1, BecomesKeeps
    <3>. QED  BY <1>2, <3>1, <3>2 DEF BuiltinStays, host
  <2>4. CASE UNCHANGED registry
    BY <1>2, <2>2, <2>4 DEF registry, Registry, RegistryOK, BuiltinStays, host
  <2>. QED  BY <1>4, <2>3, <2>4
<1>7. HostOK' /\ troubles' \in Nat
  BY <1>2 DEF IInv, ExtensionsOK, HostOK, host, bounds
<1>8. k = 10 => current = 1  BY <1>1
<1>9. beat' = IF Len(todo) = 1 THEN [beat EXCEPT ![current] = "sleeping"] ELSE beat
  BY DEF Open
<1>10. DiscoveryOK'
  BY <1>2, <1>3, <1>9 DEF IInv, ExtensionsOK, DiscoveryOK, ScanOK
<1>11. OneInService'
  <2>1. \A d \in Objects : d > current => beat'[d] = "none"
    BY <1>9 DEF IInv, OneInService, ExtensionsOK, DiscoveryOK
  <2>. QED  BY <1>2, <2>1 DEF IInv, OneInService, Scanning
<1>12. state' \in States /\ open' \subseteq Resources
  BY <1>2, <1>5 DEF IInv, TypeOK, States, Open
<1>13. "store" \in open'
  <2>1. k = 1 => Head(todo) = "store"  BY <1>1, SequencesAre
  <2>. QED  BY <1>1, <1>5, <2>1 DEF Optional
<1>14. TypeOK' /\ StoreFirst'  BY <1>2, <1>12, <1>13 DEF IInv, TypeOK, StoreFirst
<1>15. StartGoes' /\ Reloading' /\ EndGoes'
  <2>1. CASE k = 10
    <3>1. state' = "running"  BY <1>1, <2>1 DEF Open
    <3>. QED  BY <1>2, <1>3, <1>8, <2>1, <3>1 DEF StartGoes, Reloading, EndGoes, Ended
  <2>2. CASE k # 10
    <3>1. state' = "starting"  BY <1>1, <1>2, <2>2 DEF Open
    <3>2. k # 7
      BY <1>1, <1>5, SequencesAre DEF Resources
    <3>3. k + 1 \in 2 .. 10 /\ current = IF k + 1 <= 7 THEN 0 ELSE 1
      BY <1>1, <2>2, <3>2
    <3>4. StartGoes'  BY <1>1, <1>2, <1>3, <1>13, <3>1, <3>3, StartGoesTo
    <3>. QED  BY <1>2, <1>3, <3>1, <3>3, <3>4 DEF Reloading, EndGoes, Ended
  <2>. QED  BY <2>1, <2>2
<1>. QED
  BY <1>6, <1>7, <1>10, <1>11, <1>14, <1>15 DEF IInv, ExtensionsOK

\* A refresh makes a scan that makes no call yet, or joins the one there is.
LEMMA JoinedKeeps ==
    ASSUME DiscoveryOK, NEW d \in Objects, Joined(d)
    PROVE  /\ DOMAIN scan' = Objects /\ \A e \in Objects : ScanOK(scan[e])'
           /\ \A e \in Objects : Scanning(e)' <=> Scanning(e)
           /\ \A e \in Objects \ {d} : scan'[e] = scan[e]
<1>1. DOMAIN scan = Objects /\ \A e \in Objects : ScanOK(scan[e])  BY DEF DiscoveryOK
<1>2. CASE scan[d].at = "none" /\ d \notin shut
  <2>1. scan' = [scan EXCEPT ![d] = [Idle EXCEPT !.at = "made"]]  BY <1>2 DEF Joined
  <2>2. scan'[d] = [at |-> "made", todo |-> {}, seen |-> {}]  BY <1>1, <2>1 DEF Idle
  <2>3. \A e \in Objects \ {d} : scan'[e] = scan[e]  BY <1>1, <2>1
  <2>4. ScanOK(scan[d])'  BY <2>2, EmptySeq DEF ScanOK, Ats
  <2>5. \A e \in Objects \ {d} : ScanOK(scan[e])'  BY <1>1, <2>3 DEF ScanOK
  <2>6. ~Scanning(d) /\ ~Scanning(d)'  BY <1>2, <2>2 DEF Scanning
  <2>7. \A e \in Objects \ {d} : Scanning(e)' <=> Scanning(e)  BY <2>3 DEF Scanning
  <2>. QED  BY <1>1, <2>1, <2>3, <2>4, <2>5, <2>6, <2>7
<1>3. CASE ~(scan[d].at = "none" /\ d \notin shut)
  <2>1. scan' = scan  BY <1>3 DEF Joined
  <2>. QED  BY <1>1, <2>1 DEF Scanning, ScanOK
<1>. QED  BY <1>2, <1>3

\* It is the discovery in service that is asked.
LEMMA JoinedCurrent ==
    ASSUME IInv, current \in Objects, Joined(current),
           UNCHANGED <<host, registry, beat, shut, bounds, current>>
    PROVE  ExtensionsOK' /\ OneInService' /\ (Gone => Gone')
<1>. USE DEF IInv, ExtensionsOK
<1>1. /\ DOMAIN scan' = Objects /\ \A e \in Objects : ScanOK(scan[e])'
      /\ \A e \in Objects : Scanning(e)' <=> Scanning(e)
      /\ \A e \in Objects \ {current} : scan'[e] = scan[e]
  BY JoinedKeeps
<1>2. HostOK' /\ BuiltinStays' /\ troubles' \in Nat
  BY DEF HostOK, BuiltinStays, host, registry, bounds
<1>3. RegistryOK(Registry)'  BY DEF Registry, RegistryOK, registry
<1>4. DiscoveryOK'  BY <1>1 DEF DiscoveryOK
<1>5. OneInService'  BY <1>1 DEF OneInService, Objects
<1>6. Gone => Gone'  BY <1>1 DEF Gone
<1>. QED  BY <1>2, <1>3, <1>4, <1>5, <1>6

LEMMA DiscoveringKeeps == ASSUME IInv, Discovering PROVE IInv'
<1>1. /\ state = "starting"
      /\ UNCHANGED <<host, registry, beat, shut, bounds, state, open, life, gate, update, caller>>
  BY DEF Discovering, Discover, Opening
<1>2. PICK k \in 1 .. 10 :
         /\ todo = Left(StartSequence, k) /\ todo # <<>> /\ Len(todo) = 11 - k
         /\ Head(todo) = StartSequence[k] /\ Tail(todo) = Left(StartSequence, k + 1)
         /\ IF k = 1 THEN open = {} ELSE "store" \in open
         /\ current = IF k <= 7 THEN 0 ELSE 1
  BY <1>1, StartIsAt DEF IInv
<1>3. shut = {} /\ update = "ready"  BY <1>1 DEF IInv, StartGoes
<1>4. CASE /\ Opening("discovery")
           /\ current' = 1 /\ todo' = Tail(todo) /\ UNCHANGED scan
  <2>1. k = 7  BY <1>2, <1>4, SequencesAre DEF Opening
  <2>2. current = 0  BY <1>2, <2>1
  <2>3. UNCHANGED extensions  BY <1>1, <1>4 DEF extensions, discovery
  <2>4. ExtensionsOK'  BY <2>3, ExtensionsKept
  <2>5. OneInService'
    BY <1>1, <1>3, <1>4, <2>2 DEF IInv, OneInService, Objects, Scanning
  <2>6. TypeOK' /\ StoreFirst'
    BY <1>1, <1>4, ServicesAssumption, ExtensionAssumption DEF IInv, TypeOK, StoreFirst
  <2>7. StartGoes'
    <3>1. "store" \in open  BY <1>2, <2>1
    <3>2. todo' = Left(StartSequence, 8)  BY <1>2, <1>4, <2>1
    <3>. QED  BY <1>1, <1>3, <1>4, <3>1, <3>2, StartGoesTo
  <2>8. EndGoes'  BY <1>1 DEF EndGoes, Ended
  <2>9. Reloading'  BY <1>1, <1>3, <1>4 DEF Reloading
  <2>. QED  BY <2>4, <2>5, <2>6, <2>7, <2>8, <2>9 DEF IInv
<1>5. CASE Opening("scan") /\ Joined(current) /\ UNCHANGED <<current, todo>>
  <2>1. k = 8  BY <1>2, <1>5, SequencesAre DEF Opening
  <2>2. current \in Objects  BY <1>2, <2>1, ExtensionAssumption DEF Objects
  <2>3. ExtensionsOK' /\ OneInService' /\ (Gone => Gone')
    BY <1>1, <1>5, <2>2, JoinedCurrent
  <2>4. LifecycleOK'  BY <1>1, <1>5, <2>3, LifecycleKept DEF IInv, LifecycleOK
  <2>. QED  BY <2>3, <2>4 DEF IInv, LifecycleOK
<1>. QED  BY <1>4, <1>5 DEF Discovering, Discover

LEMMA RefreshKeeps == ASSUME IInv, NEW c \in Callers, Refresh(c) PROVE IInv'
<1>1. /\ state = "running" /\ Joined(current)
      /\ UNCHANGED <<host, registry, beat, shut, bounds, state, open, todo, current, life, update>>
  BY DEF Refresh
<1>2. current \in Objects  BY <1>1 DEF IInv, TypeOK, Reloading, Objects
<1>3. ExtensionsOK' /\ OneInService' /\ (Gone => Gone')  BY <1>1, <1>2, JoinedCurrent
<1>4. LifecycleOK'  BY <1>1, <1>3, LifecycleKept DEF IInv, LifecycleOK
<1>. QED  BY <1>3, <1>4 DEF IInv, LifecycleOK

LEMMA TickedKeeps == ASSUME IInv, NEW d \in Objects, Ticked(d) PROVE IInv'
<1>. USE DEF IInv
<1>1. /\ beat[d] = "sleeping" /\ Joined(d) /\ beat' = [beat EXCEPT ![d] = "scanning"]
      /\ UNCHANGED <<host, registry, shut, bounds, services>>
  BY DEF Ticked, Tick
<1>2. DiscoveryOK /\ OneInService  BY DEF ExtensionsOK
<1>3. /\ DOMAIN scan' = Objects /\ \A e \in Objects : ScanOK(scan[e])'
      /\ \A e \in Objects : Scanning(e)' <=> Scanning(e)
      /\ \A e \in Objects \ {d} : scan'[e] = scan[e]
  BY <1>1, <1>2, JoinedKeeps
<1>4. d \notin shut /\ ~(d > current)  BY <1>1, <1>2 DEF DiscoveryOK, OneInService
<1>5. /\ beat' \in [Objects -> {"none", "sleeping", "scanning"}]
      /\ \A e \in Objects \ {d} : beat'[e] = beat[e]
  BY <1>1, <1>2 DEF DiscoveryOK
<1>6. DiscoveryOK'  BY <1>1, <1>2, <1>3, <1>4, <1>5 DEF DiscoveryOK
<1>7. OneInService'  BY <1>1, <1>2, <1>3, <1>4, <1>5 DEF OneInService, services
<1>8. HostOK' /\ BuiltinStays' /\ troubles' \in Nat /\ RegistryOK(Registry)'
  BY <1>1 DEF ExtensionsOK, HostOK, BuiltinStays, host, registry, bounds, Registry, RegistryOK
<1>9. Gone => Gone'  BY <1>1, <1>3 DEF Gone, services, TypeOK, Objects
<1>10. LifecycleOK'  BY <1>1, <1>9, LifecycleKept DEF LifecycleOK, services
<1>. QED  BY <1>6, <1>7, <1>8, <1>10 DEF LifecycleOK, ExtensionsOK

LEMMA ScannedKeeps == ASSUME IInv, NEW d \in Objects, Discoveried(d) PROVE IInv'
<1>. USE DEF IInv
<1>1. Scan(d) /\ UNCHANGED services  BY DEF Discoveried
<1>2. /\ RegistryOK(Registry)' /\ ScanGoes(d)
      /\ UNCHANGED <<host, beat, shut>> /\ batch'[Builtin] = batch[Builtin]
  BY <1>1, ScanKeeps
<1>3. DiscoveryOK' /\ OneInService' /\ (Gone => Gone')
  BY <1>1, <1>2, ScanIsKept DEF ExtensionsOK, services
<1>4. troubles' \in Nat
  BY <1>1 DEF Scan, Begin, Unlist, Listed, Described, Undescribed, ExtensionsOK, bounds
<1>5. HostOK' /\ BuiltinStays'
  BY <1>2 DEF ExtensionsOK, HostOK, BuiltinStays, host
<1>6. LifecycleOK'  BY <1>1, <1>2, <1>3, LifecycleKept DEF LifecycleOK, services
<1>. QED  BY <1>2, <1>3, <1>4, <1>5, <1>6 DEF LifecycleOK, ExtensionsOK

LEMMA HostChangedKeeps == ASSUME IInv, HostChanged PROVE IInv'
<1>. USE DEF IInv
<1>1. HostChanges /\ UNCHANGED <<registry, discovery, troubles, services>>
  BY DEF HostChanged, HostChanges
<1>2. HostOK' /\ offer'[Builtin] = offer[Builtin]
  <2>1. HostOK  BY DEF ExtensionsOK
  <2>2. PICK p \in Plugins :
           \/ visible' = (visible \ {p}) \cup ({p} \ visible) /\ UNCHANGED <<bad, offer>>
           \/ bad' = (bad \ {p}) \cup ({p} \ bad) /\ UNCHANGED <<visible, offer>>
           \/ \E ids \in Offers[p] \ {offer[p]} :
                offer' = [offer EXCEPT ![p] = ids] /\ UNCHANGED <<visible, bad>>
    BY <1>1 DEF HostChanges
  <2>3. p \in Registered /\ p # Builtin /\ Offers[p] \subseteq SUBSET Ids
    BY ExtensionAssumption DEF Registered
  <2>4. visible' \subseteq Plugins /\ bad' \subseteq Plugins  BY <2>1, <2>2 DEF HostOK
  <2>5. /\ offer' \in [Registered -> SUBSET Ids]
        /\ offer'[Builtin] = offer[Builtin]
    <3>1. offer \in [Registered -> SUBSET Ids]  BY <2>1 DEF HostOK
    <3>2. CASE offer' = offer  BY <3>1, <3>2
    <3>3. CASE \E ids \in Offers[p] \ {offer[p]} : offer' = [offer EXCEPT ![p] = ids]
      <4>1. PICK ids \in SUBSET Ids : offer' = [offer EXCEPT ![p] = ids]  BY <2>3, <3>3
      <4>. QED  BY <2>3, <3>1, <4>1
    <3>. QED  BY <2>2, <3>2, <3>3
  <2>. QED  BY <2>4, <2>5 DEF HostOK
<1>3. /\ BuiltinStays' /\ troubles' \in Nat /\ RegistryOK(Registry)' /\ DiscoveryOK'
  BY <1>1, <1>2 DEF ExtensionsOK, BuiltinStays, registry, discovery, Registry, RegistryOK,
                    DiscoveryOK, ScanOK
<1>4. OneInService' /\ (Gone => Gone')
  BY <1>1 DEF OneInService, Gone, Scanning, services, discovery
<1>5. LifecycleOK'  BY <1>1, <1>4, LifecycleKept DEF LifecycleOK, services, discovery
<1>. QED  BY <1>2, <1>3, <1>4, <1>5 DEF LifecycleOK, ExtensionsOK

LEMMA ToldKeeps == ASSUME IInv, NEW d \in Objects, Told(d) PROVE IInv'
<1>. USE DEF IInv
<1>1. /\ scan[d].at \in {"telling", "ended"}
      /\ scan' = [scan EXCEPT ![d] = Idle]
      /\ beat' = [beat EXCEPT ![d] = IF @ = "scanning" THEN "sleeping" ELSE @]
      /\ UNCHANGED <<host, registry, shut, changes, open, current, life, update>>
  BY DEF Told
<1>2. \/ UNCHANGED <<state, todo>>
      \/ /\ state = "starting" /\ todo # <<>> /\ Head(todo) = "scan"
         /\ todo' = Tail(todo) /\ UNCHANGED state
      \/ /\ state = "starting"
         /\ state' = "cleanup" /\ todo' = CleanupSequence
  BY DEF Told
<1>3. troubles' \in Nat  BY DEF Told, ExtensionsOK
<1>4. DiscoveryOK /\ OneInService  BY DEF ExtensionsOK
<1>5. /\ DOMAIN scan' = Objects /\ scan'[d] = [at |-> "none", todo |-> {}, seen |-> {}]
      /\ \A e \in Objects \ {d} : scan'[e] = scan[e]
  BY <1>1, <1>4 DEF DiscoveryOK, Idle
<1>6. /\ beat' \in [Objects -> {"none", "sleeping", "scanning"}]
      /\ \A e \in Objects : beat[e] = "none" => beat'[e] = "none"
  BY <1>1, <1>4 DEF DiscoveryOK
<1>7. ScanGoes(d)
  <2>1. ScanOK(scan[d])'  BY <1>5, EmptySeq DEF ScanOK, Ats
  <2>2. ~Scanning(d)'  BY <1>5 DEF Scanning
  <2>3. scan[d].at # "none"  BY <1>1
  <2>. QED  BY <1>5, <2>1, <2>2, <2>3 DEF ScanGoes
<1>8. \A e \in Objects : ScanOK(scan[e])'
  <2>1. \A e \in Objects \ {d} : ScanOK(scan[e])'  BY <1>4, <1>5 DEF DiscoveryOK, ScanOK
  <2>. QED  BY <1>7, <2>1 DEF ScanGoes
<1>9. DiscoveryOK'  BY <1>1, <1>4, <1>5, <1>6, <1>8 DEF DiscoveryOK
<1>10. OneInService'
  BY <1>1, <1>4, <1>5, <1>6 DEF OneInService, Scanning
<1>11. Gone => Gone'  BY <1>1, <1>4, <1>5 DEF Gone, Scanning, DiscoveryOK
<1>12. HostOK' /\ BuiltinStays' /\ RegistryOK(Registry)'
  BY <1>1 DEF ExtensionsOK, HostOK, BuiltinStays, host, registry, Registry, RegistryOK
<1>13. LifecycleOK'
  <2>1. CASE UNCHANGED <<state, todo>>
    BY <1>1, <1>11, <2>1, LifecycleKept DEF LifecycleOK
  <2>2. CASE /\ state = "starting" /\ todo # <<>> /\ Head(todo) = "scan"
             /\ todo' = Tail(todo) /\ UNCHANGED state
    <3>1. PICK k \in 1 .. 10 :
             /\ Head(todo) = StartSequence[k] /\ Tail(todo) = Left(StartSequence, k + 1)
             /\ IF k = 1 THEN open = {} ELSE "store" \in open
             /\ current = IF k <= 7 THEN 0 ELSE 1
      BY <2>2, StartIsAt
    <3>2. k = 8  BY <2>2, <3>1, SequencesAre
    <3>3. shut = {} /\ update = "ready" /\ "store" \in open /\ current = 1
      BY <2>2, <3>1, <3>2 DEF StartGoes
    <3>4. StartGoes'  BY <1>1, <2>2, <3>1, <3>2, <3>3, StartGoesTo
    <3>5. TypeOK' /\ StoreFirst' /\ EndGoes' /\ Reloading'
      BY <1>1, <2>2, <3>3 DEF TypeOK, StoreFirst, EndGoes, Ended, Reloading
    <3>. QED  BY <3>4, <3>5 DEF LifecycleOK
  <2>3. CASE /\ state = "starting"
             /\ state' = "cleanup" /\ todo' = CleanupSequence
    <3>1. update = "ready" /\ current <= 1  BY <2>3 DEF StartGoes, Reloading
    <3>2. open' \subseteq Resources  BY <1>1 DEF TypeOK
    <3>3. CloseGoes(CleanupSequence)'  BY <2>3, <3>2, CloseBegins
    <3>4. TypeOK' /\ StoreFirst' /\ StartGoes' /\ EndGoes' /\ Reloading'
      BY <1>1, <2>3, <3>1, <3>3
      DEF TypeOK, States, StoreFirst, StartGoes, EndGoes, Ended, Reloading
    <3>. QED  BY <3>4 DEF LifecycleOK
  <2>. QED  BY <1>2, <2>1, <2>2, <2>3
<1>. QED  BY <1>3, <1>9, <1>10, <1>12, <1>13 DEF LifecycleOK, ExtensionsOK

LEMMA RaiseKeeps == ASSUME IInv, Raise PROVE IInv'
<1>1. /\ state = "starting" /\ troubles' = troubles + 1
      /\ state' = "cleanup" /\ todo' = CleanupSequence
      /\ UNCHANGED <<host, registry, discovery, open, current, life, update>>
  BY DEF Raise
<1>2. ExtensionsOK' /\ OneInService'
  BY <1>1 DEF IInv, ExtensionsOK, HostOK, BuiltinStays, host, registry, discovery, Registry,
              RegistryOK, DiscoveryOK, ScanOK, OneInService, Scanning
<1>3. update = "ready" /\ current <= 1  BY <1>1 DEF IInv, StartGoes, Reloading
<1>4. CloseGoes(CleanupSequence)'  BY <1>1, CloseBegins DEF IInv, TypeOK
<1>5. TypeOK' /\ StoreFirst' /\ StartGoes' /\ EndGoes' /\ Reloading'
  BY <1>1, <1>3, <1>4
  DEF IInv, TypeOK, States, StoreFirst, StartGoes, EndGoes, Ended, Reloading
<1>. QED  BY <1>2, <1>5 DEF IInv

LEMMA CloseKeeps == ASSUME IInv, Close PROVE IInv'
<1>1. /\ state \in {"running", "failed"} /\ life = Free
      /\ state' = "closing" /\ todo' = CloseSequence
      /\ UNCHANGED <<extensions, open, current, update>>
  BY DEF Close
<1>2. ExtensionsOK' /\ OneInService'  BY <1>1, ExtensionsKept
<1>3. update \notin {"waiting", "closing"}  BY <1>1 DEF IInv, Reloading, Free, Reload
<1>4. CloseGoes(CloseSequence)'  BY <1>1, CloseBegins DEF IInv, TypeOK
<1>5. TypeOK' /\ StoreFirst' /\ StartGoes' /\ EndGoes' /\ Reloading'
  BY <1>1, <1>3, <1>4
  DEF IInv, TypeOK, States, StoreFirst, StartGoes, EndGoes, Ended, Reloading
<1>. QED  BY <1>2, <1>5 DEF IInv

\* The sequence of the close that is under way.
TheClose == IF state = "cleanup" THEN CleanupSequence ELSE CloseSequence

LEMMA TheCloseGoes ==
    ASSUME IInv, state \in {"cleanup", "closing"}
    PROVE  \E s \in {CleanupSequence, CloseSequence} :
              s = TheClose /\ CloseGoes(s)
BY DEF IInv, EndGoes, TheClose

LEMMA TheCloseGoesOn ==
    ASSUME state \in {"cleanup", "closing"}, state' = state, NEW s, s = TheClose, CloseGoes(s)'
    PROVE  EndGoes' /\ StartGoes'
BY DEF EndGoes, StartGoes, TheClose, Ended

LEMMA ShutKeeps == ASSUME IInv, Shut PROVE IInv'
<1>1. /\ state \in {"cleanup", "closing"} /\ todo # <<>> /\ Head(todo) # "discovery"
      /\ open' = open \ {Head(todo)} /\ todo' = Tail(todo)
      /\ UNCHANGED <<extensions, state, current, life, update>>
  BY DEF Shut
<1>2. ExtensionsOK' /\ OneInService' /\ (Gone => Gone')  BY <1>1, ExtensionsKept
<1>3. PICK s \in {CleanupSequence, CloseSequence} : s = TheClose /\ CloseGoes(s)
  BY <1>1, TheCloseGoes
<1>4. PICK k \in 1 .. 9 :
         /\ Head(todo) = s[k] /\ Tail(todo) = Left(s, k + 1)
         /\ open \subseteq {s[i] : i \in k .. 9}
         /\ (\E i \in 1 .. k - 1 : s[i] = "discovery") => Gone
  BY <1>1, <1>3, CloseIsAt
<1>5. (\E i \in 1 .. k : s[i] = "discovery") => Gone'
  <2>1. s[k] # "discovery"  BY <1>1, <1>4
  <2>2. \A i \in 1 .. k : i = k \/ i \in 1 .. k - 1  OBVIOUS
  <2>. QED  BY <1>2, <1>4, <2>1, <2>2
<1>6. CloseGoes(s)'
  <2>1. open' \subseteq {s[i] : i \in k .. 9} /\ s[k] \notin open'  BY <1>1, <1>4
  <2>. QED  BY <1>1, <1>4, <1>5, <2>1, CloseGoesTo
<1>7. EndGoes' /\ StartGoes'  BY <1>1, <1>3, <1>6, TheCloseGoesOn
<1>8. StoreFirst'
  <2>1. \A i \in 1 .. 9 : s[i] = "store" <=> i = 9  BY SequencesAre
  <2>2. CASE k = 9
    <3>1. open' = {}  BY <1>1, <1>4, <2>2
    <3>. QED  BY <3>1 DEF StoreFirst
  <2>3. CASE k # 9
    <3>1. Head(todo) # "store"  BY <1>4, <2>1, <2>3
    <3>. QED  BY <1>1, <3>1 DEF IInv, StoreFirst
  <2>. QED  BY <2>2, <2>3
<1>9. TypeOK' /\ Reloading'  BY <1>1 DEF IInv, TypeOK, Reloading
<1>. QED  BY <1>2, <1>7, <1>8, <1>9 DEF IInv

\* A discovery that closes has no task any more, and what its scan is about to
\* do is nothing.
LEMMA HaltKeeps ==
    ASSUME IInv, current \in Objects, Halt(current),
           UNCHANGED <<host, registry, scan, bounds, current>>
    PROVE  ExtensionsOK' /\ OneInService' /\ (Gone => Gone')
<1>. USE DEF IInv, ExtensionsOK
<1>1. /\ shut' = shut \cup {current}
      /\ beat' = [beat EXCEPT ![current] = "none"]
  BY DEF Halt
<1>2. HostOK' /\ BuiltinStays' /\ troubles' \in Nat /\ RegistryOK(Registry)'
  BY DEF HostOK, BuiltinStays, host, registry, bounds, Registry, RegistryOK
<1>3. /\ beat' \in [Objects -> {"none", "sleeping", "scanning"}]
      /\ beat'[current] = "none" /\ \A e \in Objects \ {current} : beat'[e] = beat[e]
  BY <1>1 DEF DiscoveryOK
<1>4. DiscoveryOK'  BY <1>1, <1>3 DEF DiscoveryOK, ScanOK
<1>5. OneInService'  BY <1>1, <1>3 DEF OneInService, Scanning, Objects
<1>6. Gone => Gone'  BY <1>1 DEF Gone, Scanning
<1>. QED  BY <1>2, <1>4, <1>5, <1>6

LEMMA ShutDiscoveryKeeps == ASSUME IInv, ShutDiscovery PROVE IInv'
<1>1. /\ state \in {"cleanup", "closing"} /\ todo # <<>> /\ Head(todo) = "discovery"
      /\ UNCHANGED <<host, registry, scan, bounds, state, open, current, life, update>>
  BY DEF ShutDiscovery
<1>2. TypeOK' /\ StoreFirst' /\ Reloading'  BY <1>1 DEF IInv, TypeOK, StoreFirst, Reloading
<1>3. PICK s \in {CleanupSequence, CloseSequence} : s = TheClose /\ CloseGoes(s)
  BY <1>1, TheCloseGoes
<1>4. PICK k \in 1 .. 9 :
         /\ Head(todo) = s[k] /\ Tail(todo) = Left(s, k + 1)
         /\ open \subseteq {s[i] : i \in k .. 9}
         /\ (\E i \in 1 .. k - 1 : s[i] = "discovery") => Gone
  BY <1>1, <1>3, CloseIsAt
<1>5. CASE current = 0 \/ current \in shut
  <2>1. /\ current # 0 => Halted(current)
        /\ todo' = Tail(todo) /\ UNCHANGED <<shut, beat>>
    BY <1>5 DEF ShutDiscovery
  <2>2. UNCHANGED extensions  BY <1>1, <2>1 DEF extensions, discovery
  <2>3. ExtensionsOK' /\ OneInService' /\ (Gone => Gone')  BY <1>1, <2>2, ExtensionsKept
  <2>4. Gone  BY <2>1 DEF Halted, Gone
  <2>5. s[k] \notin open'  BY <1>1, <1>4 DEF IInv, TypeOK, Resources
  <2>6. CloseGoes(s)'  BY <1>1, <1>4, <2>1, <2>3, <2>4, <2>5, CloseGoesTo
  <2>7. EndGoes' /\ StartGoes'  BY <1>1, <1>3, <2>6, TheCloseGoesOn
  <2>. QED  BY <1>2, <2>3, <2>7 DEF IInv
<1>6. CASE ~(current = 0 \/ current \in shut)
  <2>1. Halt(current) /\ UNCHANGED todo  BY <1>6 DEF ShutDiscovery
  <2>2. current \in Objects  BY <1>6 DEF IInv, TypeOK, Objects
  <2>3. ExtensionsOK' /\ OneInService' /\ (Gone => Gone')  BY <1>1, <2>1, <2>2, HaltKeeps
  <2>4. CloseGoes(s)'  BY <1>1, <1>3, <2>1, <2>3, CloseIsKept
  <2>5. EndGoes' /\ StartGoes'  BY <1>1, <1>3, <2>4, TheCloseGoesOn
  <2>. QED  BY <1>2, <2>3, <2>5 DEF IInv
<1>. QED  BY <1>5, <1>6

LEMMA FinishKeeps == ASSUME IInv, Finish PROVE IInv'
<1>1. /\ state \in {"cleanup", "closing"} /\ todo = <<>> /\ state' \in Ended
      /\ UNCHANGED <<extensions, open, todo, current, update>>
  BY DEF Finish, Over, Ended
<1>2. PICK s \in {CleanupSequence, CloseSequence} : s = TheClose /\ CloseGoes(s)
  BY <1>1, TheCloseGoes
<1>3. open = {} /\ Gone  BY <1>1, <1>2, CloseIsAt
<1>4. ExtensionsOK' /\ OneInService' /\ Gone'  BY <1>1, <1>3, ExtensionsKept
<1>5. update \notin {"waiting", "closing"}  BY <1>1 DEF IInv, Reloading
<1>6. TypeOK' /\ StoreFirst' /\ StartGoes' /\ EndGoes' /\ Reloading'
  BY <1>1, <1>3, <1>4, <1>5
  DEF IInv, TypeOK, States, StoreFirst, StartGoes, EndGoes, Ended, Reloading
<1>. QED  BY <1>4, <1>6 DEF IInv

LEMMA ConfigureKeeps == ASSUME IInv, Configure PROVE IInv'
<1>1. /\ update = "ready" /\ state = "running" /\ life' = Reload /\ update' = "waiting"
      /\ UNCHANGED <<extensions, state, open, todo, current>>
  BY DEF Configure
<1>2. ExtensionsOK' /\ OneInService' /\ (Gone => Gone')  BY <1>1, ExtensionsKept
<1>3. current = 1  BY <1>1 DEF IInv, TypeOK, Reloading
<1>4. TypeOK' /\ StoreFirst' /\ StartGoes' /\ EndGoes' /\ Reloading'
  BY <1>1, <1>3 DEF IInv, TypeOK, StoreFirst, StartGoes, EndGoes, Ended, Reloading
<1>. QED  BY <1>2, <1>4 DEF IInv

LEMMA ConfigureGateKeeps == ASSUME IInv, ConfigureGate PROVE IInv'
<1>1. /\ update = "waiting" /\ update' = "closing" /\ Halt(current)
      /\ UNCHANGED <<host, registry, scan, bounds, state, open, todo, current, life>>
  BY DEF ConfigureGate
<1>2. state = "running" /\ life = Reload /\ current = 1  BY <1>1 DEF IInv, Reloading
<1>3. current \in Objects  BY <1>2, ExtensionAssumption DEF Objects
<1>4. ExtensionsOK' /\ OneInService'  BY <1>1, <1>3, HaltKeeps
<1>5. TypeOK' /\ StoreFirst' /\ StartGoes' /\ EndGoes' /\ Reloading'
  BY <1>1, <1>2 DEF IInv, TypeOK, StoreFirst, StartGoes, EndGoes, Ended, Reloading
<1>. QED  BY <1>4, <1>5 DEF IInv

LEMMA ConfigureEndKeeps == ASSUME IInv, ConfigureEnd PROVE IInv'
<1>. USE DEF IInv, ExtensionsOK
<1>1. /\ update = "closing" /\ Halted(current) /\ current' = current + 1
      /\ beat' = [beat EXCEPT ![current + 1] = "sleeping"]
      /\ Becomes(Replace(Registry, Builtin, offer[Builtin]))
      /\ update' = "done"
      /\ UNCHANGED <<host, scan, shut, bounds, state, open, todo>>
  BY DEF ConfigureEnd
<1>2. state = "running" /\ current = 1  BY <1>1 DEF Reloading
<1>3. 1 \in Objects /\ 2 \in Objects /\ 2 \in 0 .. Discoveries /\ current' = 2
  BY <1>1, <1>2, ServicesAssumption, ExtensionAssumption DEF Objects
<1>4. 2 \notin shut /\ scan[2].at = "none"  BY <1>2, <1>3 DEF OneInService
<1>5. /\ beat' \in [Objects -> {"none", "sleeping", "scanning"}]
      /\ \A e \in Objects \ {2} : beat'[e] = beat[e]
  <2>1. beat' = [beat EXCEPT ![2] = "sleeping"]  BY <1>1, <1>2
  <2>. QED  BY <1>3, <2>1 DEF DiscoveryOK
<1>6. DiscoveryOK'  BY <1>1, <1>4, <1>5 DEF DiscoveryOK, ScanOK
<1>7. OneInService'
  <2>1. 1 \in shut /\ ~Scanning(1)  BY <1>1, <1>2 DEF Halted
  <2>2. ASSUME NEW e \in Objects, e < 2  PROVE e \in shut' /\ ~Scanning(e)'
    <3>1. e = 1  BY <2>2 DEF Objects
    <3>. QED  BY <1>1, <2>1, <3>1 DEF Scanning
  <2>3. ASSUME NEW e \in Objects, e > 2
        PROVE  scan'[e].at = "none" /\ beat'[e] = "none" /\ e \notin shut'
    <3>1. e > 1 /\ e # 2  BY <2>3 DEF Objects
    <3>. QED  BY <1>1, <1>2, <1>5, <3>1 DEF OneInService
  <2>. QED  BY <1>3, <2>2, <2>3 DEF OneInService
<1>8. RegistryOK(Registry)' /\ BuiltinStays'
  <2>1. RegistryOK(Registry) /\ Builtin \in Registered /\ offer[Builtin] \in SUBSET Ids
    BY DEF HostOK, Registered
  <2>2. /\ RegistryOK(Replace(Registry, Builtin, offer[Builtin]))
        /\ Replace(Registry, Builtin, offer[Builtin]).batch[Builtin] \in {{}, offer[Builtin]}
    BY <2>1, ReplaceKeeps
  <2>3. /\ RegistryOK(Registry)'
        /\ batch' = Replace(Registry, Builtin, offer[Builtin]).batch
    BY <1>1, <2>2, BecomesKeeps
  <2>. QED  BY <1>1, <2>2, <2>3 DEF BuiltinStays, host
<1>9. HostOK' /\ troubles' \in Nat  BY <1>1 DEF HostOK, host, bounds
<1>10. TypeOK' /\ StoreFirst' /\ StartGoes' /\ EndGoes' /\ Reloading'
  BY <1>1, <1>2, <1>3 DEF TypeOK, StoreFirst, StartGoes, EndGoes, Ended, Reloading
<1>. QED  BY <1>6, <1>7, <1>8, <1>9, <1>10

LEMMA StutterKeeps == ASSUME IInv, UNCHANGED vars PROVE IInv'
<1>1. UNCHANGED <<extensions, services>>  BY DEF vars
<1>2. ExtensionsOK' /\ OneInService' /\ (Gone => Gone')
  BY <1>1, ExtensionsKept DEF services
<1>3. LifecycleOK'
  BY <1>1, <1>2, LifecycleKept DEF IInv, LifecycleOK, services, extensions, discovery
<1>. QED  BY <1>2, <1>3 DEF IInv, LifecycleOK

LEMMA StepKeeps == IInv /\ [Next]_vars => IInv'
<1>. SUFFICES ASSUME IInv, [Next]_vars PROVE IInv'  OBVIOUS
<1>1. CASE Load  BY <1>1, LoadKeeps
<1>2. CASE Runs
  BY <1>2, OpenKeeps, DiscoveringKeeps, ShutKeeps, ShutDiscoveryKeeps, FinishKeeps,
     ConfigureGateKeeps, ConfigureEndKeeps
  DEF Runs
<1>3. CASE Raise  BY <1>3, RaiseKeeps
<1>4. CASE Close  BY <1>4, CloseKeeps
<1>5. CASE Configure  BY <1>5, ConfigureKeeps
<1>6. CASE HostChanged  BY <1>6, HostChangedKeeps
<1>7. CASE Stopped  BY <1>7, StutterKeeps DEF Stopped
<1>8. CASE \E d \in Objects : Goes(d)
  BY <1>8, ScannedKeeps, ToldKeeps, TickedKeeps DEF Goes
<1>9. CASE \E c \in Callers : Refresh(c)  BY <1>9, RefreshKeeps
<1>10. CASE UNCHANGED vars  BY <1>10, StutterKeeps
<1>. QED  BY <1>1, <1>2, <1>3, <1>4, <1>5, <1>6, <1>7, <1>8, <1>9, <1>10 DEF Next

-----------------------------------------------------------------------------
(***************************************************************************)
(* The theorems.                                                           *)
(***************************************************************************)

\* The lifecycle and the discovery keep to the invariant: a start opens its
\* resources from the store on, a close comes by everything that is open, the
\* discoveries follow one another.
THEOREM Invariant == Spec => []IInv
<1>. QED  BY InitHolds, StepKeeps, PTL DEF Spec

\* A definition is in the batch of one provider at most, the one _owners names.
THEOREM OneOwnerAlways == Spec => []OneOwner
<1>1. IInv => OneOwner  BY DEF IInv, ExtensionsOK, RegistryOK, Registry, OneOwner
<1>. QED  BY <1>1, Invariant, PTL

\* No resource is open without the store, a discovery that was replaced makes no
\* call of the host, and once a close or the cleanup of a start has ended no
\* resource is open and no discovery has a task or a scan.
THEOREM NothingOutlivesTheEnd == Spec => []NothingOutlives
<1>1. IInv => NothingOutlives
  <2>. SUFFICES ASSUME IInv PROVE NothingOutlives  OBVIOUS
  <2>. USE DEF IInv, ExtensionsOK
  <2>1. ASSUME NEW d \in Objects, Scanning(d)  PROVE d = current /\ state \notin Ended
    <3>1. ~(d < current) /\ ~(d > current)
      BY <2>1 DEF OneInService, Scanning
    <3>2. d = current  BY <3>1 DEF Objects, TypeOK
    <3>. QED  BY <2>1, <3>2 DEF EndGoes, Gone, Objects
  <2>2. ASSUME NEW d \in Objects, state \in Ended  PROVE beat[d] = "none"
    <3>1. Gone  BY <2>2 DEF EndGoes
    <3>2. CASE d < current  BY <3>2 DEF OneInService, DiscoveryOK
    <3>3. CASE d > current  BY <3>3 DEF OneInService
    <3>4. CASE d = current  BY <3>1, <3>4 DEF Gone, DiscoveryOK, Objects
    <3>. QED  BY <3>2, <3>3, <3>4 DEF Objects, TypeOK
  <2>. QED  BY <2>1, <2>2 DEF NothingOutlives, NothingLeft, OneScanner, StoreFirst, EndGoes, Ended
<1>. QED  BY <1>1, Invariant, PTL

\* A batch goes only for a newer one, or because a scan has found its plugin
\* gone or its answer unfit.
THEOREM ListedStaysListed == Spec => ListedStays
<1>. DEFINE A == \A p \in Registered : batch[p] # {} /\ batch'[p] # batch[p] => MayChange(p)
<1>1. IInv /\ [Next]_vars => [A]_extensions
  <2>. SUFFICES ASSUME IInv, [Next]_vars PROVE A \/ UNCHANGED extensions  OBVIOUS
  <2>1. ExtensionsOK  BY DEF IInv
  <2>2. CASE UNCHANGED batch  BY <2>2
  <2>3. CASE \E d \in Objects : Discoveried(d)
    <3>1. PICK d \in Objects : Scan(d)  BY <2>3 DEF Discoveried
    <3>. QED  BY <2>1, <3>1, ScanKeeps
  <2>4. CASE /\ Becomes(Replace(Registry, Builtin, offer[Builtin]))
             /\ UNCHANGED offer
    <3>1. RegistryOK(Registry) /\ Builtin \in Registered /\ offer[Builtin] \in SUBSET Ids
      BY <2>1 DEF ExtensionsOK, HostOK, Registered
    <3>2. \A p \in Registered \ {Builtin} : batch'[p] = batch[p]
      BY <2>4, <3>1, ReplaceKeeps DEF Becomes, Registry
    <3>3. batch[Builtin] # {} => batch'[Builtin] = offer[Builtin]
      BY <2>1, <2>4, BuiltinIsInstalled
    <3>. QED  BY <3>2, <3>3 DEF MayChange
  <2>. QED
    BY <2>2, <2>3, <2>4
    DEF Next, Runs, Goes, Load, Open, Opened, Discovering, Shut, ShutDiscovery, Finish, Raise,
        Close, Configure, ConfigureGate, ConfigureEnd, HostChanged, HostChanges, Stopped, Told,
        Ticked, Tick, Refresh, vars, extensions, host, registry
<1>2. [A]_extensions =>
         [\A p \in Registered : batch[p] # {} /\ batch'[p] # batch[p] =>
             \/ batch'[p] = offer[p]
             \/ p \in Plugins /\ ~Fit(p)
             \/ \E d \in Objects : /\ scan[d].at = "describing"
                                   /\ \/ p \in Plugins \ scan[d].seen
                                      \/ p = Asked(d) /\ troubles' # troubles]_extensions
  BY DEF MayChange
<1>. QED  BY <1>1, <1>2, Invariant, PTL DEF Spec, ListedStays
=============================================================================
