------------------------------ MODULE Extensions ------------------------------
(***************************************************************************)
(* The registries of agents and procedures (agents/registry.py,            *)
(* procedures/registry.py) and the discovery that fills them from the      *)
(* plugins of the host (extensions/discovery.py).                          *)
(*                                                                         *)
(* A provider is a plugin and the kind of its descriptor, so that the two  *)
(* registries, which share no identifier, are one here.  A definition      *)
(* stands for its identifier; Offers keeps to the namespace of the plugin, *)
(* which another plugin may share, and an answer that does not, or breaks  *)
(* the contract, is one of the troubles.  A call of the host is a step that *)
(* starts it and a step that ends it; what lies between two calls is one   *)
(* step.                                                                   *)
(***************************************************************************)
EXTENDS Naturals, Sequences, FiniteSets

CONSTANTS Providers,    \* in the order of a scan: agents, then procedures
          Builtin,      \* the provider the plugin installs itself
          Ids,          \* of definitions
          Offers,       \* of a provider: the batches its descriptor may answer with
          Shown,        \* the plugins the host may list at first
          Discoveries,  \* the objects of ExtensionDiscovery, in the order of their making
          MaxChanges,   \* bound: of what the host shows
          MaxTroubles   \* bound: calls that fail

None == "none"
Plugins == {Providers[i] : i \in DOMAIN Providers}
Registered == Plugins \cup {Builtin}

ASSUME ExtensionAssumption ==
    /\ Builtin \notin Plugins /\ None \notin Registered /\ Providers \in Seq(Plugins)
    /\ Shown \subseteq SUBSET Plugins /\ Discoveries \in Nat \ {0}
    /\ \A p \in Registered : Offers[p] \subseteq SUBSET Ids /\ Offers[p] # {}

VARIABLES visible,   \* the host lists a descriptor of the plugin
          bad,       \* its descriptor breaks the contract, or is there twice
          offer,     \* what it answers
          batch,     \* _providers: of each provider
          owner,     \* _owners: of each identifier
          known,     \* provider_ids: those with a health that is not "removed"
          scan,      \* of each discovery: _inflight_refresh
          beat,      \* of each discovery: the background task
          shut,      \* the discoveries that are _closed
          changes, troubles
host == <<visible, bad, offer>>
registry == <<batch, owner, known>>
discovery == <<scan, beat, shut>>
bounds == <<changes, troubles>>
extensions == <<host, registry, discovery, bounds>>

Objects == 1 .. Discoveries
Idle == [at |-> "none", todo |-> {}, seen |-> {}]

InitExtensions ==
    /\ visible \in Shown /\ bad = {}
    /\ offer \in {o \in [Registered -> SUBSET Ids] : \A p \in Registered : o[p] \in Offers[p]}
    /\ batch = [p \in Registered |-> {}] /\ owner = [i \in Ids |-> None] /\ known = {}
    /\ scan = [d \in Objects |-> Idle] /\ beat = [d \in Objects |-> "none"]
    /\ shut = {} /\ changes = 0 /\ troubles = 0

-----------------------------------------------------------------------------
(***************************************************************************)
(* Registries, as operators from a registry r to the next one.             *)
(***************************************************************************)
Registry == [batch |-> batch, owner |-> owner, known |-> known]
Becomes(r) == batch' = r.batch /\ owner' = r.owner /\ known' = r.known

\* Mutant of Drop: the identifiers keep their owner.
DropBatch(r, P) == [r EXCEPT !.batch = [p \in Registered |-> IF p \in P THEN {} ELSE @[p]]]
\* _drop_provider, of each of the providers P: one does not touch another's.
Drop(r, P) == [batch |-> [p \in Registered |-> IF p \in P THEN {} ELSE r.batch[p]],
               owner |-> [i \in Ids |-> IF \E p \in P : i \in r.batch[p] THEN None ELSE r.owner[i]],
               known |-> r.known]

\* Mutant of Valid: an identifier may be claimed by another provider.
ValidUnowned(r, p, ids) == TRUE
\* _validate_batch: all of a batch or nothing of it.
Valid(r, p, ids) == \A i \in ids : r.owner[i] \in {None, p}

Reject(r, P) == [Drop(r, P) EXCEPT !.known = @ \cup P]
Leave(r, P) == [Drop(r, P) EXCEPT !.known = @ \ P]

\* replace_provider
Replace(r, p, ids) ==
    IF Valid(r, p, ids)
    THEN [batch |-> [r.batch EXCEPT ![p] = ids],
          owner |-> [i \in Ids |-> IF i \in ids THEN p
                                   ELSE IF i \in r.batch[p] THEN None ELSE r.owner[i]],
          known |-> r.known \cup {p}]
    ELSE Reject(r, {p})

\* The catalogs a round is started with.
Live == UNION {batch[p] : p \in Registered}

-----------------------------------------------------------------------------
(***************************************************************************)
(* One scan.  _refresh_lock is held from the listing to the last answer.   *)
(***************************************************************************)
Scanning(d) == scan[d].at \in {"listing", "describing"}
At(d, at) == scan' = [scan EXCEPT ![d].at = at]

\* refresh() joins the scan that is under way, or makes one; a discovery that
\* is closed has nothing to say.
Joined(d) == scan' = IF scan[d].at = "none" /\ d \notin shut
                     THEN [scan EXCEPT ![d] = [Idle EXCEPT !.at = "made"]] ELSE scan

Begin(d) == /\ scan[d].at = "made"
            /\ At(d, IF d \in shut THEN "ended" ELSE "listing")
            /\ UNCHANGED <<host, registry, beat, shut, bounds>>

\* The plugins a scan has not seen leave, the builtin provider excepted.
Swept(r, seen) == Leave(r, r.known \ (seen \cup {Builtin}))

\* Mutant of Unlisted: a listing that fails lists nothing.
UnlistedSwept(d) == /\ Becomes(Swept(Registry, {}))
                    /\ At(d, "telling") /\ UNCHANGED <<host, beat, shut, changes>>
\* ctx.api.list raises, or returns no list: the registries are left alone.
Unlisted(d) == /\ At(d, "telling") /\ UNCHANGED <<host, registry, beat, shut, changes>>
Unlist(d) == /\ scan[d].at = "listing" /\ troubles < MaxTroubles
             /\ troubles' = troubles + 1 /\ Unlisted(d)

\* The rest of a scan, from the registry r on: the next descriptor, unless the
\* discovery is closed, and after the last one the sweep.
Onward(d, r, seen, todo) ==
    IF todo # {} /\ d \notin shut
    THEN /\ Becomes(r)
         /\ scan' = [scan EXCEPT ![d] = [at |-> "describing", todo |-> todo, seen |-> seen]]
    ELSE /\ Becomes(IF todo = {} THEN Swept(r, seen) ELSE r)
         /\ scan' = [scan EXCEPT ![d] = [Idle EXCEPT !.at = "telling"]]

\* Descriptors that break the contract are rejected at once.
Listed(d) ==
    /\ scan[d].at = "listing"
    /\ IF d \in shut THEN At(d, "ended") /\ UNCHANGED registry
       ELSE Onward(d, Reject(Registry, visible \cap bad), visible, visible \ bad)
    /\ UNCHANGED <<host, beat, shut, bounds>>

\* The descriptors are asked in the order of the providers.
Place == [p \in Plugins |-> CHOOSE i \in DOMAIN Providers : Providers[i] = p]
Asked(d) == CHOOSE p \in scan[d].todo : \A q \in scan[d].todo : Place[p] <= Place[q]
\* The answer to describe_agents or describe_procedures, which may be of a
\* plugin that the host has dropped since; one that is gone does not answer.
Described(d) ==
    /\ scan[d].at = "describing"
    /\ LET p == Asked(d) IN
       /\ p \in visible
       /\ Onward(d, Replace(Registry, p, offer[p]), scan[d].seen, scan[d].todo \ {p})
    /\ UNCHANGED <<host, beat, shut, bounds>>
Undescribed(d) ==
    /\ scan[d].at = "describing"
    /\ LET p == Asked(d) IN
       /\ Onward(d, Reject(Registry, {p}), scan[d].seen, scan[d].todo \ {p})
       /\ \/ p \notin visible /\ UNCHANGED troubles
          \/ troubles < MaxTroubles /\ troubles' = troubles + 1
    /\ UNCHANGED <<host, beat, shut, changes>>

-----------------------------------------------------------------------------
(***************************************************************************)
(* The background task, and the end of a discovery.                        *)
(***************************************************************************)
\* The interval is over, or a refresh was requested.
Tick(d) == /\ beat[d] = "sleeping"
           /\ Joined(d)
           /\ beat' = [beat EXCEPT ![d] = "scanning"]
           /\ UNCHANGED <<host, registry, shut, bounds>>

\* Mutant of Halted: the scan under way is not waited for.
HaltedAtOnce(d) == d \in shut
\* close(): the flag and the cancellation of the task, which leaves the scan it
\* has joined, and then the lock.
Halt(d) == /\ shut' = shut \cup {d}
           /\ beat' = [beat EXCEPT ![d] = "none"]
Halted(d) == d \in shut /\ ~Scanning(d)

\* What a scan does before those who wait for it return: see Services.
Scan(d) == Begin(d) \/ Unlist(d) \/ Listed(d) \/ Described(d) \/ Undescribed(d)

\* The host loads and unloads plugins, which change what they offer.
HostChanges ==
    /\ changes < MaxChanges /\ changes' = changes + 1
    /\ \E p \in Plugins :
          \/ visible' = (visible \ {p}) \cup ({p} \ visible) /\ UNCHANGED <<bad, offer>>
          \/ bad' = (bad \ {p}) \cup ({p} \ bad) /\ UNCHANGED <<visible, offer>>
          \/ \E ids \in Offers[p] \ {offer[p]} :
                offer' = [offer EXCEPT ![p] = ids] /\ UNCHANGED <<visible, bad>>
    /\ UNCHANGED <<registry, discovery, troubles>>

-----------------------------------------------------------------------------
(***************************************************************************)
(* Properties                                                              *)
(***************************************************************************)

\* A definition is live in one provider's batch at most, the one that owns it:
\* none is lost to or shadowed by another plugin of the same namespace.
OneOwner == \A i \in Ids, p \in Registered : i \in batch[p] <=> owner[i] = p

\* What the host shows of p now is a batch the registry takes.
Fit(p) == p \in visible \ bad /\ Valid(Registry, p, offer[p])

\* A batch leaves the registry, or changes, only for a newer one, or because its
\* plugin is gone or its answer unfit, because a scan that has listed others
\* did not list its plugin, or because the call that asked this plugin has
\* failed: not for a listing that failed, a scan that was cut short, or a
\* failing call of another plugin.  The builtin batch only ever gets newer.
ListedStays ==
    [][\A p \in Registered : batch[p] # {} /\ batch'[p] # batch[p] =>
          \/ batch'[p] = offer[p]
          \/ p \in Plugins /\ ~Fit(p)
          \/ \E d \in Objects : /\ scan[d].at = "describing"
                                /\ \/ p \in Plugins \ scan[d].seen
                                   \/ p = Asked(d) /\ troubles' # troubles]_extensions

-----------------------------------------------------------------------------
(***************************************************************************)
(* The parts of the inductive invariant that concern the discovery.        *)
(***************************************************************************)
\* What a registry is, with OneOwner.
RegistryOK(r) ==
    /\ r.batch \in [Registered -> SUBSET Ids]
    /\ r.owner \in [Ids -> Registered \cup {None}]
    /\ r.known \subseteq Registered
    /\ \A i \in Ids, p \in Registered : i \in r.batch[p] <=> r.owner[i] = p

HostOK == /\ visible \subseteq Plugins /\ bad \subseteq Plugins
          /\ offer \in [Registered -> SUBSET Ids]

Ats == {"none", "made", "listing", "describing", "telling", "ended"}
ScanOK(s) == /\ s \in [at : Ats, todo : SUBSET Plugins, seen : SUBSET Plugins]
             /\ s.at = "describing" => s.todo # {}

\* Every scan is one of these, and a discovery that is closed has no task.
DiscoveryOK == /\ DOMAIN scan = Objects /\ \A d \in Objects : ScanOK(scan[d])
               /\ beat \in [Objects -> {"none", "sleeping", "scanning"}]
               /\ shut \subseteq Objects
               /\ \A d \in shut : beat[d] = "none"

\* The builtin provider is never replaced by, nor rejected for, another.
BuiltinStays == batch[Builtin] \in {{}, offer[Builtin]}

ExtensionsOK == HostOK /\ RegistryOK(Registry) /\ DiscoveryOK /\ BuiltinStays /\ troubles \in Nat
=============================================================================
