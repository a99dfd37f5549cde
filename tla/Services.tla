------------------------------- MODULE Services -------------------------------
(***************************************************************************)
(* The lifecycle of the plugin (plugin.py, services.py): the resources are *)
(* opened one after the other and closed again, after a start that failed  *)
(* as well as at the unload, while the discovery scans the host, a         *)
(* configuration with a new interval replaces the discovery, and callers   *)
(* ask for a refresh.  What the resources do while they are open is the    *)
(* matter of the other modules.                                            *)
(*                                                                         *)
(* The host unloads a plugin after on_load has returned.  A resource that  *)
(* raises while it is closed is dropped like any other.                    *)
(***************************************************************************)
EXTENDS Extensions

CONSTANTS Callers, \* of refresh_extensions, once each
          Root     \* plugin.root_agent

VARIABLES state,   \* _state
          open,    \* resources that are open
          todo,    \* of start, _cleanup_start_failure or close: what is left
          current, \* _discovery, 0: none
          life,    \* who holds _lifecycle_lock
          gate,    \* who holds services._refresh_lock
          update,  \* of the one call of update_self_config
          caller   \* of each call of refresh_extensions
ASSUME ServicesAssumption ==
    /\ Discoveries >= 2 \* the one of the start, and the one of the reload
    /\ Callers \cap {"free", "reload", "unload"} = {}

services == <<state, open, todo, current, life, gate, update, caller>>
vars == <<extensions, services>>

Free == "free"
Reload == "reload"
Unload == "unload"
StartSequence == <<"store", "vector_index", "outbox", "feedback", "debug_store", "provider",
                   "discovery", "scan", "runtime", "tasks">>
CleanupSequence == <<"tasks", "provider", "runtime", "discovery", "feedback", "debug_store",
                     "vector_index", "outbox", "store">>
CloseSequence == <<"tasks", "runtime", "discovery", "feedback", "debug_store", "outbox",
                   "vector_index", "provider", "store">>
Resources == {"tasks", "runtime", "feedback", "debug_store", "outbox", "vector_index", "provider",
              "store"}
Optional == {"vector_index", "outbox"} \* without them the plugin is degraded

Init == /\ InitExtensions
        /\ state = "new" /\ open = {} /\ todo = <<>> /\ current = 0
        /\ life = Free /\ gate = Free
        /\ update = "ready" /\ caller = [c \in Callers |-> "ready"]

-----------------------------------------------------------------------------
(***************************************************************************)
(* The end of a scan: the listener stores the fingerprints, after the lock  *)
(* of the scan is released, and those who wait return.                     *)
(***************************************************************************)
Waiting == {c \in Callers : caller[c] = "scanning"}
\* Mutant of Gate: kept when the refresh raises.
GateStored(d, stored) == IF d = current /\ gate \in Waiting /\ stored THEN Free ELSE gate
Gate(d, stored) == IF d = current /\ gate \in Waiting THEN Free ELSE gate

\* The background task logs the error of a scan and goes on.
Told(d) ==
    /\ scan[d].at \in {"telling", "ended"}
    /\ \E stored \in BOOLEAN :
          /\ stored => scan[d].at = "ended" \/ "store" \in open
          /\ ~stored => scan[d].at = "telling" /\ ("store" \in open => troubles < MaxTroubles)
          /\ gate' = Gate(d, stored)
          /\ troubles' = IF ~stored /\ "store" \in open THEN troubles + 1 ELSE troubles
          /\ IF state = "starting" /\ todo # <<>> /\ Head(todo) = "scan"
             THEN IF stored /\ Root \in Live
                  THEN todo' = Tail(todo) /\ UNCHANGED state
                  ELSE state' = "cleanup" /\ todo' = CleanupSequence
             ELSE UNCHANGED <<state, todo>>
    /\ scan' = [scan EXCEPT ![d] = Idle]
    /\ beat' = [beat EXCEPT ![d] = IF @ = "scanning" THEN "sleeping" ELSE @]
    /\ caller' = IF d # current THEN caller
                 ELSE [c \in Callers |-> IF c \in Waiting THEN "done" ELSE caller[c]]
    /\ UNCHANGED <<host, registry, shut, changes, open, current, life, update>>

-----------------------------------------------------------------------------
Load == /\ state = "new"
        /\ state' = "starting" /\ todo' = StartSequence
        /\ UNCHANGED <<extensions, open, current, life, gate, update, caller>>

\* A step of start(): opened, or done without, or raised.
Opening(x) == state = "starting" /\ todo # <<>> /\ Head(todo) = x
Opened == \/ \E x \in Resources : /\ Opening(x) /\ open' = open \cup {x}
                                  /\ IF x = "provider" THEN Becomes(Replace(Registry, Builtin, offer[Builtin]))
                                     ELSE UNCHANGED registry
          \/ \E x \in Optional : Opening(x) /\ UNCHANGED <<open, registry>>
Open == /\ Opened
        /\ todo' = Tail(todo)
        /\ IF Len(todo) = 1
           THEN state' = "running" /\ beat' = [beat EXCEPT ![current] = "sleeping"]
           ELSE UNCHANGED <<state, beat>>
        /\ UNCHANGED <<host, scan, shut, bounds, current, life, gate, update, caller>>

Discover == \/ /\ Opening("discovery")
               /\ current' = 1 /\ todo' = Tail(todo) /\ UNCHANGED scan
            \/ /\ Opening("scan") /\ scan[current].at = "none"
               /\ Joined(current) /\ UNCHANGED <<current, todo>>
Discovering == Discover /\ UNCHANGED <<host, registry, beat, shut, bounds, state, open,
                                       life, gate, update, caller>>

\* One step raises: what was opened is closed again, in an order of its own.
Raise == /\ state = "starting" /\ troubles < MaxTroubles
         /\ \E x \in Resources \ {"vector_index"} : Opening(x)
         /\ troubles' = troubles + 1
         /\ state' = "cleanup" /\ todo' = CleanupSequence
         /\ UNCHANGED <<host, registry, discovery, changes, open, current, life, gate, update, caller>>

\* on_unload, or on_load after a start that failed.
Close == /\ state \in {"running", "failed"} /\ life = Free
         /\ life' = Unload
         /\ state' = "closing" /\ todo' = CloseSequence
         /\ UNCHANGED <<extensions, open, current, gate, update, caller>>

Over == IF state = "cleanup" THEN "failed" ELSE "closed"
\* Every resource is closed, whether or not those before it have raised.  A
\* resource is a whole here: what its close leaves running of its own (the
\* manager drops its report coordinators, and their synthesis tasks with them,
\* without a cancellation) is not part of this module.
Shut == /\ state \in {"cleanup", "closing"} /\ todo # <<>> /\ Head(todo) # "discovery"
        /\ open' = open \ {Head(todo)}
        /\ todo' = Tail(todo)
        /\ UNCHANGED <<extensions, state, current, life, gate, update, caller>>

ShutDiscovery ==
    /\ state \in {"cleanup", "closing"} /\ todo # <<>> /\ Head(todo) = "discovery"
    /\ IF current = 0 \/ current \in shut
       THEN (current # 0 => Halted(current)) /\ todo' = Tail(todo) /\ UNCHANGED <<shut, beat>>
       ELSE Halt(current) /\ UNCHANGED todo
    /\ UNCHANGED <<host, registry, scan, bounds, state, open, current, life, gate, update, caller>>

Finish == /\ state \in {"cleanup", "closing"} /\ todo = <<>>
          /\ state' = Over /\ life' = IF state = "closing" THEN Free ELSE life
          /\ UNCHANGED <<extensions, open, todo, current, gate, update, caller>>

-----------------------------------------------------------------------------
(***************************************************************************)
(* update_self_config with a new interval, under both locks, and           *)
(* refresh_extensions: one that finds the services closed raises, and      *)
(* changes nothing.                                                        *)
(***************************************************************************)
Configure == /\ update = "ready" /\ state = "running" /\ life = Free
             /\ life' = Reload /\ update' = "waiting"
             /\ UNCHANGED <<extensions, state, open, todo, current, gate, caller>>
ConfigureGate == /\ update = "waiting" /\ gate = Free
                 /\ gate' = Reload /\ update' = "closing"
                 /\ Halt(current)
                 /\ UNCHANGED <<host, registry, scan, bounds, state, open, todo, current, life, caller>>
\* The old discovery has closed: the new one starts, and the builtin
\* procedures are described anew.
ConfigureEnd ==
    /\ update = "closing" /\ Halted(current)
    /\ current' = current + 1
    /\ beat' = [beat EXCEPT ![current + 1] = "sleeping"]
    /\ Becomes(Replace(Registry, Builtin, offer[Builtin]))
    /\ life' = Free /\ gate' = Free /\ update' = "done"
    /\ UNCHANGED <<host, scan, shut, bounds, state, open, todo, caller>>

\* refresh_extensions
Refresh(c) == /\ caller[c] = "ready" /\ gate = Free /\ state = "running"
              /\ gate' = c /\ caller' = [caller EXCEPT ![c] = "scanning"]
              /\ Joined(current)
              /\ UNCHANGED <<host, registry, beat, shut, bounds, state, open, todo, current, life, update>>

Discoveried(d) == Scan(d) /\ UNCHANGED services
Ticked(d) == Tick(d) /\ UNCHANGED services
HostChanged == HostChanges /\ UNCHANGED services
Stopped == state = "closed" /\ UNCHANGED vars

Goes(d) == Discoveried(d) \/ Told(d) \/ Ticked(d)
Runs == \/ Open \/ Discovering \/ Shut \/ ShutDiscovery \/ Finish
        \/ ConfigureGate \/ ConfigureEnd
Next == \/ Load \/ Runs \/ Raise \/ Close \/ Configure \/ HostChanged \/ Stopped
        \/ \E d \in Objects : Goes(d)
        \/ \E c \in Callers : Refresh(c)

\* The event loop runs what can go on, each call of the host returns, and the
\* timer of a background task fires.
Spec == /\ Init /\ [][Next]_vars
        /\ WF_vars(Runs)
        /\ \A d \in Objects : WF_vars(Goes(d))

-----------------------------------------------------------------------------
(***************************************************************************)
(* Properties                                                              *)
(***************************************************************************)

\* What uses the store is closed before it, whichever step of a start fails and
\* whatever raises at the end, and when the plugin is gone no resource is open,
\* no discovery has its background task, and no scan is under way.
NothingLeft ==
    /\ open # {} => "store" \in open
    /\ state \in {"failed", "closed"} =>
          open = {} /\ \A d \in Objects : beat[d] = "none" /\ ~Scanning(d)

\* "保证卸载后不会再触发 Host RPC": calls of the host are made by one scan at a
\* time, the one of the discovery in service.
OneScanner == \A d \in Objects : Scanning(d) => d = current /\ state \notin {"failed", "closed"}

\* No scan or loop of a discovery and no open resource is at work beside, or
\* after, those in service.
NothingOutlives == NothingLeft /\ OneScanner

\* A close ends, and so do the cleanup of a start and the reload that a close may
\* have to wait for, whatever scan is under way: nothing of it goes on for ever.
CloseEnds == []<>(state \notin {"cleanup", "closing"} /\ life # Reload)

Alone(p) == /\ p \in visible \ bad
            /\ \A q \in visible \ {p} : offer[q] \cap offer[p] = {}

\* A plugin that stays, answers in good order and is not contested is in the
\* catalogs in the end, though the identifiers were another's before.
FitIsListed ==
    \A p \in Plugins :
        <>[](state = "running" /\ Alone(p)) => <>[](batch[p] = offer[p])

-----------------------------------------------------------------------------
(***************************************************************************)
(* The inductive invariant.                                                *)
(***************************************************************************)
States == {"new", "starting", "running", "cleanup", "failed", "closing", "closed"}
Ended == {"failed", "closed"}

TypeOK == /\ state \in States /\ open \subseteq Resources
          /\ current \in 0 .. Discoveries
          /\ update \in {"ready", "waiting", "closing", "done"}

\* What uses the store is open only with it.
StoreFirst == open # {} => "store" \in open

\* What is left to do is the rest of a sequence.
Left(s, k) == SubSeq(s, k, Len(s))

\* A start makes the one discovery when its turn comes, and closes none.
StartGoes ==
    /\ state = "new" => current = 0 /\ open = {}
    /\ state = "starting" =>
          \E k \in 1 .. Len(StartSequence) :
             /\ todo = Left(StartSequence, k)
             /\ IF k = 1 THEN open = {} ELSE "store" \in open
             /\ current = IF \E i \in 1 .. k - 1 : StartSequence[i] = "discovery" THEN 1 ELSE 0
    /\ state \in {"new", "starting"} => shut = {} /\ update = "ready"

\* The discovery in service has closed.
Gone == current = 0 \/ (current \in shut /\ ~Scanning(current))

\* What a close has come by is closed.
CloseGoes(s) ==
    \E k \in 1 .. Len(s) + 1 :
       /\ todo = Left(s, k)
       /\ open \subseteq {s[i] : i \in k .. Len(s)}
       /\ (\E i \in 1 .. k - 1 : s[i] = "discovery") => Gone
EndGoes ==
    /\ state = "cleanup" => CloseGoes(CleanupSequence)
    /\ state = "closing" => CloseGoes(CloseSequence)
    /\ state \in Ended => open = {} /\ Gone

\* The discoveries before the one in service have closed, those after it are
\* still to be made.
OneInService ==
    \A d \in Objects :
       /\ d < current => d \in shut /\ ~Scanning(d)
       /\ d > current => scan[d].at = "none" /\ beat[d] = "none" /\ d \notin shut

\* A reload has the lifecycle to itself, and there is one of it.
Reloading ==
    /\ state = "running" => current # 0
    /\ update = "ready" => current <= 1
    /\ update \in {"waiting", "closing"} => state = "running" /\ life = Reload /\ current = 1

IInv == /\ ExtensionsOK
        /\ TypeOK /\ StoreFirst /\ StartGoes /\ EndGoes /\ OneInService /\ Reloading
=============================================================================
