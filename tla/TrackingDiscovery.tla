--------------------------- MODULE TrackingDiscovery ---------------------------
(***************************************************************************)
(* Which entities exist for which orders, and which of them may show a     *)
(* location: the discovery callbacks of tracking.py and sensor.py, the     *)
(* entity registry they migrate, and the location consent of privacy.py.   *)
(*                                                                         *)
(* A unique id is an order, a kind and a form: "legacy" ids were used by   *)
(* earlier versions and name no config entry, "scoped" ids name the entry. *)
(* The status, ETA and fact sensors of an order come and go together and   *)
(* are one kind, "status", with no legacy form.  Ids that are no purchase  *)
(* ids (privacy.is_purchase_id) are ignored by the code and left out here. *)
(*                                                                         *)
(* Home Assistant (external) keeps the registry across restarts, adds      *)
(* entities one at a time after the callback that created them, refuses a  *)
(* unique id that is in use, leaves out disabled ones, and reloads the     *)
(* entry when an entity is enabled or the entry edited.                    *)
(***************************************************************************)
EXTENDS FiniteSets

CONSTANTS Order,      \* purchase ids
          Kind        \* the tracking kinds considered

ASSUME ConstantsAssumption ==
    "delivery" \in Kind /\ Kind \subseteq {"delivery", "pickup", "destination"}

Form == {"legacy", "scoped"}
Id   == [order : Order, kind : Kind \cup {"status"}, form : Form]
Place == Order \X Kind
Entity == [id : Id, allowed : BOOLEAN]

\* Not registered, registered to this entry, or registered to another one.
Item == {"none", "enabled", "disabled", "theirs"}

VARIABLES
    registry,    \* the entity registry
    maps,        \* the tracking_maps option
    inherited,   \* LEGACY_LOCATIONS of the entry's data
    migrated,    \* ... and whether it is there
    stage,       \* setup of the entry
    orders,      \* coordinator.data.orders
    active,      \* coordinator.data.active_order_ids
    known,       \* known of async_setup_tracking
    knownOrders, \* known_order_ids of async_setup_entry
    pending,     \* entities given to async_add_entities
    live,        \* entities added
    reload,      \* a reload of the entry is to come
    original     \* history: the places registered to us in legacy form at first

consent == <<maps, inherited, migrated>>
vars == <<registry, consent, stage, orders, active, known, knownOrders, pending,
          live, reload, original>>

Id3(o, k, f) == [order |-> o, kind |-> k, form |-> f]

TypeOK ==
    /\ registry \in [Id -> Item]
    /\ maps \in {"unset", "on", "off"}
    /\ inherited \in SUBSET Place
    /\ migrated \in BOOLEAN
    /\ stage \in {"down", "refreshing", "running"}
    /\ orders \in SUBSET Order /\ active \in SUBSET orders
    /\ known \in SUBSET Place /\ knownOrders \in SUBSET Order
    /\ pending \in SUBSET Entity /\ live \in SUBSET Entity
    /\ reload \in BOOLEAN
    /\ original \in SUBSET Place

OwnedByAnyone(item) == item # "none"   \* mutant: _owned_registry_entity without the check

Owned(item) == item \in {"enabled", "disabled"}

LegacyPlaces == {p \in Place : Owned(registry[Id3(p[1], p[2], "legacy")])}

(* An earlier version left legacy ids, this one scoped ids, a partial      *)
(* upgrade both; another entry of the same account may own a legacy id.    *)
Init ==
    /\ registry \in [Id -> Item]
    /\ \A id \in Id :
          /\ id.form = "scoped" => registry[id] # "theirs"
          /\ id.kind = "status" /\ id.form = "legacy" => registry[id] = "none"
    /\ maps \in {"unset", "on", "off"}
    /\ inherited = {} /\ migrated = FALSE
    /\ stage = "down" /\ orders = {} /\ active = {}
    /\ known = {} /\ knownOrders = {} /\ pending = {} /\ live = {}
    /\ reload = FALSE
    /\ original = LegacyPlaces

-----------------------------------------------------------------------------
(* Consent (privacy.py).                                                   *)

AllowedInheritedWins(o, k) ==   \* mutant: an opt-out does not override
    maps = "on" \/ <<o, k>> \in inherited

(* location_allowed: the option decides when it is there.                  *)
Allowed(o, k) ==
    maps = "on" \/ (maps = "unset" /\ <<o, k>> \in inherited)

EnabledWhenAllowed(o, k) == Allowed(o, k)   \* mutant: disabled entities are ignored

(* location_enabled: permitted, and the entity not disabled by the user.   *)
LocationEnabled(o, k) ==
    LET scoped == registry[Id3(o, k, "scoped")]
        legacy == registry[Id3(o, k, "legacy")]
    IN  /\ Allowed(o, k)
        /\ CASE Owned(scoped) -> scoped = "enabled"
             [] ~Owned(scoped) /\ Owned(legacy) -> legacy = "enabled"
             [] OTHER -> TRUE

-----------------------------------------------------------------------------
(* Discovery.                                                              *)

\* Orders of the data, and those the registry remembers for this entry.
Seen(listed) == listed \cup
    {o \in Order : \E k \in Kind, f \in Form : Owned(registry[Id3(o, k, f)])}

(* The places that get an entity now.                                      *)
Discovered(listed, ongoing) ==
    {p \in (Seen(listed) \X Kind) \ known :
        \/ \E f \in Form : Owned(registry[Id3(p[1], p[2], f)])
        \/ p[1] \in ongoing /\ (p[2] = "delivery" \/ Allowed(p[1], p[2]))}

(* A legacy id of ours becomes the scoped id if that one is free.          *)
Migrates(o, k, places) ==
    /\ <<o, k>> \in places
    /\ Owned(registry[Id3(o, k, "legacy")]) /\ registry[Id3(o, k, "scoped")] = "none"

Migrated(places) ==
    [id \in Id |->
        IF ~Migrates(id.order, id.kind, places) THEN registry[id]
        ELSE IF id.form = "legacy" THEN "none" ELSE registry[[id EXCEPT !.form = "legacy"]]]

New(o, k, f, permitted) == [id |-> Id3(o, k, f), allowed |-> permitted]

ScopedOnly(places) ==   \* mutant: no alias for an id that could not be migrated
    {New(p[1], p[2], "scoped", Allowed(p[1], p[2])) : p \in places}

(* One entity under the scoped id, and one more that keeps the legacy id   *)
(* alive when both are registered.                                         *)
Trackers(places) ==
    {New(p[1], p[2], "scoped", Allowed(p[1], p[2])) : p \in places}
    \cup {New(p[1], p[2], "legacy", Allowed(p[1], p[2])) :
            p \in {q \in places : \A f \in Form : Owned(registry[Id3(q[1], q[2], f)])}}

(* async_add_new_orders: active orders, and listed ones that had an entity *)
(* before, seen in the registry as discover() has left it.                 *)
NewOrders(listed, ongoing, items) ==
    (ongoing \cup {o \in listed :
        \/ \E f \in Form : Owned(items[Id3(o, "delivery", f)])
        \/ Owned(items[Id3(o, "status", "scoped")])}) \ knownOrders

DiscoverForgets(listed, ongoing) ==   \* mutant: what was created is not remembered
    LET places == Discovered(listed, ongoing)
        fresh == NewOrders(listed, ongoing, Migrated(places))
    IN  /\ registry' = Migrated(places)
        /\ pending' = pending \cup Trackers(places)
                      \cup {New(o, "status", "scoped", FALSE) : o \in fresh}
        /\ UNCHANGED <<known, knownOrders>>

(* Both callbacks, in the order in which they are called.                  *)
Discover(listed, ongoing) ==
    LET places == Discovered(listed, ongoing)
        fresh == NewOrders(listed, ongoing, Migrated(places))
    IN  /\ registry' = Migrated(places)
        /\ known' = known \cup places
        /\ knownOrders' = knownOrders \cup fresh
        /\ pending' = pending \cup Trackers(places)
                      \cup {New(o, "status", "scoped", FALSE) : o \in fresh}

-----------------------------------------------------------------------------
MigrateAgain ==   \* mutant: the snapshot is taken at every setup
    /\ stage = "down" /\ stage' = "refreshing"
    /\ inherited' = LegacyPlaces
    /\ migrated' = TRUE
    /\ UNCHANGED <<registry, maps, orders, active, known, knownOrders, pending, live,
                   reload, original>>

(* Setup begins; migrate_location_consent takes its snapshot once.         *)
BeginSetup ==
    /\ stage = "down" /\ stage' = "refreshing"
    /\ inherited' = IF migrated THEN inherited ELSE LegacyPlaces
    /\ migrated' = TRUE
    /\ UNCHANGED <<registry, maps, orders, active, known, knownOrders, pending, live,
                   reload, original>>

PollUnheard ==   \* mutant: discovery runs at setup only
    /\ stage \in {"refreshing", "running"} /\ stage' = "running"
    /\ \E listed \in SUBSET Order : \E ongoing \in SUBSET listed :
          /\ orders' = listed /\ active' = ongoing
          /\ IF stage = "refreshing" THEN Discover(listed, ongoing)
             ELSE UNCHANGED <<registry, known, knownOrders, pending>>
    /\ UNCHANGED <<consent, live, reload, original>>

PollAccumulates ==   \* mutant: an order that has ended stays active
    /\ stage \in {"refreshing", "running"} /\ stage' = "running"
    /\ \E listed \in SUBSET Order : \E ongoing \in SUBSET listed :
          /\ orders' = listed /\ active' = active \cup ongoing
          /\ Discover(listed, ongoing)
    /\ UNCHANGED <<consent, live, reload, original>>

(* A poll publishes its listing, the first of them sets up the platforms;  *)
(* discovery runs at once.                                                 *)
Poll ==
    /\ stage \in {"refreshing", "running"} /\ stage' = "running"
    /\ \E listed \in SUBSET Order : \E ongoing \in SUBSET listed :
          /\ orders' = listed /\ active' = ongoing
          /\ Discover(listed, ongoing)
    /\ UNCHANGED <<consent, live, reload, original>>

(* Home Assistant adds one of the entities: it registers a new id, refuses *)
(* one in use, and leaves a disabled one out.                              *)
AddEntity ==
    /\ \E e \in pending :
          /\ pending' = pending \ {e}
          /\ registry' = [registry EXCEPT ![e.id] = IF @ = "none" THEN "enabled" ELSE @]
          /\ live' = IF registry'[e.id] = "enabled" /\ \A l \in live : l.id # e.id
                     THEN live \cup {e} ELSE live
    /\ UNCHANGED <<consent, stage, orders, active, known, knownOrders, reload, original>>

(* The entry is unloaded, or Home Assistant restarts.                      *)
Stop ==
    /\ stage # "down" /\ stage' = "down"
    /\ orders' = {} /\ active' = {} /\ known' = {} /\ knownOrders' = {}
    /\ pending' = {} /\ live' = {} /\ reload' = FALSE
    /\ UNCHANGED <<registry, consent, original>>

(* The option is saved; a save during the first refresh is the subject of  *)
(* ConfigEntry.                                                            *)
ChangeMaps ==
    /\ stage # "refreshing"
    /\ maps' \in {"on", "off"} \ {maps}
    /\ reload' = (stage = "running")
    /\ UNCHANGED <<registry, inherited, migrated, stage, orders, active, known, knownOrders,
                   pending, live, original>>

Disable ==
    /\ \E id \in Id :
          /\ registry[id] = "enabled"
          /\ registry' = [registry EXCEPT ![id] = "disabled"]
          /\ live' = {e \in live : e.id # id}
    /\ UNCHANGED <<consent, stage, orders, active, known, knownOrders, pending, reload,
                   original>>

Enable ==
    /\ \E id \in Id :
          /\ registry[id] = "disabled"
          /\ registry' = [registry EXCEPT ![id] = "enabled"]
    /\ reload' = (stage # "down")
    /\ UNCHANGED <<consent, stage, orders, active, known, knownOrders, pending, live,
                   original>>

Next ==
    \/ BeginSetup \/ Poll \/ AddEntity \/ Stop
    \/ ChangeMaps \/ Disable \/ Enable

Spec == Init /\ [][Next]_vars

-----------------------------------------------------------------------------
(* Properties.                                                             *)

Settled == stage = "running" /\ pending = {} /\ ~reload
LiveIds == {e.id : e \in live}

(* A registry item of another config entry is never touched                *)
(* (tracking.py:308, sensor.py:318).                                       *)
NothingStolen ==
    [][\A id \in Id : registry[id] = "theirs" => registry'[id] = "theirs"]_vars

(* Every tracking id this entry owns has an entity behind it, whichever    *)
(* version registered it: no automation loses its target in an upgrade.    *)
OwnedIsServed ==
    Settled => \A id \in Id : id.kind # "status" /\ registry[id] = "enabled" => id \in LiveIds

(* No unique id is given to Home Assistant twice.                          *)
NoDuplicates ==
    /\ \A e \in pending : e.id \notin LiveIds
    /\ \A e, f \in pending : e.id = f.id => e = f

(* After an opt-out only the reload that follows it can still be showing a *)
(* location.                                                               *)
OptOutRespected ==
    maps = "off" /\ ~reload => \A e \in live \cup pending : ~e.allowed

(* Without a choice of the user exactly the entities that were there under *)
(* a legacy id at the first setup may show a location, across any number   *)
(* of restarts after those ids have been renamed.                          *)
InheritedExactly ==
    maps = "unset" => \A e \in live : e.allowed <=> <<e.id.order, e.id.kind>> \in original

(* Once the callbacks have run and what they created has been added, the   *)
(* coordinator's rule for looking a venue page up is true of an active     *)
(* order only if an entity of it can show the place (privacy.py:56-70).    *)
LookupHasAudience ==
    Settled => \A o \in active, k \in Kind \ {"delivery"} :
        LocationEnabled(o, k) => \E e \in live : e.id.order = o /\ e.id.kind = k /\ e.allowed

(* An active order has its delivery and status entities, live or on their  *)
(* way, unless the user disabled them.                                     *)
ActiveHasEntities ==
    stage = "running" /\ ~reload => \A o \in active, k \in {"delivery", "status"} :
        \/ registry[Id3(o, k, "scoped")] = "disabled"
        \/ Id3(o, k, "scoped") \in LiveIds \cup {e.id : e \in pending}

=============================================================================
