----------------------- MODULE TrackingDiscovery_proofs -----------------------
(***************************************************************************)
(* Proofs about TrackingDiscovery, for any orders and tracking kinds and   *)
(* every registry an earlier version may have left: identities and their   *)
(* entities, consent, and what survives the renaming.                      *)
(***************************************************************************)
EXTENDS TrackingDiscovery, TLAPS

-----------------------------------------------------------------------------
(* The inductive invariant.                                                *)

Given     == live \cup pending
GivenIds  == {e.id : e \in Given}
Scoped(p) == Id3(p[1], p[2], "scoped")
PlaceOf(id) == <<id.order, id.kind>>

\* The user disabled it, or there is an entity behind it or on its way.
Served(id) == registry[id] = "disabled" \/ id \in GivenIds

\* Nothing exists before the first poll has succeeded.
IdleInv ==
    stage # "running" =>
        known = {} /\ knownOrders = {} /\ Given = {} /\ orders = {} /\ active = {}

\* Scoped ids name the entry: no other entry has them.
ScopedInv == \A id \in Id : id.form = "scoped" => registry[id] # "theirs"

\* The snapshot is taken before the first discovery renames anything.
InheritInv ==
    IF migrated THEN inherited = original ELSE LegacyPlaces = original /\ stage = "down"

\* Entities may show what they were created for; only a reload to come may
\* separate that from what is allowed now.
ConsentInv ==
    \A e \in Given :
        IF e.id.kind = "status" THEN ~e.allowed
        ELSE /\ maps = "unset" => (e.allowed <=> PlaceOf(e.id) \in original)
             /\ ~reload => (e.allowed <=> Allowed(e.id.order, e.id.kind))

\* What has been given to Home Assistant is remembered ...
KnownInv ==
    \A e \in Given :
        IF e.id.kind = "status" THEN e.id.order \in knownOrders ELSE PlaceOf(e.id) \in known

\* ... and what is remembered has been given.
ServedInv ==
    ~reload => /\ \A p \in known : Served(Scoped(p))
               /\ \A o \in knownOrders : Served(Id3(o, "status", "scoped"))

OwnedInv ==
    stage = "running" /\ ~reload =>
        \A id \in Id : id.kind # "status" /\ registry[id] = "enabled" => id \in GivenIds

ActiveInv ==
    ~reload => \A o \in active :
        /\ o \in knownOrders
        /\ \A k \in Kind : k = "delivery" \/ Allowed(o, k) => <<o, k>> \in known

IInv ==
    /\ TypeOK /\ IdleInv /\ ScopedInv /\ InheritInv /\ ConsentInv /\ KnownInv
    /\ NoDuplicates /\ ServedInv /\ OwnedInv /\ ActiveInv

-----------------------------------------------------------------------------
(* Ids.                                                                    *)

LEMMA StatusIsNoKind == "status" \notin Kind
BY ConstantsAssumption

LEMMA IdTyped ==
    ASSUME NEW o \in Order, NEW k \in Kind \cup {"status"}, NEW f \in Form
    PROVE  /\ Id3(o, k, f) \in Id
           /\ Id3(o, k, f).order = o /\ Id3(o, k, f).kind = k /\ Id3(o, k, f).form = f
BY DEF Id3, Id

LEMMA IdIsId3 ==
    ASSUME NEW id \in Id
    PROVE  /\ id = Id3(id.order, id.kind, id.form)
           /\ id.order \in Order /\ id.kind \in Kind \cup {"status"} /\ id.form \in Form
BY DEF Id3, Id

LEMMA InitIInv == Init => IInv
<1> SUFFICES ASSUME Init PROVE IInv
  OBVIOUS
<1>1. TypeOK
  <2>1. LegacyPlaces \subseteq Place
    BY DEF LegacyPlaces
  <2>2. QED
    BY <2>1 DEF Init, TypeOK
<1>2. Given = {} /\ known = {} /\ knownOrders = {} /\ active = {} /\ orders = {}
      /\ pending = {} /\ live = {}
  BY DEF Init, Given
<1>3. IdleInv /\ ConsentInv /\ KnownInv /\ ServedInv /\ ActiveInv /\ NoDuplicates
  BY <1>2 DEF IdleInv, ConsentInv, KnownInv, ServedInv, ActiveInv, NoDuplicates
<1>4. ScopedInv /\ InheritInv /\ OwnedInv
  BY DEF Init, ScopedInv, InheritInv, OwnedInv
<1>5. QED
  BY <1>1, <1>3, <1>4 DEF IInv

-----------------------------------------------------------------------------
(* Discovery.                                                              *)

(* What the two callbacks do to the registry, and whom they create.        *)
LEMMA DiscoveryFacts ==
    ASSUME TypeOK, ScopedInv, NEW listed \in SUBSET Order, NEW ongoing \in SUBSET Order,
           NEW places, places = Discovered(listed, ongoing)
    PROVE  /\ places \subseteq Place \ known
           /\ Migrated(places) \in [Id -> Item]
           /\ \A id \in Id : id.form = "scoped" => Migrated(places)[id] # "theirs"
           /\ \A id \in Id : PlaceOf(id) \notin places => Migrated(places)[id] = registry[id]
<1>1. places \subseteq Place \ known
  <2>1. Seen(listed) \subseteq Order
    BY DEF Seen
  <2>2. QED
    BY <2>1 DEF Discovered, Place
<1>2. ASSUME NEW id \in Id
      PROVE  /\ [id EXCEPT !.form = "legacy"] = Id3(id.order, id.kind, "legacy")
             /\ Id3(id.order, id.kind, "legacy") \in Id
             /\ Id3(id.order, id.kind, "scoped") \in Id
             /\ id = Id3(id.order, id.kind, "legacy") \/ id = Id3(id.order, id.kind, "scoped")
             /\ id.form = "legacy" => id = Id3(id.order, id.kind, "legacy")
             /\ id.form # "legacy" => id = Id3(id.order, id.kind, "scoped")
  BY DEF Id, Id3, Form
<1>3. ASSUME NEW id \in Id
      PROVE  /\ Migrated(places)[id] \in Item
             /\ id.form = "scoped" => Migrated(places)[id] # "theirs"
             /\ PlaceOf(id) \notin places => Migrated(places)[id] = registry[id]
  <2>1. Migrated(places)[id] =
           IF ~Migrates(id.order, id.kind, places) THEN registry[id]
           ELSE IF id.form = "legacy" THEN "none" ELSE registry[[id EXCEPT !.form = "legacy"]]
    BY DEF Migrated
  <2>2. CASE ~Migrates(id.order, id.kind, places)
    BY <2>1, <2>2 DEF TypeOK, ScopedInv
  <2>3. CASE Migrates(id.order, id.kind, places)
    <3>1. /\ PlaceOf(id) \in places
          /\ Owned(registry[Id3(id.order, id.kind, "legacy")])
          /\ registry[Id3(id.order, id.kind, "scoped")] = "none"
      BY <2>3 DEF Migrates, PlaceOf
    <3>2. registry[id] # "theirs"
      BY <1>2, <3>1 DEF Owned
    <3>3. Migrated(places)[id] = "none"
          \/ Migrated(places)[id] = registry[Id3(id.order, id.kind, "legacy")]
      BY <1>2, <2>1, <2>3
    <3>4. QED
      BY <3>1, <3>2, <3>3 DEF Owned, Item
  <2>4. QED
    BY <2>2, <2>3
<1>4. Migrated(places) \in [Id -> Item]
  BY <1>3 DEF Migrated
<1>5. QED
  BY <1>1, <1>3, <1>4

(* Whose entities they are.                                                *)
LEMMA TrackerFacts ==
    ASSUME NEW places \in SUBSET Place
    PROVE  /\ Trackers(places) \subseteq Entity
           /\ \A e \in Trackers(places) :
                /\ e.id.kind \in Kind /\ PlaceOf(e.id) \in places
                /\ e.allowed <=> Allowed(e.id.order, e.id.kind)
           /\ \A e, f \in Trackers(places) : e.id = f.id => e = f
           /\ \A p \in places : \E e \in Trackers(places) : e.id = Scoped(p)
           /\ \A p \in places : (\A f \in Form : Owned(registry[Id3(p[1], p[2], f)])) =>
                \E e \in Trackers(places) : e.id = Id3(p[1], p[2], "legacy")
<1>1. ASSUME NEW e \in Trackers(places)
      PROVE  \E p \in places : \E f \in Form : e = New(p[1], p[2], f, Allowed(p[1], p[2]))
  BY DEF Trackers, Form
<1>2. ASSUME NEW p \in places
      PROVE  p[1] \in Order /\ p[2] \in Kind /\ p = <<p[1], p[2]>>
  BY DEF Place
<1>3. \A o \in Order, k \in Kind : Allowed(o, k) \in BOOLEAN
  BY DEF Allowed
<1>4. ASSUME NEW e \in Trackers(places)
      PROVE  /\ e \in Entity /\ e.id.kind \in Kind /\ PlaceOf(e.id) \in places
             /\ e = [id |-> e.id, allowed |-> Allowed(e.id.order, e.id.kind)]
  <2>1. PICK p \in places, f \in Form : e = New(p[1], p[2], f, Allowed(p[1], p[2]))
    BY <1>1
  <2>2. e.id = Id3(p[1], p[2], f) /\ e.id \in Id
        /\ e.id.order = p[1] /\ e.id.kind = p[2]
    BY <1>2, <2>1, IdTyped DEF New
  <2>3. e = [id |-> e.id, allowed |-> Allowed(e.id.order, e.id.kind)]
    BY <2>1, <2>2 DEF New
  <2>4. Allowed(e.id.order, e.id.kind) \in BOOLEAN
    BY <1>2, <1>3, <2>2
  <2>5. QED
    BY <1>2, <2>2, <2>3, <2>4 DEF Entity, PlaceOf
<1>5. \A p \in places : New(p[1], p[2], "scoped", Allowed(p[1], p[2])) \in Trackers(places)
  BY DEF Trackers
<1>6. \A p \in places : (\A f \in Form : Owned(registry[Id3(p[1], p[2], f)])) =>
         New(p[1], p[2], "legacy", Allowed(p[1], p[2])) \in Trackers(places)
  BY DEF Trackers
<1>7. \A p \in places : \E e \in Trackers(places) : e.id = Scoped(p)
  BY <1>5 DEF New, Scoped
<1>8. \A p \in places : (\A f \in Form : Owned(registry[Id3(p[1], p[2], f)])) =>
         \E e \in Trackers(places) : e.id = Id3(p[1], p[2], "legacy")
  BY <1>6 DEF New
<1>9. \A e, f \in Trackers(places) : e.id = f.id => e = f
  BY <1>4
<1>10. \A e \in Trackers(places) : e.allowed <=> Allowed(e.id.order, e.id.kind)
  <2> SUFFICES ASSUME NEW e \in Trackers(places)
               PROVE  e.allowed <=> Allowed(e.id.order, e.id.kind)
    OBVIOUS
  <2>1. e = [id |-> e.id, allowed |-> Allowed(e.id.order, e.id.kind)]
    BY <1>4
  <2>2. e.allowed = Allowed(e.id.order, e.id.kind)
    BY <2>1
  <2>3. QED
    BY <2>2
<1>11. QED
  BY <1>4, <1>7, <1>8, <1>9, <1>10

LEMMA PollKeepsIInv == ASSUME IInv, Poll PROVE IInv'
<1> USE DEF IInv
<1>1. PICK listed \in SUBSET Order, ongoing \in SUBSET Order :
         /\ ongoing \subseteq listed
         /\ orders' = listed /\ active' = ongoing /\ Discover(listed, ongoing)
  BY DEF Poll
<1>0. PICK places : places = Discovered(listed, ongoing)
  OBVIOUS
<1> DEFINE fresh  == NewOrders(listed, ongoing, Migrated(places))
           sensors == {New(o, "status", "scoped", FALSE) : o \in fresh}
<1>2. /\ registry' = Migrated(places)
      /\ known' = known \cup places /\ knownOrders' = knownOrders \cup fresh
      /\ pending' = pending \cup Trackers(places) \cup sensors
      /\ stage \in {"refreshing", "running"} /\ stage' = "running"
      /\ UNCHANGED <<maps, inherited, migrated, live, reload, original>>
  BY <1>0, <1>1 DEF Discover, Poll, consent
<1>3. /\ places \subseteq Place \ known
      /\ Migrated(places) \in [Id -> Item]
      /\ \A id \in Id : id.form = "scoped" => Migrated(places)[id] # "theirs"
      /\ \A id \in Id : PlaceOf(id) \notin places => Migrated(places)[id] = registry[id]
  <2>1. TypeOK /\ ScopedInv
    OBVIOUS
  <2>2. QED
    BY <1>0, <2>1, DiscoveryFacts
<1>4. fresh \subseteq Order \ knownOrders /\ ongoing \subseteq knownOrders \cup fresh
  BY DEF NewOrders
<1>5. ASSUME NEW e \in sensors
      PROVE  /\ e \in Entity /\ ~e.allowed /\ e.id.kind = "status"
             /\ e.id.order \in fresh /\ e.id = Id3(e.id.order, "status", "scoped")
             /\ e = New(e.id.order, "status", "scoped", FALSE)
  <2>1. PICK o \in fresh : e = New(o, "status", "scoped", FALSE)
    OBVIOUS
  <2>2. o \in Order
    BY <1>4
  <2>3. e.id = Id3(o, "status", "scoped") /\ e.id \in Id /\ e.id.order = o
        /\ e.id.kind = "status" /\ e.allowed = FALSE
    BY <2>1, <2>2, IdTyped DEF New, Form
  <2>4. QED
    BY <2>1, <2>3 DEF New, Entity
<1>6. /\ Trackers(places) \subseteq Entity
      /\ \A e \in Trackers(places) :
            /\ e.id.kind \in Kind /\ PlaceOf(e.id) \in places
            /\ e.allowed <=> Allowed(e.id.order, e.id.kind)
      /\ \A e, f \in Trackers(places) : e.id = f.id => e = f
      /\ \A p \in places : \E e \in Trackers(places) : e.id = Scoped(p)
      /\ \A p \in places : (\A f \in Form : Owned(registry[Id3(p[1], p[2], f)])) =>
            \E e \in Trackers(places) : e.id = Id3(p[1], p[2], "legacy")
  <2>1. places \in SUBSET Place
    BY <1>3
  <2>2. QED
    BY <2>1, TrackerFacts
<1>7. \A o \in fresh : New(o, "status", "scoped", FALSE) \in sensors
  OBVIOUS
<1> HIDE DEF fresh, sensors
<1>8. TypeOK'
  <2>1. known' \in SUBSET Place /\ knownOrders' \in SUBSET Order
    BY <1>2, <1>3, <1>4 DEF TypeOK
  <2>2. pending' \in SUBSET Entity
    BY <1>2, <1>5, <1>6 DEF TypeOK
  <2>3. QED
    BY <1>1, <1>2, <1>3, <2>1, <2>2 DEF TypeOK
<1>9. IdleInv' /\ ScopedInv'
  BY <1>2, <1>3 DEF IdleInv, ScopedInv
<1>10. migrated /\ InheritInv'
  BY <1>2 DEF InheritInv
<1>11. Given' = Given \cup Trackers(places) \cup sensors
  BY <1>2 DEF Given
<1>12. \A o \in Order, k \in Kind : Allowed(o, k)' <=> Allowed(o, k)
  BY <1>2 DEF Allowed
<1>13. ConsentInv'
  <2>1. ASSUME NEW e \in Given'
        PROVE  IF e.id.kind = "status" THEN ~e.allowed
               ELSE /\ maps = "unset" => (e.allowed <=> PlaceOf(e.id) \in original)
                    /\ ~reload => (e.allowed <=> Allowed(e.id.order, e.id.kind))
    <3>1. CASE e \in Given
      BY <3>1 DEF ConsentInv
    <3>2. CASE e \in Trackers(places)
      <4>1. maps = "unset" => (Allowed(e.id.order, e.id.kind) <=> PlaceOf(e.id) \in original)
        BY <1>10 DEF InheritInv, Allowed, PlaceOf
      <4>2. e.id.kind # "status"
        BY <1>6, <3>2, StatusIsNoKind
      <4>3. e.allowed <=> Allowed(e.id.order, e.id.kind)
        BY <1>6, <3>2
      <4>4. QED
        BY <4>1, <4>2, <4>3
    <3>3. CASE e \in sensors
      BY <1>5, <3>3
    <3>4. QED
      BY <1>11, <3>1, <3>2, <3>3
  <2>2. QED
    BY <1>2, <2>1 DEF ConsentInv, Allowed, PlaceOf
<1>14. KnownInv'
  <2>1. ASSUME NEW e \in Given'
        PROVE  IF e.id.kind = "status" THEN e.id.order \in knownOrders'
               ELSE PlaceOf(e.id) \in known'
    <3>1. CASE e \in Given
      BY <1>2, <3>1 DEF KnownInv
    <3>2. CASE e \in Trackers(places)
      BY <1>2, <1>6, <3>2, StatusIsNoKind
    <3>3. CASE e \in sensors
      BY <1>2, <1>5, <3>3
    <3>4. QED
      BY <1>11, <3>1, <3>2, <3>3
  <2>2. QED
    BY <2>1 DEF KnownInv, PlaceOf
<1>15. NoDuplicates'
  <2>1. ASSUME NEW e \in Trackers(places) \cup sensors, NEW f \in Given PROVE e.id # f.id
    <3>1. CASE e \in Trackers(places)
      <4>1. e.id.kind # "status" /\ PlaceOf(e.id) \notin known
        BY <1>3, <1>6, <3>1, StatusIsNoKind
      <4>2. f.id.kind # "status" => PlaceOf(f.id) \in known
        BY DEF KnownInv
      <4>3. QED
        BY <4>1, <4>2
    <3>2. CASE e \in sensors
      <4>1. e.id.kind = "status" /\ e.id.order \notin knownOrders
        BY <1>4, <1>5, <3>2
      <4>2. f.id.kind = "status" => f.id.order \in knownOrders
        BY DEF KnownInv
      <4>3. QED
        BY <4>1, <4>2
    <3>3. QED
      BY <3>1, <3>2
  <2>2. ASSUME NEW e \in Trackers(places) \cup sensors, NEW f \in Trackers(places) \cup sensors,
               e.id = f.id
        PROVE  e = f
    <3>1. CASE e \in Trackers(places)
      <4>1. e.id.kind # "status"
        BY <1>6, <3>1, StatusIsNoKind
      <4>2. f \in Trackers(places)
        BY <1>5, <2>2, <4>1
      <4>3. QED
        BY <1>6, <2>2, <3>1, <4>2
    <3>2. CASE e \in sensors
      <4>1. f \in sensors
        <5>1. f.id.kind = "status"
          BY <1>5, <2>2, <3>2
        <5>2. f \notin Trackers(places)
          BY <1>6, <5>1, StatusIsNoKind
        <5>3. QED
          BY <5>2
      <4>2. e = New(e.id.order, "status", "scoped", FALSE)
            /\ f = New(f.id.order, "status", "scoped", FALSE)
        BY <1>5, <3>2, <4>1
      <4>3. QED
        BY <2>2, <4>2
    <3>3. QED
      BY <3>1, <3>2
  <2>3. \A e \in pending' : e.id \notin LiveIds'
    BY <1>2, <2>1 DEF NoDuplicates, LiveIds, Given
  <2>4. \A e, f \in pending' : e.id = f.id => e = f
    <3>1. pending' = pending \cup (Trackers(places) \cup sensors)
      BY <1>2
    <3>2. \A e \in Trackers(places) \cup sensors, f \in pending : e.id # f.id
      BY <2>1 DEF Given
    <3>3. \A e, f \in pending : e.id = f.id => e = f
      BY DEF NoDuplicates
    <3>4. QED
      BY <2>2, <3>1, <3>2, <3>3
  <2>5. QED
    BY <2>3, <2>4 DEF NoDuplicates
<1>16. GivenIds \subseteq GivenIds'
       /\ (\A e \in Trackers(places) \cup sensors : e.id \in GivenIds')
  BY <1>11 DEF GivenIds
<1>17. ServedInv'
  <2> SUFFICES ASSUME ~reload
               PROVE  /\ \A p \in known' : Served(Scoped(p))'
                      /\ \A o \in knownOrders' : Served(Id3(o, "status", "scoped"))'
    BY <1>2 DEF ServedInv, Scoped, Id3
  <2>1. ASSUME NEW id \in Id, Served(id), PlaceOf(id) \notin places PROVE Served(id)'
    BY <1>2, <1>3, <1>16, <2>1 DEF Served
  <2>2. ASSUME NEW q \in known' PROVE Served(Scoped(q))'
    <3>1. CASE q \in places
      <4>1. PICK e \in Trackers(places) : e.id = Scoped(q)
        BY <1>6, <3>1
      <4>2. Scoped(q)' = Scoped(q)
        BY DEF Scoped, Id3
      <4>3. QED
        BY <1>16, <4>1, <4>2 DEF Served
    <3>2. CASE q \notin places
      <4>1. q \in known /\ q \in Place
        BY <1>2, <3>2 DEF TypeOK
      <4>2. Scoped(q) \in Id /\ PlaceOf(Scoped(q)) = q
        BY <4>1, IdTyped DEF Scoped, Place, PlaceOf, Form
      <4>3. Served(Scoped(q))
        BY <4>1 DEF ServedInv
      <4>4. QED
        BY <2>1, <3>2, <4>2, <4>3 DEF Scoped, Id3
    <3>3. QED
      BY <3>1, <3>2
  <2>3. ASSUME NEW o \in knownOrders' PROVE Served(Id3(o, "status", "scoped"))'
    <3>1. CASE o \in fresh
      <4>1. New(o, "status", "scoped", FALSE).id = Id3(o, "status", "scoped")
        BY DEF New
      <4>2. Id3(o, "status", "scoped") \in GivenIds'
        BY <1>7, <1>16, <3>1, <4>1
      <4>3. QED
        BY <4>2 DEF Served, Id3
    <3>2. CASE o \notin fresh
      <4>1. o \in knownOrders /\ o \in Order
        BY <1>2, <3>2 DEF TypeOK
      <4>2. Id3(o, "status", "scoped") \in Id /\ PlaceOf(Id3(o, "status", "scoped")) \notin places
        BY <1>3, <4>1, IdTyped, StatusIsNoKind DEF Place, PlaceOf, Form
      <4>3. Served(Id3(o, "status", "scoped"))
        BY <4>1 DEF ServedInv
      <4>4. QED
        BY <2>1, <4>2, <4>3 DEF Id3
    <3>3. QED
      BY <3>1, <3>2
  <2>4. QED
    BY <2>2, <2>3
<1>18. OwnedInv'
  <2> SUFFICES ASSUME ~reload, NEW id \in Id, id.kind # "status", registry'[id] = "enabled"
               PROVE  id \in GivenIds'
    BY <1>2 DEF OwnedInv
  <2> DEFINE q == PlaceOf(id)
  <2>1. /\ id = Id3(id.order, id.kind, id.form) /\ id.order \in Order /\ id.kind \in Kind
        /\ id.form \in {"legacy", "scoped"}
        /\ q \in Place /\ q[1] = id.order /\ q[2] = id.kind
    BY IdIsId3 DEF Form, Place, PlaceOf
  <2>2. CASE q \in places
    <3>1. CASE id.form = "scoped"
      BY <1>6, <1>16, <2>1, <2>2, <3>1 DEF Scoped
    <3>2. CASE id.form = "legacy"
      <4>1. registry'[id] = IF ~Migrates(id.order, id.kind, places) THEN registry[id] ELSE "none"
        BY <1>2, <3>2 DEF Migrated
      <4>2. registry[id] = "enabled" /\ ~Migrates(id.order, id.kind, places)
        BY <4>1
      <4>3. Id3(id.order, id.kind, "scoped") \in Id
            /\ Id3(id.order, id.kind, "scoped").form = "scoped"
        BY <2>1, IdTyped DEF Form
      <4>4. registry[Id3(id.order, id.kind, "scoped")] \notin {"none", "theirs"}
        BY <2>1, <2>2, <3>2, <4>2, <4>3 DEF Migrates, PlaceOf, Owned, ScopedInv
      <4>5. \A f \in Form : Owned(registry[Id3(q[1], q[2], f)])
        BY <2>1, <3>2, <4>2, <4>3, <4>4 DEF Form, Owned, TypeOK, Item
      <4>6. QED
        BY <1>6, <1>16, <2>1, <2>2, <3>2, <4>5
    <3>3. QED
      BY <2>1, <3>1, <3>2
  <2>3. CASE q \notin places
    <3>1. registry[id] = "enabled"
      BY <1>2, <1>3, <2>3
    <3>2. CASE q \in known
      BY <1>2, <1>16, <2>1, <3>1, <3>2 DEF OwnedInv, IdleInv
    <3>3. CASE q \notin known
      <4>1. Owned(registry[Id3(q[1], q[2], id.form)]) /\ id.form \in Form
        BY <2>1, <3>1 DEF Owned, Form
      <4>2. q[1] \in Seen(listed)
        BY <2>1, <4>1 DEF Seen
      <4>3. q \in Seen(listed) \X Kind
        BY <2>1, <4>2 DEF PlaceOf
      <4>4. q \in places
        BY <1>0, <3>3, <4>1, <4>3 DEF Discovered
      <4>5. QED
        BY <2>3, <4>4
    <3>4. QED
      BY <3>2, <3>3
  <2>4. QED
    BY <2>2, <2>3
<1>19. ActiveInv'
  <2> SUFFICES ASSUME ~reload, NEW o \in ongoing
               PROVE  /\ o \in knownOrders'
                      /\ \A k \in Kind : k = "delivery" \/ Allowed(o, k)' => <<o, k>> \in known'
    BY <1>1, <1>2 DEF ActiveInv
  <2>1. o \in knownOrders'
    BY <1>2, <1>4
  <2>2. ASSUME NEW k \in Kind, k = "delivery" \/ Allowed(o, k) PROVE <<o, k>> \in known'
    <3>1. <<o, k>> \in Seen(listed) \X Kind
      BY <1>1 DEF Seen
    <3>2. <<o, k>> \in known \cup places
      BY <1>0, <2>2, <3>1 DEF Discovered
    <3>3. QED
      BY <1>2, <3>2
  <2>3. QED
    BY <1>12, <2>1, <2>2
<1>20. QED
  BY <1>8, <1>9, <1>10, <1>13, <1>14, <1>15, <1>17, <1>18, <1>19

-----------------------------------------------------------------------------
(* The other steps.                                                        *)

LEMMA AddEntityKeepsIInv == ASSUME IInv, AddEntity PROVE IInv'
<1> USE DEF IInv
<1>1. PICK e \in pending :
         /\ pending' = pending \ {e}
         /\ registry' = [registry EXCEPT ![e.id] = IF @ = "none" THEN "enabled" ELSE @]
         /\ live' = IF registry'[e.id] = "enabled" /\ \A l \in live : l.id # e.id
                    THEN live \cup {e} ELSE live
  BY DEF AddEntity
<1>2. UNCHANGED <<maps, inherited, migrated, stage, orders, active, known, knownOrders, reload,
                  original>>
  BY DEF AddEntity, consent
<1>3. e \in Entity /\ e.id \in Id
  BY DEF TypeOK, Entity
<1>4. /\ registry' \in [Id -> Item]
      /\ \A id \in Id : id # e.id \/ registry[id] # "none" => registry'[id] = registry[id]
      /\ registry[e.id] = "none" => registry'[e.id] = "enabled"
  BY <1>1, <1>3 DEF TypeOK, Item
<1>5. TypeOK'
  BY <1>1, <1>2, <1>3, <1>4 DEF TypeOK
<1>6. Given' \subseteq Given /\ e \in Given
  BY <1>1 DEF Given
<1>7. stage = "running"
  BY <1>6 DEF IdleInv, TypeOK
<1>8. IdleInv' /\ ScopedInv'
  BY <1>2, <1>3, <1>4, <1>7 DEF IdleInv, ScopedInv
<1>9. InheritInv'
  BY <1>2, <1>7 DEF InheritInv
<1>10. ConsentInv' /\ KnownInv'
  BY <1>2, <1>6 DEF ConsentInv, KnownInv, Allowed, PlaceOf
<1>11. NoDuplicates'
  <2>1. \A f \in live' : f \in live \/ f = e
    BY <1>1
  <2>2. \A f \in pending' : f \in pending /\ f # e
    BY <1>1
  <2>3. \A f \in pending' : f.id # e.id
    BY <2>2 DEF NoDuplicates
  <2>4. QED
    BY <2>1, <2>2, <2>3 DEF NoDuplicates, LiveIds
<1>12. ASSUME NEW id \in GivenIds PROVE id \in GivenIds' \/ (id = e.id /\ registry'[id] # "enabled")
  <2>1. CASE id = e.id
    <3>1. CASE registry'[id] # "enabled"
      BY <2>1, <3>1
    <3>2. CASE registry'[id] = "enabled"
      <4>1. \E l \in live' : l.id = e.id
        BY <1>1, <2>1, <3>2
      <4>2. QED
        BY <2>1, <4>1 DEF GivenIds, Given
    <3>3. QED
      BY <3>1, <3>2
  <2>2. CASE id # e.id
    <3>1. PICK f \in Given : f.id = id
      BY DEF GivenIds
    <3>2. f \in Given'
      BY <1>1, <2>2, <3>1 DEF Given
    <3>3. QED
      BY <3>1, <3>2 DEF GivenIds
  <2>3. QED
    BY <2>1, <2>2
<1>13. ASSUME NEW id \in Id, id.form = "scoped", Served(id) PROVE Served(id)'
  <2>1. CASE registry[id] = "disabled"
    BY <1>3, <1>4, <2>1 DEF Served
  <2>2. CASE id \in GivenIds /\ id \notin GivenIds'
    <3>1. id = e.id /\ registry'[id] # "enabled" /\ registry[id] # "theirs"
      BY <1>12, <1>13, <2>2 DEF ScopedInv
    <3>2. registry'[id] = "disabled"
      BY <1>3, <1>4, <3>1 DEF TypeOK, Item
    <3>3. QED
      BY <3>2 DEF Served
  <2>3. QED
    BY <1>13, <2>1, <2>2 DEF Served
<1>14. ServedInv'
  <2> SUFFICES ASSUME ~reload
               PROVE  /\ \A p \in known : Served(Scoped(p))'
                      /\ \A o \in knownOrders : Served(Id3(o, "status", "scoped"))'
    BY <1>2 DEF ServedInv, Scoped, Id3
  <2>1. ASSUME NEW p \in known PROVE Served(Scoped(p))'
    <3>1. Scoped(p) \in Id /\ Scoped(p).form = "scoped" /\ Served(Scoped(p))
      BY IdTyped DEF TypeOK, Place, Scoped, Form, ServedInv
    <3>2. QED
      BY <1>13, <3>1 DEF Scoped, Id3
  <2>2. ASSUME NEW o \in knownOrders PROVE Served(Id3(o, "status", "scoped"))'
    <3>1. /\ Id3(o, "status", "scoped") \in Id /\ Id3(o, "status", "scoped").form = "scoped"
          /\ Served(Id3(o, "status", "scoped"))
      BY IdTyped DEF TypeOK, Form, ServedInv
    <3>2. QED
      BY <1>13, <3>1 DEF Id3
  <2>3. QED
    BY <2>1, <2>2
<1>15. OwnedInv'
  <2> SUFFICES ASSUME ~reload, NEW id \in Id, id.kind # "status", registry'[id] = "enabled"
               PROVE  id \in GivenIds'
    BY <1>2 DEF OwnedInv
  <2>1. id \in GivenIds
    <3>1. CASE id = e.id
      BY <1>6, <3>1 DEF GivenIds
    <3>2. CASE id # e.id
      BY <1>4, <1>7, <3>2 DEF OwnedInv
    <3>3. QED
      BY <3>1, <3>2
  <2>2. QED
    BY <1>12, <2>1
<1>16. ActiveInv'
  BY <1>2 DEF ActiveInv, Allowed
<1>17. QED
  BY <1>5, <1>8, <1>9, <1>10, <1>11, <1>14, <1>15, <1>16

LEMMA StopKeepsIInv == ASSUME IInv, Stop PROVE IInv'
<1> USE DEF IInv
<1>1. /\ stage # "down" /\ stage' = "down" /\ reload' = FALSE
      /\ orders' = {} /\ active' = {} /\ known' = {} /\ knownOrders' = {}
      /\ pending' = {} /\ live' = {} /\ Given' = {}
      /\ UNCHANGED <<registry, maps, inherited, migrated, original>>
  BY DEF Stop, consent, Given
<1>2. TypeOK' /\ IdleInv' /\ ScopedInv' /\ InheritInv'
  BY <1>1 DEF TypeOK, IdleInv, ScopedInv, InheritInv
<1>3. ConsentInv' /\ KnownInv' /\ NoDuplicates' /\ ServedInv' /\ OwnedInv' /\ ActiveInv'
  BY <1>1 DEF ConsentInv, KnownInv, NoDuplicates, ServedInv, OwnedInv, ActiveInv
<1>4. QED
  BY <1>2, <1>3

LEMMA BeginSetupKeepsIInv == ASSUME IInv, BeginSetup PROVE IInv'
<1> USE DEF IInv
<1>1. /\ stage = "down" /\ stage' = "refreshing" /\ migrated' = TRUE
      /\ inherited' = IF migrated THEN inherited ELSE LegacyPlaces
      /\ UNCHANGED <<registry, maps, orders, active, known, knownOrders, pending, live,
                     reload, original>>
  BY DEF BeginSetup
<1>2. Given = {} /\ Given' = {} /\ pending' = {} /\ live' = {}
      /\ known' = {} /\ knownOrders' = {} /\ active' = {} /\ orders' = {}
  BY <1>1 DEF IdleInv, Given
<1>3. inherited' = original
  BY <1>1 DEF InheritInv
<1>4. TypeOK' /\ IdleInv' /\ ScopedInv' /\ InheritInv'
  BY <1>1, <1>2, <1>3 DEF TypeOK, IdleInv, ScopedInv, InheritInv
<1>5. ConsentInv' /\ KnownInv' /\ NoDuplicates' /\ ServedInv' /\ OwnedInv' /\ ActiveInv'
  BY <1>1, <1>2 DEF ConsentInv, KnownInv, NoDuplicates, ServedInv, OwnedInv, ActiveInv
<1>6. QED
  BY <1>4, <1>5

LEMMA ChangeMapsKeepsIInv == ASSUME IInv, ChangeMaps PROVE IInv'
<1> USE DEF IInv
<1>1. /\ stage # "refreshing" /\ maps' \in {"on", "off"} /\ reload' = (stage = "running")
      /\ UNCHANGED <<registry, inherited, migrated, stage, orders, active, known, knownOrders,
                     pending, live, original, Given>>
  BY DEF ChangeMaps, Given
<1>2. TypeOK' /\ IdleInv' /\ ScopedInv' /\ InheritInv' /\ KnownInv' /\ NoDuplicates'
  BY <1>1 DEF TypeOK, IdleInv, ScopedInv, InheritInv, LegacyPlaces, KnownInv, NoDuplicates,
              LiveIds, PlaceOf
<1>3. CASE stage = "running"
  <2>1. reload' /\ maps' # "unset"
    BY <1>1, <1>3
  <2>2. ConsentInv'
    BY <1>1, <2>1 DEF ConsentInv
  <2>3. ServedInv' /\ OwnedInv' /\ ActiveInv'
    BY <2>1 DEF ServedInv, OwnedInv, ActiveInv
  <2>4. QED
    BY <1>2, <2>2, <2>3
<1>4. CASE stage # "running"
  <2>1. Given' = {} /\ known' = {} /\ knownOrders' = {} /\ active' = {} /\ stage' # "running"
    BY <1>1, <1>4 DEF IdleInv
  <2>2. ConsentInv' /\ ServedInv' /\ OwnedInv' /\ ActiveInv'
    BY <2>1 DEF ConsentInv, ServedInv, OwnedInv, ActiveInv
  <2>3. QED
    BY <1>2, <2>2
<1>5. QED
  BY <1>3, <1>4

(* The user's edits of the registry: what belongs to whom stays.           *)
LEMMA RegistryEdited ==
    ASSUME TypeOK, InheritInv, ScopedInv, NEW id \in Id, NEW item \in {"enabled", "disabled"},
           Owned(registry[id]), registry' = [registry EXCEPT ![id] = item],
           UNCHANGED <<inherited, migrated, original, stage>>
    PROVE  /\ registry' \in [Id -> Item] /\ InheritInv' /\ ScopedInv'
           /\ \A i \in Id : i # id => registry'[i] = registry[i]
           /\ registry'[id] = item
<1>1. /\ registry' \in [Id -> Item]
      /\ \A i \in Id : i # id => registry'[i] = registry[i]
      /\ registry'[id] = item
  BY DEF TypeOK, Item
<1>2. ScopedInv'
  BY <1>1 DEF ScopedInv
<1>3. \A i \in Id : Owned(registry'[i]) <=> Owned(registry[i])
  BY <1>1 DEF Owned
<1>4. \A p \in Place : Id3(p[1], p[2], "legacy") \in Id
  BY IdTyped DEF Place, Form
<1>5. LegacyPlaces' = LegacyPlaces
  BY <1>3, <1>4 DEF LegacyPlaces, Id3
<1>6. InheritInv'
  BY <1>5 DEF InheritInv
<1>7. QED
  BY <1>1, <1>2, <1>6

LEMMA DisableKeepsIInv == ASSUME IInv, Disable PROVE IInv'
<1> USE DEF IInv
<1>1. PICK id \in Id : /\ registry[id] = "enabled"
                       /\ registry' = [registry EXCEPT ![id] = "disabled"]
                       /\ live' = {e \in live : e.id # id}
  BY DEF Disable
<1>2. UNCHANGED <<maps, inherited, migrated, stage, orders, active, known, knownOrders, pending,
                  reload, original>>
  BY DEF Disable, consent
<1>3. /\ registry' \in [Id -> Item] /\ InheritInv' /\ ScopedInv'
      /\ \A i \in Id : i # id => registry'[i] = registry[i]
      /\ registry'[id] = "disabled"
  BY <1>1, <1>2, RegistryEdited DEF Owned
<1>4. Given' \subseteq Given /\ live' \subseteq live
  BY <1>1, <1>2 DEF Given
<1>5. ASSUME NEW i \in GivenIds, i # id PROVE i \in GivenIds'
  <2>1. PICK f \in Given : f.id = i
    BY DEF GivenIds
  <2>2. f \in Given'
    BY <1>1, <1>2, <1>5, <2>1 DEF Given
  <2>3. QED
    BY <2>1, <2>2 DEF GivenIds
<1>6. TypeOK' /\ IdleInv'
  BY <1>2, <1>3, <1>4 DEF TypeOK, IdleInv
<1>7. ConsentInv' /\ KnownInv'
  BY <1>2, <1>4 DEF ConsentInv, KnownInv, Allowed, PlaceOf
<1>8. NoDuplicates'
  BY <1>2, <1>4 DEF NoDuplicates, LiveIds
<1>9. ASSUME NEW i \in Id, Served(i) PROVE Served(i)'
  BY <1>3, <1>5, <1>9 DEF Served
<1>10. ServedInv'
  <2>1. \A p \in known : Scoped(p) \in Id
    BY IdTyped DEF TypeOK, Place, Scoped, Form
  <2>2. \A o \in knownOrders : Id3(o, "status", "scoped") \in Id
    BY IdTyped DEF TypeOK, Form
  <2>3. QED
    BY <1>2, <1>9, <2>1, <2>2 DEF ServedInv, Scoped, Id3
<1>11. OwnedInv'
  BY <1>2, <1>3, <1>5 DEF OwnedInv
<1>12. ActiveInv'
  BY <1>2 DEF ActiveInv, Allowed
<1>13. QED
  BY <1>3, <1>6, <1>7, <1>8, <1>10, <1>11, <1>12

LEMMA EnableKeepsIInv == ASSUME IInv, Enable PROVE IInv'
<1> USE DEF IInv
<1>1. PICK id \in Id : /\ registry[id] = "disabled"
                       /\ registry' = [registry EXCEPT ![id] = "enabled"]
  BY DEF Enable
<1>2. /\ reload' = (stage # "down")
      /\ UNCHANGED <<maps, inherited, migrated, stage, orders, active, known, knownOrders, pending,
                     live, original, Given>>
  BY DEF Enable, consent, Given
<1>3. registry' \in [Id -> Item] /\ InheritInv' /\ ScopedInv'
  BY <1>1, <1>2, RegistryEdited DEF Owned
<1>4. TypeOK' /\ IdleInv' /\ KnownInv' /\ NoDuplicates'
  BY <1>2, <1>3 DEF TypeOK, IdleInv, KnownInv, NoDuplicates, LiveIds, PlaceOf
<1>5. CASE stage = "down"
  <2>1. Given' = {} /\ known' = {} /\ knownOrders' = {} /\ active' = {} /\ stage' # "running"
    BY <1>2, <1>5 DEF IdleInv
  <2>2. ConsentInv' /\ ServedInv' /\ OwnedInv' /\ ActiveInv'
    BY <2>1 DEF ConsentInv, ServedInv, OwnedInv, ActiveInv
  <2>3. QED
    BY <1>3, <1>4, <2>2
<1>6. CASE stage # "down"
  <2>1. reload'
    BY <1>2, <1>6
  <2>2. ConsentInv'
    BY <1>2, <2>1 DEF ConsentInv, PlaceOf
  <2>3. ServedInv' /\ OwnedInv' /\ ActiveInv'
    BY <2>1 DEF ServedInv, OwnedInv, ActiveInv
  <2>4. QED
    BY <1>3, <1>4, <2>2, <2>3
<1>7. QED
  BY <1>5, <1>6

LEMMA StutterKeepsIInv == ASSUME IInv, UNCHANGED vars PROVE IInv'
BY DEF IInv, vars, consent, TypeOK, IdleInv, ScopedInv, InheritInv, LegacyPlaces, ConsentInv,
       KnownInv, NoDuplicates, LiveIds, ServedInv, Served, OwnedInv, ActiveInv, Given, GivenIds,
       Allowed, PlaceOf, Scoped, Id3

LEMMA Invariance == Spec => []IInv
<1>1. IInv /\ [Next]_vars => IInv'
  BY PollKeepsIInv, AddEntityKeepsIInv, StopKeepsIInv, BeginSetupKeepsIInv, ChangeMapsKeepsIInv,
     DisableKeepsIInv, EnableKeepsIInv, StutterKeepsIInv DEF Next
<1>2. QED
  BY <1>1, InitIInv, PTL DEF Spec

-----------------------------------------------------------------------------
(* The properties.                                                         *)

(* Every variable keeps its type: polls and discovery                      *)
(* (tracking.py:258-330, sensor.py:265-315) never name a place or an order *)
(* that is not one.                                                        *)
THEOREM TypeCorrect == Spec => []TypeOK
<1>1. IInv => TypeOK
  BY DEF IInv
<1>2. QED
  BY <1>1, Invariance, PTL

LEMMA MigrationStealsNothing ==
    ASSUME NEW places, NEW id \in Id, registry[id] = "theirs"
    PROVE  Migrated(places)[id] = "theirs"
<1>1. Migrated(places)[id] =
         IF ~Migrates(id.order, id.kind, places) THEN registry[id]
         ELSE IF id.form = "legacy" THEN "none" ELSE registry[[id EXCEPT !.form = "legacy"]]
  BY DEF Migrated
<1>2. id = Id3(id.order, id.kind, "legacy") \/ id = Id3(id.order, id.kind, "scoped")
  BY IdIsId3 DEF Form
<1>3. ~Migrates(id.order, id.kind, places)
  BY <1>2 DEF Migrates, Owned
<1>4. QED
  BY <1>1, <1>3

(* The renaming of legacy ids (tracking.py:308-312) leaves every item of   *)
(* another config entry as it is.                                          *)
THEOREM NothingIsStolen == Spec => NothingStolen
<1>1. ASSUME IInv, [Next]_vars, NEW id \in Id, registry[id] = "theirs"
      PROVE  registry'[id] = "theirs"
  <2>1. CASE Poll
    <3>1. PICK listed \in SUBSET Order, ongoing \in SUBSET Order :
             ongoing \subseteq listed /\ Discover(listed, ongoing)
      BY <2>1 DEF Poll
    <3>2. registry' = Migrated(Discovered(listed, ongoing))
      BY <3>1 DEF Discover
    <3>3. PICK places : places = Discovered(listed, ongoing)
      OBVIOUS
    <3>4. QED
      BY <1>1, <3>2, <3>3, MigrationStealsNothing
  <2>2. CASE AddEntity
    <3>1. PICK e \in pending :
             registry' = [registry EXCEPT ![e.id] = IF @ = "none" THEN "enabled" ELSE @]
      BY <2>2 DEF AddEntity
    <3>2. QED
      BY <1>1, <3>1 DEF IInv, TypeOK
  <2>3. CASE Disable
    BY <1>1, <2>3 DEF Disable, IInv, TypeOK
  <2>4. CASE Enable
    BY <1>1, <2>4 DEF Enable, IInv, TypeOK
  <2>5. CASE BeginSetup \/ Stop \/ ChangeMaps \/ UNCHANGED vars
    BY <1>1, <2>5 DEF BeginSetup, Stop, ChangeMaps, vars
  <2>6. QED
    BY <1>1, <2>1, <2>2, <2>3, <2>4, <2>5 DEF Next
<1>2. IInv /\ [Next]_vars => [\A id \in Id : registry[id] = "theirs" => registry'[id] = "theirs"]_vars
  BY <1>1
<1>3. QED
  BY <1>2, Invariance, PTL DEF Spec, NothingStolen

(* Repeated discovery with `known` and `known_order_ids` (tracking.py:282, *)
(* sensor.py:292-296) never hands Home Assistant the same id twice.        *)
THEOREM NoDuplicatesGiven == Spec => []NoDuplicates
<1>1. IInv => NoDuplicates
  BY DEF IInv
<1>2. QED
  BY <1>1, Invariance, PTL

(* Once the reload after an opt-out is over (privacy.py:47-53), no entity  *)
(* and none on its way may show a location.                                *)
THEOREM OptOutIsRespected == Spec => []OptOutRespected
<1>1. IInv => OptOutRespected
  <2> SUFFICES ASSUME IInv, maps = "off", ~reload, NEW e \in live \cup pending
               PROVE  ~e.allowed
    BY DEF OptOutRespected
  <2>1. ~Allowed(e.id.order, e.id.kind)
    BY DEF Allowed
  <2>2. e \in Given
    BY DEF Given
  <2>3. QED
    BY <2>1, <2>2 DEF IInv, ConsentInv
<1>2. QED
  BY <1>1, Invariance, PTL

(* The snapshot of migrate_location_consent (privacy.py:19-44) grants what *)
(* the legacy registry had and nothing else, for any number of restarts    *)
(* after discovery has renamed the identities it was taken from.           *)
THEOREM InheritanceIsExact == Spec => []InheritedExactly
<1>1. IInv => InheritedExactly
  <2> SUFFICES ASSUME IInv, maps = "unset", NEW e \in live
               PROVE  e.allowed <=> <<e.id.order, e.id.kind>> \in original
    BY DEF InheritedExactly
  <2>1. e \in Given
    BY DEF Given
  <2>2. CASE e.id.kind = "status"
    <3>1. original \subseteq Place
      BY DEF IInv, TypeOK
    <3>2. <<e.id.order, e.id.kind>> \notin original
      BY <2>2, <3>1, StatusIsNoKind DEF Place
    <3>3. QED
      BY <2>1, <2>2, <3>2 DEF IInv, ConsentInv
  <2>3. CASE e.id.kind # "status"
    BY <2>1, <2>3 DEF IInv, ConsentInv, PlaceOf
  <2>4. QED
    BY <2>2, <2>3
<1>2. QED
  BY <1>1, Invariance, PTL

(* Whatever mixture of versions left the registry, each tracking id of     *)
(* this entry has an entity behind it (tracking.py:313-325).               *)
THEOREM OwnedAreServed == Spec => []OwnedIsServed
<1>1. IInv => OwnedIsServed
  <2> SUFFICES ASSUME IInv, Settled PROVE OwnedIsServed
    BY DEF OwnedIsServed
  <2>1. GivenIds = LiveIds
    BY DEF GivenIds, Given, LiveIds, Settled
  <2>2. QED
    BY <2>1 DEF IInv, OwnedInv, OwnedIsServed, Settled
<1>2. QED
  BY <1>1, Invariance, PTL

(* The rule by which the coordinator looks a venue page up                 *)
(* (privacy.py:56-70, coordinator.py:111-118) and the rule by which        *)
(* discovery creates entities (tracking.py:282-308) agree at every moment  *)
(* at which discovery has settled.                                         *)
THEOREM LookupsHaveAudience == Spec => []LookupHasAudience
<1>1. IInv => LookupHasAudience
  <2> SUFFICES ASSUME IInv, Settled, NEW o \in active, NEW k \in Kind \ {"delivery"},
                      LocationEnabled(o, k)
               PROVE  \E e \in live : e.id.order = o /\ e.id.kind = k /\ e.allowed
    BY DEF LookupHasAudience
  <2> DEFINE id == Id3(o, k, "scoped")
  <2>1. o \in Order /\ id \in Id /\ id.order = o /\ id.kind = k
    BY IdTyped DEF IInv, TypeOK, Form
  <2>2. Allowed(o, k)
    BY DEF LocationEnabled
  <2>3. registry[id] # "disabled"
    BY DEF LocationEnabled, Owned
  <2>4. <<o, k>> \in known
    BY <2>2 DEF IInv, ActiveInv, Settled
  <2>5. Scoped(<<o, k>>) = id
    BY DEF Scoped
  <2>6. Served(id)
    BY <2>4, <2>5 DEF IInv, ServedInv, Settled
  <2>7. PICK e \in Given : e.id = id
    BY <2>3, <2>6 DEF Served, GivenIds
  <2>8. e \in live
    BY <2>7 DEF Given, Settled
  <2>9. e.id.kind # "status"
    BY <2>1, <2>7, StatusIsNoKind
  <2>10. e.allowed
    BY <2>1, <2>2, <2>7, <2>9 DEF IInv, ConsentInv, Settled
  <2>11. QED
    BY <2>1, <2>7, <2>8, <2>10
<1>2. QED
  BY <1>1, Invariance, PTL

(* An order that is being polled has its delivery and status entities, or  *)
(* the user disabled them (tracking.py:282-308, sensor.py:270-294).        *)
THEOREM ActiveOrdersHaveEntities == Spec => []ActiveHasEntities
<1>1. IInv => ActiveHasEntities
  <2> SUFFICES ASSUME IInv, stage = "running", ~reload, NEW o \in active
               PROVE  Served(Id3(o, "delivery", "scoped")) /\ Served(Id3(o, "status", "scoped"))
    BY DEF ActiveHasEntities, Served, GivenIds, Given, LiveIds
  <2>1. o \in knownOrders /\ <<o, "delivery">> \in known
    BY ConstantsAssumption DEF IInv, ActiveInv
  <2>2. Scoped(<<o, "delivery">>) = Id3(o, "delivery", "scoped")
    BY DEF Scoped
  <2>3. QED
    BY <2>1, <2>2 DEF IInv, ServedInv
<1>2. QED
  BY <1>1, Invariance, PTL

-----------------------------------------------------------------------------
(* What the user has chosen survives the renaming.                         *)

LegacyOf(p) == Id3(p[1], p[2], "legacy")

\* Once a place has been discovered, no legacy id of ours is left, nor on its
\* way, beside a scoped id that is still free.
ChoiceInv ==
    \A p \in known : registry[Scoped(p)] = "none" =>
        /\ ~Owned(registry[LegacyOf(p)])
        /\ \A e \in Given : e.id # LegacyOf(p)

(* What a place was registered as, its successor is after the renaming,    *)
(* and a legacy id that could be renamed is gone.                          *)
LEMMA MigrationFacts ==
    ASSUME TypeOK, NEW places, NEW o \in Order, NEW k \in Kind
    PROVE  LET legacy == Id3(o, k, "legacy")
               scoped == Id3(o, k, "scoped")
           IN  IF Migrates(o, k, places)
               THEN /\ Migrated(places)[legacy] = "none"
                    /\ Migrated(places)[scoped] = registry[legacy]
               ELSE /\ Migrated(places)[legacy] = registry[legacy]
                    /\ Migrated(places)[scoped] = registry[scoped]
<1> DEFINE legacy == Id3(o, k, "legacy")
           scoped == Id3(o, k, "scoped")
<1>1. /\ legacy \in Id /\ legacy.order = o /\ legacy.kind = k /\ legacy.form = "legacy"
      /\ scoped \in Id /\ scoped.order = o /\ scoped.kind = k /\ scoped.form = "scoped"
  BY IdTyped DEF Form
<1>2. [scoped EXCEPT !.form = "legacy"] = legacy
  BY DEF Id3
<1>3. \A id \in Id : Migrated(places)[id] =
         IF ~Migrates(id.order, id.kind, places) THEN registry[id]
         ELSE IF id.form = "legacy" THEN "none" ELSE registry[[id EXCEPT !.form = "legacy"]]
  BY DEF Migrated
<1> HIDE DEF legacy, scoped
<1>4. IF Migrates(o, k, places)
      THEN Migrated(places)[legacy] = "none" /\ Migrated(places)[scoped] = registry[legacy]
      ELSE /\ Migrated(places)[legacy] = registry[legacy]
           /\ Migrated(places)[scoped] = registry[scoped]
  BY <1>1, <1>2, <1>3
<1>5. QED
  BY <1>4 DEF legacy, scoped

LEMMA InitChoice == Init => ChoiceInv
BY DEF Init, ChoiceInv

LEMMA StepKeepsChoiceInv == ASSUME IInv, ChoiceInv, [Next]_vars PROVE ChoiceInv'
<1> USE DEF IInv
<1>1. \A p \in Place : /\ Scoped(p) \in Id /\ LegacyOf(p) \in Id /\ Scoped(p) # LegacyOf(p)
                       /\ PlaceOf(Scoped(p)) = p /\ PlaceOf(LegacyOf(p)) = p
                       /\ LegacyOf(p).kind # "status"
  BY IdTyped, StatusIsNoKind DEF Place, Scoped, LegacyOf, PlaceOf, Form, Id3
<1>2. CASE Poll
  <2>1. PICK listed \in SUBSET Order, ongoing \in SUBSET Order : Discover(listed, ongoing)
    BY <1>2 DEF Poll
  <2>2. PICK places : places = Discovered(listed, ongoing)
    OBVIOUS
  <2> DEFINE sensors == {New(o, "status", "scoped", FALSE) :
                            o \in NewOrders(listed, ongoing, Migrated(places))}
  <2>3. /\ registry' = Migrated(places) /\ known' = known \cup places
        /\ Given' = Given \cup Trackers(places) \cup sensors
    BY <1>2, <2>1, <2>2 DEF Discover, Poll, Given
  <2>4. /\ places \subseteq Place \ known
        /\ \A id \in Id : PlaceOf(id) \notin places => Migrated(places)[id] = registry[id]
    BY <2>2, DiscoveryFacts
  <2>5. ASSUME NEW e \in Trackers(places)
        PROVE  \E p \in places : \/ e.id = Scoped(p)
                                 \/ /\ e.id = LegacyOf(p) /\ PlaceOf(e.id) = p
                                    /\ Owned(registry[LegacyOf(p)]) /\ Owned(registry[Scoped(p)])
    BY <1>1, <2>4 DEF Trackers, New, Scoped, LegacyOf, Form
  <2>6. \A e \in sensors : e.id.kind = "status"
    BY DEF New, Id3
  <2> HIDE DEF sensors
  <2>7. ASSUME NEW p \in known', registry'[Scoped(p)] = "none"
        PROVE  /\ ~Owned(registry'[LegacyOf(p)])
               /\ \A e \in Given' : e.id # LegacyOf(p)
    <3>1. p \in Place
      BY <2>3, <2>4 DEF TypeOK
    <3>2. \A e \in sensors : e.id # LegacyOf(p)
      BY <1>1, <2>6, <3>1
    <3>3. CASE p \in known
      <4>1. p \notin places
        BY <2>4, <3>3
      <4>2. registry'[Scoped(p)] = registry[Scoped(p)] /\ registry'[LegacyOf(p)] = registry[LegacyOf(p)]
        BY <1>1, <2>3, <2>4, <3>1, <4>1
      <4>3. ~Owned(registry[LegacyOf(p)]) /\ \A e \in Given : e.id # LegacyOf(p)
        BY <2>7, <3>3, <4>2 DEF ChoiceInv
      <4>4. \A e \in Trackers(places) : PlaceOf(e.id) \in places
        BY <2>4, TrackerFacts
      <4>5. \A e \in Trackers(places) : e.id # LegacyOf(p)
        BY <1>1, <3>1, <4>1, <4>4
      <4>6. QED
        BY <2>3, <3>2, <4>2, <4>3, <4>5
    <3>4. CASE p \notin known
      <4>1. p \in places /\ p[1] \in Order /\ p[2] \in Kind /\ p = <<p[1], p[2]>>
        BY <2>3, <3>1, <3>4 DEF Place
      <4>2. IF Migrates(p[1], p[2], places)
            THEN /\ Migrated(places)[LegacyOf(p)] = "none"
                 /\ Migrated(places)[Scoped(p)] = registry[LegacyOf(p)]
            ELSE /\ Migrated(places)[LegacyOf(p)] = registry[LegacyOf(p)]
                 /\ Migrated(places)[Scoped(p)] = registry[Scoped(p)]
        BY <4>1, MigrationFacts DEF LegacyOf, Scoped
      <4>3. ~Migrates(p[1], p[2], places)
        BY <2>3, <2>7, <4>2 DEF Migrates, Owned, LegacyOf
      <4>4. registry[Scoped(p)] = "none" /\ ~Owned(registry[LegacyOf(p)])
            /\ registry'[LegacyOf(p)] = registry[LegacyOf(p)]
        BY <2>3, <2>7, <4>1, <4>2, <4>3 DEF Migrates, LegacyOf, Scoped
      <4>5. ASSUME NEW e \in Given PROVE e.id # LegacyOf(p)
        <5>1. e.id.kind # "status" => PlaceOf(e.id) \in known
          BY DEF KnownInv
        <5>2. QED
          BY <1>1, <3>1, <3>4, <5>1
      <4>6. ASSUME NEW e \in Trackers(places) PROVE e.id # LegacyOf(p)
        <5>1. PICK q \in places : \/ e.id = Scoped(q)
                                  \/ /\ e.id = LegacyOf(q) /\ PlaceOf(e.id) = q
                                     /\ Owned(registry[LegacyOf(q)]) /\ Owned(registry[Scoped(q)])
          BY <2>5
        <5>2. q \in Place
          BY <2>4
        <5>3. Scoped(q) # LegacyOf(p)
          BY <3>1, <5>2, IdTyped DEF Place, Scoped, LegacyOf, Form
        <5>4. e.id = LegacyOf(q) /\ e.id = LegacyOf(p) => q = p
          BY <1>1, <3>1, <5>2
        <5>5. QED
          BY <4>4, <5>1, <5>3, <5>4
      <4>7. QED
        BY <2>3, <3>2, <4>4, <4>5, <4>6
    <3>5. QED
      BY <3>3, <3>4
  <2>8. QED
    BY <2>7 DEF ChoiceInv, Scoped, LegacyOf, Id3
<1>3. CASE AddEntity
  <2>1. PICK e \in pending :
           /\ pending' = pending \ {e}
           /\ registry' = [registry EXCEPT ![e.id] = IF @ = "none" THEN "enabled" ELSE @]
           /\ live' \subseteq live \cup {e} /\ known' = known
    BY <1>3 DEF AddEntity
  <2>2. Given' \subseteq Given /\ e \in Given
    BY <2>1 DEF Given
  <2>3. ASSUME NEW p \in known, registry'[Scoped(p)] = "none"
        PROVE  ~Owned(registry'[LegacyOf(p)]) /\ \A f \in Given' : f.id # LegacyOf(p)
    <3>1. Scoped(p) \in Id /\ LegacyOf(p) \in Id
      BY <1>1 DEF TypeOK
    <3>2. registry[Scoped(p)] = "none"
      BY <2>1, <2>3, <3>1 DEF TypeOK
    <3>3. ~Owned(registry[LegacyOf(p)]) /\ \A f \in Given : f.id # LegacyOf(p)
      BY <3>2 DEF ChoiceInv
    <3>4. registry'[LegacyOf(p)] = registry[LegacyOf(p)]
      BY <2>1, <2>2, <3>1, <3>3 DEF TypeOK
    <3>5. QED
      BY <2>2, <3>3, <3>4
  <2>4. QED
    BY <2>1, <2>3 DEF ChoiceInv, Scoped, LegacyOf, Id3
<1>4. CASE Stop
  BY <1>4 DEF Stop, ChoiceInv
<1>5. CASE Disable \/ Enable
  <2>1. PICK id \in Id, item \in {"enabled", "disabled"} :
           Owned(registry[id]) /\ registry' = [registry EXCEPT ![id] = item]
    BY <1>5 DEF Disable, Enable, Owned
  <2>2. known' = known /\ Given' \subseteq Given
    BY <1>5 DEF Disable, Enable, Given
  <2>3. \A i \in Id : /\ registry'[i] = "none" => registry[i] = "none"
                      /\ Owned(registry'[i]) => Owned(registry[i])
    BY <2>1 DEF TypeOK, Owned
  <2>4. \A p \in known : Scoped(p) \in Id /\ LegacyOf(p) \in Id
    BY <1>1 DEF TypeOK
  <2>5. QED
    BY <2>2, <2>3, <2>4 DEF ChoiceInv, Scoped, LegacyOf, Id3
<1>6. CASE BeginSetup \/ ChangeMaps \/ UNCHANGED vars
  BY <1>6 DEF BeginSetup, ChangeMaps, vars, ChoiceInv, Given, Owned, Scoped, LegacyOf, Id3
<1>7. QED
  BY <1>2, <1>3, <1>4, <1>5, <1>6 DEF Next

LEMMA ChoiceInvariance == Spec => []ChoiceInv
<1>1. IInv /\ ChoiceInv /\ [Next]_vars => ChoiceInv'
  BY StepKeepsChoiceInv
<1>2. QED
  BY <1>1, InitChoice, Invariance, PTL DEF Spec

\* location_enabled's question to the registry.
DisabledByUser(o, k) ==
    \/ registry[Id3(o, k, "scoped")] = "disabled"
    \/ ~Owned(registry[Id3(o, k, "scoped")]) /\ registry[Id3(o, k, "legacy")] = "disabled"

LEMMA EnabledAsAsked ==
    ASSUME NEW o \in Order, NEW k \in Kind
    PROVE  LocationEnabled(o, k) <=> Allowed(o, k) /\ ~DisabledByUser(o, k)
BY DEF LocationEnabled, DisabledByUser, Owned

LEMMA StepKeepsDisabled ==
    ASSUME IInv, ChoiceInv, [Next]_vars, ~(Disable \/ Enable), NEW o \in Order, NEW k \in Kind
    PROVE  DisabledByUser(o, k)' <=> DisabledByUser(o, k)
<1> DEFINE legacy == Id3(o, k, "legacy")
           scoped == Id3(o, k, "scoped")
<1>1. legacy \in Id /\ scoped \in Id /\ legacy # scoped
      /\ scoped.order = o /\ scoped.kind = k
  BY IdTyped DEF Form, Id3
<1>2. CASE registry'[scoped] = registry[scoped] /\ registry'[legacy] = registry[legacy]
  BY <1>2 DEF DisabledByUser, Owned, Id3
<1>3. CASE Poll
  <2>1. PICK listed \in SUBSET Order, ongoing \in SUBSET Order : Discover(listed, ongoing)
    BY <1>3 DEF Poll
  <2>2. PICK places : registry' = Migrated(places)
    BY <2>1 DEF Discover
  <2>3. CASE Migrates(o, k, places)
    <3>1. registry'[legacy] = "none" /\ registry'[scoped] = registry[legacy]
      BY <2>2, <2>3, MigrationFacts DEF IInv
    <3>2. Owned(registry[legacy]) /\ registry[scoped] = "none"
      BY <2>3 DEF Migrates
    <3>3. QED
      BY <3>1, <3>2 DEF DisabledByUser, Owned, Id3
  <2>4. CASE ~Migrates(o, k, places)
    BY <1>2, <2>2, <2>4, MigrationFacts DEF IInv
  <2>5. QED
    BY <2>3, <2>4
<1>4. CASE AddEntity
  <2>1. PICK e \in pending :
           registry' = [registry EXCEPT ![e.id] = IF @ = "none" THEN "enabled" ELSE @]
    BY <1>4 DEF AddEntity
  <2>2. CASE e.id = scoped /\ registry[scoped] = "none"
    <3>1. PlaceOf(e.id) = <<o, k>> /\ e \in Given /\ e.id.kind # "status"
      BY <1>1, <2>2, StatusIsNoKind DEF PlaceOf, Given
    <3>2. <<o, k>> \in known
      BY <3>1 DEF IInv, KnownInv
    <3>3. ~Owned(registry[legacy])
      BY <2>2, <3>2 DEF ChoiceInv, Scoped, LegacyOf
    <3>4. registry'[scoped] = "enabled" /\ registry'[legacy] = registry[legacy]
      BY <1>1, <2>1, <2>2 DEF IInv, TypeOK
    <3>5. QED
      BY <2>2, <3>3, <3>4 DEF DisabledByUser, Owned, Id3
  <2>3. CASE e.id = legacy /\ registry[legacy] = "none"
    <3>1. registry'[scoped] = registry[scoped] /\ registry'[legacy] = "enabled"
      BY <1>1, <2>1, <2>3 DEF IInv, TypeOK
    <3>2. QED
      BY <2>3, <3>1 DEF DisabledByUser, Owned, Id3
  <2>4. CASE /\ ~(e.id = scoped /\ registry[scoped] = "none")
             /\ ~(e.id = legacy /\ registry[legacy] = "none")
    BY <1>1, <1>2, <2>1, <2>4 DEF IInv, TypeOK
  <2>5. QED
    BY <2>2, <2>3, <2>4
<1>5. CASE BeginSetup \/ Stop \/ ChangeMaps \/ UNCHANGED vars
  BY <1>2, <1>5 DEF BeginSetup, Stop, ChangeMaps, vars
<1>6. QED
  BY <1>3, <1>4, <1>5 DEF Next

(* "Never steal another entry's identity or change disabled state"         *)
(* (tracking.py:310): that a place is disabled, under whichever of its ids *)
(* it is registered at the time, is changed by the user alone, whatever    *)
(* discovery renames and Home Assistant registers (tracking.py:304-325).   *)
DisabledKept ==
    [][\A o \in Order, k \in Kind :
          Disable \/ Enable \/ (DisabledByUser(o, k)' <=> DisabledByUser(o, k))]_vars

(* Discovery keeps the disabled state of every place, whatever mixture of  *)
(* versions left the registry (tracking.py:304-325).                       *)
THEOREM DisabledStateIsKept == Spec => DisabledKept
<1> DEFINE Kept == \A o \in Order, k \in Kind :
                      Disable \/ Enable \/ (DisabledByUser(o, k)' <=> DisabledByUser(o, k))
<1>1. IInv /\ ChoiceInv /\ [Next]_vars => [Kept]_vars
  BY StepKeepsDisabled
<1>2. QED
  BY <1>1, Invariance, ChoiceInvariance, PTL DEF Spec, DisabledKept

\* A choice of the user, or the snapshot that is taken once in its stead.
Choice == Disable \/ Enable \/ ChangeMaps \/ (BeginSetup /\ ~migrated)

(* The coordinator asks location_enabled (privacy.py:56-70) from the       *)
(* registry while discovery is renaming and registering ids in it.  The    *)
(* answer changes by a choice of the user, or when the first setup takes   *)
(* its snapshot, and by nothing else.                                      *)
ChoiceKept ==
    [][\A o \in Order, k \in Kind :
          Choice \/ (LocationEnabled(o, k)' <=> LocationEnabled(o, k))]_vars

(* Venue lookups (coordinator.py:111) follow the user's choices and the    *)
(* snapshot alone, before, during and after the renaming.                  *)
THEOREM LookupsFollowTheUser == Spec => ChoiceKept
<1> DEFINE Kept == \A o \in Order, k \in Kind :
                      Choice \/ (LocationEnabled(o, k)' <=> LocationEnabled(o, k))
<1>1. ASSUME IInv, ChoiceInv, [Next]_vars, ~Choice, NEW o \in Order, NEW k \in Kind
      PROVE  LocationEnabled(o, k)' <=> LocationEnabled(o, k)
  <2>1. UNCHANGED <<maps, inherited>>
    BY <1>1 DEF Choice, Next, BeginSetup, Poll, AddEntity, Stop, vars, consent
  <2>2. Allowed(o, k)' <=> Allowed(o, k)
    BY <2>1 DEF Allowed
  <2>3. DisabledByUser(o, k)' <=> DisabledByUser(o, k)
    BY <1>1, StepKeepsDisabled DEF Choice
  <2>4. LocationEnabled(o, k)' <=> Allowed(o, k)' /\ ~DisabledByUser(o, k)'
    BY DEF LocationEnabled, DisabledByUser, Owned, Id3
  <2>5. QED
    BY <2>2, <2>3, <2>4, EnabledAsAsked
<1>2. IInv /\ ChoiceInv /\ [Next]_vars => [Kept]_vars
  BY <1>1
<1>3. QED
  BY <1>2, Invariance, ChoiceInvariance, PTL DEF Spec, ChoiceKept

=============================================================================
