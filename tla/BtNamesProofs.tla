--------------------------- MODULE BtNamesProofs ---------------------------
(***************************************************************************)
(* Proofs about BtPlatform and BtNames, for any devices, any number of     *)
(* slots, any table of names and any clock: slots follow links, a slot     *)
(* shows a name of its device, a lookup finds the newest name, and the     *)
(* counter the reset of the host waits for counts the links being set up.  *)
(***************************************************************************)
EXTENDS BtNames, FiniteSetTheorems, WellFoundedInduction, TLAPS

Slot(k) == 1 .. SlotCount[k]
all_vars == <<vars, name_vars>>

(* ------------------------- the inductive invariant --------------------- *)

\* A function on the slots of each class, with values in T.
OnSlots(f, T) == f = [k \in Class |-> f[k]] /\ \A k \in Class : f[k] \in [Slot(k) -> T]

Typed ==
  /\ link \in [Device -> {"none", "found", "connected", "ready"}]
  /\ awaiting \in Nat /\ unforeseen \in BOOLEAN /\ wipes \in Nat
  /\ settle \in 0 .. Unset /\ deadline \in 0 .. Unset
  /\ depth \in Nat /\ phase \in {"running", "paused"} /\ spun \in BOOLEAN
  /\ now \in 0 .. Clock - 1
  /\ pc0 \in {"loop", "watchdog", "poll", "wait"}
  /\ believed \in BOOLEAN
  /\ pc1 \in {"check", "pause", "spin", "wfe", "run", "task"}
  /\ heard \in 0 .. MaxHeard

SlotsTyped ==
  /\ OnSlots(map, Device \cup {NoDevice})
  /\ OnSlots(connected, BOOLEAN)
  /\ OnSlots(name, AllNames)

\* A free slot has no name; that of a device has the name of the device, of its
\* class, or none as long as the slot does not count as connected.
SlotNamed(k, i) ==
  /\ map[k][i] = NoDevice => name[k][i] = NoName
  /\ map[k][i] # NoDevice => name[k][i] \in NamesOf(map[k][i]) \cup {Generic(k), NoName}
  /\ connected[k][i] => name[k][i] \in NamesOf(map[k][i]) \cup {Generic(k)}

SlotsNamed == \A k \in Class : \A i \in Slot(k) : SlotNamed(k, i)

\* What waits in the table under an address is a name of the device there.
TableHolds ==
  /\ table \in [Entry -> [addr : Device \cup {NoDevice}, name : AllNames, valid : BOOLEAN]]
  /\ newest \in [Device -> AllNames]
  /\ \A e \in Entry : table[e].valid => table[e].name \in NamesOf(table[e].addr)

\* While nothing unforeseen has happened, a device has a connected slot exactly
\* from device_ready on, which is what its disconnection goes by.
HasConnectedSlot(d) == \E k \in Class : \E i \in Slot(k) : map[k][i] = d /\ connected[k][i]
ReadyMeansSlot ==
  ~unforeseen => \A d \in Device :
    /\ link[d] = "connected" => ~HasConnectedSlot(d)
    /\ link[d] = "ready" => HasConnectedSlot(d)

SlotInv  == SlotsTyped /\ SlotsFollowLinks /\ SlotsNamed
TableInv == TableHolds /\ LookupFindsNewest
CountInv == IsFiniteSet(Forming) /\ ReadyMeansSlot /\ LinksCounted
NamesInv == Typed /\ SlotInv /\ TableInv /\ CountInv

(* --------------------------- sets and numbers -------------------------- *)

\* The least element of a set of naturals, which the code finds from the front.
LEMMA MinFacts ==
  ASSUME NEW S \in SUBSET Nat, S # {}
  PROVE  Min(S) \in S /\ \A y \in S : Min(S) <= y
<1>1. DEFINE R == OpToRel(<, Nat)
<1>2. IsWellFoundedOn(R, Nat)
  BY NatLessThanWellFounded
<1>3. \A p, q \in Nat : p < q => <<p, q>> \in R
  BY DEF OpToRel
<1> HIDE DEF R
<1>4. PICK x \in S : \A y \in S : ~(<<y, x>> \in R)
  BY <1>2, WFMin
<1>5. \A y \in S : x <= y
  <2>1. SUFFICES ASSUME NEW y \in S, ~(x <= y) PROVE FALSE
    OBVIOUS
  <2>2. x \in Nat /\ y \in Nat
    OBVIOUS
  <2>3. y < x
    BY <2>1, <2>2
  <2>4. QED
    BY <1>3, <1>4, <2>2, <2>3
<1>6. \E z \in S : \A y \in S : z <= y
  BY <1>5
<1>7. QED
  BY <1>6 DEF Min

LEMMA ClockFacts ==
  /\ Clock \in Nat /\ Clock > 0 /\ Unset \in Nat /\ Unset = Clock
  /\ Watchdog \in Nat /\ Settle \in Nat
<1>1. Clock \in Nat /\ Clock > 0
  BY PlatformAssumption DEF PlatformAssumption
<1>2. QED
  BY <1>1, PlatformAssumption DEF PlatformAssumption, Unset

LEMMA AfterType ==
  ASSUME Typed, NEW t \in Nat
  PROVE  After(t) \in 0 .. Clock - 1 /\ After(t) \in 0 .. Unset
<1>1. now + t \in Int
  BY ClockFacts DEF Typed
<1>2. (now + t) % Clock \in 0 .. Clock - 1
  BY <1>1, ClockFacts
<1>3. QED
  BY <1>2, ClockFacts DEF After

LEMMA ClassFacts ==
  /\ \A k \in Class : SlotCount[k] \in Nat \ {0}
  /\ NoDevice \notin Device
  /\ "keyboard" \in Class /\ "mouse" \in Class /\ "gamepad" \in Class
  BY PlatformAssumption DEF PlatformAssumption, Class

LEMMA NameFacts ==
  /\ NoName \in AllNames
  /\ \A k \in Class : Generic(k) \in AllNames
  /\ \A d \in Device : NamesOf(d) \subseteq AllNames
  /\ \A d \in Device : OwnName(d) = NoName \/ OwnName(d) \in NamesOf(d)
  /\ \A d \in Device, v \in Version : <<d, v>> \in NamesOf(d)
<1>1. NoName \in AllNames /\ \A k \in Class : Generic(k) \in AllNames
  <2>1. NoName \in AllNames
    BY DEF AllNames
  <2>2. \A k \in Class : Generic(k) \in {Generic(c) : c \in Class}
    OBVIOUS
  <2>3. QED
    BY <2>1, <2>2 DEF AllNames
<1>2. \A d \in Device : NamesOf(d) \subseteq AllNames
  <2>1. SUFFICES ASSUME NEW d \in Device, NEW n \in NamesOf(d) PROVE n \in AllNames
    OBVIOUS
  <2>2. n \in UNION {NamesOf(e) : e \in Device}
    OBVIOUS
  <2>3. QED
    BY <2>2 DEF AllNames
<1>3. \A d \in Device : OwnName(d) = NoName \/ OwnName(d) \in NamesOf(d)
  BY DEF OwnName, NamesOf
<1>4. \A d \in Device, v \in Version : <<d, v>> \in NamesOf(d)
  BY DEF NamesOf
<1>5. QED
  BY <1>1, <1>2, <1>3, <1>4

(* -------------------------------- slots -------------------------------- *)

\* One slot changes, the others stay.
LEMMA SlotUpdate ==
  ASSUME NEW T, NEW f, OnSlots(f, T), NEW k \in Class, NEW i \in Slot(k), NEW v \in T
  PROVE  LET g == [f EXCEPT ![k][i] = v]
         IN  /\ OnSlots(g, T)
             /\ \A c \in Class : \A j \in Slot(c) :
                  g[c][j] = IF c = k /\ j = i THEN v ELSE f[c][j]
<1> DEFINE g == [f EXCEPT ![k][i] = v]
<1>1. f = [c \in Class |-> f[c]] /\ f[k] \in [Slot(k) -> T]
  BY DEF OnSlots
<1>2. g = [c \in Class |-> IF c = k THEN [f[k] EXCEPT ![i] = v] ELSE f[c]]
  BY <1>1
<1>3. [f[k] EXCEPT ![i] = v] \in [Slot(k) -> T]
  BY <1>1
<1> HIDE DEF g
<1>4. \A c \in Class : g[c] \in [Slot(c) -> T]
  BY <1>2, <1>3 DEF OnSlots
<1>5. OnSlots(g, T)
  BY <1>2, <1>4 DEF OnSlots
<1>6. \A c \in Class : \A j \in Slot(c) : g[c][j] = IF c = k /\ j = i THEN v ELSE f[c][j]
  BY <1>1, <1>2
<1>7. QED
  BY <1>5, <1>6 DEF g

LEMMA FindSlotFacts ==
  ASSUME SlotsTyped, NEW k \in Class, NEW d \in Device, FindSlot(k, d) # 0
  PROVE  LET i == FindSlot(k, d)
         IN  /\ i \in Slot(k)
             /\ \/ map[k][i] = d
                \/ map[k][i] = NoDevice /\ \A j \in Slot(k) : map[k][j] # d
<1>1. Held(k, d) \in SUBSET Nat /\ Held(k, NoDevice) \in SUBSET Nat
  BY ClassFacts DEF Held
<1>2. \A e : Held(k, e) = {j \in Slot(k) : map[k][j] = e}
  BY DEF Held, Slot
<1>3. CASE Held(k, d) # {}
  <2>1. Min(Held(k, d)) \in Held(k, d)
    BY <1>1, <1>3, MinFacts
  <2>2. FindSlot(k, d) = Min(Held(k, d))
    BY <1>3 DEF FindSlot
  <2>3. QED
    BY <1>2, <2>1, <2>2
<1>4. CASE Held(k, d) = {}
  <2>1. Held(k, NoDevice) # {} /\ FindSlot(k, d) = Min(Held(k, NoDevice))
    BY <1>4 DEF FindSlot
  <2>2. Min(Held(k, NoDevice)) \in Held(k, NoDevice)
    BY <1>1, <2>1, MinFacts
  <2>3. QED
    BY <1>2, <1>4, <2>1, <2>2
<1>5. QED
  BY <1>3, <1>4

\* Slot i of class k is, or becomes, that of device d: it counts as connected if
\* b, and shows name n.
Claims(k, i, d, b, n) ==
  /\ i \in Slot(k)
  /\ \/ map[k][i] = d
     \/ map[k][i] = NoDevice /\ \A j \in Slot(k) : map[k][j] # d
  /\ map' = [map EXCEPT ![k][i] = d]
  /\ connected' = [connected EXCEPT ![k][i] = b]
  /\ name' = [name EXCEPT ![k][i] = n]

LEMMA ClaimEffect ==
  ASSUME SlotsTyped, NEW k \in Class, NEW i, NEW d \in Device, NEW b \in BOOLEAN, NEW n \in AllNames,
         Claims(k, i, d, b, n)
  PROVE  /\ SlotsTyped'
         /\ \A c \in Class : \A j \in Slot(c) :
              /\ map'[c][j] = IF c = k /\ j = i THEN d ELSE map[c][j]
              /\ connected'[c][j] = IF c = k /\ j = i THEN b ELSE connected[c][j]
              /\ name'[c][j] = IF c = k /\ j = i THEN n ELSE name[c][j]
<1>1. i \in Slot(k) /\ d \in Device \cup {NoDevice}
  BY DEF Claims
<1>2. OnSlots(map, Device \cup {NoDevice}) /\ OnSlots(connected, BOOLEAN) /\ OnSlots(name, AllNames)
  BY DEF SlotsTyped
<1>3. LET g == [map EXCEPT ![k][i] = d]
      IN  /\ OnSlots(g, Device \cup {NoDevice})
          /\ \A c \in Class : \A j \in Slot(c) : g[c][j] = IF c = k /\ j = i THEN d ELSE map[c][j]
  BY <1>1, <1>2, SlotUpdate
<1>4. LET g == [connected EXCEPT ![k][i] = b]
      IN  /\ OnSlots(g, BOOLEAN)
          /\ \A c \in Class : \A j \in Slot(c) :
               g[c][j] = IF c = k /\ j = i THEN b ELSE connected[c][j]
  BY <1>1, <1>2, SlotUpdate
<1>5. LET g == [name EXCEPT ![k][i] = n]
      IN  /\ OnSlots(g, AllNames)
          /\ \A c \in Class : \A j \in Slot(c) : g[c][j] = IF c = k /\ j = i THEN n ELSE name[c][j]
  BY <1>1, <1>2, SlotUpdate
<1>6. /\ OnSlots(map', Device \cup {NoDevice})
      /\ \A c \in Class : \A j \in Slot(c) : map'[c][j] = IF c = k /\ j = i THEN d ELSE map[c][j]
  BY <1>3 DEF Claims
<1>7. /\ OnSlots(connected', BOOLEAN)
      /\ \A c \in Class : \A j \in Slot(c) :
           connected'[c][j] = IF c = k /\ j = i THEN b ELSE connected[c][j]
  BY <1>4 DEF Claims
<1>8. /\ OnSlots(name', AllNames)
      /\ \A c \in Class : \A j \in Slot(c) : name'[c][j] = IF c = k /\ j = i THEN n ELSE name[c][j]
  BY <1>5 DEF Claims
<1>9. SlotsTyped'
  BY <1>6, <1>7, <1>8 DEF SlotsTyped, OnSlots, Slot, AllNames, NamesOf, Generic
<1>10. QED
  BY <1>6, <1>7, <1>8, <1>9

LEMMA ClaimKeepsSlots ==
  ASSUME SlotInv, NEW k \in Class, NEW i, NEW d \in Device, NEW b \in BOOLEAN, NEW n \in AllNames,
         Claims(k, i, d, b, n),
         n \in NamesOf(d) \cup {Generic(k), NoName},
         b => n \in NamesOf(d) \cup {Generic(k)},
         link'[d] \in {"connected", "ready"},
         \A e \in Device \ {d} : link'[e] = link[e]
  PROVE  SlotInv'
<1>1. /\ SlotsTyped'
      /\ \A c \in Class : \A j \in Slot(c) :
           /\ map'[c][j] = IF c = k /\ j = i THEN d ELSE map[c][j]
           /\ connected'[c][j] = IF c = k /\ j = i THEN b ELSE connected[c][j]
           /\ name'[c][j] = IF c = k /\ j = i THEN n ELSE name[c][j]
  BY ClaimEffect DEF SlotInv
<1>2. \A c \in Class : \A j \in Slot(c) : map[c][j] \in Device \cup {NoDevice}
  BY DEF SlotInv, SlotsTyped, OnSlots
<1>3. d # NoDevice
  BY ClassFacts
<1>4. /\ i \in Slot(k)
      /\ \A j \in Slot(k) : map[k][j] = d => j = i
  <2>1. \/ map[k][i] = d
        \/ map[k][i] = NoDevice /\ \A j \in Slot(k) : map[k][j] # d
    BY DEF Claims
  <2>2. \A j \in Slot(k) : i \in Slot(k) /\ map[k][i] = d /\ map[k][j] = d => j = i
    BY <1>3 DEF SlotInv, SlotsFollowLinks, Slot
  <2>3. i \in Slot(k)
    BY DEF Claims
  <2>4. QED
    BY <2>1, <2>2, <2>3
<1>5. SlotsFollowLinks'
  <2>1. SUFFICES ASSUME NEW c \in Class, NEW j \in Slot(c)
                 PROVE  /\ connected'[c][j] => map'[c][j] # NoDevice
                        /\ map'[c][j] # NoDevice =>
                             /\ link'[map'[c][j]] \in {"connected", "ready"}
                             /\ \A h \in Slot(c) : map'[c][h] = map'[c][j] => j = h
    BY DEF SlotsFollowLinks, Slot
  <2>2. /\ connected[c][j] => map[c][j] # NoDevice
        /\ map[c][j] # NoDevice =>
             /\ link[map[c][j]] \in {"connected", "ready"}
             /\ \A h \in Slot(c) : map[c][h] = map[c][j] => j = h
    BY DEF SlotInv, SlotsFollowLinks, Slot
  <2>3. connected'[c][j] => map'[c][j] # NoDevice
    BY <1>1, <1>3, <2>2
  <2>4. map'[c][j] # NoDevice => link'[map'[c][j]] \in {"connected", "ready"}
    BY <1>1, <1>2, <2>2
  <2>5. ASSUME map'[c][j] # NoDevice, NEW h \in Slot(c), map'[c][h] = map'[c][j] PROVE j = h
    <3>1. CASE c = k /\ j = i
      BY <1>1, <1>4, <2>5, <3>1
    <3>2. CASE c = k /\ h = i
      BY <1>1, <1>4, <2>5, <3>2
    <3>3. CASE ~(c = k /\ j = i) /\ ~(c = k /\ h = i)
      BY <1>1, <2>2, <2>5, <3>3
    <3>4. QED
      BY <3>1, <3>2, <3>3
  <2>6. QED
    BY <2>3, <2>4, <2>5
<1>6. SlotsNamed'
  <2>1. SUFFICES ASSUME NEW c \in Class, NEW j \in Slot(c) PROVE SlotNamed(c, j)'
    BY DEF SlotsNamed, Slot
  <2>2. SlotNamed(c, j)
    BY DEF SlotInv, SlotsNamed
  <2>3. CASE c = k /\ j = i
    <3>1. map'[c][j] = d /\ connected'[c][j] = b /\ name'[c][j] = n
      BY <1>1, <2>3
    <3>2. n \in NamesOf(d) \cup {Generic(c), NoName} /\ (b => n \in NamesOf(d) \cup {Generic(c)})
      BY <2>3
    <3>3. QED
      BY <1>3, <3>1, <3>2 DEF SlotNamed, NamesOf, Generic
  <2>4. CASE ~(c = k /\ j = i)
    <3>1. map'[c][j] = map[c][j] /\ connected'[c][j] = connected[c][j] /\ name'[c][j] = name[c][j]
      BY <1>1, <2>4
    <3>2. QED
      BY <2>2, <3>1 DEF SlotNamed, NamesOf, Generic
  <2>5. QED
    BY <2>3, <2>4
<1>7. QED
  BY <1>1, <1>5, <1>6 DEF SlotInv

\* The slots of a device that leaves are free and nameless.
LEMMA DisconnectEffect ==
  ASSUME SlotsTyped, NEW d \in Device, DisconnectedNamed(d)
  PROVE  /\ SlotsTyped'
         /\ \A c \in Class : \A j \in Slot(c) :
              /\ map'[c][j] = IF map[c][j] = d THEN NoDevice ELSE map[c][j]
              /\ connected'[c][j] = (connected[c][j] /\ map[c][j] # d)
              /\ name'[c][j] = IF map[c][j] = d THEN NoName ELSE name[c][j]
<1>1. /\ map' = [c \in Class |-> [j \in Slot(c) |-> IF map[c][j] = d THEN NoDevice ELSE map[c][j]]]
      /\ connected' = [c \in Class |-> [j \in Slot(c) |-> connected[c][j] /\ map[c][j] # d]]
      /\ name' = [c \in Class |-> [j \in Slot(c) |-> IF map[c][j] = d THEN NoName ELSE name[c][j]]]
  BY DEF DisconnectedNamed, Disconnected, Cleared, NamesLeft, Slot
<1>2. \A c \in Class : \A j \in Slot(c) :
        map[c][j] \in Device \cup {NoDevice} /\ connected[c][j] \in BOOLEAN /\ name[c][j] \in AllNames
  BY DEF SlotsTyped, OnSlots
<1>3. OnSlots(map, Device \cup {NoDevice})' /\ OnSlots(connected, BOOLEAN)'
  BY <1>1, <1>2 DEF OnSlots, Slot
<1>4. OnSlots(name', AllNames)
  BY <1>1, <1>2, NameFacts DEF OnSlots
<1>5. SlotsTyped'
  BY <1>3, <1>4 DEF SlotsTyped, OnSlots, Slot, AllNames, NamesOf, Generic
<1>6. QED
  BY <1>1, <1>5

LEMMA DisconnectKeepsSlots ==
  ASSUME Typed, SlotInv, NEW d \in Device, DisconnectedNamed(d)
  PROVE  SlotInv'
<1>1. /\ SlotsTyped'
      /\ \A c \in Class : \A j \in Slot(c) :
           /\ map'[c][j] = IF map[c][j] = d THEN NoDevice ELSE map[c][j]
           /\ connected'[c][j] = (connected[c][j] /\ map[c][j] # d)
           /\ name'[c][j] = IF map[c][j] = d THEN NoName ELSE name[c][j]
  BY DisconnectEffect DEF SlotInv
<1>2. \A e \in Device \ {d} : link'[e] = link[e]
  BY DEF DisconnectedNamed, Disconnected, Typed
<1>3. \A c \in Class : \A j \in Slot(c) : map[c][j] \in Device \cup {NoDevice}
  BY DEF SlotInv, SlotsTyped, OnSlots
<1>4. SlotsFollowLinks'
  <2>1. SUFFICES ASSUME NEW c \in Class, NEW j \in Slot(c)
                 PROVE  /\ connected'[c][j] => map'[c][j] # NoDevice
                        /\ map'[c][j] # NoDevice =>
                             /\ link'[map'[c][j]] \in {"connected", "ready"}
                             /\ \A h \in Slot(c) : map'[c][h] = map'[c][j] => j = h
    BY DEF SlotsFollowLinks, Slot
  <2>2. /\ connected[c][j] => map[c][j] # NoDevice
        /\ map[c][j] # NoDevice =>
             /\ link[map[c][j]] \in {"connected", "ready"}
             /\ \A h \in Slot(c) : map[c][h] = map[c][j] => j = h
    BY DEF SlotInv, SlotsFollowLinks, Slot
  <2>3. connected'[c][j] => map'[c][j] # NoDevice
    BY <1>1, <2>2
  <2>4. map'[c][j] # NoDevice => map[c][j] # d /\ map'[c][j] = map[c][j]
    BY <1>1
  <2>5. map'[c][j] # NoDevice => link'[map'[c][j]] \in {"connected", "ready"}
    BY <1>2, <1>3, <2>2, <2>4
  <2>6. ASSUME map'[c][j] # NoDevice, NEW h \in Slot(c), map'[c][h] = map'[c][j] PROVE j = h
    <3>1. map[c][h] = map[c][j]
      BY <1>1, <2>4, <2>6
    <3>2. QED
      BY <2>2, <2>4, <2>6, <3>1
  <2>7. QED
    BY <2>3, <2>5, <2>6
<1>5. SlotsNamed'
  <2>1. SUFFICES ASSUME NEW c \in Class, NEW j \in Slot(c) PROVE SlotNamed(c, j)'
    BY DEF SlotsNamed, Slot
  <2>2. SlotNamed(c, j)
    BY DEF SlotInv, SlotsNamed
  <2>3. CASE map[c][j] = d
    BY <1>1, <2>3 DEF SlotNamed
  <2>4. CASE map[c][j] # d
    <3>1. map'[c][j] = map[c][j] /\ (connected'[c][j] => connected[c][j]) /\ name'[c][j] = name[c][j]
      BY <1>1, <2>4
    <3>2. QED
      BY <2>2, <3>1 DEF SlotNamed, NamesOf, Generic
  <2>5. QED
    BY <2>3, <2>4
<1>6. QED
  BY <1>1, <1>4, <1>5 DEF SlotInv

LEMMA SlotsStay ==
  ASSUME Typed, SlotInv, UNCHANGED <<map, connected, name>>,
         \A e \in Device : link[e] \in {"connected", "ready"} => link'[e] \in {"connected", "ready"}
  PROVE  SlotInv'
<1>1. SlotsTyped' /\ SlotsNamed'
  BY DEF SlotInv, SlotsTyped, SlotsNamed, SlotNamed, OnSlots, Slot, AllNames, NamesOf, Generic
<1>2. \A c \in Class : \A j \in Slot(c) : map[c][j] \in Device \cup {NoDevice}
  BY DEF SlotInv, SlotsTyped, OnSlots
<1>3. SlotsFollowLinks'
  BY <1>2 DEF SlotInv, SlotsFollowLinks, Slot
<1>4. QED
  BY <1>1, <1>3 DEF SlotInv

(* ---------------------------- what steps do ---------------------------- *)

\* device_ready claims a slot of the device's class, or finds none.
LEMMA ReadyEffect ==
  ASSUME Typed, SlotInv, TableInv, NEW d \in Device, ReadyNamed(d)
  PROVE  \/ unforeseen' /\ UNCHANGED <<map, connected, name, table, newest>>
         \/ /\ unforeseen' = unforeseen
            /\ \/ UNCHANGED <<table, newest>>
               \/ clear_pending_name_by_addr(d)
            /\ Kind[d] \in Class
            /\ \E i \in Slot(Kind[d]), n \in AllNames :
                 n \in NamesOf(d) \cup {Generic(Kind[d])} /\ Claims(Kind[d], i, d, TRUE, n)
<1> DEFINE k == Kind[d]
           i == IF k = "other" THEN 0 ELSE FindSlot(k, d)
<1>1. Ready(d) /\ UNCHANGED heard
  BY DEF ReadyNamed
<1>2. CASE i = 0
  <2>1. unforeseen' /\ UNCHANGED <<map, connected>>
    BY <1>1, <1>2 DEF Ready
  <2>2. UNCHANGED <<name, table, newest>>
    BY <1>2 DEF ReadyNamed
  <2>3. QED
    BY <2>1, <2>2
<1>3. CASE i # 0
  <2>1. k \in Class /\ i = FindSlot(k, d)
    BY <1>3, PlatformAssumption DEF PlatformAssumption
  <2>2. /\ i \in Slot(k)
        /\ \/ map[k][i] = d
           \/ map[k][i] = NoDevice /\ \A j \in Slot(k) : map[k][j] # d
    BY <1>3, <2>1, FindSlotFacts DEF SlotInv
  <2>3. /\ map' = [map EXCEPT ![k][i] = d]
        /\ connected' = [connected EXCEPT ![k][i] = TRUE]
        /\ unforeseen' = unforeseen
    BY <1>1, <1>3 DEF Ready
  <2>4. \/ device_name(d) = NoName /\ name' = [name EXCEPT ![k][i] = Generic(k)] /\ UNCHANGED <<table, newest>>
        \/ /\ device_name(d) # NoName
           /\ name' = [name EXCEPT ![k][i] = device_name(d)]
           /\ clear_pending_name_by_addr(d)
    BY <1>3 DEF ReadyNamed
  <2>5. device_name(d) # NoName => device_name(d) \in NamesOf(d)
    <3>1. OwnName(d) # NoName => OwnName(d) \in NamesOf(d)
      BY NameFacts
    <3>2. ASSUME Of(d) # {} PROVE get_pending_name_by_addr(d) \in NamesOf(d)
      <4>1. Of(d) \in SUBSET Nat
        BY DEF Of, Entry
      <4>2. Min(Of(d)) \in Of(d)
        BY <3>2, <4>1, MinFacts
      <4>3. table[Min(Of(d))].name \in NamesOf(d)
        BY <4>2 DEF Of, TableInv, TableHolds
      <4>4. QED
        BY <3>2, <4>3 DEF get_pending_name_by_addr
    <3>3. Of(d) = {} => get_pending_name_by_addr(d) = NoName
      BY DEF get_pending_name_by_addr
    <3>4. QED
      BY <3>1, <3>2, <3>3 DEF device_name
  <2>6. CASE device_name(d) = NoName
    <3>1. Claims(k, i, d, TRUE, Generic(k)) /\ Generic(k) \in AllNames /\ UNCHANGED <<table, newest>>
      BY <2>1, <2>2, <2>3, <2>4, <2>6, NameFacts DEF Claims
    <3>2. QED
      BY <2>1, <2>2, <2>3, <3>1
  <2>7. CASE device_name(d) # NoName
    <3>1. /\ Claims(k, i, d, TRUE, device_name(d)) /\ clear_pending_name_by_addr(d)
          /\ device_name(d) \in NamesOf(d) /\ device_name(d) \in AllNames
      BY <2>1, <2>2, <2>3, <2>4, <2>5, <2>7, NameFacts DEF Claims
    <3>2. QED
      BY <2>1, <2>2, <2>3, <3>1
  <2>8. QED
    BY <2>6, <2>7
<1>4. QED
  BY <1>2, <1>3

\* A report claims a slot of its class; a keyboard's or a mouse's counts as
\* connected from then on.
LEMMA DataEffect ==
  ASSUME Typed, SlotInv, NEW d \in Device, NEW k \in Sends[d], ControllerDataNamed(d, k)
  PROVE  /\ k \in Class
         /\ link' = link /\ link[d] \in {"connected", "ready"}
         /\ unforeseen' = (unforeseen \/ (link[d] = "connected" /\ k # "gamepad"))
         /\ \E i \in Slot(k), n \in AllNames :
              /\ Claims(k, i, d, connected[k][i] \/ k # "gamepad", n)
              /\ n \in NamesOf(d) \cup {Generic(k), NoName}
              /\ connected[k][i] \/ k # "gamepad" => n \in NamesOf(d) \cup {Generic(k)}
<1> DEFINE i == FindSlot(k, d)
<1>1. k \in Class
  BY PlatformAssumption DEF PlatformAssumption
<1>2. ControllerData(d, k)
  BY DEF ControllerDataNamed
<1>3. /\ i \in Slot(k)
      /\ \/ map[k][i] = d
         \/ map[k][i] = NoDevice /\ \A j \in Slot(k) : map[k][j] # d
  BY <1>1, <1>2, FindSlotFacts DEF SlotInv, ControllerData
<1>4. /\ map' = [map EXCEPT ![k][i] = d]
      /\ connected' = [connected EXCEPT ![k][i] = @ \/ k # "gamepad"]
      /\ unforeseen' = (unforeseen \/ (link[d] = "connected" /\ k # "gamepad"))
      /\ link' = link /\ link[d] \in {"connected", "ready"}
  BY <1>2 DEF ControllerData
<1>5. connected' = [connected EXCEPT ![k][i] = connected[k][i] \/ k # "gamepad"]
  BY <1>4
<1>6. SlotNamed(k, i) /\ name[k][i] \in AllNames /\ name = [name EXCEPT ![k][i] = name[k][i]]
  BY <1>1, <1>3 DEF SlotInv, SlotsNamed, SlotsTyped, OnSlots
<1>7. connected[k][i] => map[k][i] = d
  BY <1>1, <1>3 DEF SlotInv, SlotsFollowLinks, Slot
<1>8. PICK n \in AllNames :
        /\ name' = [name EXCEPT ![k][i] = n]
        /\ n \in NamesOf(d) \cup {Generic(k), NoName}
        /\ connected[k][i] \/ k # "gamepad" => n \in NamesOf(d) \cup {Generic(k)}
  <2>1. CASE k # "gamepad" /\ ~connected[k][i] /\ name[k][i] = NoName
    <3>1. name' = [name EXCEPT ![k][i] = IF OwnName(d) # NoName THEN OwnName(d) ELSE Generic(k)]
      BY <2>1 DEF ControllerDataNamed
    <3>2. QED
      BY <1>1, <3>1, NameFacts
  <2>2. CASE ~(k # "gamepad" /\ ~connected[k][i] /\ name[k][i] = NoName)
    <3>1. name' = name
      BY <2>2 DEF ControllerDataNamed
    <3>2. name[k][i] \in NamesOf(d) \cup {Generic(k), NoName}
      BY <1>3, <1>6, ClassFacts DEF SlotNamed
    <3>3. connected[k][i] => name[k][i] \in NamesOf(d) \cup {Generic(k)}
      BY <1>6, <1>7 DEF SlotNamed
    <3>4. QED
      BY <1>6, <2>2, <3>1, <3>2, <3>3
  <2>3. QED
    BY <2>1, <2>2
<1>9. Claims(k, i, d, connected[k][i] \/ k # "gamepad", n)
  BY <1>3, <1>4, <1>5, <1>8 DEF Claims
<1>10. QED
  BY <1>1, <1>3, <1>4, <1>8, <1>9

(* ------------------------------ the table ------------------------------ *)

LEMMA StoreKeepsTable ==
  ASSUME TableInv, NEW d \in Device, NEW n \in NamesOf(d), store_pending_name_by_addr(d, n)
  PROVE  TableInv'
<1>1. CASE Takes(d) = {}
  BY <1>1 DEF store_pending_name_by_addr, TableInv, TableHolds, LookupFindsNewest,
    get_pending_name_by_addr, Of, AllNames, NamesOf, Generic
<1>2. CASE Takes(d) # {}
  <2> DEFINE e == Min(Takes(d))
  <2>1. Takes(d) \in SUBSET Nat
    BY DEF Takes, Free, Of, Entry
  <2>2. e \in Takes(d) /\ \A f \in Takes(d) : e <= f
    BY <1>2, <2>1, MinFacts
  <2>3. e \in Entry /\ Of(d) \subseteq Takes(d) /\ (table[e].valid => table[e].addr = d)
    BY <2>2 DEF Takes, Free, Of
  <2> HIDE DEF e
  <2>4. /\ table' = [table EXCEPT ![e] = [addr |-> d, name |-> n, valid |-> TRUE]]
        /\ newest' = [newest EXCEPT ![d] = n]
    BY <1>2 DEF store_pending_name_by_addr, e
  <2>5. n \in AllNames
    BY NameFacts
  <2>6. table \in [Entry -> [addr : Device \cup {NoDevice}, name : AllNames, valid : BOOLEAN]]
    BY DEF TableInv, TableHolds
  <2>7. \A f \in Entry :
          table'[f] = IF f = e THEN [addr |-> d, name |-> n, valid |-> TRUE] ELSE table[f]
    BY <2>4, <2>6
  <2>8. table' \in [Entry -> [addr : Device \cup {NoDevice}, name : AllNames, valid : BOOLEAN]]
    BY <2>3, <2>4, <2>5, <2>6
  <2>9. newest' \in [Device -> AllNames]
    BY <2>4, <2>5 DEF TableInv, TableHolds
  <2>10. \A f \in Entry : table'[f].valid => table'[f].name \in NamesOf(table'[f].addr)
    BY <2>7 DEF TableInv, TableHolds
  <2>11. TableHolds'
    BY <2>8, <2>9, <2>10 DEF TableHolds, AllNames, NamesOf, Generic
  <2>12. ASSUME NEW c \in Device, newest'[c] # NoName PROVE get_pending_name_by_addr(c)' = newest'[c]
    <3>1. CASE c = d
      <4>1. Of(d)' = Of(d) \cup {e}
        BY <2>3, <2>7 DEF Of
      <4>2. Of(d)' \in SUBSET Nat /\ Of(d)' # {} /\ e \in Of(d)' /\ \A f \in Of(d)' : e <= f /\ e \in Nat
        BY <2>1, <2>2, <2>3, <4>1
      <4>3. Min(Of(d)') \in Of(d)' /\ Min(Of(d)') <= e
        BY <4>2, MinFacts
      <4>4. Min(Of(d)') = e
        BY <4>2, <4>3
      <4>5. get_pending_name_by_addr(d)' = table'[e].name
        BY <4>2, <4>4 DEF get_pending_name_by_addr
      <4>6. table'[e].name = n /\ newest'[d] = n
        BY <2>3, <2>4, <2>7 DEF TableInv, TableHolds
      <4>7. QED
        BY <3>1, <4>5, <4>6
    <3>2. CASE c # d
      <4>1. Of(c)' = Of(c) /\ newest'[c] = newest[c]
        BY <2>3, <2>4, <2>7, <3>2 DEF Of, TableInv, TableHolds
      <4>2. \A f \in Of(c) : table'[f] = table[f]
        BY <2>3, <2>7, <3>2 DEF Of
      <4>3. get_pending_name_by_addr(c) = newest[c]
        BY <2>12, <4>1 DEF TableInv, LookupFindsNewest
      <4>4. get_pending_name_by_addr(c)' = get_pending_name_by_addr(c)
        <5>1. CASE Of(c) = {}
          BY <4>1, <5>1 DEF get_pending_name_by_addr
        <5>2. CASE Of(c) # {}
          <6>1. Of(c) \in SUBSET Nat
            BY DEF Of, Entry
          <6>2. Min(Of(c)) \in Of(c)
            BY <5>2, <6>1, MinFacts
          <6>3. QED
            BY <4>1, <4>2, <5>2, <6>2 DEF get_pending_name_by_addr
        <5>3. QED
          BY <5>1, <5>2
      <4>5. QED
        BY <4>1, <4>3, <4>4
    <3>3. QED
      BY <3>1, <3>2
  <2>13. LookupFindsNewest'
    BY <2>12 DEF LookupFindsNewest
  <2>14. QED
    BY <2>11, <2>13 DEF TableInv
<1>3. QED
  BY <1>1, <1>2

LEMMA TableStays ==
  ASSUME TableInv, UNCHANGED <<table, newest>>
  PROVE  TableInv'
  BY DEF TableInv, TableHolds, LookupFindsNewest, get_pending_name_by_addr, Of, AllNames, NamesOf,
    Generic

LEMMA ClearKeepsTable ==
  ASSUME TableInv, NEW d \in Device, clear_pending_name_by_addr(d)
  PROVE  TableInv'
<1>1. newest' = [newest EXCEPT ![d] = NoName]
  BY DEF clear_pending_name_by_addr
<1>2. newest' \in [Device -> AllNames] /\ \A c \in Device \ {d} : newest'[c] = newest[c]
  BY <1>1, NameFacts DEF TableInv, TableHolds
<1>3. newest'[d] = NoName
  BY <1>1 DEF TableInv, TableHolds
<1>4. table \in [Entry -> [addr : Device \cup {NoDevice}, name : AllNames, valid : BOOLEAN]]
  BY DEF TableInv, TableHolds
<1>5. /\ table' \in [Entry -> [addr : Device \cup {NoDevice}, name : AllNames, valid : BOOLEAN]]
      /\ \A f \in Entry : /\ table'[f].addr = table[f].addr
                          /\ table'[f].name = table[f].name
                          /\ table'[f].valid => table[f].valid
      /\ \A f \in Entry : table[f].addr # d => table'[f] = table[f]
  <2>1. CASE Of(d) = {}
    BY <1>4, <2>1 DEF clear_pending_name_by_addr
  <2>2. CASE Of(d) # {}
    <3>1. Of(d) \in SUBSET Nat
      BY DEF Of, Entry
    <3>2. Min(Of(d)) \in Of(d)
      BY <2>2, <3>1, MinFacts
    <3>3. Min(Of(d)) \in Entry /\ table[Min(Of(d))].addr = d
      BY <3>2 DEF Of
    <3>4. table' = [table EXCEPT ![Min(Of(d))].valid = FALSE]
      BY <2>2 DEF clear_pending_name_by_addr
    <3>5. QED
      BY <1>4, <3>3, <3>4
  <2>3. QED
    BY <2>1, <2>2
<1>6. TableHolds'
  <2>1. \A f \in Entry : table'[f].valid => table'[f].name \in NamesOf(table'[f].addr)
    BY <1>5 DEF TableInv, TableHolds
  <2>2. QED
    BY <1>2, <1>5, <2>1 DEF TableHolds, AllNames, NamesOf, Generic
<1>7. ASSUME NEW c \in Device, newest'[c] # NoName PROVE get_pending_name_by_addr(c)' = newest'[c]
  <2>1. c # d /\ newest'[c] = newest[c]
    BY <1>2, <1>3, <1>7
  <2>2. \A f \in Entry : table[f].addr = c => table'[f] = table[f]
    BY <1>5, <2>1
  <2>3. Of(c)' = Of(c)
    BY <1>5, <2>2 DEF Of
  <2>4. get_pending_name_by_addr(c) = newest[c]
    BY <1>7, <2>1 DEF TableInv, LookupFindsNewest
  <2>5. get_pending_name_by_addr(c)' = get_pending_name_by_addr(c)
    <3>1. CASE Of(c) = {}
      BY <2>3, <3>1 DEF get_pending_name_by_addr
    <3>2. CASE Of(c) # {}
      <4>1. Of(c) \in SUBSET Nat
        BY DEF Of, Entry
      <4>2. Min(Of(c)) \in Of(c)
        BY <3>2, <4>1, MinFacts
      <4>3. Min(Of(c)) \in Entry /\ table[Min(Of(c))].addr = c
        BY <4>2 DEF Of
      <4>4. QED
        BY <2>2, <2>3, <3>2, <4>3 DEF get_pending_name_by_addr
    <3>3. QED
      BY <3>1, <3>2
  <2>6. QED
    BY <2>1, <2>4, <2>5
<1>8. QED
  BY <1>6, <1>7 DEF TableInv, LookupFindsNewest

(* ------------------------------- the count ----------------------------- *)

LEMMA SlotsDecide ==
  ASSUME NEW d \in Device,
         \A c \in Class : \A j \in Slot(c) :
           (map'[c][j] = d /\ connected'[c][j]) <=> (map[c][j] = d /\ connected[c][j])
  PROVE  HasConnectedSlot(d)' <=> HasConnectedSlot(d)
  BY DEF HasConnectedSlot, Slot

LEMMA SlotsKeepCount ==
  ASSUME CountInv, UNCHANGED <<link, map, connected, unforeseen>>,
         UNCHANGED <<awaiting, wipes>> \/ (wipes' # 0)
  PROVE  CountInv'
<1>1. Forming' = Forming
  BY DEF Forming
<1>2. ReadyMeansSlot'
  BY SlotsDecide DEF CountInv, ReadyMeansSlot
<1>3. LinksCounted'
  BY <1>1 DEF CountInv, LinksCounted
<1>4. QED
  BY <1>1, <1>2, <1>3 DEF CountInv

LEMMA DiscoveredKeepsCount ==
  ASSUME Typed, CountInv, NEW d \in Device, Discovered(d)
  PROVE  CountInv'
<1>1. /\ link[d] \in {"none", "found"} /\ link' = [link EXCEPT ![d] = "found"]
      /\ UNCHANGED <<map, connected, unforeseen, awaiting, wipes>>
  BY DEF Discovered, slot_vars
<1>2. \A e \in Device : /\ link'[e] = "connected" <=> link[e] = "connected"
                        /\ link'[e] = "ready" <=> link[e] = "ready"
  BY <1>1 DEF Typed
<1>3. Forming' = Forming
  BY <1>2 DEF Forming
<1>4. ReadyMeansSlot'
  BY <1>1, <1>2, SlotsDecide DEF CountInv, ReadyMeansSlot
<1>5. LinksCounted'
  BY <1>1, <1>3 DEF CountInv, LinksCounted
<1>6. QED
  BY <1>3, <1>4, <1>5 DEF CountInv

LEMMA ConnectedKeepsCount ==
  ASSUME Typed, SlotInv, CountInv, NEW d \in Device, Connected(d)
  PROVE  CountInv'
<1>1. /\ link[d] \in {"none", "found"} /\ link' = [link EXCEPT ![d] = "connected"]
      /\ awaiting' = awaiting + 1
      /\ UNCHANGED <<map, connected, unforeseen, wipes>>
  BY DEF Connected, slot_vars, bt_link_mark_connect_started
<1>2. link'[d] = "connected" /\ \A e \in Device \ {d} : link'[e] = link[e]
  BY <1>1 DEF Typed
<1>3. Forming' = Forming \cup {d} /\ d \notin Forming
  BY <1>1, <1>2 DEF Forming
<1>4. IsFiniteSet(Forming') /\ Cardinality(Forming') = Cardinality(Forming) + 1
  BY <1>3, FS_AddElement DEF CountInv
<1>5. ~HasConnectedSlot(d)
  BY <1>1, ClassFacts DEF HasConnectedSlot, SlotInv, SlotsFollowLinks, Slot
<1>6. ReadyMeansSlot'
  BY <1>1, <1>2, <1>5, SlotsDecide DEF CountInv, ReadyMeansSlot
<1>7. LinksCounted'
  BY <1>1, <1>4 DEF CountInv, LinksCounted
<1>8. QED
  BY <1>4, <1>6, <1>7 DEF CountInv

\* A link that was being set up is so no longer.
LEMMA Uncounted ==
  ASSUME Typed, IsFiniteSet(Forming), LinksCounted, NEW d \in Device, link[d] = "connected",
         link'[d] # "connected", \A e \in Device \ {d} : link'[e] = link[e],
         unforeseen' = unforeseen, wipes' = wipes, awaiting' = bt_link_mark_connect_finished
  PROVE  LinksCounted'
<1>1. d \in Forming /\ Forming' = Forming \ {d}
  BY DEF Forming
<1>2. Cardinality(Forming) \in Nat /\ Cardinality(Forming) # 0
  BY <1>1, FS_CardinalityType, FS_EmptySet
<1>3. Cardinality(Forming') = Cardinality(Forming) - 1
  BY <1>1, FS_RemoveElement
<1>4. QED
  BY <1>2, <1>3 DEF LinksCounted, bt_link_mark_connect_finished

LEMMA ReadyKeepsCount ==
  ASSUME Typed, SlotInv, TableInv, CountInv, NEW d \in Device, ReadyNamed(d)
  PROVE  CountInv'
<1>1. /\ link[d] = "connected" /\ link' = [link EXCEPT ![d] = "ready"]
      /\ awaiting' = bt_link_mark_connect_finished /\ wipes' = wipes
  BY DEF ReadyNamed, Ready
<1>2. link'[d] = "ready" /\ \A e \in Device \ {d} : link'[e] = link[e]
  BY <1>1 DEF Typed
<1>3. Forming' = Forming \ {d}
  BY <1>2 DEF Forming
<1>4. IsFiniteSet(Forming')
  BY <1>3, FS_RemoveElement DEF CountInv
<1>5. CASE unforeseen'
  BY <1>4, <1>5 DEF CountInv, ReadyMeansSlot, LinksCounted
<1>6. CASE ~unforeseen'
  <2>1. /\ unforeseen' = unforeseen /\ Kind[d] \in Class
        /\ \E i \in Slot(Kind[d]), n \in AllNames :
             n \in NamesOf(d) \cup {Generic(Kind[d])} /\ Claims(Kind[d], i, d, TRUE, n)
    BY <1>6, ReadyEffect
  <2>2. PICK i \in Slot(Kind[d]), n \in AllNames : Claims(Kind[d], i, d, TRUE, n)
    BY <2>1
  <2>3. /\ SlotsTyped'
        /\ \A c \in Class : \A j \in Slot(c) :
             /\ map'[c][j] = IF c = Kind[d] /\ j = i THEN d ELSE map[c][j]
             /\ connected'[c][j] = IF c = Kind[d] /\ j = i THEN TRUE ELSE connected[c][j]
             /\ name'[c][j] = IF c = Kind[d] /\ j = i THEN n ELSE name[c][j]
    <3>1. SlotsTyped /\ Kind[d] \in Class /\ TRUE \in BOOLEAN
      BY <2>1 DEF SlotInv
    <3>2. QED
      BY <2>2, <3>1, ClaimEffect
  <2>4. map[Kind[d]][i] \in {d, NoDevice}
    BY <2>2 DEF Claims
  <2>5. HasConnectedSlot(d)'
    BY <2>1, <2>3 DEF HasConnectedSlot, Slot
  <2>6. ASSUME NEW e \in Device \ {d} PROVE HasConnectedSlot(e)' <=> HasConnectedSlot(e)
    <3>1. e # NoDevice /\ e # d /\ e \in Device
      BY ClassFacts
    <3>2. \A c \in Class : \A j \in Slot(c) :
            (map'[c][j] = e /\ connected'[c][j]) <=> (map[c][j] = e /\ connected[c][j])
      BY <2>3, <2>4, <3>1
    <3>3. QED
      BY <3>1, <3>2, SlotsDecide
  <2>7. ReadyMeansSlot'
    BY <1>2, <1>6, <2>1, <2>5, <2>6 DEF CountInv, ReadyMeansSlot
  <2>8. LinksCounted'
    BY <1>1, <1>2, <2>1, Uncounted DEF CountInv
  <2>9. QED
    BY <1>4, <2>7, <2>8 DEF CountInv
<1>7. QED
  BY <1>5, <1>6

LEMMA DataKeepsCount ==
  ASSUME Typed, SlotInv, CountInv, NEW d \in Device, NEW k \in Sends[d], ControllerDataNamed(d, k)
  PROVE  CountInv'
<1>1. /\ k \in Class
      /\ link' = link /\ link[d] \in {"connected", "ready"}
      /\ unforeseen' = (unforeseen \/ (link[d] = "connected" /\ k # "gamepad"))
      /\ \E i \in Slot(k), n \in AllNames : Claims(k, i, d, connected[k][i] \/ k # "gamepad", n)
  BY DataEffect
<1>2. UNCHANGED <<awaiting, wipes>>
  BY DEF ControllerDataNamed, ControllerData
<1>3. Forming' = Forming
  BY <1>1 DEF Forming
<1>4. LinksCounted'
  BY <1>1, <1>2, <1>3 DEF CountInv, LinksCounted, Typed
<1>5. ReadyMeansSlot'
  <2>1. SUFFICES ASSUME ~unforeseen', NEW e \in Device
                 PROVE  /\ link'[e] = "connected" => ~HasConnectedSlot(e)'
                        /\ link'[e] = "ready" => HasConnectedSlot(e)'
    BY DEF ReadyMeansSlot
  <2>2. /\ ~unforeseen /\ (link[d] = "connected" => k = "gamepad")
        /\ link[e] = "connected" => ~HasConnectedSlot(e)
        /\ link[e] = "ready" => HasConnectedSlot(e)
    BY <1>1, <2>1 DEF CountInv, ReadyMeansSlot, Typed
  <2>3. PICK i \in Slot(k) : \E n \in AllNames : Claims(k, i, d, connected[k][i] \/ k # "gamepad", n)
    BY <1>1
  <2> DEFINE b == connected[k][i] \/ k # "gamepad"
  <2>4. PICK n \in AllNames : Claims(k, i, d, b, n)
    BY <2>3
  <2>5. /\ SlotsTyped'
        /\ \A c \in Class : \A j \in Slot(c) :
             /\ map'[c][j] = IF c = k /\ j = i THEN d ELSE map[c][j]
             /\ connected'[c][j] = IF c = k /\ j = i THEN b ELSE connected[c][j]
             /\ name'[c][j] = IF c = k /\ j = i THEN n ELSE name[c][j]
    <3>1. SlotsTyped /\ k \in Class /\ b \in BOOLEAN
      BY <1>1 DEF SlotInv
    <3> HIDE DEF b
    <3>2. QED
      BY <2>4, <3>1, ClaimEffect
  <2>6. /\ map[k][i] \in {d, NoDevice} /\ d # NoDevice /\ e # NoDevice
        /\ map[k][i] = NoDevice => ~connected[k][i]
    BY <1>1, <2>4, ClassFacts DEF Claims, SlotInv, SlotsFollowLinks, Slot
  <2>7. CASE e # d
    <3>1. \A c \in Class : \A j \in Slot(c) :
            (map'[c][j] = e /\ connected'[c][j]) <=> (map[c][j] = e /\ connected[c][j])
      BY <2>5, <2>6, <2>7
    <3>2. HasConnectedSlot(e)' <=> HasConnectedSlot(e)
      BY <3>1, SlotsDecide
    <3>3. QED
      BY <1>1, <2>2, <3>2
  <2>8. CASE e = d /\ link[d] = "connected"
    <3>1. \A c \in Class : \A j \in Slot(c) :
            (map'[c][j] = d /\ connected'[c][j]) <=> (map[c][j] = d /\ connected[c][j])
      BY <2>2, <2>5, <2>6, <2>8
    <3>2. HasConnectedSlot(d)' <=> HasConnectedSlot(d)
      BY <3>1, SlotsDecide
    <3>3. QED
      BY <1>1, <2>2, <2>8, <3>2
  <2>9. CASE e = d /\ link[d] = "ready"
    <3>1. PICK c \in Class : \E j \in Slot(c) : map[c][j] = d /\ connected[c][j]
      BY <2>2, <2>9 DEF HasConnectedSlot
    <3>2. PICK j \in Slot(c) : map[c][j] = d /\ connected[c][j]
      BY <3>1
    <3>3. map'[c][j] = d /\ connected'[c][j]
      BY <2>5, <3>2
    <3>4. HasConnectedSlot(d)'
      BY <3>3 DEF HasConnectedSlot, Slot
    <3>5. QED
      BY <1>1, <2>9, <3>4
  <2>10. QED
    BY <1>1, <2>7, <2>8, <2>9
<1>6. QED
  BY <1>3, <1>4, <1>5 DEF CountInv

LEMMA DisconnectKeepsCount ==
  ASSUME Typed, SlotInv, CountInv, NEW d \in Device, DisconnectedNamed(d)
  PROVE  CountInv'
<1>1. /\ link[d] \in {"connected", "ready"} /\ link' = [link EXCEPT ![d] = "none"]
      /\ awaiting' = IF HasConnectedSlot(d) THEN awaiting ELSE bt_link_mark_connect_finished
      /\ UNCHANGED <<unforeseen, wipes>>
  <2>1. (\E k \in Class : \E i \in Held(k, d) : connected[k][i]) <=> HasConnectedSlot(d)
    BY DEF Held, HasConnectedSlot, Slot
  <2>2. QED
    BY <2>1 DEF DisconnectedNamed, Disconnected
<1>2. link'[d] = "none" /\ \A e \in Device \ {d} : link'[e] = link[e]
  BY <1>1 DEF Typed
<1>3. Forming' = Forming \ {d}
  BY <1>2 DEF Forming
<1>4. IsFiniteSet(Forming')
  BY <1>3, FS_RemoveElement DEF CountInv
<1>5. \A c \in Class : \A j \in Slot(c) :
        /\ map'[c][j] = IF map[c][j] = d THEN NoDevice ELSE map[c][j]
        /\ connected'[c][j] = (connected[c][j] /\ map[c][j] # d)
  BY DisconnectEffect DEF SlotInv
<1>6. ASSUME NEW e \in Device \ {d} PROVE HasConnectedSlot(e)' <=> HasConnectedSlot(e)
  <2>1. e # NoDevice /\ e # d /\ e \in Device
    BY ClassFacts
  <2>2. \A c \in Class : \A j \in Slot(c) :
          (map'[c][j] = e /\ connected'[c][j]) <=> (map[c][j] = e /\ connected[c][j])
    BY <1>5, <2>1
  <2>3. QED
    BY <2>1, <2>2, SlotsDecide
<1>7. ReadyMeansSlot'
  BY <1>1, <1>2, <1>6 DEF CountInv, ReadyMeansSlot
<1>8. LinksCounted'
  <2>1. CASE unforeseen
    BY <1>1, <2>1 DEF LinksCounted
  <2>2. CASE ~unforeseen /\ link[d] = "connected"
    <3>1. ~HasConnectedSlot(d)
      BY <2>2 DEF CountInv, ReadyMeansSlot
    <3>2. /\ awaiting' = bt_link_mark_connect_finished /\ unforeseen' = unforeseen /\ wipes' = wipes
          /\ link'[d] # "connected"
      BY <1>1, <1>2, <3>1
    <3>3. IsFiniteSet(Forming) /\ LinksCounted
      BY DEF CountInv
    <3>4. QED
      BY <1>2, <2>2, <3>2, <3>3, Uncounted
  <2>3. CASE ~unforeseen /\ link[d] = "ready"
    <3>1. awaiting' = awaiting
      BY <1>1, <2>3 DEF CountInv, ReadyMeansSlot
    <3>2. Forming' = Forming
      BY <1>3, <2>3 DEF Forming
    <3>3. QED
      BY <1>1, <3>1, <3>2 DEF CountInv, LinksCounted
  <2>4. QED
    BY <1>1, <2>1, <2>2, <2>3
<1>9. QED
  BY <1>4, <1>7, <1>8 DEF CountInv

(* ------------------------------- the steps ----------------------------- *)

\* The loops of both cores and the wipe of the keys touch no link, slot or name.
LEMMA UnnamedEffect ==
  ASSUME Typed, Unnamed \/ UNCHANGED <<vars, name_vars>>
  PROVE  /\ UNCHANGED <<link, map, connected, unforeseen, name, table, newest, heard>>
         /\ UNCHANGED <<awaiting, wipes>> \/ wipes' # 0
<1>1. CASE Core0 /\ UNCHANGED name_vars
  BY <1>1 DEF Core0, Loop, WatchdogTick, Polled, PauseSeen, WaitTimeout, slot_vars, name_vars
<1>2. CASE Core1 /\ UNCHANGED name_vars
  BY <1>2 DEF Core1, Check, PauseIteration, Spin, Wake, SetRunning, TaskDone, slot_vars, name_vars
<1>3. CASE DeletePairingKeys /\ UNCHANGED name_vars
  BY <1>3 DEF DeletePairingKeys, slot_vars, name_vars, Typed
<1>4. CASE UNCHANGED <<vars, name_vars>>
  BY <1>4 DEF vars, slot_vars, name_vars
<1>5. QED
  BY <1>1, <1>2, <1>3, <1>4 DEF Unnamed

LEMMA UnnamedType ==
  ASSUME Typed, Unnamed \/ UNCHANGED <<vars, name_vars>>
  PROVE  Typed'
<1> USE ClockFacts DEF Typed
<1>1. CASE Core0 /\ UNCHANGED name_vars
  <2>1. After(0) \in 0 .. Clock - 1 /\ After(1) \in 0 .. Clock - 1
    BY AfterType
  <2>2. CASE Loop
    BY <1>1, <2>1, <2>2 DEF Loop, slot_vars, name_vars, coop_vars
  <2>3. CASE WatchdogTick
    BY <1>1, <2>3 DEF WatchdogTick, slot_vars, name_vars, coop_vars, core1_force_release_bt_pause
  <2>4. CASE Polled \/ PauseSeen \/ WaitTimeout
    BY <1>1, <2>4 DEF Polled, PauseSeen, WaitTimeout, slot_vars, name_vars, coop_vars
  <2>5. QED
    BY <1>1, <2>2, <2>3, <2>4 DEF Core0
<1>2. CASE Core1 /\ UNCHANGED name_vars
  BY <1>2 DEF Core1, Check, PauseIteration, Spin, Wake, SetRunning, TaskDone, slot_vars, name_vars,
    coop_vars
<1>3. CASE DeletePairingKeys /\ UNCHANGED name_vars
  BY <1>3 DEF DeletePairingKeys, slot_vars, name_vars, core1_force_release_bt_pause
<1>4. CASE UNCHANGED <<vars, name_vars>>
  BY <1>4 DEF vars, slot_vars, name_vars, coop_vars
<1>5. QED
  BY <1>1, <1>2, <1>3, <1>4 DEF Unnamed

LEMMA CallbackType ==
  ASSUME Typed, NEW d \in Device, Callback(d)
  PROVE  Typed'
<1> USE ClockFacts DEF Typed
<1>1. ASSUME Discovered(d), heard' \in 0 .. MaxHeard PROVE Typed'
  <2>1. After(Watchdog) \in 0 .. Unset
    BY AfterType
  <2>2. /\ depth' \in Nat /\ deadline' \in 0 .. Unset /\ spun' \in BOOLEAN
        /\ phase' \in {"running", "paused"} /\ pc0' \in {"loop", "watchdog", "poll", "wait"}
    <3>1. CASE UNCHANGED <<coop_vars, pc0>>
      BY <3>1 DEF coop_vars
    <3>2. CASE core1_pause_for_bt_enumeration /\ pc0' = "wait"
      BY <2>1, <3>2 DEF core1_pause_for_bt_enumeration, DeadlineAtPause
    <3>3. QED
      BY <1>1, <3>1, <3>2 DEF Discovered
  <2>3. link' \in [Device -> {"none", "found", "connected", "ready"}]
    BY <1>1 DEF Discovered
  <2>4. UNCHANGED <<unforeseen, awaiting, settle, now, pc1, believed, wipes>>
    BY <1>1 DEF Discovered, slot_vars
  <2>5. QED
    BY <1>1, <2>2, <2>3, <2>4
<1>2. CASE DiscoveredUnnamed(d) \/ DiscoveredNamed(d)
  <2>1. Discovered(d)
    BY <1>2 DEF DiscoveredUnnamed, DiscoveredNamed
  <2>2. MaxHeard \in Nat
    BY NamesAssumption DEF NamesAssumption
  <2>3. heard' = heard \/ (heard < MaxHeard /\ heard' = heard + 1)
    BY <1>2 DEF DiscoveredUnnamed, DiscoveredNamed, name_vars
  <2>4. heard' \in 0 .. MaxHeard
    BY <2>2, <2>3
  <2>5. QED
    BY <1>1, <2>1, <2>4
<1>3. CASE ConnectedUnnamed(d)
  BY <1>3 DEF ConnectedUnnamed, Connected, bt_link_mark_connect_started, slot_vars, coop_vars, name_vars
<1>4. CASE ReadyNamed(d)
  <2>1. After(Settle) \in 0 .. Unset
    BY AfterType
  <2>2. unforeseen' \in BOOLEAN
    BY <1>4 DEF ReadyNamed, Ready
  <2>3. awaiting' \in Nat
    BY <1>4 DEF ReadyNamed, Ready, bt_link_mark_connect_finished
  <2>4. QED
    BY <1>4, <2>1, <2>2, <2>3 DEF ReadyNamed, Ready, core1_resume_after_bt_enumeration, coop_vars
<1>5. CASE DisconnectedNamed(d)
  <2>1. awaiting' \in Nat
    BY <1>5 DEF DisconnectedNamed, Disconnected, bt_link_mark_connect_finished
  <2>2. QED
    BY <1>5, <2>1 DEF DisconnectedNamed, Disconnected, ReleaseIfPaused, core1_force_release_bt_pause,
      coop_vars
<1>6. CASE \E k \in Sends[d] : ControllerDataNamed(d, k)
  BY <1>6 DEF ControllerDataNamed, ControllerData, coop_vars
<1>7. QED
  BY <1>2, <1>3, <1>4, <1>5, <1>6 DEF Callback

LEMMA CallbackKeeps ==
  ASSUME NamesInv, NEW d \in Device, Callback(d)
  PROVE  SlotInv' /\ TableInv' /\ CountInv'
<1> USE DEF NamesInv
<1>1. CASE DiscoveredUnnamed(d) \/ DiscoveredNamed(d)
  <2>1. Discovered(d) /\ UNCHANGED name
    BY <1>1 DEF DiscoveredUnnamed, DiscoveredNamed, name_vars
  <2>2. link[d] \in {"none", "found"} /\ link' = [link EXCEPT ![d] = "found"] /\ UNCHANGED <<map, connected>>
    BY <2>1 DEF Discovered, slot_vars
  <2>3. \A e \in Device : link[e] \in {"connected", "ready"} => link'[e] \in {"connected", "ready"}
    BY <2>2 DEF Typed
  <2>4. SlotInv'
    BY <2>1, <2>2, <2>3, SlotsStay
  <2>5. TableInv'
    <3>1. CASE UNCHANGED <<table, newest>>
      BY <3>1, TableStays
    <3>2. ASSUME NEW v \in Version, store_pending_name_by_addr(d, <<d, v>>) PROVE TableInv'
      <4>1. <<d, v>> \in NamesOf(d)
        BY NameFacts
      <4>2. QED
        BY <3>2, <4>1, StoreKeepsTable
    <3>3. QED
      BY <1>1, <3>1, <3>2 DEF DiscoveredUnnamed, DiscoveredNamed, name_vars
  <2>6. QED
    BY <2>1, <2>4, <2>5, DiscoveredKeepsCount
<1>2. CASE ConnectedUnnamed(d)
  <2>1. Connected(d) /\ UNCHANGED <<table, newest, name>>
    BY <1>2 DEF ConnectedUnnamed, name_vars
  <2>2. link[d] \in {"none", "found"} /\ link' = [link EXCEPT ![d] = "connected"] /\ UNCHANGED <<map, connected>>
    BY <2>1 DEF Connected, slot_vars
  <2>3. \A e \in Device : link[e] \in {"connected", "ready"} => link'[e] \in {"connected", "ready"}
    BY <2>2 DEF Typed
  <2>4. SlotInv'
    BY <2>1, <2>2, <2>3, SlotsStay
  <2>5. QED
    BY <2>1, <2>4, TableStays, ConnectedKeepsCount
<1>3. CASE ReadyNamed(d)
  <2>1. link[d] = "connected" /\ link' = [link EXCEPT ![d] = "ready"]
    BY <1>3 DEF ReadyNamed, Ready
  <2>2. link'[d] = "ready" /\ \A e \in Device \ {d} : link'[e] = link[e]
    BY <2>1 DEF Typed
  <2>3. CASE UNCHANGED <<map, connected, name, table, newest>>
    <3>1. \A e \in Device : link[e] \in {"connected", "ready"} => link'[e] \in {"connected", "ready"}
      BY <2>2
    <3>2. QED
      BY <1>3, <2>3, <3>1, SlotsStay, TableStays, ReadyKeepsCount
  <2>4. CASE /\ UNCHANGED <<table, newest>> \/ clear_pending_name_by_addr(d)
             /\ Kind[d] \in Class
             /\ \E i \in Slot(Kind[d]), n \in AllNames :
                  n \in NamesOf(d) \cup {Generic(Kind[d])} /\ Claims(Kind[d], i, d, TRUE, n)
    <3>1. TableInv'
      BY <2>4, TableStays, ClearKeepsTable
    <3>2. PICK i \in Slot(Kind[d]) : \E n \in AllNames :
                 n \in NamesOf(d) \cup {Generic(Kind[d])} /\ Claims(Kind[d], i, d, TRUE, n)
      BY <2>4
    <3>3. PICK n \in AllNames : n \in NamesOf(d) \cup {Generic(Kind[d])} /\ Claims(Kind[d], i, d, TRUE, n)
      BY <3>2
    <3>4. n \in NamesOf(d) \cup {Generic(Kind[d]), NoName} /\ TRUE \in BOOLEAN /\ Kind[d] \in Class
      BY <2>4, <3>3
    <3>5. SlotInv'
      BY <2>2, <3>3, <3>4, ClaimKeepsSlots
    <3>6. QED
      BY <1>3, <3>1, <3>5, ReadyKeepsCount
  <2>5. QED
    BY <1>3, <2>3, <2>4, ReadyEffect
<1>4. CASE DisconnectedNamed(d)
  <2>1. UNCHANGED <<table, newest>>
    BY <1>4 DEF DisconnectedNamed
  <2>2. QED
    BY <1>4, <2>1, TableStays, DisconnectKeepsSlots, DisconnectKeepsCount
<1>5. ASSUME NEW k \in Sends[d], ControllerDataNamed(d, k) PROVE SlotInv' /\ TableInv' /\ CountInv'
  <2>1. UNCHANGED <<table, newest>>
    BY <1>5 DEF ControllerDataNamed
  <2>2. /\ k \in Class /\ link' = link /\ link[d] \in {"connected", "ready"}
        /\ \E i \in Slot(k), n \in AllNames :
              /\ Claims(k, i, d, connected[k][i] \/ k # "gamepad", n)
              /\ n \in NamesOf(d) \cup {Generic(k), NoName}
              /\ connected[k][i] \/ k # "gamepad" => n \in NamesOf(d) \cup {Generic(k)}
    BY <1>5, DataEffect
  <2>3. PICK i \in Slot(k) : \E n \in AllNames :
              /\ Claims(k, i, d, connected[k][i] \/ k # "gamepad", n)
              /\ n \in NamesOf(d) \cup {Generic(k), NoName}
              /\ connected[k][i] \/ k # "gamepad" => n \in NamesOf(d) \cup {Generic(k)}
    BY <2>2
  <2> DEFINE b == connected[k][i] \/ k # "gamepad"
  <2>4. PICK n \in AllNames :
              /\ Claims(k, i, d, b, n)
              /\ n \in NamesOf(d) \cup {Generic(k), NoName}
              /\ b => n \in NamesOf(d) \cup {Generic(k)}
    BY <2>3
  <2>5. b \in BOOLEAN /\ link'[d] \in {"connected", "ready"} /\ \A e \in Device \ {d} : link'[e] = link[e]
    BY <2>2
  <2> HIDE DEF b
  <2>6. SlotInv'
    BY <2>2, <2>4, <2>5, ClaimKeepsSlots
  <2>7. QED
    BY <1>5, <2>1, <2>6, TableStays, DataKeepsCount
<1>6. QED
  BY <1>1, <1>2, <1>3, <1>4, <1>5 DEF Callback

LEMMA NamesStep ==
  ASSUME NamesInv, [NamesNext]_<<vars, name_vars>>
  PROVE  NamesInv'
<1>1. CASE Unnamed \/ UNCHANGED <<vars, name_vars>>
  <2>1. /\ UNCHANGED <<link, map, connected, unforeseen, name, table, newest>>
        /\ UNCHANGED <<awaiting, wipes>> \/ wipes' # 0
        /\ Typed'
    BY <1>1, UnnamedEffect, UnnamedType DEF NamesInv
  <2>2. SlotInv'
    BY <2>1, SlotsStay DEF NamesInv
  <2>3. TableInv' /\ CountInv'
    BY <2>1, TableStays, SlotsKeepCount DEF NamesInv
  <2>4. QED
    BY <2>1, <2>2, <2>3 DEF NamesInv
<1>2. CASE \E d \in Device : Callback(d)
  BY <1>2, CallbackType, CallbackKeeps DEF NamesInv
<1>3. QED
  BY <1>1, <1>2 DEF NamesNext

LEMMA NamesStart ==
  ASSUME NamesInit
  PROVE  NamesInv
<1> USE DEF NamesInit, Init
<1>1. Typed
  <2>1. 0 \in 0 .. Clock - 1 /\ Unset \in 0 .. Unset /\ 0 \in 0 .. MaxHeard
    BY ClockFacts, NamesAssumption DEF NamesAssumption
  <2>2. QED
    BY <2>1 DEF Typed
<1>2. SlotsTyped
  BY NameFacts DEF SlotsTyped, OnSlots, Slot
<1>3. SlotsFollowLinks /\ SlotsNamed
  BY DEF SlotsFollowLinks, SlotsNamed, SlotNamed, Slot
<1>4. TableHolds
  BY NameFacts DEF TableHolds
<1>5. LookupFindsNewest
  BY DEF LookupFindsNewest
<1>6. ReadyMeansSlot
  BY DEF ReadyMeansSlot, HasConnectedSlot, Slot
<1>7. Forming = {}
  BY DEF Forming
<1>8. IsFiniteSet(Forming) /\ LinksCounted
  BY <1>7, FS_EmptySet DEF LinksCounted
<1>9. QED
  BY <1>1, <1>2, <1>3, <1>4, <1>5, <1>6, <1>8 DEF NamesInv, SlotInv, TableInv, CountInv

LEMMA NamesInvariant == NamesSpec => []NamesInv
  BY NamesStart, NamesStep, PTL DEF NamesSpec

(* ------------------------------- theorems ------------------------------ *)

\* The variables of the platform and of its names keep their types, and a lookup
\* in the table of pending names finds the name stored last, though an address
\* may have several entries and the table may be full of other devices'.
THEOREM LookupsFindNewest == NamesSpec => []TablesKept
<1>1. NamesInv => TablesKept
  <2>. SUFFICES ASSUME NamesInv PROVE TablesKept
    OBVIOUS
  <2>2. TypeOK
    BY DEF NamesInv, Typed, SlotInv, SlotsTyped, OnSlots, Slot, TypeOK
  <2>3. NamesTypeOK
    BY DEF NamesInv, Typed, SlotInv, SlotsTyped, OnSlots, Slot, TableInv, TableHolds, NamesTypeOK
  <2>4. QED
    BY <2>2, <2>3 DEF NamesInv, TableInv, TablesKept
<1>2. QED
  BY <1>1, NamesInvariant, PTL

\* A slot is held by a device with a link, a device has one slot of a kind, and
\* a slot that counts as connected shows a name of its device or of its class,
\* whatever order devices leave, report and become ready in.
THEOREM SlotsFollowDevices == NamesSpec => []SlotsKept
<1>1. NamesInv => SlotsKept
  BY DEF NamesInv, SlotInv, SlotsNamed, SlotNamed, Slot, SlotsKept, SlotNamesItsDevice
<1>2. QED
  BY <1>1, NamesInvariant, PTL

\* The counter that puts off the reset of the host is the number of links being
\* set up, for any devices, slots and orders of their callbacks.
THEOREM LinksAreCounted == NamesSpec => []LinksCounted
<1>1. NamesInv => LinksCounted
  BY DEF NamesInv, CountInv
<1>2. QED
  BY <1>1, NamesInvariant, PTL

\* A device that is ready has a connected slot and one being set up has none,
\* until something unforeseen happens: this is what lets a disconnection tell
\* whether device_ready has already counted the link as finished.
THEOREM ReadyDevicesHaveSlots == NamesSpec => []ReadyMeansSlot
<1>1. NamesInv => ReadyMeansSlot
  BY DEF NamesInv, CountInv
<1>2. QED
  BY <1>1, NamesInvariant, PTL
=============================================================================
