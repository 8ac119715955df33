-------------------------- MODULE ValueCacheProofs --------------------------
(***************************************************************************)
(* Proofs about ValueCache, for any sets of keys, callers, channels and    *)
(* values.  The safety of Spec follows from one inductive invariant, IInv: *)
(* a key is locked exactly while somebody builds it, by one caller, with a *)
(* channel no other key holds; and whoever was released finds a value.     *)
(***************************************************************************)
EXTENDS ValueCache, TLAPS

\* The key holds a lock exactly while a caller builds it.
LockedWhileBuilt == \A k \in Key : items[k] \in Lock <=> Builders(k) # {}

\* No two keys hold the same channel, so closing one releases only the
\* callers of its key.
OwnLock == \A j, k \in Key : items[j] \in Lock /\ items[j] = items[k] => j = k

\* A blocked caller waits for the lock its key holds.
WaitsForItsKey ==
  \A c \in Caller : pc[c] = "waiting" => chan[c] \in Lock /\ chan[c] = items[key[c]]

\* A released caller will find a value.
WokenFindsValue == \A c \in Caller : pc[c] = "woken" => items[key[c]] \in Value

IInv ==
  /\ TypeOK
  /\ SingleBuilder
  /\ LockedWhileBuilt
  /\ OwnLock
  /\ WaitsForItsKey
  /\ WokenFindsValue

-----------------------------------------------------------------------------
(***************************************************************************)
(* TypeOK, under every method.                                             *)
(***************************************************************************)
\* Every method of the cache keeps the types of its state.
LEMMA TypeStep == TypeOK /\ [Next \/ DirectCall]_vars => TypeOK'
<1> SUFFICES ASSUME TypeOK, [Next \/ DirectCall]_vars PROVE TypeOK'
  OBVIOUS
<1> USE DEF TypeOK, Item, Result
<1>1. ASSUME NEW c \in Caller, NEW k \in Key, GetOrLock(c, k) PROVE TypeOK'
  <2>1. CASE GetMiss(c, k)
    BY <2>1 DEF GetMiss, Return, Goto
  <2>2. CASE GetBlock(c, k)
    BY <2>2 DEF GetBlock, Goto
  <2>3. CASE GetHit(c, k)
    BY <2>3 DEF GetHit, Return
  <2> QED BY <1>1, <2>1, <2>2, <2>3 DEF GetOrLock
<1>2. ASSUME NEW c \in Caller, Relock(c) PROVE TypeOK'
  <2> DEFINE item == items[key[c]]
  <2>1. item \in Item
    OBVIOUS
  <2>2. PICK found \in BOOLEAN, answer \in Item :
          result' = [result EXCEPT ![c] =
                      [op |-> "GetOrLock", item |-> answer, found |-> found]]
    BY <1>2, <2>1 DEF Relock, Return
  <2>3. result' \in [Caller -> Result]
    BY <2>2
  <2>4. pc' \in [Caller -> {"idle", "waiting", "woken", "building"}]
    BY <1>2 DEF Relock, Goto
  <2> QED BY <1>2, <2>3, <2>4 DEF Relock
<1>3. ASSUME NEW c \in Caller, NEW v \in Value, SetUnlock(c, v) PROVE TypeOK'
  BY <1>3 DEF SetUnlock, AfterClose, Store, Released
<1>4. ASSUME NEW k \in Key, NEW v \in Value,
             Set(k, v) \/ Add(k, v) \/ PlainSetUnlock(k, v)
      PROVE  TypeOK'
  BY <1>4 DEF Set, Add, PlainSetUnlock, AfterClose, Store, Released
<1>5. ASSUME NEW k \in Key, Delete(k) PROVE TypeOK'
  BY <1>5 DEF Delete, Store
<1>6. CASE Clear
  BY <1>6 DEF Clear
<1>7. ASSUME NEW c \in Caller, NEW k \in Key, Get(c, k) PROVE TypeOK'
  <2>1. (items[k] # NoItem) \in BOOLEAN
    OBVIOUS
  <2> QED BY <1>7, <2>1 DEF Get, Return
<1>8. CASE UNCHANGED vars
  BY <1>8 DEF vars
<1> QED
  BY <1>1, <1>2, <1>3, <1>4, <1>5, <1>6, <1>7, <1>8 DEF Next, DirectCall

\* The initial state has the types of the state.
LEMMA TypeInit == Init => TypeOK
  BY DEF Init, TypeOK, Item, Result

-----------------------------------------------------------------------------
(***************************************************************************)
(* IInv is an inductive invariant of Spec: one lemma per action.           *)
(***************************************************************************)
\* A miss of GetOrLock keeps the invariant: the lock it makes is fresh.
LEMMA MissStep ==
  ASSUME IInv, NEW c \in Caller, NEW k \in Key, GetMiss(c, k), TypeOK' PROVE IInv'
<1> USE Distinct DEF IInv, TypeOK, Item, GetMiss, Goto
<1>1. PICK vl \in Lock : Fresh(vl) /\ items' = [items EXCEPT ![k] = vl]
  OBVIOUS
<1>2. Builders(k) = {}
  BY DEF LockedWhileBuilt
<1>3. Builders(k)' = {c}
  BY <1>2 DEF Builders
<1>4. \A j \in Key \ {k} : Builders(j)' = Builders(j)
  BY DEF Builders
<1>5. SingleBuilder'
  BY <1>3, <1>4 DEF SingleBuilder
<1>6. LockedWhileBuilt'
  <2>1. items'[k] \in Lock /\ Builders(k)' # {}
    BY <1>1, <1>3
  <2>2. \A j \in Key \ {k} : items'[j] = items[j]
    BY <1>1
  <2> QED BY <1>4, <2>1, <2>2 DEF LockedWhileBuilt
<1>7. OwnLock'
  BY <1>1 DEF OwnLock, Fresh
<1>8. WaitsForItsKey'
  BY <1>1 DEF WaitsForItsKey
<1>9. WokenFindsValue'
  BY <1>1 DEF WokenFindsValue
<1> QED BY <1>5, <1>6, <1>7, <1>8, <1>9

\* Blocking keeps the invariant: the caller waits for the lock it just read.
LEMMA BlockStep ==
  ASSUME IInv, NEW c \in Caller, NEW k \in Key, GetBlock(c, k), TypeOK' PROVE IInv'
<1> USE DEF IInv, TypeOK, GetBlock, Goto
<1>1. \A j \in Key : Builders(j)' = Builders(j)
  BY DEF Builders
<1>2. SingleBuilder' /\ LockedWhileBuilt' /\ OwnLock'
  BY <1>1 DEF SingleBuilder, LockedWhileBuilt, OwnLock
<1>3. WaitsForItsKey' /\ WokenFindsValue'
  BY DEF WaitsForItsKey, WokenFindsValue
<1> QED BY <1>2, <1>3

\* A hit keeps the invariant: it changes neither the map nor who waits.
LEMMA HitStep ==
  ASSUME IInv, NEW c \in Caller, NEW k \in Key, GetHit(c, k), TypeOK' PROVE IInv'
<1> USE DEF IInv, TypeOK, GetHit
<1>1. \A j \in Key : Builders(j)' = Builders(j)
  BY DEF Builders
<1>2. SingleBuilder' /\ LockedWhileBuilt' /\ OwnLock'
  BY <1>1 DEF SingleBuilder, LockedWhileBuilt, OwnLock
<1>3. WaitsForItsKey' /\ WokenFindsValue'
  BY DEF WaitsForItsKey, WokenFindsValue
<1> QED BY <1>2, <1>3

\* A released caller finds a value, so it returns it and builds nothing.
LEMMA RelockStep ==
  ASSUME IInv, NEW c \in Caller, Relock(c), TypeOK' PROVE IInv'
<1> USE Distinct DEF IInv, TypeOK, Relock, Goto
<1>1. pc' = [pc EXCEPT ![c] = "idle"]
  BY DEF WokenFindsValue
<1>2. \A j \in Key : Builders(j)' = Builders(j)
  BY <1>1 DEF Builders
<1>3. SingleBuilder' /\ LockedWhileBuilt' /\ OwnLock'
  BY <1>2 DEF SingleBuilder, LockedWhileBuilt, OwnLock
<1>4. WaitsForItsKey' /\ WokenFindsValue'
  BY <1>1 DEF WaitsForItsKey, WokenFindsValue
<1> QED BY <1>3, <1>4

\* SetUnlock keeps the invariant: its caller was the only builder, and the
\* callers it releases are those of its key, which now holds a value.
LEMMA SetUnlockStep ==
  ASSUME IInv, NEW c \in Caller, NEW v \in Value, SetUnlock(c, v), TypeOK' PROVE IInv'
<1> DEFINE k == key[c]
<1> USE Distinct DEF IInv, TypeOK, SetUnlock, AfterClose, Released, Store
<1>1. k \in Key /\ c \in Builders(k) /\ items[k] \in Lock
  BY DEF Builders, LockedWhileBuilt
<1>2. Builders(k)' = {}
  BY <1>1 DEF Builders, SingleBuilder
<1>3. \A j \in Key \ {k} : Builders(j)' = Builders(j)
  BY DEF Builders
<1>4. SingleBuilder'
  BY <1>2, <1>3 DEF SingleBuilder
<1>5. LockedWhileBuilt'
  BY <1>1, <1>2, <1>3 DEF LockedWhileBuilt
<1>6. OwnLock'
  BY <1>1 DEF OwnLock
<1>7. WaitsForItsKey'
  <2> SUFFICES ASSUME NEW d \in Caller, pc'[d] = "waiting"
               PROVE  chan'[d] \in Lock /\ chan'[d] = items'[key'[d]]
    BY DEF WaitsForItsKey
  <2>1. pc[d] = "waiting" /\ chan[d] # items[k]
    BY <1>1
  <2>2. key[d] # k
    BY <2>1 DEF WaitsForItsKey
  <2> QED BY <2>1, <2>2 DEF WaitsForItsKey
<1>8. WokenFindsValue'
  <2> SUFFICES ASSUME NEW d \in Caller, pc'[d] = "woken"
               PROVE  items'[key'[d]] \in Value
    BY DEF WokenFindsValue
  <2>1. CASE pc[d] = "woken"
    BY <2>1 DEF WokenFindsValue
  <2>2. CASE pc[d] # "woken"
    <3>1. pc[d] = "waiting" /\ chan[d] = items[k]
      BY <2>2, <1>1
    <3>2. key[d] = k
      BY <3>1, <1>1 DEF WaitsForItsKey, OwnLock
    <3> QED BY <3>2
  <2> QED BY <2>1, <2>2
<1> QED BY <1>4, <1>5, <1>6, <1>7, <1>8

\* The initial state satisfies the invariant.
LEMMA IInvInit == Init => IInv
<1> SUFFICES ASSUME Init PROVE IInv
  OBVIOUS
<1>1. TypeOK
  BY TypeInit
<1>2. \A k \in Key : Builders(k) = {}
  BY DEF Init, Builders
<1> QED
  BY <1>1, <1>2, Distinct
  DEF Init, IInv, SingleBuilder, LockedWhileBuilt, OwnLock, WaitsForItsKey, WokenFindsValue

\* Every step of Spec keeps the invariant.
LEMMA IInvStep == IInv /\ [Next]_vars => IInv'
<1> SUFFICES ASSUME IInv, [Next]_vars PROVE IInv'
  OBVIOUS
<1>1. TypeOK'
  BY TypeStep DEF IInv
<1>2. ASSUME NEW c \in Caller, NEW k \in Key, GetOrLock(c, k) PROVE IInv'
  BY <1>1, <1>2, MissStep, BlockStep, HitStep DEF GetOrLock
<1>3. ASSUME NEW c \in Caller, Relock(c) PROVE IInv'
  BY <1>1, <1>3, RelockStep
<1>4. ASSUME NEW c \in Caller, NEW v \in Value, SetUnlock(c, v) PROVE IInv'
  BY <1>1, <1>4, SetUnlockStep
<1>5. CASE UNCHANGED vars
  <2>1. \A k \in Key : Builders(k)' = Builders(k)
    BY <1>5 DEF vars, Builders
  <2> QED
    BY <1>1, <1>5, <2>1
    DEF vars, IInv, SingleBuilder, LockedWhileBuilt, OwnLock, WaitsForItsKey, WokenFindsValue
<1> QED BY <1>2, <1>3, <1>4, <1>5 DEF Next

\* IInv holds throughout every behaviour of Spec.
LEMMA Invariance == Spec => []IInv
  BY IInvInit, IInvStep, PTL DEF Spec

-----------------------------------------------------------------------------
(***************************************************************************)
(* The theorems.                                                           *)
(***************************************************************************)
\* The state of the cache keeps its types, whichever methods are called.
THEOREM TypeCorrect == ApiSpec => []TypeOK
  BY TypeInit, TypeStep, PTL DEF ApiSpec

\* Two callers never build the same key at the same time (GetOrLock after
\* GetOrLock of any other caller, in any order with SetUnlock).
THEOREM OneBuilder == Spec => []SingleBuilder
<1>1. IInv => SingleBuilder
  BY DEF IInv
<1> QED BY <1>1, Invariance, PTL

\* Whoever is blocked is blocked on a channel that a builder will close.
THEOREM Wakeups == Spec => []NoLostWakeup
<1>1. IInv => NoLostWakeup
  <2> SUFFICES ASSUME IInv, NEW c \in Caller, pc[c] = "waiting"
               PROVE  chan[c] = items[key[c]] /\ Builders(key[c]) # {}
    BY DEF NoLostWakeup
  <2>1. key[c] \in Key
    BY DEF IInv, TypeOK
  <2>2. chan[c] \in Lock /\ chan[c] = items[key[c]]
    BY DEF IInv, WaitsForItsKey
  <2> QED BY <2>1, <2>2 DEF IInv, LockedWhileBuilt
<1> QED BY <1>1, Invariance, PTL

\* Who had to wait gets the value and never becomes a second builder.
THEOREM WaitersServed == Spec => WaitersGetTheValue
<1>1. IInv /\ [Next]_vars =>
        [\A c \in Caller : pc[c] = "woken" /\ pc'[c] # "woken" => result'[c].found]_vars
  <2> SUFFICES ASSUME IInv, Next, NEW d \in Caller, pc[d] = "woken", pc'[d] # "woken"
               PROVE  result'[d].found
    OBVIOUS
  <2> USE DEF IInv, TypeOK
  <2>1. ASSUME NEW c \in Caller, NEW k \in Key, GetOrLock(c, k) PROVE FALSE
    BY <2>1 DEF GetOrLock, GetMiss, GetBlock, GetHit, Goto
  <2>2. ASSUME NEW c \in Caller, NEW v \in Value, SetUnlock(c, v) PROVE FALSE
    BY <2>2 DEF SetUnlock, AfterClose, Released
  <2>3. ASSUME NEW c \in Caller, Relock(c) PROVE result'[d].found
    <3>1. c = d
      BY <2>3 DEF Relock, Goto
    <3>2. items[key[d]] \notin Lock \cup {NoItem}
      BY Distinct DEF WokenFindsValue
    <3> QED BY <2>3, <3>1, <3>2 DEF Relock, Return
  <2> QED BY <2>1, <2>2, <2>3 DEF Next
<1> QED BY <1>1, Invariance, PTL DEF Spec, WaitersGetTheValue

\* GetOrLock never hands out a lock or a missing item as found, whatever
\* other methods run while its caller is blocked.
THEOREM NoLockEscapes == ApiSpec => []NeverReturnsALock
<1>1. Init => NeverReturnsALock
  BY DEF Init, NeverReturnsALock
<1>2. TypeOK /\ NeverReturnsALock /\ [Next \/ DirectCall]_vars => NeverReturnsALock'
  <2> SUFFICES ASSUME TypeOK, NeverReturnsALock, [Next \/ DirectCall]_vars
               PROVE  NeverReturnsALock'
    OBVIOUS
  <2>0. result = [d \in Caller |-> result[d]]
    BY DEF TypeOK
  <2> USE <2>0 DEF NeverReturnsALock, Return
  <2>1. ASSUME NEW c \in Caller, NEW k \in Key, GetOrLock(c, k) PROVE NeverReturnsALock'
    <3> USE <2>1
    <3>1. CASE GetMiss(c, k)
      <4>1. result' = [result EXCEPT ![c] = [op |-> "GetOrLock", item |-> NoItem, found |-> FALSE]]
        BY <3>1 DEF GetMiss
      <4> QED BY <4>1
    <3>2. CASE GetBlock(c, k)
      <4>1. result' = result
        BY <3>2 DEF GetBlock
      <4> QED BY <4>1
    <3>3. CASE GetHit(c, k)
      <4>1. /\ items[k] \in Value
            /\ result' = [result EXCEPT ![c] = [op |-> "GetOrLock", item |-> items[k], found |-> TRUE]]
        BY <3>3 DEF GetHit
      <4> QED BY <4>1
    <3> QED BY <3>1, <3>2, <3>3 DEF GetOrLock
  <2>2. ASSUME NEW c \in Caller, Relock(c) PROVE NeverReturnsALock'
    <3> DEFINE item == items[key[c]]
    <3>1. item \in Item
      BY DEF TypeOK
    <3>2. CASE item \in Lock \cup {NoItem}
      <4>1. result' = [result EXCEPT ![c] = [op |-> "GetOrLock", item |-> NoItem, found |-> FALSE]]
        BY <2>2, <3>2 DEF Relock
      <4> QED BY <4>1
    <3>3. CASE item \notin Lock \cup {NoItem}
      <4>1. result' = [result EXCEPT ![c] = [op |-> "GetOrLock", item |-> item, found |-> TRUE]]
        BY <2>2, <3>3 DEF Relock
      <4> QED BY <4>1, <3>1, <3>3 DEF Item
    <3> QED BY <3>2, <3>3
  <2>3. ASSUME NEW c \in Caller, NEW k \in Key, Get(c, k) PROVE NeverReturnsALock'
    BY <2>3 DEF Get
  <2>4. CASE UNCHANGED result
    BY <2>4
  <2> QED
    BY <2>1, <2>2, <2>3, <2>4
    DEF Next, DirectCall, SetUnlock, Set, Add, PlainSetUnlock, Delete, Clear, vars
<1> QED BY <1>1, <1>2, TypeCorrect, PTL DEF ApiSpec

(***************************************************************************)
(* ValueCache implements SingleFlight.  A miss is Start, SetUnlock is      *)
(* Finish, a hit is Hit whether its caller waited or not; blocking is a    *)
(* stutter, because no one outside the cache can see it.                   *)
(***************************************************************************)
\* A miss starts the flight of its key.
LEMMA MissStarts ==
  ASSUME IInv, NEW c \in Caller, NEW k \in Key, GetMiss(c, k) PROVE Abstract!Start(c, k)
<1> USE Distinct DEF IInv, TypeOK, GetMiss, Goto
<1>1. PICK vl \in Lock : items' = [items EXCEPT ![k] = vl]
  OBVIOUS
<1>2. Builders(k) = {} /\ Builders(k)' = {c}
  BY DEF LockedWhileBuilt, Builders
<1>3. \A j \in Key \ {k} : Builders(j)' = Builders(j)
  BY DEF Builders
<1>4. Flights' = [Flights EXCEPT ![k] = {c}]
  BY <1>2, <1>3 DEF Flights
<1>5. Stored' = Stored
  BY <1>1 DEF Stored
<1>6. Answer' = [Answer EXCEPT ![c] = NoItem]
  BY DEF Answer, Return
<1> QED BY <1>2, <1>4, <1>5, <1>6 DEF Abstract!Start, Stored, Flights

\* SetUnlock ends the flight of its key.
LEMMA SetUnlockFinishes ==
  ASSUME IInv, NEW c \in Caller, NEW v \in Value, SetUnlock(c, v)
  PROVE  Abstract!Finish(c, key[c], v)
<1> DEFINE k == key[c]
<1> USE Distinct DEF IInv, TypeOK, SetUnlock, AfterClose, Released, Store
<1>1. k \in Key /\ c \in Builders(k) /\ items[k] \in Lock
  BY DEF Builders, LockedWhileBuilt
<1>2. Builders(k) = {c} /\ Builders(k)' = {}
  BY <1>1 DEF Builders, SingleBuilder
<1>3. \A j \in Key \ {k} : Builders(j)' = Builders(j)
  BY DEF Builders
<1>4. Flights' = [Flights EXCEPT ![k] = {}]
  BY <1>1, <1>2, <1>3 DEF Flights
<1>5. Stored' = [Stored EXCEPT ![k] = v]
  BY <1>1 DEF Stored
<1>6. UNCHANGED Answer
  BY DEF Answer
<1> QED BY <1>1, <1>2, <1>4, <1>5, <1>6 DEF Abstract!Finish, Stored, Flights

\* A hit, at once or after a wait, answers from the store.
LEMMA HitAnswers ==
  ASSUME IInv, NEW c \in Caller, NEW k \in Key, items[k] \in Value,
         Return(c, "GetOrLock", items[k], TRUE),
         UNCHANGED items, \A d \in Caller : pc[d] = "building" <=> pc'[d] = "building",
         \A d \in Caller : pc[d] = "building" => key'[d] = key[d]
  PROVE  Abstract!Hit(c, k)
<1> USE Distinct DEF IInv, TypeOK
<1>1. UNCHANGED <<Stored, Flights>>
  BY DEF Stored, Flights, Builders
<1>2. Answer' = [Answer EXCEPT ![c] = items[k]]
  BY DEF Answer, Return
<1>3. Stored[k] = items[k] /\ Stored[k] # NoItem
  BY DEF Stored
<1> QED BY <1>1, <1>2, <1>3 DEF Abstract!Hit

\* The cache, used the way the Helm builder uses it, is a single-flight
\* store.
THEOREM Refinement == Spec => ImplementsSingleFlight
<1>1. Init => Abstract!Init
  BY DEF Init, Abstract!Init, Stored, Flights, Answer, Builders
<1>2. IInv /\ [Next]_vars => [Abstract!Next]_(Abstract!vars)
  <2> SUFFICES ASSUME IInv, [Next]_vars PROVE Abstract!Next \/ UNCHANGED Abstract!vars
    OBVIOUS
  <2>1. ASSUME NEW c \in Caller, NEW k \in Key, GetMiss(c, k) PROVE Abstract!Next
    BY <2>1, MissStarts DEF Abstract!Next
  <2>2. ASSUME NEW c \in Caller, NEW k \in Key, GetBlock(c, k)
        PROVE  UNCHANGED Abstract!vars
    BY <2>2 DEF GetBlock, Goto, IInv, TypeOK, Abstract!vars, Stored, Flights, Answer, Builders
  <2>3. ASSUME NEW c \in Caller, NEW k \in Key, GetHit(c, k) PROVE Abstract!Next
    <3>1. Abstract!Hit(c, k)
      BY <2>3, HitAnswers DEF GetHit, IInv, TypeOK
    <3> QED BY <3>1 DEF Abstract!Next
  <2>4. ASSUME NEW c \in Caller, Relock(c) PROVE Abstract!Next
    <3>1. key[c] \in Key /\ items[key[c]] \in Value /\ items[key[c]] \notin Lock \cup {NoItem}
      BY <2>4, Distinct DEF Relock, IInv, TypeOK, WokenFindsValue
    <3>2. Return(c, "GetOrLock", items[key[c]], TRUE) /\ pc' = [pc EXCEPT ![c] = "idle"]
      BY <2>4, <3>1 DEF Relock, Goto
    <3>3. Abstract!Hit(c, key[c])
      BY <2>4, <3>1, <3>2, HitAnswers DEF Relock, IInv, TypeOK
    <3> QED BY <3>1, <3>3 DEF Abstract!Next
  <2>5. ASSUME NEW c \in Caller, NEW v \in Value, SetUnlock(c, v) PROVE Abstract!Next
    <3>1. key[c] \in Key
      BY DEF IInv, TypeOK
    <3> QED BY <2>5, <3>1, SetUnlockFinishes DEF Abstract!Next
  <2>6. CASE UNCHANGED vars
    BY <2>6 DEF vars, Abstract!vars, Stored, Flights, Answer, Builders
  <2> QED BY <2>1, <2>2, <2>3, <2>4, <2>5, <2>6 DEF Next, GetOrLock
<1> QED BY <1>1, <1>2, Invariance, PTL DEF Spec, ImplementsSingleFlight, Abstract!Spec
=============================================================================
