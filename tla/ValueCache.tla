----------------------------- MODULE ValueCache -----------------------------
(***************************************************************************)
(* The keyed value cache of internal/cache/cache.go, which the Helm        *)
(* builder uses for chart repositories and which the in-memory chart cache *)
(* wraps.  A miss of GetOrLock installs a lock, a channel, under the key   *)
(* and sends its caller off to build the value; later callers of the key   *)
(* block on that channel until SetUnlock stores the value and closes it.   *)
(*                                                                         *)
(* Every method runs under the mutex c.mu from its first statement to its  *)
(* return, so a method is one action.  GetOrLock is the exception: it      *)
(* gives the mutex up while it blocks on the channel, so it is two         *)
(* actions with any other method between them.                             *)
(*                                                                         *)
(* Spec is the discipline of this program: callers use GetOrLock and       *)
(* follow a miss with SetUnlock.  ApiSpec adds every other exported        *)
(* method, called at any time.                                             *)
(***************************************************************************)
CONSTANTS
  Key,      \* the keys callers ask for
  Caller,   \* the goroutines that share the cache
  Lock,     \* valueLock channels; one that nobody refers to may be made again
  Value,    \* what SetUnlock, Set and Add store (nil is one such value)
  NoItem    \* the key is not in the map

ASSUME Distinct ==
  /\ Lock \cap Value = {}
  /\ NoItem \notin Lock \cup Value

VARIABLES
  items,    \* c.items
  pc,       \* where each caller is in its GetOrLock / SetUnlock cycle
  key,      \* the key of the caller's current or last call
  chan,     \* the channel a blocked caller receives from
  result    \* what the caller's last GetOrLock or Get returned

vars == <<items, pc, key, chan, result>>

Item == Lock \cup Value \cup {NoItem}

Result == [op : {"none", "GetOrLock", "Get"}, item : Item, found : BOOLEAN]

TypeOK ==
  /\ items \in [Key -> Item]
  /\ pc \in [Caller -> {"idle", "waiting", "woken", "building"}]
  /\ key \in [Caller -> Key]
  /\ chan \in [Caller -> Lock \cup {NoItem}]
  /\ result \in [Caller -> Result]

Init ==
  /\ items = [k \in Key |-> NoItem]
  /\ pc = [c \in Caller |-> "idle"]
  /\ key \in [Caller -> Key]
  /\ chan = [c \in Caller |-> NoItem]
  /\ result = [c \in Caller |-> [op |-> "none", item |-> NoItem, found |-> FALSE]]

(***************************************************************************)
(* The pieces the methods are made of.                                     *)
(***************************************************************************)
\* make(valueLock) yields a channel nothing in the program refers to.
Fresh(l) == l \notin {items[k] : k \in Key} \cup {chan[c] : c \in Caller}

Return(c, op, item, found) ==
  result' = [result EXCEPT ![c] = [op |-> op, item |-> item, found |-> found]]

\* A caller told (nil, false) goes on to build the value.
Goto(c, label) == pc' = [pc EXCEPT ![c] = label]

\* The callers close(vl) releases: those that receive from that channel.
Released(vl) == {c \in Caller : pc[c] = "waiting" /\ chan[c] = vl}

(***************************************************************************)
(* GetOrLock, up to the point where it returns or blocks.                  *)
(***************************************************************************)
\* Mutant of GetMiss: the miss is reported and no lock is left behind.
GetMissNoLock(c, k) ==
  /\ pc[c] = "idle"
  /\ items[k] = NoItem
  /\ key' = [key EXCEPT ![c] = k]
  /\ Return(c, "GetOrLock", NoItem, FALSE)
  /\ Goto(c, "building")
  /\ UNCHANGED <<items, chan>>

\* The key is not in the map: install a lock, return (nil, false).
GetMiss(c, k) ==
  /\ pc[c] = "idle"
  /\ items[k] = NoItem
  /\ \E vl \in Lock : Fresh(vl) /\ items' = [items EXCEPT ![k] = vl]
  /\ key' = [key EXCEPT ![c] = k]
  /\ Return(c, "GetOrLock", NoItem, FALSE)
  /\ Goto(c, "building")
  /\ UNCHANGED chan

\* The key holds a lock: unlock the mutex and block on the channel.
GetBlock(c, k) ==
  /\ pc[c] = "idle"
  /\ items[k] \in Lock
  /\ key' = [key EXCEPT ![c] = k]
  /\ chan' = [chan EXCEPT ![c] = items[k]]
  /\ Goto(c, "waiting")
  /\ UNCHANGED <<items, result>>

\* Mutant of GetHit: whatever is found counts as a value.
GetHitAnything(c, k) ==
  /\ pc[c] = "idle"
  /\ items[k] # NoItem
  /\ key' = [key EXCEPT ![c] = k]
  /\ Return(c, "GetOrLock", items[k], TRUE)
  /\ UNCHANGED <<items, pc, chan>>

\* The key holds a value: return (item, true).
GetHit(c, k) ==
  /\ pc[c] = "idle"
  /\ items[k] \in Value
  /\ key' = [key EXCEPT ![c] = k]
  /\ Return(c, "GetOrLock", items[k], TRUE)
  /\ UNCHANGED <<items, pc, chan>>

GetOrLock(c, k) == GetMiss(c, k) \/ GetBlock(c, k) \/ GetHit(c, k)

\* Mutant of Relock: the second look does not ask for a lock.
RelockAnything(c) ==
  LET item == items[key[c]] IN
  /\ pc[c] = "woken"
  /\ chan' = [chan EXCEPT ![c] = NoItem]
  /\ Return(c, "GetOrLock", item, item # NoItem)
  /\ Goto(c, IF item = NoItem THEN "building" ELSE "idle")
  /\ UNCHANGED <<items, key>>

\* The rest of GetOrLock: the receive has returned, the mutex is taken again
\* and the key is read again.  A key that is gone or locked anew is a miss,
\* reported without a lock of the caller's own.
Relock(c) ==
  LET item == items[key[c]] IN
  /\ pc[c] = "woken"
  /\ chan' = [chan EXCEPT ![c] = NoItem]
  /\ \/ /\ item \in Lock \cup {NoItem}
        /\ Return(c, "GetOrLock", NoItem, FALSE)
        /\ Goto(c, "building")
     \/ /\ item \notin Lock \cup {NoItem}
        /\ Return(c, "GetOrLock", item, TRUE)
        /\ Goto(c, "idle")
  /\ UNCHANGED <<items, key>>

(***************************************************************************)
(* SetUnlock: close the channel found under the key, if there is one, and  *)
(* store the value.                                                        *)
(***************************************************************************)
\* The pc of every caller once close(vl) has released the receivers of the
\* lock under k; c, when it is a caller, returns from its own call.
AfterClose(k, self) ==
  [c \in Caller |-> IF c \in self THEN "idle"
                    ELSE IF items[k] \in Lock /\ c \in Released(items[k])
                         THEN "woken" ELSE pc[c]]

Store(k, v) == items' = [items EXCEPT ![k] = v]

\* Mutants of SetUnlock: the channel is not closed; the channel is closed and
\* no value is stored; the arguments are swapped.
SetNoUnlock(c, v) ==
  /\ pc[c] = "building"
  /\ Goto(c, "idle")
  /\ Store(key[c], v)
  /\ UNCHANGED <<key, chan, result>>

UnlockNoSet(c, v) ==
  /\ pc[c] = "building"
  /\ pc' = AfterClose(key[c], {c})
  /\ Store(key[c], NoItem)
  /\ UNCHANGED <<key, chan, result>>

SetUnlockSwapped(c, v) ==
  /\ pc[c] = "building"
  /\ pc' = AfterClose(key[c], {c})
  /\ Store(key[c], key[c])
  /\ UNCHANGED <<key, chan, result>>

SetUnlock(c, v) ==
  /\ pc[c] = "building"
  /\ pc' = AfterClose(key[c], {c})
  /\ Store(key[c], v)
  /\ UNCHANGED <<key, chan, result>>

(***************************************************************************)
(* The other exported methods.  None of them closes a lock it drops.       *)
(***************************************************************************)
Set(k, v) == Store(k, v) /\ UNCHANGED <<pc, key, chan, result>>

Add(k, v) == items[k] = NoItem /\ Set(k, v)

Delete(k) == Store(k, NoItem) /\ UNCHANGED <<pc, key, chan, result>>

Clear ==
  /\ items' = [k \in Key |-> NoItem]
  /\ UNCHANGED <<pc, key, chan, result>>

\* Get hands out whatever the map holds, a lock included.
Get(c, k) ==
  /\ pc[c] = "idle"
  /\ key' = [key EXCEPT ![c] = k]
  /\ Return(c, "Get", items[k], items[k] # NoItem)
  /\ UNCHANGED <<items, pc, chan>>

\* SetUnlock by a goroutine that was not told to build the key.
PlainSetUnlock(k, v) ==
  /\ pc' = AfterClose(k, {})
  /\ Store(k, v)
  /\ UNCHANGED <<key, chan, result>>

(***************************************************************************)
(* Specifications.                                                         *)
(***************************************************************************)
Next ==
  \E c \in Caller :
    \/ \E k \in Key : GetOrLock(c, k)
    \/ Relock(c)
    \/ \E v \in Value : SetUnlock(c, v)

DirectCall ==
  \/ \E k \in Key, v \in Value : Set(k, v) \/ Add(k, v) \/ PlainSetUnlock(k, v)
  \/ \E k \in Key : Delete(k)
  \/ Clear
  \/ \E c \in Caller, k \in Key : Get(c, k)

\* A caller that was told to build does store a value in the end (SetUnlock
\* is deferred in helm.go), and the scheduler runs a released goroutine.
Fairness ==
  \A c \in Caller :
    /\ WF_vars(Relock(c))
    /\ WF_vars(\E v \in Value : SetUnlock(c, v))

Spec == Init /\ [][Next]_vars /\ Fairness

ApiSpec == Init /\ [][Next \/ DirectCall]_vars /\ Fairness

-----------------------------------------------------------------------------
(***************************************************************************)
(* Properties of Spec.                                                     *)
(***************************************************************************)
Builders(k) == {c \in Caller : pc[c] = "building" /\ key[c] = k}

\* At any time at most one caller builds a given key, and while it does the
\* key holds its lock: no second download of what is being downloaded.
SingleBuilder ==
  \A k \in Key : \A c, d \in Builders(k) : c = d

\* A blocked caller can still be released: its channel is the lock the map
\* holds, and somebody is building that key and will close it.
NoLostWakeup ==
  \A c \in Caller : pc[c] = "waiting" =>
    /\ chan[c] = items[key[c]]
    /\ Builders(key[c]) # {}

\* A caller that was made to wait never has to build: when GetOrLock
\* returns after a wait it returns a value.
WaitersGetTheValue ==
  [][\A c \in Caller : pc[c] = "woken" /\ pc'[c] # "woken" => result'[c].found]_vars

\* Every caller that blocks in GetOrLock returns from it.
EveryWaitEnds ==
  \A c \in Caller : pc[c] = "waiting" ~> pc[c] # "waiting"

\* The cache is a single-flight store: see SingleFlight.
Stored == [k \in Key |-> IF items[k] \in Value THEN items[k] ELSE NoItem]
Flights == [k \in Key |-> Builders(k)]
Answer == [c \in Caller |-> result[c].item]

Abstract == INSTANCE SingleFlight
              WITH stored <- Stored, builders <- Flights, answer <- Answer

ImplementsSingleFlight == Abstract!Spec

(***************************************************************************)
(* Properties of ApiSpec.                                                  *)
(***************************************************************************)
\* Whatever methods run between the release of a caller and its second look
\* at the map, GetOrLock never hands a lock out as if it were an item, and
\* never reports a missing key as found.
NeverReturnsALock ==
  \A c \in Caller : result[c].op = "GetOrLock" /\ result[c].found
                      => result[c].item \in Value
=============================================================================
