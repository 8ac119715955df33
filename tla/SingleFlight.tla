---------------------------- MODULE SingleFlight ----------------------------
(***************************************************************************)
(* What GetOrLock and SetUnlock promise together, as a store that is       *)
(* filled once per key: the first caller of a key builds its value, one    *)
(* caller at a time; whoever asks for the key afterwards is answered with  *)
(* the value that build stored, and the value never changes.               *)
(***************************************************************************)
CONSTANTS Key, Caller, Value, NoItem

VARIABLES
  stored,     \* the value of each key, NoItem before it is built
  builders,   \* the callers that build each key
  answer      \* the value the last finished call of each caller returned

vars == <<stored, builders, answer>>

Init ==
  /\ stored = [k \in Key |-> NoItem]
  /\ builders = [k \in Key |-> {}]
  /\ answer = [c \in Caller |-> NoItem]

\* The first caller of a key is told to build it.
Start(c, k) ==
  /\ stored[k] = NoItem /\ builders[k] = {}
  /\ builders' = [builders EXCEPT ![k] = {c}]
  /\ answer' = [answer EXCEPT ![c] = NoItem]
  /\ UNCHANGED stored

\* Its value becomes the value of the key.
Finish(c, k, v) ==
  /\ builders[k] = {c} /\ stored[k] = NoItem
  /\ stored' = [stored EXCEPT ![k] = v]
  /\ builders' = [builders EXCEPT ![k] = {}]
  /\ UNCHANGED answer

\* Any other caller is answered from the store.
Hit(c, k) ==
  /\ stored[k] # NoItem
  /\ answer' = [answer EXCEPT ![c] = stored[k]]
  /\ UNCHANGED <<stored, builders>>

Next ==
  \E c \in Caller, k \in Key :
    \/ Start(c, k)
    \/ \E v \in Value : Finish(c, k, v)
    \/ Hit(c, k)

Spec == Init /\ [][Next]_vars
=============================================================================
