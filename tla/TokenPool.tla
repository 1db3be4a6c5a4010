----------------------------- MODULE TokenPool -----------------------------
(***************************************************************************)
(* What the token manager promises for a type of tokens whose definition   *)
(* is taken back by nothing but a change of the scenario: a token comes    *)
(* into the world only where the type is defined and below its limit, and  *)
(* with the definition all its tokens are gone.                            *)
(***************************************************************************)
EXTENDS Integers, FiniteSets

CONSTANTS Types, Tokens

VARIABLES defined,  \* the types that are defined
          limit,    \* of each type: its limit, -1 for none at all
          pool      \* of each type: its tokens in the world

vars == <<defined, limit, pool>>

Init == /\ defined = {} /\ limit = [t \in Types |-> 0]
        /\ pool = [t \in Types |-> {}]

\* The scenario defines a type, or changes its limit.
SetLimit(t) ==
  /\ defined' = defined \cup {t} /\ UNCHANGED pool
  /\ limit'[t] \in Int /\ limit' = [limit EXCEPT ![t] = limit'[t]]

\* A token appears, maybe in place of some that go: there are no more than the limit.
Enter(t) ==
  /\ t \in defined /\ UNCHANGED <<defined, limit>>
  /\ \E k \in Tokens, rest \in SUBSET pool[t] :
       /\ \A u \in Types : k \notin pool[u]
       /\ pool' = [pool EXCEPT ![t] = rest \cup {k}]
       /\ limit[t] = -1 \/ Cardinality(rest) < limit[t]

\* Tokens go; one that is used up may take its place in the limit with it.
Leave ==
  /\ pool' \in [Types -> SUBSET Tokens] /\ \A t \in Types : pool'[t] \subseteq pool[t]
  /\ UNCHANGED defined
  /\ \/ UNCHANGED limit
     \/ \E t \in defined : /\ pool'[t] # pool[t]
                           /\ limit' = [limit EXCEPT ![t] = limit[t] - 1]

\* Another scenario: no type, no token.
Clear == /\ defined' = {} /\ limit' = [t \in Types |-> 0]
         /\ pool' = [t \in Types |-> {}]

Next == \/ \E t \in Types : SetLimit(t) \/ Enter(t)
        \/ Leave \/ Clear

Spec == Init /\ [][Next]_vars
=============================================================================
