------------------------------- MODULE Lease -------------------------------
(***************************************************************************)
(* What the Lock part of the Broker interface promises its callers: a      *)
(* positive answer is a promise that lasts for some time, and nobody else  *)
(* is given one while it lasts.  There is no table and no holder here:     *)
(* only, for every caller, how much longer the last promise made to it is  *)
(* good for.  BrokerLock is shown to implement this specification.         *)
(***************************************************************************)
EXTENDS Integers

CONSTANT Holders         \* the holder identities that ask for the lock

VARIABLE promised        \* promised[h]: time left of the last promise to h

Init == promised = [h \in Holders |-> 0]

(* h is told that the lock is its own for some more units of time. *)
Grant(h) ==
    /\ \A g \in Holders \ {h} : promised[g] = 0
    /\ promised'[h] \in Nat
    /\ promised' = [promised EXCEPT ![h] = promised'[h]]

(* h gives the lock back. *)
Return(h) == promised' = [promised EXCEPT ![h] = 0]

(* Time passes for everybody. *)
Elapse ==
    promised' = [h \in Holders |-> IF promised[h] = 0 THEN 0 ELSE promised[h] - 1]

Next == Elapse \/ \E h \in Holders : Grant(h) \/ Return(h)

Spec == Init /\ [][Next]_promised
=============================================================================
