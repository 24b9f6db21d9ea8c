------------------------------ MODULE MCParts ------------------------------
(* The parts of ewss.hpp that keep to themselves: the types that manage    *)
(* storage by hand, the frames on the wire, and the two codecs that make   *)
(* the accept key.  They share no state: a behaviour exercises one of      *)
(* them, its subject.                                                      *)
EXTENDS ObjectPool, Lifetimes, Wire, Sha1, Base64

Bits == INSTANCE Bitwise

VARIABLE subject

vars == <<poolVars, lifeVars, wireVars, shaVars, text, subject>>

Init ==
  /\ PoolInit /\ LifeInit /\ WireInit /\ ShaInit /\ TextInit
  /\ subject \in {"pool", "vector", "box", "function", "wire", "sha1", "base64"}

Lives == \/ subject = "vector" /\ Vectors
         \/ subject = "box" /\ Boxes
         \/ subject = "function" /\ FunctionsAndGuards

Next ==
  /\ UNCHANGED subject
  /\ \/ subject = "pool" /\ PoolNext /\ UNCHANGED <<lifeVars, wireVars, shaVars, text>>
     \/ Lives /\ UNCHANGED <<poolVars, wireVars, shaVars, text>>
     \/ subject = "wire" /\ WireNext /\ UNCHANGED <<poolVars, lifeVars, shaVars, text>>
     \/ subject = "sha1" /\ ShaNext /\ UNCHANGED <<poolVars, lifeVars, wireVars, text>>
     \/ subject = "base64" /\ TextNext
        /\ UNCHANGED <<poolVars, lifeVars, wireVars, shaVars>>

Spec == Init /\ [][Next]_vars

(* The key of examples/benchmark_echo.cpp has four different bytes. *)
MCKey == <<1, 2, 5, 6>>

(* The operator ^ of C++. *)
MCXor(b, m) == Bits!^^(b, m)

(* Two blocks and more, no two neighbouring bytes alike. *)
MCText == [k \in 1..130 |-> k]

=============================================================================
