------------------------------- MODULE MCFuture -------------------------------
(* Futures small enough for TLC: a promise with a continuation "then" and a *)
(* future "shared", of which copy1 and copy2 are copies; "any" is           *)
(* WhenAny(then, copy1) and "all" is WhenAll(any, copy2).                   *)
EXTENDS Future

CONSTANTS promise, then, shared, copy1, copy2, any, all

MCKind == [f \in Future |->
  CASE f = promise -> "promise" [] f = then -> "then" [] f = shared -> "share"
    [] f \in {copy1, copy2} -> "copy" [] f = any -> "whenAny" [] OTHER -> "whenAll"]

MCParents == [f \in Future |->
  CASE f \in {then, shared} -> <<promise>> [] f \in {copy1, copy2} -> <<shared>>
    [] f = any -> <<then, copy1>> [] f = all -> <<any, copy2>> [] OTHER -> <<>>]

=============================================================================
