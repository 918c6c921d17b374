---------------------------- MODULE MC_Capability ----------------------------
(* Model-checking instance of Capability.                                  *)
EXTENDS Capability, TLC

CONSTANTS n1, i1, i2

Scope(resource) == [action |-> "Use", resource |-> resource, from |-> 0, to |-> 2,
                    caveats |-> {}]
\* The third range lies in both others; neither of those lies in the other.
InstScopes ==
  {Scope([kind |-> "MmioRegion", base |-> 0, len |-> 3]),
   Scope([kind |-> "MmioRegion", base |-> 1, len |-> 4]),
   Scope([kind |-> "MmioRegion", base |-> 1, len |-> 2])}
InstCaveats == {[kind |-> "ExpiresAt", at |-> 1], [kind |-> "NotBefore", at |-> 2]}
InstNodes == {n1}
InstIssuers == {i1, i2}
IssuerSymmetry == Permutations(InstIssuers)
InstIndices == (1 :> {1, 2}) @@ (2 :> {2, 3}) @@ (3 :> {1, 3})

(* Every pair of these patterns, ranges up to the top address 6 included.  *)
InstPatterns ==
  [kind : {"Any"}]
    \union [kind : {"Path"}, path : {<<"a">>, <<"b">>, <<"a", "b">>, <<>>}, wild : BOOLEAN]
    \union [kind : {"Endpoint"}, host : {"h", "g", "*"}, port : -1 .. 2]
    \union [kind : {"MmioRegion", "DmaWindow", "Framebuffer"}, base : 0 .. 3, len : 0 .. 3]
    \union [kind : {"IrqLine"}, line : 1 .. 2]

InstObjects ==
  [kind : {"Path"}, path : {<<"a">>, <<"b">>, <<"a", "b">>, <<"a", "b", "a">>}]
    \union [kind : {"Endpoint"}, host : {"h", "g"}, port : {1, 2}]
    \union [kind : {"MmioRegion", "DmaWindow", "Framebuffer"}, base : 0 .. 6]
    \union [kind : {"IrqLine"}, line : 1 .. 2]
=============================================================================
