----------------------------- MODULE MCServices -----------------------------
(***************************************************************************)
(* The small instance of Services that TLC checks.                         *)
(***************************************************************************)
EXTENDS Services, TLC

CONSTANTS
  i1, i2, w1, x1, \* checklist items, a deliverable, one outside the scope
  a1, k1,         \* identifiers of different kinds of rows
  d1              \* a deal

Asked(status, due) == [status |-> status, due |-> due]

Bodies == {Asked("BLOCKED", None), Asked("COMPLETE", None), Asked("DELIVERED", None),
           Asked(None, 5)}

DigitsOf == i1 :> 0 @@ w1 :> 9 @@ x1 :> 0

OwnerOf == i1 :> a1 @@ i2 :> a1 @@ w1 :> a1

PriceOf == a1 :> 97 @@ k1 :> 197

TierOf == a1 :> "SURVIVOR" @@ k1 :> "GROWTH"

ValueOf == d1 :> 500

LikelihoodOf == d1 :> 70

\* Requests are alike.
Symmetry == Permutations(Pair) \cup Permutations(Trio)
=============================================================================
