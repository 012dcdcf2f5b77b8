---------------------------- MODULE OfferCatalog ----------------------------
(***************************************************************************)
(* The versions of one offer, their prices at Stripe and their sales       *)
(* (offer.service.ts, stripe-provisioning.service.ts, and the part of      *)
(* ClientAccountService.convert that freezes what is sold).                *)
(*                                                                         *)
(* Every operation reads the row it is about, decides, and writes by the   *)
(* row's id alone: what it read may have changed in between.               *)
(***************************************************************************)
EXTENDS Integers, FiniteSetsExt

CONSTANTS
  Calls,       \* requests; each is one process
  Prices,      \* the material terms of an offer
  MaxVersion,  \* a bound on the versions of the key
  None         \* null

Versions == 1 .. MaxVersion

LifecycleStates == {"DRAFT", "ACTIVE", "RETIRED"}

VARIABLES
  offers,      \* the Offer row of every version, or None
  mappings,    \* StripePriceMapping.amount of every version, or None
  stripe,      \* the amount of the price that Stripe made for a version
  sales,       \* OfferSnapshot rows
  calls,       \* the local state of every request
  past         \* *history* whether a write came over a row that had changed

vars == <<offers, mappings, stripe, sales, calls, past>>

Offer == [state : LifecycleStates, price : Prices, trial : BOOLEAN]

Idle == [pc |-> "idle", version |-> None, read |-> None, price |-> None,
         state |-> None, todo |-> {}, late |-> {}]

Working == {"update", "sibling", "promote", "retire", "provision", "price",
            "record", "freeze"}

\* A first version as it was seeded or created, possibly with a trial, live or
\* not, and at Stripe or not.
Init ==
  /\ \E p \in Prices, s \in {"DRAFT", "ACTIVE"}, trial \in BOOLEAN :
       offers = [v \in Versions |->
                   IF v = 1 THEN [state |-> s, price |-> p, trial |-> trial] ELSE None]
  /\ mappings = [v \in Versions |-> None]
  /\ stripe = [v \in Versions |-> None]
  /\ sales = {}
  /\ calls = [c \in Calls |-> Idle]
  /\ past = [terms |-> {}, line |-> {}, double |-> FALSE]

At(c, pc) == calls[c].pc = pc

Goto(c, new) == calls' = [calls EXCEPT ![c] = new]
Over(outcome) == [Idle EXCEPT !.pc = outcome]

\* History: the calls under way learn what was written.
GotoAndTell(c, new, what) ==
  calls' = [d \in Calls |->
              IF d = c THEN new
              ELSE IF calls[d].pc \in Working
                   THEN [calls[d] EXCEPT !.late = @ \cup {what}] ELSE calls[d]]

Existing == {v \in Versions : offers[v] # None}
Active == {v \in Existing : offers[v].state = "ACTIVE"}

-----------------------------------------------------------------------------
(* update                                                                  *)

Update(c) ==
  \E v \in Existing, p \in Prices :
    /\ At(c, "idle")
    /\ Goto(c, [Idle EXCEPT !.pc = "update", !.version = v, !.read = offers[v],
                            !.price = p])
    /\ UNCHANGED <<offers, mappings, stripe, sales, past>>

\* mutant of InPlace: every update is made in place
InPlaceAlways(call) == TRUE

\* Terms are changed in place unless the offer was read as live.
InPlace(call) == call.read.state # "ACTIVE" \/ call.price = call.read.price

EditInPlace(c) ==
  LET call == calls[c] IN
    /\ At(c, "update")
    /\ InPlace(call)
    /\ offers' = [offers EXCEPT ![call.version].price = call.price]
    /\ past' = IF /\ offers[call.version].state = "ACTIVE"
                  /\ <<call.version, "ACTIVE">> \in call.late
               THEN [past EXCEPT !.terms = @ \cup {call.version}] ELSE past
    /\ Goto(c, Over("done"))
    /\ UNCHANGED <<mappings, stripe, sales>>

\* The next version takes the terms of the old one, except for its trial; the
\* key and the version are unique.
NextVersion(call) == [state |-> "DRAFT", price |-> call.price, trial |-> FALSE]

InsertVersion(c) ==
  LET call == calls[c]
      v    == call.version + 1
  IN /\ At(c, "update")
     /\ ~InPlace(call)
     /\ v \in Versions
     /\ IF offers[v] # None
        THEN Goto(c, Over("conflict")) /\ UNCHANGED offers
        ELSE /\ offers' = [offers EXCEPT ![v] = NextVersion(call)]
             /\ Goto(c, Over("done"))
     /\ UNCHANGED <<mappings, stripe, sales, past>>

-----------------------------------------------------------------------------
(* setLifecycle                                                            *)

SetLifecycle(c) ==
  \E v \in Existing, s \in {"ACTIVE", "RETIRED"} :
    /\ At(c, "idle")
    /\ LET read == offers[v]
           new  == [Idle EXCEPT !.version = v, !.read = read, !.state = s]
       IN  Goto(c, CASE read.state = "DRAFT" /\ s = "ACTIVE"    -> [new EXCEPT !.pc = "sibling"]
                     [] read.state = "ACTIVE" /\ s = "RETIRED"  -> [new EXCEPT !.pc = "retire"]
                     [] OTHER                                   -> Over("refused"))
    /\ UNCHANGED <<offers, mappings, stripe, sales, past>>

\* mutant of Siblings: only newer versions are looked at
SiblingsAfter(v) == {w \in Active : w > v}

Siblings(v) == Active \ {v}

FindSibling(c) ==
  /\ At(c, "sibling")
  /\ Goto(c, IF Siblings(calls[c].version) # {} THEN Over("conflict")
             ELSE [calls[c] EXCEPT !.pc = "promote"])
  /\ UNCHANGED <<offers, mappings, stripe, sales, past>>

\* The write is by id; the state it was allowed from is not looked at again.
WriteState(c) ==
  LET call == calls[c]
      v    == call.version
  IN /\ calls[c].pc \in {"promote", "retire"}
     /\ offers' = [offers EXCEPT ![v].state = call.state]
     /\ past' = [past EXCEPT
                  !.line   = IF \E s \in LifecycleStates : <<v, s>> \in call.late
                             THEN @ \cup {v} ELSE @,
                  !.double = @ \/ (/\ call.state = "ACTIVE"
                                   /\ \E w \in Versions \ {v} : <<w, "ACTIVE">> \in call.late)]
     /\ GotoAndTell(c, Over("done"), <<v, call.state>>)
     /\ UNCHANGED <<mappings, stripe, sales>>

-----------------------------------------------------------------------------
(* syncOfferPrices: run by hand, over the offers that are live as it       *)
(* starts.                                                                 *)

SyncOfferPrices(c) ==
  /\ At(c, "idle")
  /\ Goto(c, [Idle EXCEPT !.pc = "provision",
                          !.todo = {<<v, offers[v].price>> : v \in Active}])
  /\ UNCHANGED <<offers, mappings, stripe, sales, past>>

NextOffer(c) ==
  /\ At(c, "provision")
  /\ IF calls[c].todo = {} THEN Goto(c, Over("done"))
     ELSE \E o \in calls[c].todo :
            Goto(c, [calls[c] EXCEPT
                       !.todo = @ \ {o}, !.version = o[1], !.price = o[2],
                       !.pc = IF mappings[o[1]] # None THEN @ ELSE "price"])
  /\ UNCHANGED <<offers, mappings, stripe, sales, past>>

\* Stripe answers a repeated idempotency key with the price it made, and
\* refuses one that comes with another amount.
CreatePrice(c) ==
  LET call == calls[c] IN
    /\ At(c, "price")
    /\ IF stripe[call.version] \in {None, call.price}
       THEN /\ stripe' = [stripe EXCEPT ![call.version] = call.price]
            /\ Goto(c, [call EXCEPT !.pc = "record"])
       ELSE Goto(c, Over("failed")) /\ UNCHANGED stripe
    /\ UNCHANGED <<offers, mappings, sales, past>>

\* One mapping per version: the second insert fails, and the run with it.
RecordMapping(c) ==
  LET call == calls[c] IN
    /\ At(c, "record")
    /\ IF mappings[call.version] # None
       THEN Goto(c, Over("failed")) /\ UNCHANGED mappings
       ELSE /\ mappings' = [mappings EXCEPT ![call.version] = call.price]
            /\ Goto(c, [call EXCEPT !.pc = "provision"])
    /\ UNCHANGED <<offers, stripe, sales, past>>

-----------------------------------------------------------------------------
(* A sale.                                                                 *)

\* assertSellable, as a conversion calls it.
AssertSellable(c) ==
  \E v \in Existing :
    /\ At(c, "idle")
    /\ Goto(c, IF v \in Active
               THEN [Idle EXCEPT !.pc = "freeze", !.version = v, !.read = offers[v]]
               ELSE Over("refused"))
    /\ UNCHANGED <<offers, mappings, stripe, sales, past>>

\* mutant of Snapshot: the terms are taken from the newest version
SnapshotOfNewest(call) ==
  [version |-> call.version, price |-> offers[Max(Existing)].price,
   trial |-> call.read.trial, billed |-> mappings[call.version]]

\* The OfferSnapshot row, with the price mapping found for it.
Snapshot(call) ==
  [version |-> call.version, price |-> call.read.price, trial |-> call.read.trial,
   billed |-> mappings[call.version]]

Freeze(c) ==
  /\ At(c, "freeze")
  /\ sales' = sales \cup {Snapshot(calls[c])}
  /\ Goto(c, Over("done"))
  /\ UNCHANGED <<offers, mappings, stripe, past>>

Crash(c) ==
  /\ calls[c].pc \in Working
  /\ Goto(c, Over("crashed"))
  /\ UNCHANGED <<offers, mappings, stripe, sales, past>>

Step(c) ==
  \/ Update(c) \/ EditInPlace(c) \/ InsertVersion(c)
  \/ SetLifecycle(c) \/ FindSibling(c) \/ WriteState(c)
  \/ SyncOfferPrices(c) \/ NextOffer(c) \/ CreatePrice(c) \/ RecordMapping(c)
  \/ AssertSellable(c) \/ Freeze(c) \/ Crash(c)

Next == \E c \in Calls : Step(c)

Spec == Init /\ [][Next]_vars

-----------------------------------------------------------------------------
(* Properties.                                                             *)

TypesHold ==
  /\ offers \in [Versions -> Offer \cup {None}]
  /\ mappings \in [Versions -> Prices \cup {None}]
  /\ stripe \in [Versions -> Prices \cup {None}]
  /\ sales \subseteq [version : Versions, price : Prices, trial : BOOLEAN,
                      billed : Prices \cup {None}]

\* At most one version of a key is sellable, unless two were promoted at once
\* and neither saw the other (OfferService.setLifecycle).
OneIsSellable == past.double \/ Cardinality(Active) <= 1

Rank == [DRAFT |-> 1, ACTIVE |-> 2, RETIRED |-> 3]

\* At every step a version only goes from DRAFT to ACTIVE to RETIRED, unless two
\* changes of its state overlapped; and the terms of a live version never change,
\* unless they were edited as those of a draft that went live under the edit
\* (OfferService.setLifecycle, OfferService.update).
GoesForward ==
  \A v \in Existing :
    /\ v \notin past'.line => Rank[offers'[v].state] >= Rank[offers[v].state]
    /\ v \notin past'.terms /\ v \in Active => offers'[v].price = offers[v].price

\* What a client is billed is what its snapshot says it bought, unless the terms
\* of its version slipped while it was live or a version was brought back
\* (convert, syncOfferPrices).
BilledAsSold ==
  \A s \in sales :
    s.billed \in {None, s.price} \/ s.version \in past.terms \cup past.line
=============================================================================
