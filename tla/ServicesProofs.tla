--------------------------- MODULE ServicesProofs ---------------------------
(***************************************************************************)
(* Proofs about Services: its invariants for any number of requests,       *)
(* offers, leads, links, clients and rows.  Each component has its         *)
(* inductive invariant; at the end the steps of the whole are those of its *)
(* part.                                                                   *)
(***************************************************************************)
EXTENDS Services, Integers, Sequences, FiniteSetTheorems, SequenceTheorems,
        WellFoundedInduction, TLAPS

-----------------------------------------------------------------------------
(* What is billed is what was sold (OfferCatalog).                        *)

\* The component counts as its library does.
LEMMA OffersCount == \A S : Offers!Cardinality(S) = Cardinality(S)
BY DEF Offers!Cardinality, Cardinality

\* What is known of a request to the catalog.
OfferCall == [pc : Offers!Working \cup {"idle", "done", "conflict", "refused", "failed",
                 "crashed"},
              version : Offers!Versions \cup {None}, read : Offers!Offer \cup {None},
              price : Prices \cup {None}, state : {"ACTIVE", "RETIRED", None},
              todo : SUBSET (Offers!Versions \X Prices),
                late : SUBSET (Offers!Versions \X Offers!LifecycleStates)]

\* A request has what its next statement works with.
Aimed(c) ==
  /\ calls[c].pc \in {"update", "sibling", "promote", "retire", "freeze"} =>
       calls[c].version \in Offers!Existing /\ calls[c].read \in Offers!Offer
  /\ calls[c].pc = "update" => calls[c].price \in Prices
  /\ calls[c].pc \in {"sibling", "promote"} =>
       calls[c].state = "ACTIVE" /\ calls[c].read.state = "DRAFT"
  /\ calls[c].pc = "retire" => calls[c].state = "RETIRED" /\ calls[c].read.state = "ACTIVE"
  /\ calls[c].pc \in {"price", "record"} =>
       calls[c].version \in Offers!Versions /\ calls[c].price \in Prices

\* What a request read still holds, or it was told of what was written since.
Informed(c) ==
  LET v    == calls[c].version
      late == calls[c].late
      read == calls[c].read
  IN  /\ calls[c].pc \in {"sibling", "promote", "retire"} =>
           \/ \E s \in Offers!LifecycleStates : <<v, s>> \in late
           \/ offers[v].state = read.state
      /\ calls[c].pc = "promote" => \A w \in Offers!Active \ {v} : <<w, "ACTIVE">> \in late
      /\ calls[c].pc = "update" /\ v \in Offers!Active /\ <<v, "ACTIVE">> \notin late =>
           read.state = "ACTIVE" /\ (v \notin past.terms => read.price = offers[v].price)

\* A price somebody was told for a version, or is about to be.
IsQuote(v, p) ==
  \/ stripe[v] = p \/ mappings[v] = p
  \/ \E s \in sales : s.version = v /\ (s.price = p \/ s.billed = p)
  \/ \E c \in Trio :
       \/ <<v, p>> \in calls[c].todo
       \/ calls[c].pc \in {"price", "record"} /\ calls[c].version = v /\ calls[c].price = p
       \/ calls[c].pc = "freeze" /\ calls[c].version = v /\ calls[c].read.price = p

\* The quotes of a version are one, that of its live terms; a draft has none.
QuotesAgree(v) ==
  /\ \A p, q \in Prices : IsQuote(v, p) /\ IsQuote(v, q) => p = q
  /\ \A p \in Prices : IsQuote(v, p) =>
       /\ v \in Offers!Existing /\ offers[v].state # "DRAFT"
       /\ offers[v].state = "ACTIVE" => offers[v].price = p

\* The inductive invariant.
OffersInductive ==
  /\ Offers!TypesHold
  /\ calls \in [Trio -> OfferCall]
  /\ past \in [terms : SUBSET Offers!Versions, line : SUBSET Offers!Versions, double : BOOLEAN]
  /\ \A c \in Trio : Aimed(c) /\ Informed(c)
  /\ ~past.double => \A u, w \in Offers!Active : u = w
  /\ \A v \in Offers!Versions : v \notin past.terms \cup past.line => QuotesAgree(v)

-----------------------------------------------------------------------------

LEMMA IdleOffer ==
  /\ Offers!Idle \in OfferCall /\ Offers!Idle.pc = "idle" /\ Offers!Idle.version = None
     /\ Offers!Idle.read = None
  /\ Offers!Idle.price = None /\ Offers!Idle.state = None /\ Offers!Idle.todo = {}
     /\ Offers!Idle.late = {}
BY DEF Offers!Idle, OfferCall

LEMMA OffersBegin == ASSUME OffersFit, Offers!Init PROVE OffersInductive
<1>1. Offers!Idle \in OfferCall /\ Offers!Idle.pc = "idle" /\ Offers!Idle.todo = {}
  BY DEF Offers!Idle, OfferCall
<1>2. \A c \in Trio : calls[c] = Offers!Idle  BY DEF Offers!Init
<1>3. PICK p \in Prices, s \in {"DRAFT", "ACTIVE"}, trial \in BOOLEAN :
        offers = [v \in Offers!Versions |->
                    IF v = 1 THEN [state |-> s, price |-> p, trial |-> trial] ELSE None]
  BY DEF Offers!Init
<1>4. [state |-> s, price |-> p, trial |-> trial] \in Offers!Offer
  BY <1>3 DEF Offers!Offer, Offers!LifecycleStates
<1>5. Offers!TypesHold  BY <1>3, <1>4 DEF Offers!Init, Offers!TypesHold
<1>6. calls \in [Trio -> OfferCall]  BY <1>1 DEF Offers!Init
<1>7. ASSUME NEW c \in Trio PROVE Aimed(c) /\ Informed(c)
  <2>1. calls[c].pc = "idle"  BY <1>1, <1>2
  <2>2. calls[c].pc \notin {"update", "sibling", "promote", "retire", "freeze", "price",
          "record"}
    BY <2>1
  <2>3. Aimed(c) /\ Informed(c)  BY <2>2 DEF Aimed, Informed
  <2> QED  BY <2>3
<1>8. \A u, w \in Offers!Active : u = w  BY <1>3 DEF Offers!Active, Offers!Existing
<1>9. \A v \in Offers!Versions, q \in Prices : ~IsQuote(v, q)
  BY <1>1, <1>2 DEF IsQuote, Offers!Init, OffersFit
<1> QED  BY <1>5, <1>6, <1>7, <1>8, <1>9 DEF OffersInductive, QuotesAgree, Offers!Init

LEMMA GoesTo ==
  ASSUME OffersInductive, NEW c \in Trio, NEW r \in OfferCall, Offers!Goto(c, r)
  PROVE  /\ calls' \in [Trio -> OfferCall] /\ calls'[c] = r
         /\ \A d \in Trio : d # c => calls'[d] = calls[d]
BY DEF Offers!Goto, OffersInductive

LEMMA OverIsTyped ==
  ASSUME NEW o \in {"done", "conflict", "refused", "failed", "crashed"}
  PROVE  Offers!Over(o) \in OfferCall /\ Offers!Over(o).pc = o /\ Offers!Over(o).todo = {}
BY DEF Offers!Over, Offers!Idle, OfferCall

LEMMA QuotesStay ==
  ASSUME NEW v \in Offers!Versions, QuotesAgree(v), offers'[v] = offers[v],
         \A p \in Prices : IsQuote(v, p)' =>
           IsQuote(v, p) \/ (v \in Offers!Active /\ p = offers[v].price)
  PROVE  QuotesAgree(v)'
<1>1. v \in Offers!Existing <=> v \in Offers!Existing'  BY DEF Offers!Existing
<1> QED  BY <1>1 DEF QuotesAgree, Offers!Active

\* A step that leaves the catalog alone.
LEMMA ReadingKeepsOffers ==
  ASSUME OffersInductive, NEW c \in Trio, NEW r \in OfferCall, Offers!Goto(c, r),
         UNCHANGED <<offers, past>>, Offers!TypesHold',
         Aimed(c)', Informed(c)',
         \A v \in Offers!Versions, p \in Prices :
           IsQuote(v, p)' => IsQuote(v, p) \/ (v \in Offers!Active /\ p = offers[v].price)
  PROVE  OffersInductive'
<1>1. /\ calls' \in [Trio -> OfferCall] /\ calls'[c] = r
      /\ \A d \in Trio : d # c => calls'[d] = calls[d]
  BY GoesTo
<1>2. Offers!Active' = Offers!Active /\ Offers!Existing' = Offers!Existing
  BY DEF Offers!Active, Offers!Existing
<1>3. ASSUME NEW d \in Trio PROVE Aimed(d)' /\ Informed(d)'
  <2>1. CASE d = c  BY <2>1
  <2>2. CASE d # c
    <3>1. calls'[d] = calls[d] /\ Aimed(d) /\ Informed(d)  BY <1>1, <2>2 DEF OffersInductive
    <3>2. Aimed(d)'  BY <1>2, <3>1 DEF Aimed
    <3>3. Informed(d)'  BY <1>2, <3>1 DEF Informed
    <3> QED  BY <3>2, <3>3
  <2> QED  BY <2>1, <2>2
<1>4. ASSUME NEW v \in Offers!Versions, v \notin past'.terms \cup past'.line
      PROVE  QuotesAgree(v)'
  BY <1>4, QuotesStay DEF OffersInductive
<1> QED  BY <1>1, <1>2, <1>3, <1>4 DEF OffersInductive

\* Such a step of a request that has nothing to tell anybody of.
LEMMA QuietKeepsOffers ==
  ASSUME OffersInductive, NEW c \in Trio, NEW r \in OfferCall, Offers!Goto(c, r),
         r.pc \notin {"price", "record", "freeze"}, r.todo \subseteq calls[c].todo,
         UNCHANGED <<offers, mappings, stripe, sales, past>>,
         Aimed(c)', Informed(c)'
  PROVE  OffersInductive'
<1>1. /\ calls'[c] = r /\ \A d \in Trio : d # c => calls'[d] = calls[d]
  BY GoesTo
<1>2. \A v \in Offers!Versions, p \in Prices : IsQuote(v, p)' => IsQuote(v, p)
  BY <1>1 DEF IsQuote
<1>3. Offers!TypesHold'  BY DEF OffersInductive, Offers!TypesHold
<1> QED  BY <1>2, <1>3, ReadingKeepsOffers

LEMMA EndKeepsOffers ==
  ASSUME OffersInductive, NEW c \in Trio,
         NEW o \in {"done", "conflict", "refused", "failed", "crashed"},
         Offers!Goto(c, Offers!Over(o)),
         UNCHANGED <<offers, mappings, stripe, sales, past>>
  PROVE  OffersInductive'
<1>1. Offers!Over(o) \in OfferCall /\ Offers!Over(o).pc = o /\ Offers!Over(o).todo = {}
  BY OverIsTyped
<1>2. calls'[c] = Offers!Over(o)  BY <1>1, GoesTo
<1>3. Aimed(c)' /\ Informed(c)'  BY <1>1, <1>2 DEF Aimed, Informed
<1>4. Offers!Over(o).todo \subseteq calls[c].todo  BY <1>1
<1> HIDE DEF Offers!Over
<1> QED  BY <1>1, <1>3, <1>4, QuietKeepsOffers

-----------------------------------------------------------------------------

LEMMA UpdateKeepsOffers ==
  ASSUME OffersInductive, NEW c \in Trio, Offers!Update(c)
  PROVE  OffersInductive'
<1>1. PICK v \in Offers!Existing, p \in Prices :
        Offers!Goto(c, [Offers!Idle EXCEPT !.pc = "update", !.version = v, !.read = offers[v],
          !.price = p])
  BY DEF Offers!Update
<1> DEFINE r == [Offers!Idle EXCEPT !.pc = "update", !.version = v, !.read = offers[v],
             !.price = p]
<1>2. Offers!Goto(c, r)  BY <1>1
<1>3. v \in Offers!Versions /\ offers[v] \in Offers!Offer
  BY DEF Offers!Existing, OffersInductive, Offers!TypesHold
<1>4. r \in OfferCall  BY <1>3, IdleOffer DEF OfferCall, Offers!Working
<1>5. /\ r.pc = "update" /\ r.version = v /\ r.read = offers[v] /\ r.price = p
      /\ r.todo = {} /\ r.late = {}
  BY IdleOffer DEF OfferCall
<1> HIDE DEF r
<1>6. calls'[c] = r /\ UNCHANGED <<offers, mappings, stripe, sales, past>>
  BY <1>2, <1>4, GoesTo DEF Offers!Update
<1>7. Aimed(c)'  BY <1>3, <1>5, <1>6 DEF Aimed, Offers!Existing
<1>8. Informed(c)'  BY <1>3, <1>5, <1>6 DEF Informed, Offers!Active
<1> QED  BY <1>2, <1>4, <1>5, <1>6, <1>7, <1>8, QuietKeepsOffers

LEMMA SetLifecycleKeepsOffers ==
  ASSUME OffersInductive, NEW c \in Trio, Offers!SetLifecycle(c) PROVE OffersInductive'
<1>1. PICK v \in Offers!Existing, s \in {"ACTIVE", "RETIRED"} :
        LET read == offers[v]
            new  == [Offers!Idle EXCEPT !.version = v, !.read = read, !.state = s]
        IN  Offers!Goto(c, CASE read.state = "DRAFT" /\ s = "ACTIVE"
                         -> [new EXCEPT !.pc = "sibling"]
                      [] read.state = "ACTIVE" /\ s = "RETIRED"  -> [new EXCEPT !.pc = "retire"]
                      [] OTHER                                   -> Offers!Over("refused"))
  BY DEF Offers!SetLifecycle
<1> DEFINE r(pc) == [pc |-> pc, version |-> v, read |-> offers[v], price |-> None,
                     state |-> s, todo |-> {}, late |-> {}]
<1>2. UNCHANGED <<offers, mappings, stripe, sales, past>>  BY DEF Offers!SetLifecycle
<1>3. v \in Offers!Versions /\ offers[v] \in Offers!Offer
  BY DEF Offers!Existing, OffersInductive, Offers!TypesHold
<1>4. ASSUME NEW pc \in {"sibling", "retire"}, Offers!Goto(c, r(pc)),
             pc = "sibling" => s = "ACTIVE" /\ offers[v].state = "DRAFT",
             pc = "retire" => s = "RETIRED" /\ offers[v].state = "ACTIVE"
      PROVE  OffersInductive'
  <2>1. r(pc) \in OfferCall  BY <1>3, <1>4 DEF OfferCall, Offers!Working
  <2>2. /\ r(pc).pc = pc /\ r(pc).version = v /\ r(pc).read = offers[v]
        /\ r(pc).state = s /\ r(pc).todo = {} /\ r(pc).late = {}
    OBVIOUS
  <2> HIDE DEF r
  <2>3. calls'[c] = r(pc)  BY <1>4, <2>1, GoesTo
  <2>4. Aimed(c)'  BY <1>2, <1>3, <1>4, <2>2, <2>3 DEF Aimed, Offers!Existing
  <2>5. Informed(c)'  BY <1>2, <1>4, <2>2, <2>3 DEF Informed
  <2> QED  BY <1>2, <1>4, <2>1, <2>2, <2>4, <2>5, QuietKeepsOffers
<1>5. CASE offers[v].state = "DRAFT" /\ s = "ACTIVE"
  <2>1. Offers!Goto(c, r("sibling"))  BY <1>1, <1>5 DEF Offers!Idle
  <2> HIDE DEF r
  <2> QED  BY <1>4, <1>5, <2>1
<1>6. CASE offers[v].state = "ACTIVE" /\ s = "RETIRED"
  <2>1. Offers!Goto(c, r("retire"))  BY <1>1, <1>6 DEF Offers!Idle
  <2> HIDE DEF r
  <2> QED  BY <1>4, <1>6, <2>1
<1>7. CASE ~(offers[v].state = "DRAFT" /\ s = "ACTIVE") /\ ~(offers[v].state = "ACTIVE"
             /\ s = "RETIRED")
  <2>1. Offers!Goto(c, Offers!Over("refused"))  BY <1>1, <1>7
  <2> QED  BY <1>2, <2>1, EndKeepsOffers
<1> QED  BY <1>5, <1>6, <1>7

LEMMA FindSiblingKeepsOffers ==
  ASSUME OffersInductive, NEW c \in Trio, Offers!FindSibling(c) PROVE OffersInductive'
<1>1. UNCHANGED <<offers, mappings, stripe, sales, past>> /\ calls[c].pc = "sibling"
  BY DEF Offers!FindSibling, Offers!At
<1>2. CASE Offers!Siblings(calls[c].version) # {}
  <2>1. Offers!Goto(c, Offers!Over("conflict"))  BY <1>2 DEF Offers!FindSibling
  <2> QED  BY <1>1, <2>1, EndKeepsOffers
<1>3. CASE Offers!Siblings(calls[c].version) = {}
  <2> DEFINE r == [calls[c] EXCEPT !.pc = "promote"]
  <2>1. Offers!Goto(c, r)  BY <1>3 DEF Offers!FindSibling
  <2>2. r \in OfferCall /\ r = [pc |-> "promote", version |-> calls[c].version,
                                   read |-> calls[c].read,
                                price |-> calls[c].price, state |-> calls[c].state,
                                todo |-> calls[c].todo, late |-> calls[c].late]
    BY DEF OffersInductive, OfferCall, Offers!Working
  <2> HIDE DEF r
  <2>3. calls'[c] = r  BY <2>1, <2>2, GoesTo
  <2>4. Aimed(c)'  BY <1>1, <2>2, <2>3 DEF OffersInductive, Aimed, Offers!Existing
  <2>5. Informed(c)'
    <3>1. Informed(c) /\ Offers!Active' = Offers!Active
            /\ Offers!Active \ {calls[c].version} = {}
      BY <1>1, <1>3 DEF OffersInductive, Offers!Active, Offers!Existing, Offers!Siblings
    <3> QED  BY <1>1, <2>2, <2>3, <3>1 DEF Informed
  <2> QED  BY <1>1, <2>1, <2>2, <2>4, <2>5, QuietKeepsOffers
<1> QED  BY <1>2, <1>3

LEMMA SyncKeepsOffers ==
  ASSUME OffersInductive, NEW c \in Trio, Offers!SyncOfferPrices(c) PROVE OffersInductive'
<1> DEFINE todo == {<<v, offers[v].price>> : v \in Offers!Active}
           r == [Offers!Idle EXCEPT !.pc = "provision", !.todo = todo]
<1>1. Offers!Goto(c, r) /\ UNCHANGED <<offers, mappings, stripe, sales, past>>
  BY DEF Offers!SyncOfferPrices
<1>2. \A v \in Offers!Active : v \in Offers!Versions /\ offers[v] \in Offers!Offer
        /\ offers[v].price \in Prices
  BY DEF Offers!Active, Offers!Existing, Offers!Offer, OffersInductive, Offers!TypesHold
<1>3. todo \in SUBSET (Offers!Versions \X Prices) /\ \A v, p : <<v, p>> \in todo
        => v \in Offers!Active /\ p = offers[v].price
  BY <1>2
<1> HIDE DEF todo
<1>4. r \in OfferCall /\ r.pc = "provision" /\ r.todo = todo
  BY <1>3, IdleOffer DEF OfferCall, Offers!Working
<1> HIDE DEF r
<1>5. calls'[c] = r /\ \A d \in Trio : d # c => calls'[d] = calls[d]  BY <1>1, <1>4, GoesTo
<1>6. Aimed(c)' /\ Informed(c)'  BY <1>4, <1>5 DEF Aimed, Informed
<1>7. \A v \in Offers!Versions, p \in Prices :
        IsQuote(v, p)' => IsQuote(v, p) \/ (v \in Offers!Active /\ p = offers[v].price)
  BY <1>1, <1>3, <1>4, <1>5 DEF IsQuote
<1>8. Offers!TypesHold'  BY <1>1 DEF OffersInductive, Offers!TypesHold
<1> QED  BY <1>1, <1>4, <1>6, <1>7, <1>8, ReadingKeepsOffers

LEMMA OfferCallIsTyped == ASSUME OffersInductive, NEW c \in Trio PROVE calls[c] \in OfferCall
BY DEF OffersInductive

LEMMA NextOfferKeepsOffers ==
  ASSUME OffersInductive, NEW c \in Trio, Offers!NextOffer(c) PROVE OffersInductive'
<1>1. calls[c].pc = "provision" /\ UNCHANGED <<offers, mappings, stripe, sales, past>>
  BY DEF Offers!NextOffer, Offers!At
<1>2. CASE calls[c].todo = {}
  <2>1. Offers!Goto(c, Offers!Over("done"))  BY <1>2 DEF Offers!NextOffer
  <2> QED  BY <1>1, <2>1, EndKeepsOffers
<1>3. CASE calls[c].todo # {}
  <2>1. PICK o \in calls[c].todo :
          Offers!Goto(c, [calls[c] EXCEPT !.todo = @ \ {o}, !.version = o[1], !.price = o[2],
                                          !.pc = IF mappings[o[1]] # None THEN @ ELSE "price"])
    BY <1>3 DEF Offers!NextOffer
  <2>2. o \in Offers!Versions \X Prices /\ o = <<o[1], o[2]>>  BY OfferCallIsTyped DEF OfferCall
  <2> DEFINE pc == IF mappings[o[1]] # None THEN "provision" ELSE "price"
             todo == calls[c].todo \ {o}
             r == [calls[c] EXCEPT !.todo = todo, !.version = o[1], !.price = o[2], !.pc = pc]
  <2>3. Offers!Goto(c, r)  BY <1>1, <2>1
  <2>4. pc \in {"provision", "price"} /\ todo \in SUBSET (Offers!Versions \X Prices) /\ todo
          \subseteq calls[c].todo
    BY OfferCallIsTyped DEF OfferCall
  <2> HIDE DEF pc, todo
  <2>5. /\ r \in OfferCall /\ r.pc = pc /\ r.todo = todo /\ r.version = o[1] /\ r.price = o[2]
    BY <2>2, <2>4, OfferCallIsTyped DEF OfferCall, Offers!Working
  <2> HIDE DEF r
  <2>6. calls'[c] = r /\ \A d \in Trio : d # c => calls'[d] = calls[d]  BY <2>3, <2>5, GoesTo
  <2>7. Aimed(c)'  BY <2>2, <2>4, <2>5, <2>6 DEF Aimed
  <2>8. Informed(c)'  BY <2>4, <2>5, <2>6 DEF Informed
  <2>9. ASSUME NEW v \in Offers!Versions, NEW p \in Prices, IsQuote(v, p)' PROVE IsQuote(v, p)
    <3>1. calls'[c].pc # "freeze" /\ (<<v, p>> \in calls'[c].todo => <<v, p>> \in calls[c].todo)
      BY <2>4, <2>5, <2>6
    <3>2. calls'[c].version = v /\ calls'[c].price = p => <<v, p>> \in calls[c].todo
      BY <2>2, <2>5, <2>6
    <3> QED  BY <1>1, <2>6, <2>9, <3>1, <3>2 DEF IsQuote
  <2>10. Offers!TypesHold'  BY <1>1 DEF OffersInductive, Offers!TypesHold
  <2> QED  BY <1>1, <2>3, <2>5, <2>7, <2>8, <2>9, <2>10, ReadingKeepsOffers
<1> QED  BY <1>2, <1>3

LEMMA CreatePriceKeepsOffers ==
  ASSUME OffersInductive, NEW c \in Trio, Offers!CreatePrice(c) PROVE OffersInductive'
<1>1. calls[c].pc = "price" /\ UNCHANGED <<offers, mappings, sales, past>>
  BY DEF Offers!CreatePrice, Offers!At
<1> DEFINE v0 == calls[c].version
           p0 == calls[c].price
<1>2. CASE stripe[v0] \notin {None, p0}
  <2>1. Offers!Goto(c, Offers!Over("failed")) /\ UNCHANGED stripe
    BY <1>2 DEF Offers!CreatePrice
  <2> QED  BY <1>1, <2>1, EndKeepsOffers
<1>3. CASE stripe[v0] \in {None, p0}
  <2> DEFINE r == [calls[c] EXCEPT !.pc = "record"]
  <2>1. Offers!Goto(c, r) /\ stripe' = [stripe EXCEPT ![v0] = p0]
    BY <1>3 DEF Offers!CreatePrice
  <2>2. r \in OfferCall /\ r.pc = "record" /\ r.todo = calls[c].todo /\ r.version = v0
          /\ r.price = p0
    BY OfferCallIsTyped DEF OfferCall, Offers!Working
  <2> HIDE DEF r
  <2>3. calls'[c] = r /\ \A d \in Trio : d # c => calls'[d] = calls[d]  BY <2>1, <2>2, GoesTo
  <2>4. v0 \in Offers!Versions /\ p0 \in Prices  BY <1>1 DEF OffersInductive, Aimed
  <2>5. Aimed(c)' /\ Informed(c)'  BY <2>2, <2>3, <2>4 DEF Aimed, Informed
  <2>6. Offers!TypesHold'  BY <1>1, <2>1, <2>4 DEF OffersInductive, Offers!TypesHold
  <2>7. ASSUME NEW v \in Offers!Versions, NEW p \in Prices, IsQuote(v, p)' PROVE IsQuote(v, p)
    <3>1. stripe'[v] = p => stripe[v] = p \/ (v = v0 /\ p = p0)
      BY <2>1 DEF OffersInductive, Offers!TypesHold
    <3>2. v = v0 /\ p = p0 => IsQuote(v, p)  BY <1>1 DEF IsQuote
    <3> HIDE DEF v0, p0
    <3>3. calls'[c].version = v /\ calls'[c].price = p => IsQuote(v, p)  BY <2>2, <2>3, <3>2
    <3>4. stripe'[v] = p => IsQuote(v, p)  BY <3>1, <3>2 DEF IsQuote
    <3> QED  BY <1>1, <2>2, <2>3, <2>7, <3>3, <3>4 DEF IsQuote
  <2> QED  BY <1>1, <2>1, <2>2, <2>5, <2>6, <2>7, ReadingKeepsOffers
<1> QED  BY <1>2, <1>3

LEMMA RecordMappingKeepsOffers ==
  ASSUME OffersInductive, NEW c \in Trio, Offers!RecordMapping(c) PROVE OffersInductive'
<1>1. calls[c].pc = "record" /\ UNCHANGED <<offers, stripe, sales, past>>
  BY DEF Offers!RecordMapping, Offers!At
<1> DEFINE v0 == calls[c].version
           p0 == calls[c].price
<1>2. CASE mappings[v0] # None
  <2>1. Offers!Goto(c, Offers!Over("failed")) /\ UNCHANGED mappings
    BY <1>2 DEF Offers!RecordMapping
  <2> QED  BY <1>1, <2>1, EndKeepsOffers
<1>3. CASE mappings[v0] = None
  <2> DEFINE r == [calls[c] EXCEPT !.pc = "provision"]
  <2>1. Offers!Goto(c, r) /\ mappings' = [mappings EXCEPT ![v0] = p0]
    BY <1>3 DEF Offers!RecordMapping
  <2>2. r \in OfferCall /\ r.pc = "provision" /\ r.todo = calls[c].todo
    BY OfferCallIsTyped DEF OfferCall, Offers!Working
  <2> HIDE DEF r
  <2>3. calls'[c] = r /\ \A d \in Trio : d # c => calls'[d] = calls[d]  BY <2>1, <2>2, GoesTo
  <2>4. v0 \in Offers!Versions /\ p0 \in Prices  BY <1>1 DEF OffersInductive, Aimed
  <2>5. Aimed(c)' /\ Informed(c)'  BY <2>2, <2>3 DEF Aimed, Informed
  <2>6. Offers!TypesHold'  BY <1>1, <2>1, <2>4 DEF OffersInductive, Offers!TypesHold
  <2>7. ASSUME NEW v \in Offers!Versions, NEW p \in Prices, IsQuote(v, p)' PROVE IsQuote(v, p)
    <3>1. mappings'[v] = p => mappings[v] = p \/ (v = v0 /\ p = p0)
      BY <2>1 DEF OffersInductive, Offers!TypesHold
    <3>2. v = v0 /\ p = p0 => IsQuote(v, p)  BY <1>1 DEF IsQuote
    <3> HIDE DEF v0, p0
    <3>3. mappings'[v] = p => IsQuote(v, p)  BY <3>1, <3>2 DEF IsQuote
    <3> QED  BY <1>1, <2>2, <2>3, <2>7, <3>3 DEF IsQuote
  <2> QED  BY <1>1, <2>1, <2>2, <2>5, <2>6, <2>7, ReadingKeepsOffers
<1> QED  BY <1>2, <1>3

LEMMA AssertSellableKeepsOffers ==
  ASSUME OffersInductive, NEW c \in Trio, Offers!AssertSellable(c) PROVE OffersInductive'
<1>1. UNCHANGED <<offers, mappings, stripe, sales, past>>  BY DEF Offers!AssertSellable
<1>2. PICK v \in Offers!Existing :
        Offers!Goto(c, IF v \in Offers!Active
                       THEN [Offers!Idle EXCEPT !.pc = "freeze", !.version = v,
                         !.read = offers[v]]
                       ELSE Offers!Over("refused"))
  BY DEF Offers!AssertSellable
<1>3. CASE v \notin Offers!Active
  <2>1. Offers!Goto(c, Offers!Over("refused"))  BY <1>2, <1>3
  <2> QED  BY <1>1, <2>1, EndKeepsOffers
<1>4. CASE v \in Offers!Active
  <2> DEFINE r == [Offers!Idle EXCEPT !.pc = "freeze", !.version = v, !.read = offers[v]]
  <2>1. Offers!Goto(c, r)  BY <1>2, <1>4
  <2>2. v \in Offers!Versions /\ offers[v] \in Offers!Offer
    BY DEF Offers!Existing, OffersInductive, Offers!TypesHold
  <2>3. r \in OfferCall /\ r.pc = "freeze" /\ r.version = v /\ r.read = offers[v] /\ r.todo = {}
    BY <2>2, IdleOffer DEF OfferCall, Offers!Working
  <2> HIDE DEF r
  <2>4. calls'[c] = r /\ \A d \in Trio : d # c => calls'[d] = calls[d]  BY <2>1, <2>3, GoesTo
  <2>5. Aimed(c)'  BY <1>1, <2>2, <2>3, <2>4 DEF Aimed, Offers!Existing
  <2>6. Informed(c)'  BY <2>3, <2>4 DEF Informed
  <2>7. ASSUME NEW w \in Offers!Versions, NEW p \in Prices, IsQuote(w, p)'
        PROVE  IsQuote(w, p) \/ (w \in Offers!Active /\ p = offers[w].price)
    <3>1. <<w, p>> \notin calls'[c].todo /\ calls'[c].pc \notin {"price", "record"}
      BY <2>3, <2>4
    <3>2. calls'[c].version = w /\ calls'[c].read.price = p =>
            w \in Offers!Active /\ p = offers[w].price
      BY <1>4, <2>3, <2>4
    <3> QED  BY <1>1, <2>4, <2>7, <3>1, <3>2 DEF IsQuote
  <2>8. Offers!TypesHold'  BY <1>1 DEF OffersInductive, Offers!TypesHold
  <2> QED  BY <1>1, <2>1, <2>3, <2>5, <2>6, <2>7, <2>8, ReadingKeepsOffers
<1> QED  BY <1>3, <1>4

LEMMA FreezeKeepsOffers ==
  ASSUME OffersInductive, NEW c \in Trio, Offers!Freeze(c) PROVE OffersInductive'
<1> DEFINE s == Offers!Snapshot(calls[c])
<1>1. calls[c].pc = "freeze" /\ UNCHANGED <<offers, mappings, stripe, past>>
        /\ Offers!Goto(c, Offers!Over("done"))
      /\ sales' = sales \cup {s}
  BY DEF Offers!Freeze, Offers!At
<1>2. calls[c].version \in Offers!Versions /\ calls[c].read \in Offers!Offer
  BY <1>1 DEF OffersInductive, Aimed, Offers!Existing
<1>3. s \in [version : Offers!Versions, price : Prices, trial : BOOLEAN, billed : Prices
        \cup {None}]
  BY <1>2 DEF Offers!Snapshot, Offers!Offer, OffersInductive, Offers!TypesHold
<1>4. s.version = calls[c].version /\ s.price = calls[c].read.price
        /\ s.billed = mappings[s.version]
  BY DEF Offers!Snapshot
<1> HIDE DEF s
<1>5. Offers!Over("done") \in OfferCall /\ Offers!Over("done").pc = "done"
        /\ Offers!Over("done").todo = {}
  BY OverIsTyped
<1>6. calls'[c] = Offers!Over("done") /\ \A d \in Trio : d # c => calls'[d] = calls[d]
  BY <1>1, <1>5, GoesTo
<1>7. Aimed(c)' /\ Informed(c)'  BY <1>5, <1>6 DEF Aimed, Informed
<1>8. Offers!TypesHold'  BY <1>1, <1>3 DEF OffersInductive, Offers!TypesHold
<1>9. ASSUME NEW v \in Offers!Versions, NEW p \in Prices, IsQuote(v, p)' PROVE IsQuote(v, p)
  <2>1. s.version = v /\ (s.price = p \/ s.billed = p) => IsQuote(v, p)
    BY <1>1, <1>4 DEF IsQuote
  <2> QED  BY <1>1, <1>5, <1>6, <1>9, <2>1 DEF IsQuote
<1> QED  BY <1>1, <1>5, <1>7, <1>8, <1>9, ReadingKeepsOffers

LEMMA CrashKeepsOffers ==
  ASSUME OffersInductive, NEW c \in Trio, Offers!Crash(c)
  PROVE  OffersInductive'
BY EndKeepsOffers DEF Offers!Crash

-----------------------------------------------------------------------------
(* The writes of the catalog.                                              *)

\* The quotes of a version of which only the terms change, and not while it is live.
LEMMA QuotesKeep ==
  ASSUME NEW v \in Offers!Versions, QuotesAgree(v),
         v \in Offers!Existing <=> v \in Offers!Existing',
         offers'[v].state = offers[v].state,
         v \in Offers!Active => offers'[v].price = offers[v].price,
         \A p \in Prices : IsQuote(v, p)' => IsQuote(v, p)
  PROVE  QuotesAgree(v)'
BY DEF QuotesAgree, Offers!Active

\* The terms of a live version change only when an edit was read before it was live.
LEMMA EditsOfLive ==
  ASSUME OffersInductive, NEW c \in Trio, Offers!EditInPlace(c),
         calls[c].version \in Offers!Active, calls[c].version \notin past'.terms
  PROVE  calls[c].price = offers[calls[c].version].price
<1>1. calls[c].version \in Offers!Versions /\ Informed(c) /\ calls[c].pc = "update"
        /\ Offers!InPlace(calls[c])
  BY DEF OffersInductive, Offers!EditInPlace, Offers!At, Offers!Active, Offers!Existing
<1>2. <<calls[c].version, "ACTIVE">> \notin calls[c].late /\ calls[c].version \notin past.terms
  BY <1>1 DEF Offers!EditInPlace, Offers!Active, OffersInductive
<1> QED  BY <1>1, <1>2 DEF Informed, Offers!InPlace

LEMMA EditInPlaceKeepsOffers ==
  ASSUME OffersFit, OffersInductive, NEW c \in Trio, Offers!EditInPlace(c)
  PROVE  OffersInductive'
<1> DEFINE v0 == calls[c].version
           p0 == calls[c].price
<1>1. /\ calls[c].pc = "update" /\ offers' = [offers EXCEPT ![v0].price = p0]
      /\ Offers!Goto(c, Offers!Over("done")) /\ UNCHANGED <<mappings, stripe, sales>>
  BY DEF Offers!EditInPlace, Offers!At
<1>2. v0 \in Offers!Existing /\ v0 \in Offers!Versions /\ p0 \in Prices
        /\ offers[v0] \in Offers!Offer
  BY <1>1 DEF OffersInductive, Aimed, Offers!Existing, Offers!TypesHold
<1>3. v0 \in Offers!Active /\ v0 \notin past'.terms => p0 = offers[v0].price  BY EditsOfLive
<1>4. /\ past' \in [terms : SUBSET Offers!Versions, line : SUBSET Offers!Versions,
         double : BOOLEAN]
      /\ past'.line = past.line /\ past'.double = past.double /\ past.terms
         \subseteq past'.terms
  BY <1>2 DEF Offers!EditInPlace, OffersInductive
<1>5. Offers!Over("done") \in OfferCall /\ Offers!Over("done").pc = "done"
        /\ Offers!Over("done").todo = {}
  BY OverIsTyped
<1>6. /\ calls' \in [Trio -> OfferCall] /\ calls'[c] = Offers!Over("done")
      /\ \A d \in Trio : d # c => calls'[d] = calls[d]
  BY <1>1, <1>5, GoesTo
<1> HIDE DEF v0, p0
<1>7. /\ offers' \in [Offers!Versions -> Offers!Offer \cup {None}]
      /\ offers'[v0].state = offers[v0].state /\ offers'[v0].price = p0 /\ offers'[v0] # None
      /\ \A v \in Offers!Versions : v # v0 => offers'[v] = offers[v]
  <2> DEFINE o == [offers[v0] EXCEPT !.price = p0]
  <2>1. offers' = [offers EXCEPT ![v0] = o]  BY <1>1
  <2>2. o \in Offers!Offer /\ o.state = offers[v0].state /\ o.price = p0
    BY <1>2 DEF Offers!Offer
  <2> HIDE DEF o
  <2>3. o # None  BY <2>2 DEF OffersFit
  <2> QED  BY <1>2, <2>1, <2>2, <2>3 DEF OffersInductive, Offers!TypesHold
<1>8. Offers!Existing' = Offers!Existing  BY <1>2, <1>7 DEF Offers!Existing
<1>9. Offers!Active' = Offers!Active  BY <1>2, <1>7, <1>8 DEF Offers!Active, Offers!Existing
<1>10. Offers!TypesHold'  BY <1>1, <1>7 DEF OffersInductive, Offers!TypesHold
<1>11. ASSUME NEW d \in Trio PROVE Aimed(d)' /\ Informed(d)'
  <2>1. CASE d = c  BY <1>5, <1>6, <2>1 DEF Aimed, Informed
  <2>2. CASE d # c
    <3>1. calls'[d] = calls[d] /\ Aimed(d) /\ Informed(d)  BY <1>6, <2>2 DEF OffersInductive
    <3>2. Aimed(d)'  BY <1>8, <3>1 DEF Aimed
    <3>3. calls[d].pc \in {"sibling", "promote", "retire"} =>
            offers'[calls[d].version].state = offers[calls[d].version].state
      BY <1>7, <3>1 DEF Aimed, Offers!Existing
    <3>4. calls[d].version \in Offers!Active /\ calls[d].version \notin past'.terms =>
            offers'[calls[d].version].price = offers[calls[d].version].price
      BY <1>3, <1>7 DEF Offers!Active, Offers!Existing
    <3>5. calls[d].version \notin past'.terms => calls[d].version \notin past.terms  BY <1>4
    <3>6. Informed(d)'  BY <1>9, <3>1, <3>3, <3>4, <3>5 DEF Informed
    <3> QED  BY <3>2, <3>6
  <2> QED  BY <2>1, <2>2
<1>12. ASSUME NEW v \in Offers!Versions, NEW p \in Prices, IsQuote(v, p)' PROVE IsQuote(v, p)
  BY <1>1, <1>5, <1>6, <1>12 DEF IsQuote
<1>13. ASSUME NEW v \in Offers!Versions, v \notin past'.terms \cup past'.line
       PROVE  QuotesAgree(v)'
  <2>1. QuotesAgree(v)  BY <1>4, <1>13 DEF OffersInductive
  <2>2. offers'[v].state = offers[v].state  BY <1>7
  <2>3. v \in Offers!Active => offers'[v].price = offers[v].price  BY <1>3, <1>7, <1>13
  <2> QED  BY <1>8, <1>12, <2>1, <2>2, <2>3, QuotesKeep
<1> QED  BY <1>4, <1>6, <1>9, <1>10, <1>11, <1>13 DEF OffersInductive

LEMMA InsertVersionKeepsOffers ==
  ASSUME OffersFit, OffersInductive, NEW c \in Trio, Offers!InsertVersion(c)
  PROVE  OffersInductive'
<1> DEFINE v1 == calls[c].version + 1
           new == Offers!NextVersion(calls[c])
<1>1. calls[c].pc = "update" /\ v1 \in Offers!Versions /\ UNCHANGED <<mappings, stripe, sales,
        past>>
  BY DEF Offers!InsertVersion, Offers!At
<1>2. CASE offers[v1] # None
  <2>1. Offers!Goto(c, Offers!Over("conflict")) /\ UNCHANGED offers
    BY <1>2 DEF Offers!InsertVersion
  <2> QED  BY <1>1, <2>1, EndKeepsOffers
<1>3. CASE offers[v1] = None
  <2>1. offers' = [offers EXCEPT ![v1] = new] /\ Offers!Goto(c, Offers!Over("done"))
    BY <1>3 DEF Offers!InsertVersion
  <2>2. new \in Offers!Offer /\ new.state = "DRAFT"
    BY <1>1 DEF Offers!NextVersion, Offers!Offer, Offers!LifecycleStates, OffersInductive, Aimed
  <2> HIDE DEF new, v1
  <2>3. Offers!Over("done") \in OfferCall /\ Offers!Over("done").pc = "done"
          /\ Offers!Over("done").todo = {}
    BY OverIsTyped
  <2>4. /\ calls' \in [Trio -> OfferCall] /\ calls'[c] = Offers!Over("done")
        /\ \A d \in Trio : d # c => calls'[d] = calls[d]
    BY <2>1, <2>3, GoesTo
  <2>5. /\ offers' \in [Offers!Versions -> Offers!Offer \cup {None}] /\ offers'[v1] = new
        /\ \A v \in Offers!Versions : v # v1 => offers'[v] = offers[v]
    BY <1>1, <2>1, <2>2 DEF OffersInductive, Offers!TypesHold
  <2>6. Offers!Existing' = Offers!Existing \cup {v1} /\ v1 \notin Offers!Existing
    BY <1>1, <1>3, <2>2, <2>5 DEF Offers!Existing, OffersFit
  <2>7. Offers!Active' = Offers!Active  BY <2>2, <2>5, <2>6 DEF Offers!Active, Offers!Existing
  <2>8. Offers!TypesHold'  BY <1>1, <2>5 DEF OffersInductive, Offers!TypesHold
  <2>9. ASSUME NEW d \in Trio PROVE Aimed(d)' /\ Informed(d)'
    <3>1. CASE d = c  BY <2>3, <2>4, <3>1 DEF Aimed, Informed
    <3>2. CASE d # c
      <4>1. calls'[d] = calls[d] /\ Aimed(d) /\ Informed(d)  BY <2>4, <3>2 DEF OffersInductive
      <4>2. Aimed(d)'  BY <2>6, <4>1 DEF Aimed
      <4>3. calls[d].version \in Offers!Existing
              => offers'[calls[d].version] = offers[calls[d].version]
        BY <2>5, <2>6 DEF Offers!Existing
      <4>4. Informed(d)'  BY <1>1, <2>7, <4>1, <4>3 DEF Informed, Aimed, Offers!Active
      <4> QED  BY <4>2, <4>4
    <3> QED  BY <3>1, <3>2
  <2>10. ASSUME NEW v \in Offers!Versions, NEW p \in Prices, IsQuote(v, p)' PROVE IsQuote(v, p)
    BY <1>1, <2>3, <2>4, <2>10 DEF IsQuote
  <2>11. ASSUME NEW v \in Offers!Versions, v \notin past'.terms \cup past'.line
         PROVE  QuotesAgree(v)'
    <3>1. QuotesAgree(v)  BY <1>1, <2>11 DEF OffersInductive
    <3>2. CASE v = v1  BY <2>6, <2>10, <3>1, <3>2 DEF QuotesAgree
    <3>3. CASE v # v1  BY <2>5, <2>10, <3>1, <3>3, QuotesStay
    <3> QED  BY <3>2, <3>3
  <2> QED  BY <1>1, <2>4, <2>7, <2>8, <2>9, <2>11 DEF OffersInductive
<1> QED  BY <1>2, <1>3

\* A change of state that was not overtaken goes forward.
LEMMA WritesForward ==
  ASSUME OffersInductive, NEW c \in Trio, Offers!WriteState(c)
  PROVE  /\ calls[c].version \in Offers!Existing
         /\ \/ calls[c].pc = "promote" /\ calls[c].state = "ACTIVE"
            \/ calls[c].pc = "retire" /\ calls[c].state = "RETIRED"
         /\ \/ calls[c].version \in past'.line
            \/ calls[c].pc = "promote" /\ offers[calls[c].version].state = "DRAFT"
            \/ calls[c].pc = "retire" /\ offers[calls[c].version].state = "ACTIVE"
<1>1. calls[c].pc \in {"promote", "retire"} /\ Aimed(c) /\ Informed(c)
  BY DEF Offers!WriteState, OffersInductive
<1>2. (\E s \in Offers!LifecycleStates : <<calls[c].version, s>> \in calls[c].late) =>
         calls[c].version \in past'.line
  BY DEF Offers!WriteState, OffersInductive
<1> QED  BY <1>1, <1>2 DEF Aimed, Informed

LEMMA WriteStateKeepsOffers ==
  ASSUME OffersFit, OffersInductive, NEW c \in Trio, Offers!WriteState(c) PROVE OffersInductive'
<1> DEFINE v0 == calls[c].version
           s0 == calls[c].state
<1>1. /\ calls[c].pc \in {"promote", "retire"} /\ offers' = [offers EXCEPT ![v0].state = s0]
      /\ Offers!GotoAndTell(c, Offers!Over("done"), <<v0, s0>>) /\ UNCHANGED <<mappings, stripe,
         sales>>
  BY DEF Offers!WriteState
<1>2. /\ v0 \in Offers!Existing
      /\ (calls[c].pc = "promote" /\ s0 = "ACTIVE") \/ (calls[c].pc = "retire"
         /\ s0 = "RETIRED")
      /\ \/ v0 \in past'.line
         \/ calls[c].pc = "promote" /\ offers[v0].state = "DRAFT"
         \/ calls[c].pc = "retire" /\ offers[v0].state = "ACTIVE"
  BY WritesForward
<1>3. v0 \in Offers!Versions /\ offers[v0] \in Offers!Offer
  BY <1>2 DEF Offers!Existing, OffersInductive, Offers!TypesHold
<1>4. /\ past' \in [terms : SUBSET Offers!Versions, line : SUBSET Offers!Versions,
         double : BOOLEAN]
      /\ past'.terms = past.terms /\ past.line \subseteq past'.line
      /\ past.double => past'.double
      /\ s0 = "ACTIVE" /\ (\E w \in Offers!Versions \ {v0} : <<w, "ACTIVE">> \in calls[c].late)
         => past'.double
  BY <1>3 DEF Offers!WriteState, OffersInductive
<1>5. Informed(c)  BY DEF OffersInductive
<1>6. calls[c].pc = "promote" => \A w \in Offers!Active \ {v0} : <<w,
        "ACTIVE">> \in calls[c].late
  BY <1>5 DEF Informed
<1> HIDE DEF v0, s0
<1>7. Offers!Over("done") \in OfferCall /\ Offers!Over("done").pc = "done"
        /\ Offers!Over("done").todo = {}
  BY OverIsTyped
<1>8. /\ calls'[c] = Offers!Over("done")
      /\ \A d \in Trio : d # c =>
           /\ calls'[d] \in OfferCall /\ calls'[d].pc = calls[d].pc
              /\ calls'[d].todo = calls[d].todo
           /\ calls'[d].version = calls[d].version /\ calls'[d].price = calls[d].price
           /\ calls'[d].read = calls[d].read /\ calls'[d].state = calls[d].state
           /\ calls[d].late \subseteq calls'[d].late
           /\ calls[d].pc \in Offers!Working => <<v0, s0>> \in calls'[d].late
  <2>1. calls'[c] = Offers!Over("done")  BY <1>1 DEF Offers!GotoAndTell
  <2>2. ASSUME NEW d \in Trio, d # c, calls[d].pc \in Offers!Working
        PROVE /\ calls'[d] \in OfferCall /\ calls'[d].pc = calls[d].pc
                 /\ calls'[d].todo = calls[d].todo
              /\ calls'[d].version = calls[d].version /\ calls'[d].price = calls[d].price
              /\ calls'[d].read = calls[d].read /\ calls'[d].state = calls[d].state
              /\ calls'[d].late = calls[d].late \cup {<<v0, s0>>}
    <3> DEFINE late == calls[d].late \cup {<<v0, s0>>}
    <3>1. calls'[d] = [calls[d] EXCEPT !.late = late]  BY <1>1, <2>2 DEF Offers!GotoAndTell
    <3>2. late \in SUBSET (Offers!Versions \X Offers!LifecycleStates)
      BY <1>2, <1>3, OfferCallIsTyped DEF OfferCall, Offers!LifecycleStates
    <3> HIDE DEF late
    <3>3. calls[d] \in OfferCall  BY OfferCallIsTyped
    <3>4. calls'[d].late = late  BY <3>1, <3>3 DEF OfferCall
    <3>5. /\ calls'[d] \in OfferCall /\ calls'[d].pc = calls[d].pc
             /\ calls'[d].todo = calls[d].todo
          /\ calls'[d].version = calls[d].version /\ calls'[d].price = calls[d].price
          /\ calls'[d].read = calls[d].read /\ calls'[d].state = calls[d].state
      BY <3>1, <3>2, <3>3 DEF OfferCall
    <3> QED  BY <3>4, <3>5 DEF late
  <2>3. ASSUME NEW d \in Trio, d # c, calls[d].pc \notin Offers!Working
        PROVE  calls'[d] = calls[d]
    BY <1>1, <2>3 DEF Offers!GotoAndTell
  <2> QED  BY <2>1, <2>2, <2>3, OfferCallIsTyped
<1>9. calls' \in [Trio -> OfferCall]
  <2>1. calls' = [d \in Trio |-> calls'[d]]  BY <1>1 DEF Offers!GotoAndTell
  <2>2. \A d \in Trio : calls'[d] \in OfferCall  BY <1>7, <1>8
  <2> QED  BY <2>1, <2>2
<1>10. /\ offers' \in [Offers!Versions -> Offers!Offer \cup {None}]
       /\ offers'[v0].state = s0 /\ offers'[v0] # None
       /\ \A v \in Offers!Versions : v # v0 => offers'[v] = offers[v]
  <2> DEFINE o == [offers[v0] EXCEPT !.state = s0]
  <2>1. offers' = [offers EXCEPT ![v0] = o]  BY <1>1
  <2>2. o \in Offers!Offer /\ o.state = s0
    BY <1>2, <1>3 DEF Offers!Offer, Offers!LifecycleStates
  <2> HIDE DEF o
  <2>3. o # None  BY <2>2 DEF OffersFit
  <2> QED  BY <1>3, <2>1, <2>2, <2>3 DEF OffersInductive, Offers!TypesHold
<1>11. Offers!Existing' = Offers!Existing  BY <1>2, <1>10 DEF Offers!Existing
<1>12. \A v \in Offers!Versions : v # v0 => (v \in Offers!Active' <=> v \in Offers!Active)
  BY <1>10, <1>11 DEF Offers!Active, Offers!Existing
<1>13. v0 \in Offers!Active' <=> s0 = "ACTIVE"  BY <1>2, <1>10, <1>11 DEF Offers!Active
<1>14. Offers!Active' \subseteq Offers!Versions /\ Offers!Active \subseteq Offers!Versions
  BY DEF Offers!Active, Offers!Existing
<1>15. Offers!TypesHold'  BY <1>1, <1>10 DEF OffersInductive, Offers!TypesHold
<1>16. ASSUME NEW d \in Trio PROVE Aimed(d)' /\ Informed(d)'
  <2>1. CASE d = c  BY <1>7, <1>8, <2>1 DEF Aimed, Informed
  <2>2. CASE d # c
    <3>1. /\ Aimed(d) /\ Informed(d) /\ calls'[d].pc = calls[d].pc
             /\ calls'[d].version = calls[d].version
          /\ calls'[d].read = calls[d].read /\ calls'[d].state = calls[d].state
          /\ calls'[d].price = calls[d].price /\ calls[d].late \subseteq calls'[d].late
      BY <1>8, <2>2 DEF OffersInductive
    <3>2. Aimed(d)'  BY <1>11, <3>1 DEF Aimed
    <3>3. calls[d].pc \in {"update", "sibling", "promote", "retire"} => <<v0,
            s0>> \in calls'[d].late
      BY <1>8, <2>2 DEF Offers!Working
    <3>4. calls[d].pc \in {"update", "sibling", "promote", "retire"}
            => calls[d].version \in Offers!Versions
      BY <3>1 DEF Aimed, Offers!Existing
    <3>5. calls[d].pc \in {"sibling", "promote", "retire"} =>
            \/ \E s \in Offers!LifecycleStates : <<calls[d].version, s>> \in calls'[d].late
            \/ offers'[calls[d].version].state = calls[d].read.state
      <4>1. CASE calls[d].version = v0  BY <1>2, <3>3, <4>1 DEF Offers!LifecycleStates
      <4>2. CASE calls[d].version # v0
        <5>1. calls[d].pc \in {"sibling", "promote", "retire"} =>
                offers'[calls[d].version] = offers[calls[d].version]
          BY <1>10, <3>4, <4>2
        <5> QED  BY <3>1, <5>1 DEF Informed
      <4> QED  BY <4>1, <4>2
    <3>6. ASSUME calls[d].pc = "promote", NEW w \in Offers!Active' \ {calls[d].version}
          PROVE  <<w, "ACTIVE">> \in calls'[d].late
      <4>1. CASE w = v0  BY <1>13, <3>3, <3>6, <4>1
      <4>2. CASE w # v0  BY <1>12, <1>14, <3>1, <3>6, <4>2 DEF Informed
      <4> QED  BY <4>1, <4>2
    <3>7. ASSUME calls[d].pc = "update", calls[d].version \in Offers!Active',
                 <<calls[d].version, "ACTIVE">> \notin calls'[d].late
          PROVE  /\ calls[d].read.state = "ACTIVE"
                 /\ calls[d].version \notin past.terms =>
                      calls[d].read.price = offers'[calls[d].version].price
      <4>1. calls[d].version # v0  BY <1>13, <3>3, <3>7
      <4>2. offers'[calls[d].version] = offers[calls[d].version]
              /\ calls[d].version \in Offers!Active
        BY <1>10, <1>12, <3>4, <3>7, <4>1
      <4> QED  BY <3>1, <3>7, <4>2 DEF Informed
    <3>8. Informed(d)'  BY <1>4, <3>1, <3>5, <3>6, <3>7 DEF Informed
    <3> QED  BY <3>2, <3>8
  <2> QED  BY <2>1, <2>2
<1>17. ASSUME ~past'.double PROVE \A u, w \in Offers!Active' : u = w
  <2>1. \A u, w \in Offers!Active : u = w  BY <1>4, <1>17 DEF OffersInductive
  <2>2. CASE s0 = "ACTIVE"
    <3>1. Offers!Active \ {v0} = {}  BY <1>2, <1>4, <1>6, <1>14, <1>17, <2>2
    <3> QED  BY <1>12, <1>14, <3>1
  <2>3. CASE s0 # "ACTIVE"  BY <1>12, <1>13, <1>14, <2>1, <2>3
  <2> QED  BY <2>2, <2>3
<1>18. ASSUME NEW v \in Offers!Versions, NEW p \in Prices, IsQuote(v, p)' PROVE IsQuote(v, p)
  BY <1>1, <1>7, <1>8, <1>18 DEF IsQuote
<1>19. ASSUME NEW v \in Offers!Versions, v \notin past'.terms \cup past'.line
       PROVE  QuotesAgree(v)'
  <2>1. QuotesAgree(v)  BY <1>4, <1>19 DEF OffersInductive
  <2>2. CASE v # v0  BY <1>10, <1>18, <2>1, <2>2, QuotesStay
  <2>3. CASE v = v0
    <3>1. CASE calls[c].pc = "promote" /\ offers[v0].state = "DRAFT"
      BY <1>18, <2>1, <2>3, <3>1 DEF QuotesAgree
    <3>2. CASE calls[c].pc = "retire" /\ offers[v0].state = "ACTIVE"
      BY <1>2, <1>10, <1>11, <1>18, <2>1, <2>3, <3>2 DEF QuotesAgree
    <3> QED  BY <1>2, <1>19, <2>3, <3>1, <3>2
  <2> QED  BY <2>2, <2>3
<1> QED  BY <1>4, <1>9, <1>15, <1>16, <1>17, <1>19 DEF OffersInductive

\* A step keeps the invariant.
LEMMA OffersStep ==
  ASSUME OffersFit, OffersInductive, [Offers!Next]_(Offers!vars)
  PROVE  OffersInductive'
<1>1. ASSUME UNCHANGED Offers!vars PROVE OffersInductive'
  <2>1. UNCHANGED <<offers, mappings, stripe, sales, calls, past>>  BY <1>1 DEF Offers!vars
  <2>2. /\ Offers!Active' = Offers!Active /\ (Offers!TypesHold <=> Offers!TypesHold')
        /\ \A c \in Trio : (Aimed(c) <=> Aimed(c)') /\ (Informed(c) <=> Informed(c)')
        /\ \A v \in Offers!Versions : QuotesAgree(v) <=> QuotesAgree(v)'
    BY <2>1 DEF Offers!Active, Offers!Existing, Offers!TypesHold, Aimed, Informed, QuotesAgree,
                IsQuote
  <2> QED  BY <2>1, <2>2 DEF OffersInductive
<1>2. ASSUME NEW c \in Trio, Offers!Step(c) PROVE OffersInductive'
  BY <1>2, UpdateKeepsOffers, EditInPlaceKeepsOffers, InsertVersionKeepsOffers,
     SetLifecycleKeepsOffers,
     FindSiblingKeepsOffers, WriteStateKeepsOffers, SyncKeepsOffers, NextOfferKeepsOffers,
     CreatePriceKeepsOffers, RecordMappingKeepsOffers, AssertSellableKeepsOffers,
       FreezeKeepsOffers,
     CrashKeepsOffers DEF Offers!Step
<1> QED  BY <1>1, <1>2 DEF Offers!Next

LEMMA OffersMean ==
  ASSUME OffersFit, OffersInductive
  PROVE  Offers!TypesHold /\ Offers!OneIsSellable /\ Offers!BilledAsSold
<1>1. Offers!TypesHold  BY DEF OffersInductive
<1>2. Offers!OneIsSellable
  <2>1. ASSUME ~past.double PROVE Offers!Cardinality(Offers!Active) <= 1
    <3>1. \A u, w \in Offers!Active : u = w  BY <2>1 DEF OffersInductive
    <3>2. CASE Offers!Active = {}  BY <3>2, FS_EmptySet, OffersCount
    <3>3. CASE Offers!Active # {}
      <4>1. PICK v \in Offers!Active : TRUE  BY <3>3
      <4>2. Offers!Active = {v}  BY <3>1, <4>1
      <4>3. Offers!Cardinality({v}) = 1  BY FS_Singleton, OffersCount
      <4> QED  BY <4>2, <4>3
    <3> QED  BY <3>2, <3>3
  <2> QED  BY <2>1 DEF Offers!OneIsSellable
<1>3. ASSUME NEW s \in sales, s.version \notin past.terms \cup past.line
      PROVE  s.billed \in {None, s.price}
  <2>1. s.version \in Offers!Versions /\ s.price \in Prices /\ s.billed \in Prices \cup {None}
    BY <1>1 DEF Offers!TypesHold
  <2>2. QuotesAgree(s.version)  BY <1>3, <2>1 DEF OffersInductive
  <2>3. IsQuote(s.version, s.price) /\ IsQuote(s.version, s.billed)  BY <1>3 DEF IsQuote
  <2> QED  BY <2>1, <2>2, <2>3 DEF QuotesAgree
<1> QED  BY <1>1, <1>2, <1>3 DEF Offers!BilledAsSold

\* A step takes a version forward.
LEMMA OffersGoForward ==
  ASSUME OffersFit, OffersInductive, [Offers!Next]_(Offers!vars)
  PROVE  Offers!GoesForward
<1>1. Offers!Rank["DRAFT"] = 1 /\ Offers!Rank["ACTIVE"] = 2 /\ Offers!Rank["RETIRED"] = 3
  BY DEF Offers!Rank
<1>2. \A v \in Offers!Existing : v \in Offers!Versions /\ offers[v] \in Offers!Offer
        /\ offers[v].state \in Offers!LifecycleStates
  BY DEF Offers!Existing, OffersInductive, Offers!TypesHold, Offers!Offer
<1>3. \A v \in Offers!Existing : Offers!Rank[offers[v].state] \in Nat
  BY <1>1, <1>2 DEF Offers!LifecycleStates
<1>4. CASE UNCHANGED offers  BY <1>3, <1>4 DEF Offers!GoesForward
<1>5. ASSUME NEW c \in Trio, Offers!EditInPlace(c) PROVE Offers!GoesForward
  <2>1. \A v \in Offers!Existing : offers'[v].state = offers[v].state
    BY <1>2, <1>5 DEF Offers!EditInPlace, OffersInductive, Offers!TypesHold, Offers!Offer
  <2>2. \A v \in Offers!Existing : v # calls[c].version => offers'[v].price = offers[v].price
    BY <1>2, <1>5 DEF Offers!EditInPlace, OffersInductive, Offers!TypesHold
  <2>3. calls[c].version \in Offers!Existing => offers'[calls[c].version].price = calls[c].price
    BY <1>2, <1>5 DEF Offers!EditInPlace, OffersInductive, Offers!TypesHold, Offers!Offer
  <2> QED  BY <1>3, <1>5, <2>1, <2>2, <2>3, EditsOfLive DEF Offers!GoesForward, Offers!Active
<1>6. ASSUME NEW c \in Trio, Offers!InsertVersion(c) PROVE Offers!GoesForward
  <2>1. \A v \in Offers!Existing : offers'[v] = offers[v]
    BY <1>2, <1>6 DEF Offers!InsertVersion, OffersInductive, Offers!TypesHold, Offers!Existing
  <2> QED  BY <1>3, <2>1 DEF Offers!GoesForward
<1>7. ASSUME NEW c \in Trio, Offers!WriteState(c) PROVE Offers!GoesForward
  <2>1. \A v \in Offers!Existing : offers'[v].price = offers[v].price
    BY <1>2, <1>7 DEF Offers!WriteState, OffersInductive, Offers!TypesHold, Offers!Offer
  <2>2. \A v \in Offers!Existing : v # calls[c].version => offers'[v].state = offers[v].state
    BY <1>2, <1>7 DEF Offers!WriteState, OffersInductive, Offers!TypesHold
  <2>3. calls[c].version \in Offers!Existing => offers'[calls[c].version].state = calls[c].state
    BY <1>2, <1>7 DEF Offers!WriteState, OffersInductive, Offers!TypesHold, Offers!Offer
  <2>4. \A v \in Offers!Existing : v \notin past'.line
          => Offers!Rank[offers'[v].state] >= Offers!Rank[offers[v].state]
    BY <1>1, <1>3, <1>7, <2>2, <2>3, WritesForward
  <2> QED  BY <2>1, <2>4 DEF Offers!GoesForward
<1> QED
  BY <1>4, <1>5, <1>6, <1>7 DEF Offers!Next, Offers!Step, Offers!vars, Offers!Update,
                                Offers!SetLifecycle, Offers!FindSibling, Offers!SyncOfferPrices,
     Offers!NextOffer, Offers!CreatePrice, Offers!RecordMapping, Offers!AssertSellable,
       Offers!Freeze, Offers!Crash

-----------------------------------------------------------------------------
(* The newest link and its signal (Checkout).                             *)

\* The component counts as its library does.
LEMMA LinksCount == \A S : Links!Cardinality(S) = Cardinality(S)
BY DEF Links!Cardinality, Cardinality

\* What is known of a request for a link.
LinkCall == [pc : Links!Working \cup {"idle", "done", "error", "handled", "crashed"},
             op : {"convert", "regenerate", None}, attempt : Links!Attempts \cup {None}]

\* What is remembered.
PastOfLinks == [repeated : BOOLEAN, crossed : BOOLEAN, broken : BOOLEAN, settled : BOOLEAN]

\* No attempt is newer.
Newest(a) == \A b \in Links!Made : b <= a

\* A request that nothing disturbs makes a link of its own, the newest, which nobody
\* can pay before it is stored.
Serves(c) ==
  LET a == calls[c].attempt IN
    /\ calls[c].pc = "upsert" => \A b \in Links!Made : b < a
    /\ calls[c].pc \in {"session", "created", "failed"} =>
         Newest(a) /\ links[a] = [status |-> "PENDING", known |-> FALSE]
    /\ calls[c].pc = "clear" =>
         Newest(a) /\ links[a] = [status |-> "FAILED", known |-> FALSE]

\* Without overlaps there is one request at work.
Alone == \A c, d \in Trio : calls[c].pc \in Links!Working /\ calls[d].pc \in Links!Working
  => c = d

\* From its second statement on the link of a request is there.
HasLink(c) ==
  calls[c].pc \in {"session", "created", "resolve", "pending", "failed", "clear"} =>
    links[calls[c].attempt] \in Links!Link

SessionsHaveLinks == \A a \in Links!Attempts : sessions[a] # "none" => links[a] \in Links!Link

\* The signals about links that can be paid, of which there is one at most.
OneSignal ==
  /\ \A s, t \in Links!Of("CHECKOUT_PENDING") : s = t
  /\ \A c \in Trio : calls[c].pc = "pending" => Links!Of("CHECKOUT_PENDING") = {}

\* The newest link, when it can be paid, has its signal or is about to get it, unless
\* an invoice was paid since.
NewestIsSignalled ==
  \A a \in Links!Made :
    Newest(a) /\ links[a].status = "CREATED" /\ profiled =>
      \/ Links!Of("CHECKOUT_PENDING") # {} \/ past.settled
      \/ \E c \in Trio : calls[c].pc \in {"resolve", "pending"}

\* The inductive invariant.
LinksInductive ==
  /\ Links!TypesHold
  /\ calls \in [Trio -> LinkCall]
  /\ past \in PastOfLinks
  /\ \A c \in Trio : calls[c].pc \in Links!Working => calls[c].attempt \in Links!Attempts
  /\ \A c \in Trio : HasLink(c)
  /\ SessionsHaveLinks
  /\ ~past.crossed => Alone
  /\ ~past.crossed /\ ~past.broken => OneSignal
  /\ ~past.crossed /\ ~past.broken /\ ~past.repeated =>
       NewestIsSignalled /\ \A c \in Trio : Serves(c)

-----------------------------------------------------------------------------

\* A set of numbers up to a bound has a greatest one.
LEMMA GreatestExists ==
  ASSUME NEW N \in Nat, NEW S \in SUBSET (0 .. N), S # {}
  PROVE  Links!Max(S) \in S /\ \A y \in S : y <= Links!Max(S)
<1> DEFINE T == {N - x : x \in S}
<1>1. T \subseteq Nat
  <2>1. \A x \in S : x \in Nat /\ x <= N /\ N - x \in Nat  OBVIOUS
  <2> QED  BY <2>1
<1>2. T # {}
  <2>1. PICK x : x \in S  OBVIOUS
  <2>2. N - x \in T  BY <2>1
  <2> QED  BY <2>2
<1>3. PICK t \in T : \A y \in T : ~ (<<y, t>> \in OpToRel(<, Nat))
  BY <1>1, <1>2, NatLessThanWellFounded, WFMin
<1>4. \A y \in T : ~(y < t)  BY <1>1, <1>3 DEF OpToRel
<1>5. \A y \in S : y <= N - t  BY <1>4
<1>6. N - t \in S
  <2>1. PICK x \in S : t = N - x  BY <1>3
  <2>2. x \in Int  OBVIOUS
  <2> QED  BY <2>1, <2>2
<1> QED  BY <1>5, <1>6 DEF Links!Max

\* The next attempt is newer than all there are.
LEMMA NextIsNewer ==
  ASSUME LinksFit
  PROVE  Links!NextAttempt \in Nat /\ \A b \in Links!Made : b < Links!NextAttempt
<1> DEFINE last == Links!Max(Links!Made \cup {0})
<1>1. Links!Made \cup {0} \subseteq 0 .. MaxAttempt /\ MaxAttempt \in Nat
  BY DEF Links!Made, Links!Attempts, LinksFit
<1>2. last \in Links!Made \cup {0} /\ \A y \in Links!Made \cup {0} : y <= last
  BY <1>1, GreatestExists
<1>3. \A y \in Links!Made \cup {0} : y \in Nat  BY <1>1
<1>4. Links!NextAttempt = last + 1  BY DEF Links!NextAttempt
<1> HIDE DEF last
<1> QED  BY <1>2, <1>3, <1>4

LEMMA LinksBegin == ASSUME LinksFit, Links!Init PROVE LinksInductive
<1>1. \A c \in Trio : calls[c] = Links!Idle  BY DEF Links!Init
<1>2. Links!Idle \in LinkCall /\ Links!Idle.pc = "idle"  BY DEF Links!Idle, LinkCall
<1>3. Links!Made = {} /\ signals = {}  BY DEF Links!Init, Links!Made
<1>4. \A c \in Trio : calls[c].pc = "idle"  BY <1>1, <1>2
<1>5. Links!TypesHold  BY DEF Links!Init, Links!TypesHold
<1>6. calls \in [Trio -> LinkCall]  BY <1>2 DEF Links!Init
<1>7. OneSignal  BY <1>3, <1>4 DEF OneSignal, Links!Of
<1>8. NewestIsSignalled  BY <1>3 DEF NewestIsSignalled
<1>9. \A c \in Trio : Serves(c)  BY <1>4 DEF Serves
<1>10. Alone /\ \A c \in Trio : calls[c].pc \notin Links!Working /\ HasLink(c)
  BY <1>4 DEF Alone, Links!Working, HasLink
<1>11. SessionsHaveLinks  BY DEF Links!Init, SessionsHaveLinks
<1> QED
  BY <1>5, <1>6, <1>7, <1>8, <1>9, <1>10, <1>11 DEF LinksInductive, PastOfLinks, Links!Init

\* The one that takes a step.
LEMMA Moves ==
  ASSUME LinksInductive, NEW c \in Trio, NEW r \in LinkCall, Links!Goto(c, r),
         r.pc \in Links!Working => r.attempt \in Links!Attempts
  PROVE  /\ calls' \in [Trio -> LinkCall]
         /\ calls'[c] = r /\ \A d \in Trio : d # c => calls'[d] = calls[d]
         /\ \A d \in Trio : calls'[d].pc \in Links!Working
            => calls'[d].attempt \in Links!Attempts
BY DEF Links!Goto, LinksInductive

\* A request that goes on keeps what was asked.
LEMMA GoesOn ==
  ASSUME LinksInductive, NEW c \in Trio,
         NEW pc \in Links!Working \cup {"done", "error", "handled", "crashed"},
         calls[c].pc \in Links!Working, Links!Continue(c, pc)
  PROVE  /\ calls' \in [Trio -> LinkCall]
         /\ calls'[c].pc = pc /\ calls'[c].op = calls[c].op
         /\ calls'[c].attempt = calls[c].attempt /\ calls[c].attempt \in Links!Attempts
         /\ \A d \in Trio : d # c => calls'[d] = calls[d]
         /\ \A d \in Trio : calls'[d].pc \in Links!Working
            => calls'[d].attempt \in Links!Attempts
         /\ Alone => Alone'
<1> DEFINE r == [calls[c] EXCEPT !.pc = pc]
<1>1. r = [pc |-> pc, op |-> calls[c].op, attempt |-> calls[c].attempt]
  BY DEF LinksInductive, LinkCall
<1>2. Links!Goto(c, r)  BY DEF Links!Continue
<1> HIDE DEF r
<1>3. r \in LinkCall /\ r.attempt \in Links!Attempts  BY <1>1 DEF LinksInductive, LinkCall
<1>4. /\ calls' \in [Trio -> LinkCall]
      /\ calls'[c] = r /\ \A d \in Trio : d # c => calls'[d] = calls[d]
      /\ \A d \in Trio : calls'[d].pc \in Links!Working => calls'[d].attempt \in Links!Attempts
  BY <1>2, <1>3, Moves
<1>5. Alone => Alone'  BY <1>4 DEF Alone
<1> QED  BY <1>1, <1>3, <1>4, <1>5

\* A request starts: with others at work it crosses them.
LEMMA StartsAlone ==
  ASSUME LinksInductive, NEW c \in Trio, NEW op \in {"convert", "regenerate"},
         NEW pc \in Links!Working \cup {"error"}, NEW a \in Links!Attempts,
         Links!Start(c, op, pc, a), Links!At(c, "idle"),
         UNCHANGED <<links, sessions, signals, profiled>>,
         pc \in {"upsert", "handle", "error"},
         op = "regenerate" \/ Links!Made = {} \/ past'.repeated,
         pc = "upsert" => (\A b \in Links!Made : b < a) \/ past'.repeated
  PROVE  LinksInductive'
<1> DEFINE r == [pc |-> pc, op |-> op, attempt |-> a]
<1>1. r \in LinkCall  BY DEF LinkCall
<1>2. /\ calls' \in [Trio -> LinkCall]
      /\ calls'[c] = r /\ \A d \in Trio : d # c => calls'[d] = calls[d]
      /\ \A d \in Trio : calls'[d].pc \in Links!Working => calls'[d].attempt \in Links!Attempts
  BY <1>1, Moves DEF Links!Start
<1>3. /\ past' \in PastOfLinks
      /\ past'.broken = past.broken /\ (past.repeated => past'.repeated)
      /\ past'.settled = past.settled
      /\ ~past'.crossed => ~past.crossed /\ \A d \in Trio : calls[d].pc \notin Links!Working
  BY DEF Links!Start, LinksInductive, PastOfLinks
<1>4. ~past'.crossed => Alone'  BY <1>2, <1>3 DEF Alone
<1>5. ~past'.crossed /\ ~past'.broken => OneSignal'
  BY <1>2, <1>3 DEF LinksInductive, OneSignal, Links!Of
<1>6. ASSUME ~past'.crossed, ~past'.broken, ~past'.repeated
      PROVE  NewestIsSignalled' /\ \A d \in Trio : Serves(d)'
  <2>1. NewestIsSignalled /\ \A d \in Trio : Serves(d) /\ calls[d].pc \notin Links!Working
    BY <1>3, <1>6 DEF LinksInductive
  <2>2. Links!Made' = Links!Made  BY DEF Links!Made
  <2>3. NewestIsSignalled'
    <3>1. \A d \in Trio : calls[d].pc \notin {"resolve", "pending"}  BY <2>1 DEF Links!Working
    <3> QED  BY <1>3, <2>1, <2>2, <3>1 DEF NewestIsSignalled, Newest, Links!Of
  <2>4. Serves(c)'  BY <1>2, <1>6, <2>2 DEF Serves
  <2>5. \A d \in Trio : d # c => Serves(d)'  BY <1>2, <2>1, <2>2 DEF Serves, Newest
  <2> QED  BY <2>3, <2>4, <2>5
<1>7. Links!TypesHold'  BY DEF LinksInductive, Links!TypesHold
<1>8. (\A d \in Trio : HasLink(d)') /\ SessionsHaveLinks'
  BY <1>2 DEF LinksInductive, HasLink, SessionsHaveLinks
<1> QED  BY <1>2, <1>3, <1>4, <1>5, <1>6, <1>7, <1>8 DEF LinksInductive

LEMMA ConvertKeepsLinks ==
  ASSUME LinksFit, LinksInductive, NEW c \in Trio, Links!Convert(c)
  PROVE  LinksInductive'
<1>1. 1 \in Links!Attempts  BY DEF LinksFit, Links!Attempts
<1>2. Links!Made = {} \/ past'.repeated
  BY DEF Links!Convert, Links!Start, Links!Made, LinksInductive, PastOfLinks
<1> QED  BY <1>1, <1>2, StartsAlone DEF Links!Convert, Links!Working

LEMMA RegenerateKeepsLinks ==
  ASSUME LinksFit, LinksInductive, NEW c \in Trio, Links!Regenerate(c) PROVE LinksInductive'
BY NextIsNewer, StartsAlone DEF Links!Regenerate, Links!Working

-----------------------------------------------------------------------------
(* The steps of a request at work.                                         *)

\* What such a step has to show.
LEMMA WorkKeepsLinks ==
  ASSUME LinksInductive, NEW c \in Trio,
         NEW pc \in Links!Working \cup {"done", "error", "handled", "crashed"},
         calls[c].pc \in Links!Working, Links!Continue(c, pc), Links!TypesHold',
         past' \in PastOfLinks,
         past'.crossed = past.crossed, past'.repeated = past.repeated,
         past.broken => past'.broken,
         \A b \in Links!Attempts : links[b] \in Links!Link => links'[b] \in Links!Link,
         \A b \in Links!Attempts : sessions'[b] # "none" =>
           sessions[b] # "none" \/ links[b] \in Links!Link,
         HasLink(c)',
         ~past.crossed /\ ~past'.broken => OneSignal',
         ~past.crossed /\ ~past'.broken /\ ~past.repeated => NewestIsSignalled' /\ Serves(c)'
  PROVE  LinksInductive'
<1>1. /\ calls' \in [Trio -> LinkCall]
      /\ \A d \in Trio : d # c => calls'[d] = calls[d]
      /\ \A d \in Trio : calls'[d].pc \in Links!Working => calls'[d].attempt \in Links!Attempts
      /\ Alone => Alone'
  BY GoesOn
<1>2. ASSUME ~past.crossed, NEW d \in Trio, d # c PROVE Serves(d)'
  <2>1. calls'[d].pc \notin Links!Working  BY <1>1, <1>2 DEF LinksInductive, Alone
  <2> QED  BY <2>1 DEF Serves, Links!Working
<1>3. ASSUME NEW d \in Trio, d # c PROVE HasLink(d)'
  BY <1>1, <1>3 DEF LinksInductive, HasLink, Links!Working
<1>4. SessionsHaveLinks'  BY DEF LinksInductive, SessionsHaveLinks
<1> QED  BY <1>1, <1>2, <1>3, <1>4 DEF LinksInductive

\* What is known before it.
LEMMA Undisturbed ==
  ASSUME LinksInductive, NEW c \in Trio, calls[c].pc \in Links!Working
  PROVE  /\ calls[c].attempt \in Links!Attempts
         /\ ~past.crossed => \A d \in Trio : d # c => calls[d].pc \notin Links!Working
BY DEF LinksInductive, Alone

LEMMA UpsertLinkKeepsLinks ==
  ASSUME LinksFit, LinksInductive, NEW c \in Trio, Links!UpsertLink(c) PROVE LinksInductive'
<1> DEFINE a == calls[c].attempt
<1>1. calls[c].pc \in Links!Working /\ Links!Continue(c, "session")
  BY DEF Links!UpsertLink, Links!At, Links!Working
<1>2. a \in Links!Attempts /\ (~past.crossed => \A d \in Trio : d # c
        => calls[d].pc \notin Links!Working)
  BY <1>1, Undisturbed
<1>3. calls'[c].pc = "session" /\ calls'[c].attempt = a /\ \A d \in Trio : d # c
        => calls'[d] = calls[d]
  BY <1>1, GoesOn DEF Links!Working
<1> HIDE DEF a
<1>4. /\ links \in [Links!Attempts -> Links!Link \cup {None}]
         /\ links' \in [Links!Attempts -> Links!Link \cup {None}]
      /\ links[a] = None => links'[a] = [status |-> "PENDING", known |-> FALSE]
      /\ links'[a] \in Links!Link /\ links'[a].status = "PENDING"
      /\ \A b \in Links!Attempts : b # a => links'[b] = links[b]
  <2>1. links \in [Links!Attempts -> Links!Link \cup {None}]
    BY DEF LinksInductive, Links!TypesHold
  <2> DEFINE l == IF links[a] = None THEN [status |-> "PENDING", known |-> FALSE]
                  ELSE [links[a] EXCEPT !.status = "PENDING"]
  <2>2. l \in Links!Link /\ l.status = "PENDING"
    <3>1. CASE links[a] = None  BY <3>1 DEF Links!Link, Links!Statuses
    <3>2. CASE links[a] # None
      <4>1. links[a] \in Links!Link  BY <2>1, <3>2, <1>2
      <4>2. l = [status |-> "PENDING", known |-> links[a].known]  BY <3>2, <4>1 DEF Links!Link
      <4> HIDE DEF l
      <4> QED  BY <4>1, <4>2 DEF Links!Link, Links!Statuses
    <3> QED  BY <3>1, <3>2
  <2>3. links' = [links EXCEPT ![a] = l]  BY DEF Links!UpsertLink, a
  <2>4. links[a] = None => l = [status |-> "PENDING", known |-> FALSE]  OBVIOUS
  <2> HIDE DEF l
  <2> QED  BY <2>1, <2>2, <2>3, <2>4, <1>2
<1>5. Links!TypesHold'  BY <1>4 DEF Links!UpsertLink, LinksInductive, Links!TypesHold
<1>6. a \in Links!Made' /\ \A b \in Links!Made' : b = a \/ b \in Links!Made
  BY <1>2, <1>4 DEF Links!Made, LinksFit
<1>7. ~past.crossed /\ ~past.broken => OneSignal'
  BY <1>3 DEF Links!UpsertLink, LinksInductive, OneSignal, Links!Of
<1>8. ASSUME ~past.crossed, ~past.broken, ~past.repeated PROVE NewestIsSignalled' /\ Serves(c)'
  <2>1. \A b \in Links!Made : b < a
    BY <1>8 DEF LinksInductive, Serves, Links!UpsertLink, Links!At, a
  <2>2. a \in Int /\ \A b \in Links!Attempts : b \in Int  BY <1>2 DEF Links!Attempts
  <2>3. links[a] = None  BY <2>1, <2>2, <1>2 DEF Links!Made
  <2>4. \A b \in Links!Made' : b <= a  BY <1>6, <2>1, <2>2 DEF Links!Made
  <2>5. \A b \in Links!Made' : Newest(b)' => b = a
    BY <1>6, <2>1, <2>2 DEF Newest, Links!Made
  <2>6. NewestIsSignalled'  BY <2>5, <1>4 DEF NewestIsSignalled
  <2> QED  BY <1>3, <1>4, <2>3, <2>4, <2>6 DEF Serves, Newest
<1>9. UNCHANGED <<past, sessions>>  BY DEF Links!UpsertLink
<1>10. HasLink(c)' /\ \A b \in Links!Attempts : links[b] \in Links!Link
         => links'[b] \in Links!Link
  BY <1>3, <1>4 DEF HasLink
<1> QED
  BY <1>1, <1>5, <1>7, <1>8, <1>9, <1>10, WorkKeepsLinks DEF LinksInductive, Links!Working

LEMMA CreateSessionKeepsLinks ==
  ASSUME LinksFit, LinksInductive, NEW c \in Trio, Links!CreateSession(c) PROVE LinksInductive'
<1>1. calls[c].pc \in Links!Working /\ Links!Continue(c, "created")
  BY DEF Links!CreateSession, Links!At, Links!Working
<1>2. calls[c].attempt \in Links!Attempts  BY <1>1, Undisturbed
<1>3. /\ calls'[c].pc = "created" /\ calls'[c].attempt = calls[c].attempt
      /\ \A d \in Trio : d # c => calls'[d] = calls[d]
  BY <1>1, GoesOn DEF Links!Working
<1>4. Links!TypesHold'  BY <1>2 DEF Links!CreateSession, LinksInductive, Links!TypesHold
<1>5. ~past.crossed /\ ~past.broken => OneSignal'
  BY <1>3 DEF Links!CreateSession, LinksInductive, OneSignal, Links!Of
<1>6. ASSUME ~past.crossed, ~past.broken, ~past.repeated PROVE NewestIsSignalled' /\ Serves(c)'
  <2>1. NewestIsSignalled /\ Serves(c)  BY <1>6 DEF LinksInductive
  <2>2. Links!Made' = Links!Made /\ UNCHANGED <<links, signals, profiled, past>>
    BY DEF Links!CreateSession, Links!Made
  <2>3. Serves(c)'  BY <1>3, <2>1, <2>2 DEF Serves, Links!CreateSession, Links!At, Newest
  <2>4. \A d \in Trio : calls[d].pc \in {"resolve", "pending"} => calls'[d].pc = calls[d].pc
    BY <1>3 DEF Links!CreateSession, Links!At
  <2>5. NewestIsSignalled'  BY <2>1, <2>2, <2>4 DEF NewestIsSignalled, Newest, Links!Of
  <2> QED  BY <2>3, <2>5
<1>7. UNCHANGED past  BY DEF Links!CreateSession
<1>8. HasLink(c)' /\ UNCHANGED links
  BY <1>3 DEF HasLink, Links!CreateSession, Links!At, LinksInductive
<1>9. \A b \in Links!Attempts : sessions'[b] # "none" =>
        sessions[b] # "none" \/ links[b] \in Links!Link
  <2>1. links[calls[c].attempt] \in Links!Link
    BY DEF Links!CreateSession, Links!At, HasLink, LinksInductive
  <2> QED  BY <1>2, <2>1 DEF Links!CreateSession, LinksInductive, Links!TypesHold
<1> QED
  BY <1>1, <1>4, <1>5, <1>6, <1>7, <1>8, <1>9, WorkKeepsLinks DEF LinksInductive, Links!Working

LEMMA StoreSessionKeepsLinks ==
  ASSUME LinksFit, LinksInductive, NEW c \in Trio, Links!StoreSession(c) PROVE LinksInductive'
<1>1. calls[c].pc \in Links!Working /\ Links!Continue(c, "resolve")
  BY DEF Links!StoreSession, Links!At, Links!Working
<1>2. calls[c].attempt \in Links!Attempts  BY <1>1, Undisturbed
<1>3. calls'[c].pc = "resolve" /\ \A d \in Trio : d # c => calls'[d] = calls[d]
  BY <1>1, GoesOn DEF Links!Working
<1>4. Links!TypesHold'
  BY <1>2 DEF Links!StoreSession, LinksInductive, Links!TypesHold, Links!Link, Links!Statuses
<1>5. ~past.crossed /\ ~past.broken => OneSignal'
  BY <1>3 DEF Links!StoreSession, LinksInductive, OneSignal, Links!Of
<1>6. NewestIsSignalled' /\ Serves(c)'  BY <1>3 DEF NewestIsSignalled, Serves
<1>7. UNCHANGED <<past, sessions>>  BY DEF Links!StoreSession
<1>8. HasLink(c)' /\ \A b \in Links!Attempts : links[b] \in Links!Link
        => links'[b] \in Links!Link
  <2>1. calls'[c].attempt = calls[c].attempt  BY <1>1, GoesOn DEF Links!Working
  <2> QED
    BY <1>2, <2>1 DEF HasLink, Links!StoreSession, LinksInductive, Links!TypesHold, Links!Link,
                      Links!Statuses
<1> QED  BY <1>1, <1>4, <1>5, <1>6, <1>7, <1>8, WorkKeepsLinks DEF LinksInductive, Links!Working

LEMMA ResolveSignalsKeepsLinks ==
  ASSUME LinksFit, LinksInductive, NEW c \in Trio, Links!ResolveSignals(c) PROVE LinksInductive'
<1> DEFINE pc == IF Links!At(c, "resolve") THEN "pending"
                 ELSE IF calls[c].op = "convert" THEN "handle" ELSE "error"
<1>1. calls[c].pc \in Links!Working /\ Links!Continue(c, pc)
  BY DEF Links!ResolveSignals, Links!At, Links!Working
<1>2. pc \in {"pending", "handle", "error"} /\ (pc = "pending" <=> calls[c].pc = "resolve")
  BY DEF Links!At
<1> HIDE DEF pc
<1>3. /\ calls'[c].pc = pc /\ calls'[c].attempt = calls[c].attempt
      /\ \A d \in Trio : d # c => calls'[d] = calls[d]
  BY <1>1, <1>2, GoesOn DEF Links!Working
<1>4. Links!TypesHold'  BY DEF Links!ResolveSignals, LinksInductive, Links!TypesHold
<1>5. Links!Of("CHECKOUT_PENDING")' = {}
  BY DEF Links!Of, Links!ResolveSignals, Links!Superseded
<1>6. OneSignal'  BY <1>5 DEF OneSignal
<1>7. ASSUME ~past.crossed, ~past.broken, ~past.repeated PROVE NewestIsSignalled' /\ Serves(c)'
  <2>1. Serves(c)  BY <1>7 DEF LinksInductive
  <2>2. UNCHANGED links  BY DEF Links!ResolveSignals
  <2>3. NewestIsSignalled'
    <3>1. CASE pc = "pending"  BY <1>3, <3>1 DEF NewestIsSignalled
    <3>2. CASE pc # "pending"
      <4>1. calls[c].pc = "clear"  BY <3>2, <1>2 DEF Links!ResolveSignals
      <4>2. Newest(calls[c].attempt) /\ links[calls[c].attempt] = [status |-> "FAILED",
              known |-> FALSE]
        BY <4>1, <2>1 DEF Serves
      <4>3. calls[c].attempt \in Links!Made
        BY <4>1, <1>1, Undisturbed DEF Links!Made, LinksFit, LinksInductive, HasLink
      <4>4. \A b \in Links!Made' : Newest(b)' => b = calls[c].attempt
        BY <2>2, <4>2, <4>3 DEF Links!Made, Newest, Links!Attempts
      <4> QED  BY <4>2, <4>4, <2>2 DEF NewestIsSignalled
    <3> QED  BY <3>1, <3>2
  <2> QED  BY <1>2, <1>3, <2>3 DEF Serves
<1>8. UNCHANGED <<past, links, sessions>>  BY DEF Links!ResolveSignals
<1>9. HasLink(c)'  BY <1>2, <1>3, <1>8 DEF HasLink, Links!ResolveSignals, LinksInductive
<1> QED
  BY <1>1, <1>2, <1>4, <1>6, <1>7, <1>8, <1>9, WorkKeepsLinks DEF LinksInductive, Links!Working

LEMMA SignalPendingKeepsLinks ==
  ASSUME LinksFit, LinksInductive, NEW c \in Trio, Links!SignalPending(c) PROVE LinksInductive'
<1>1. calls[c].pc = "pending" /\ calls[c].pc \in Links!Working /\ Links!Continue(c, "done")
  BY DEF Links!SignalPending, Links!At, Links!Working
<1>2. calls'[c].pc = "done" /\ \A d \in Trio : d # c => calls'[d] = calls[d]
  BY <1>1, GoesOn DEF Links!Working
<1>3. Links!TypesHold'
  BY DEF Links!SignalPending, Links!Signalled, LinksInductive, Links!TypesHold
<1>4. ASSUME ~past.crossed, ~past.broken PROVE OneSignal'
  <2>1. Links!Of("CHECKOUT_PENDING") = {}  BY <1>1, <1>4 DEF LinksInductive, OneSignal
  <2>2. \A s \in Links!Of("CHECKOUT_PENDING")' : s = <<c, "CHECKOUT_PENDING">>
    BY <2>1 DEF Links!SignalPending, Links!Signalled, Links!Of
  <2>3. \A d \in Trio : calls'[d].pc # "pending"
    BY <1>1, <1>2, <1>4, Undisturbed DEF Links!Working
  <2> QED  BY <2>2, <2>3 DEF OneSignal
<1>5. NewestIsSignalled'
  <2>1. profiled' => <<c, "CHECKOUT_PENDING">> \in Links!Of("CHECKOUT_PENDING")'
    BY DEF Links!SignalPending, Links!Signalled, Links!Of
  <2> QED  BY <2>1 DEF NewestIsSignalled
<1>6. Serves(c)'  BY <1>2 DEF Serves
<1>7. /\ UNCHANGED <<links, sessions>> /\ past' \in PastOfLinks
      /\ past'.crossed = past.crossed /\ past'.repeated = past.repeated
      /\ past'.broken = past.broken
  BY DEF Links!SignalPending, LinksInductive, PastOfLinks
<1>8. HasLink(c)'  BY <1>2 DEF HasLink
<1> QED
  BY <1>1, <1>3, <1>4, <1>5, <1>6, <1>7, <1>8, WorkKeepsLinks DEF LinksInductive, Links!Working

LEMMA FailKeepsLinks ==
  ASSUME LinksFit, LinksInductive, NEW c \in Trio, Links!Fail(c) PROVE LinksInductive'
<1>1. calls[c].pc \in Links!Working /\ Links!Continue(c, "failed") /\ UNCHANGED <<links,
        signals, profiled, sessions>>
  BY DEF Links!Fail, Links!Working
<1>2. /\ calls'[c].pc = "failed" /\ calls'[c].attempt = calls[c].attempt
      /\ \A d \in Trio : d # c => calls'[d] = calls[d]
  BY <1>1, GoesOn DEF Links!Working
<1>3. Links!TypesHold'  BY <1>1 DEF LinksInductive, Links!TypesHold
<1>4. /\ past' \in PastOfLinks
      /\ past'.crossed = past.crossed /\ past'.repeated = past.repeated
      /\ past'.settled = past.settled /\ (past.broken => past'.broken)
      /\ ~past'.broken => calls[c].pc = "session"
  BY DEF Links!Fail, LinksInductive, PastOfLinks, Links!At
<1>5. ~past.crossed /\ ~past'.broken => OneSignal'
  BY <1>1, <1>2, <1>4 DEF LinksInductive, OneSignal, Links!Of
<1>6. ASSUME ~past.crossed, ~past'.broken, ~past.repeated PROVE NewestIsSignalled' /\ Serves(c)'
  <2>1. NewestIsSignalled /\ Serves(c) /\ calls[c].pc = "session"
    BY <1>4, <1>6 DEF LinksInductive
  <2>2. Links!Made' = Links!Made  BY <1>1 DEF Links!Made
  <2>3. Serves(c)'  BY <1>1, <1>2, <2>1, <2>2 DEF Serves, Newest
  <2>4. \A d \in Trio : calls[d].pc \in {"resolve", "pending"} => calls'[d].pc = calls[d].pc
    BY <1>2, <2>1
  <2>5. Links!Of("CHECKOUT_PENDING")' = Links!Of("CHECKOUT_PENDING")
          /\ past'.settled = past.settled
    BY <1>1, <1>4 DEF Links!Of
  <2>6. NewestIsSignalled'
    BY <1>1, <2>1, <2>2, <2>4, <2>5 DEF NewestIsSignalled, Newest
  <2> QED  BY <2>3, <2>6
<1>7. HasLink(c)'  BY <1>1, <1>2 DEF HasLink, Links!Fail, LinksInductive
<1> QED  BY <1>1, <1>3, <1>4, <1>5, <1>6, <1>7, WorkKeepsLinks DEF Links!Working

LEMMA StoreFailureKeepsLinks ==
  ASSUME LinksFit, LinksInductive, NEW c \in Trio, Links!StoreFailure(c) PROVE LinksInductive'
<1> DEFINE a == calls[c].attempt
<1>1. calls[c].pc = "failed" /\ calls[c].pc \in Links!Working /\ Links!Continue(c, "clear")
  BY DEF Links!StoreFailure, Links!At, Links!Working
<1>2. a \in Links!Attempts /\ links[a] \in Links!Link
  BY <1>1, Undisturbed DEF LinksInductive, HasLink
<1>3. /\ calls'[c].pc = "clear" /\ calls'[c].attempt = a
      /\ \A d \in Trio : d # c => calls'[d] = calls[d]
  BY <1>1, GoesOn DEF Links!Working
<1>4. links' = [links EXCEPT ![a].status = "FAILED"] /\ UNCHANGED <<sessions, signals, profiled,
        past>>
  BY DEF Links!StoreFailure
<1> HIDE DEF a
<1>5. /\ links \in [Links!Attempts -> Links!Link \cup {None}]
         /\ links' \in [Links!Attempts -> Links!Link \cup {None}]
      /\ links'[a] = [status |-> "FAILED", known |-> links[a].known] /\ links'[a] \in Links!Link
      /\ \A b \in Links!Attempts : b # a => links'[b] = links[b]
  <2> DEFINE l == [links[a] EXCEPT !.status = "FAILED"]
  <2>1. l = [status |-> "FAILED", known |-> links[a].known]  BY <1>2 DEF Links!Link
  <2>2. links' = [links EXCEPT ![a] = l]  BY <1>4
  <2> HIDE DEF l
  <2>3. l \in Links!Link  BY <1>2, <2>1 DEF Links!Link, Links!Statuses
  <2> QED  BY <1>2, <2>1, <2>2, <2>3 DEF LinksInductive, Links!TypesHold
<1>6. Links!TypesHold'  BY <1>4, <1>5 DEF LinksInductive, Links!TypesHold
<1>7. ~past.crossed /\ ~past.broken => OneSignal'
  BY <1>3, <1>4 DEF LinksInductive, OneSignal, Links!Of
<1>8. ASSUME ~past.crossed, ~past.broken, ~past.repeated PROVE NewestIsSignalled' /\ Serves(c)'
  <2>1. (\A b \in Links!Made : b <= a) /\ links[a] = [status |-> "PENDING", known |-> FALSE]
    BY <1>1, <1>8 DEF LinksInductive, Serves, Newest, a
  <2>2. Links!Made' = Links!Made /\ a \in Links!Made  BY <1>2, <1>5 DEF Links!Made, LinksFit
  <2>3. links'[a] = [status |-> "FAILED", known |-> FALSE]  BY <1>5, <2>1
  <2>4. \A b \in Links!Made' : Newest(b)' => b = a
    BY <1>2, <2>1, <2>2 DEF Newest, Links!Made, Links!Attempts
  <2>5. NewestIsSignalled'  BY <2>3, <2>4 DEF NewestIsSignalled
  <2> QED  BY <1>3, <2>1, <2>2, <2>3, <2>5 DEF Serves, Newest
<1>9. HasLink(c)' /\ \A b \in Links!Attempts : links[b] \in Links!Link
        => links'[b] \in Links!Link
  BY <1>3, <1>5 DEF HasLink
<1> QED  BY <1>1, <1>4, <1>6, <1>7, <1>8, <1>9, WorkKeepsLinks DEF LinksInductive, Links!Working

LEMMA HandleFailureKeepsLinks ==
  ASSUME LinksFit, LinksInductive, NEW c \in Trio, Links!HandleFailure(c) PROVE LinksInductive'
<1>1. calls[c].pc = "handle" /\ calls[c].pc \in Links!Working /\ Links!Continue(c, "handled")
  BY DEF Links!HandleFailure, Links!At, Links!Working
<1>2. calls'[c].pc = "handled" /\ \A d \in Trio : d # c => calls'[d] = calls[d]
  BY <1>1, GoesOn DEF Links!Working
<1>3. Links!TypesHold'
  BY DEF Links!HandleFailure, Links!Signalled, LinksInductive, Links!TypesHold
<1>4. Links!Of("CHECKOUT_PENDING")' = Links!Of("CHECKOUT_PENDING") /\ UNCHANGED <<links, past,
        profiled, sessions>>
  BY DEF Links!HandleFailure, Links!Signalled, Links!Of
<1>5. ~past.crossed /\ ~past.broken => OneSignal'
  BY <1>2, <1>4 DEF LinksInductive, OneSignal
<1>6. \A d \in Trio : calls[d].pc \in {"resolve", "pending"} => calls'[d].pc = calls[d].pc
  BY <1>1, <1>2
<1>7. NewestIsSignalled => NewestIsSignalled'
  BY <1>4, <1>6 DEF NewestIsSignalled, Newest, Links!Made
<1>8. Serves(c)' /\ HasLink(c)'  BY <1>2 DEF Serves, HasLink
<1> QED  BY <1>1, <1>3, <1>4, <1>5, <1>7, <1>8, WorkKeepsLinks DEF LinksInductive, Links!Working

LEMMA CrashKeepsLinks ==
  ASSUME LinksFit, LinksInductive, NEW c \in Trio, Links!Crash(c) PROVE LinksInductive'
<1>1. /\ calls[c].pc \in Links!Working /\ Links!Continue(c, "crashed")
      /\ past' = [past EXCEPT !.broken = TRUE] /\ UNCHANGED <<links, sessions, signals,
         profiled>>
  BY DEF Links!Crash
<1>2. /\ past' \in PastOfLinks
      /\ past'.broken /\ past'.crossed = past.crossed /\ past'.repeated = past.repeated
  BY <1>1 DEF LinksInductive, PastOfLinks
<1>3. Links!TypesHold'  BY <1>1 DEF LinksInductive, Links!TypesHold
<1>4. HasLink(c)'  BY <1>1, GoesOn DEF HasLink
<1>5. ~past.crossed /\ ~past'.broken /\ ~past.repeated => NewestIsSignalled' /\ Serves(c)'
  BY <1>2
<1> QED  BY <1>1, <1>2, <1>3, <1>4, <1>5, WorkKeepsLinks

-----------------------------------------------------------------------------
(* The client at Stripe.                                                   *)

LEMMA PayKeepsLinks ==
  ASSUME LinksFit, LinksInductive, NEW a \in Links!Attempts, Links!Pay(a)
  PROVE  LinksInductive'
<1>1. Links!TypesHold' /\ UNCHANGED <<links, signals, profiled, calls, past>>
  BY DEF Links!Pay, LinksInductive, Links!TypesHold
<1>2. /\ (Alone <=> Alone') /\ (OneSignal <=> OneSignal')
      /\ (NewestIsSignalled <=> NewestIsSignalled')
      /\ \A c \in Trio : (Serves(c) <=> Serves(c)') /\ (HasLink(c) <=> HasLink(c)')
  BY <1>1 DEF Alone, OneSignal, Links!Of, NewestIsSignalled, Newest, Links!Made, Serves, HasLink
<1>3. SessionsHaveLinks'  BY DEF Links!Pay, LinksInductive, Links!TypesHold, SessionsHaveLinks
<1> QED  BY <1>1, <1>2, <1>3 DEF LinksInductive

LEMMA CompleteKeepsLinks ==
  ASSUME LinksFit, LinksInductive, NEW a \in Links!Attempts, Links!Complete(a)
  PROVE  LinksInductive'
<1>1. CASE UNCHANGED links
  <2>1. UNCHANGED <<links, sessions, signals, profiled, calls, past>>
    BY <1>1 DEF Links!Complete
  <2>2. /\ (Alone <=> Alone') /\ (OneSignal <=> OneSignal')
        /\ (NewestIsSignalled <=> NewestIsSignalled') /\ (Links!TypesHold <=> Links!TypesHold')
        /\ (SessionsHaveLinks <=> SessionsHaveLinks')
        /\ \A c \in Trio : (Serves(c) <=> Serves(c)') /\ (HasLink(c) <=> HasLink(c)')
    BY <2>1 DEF Alone, OneSignal, Links!Of, NewestIsSignalled, Newest, Links!Made, Serves,
                HasLink, Links!TypesHold,
       SessionsHaveLinks
  <2> QED  BY <2>1, <2>2 DEF LinksInductive
<1>2. CASE ~UNCHANGED links
  <2>1. /\ links[a].known /\ links' = [links EXCEPT ![a].status = "COMPLETED"]
        /\ UNCHANGED <<sessions, signals, profiled, calls, past>>
    BY <1>2 DEF Links!Complete
  <2>2. links[a] \in Links!Link  BY DEF LinksInductive, SessionsHaveLinks, Links!Complete
  <2>3. /\ links' \in [Links!Attempts -> Links!Link \cup {None}]
        /\ links'[a] \in Links!Link /\ links'[a].status = "COMPLETED"
        /\ \A b \in Links!Attempts : b # a => links'[b] = links[b]
    <3> DEFINE l == [links[a] EXCEPT !.status = "COMPLETED"]
    <3>1. l = [status |-> "COMPLETED", known |-> links[a].known]  BY <2>2 DEF Links!Link
    <3>2. links' = [links EXCEPT ![a] = l]  BY <2>1
    <3> HIDE DEF l
    <3>3. l \in Links!Link  BY <2>2, <3>1 DEF Links!Link, Links!Statuses
    <3> QED  BY <3>1, <3>2, <3>3 DEF LinksInductive, Links!TypesHold
  <2>4. Links!TypesHold'  BY <2>1, <2>3 DEF LinksInductive, Links!TypesHold
  <2>5. Links!Made' = Links!Made  BY <2>2, <2>3 DEF Links!Made, LinksFit
  <2>6. Alone' <=> Alone  BY <2>1 DEF Alone
  <2>7. OneSignal' <=> OneSignal  BY <2>1 DEF OneSignal, Links!Of
  <2>8. NewestIsSignalled => NewestIsSignalled'
    BY <2>1, <2>3, <2>5 DEF NewestIsSignalled, Newest, Links!Of, Links!Made
  <2>9. ASSUME NEW c \in Trio, Serves(c) PROVE Serves(c)'
    BY <2>1, <2>3, <2>5, <2>9, <1>2 DEF Serves, Newest, LinksInductive, Links!Working
  <2>10. (\A c \in Trio : HasLink(c)') /\ SessionsHaveLinks'
    BY <2>1, <2>3 DEF LinksInductive, HasLink, SessionsHaveLinks, Links!Working
  <2> QED  BY <2>1, <2>4, <2>6, <2>7, <2>8, <2>9, <2>10 DEF LinksInductive
<1> QED  BY <1>1, <1>2

LEMMA InvoicePaidKeepsLinks ==
  ASSUME LinksFit, LinksInductive, Links!InvoicePaid
  PROVE  LinksInductive'
<1>1. UNCHANGED <<links, sessions, profiled, calls>>  BY DEF Links!InvoicePaid
<1>2. /\ past' \in PastOfLinks /\ past'.settled
      /\ past'.crossed = past.crossed /\ past'.repeated = past.repeated
      /\ past'.broken = past.broken
  BY DEF Links!InvoicePaid, LinksInductive, PastOfLinks
<1>3. Links!TypesHold'  BY <1>1 DEF Links!InvoicePaid, LinksInductive, Links!TypesHold
<1>4. Links!Of("CHECKOUT_PENDING")' \subseteq Links!Of("CHECKOUT_PENDING")
  BY DEF Links!InvoicePaid, Links!Of
<1>5. OneSignal => OneSignal'  BY <1>1, <1>4 DEF OneSignal
<1>6. NewestIsSignalled'  BY <1>2 DEF NewestIsSignalled
<1>7. /\ (Alone <=> Alone') /\ (SessionsHaveLinks <=> SessionsHaveLinks')
      /\ \A c \in Trio : (Serves(c) <=> Serves(c)') /\ (HasLink(c) <=> HasLink(c)')
  BY <1>1 DEF Alone, SessionsHaveLinks, Serves, Newest, Links!Made, HasLink
<1> QED  BY <1>1, <1>2, <1>3, <1>5, <1>6, <1>7 DEF LinksInductive

\* A step keeps the invariant.
LEMMA LinksStep ==
  ASSUME LinksFit, LinksInductive, [Links!Next]_(Links!vars)
  PROVE  LinksInductive'
<1>1. ASSUME UNCHANGED Links!vars PROVE LinksInductive'
  <2>1. UNCHANGED <<links, sessions, signals, profiled, calls, past>>  BY <1>1 DEF Links!vars
  <2>2. /\ (Alone <=> Alone') /\ (OneSignal <=> OneSignal')
        /\ (NewestIsSignalled <=> NewestIsSignalled') /\ (Links!TypesHold <=> Links!TypesHold')
        /\ (SessionsHaveLinks <=> SessionsHaveLinks')
        /\ \A c \in Trio : (Serves(c) <=> Serves(c)') /\ (HasLink(c) <=> HasLink(c)')
    BY <2>1 DEF Alone, OneSignal, Links!Of, NewestIsSignalled, Newest, Links!Made, Serves,
                HasLink, Links!TypesHold,
       SessionsHaveLinks
  <2> QED  BY <2>1, <2>2 DEF LinksInductive
<1>2. ASSUME NEW a \in Links!Attempts, Links!Pay(a) \/ Links!Complete(a) PROVE LinksInductive'
  BY <1>2, PayKeepsLinks, CompleteKeepsLinks
<1>3. ASSUME Links!InvoicePaid PROVE LinksInductive'  BY <1>3, InvoicePaidKeepsLinks
<1>4. ASSUME NEW c \in Trio, Links!Step(c) PROVE LinksInductive'
  BY <1>4, ConvertKeepsLinks, RegenerateKeepsLinks, UpsertLinkKeepsLinks,
     CreateSessionKeepsLinks,
     StoreSessionKeepsLinks, ResolveSignalsKeepsLinks, SignalPendingKeepsLinks, FailKeepsLinks,
     StoreFailureKeepsLinks, HandleFailureKeepsLinks, CrashKeepsLinks DEF Links!Step
<1> QED  BY <1>1, <1>2, <1>3, <1>4 DEF Links!Next

LEMMA LinksMean ==
  ASSUME LinksFit, LinksInductive
  PROVE  Links!TypesHold /\ Links!OnePendingSignal
<1>1. Links!TypesHold  BY DEF LinksInductive
<1>2. ASSUME Links!Quiet, ~past.crossed, ~past.broken
      PROVE  /\ Links!Cardinality(Links!Of("CHECKOUT_PENDING")) <= 1
             /\ Links!Made # {} /\ links[Links!Max(Links!Made)].status = "CREATED"
                     /\ ~past.repeated /\ profiled =>
                  Links!Of("CHECKOUT_PENDING") # {} \/ past.settled
  <2>1. Links!Cardinality(Links!Of("CHECKOUT_PENDING")) <= 1
    <3>1. \A s, t \in Links!Of("CHECKOUT_PENDING") : s = t
      BY <1>2 DEF LinksInductive, OneSignal
    <3>2. CASE Links!Of("CHECKOUT_PENDING") = {}  BY <3>2, FS_EmptySet, LinksCount
    <3>3. CASE Links!Of("CHECKOUT_PENDING") # {}
      <4>1. PICK s \in Links!Of("CHECKOUT_PENDING") : TRUE  BY <3>3
      <4>2. Links!Of("CHECKOUT_PENDING") = {s}  BY <3>1, <4>1
      <4>3. Links!Cardinality({s}) = 1  BY FS_Singleton, LinksCount
      <4> QED  BY <4>2, <4>3
    <3> QED  BY <3>2, <3>3
  <2>2. ASSUME Links!Made # {}, links[Links!Max(Links!Made)].status = "CREATED", ~past.repeated,
                 profiled
        PROVE  Links!Of("CHECKOUT_PENDING") # {} \/ past.settled
    <3>1. Links!Made \subseteq 0 .. MaxAttempt /\ MaxAttempt \in Nat
      BY DEF Links!Made, Links!Attempts, LinksFit
    <3>2. Links!Max(Links!Made) \in Links!Made
            /\ \A y \in Links!Made : y <= Links!Max(Links!Made)
      BY <2>2, <3>1, GreatestExists
    <3>3. Newest(Links!Max(Links!Made))  BY <3>2 DEF Newest
    <3>4. \A c \in Trio : calls[c].pc \notin {"resolve", "pending"}
      BY <1>2 DEF Links!Quiet, Links!Working
    <3>5. NewestIsSignalled  BY <1>2, <2>2 DEF LinksInductive
    <3> QED  BY <2>2, <3>2, <3>3, <3>4, <3>5 DEF NewestIsSignalled
  <2> QED  BY <2>1, <2>2
<1> QED  BY <1>1, <1>2 DEF Links!OnePendingSignal

\* A step leaves a link that was paid as it is.
LEMMA LinksStayPaid ==
  ASSUME LinksFit, LinksInductive, [Links!Next]_(Links!vars)
  PROVE  Links!StaysPaid
<1> SUFFICES ASSUME NEW a \in Links!Made, links[a].status = "COMPLETED",
                      links'[a].status # "COMPLETED",
                    ~past'.repeated, ~past'.crossed, ~past'.broken
             PROVE FALSE
  BY DEF Links!StaysPaid
<1>1. a \in Links!Attempts /\ links[a] \in Links!Link
  BY DEF Links!Made, LinksInductive, Links!TypesHold
<1>2. CASE UNCHANGED links  BY <1>2
<1>3. ASSUME NEW b \in Links!Attempts, Links!Complete(b) PROVE FALSE
  <2>1. b = a => links[b].known
    BY <1>3 DEF Links!Complete
  <2> QED  BY <1>1, <1>3, <2>1 DEF Links!Complete, LinksInductive, Links!TypesHold, Links!Link
<1>4. ASSUME NEW c \in Trio, Links!UpsertLink(c) \/ Links!StoreSession(c)
               \/ Links!StoreFailure(c)
      PROVE  FALSE
  <2>1. past' = past /\ calls[c].pc \in {"upsert", "created", "failed"}
    BY <1>4 DEF Links!UpsertLink, Links!StoreSession, Links!StoreFailure, Links!At
  <2>2. Serves(c)  BY <2>1 DEF LinksInductive
  <2>3. \A b \in Links!Attempts : b # calls[c].attempt => links'[b] = links[b]
    BY <1>4 DEF Links!UpsertLink, Links!StoreSession, Links!StoreFailure, LinksInductive,
                Links!TypesHold
  <2>4. a = calls[c].attempt  BY <1>1, <2>3
  <2>5. calls[c].pc = "upsert"  BY <2>1, <2>2, <2>4 DEF Serves
  <2> QED  BY <1>1, <2>2, <2>4, <2>5 DEF Serves, Links!Attempts
<1> QED
  BY <1>2, <1>3, <1>4 DEF Links!Next, Links!Step, Links!vars, Links!Pay, Links!InvoicePaid,
                          Links!Convert, Links!Regenerate, Links!CreateSession,
                          Links!ResolveSignals,
     Links!SignalPending, Links!Fail, Links!HandleFailure, Links!Crash

-----------------------------------------------------------------------------
(* Conversions answer truly (LeadConversion).                             *)

\* The component counts as its library does.
LEMMA LeadsCount == \A S : Leads!Cardinality(S) = Cardinality(S)
BY DEF Leads!Cardinality, Cardinality

\* What is known of a request about a lead.
LeadCall == [pc : Leads!Working \cup {"idle", "done", "answered", "notfound", "unsellable",
                "conflict", "crashed"},
             contact : Leads!People \cup {None}, company : Leads!Companies \cup {None},
               key : Keys \cup {None},
             answer : Leads!People \cup {None}, raced : BOOLEAN, late : BOOLEAN]

\* A conversion is about a contact that exists.
Converts(c) ==
  calls[c].pc \in {"scope", "check", "insert", "recover"} \cup Leads!Holding =>
    calls[c].contact \in Leads!People /\ contacts[calls[c].contact] # None

\* A lead whose company was not found makes the first one, or another came first.
Looked(c) ==
  calls[c].pc = "found" =>
    \/ calls[c].company \in companies
    \/ calls[c].company = None /\ (calls[c].late \/ companies = {})

\* A conversion is refused for its profile, an account in its way, or its key.
Refused(c) ==
  calls[c].pc \in {"recover", "conflict"} =>
    \/ calls[c].raced
    \/ Leads!Rivals(calls[c].contact, calls[c].company) # {}
    \/ calls[c].pc = "recover" /\ calls[c].key # None /\ keys[calls[c].key] # None

\* An answer is an account: the contact's own, or that of an earlier user of the key.
LeadTold(c) ==
  calls[c].pc = "answered" =>
    /\ \E a \in accounts : a.contact = calls[c].answer
    /\ \/ calls[c].answer = calls[c].contact
       \/ \E d \in Trio : /\ calls[d].pc = "answered" /\ calls[d].key = calls[c].key
                          /\ calls[d].contact # calls[c].contact

SoundLead(c) == Converts(c) /\ Looked(c) /\ Refused(c) /\ LeadTold(c)

\* A key on record was used by a conversion that was answered with its account.
KeysAreUsed ==
  \A k \in Keys : keys[k] # None =>
    /\ \E a \in accounts : a.contact = keys[k]
    /\ \E d \in Trio : calls[d].pc = "answered" /\ calls[d].key = k
       /\ calls[d].contact = keys[k]

\* Accounts, and rows that may become accounts, are apart.
Apart ==
  /\ \A a, b \in accounts : a = b \/ Leads!Unique(a, b)
  /\ \A c \in Trio : calls[c].pc \in Leads!Holding =>
       /\ \A a \in accounts : Leads!Unique(Leads!RowOf(c), a)
       /\ \A d \in Trio : d # c /\ calls[d].pc \in Leads!Holding
          => Leads!Unique(Leads!RowOf(c), Leads!RowOf(d))

\* The inductive invariant.
LeadsInductive ==
  /\ Leads!TypesHold
  /\ calls \in [Trio -> LeadCall]
  /\ past \in BOOLEAN
  /\ \A c \in Trio : SoundLead(c)
  /\ KeysAreUsed
  /\ Apart
  /\ past \/ (\A a, b \in companies : a = b) \/ companies \subseteq Firms

-----------------------------------------------------------------------------

\* Neither of two rows is in the way of the other.
LEMMA UniqueBothWays ==
  ASSUME NEW a, NEW b, Leads!Unique(a, b) PROVE Leads!Unique(b, a)
BY DEF Leads!Unique

LEMMA IdleLead ==
  /\ Leads!Idle \in LeadCall /\ Leads!Idle.pc = "idle" /\ Leads!Idle.answer = None
     /\ Leads!Idle.company = None
  /\ Leads!Idle.contact = None /\ Leads!Idle.key = None /\ Leads!Idle.raced = FALSE
     /\ Leads!Idle.late = FALSE
BY DEF Leads!Idle, LeadCall

LEMMA LeadsBegin == ASSUME LeadsFit, Leads!Init PROVE LeadsInductive
<1>1. \A c \in Trio : calls[c] = Leads!Idle  BY DEF Leads!Init
<1>2. calls \in [Trio -> LeadCall]  BY IdleLead DEF Leads!Init
<1>3. PICK firm \in companies \cup {None} :
        contacts = [p \in Leads!People |->
                      IF p \in Known THEN [status |-> "LEAD", company |-> firm] ELSE None]
  BY DEF Leads!Init
<1>4. companies \subseteq Firms /\ companies \subseteq Leads!Companies
  BY DEF Leads!Init, Leads!Companies
<1>5. [status |-> "LEAD", company |-> firm] \in
        [status : {"LEAD", "CUSTOMER"}, company : Leads!Companies \cup {None}]
  BY <1>3, <1>4
<1>6. contacts \in [Leads!People -> [status : {"LEAD", "CUSTOMER"}, company : Leads!Companies
        \cup {None}] \cup {None}]
  BY <1>3, <1>5
<1>7. Leads!TypesHold  BY <1>1, <1>4, <1>6, IdleLead DEF Leads!Init, Leads!TypesHold
<1>8. ASSUME NEW c \in Trio PROVE SoundLead(c) /\ calls[c].pc \notin Leads!Holding
  <2>1. calls[c].pc = "idle"  BY <1>1, IdleLead
  <2>2. calls[c].pc \notin {"scope", "check", "insert", "recover", "found", "conflict",
          "answered"}
        /\ calls[c].pc \notin Leads!Holding
    BY <2>1 DEF Leads!Holding
  <2> QED  BY <2>2 DEF SoundLead, Converts, Looked, Refused, LeadTold
<1>9. KeysAreUsed  BY DEF Leads!Init, KeysAreUsed
<1>10. Apart  BY <1>8 DEF Leads!Init, Apart
<1> QED  BY <1>2, <1>4, <1>7, <1>8, <1>9, <1>10 DEF LeadsInductive, Leads!Init

LEMMA LeadGoesTo ==
  ASSUME LeadsInductive, NEW c \in Trio, NEW r \in LeadCall, Leads!Goto(c, r)
  PROVE  /\ calls' \in [Trio -> LeadCall] /\ calls'[c] = r
         /\ \A d \in Trio : d # c => calls'[d] = calls[d]
BY DEF Leads!Goto, LeadsInductive

\* A call that goes on, or ends with an answer, keeps what was asked of it.
LEMMA LeadGoesOn ==
  ASSUME LeadsInductive, NEW c \in Trio,
         NEW pc \in Leads!Working \cup {"answered", "notfound", "unsellable", "conflict",
           "crashed"},
         NEW answer \in Leads!People \cup {None},
         \/ Leads!Continue(c, pc) /\ answer = calls[c].answer
         \/ Leads!Answer(c, pc, answer)
  PROVE  /\ calls' \in [Trio -> LeadCall]
         /\ calls'[c].pc = pc /\ calls'[c].answer = answer
         /\ calls'[c].contact = calls[c].contact /\ calls'[c].company = calls[c].company
         /\ calls'[c].key = calls[c].key /\ calls'[c].raced = calls[c].raced
         /\ \A d \in Trio : d # c => calls'[d] = calls[d]
<1> DEFINE r == [calls[c] EXCEPT !.pc = pc]
           q == [calls[c] EXCEPT !.pc = pc, !.answer = answer]
<1>1. calls[c] \in LeadCall  BY DEF LeadsInductive
<1>2. CASE Leads!Continue(c, pc) /\ answer = calls[c].answer
  <2>1. Leads!Goto(c, r)  BY <1>2 DEF Leads!Continue
  <2>2. /\ r \in LeadCall /\ r.pc = pc /\ r.answer = answer /\ r.contact = calls[c].contact
        /\ r.company = calls[c].company /\ r.key = calls[c].key /\ r.raced = calls[c].raced
    BY <1>1, <1>2 DEF LeadCall
  <2> HIDE DEF r
  <2> QED  BY <2>1, <2>2, LeadGoesTo
<1>3. CASE Leads!Answer(c, pc, answer)
  <2>1. Leads!Goto(c, q)  BY <1>3 DEF Leads!Answer
  <2>2. /\ q \in LeadCall /\ q.pc = pc /\ q.answer = answer /\ q.contact = calls[c].contact
        /\ q.company = calls[c].company /\ q.key = calls[c].key /\ q.raced = calls[c].raced
    BY <1>1 DEF LeadCall
  <2> HIDE DEF q
  <2> QED  BY <2>1, <2>2, LeadGoesTo
<1> QED  BY <1>2, <1>3

\* A call that does not move stays sound while the book grows.
LEMMA RestStaysSound ==
  ASSUME LeadsInductive, NEW c \in Trio, NEW d \in Trio, calls'[d] = calls[d],
         calls[c].pc # "answered", \A e \in Trio : e # c => calls'[e] = calls[e],
         accounts \subseteq accounts', companies' = companies,
         \A p \in Leads!People : contacts[p] # None => contacts'[p] # None,
         \A k \in Keys : keys[k] # None => keys'[k] # None
  PROVE  SoundLead(d)'
<1>1. Converts(d) /\ Looked(d) /\ Refused(d) /\ LeadTold(d)  BY DEF LeadsInductive, SoundLead
<1>2. calls[d] \in LeadCall  BY DEF LeadsInductive
<1>3. Converts(d)'  BY <1>1 DEF Converts, Leads!Holding
<1>4. Looked(d)'  BY <1>1 DEF Looked
<1>5. Refused(d)'
  <2>1. Leads!Rivals(calls[d].contact, calls[d].company)
          \subseteq Leads!Rivals(calls[d].contact, calls[d].company)'
    BY DEF Leads!Rivals
  <2>2. calls[d].key # None /\ keys[calls[d].key] # None => keys'[calls[d].key] # None
    BY <1>2 DEF LeadCall
  <2> QED  BY <1>1, <2>1, <2>2 DEF Refused
<1>6. LeadTold(d)'  BY <1>1 DEF LeadTold
<1> QED  BY <1>3, <1>4, <1>5, <1>6 DEF SoundLead

\* A step of one request that writes no account.
LEMMA QuietKeepsLeads ==
  ASSUME LeadsInductive, NEW c \in Trio, calls[c].pc # "answered",
         calls' \in [Trio -> LeadCall], \A e \in Trio : e # c => calls'[e] = calls[e],
         UNCHANGED <<accounts, keys, companies, past>>, Leads!TypesHold', SoundLead(c)',
         \A p \in Leads!People : contacts[p] # None => contacts'[p] # None,
         calls'[c].pc \in Leads!Holding =>
           /\ \A a \in accounts : Leads!Unique(Leads!RowOf(c)', a)
           /\ \A d \in Trio : d # c /\ calls[d].pc \in Leads!Holding
              => Leads!Unique(Leads!RowOf(c)', Leads!RowOf(d))
  PROVE  LeadsInductive'
<1>1. ASSUME NEW d \in Trio PROVE SoundLead(d)'
  <2>1. CASE d = c  BY <2>1
  <2>2. CASE d # c  BY <2>2, RestStaysSound
  <2> QED  BY <2>1, <2>2
<1>2. KeysAreUsed'  BY DEF LeadsInductive, KeysAreUsed
<1>3. Apart'
  <2>1. Apart  BY DEF LeadsInductive
  <2>2. \A d \in Trio : d # c => Leads!RowOf(d)' = Leads!RowOf(d)  BY DEF Leads!RowOf
  <2>3. \A a, b \in accounts' : a = b \/ Leads!Unique(a, b)  BY <2>1 DEF Apart
  <2>4. ASSUME NEW d \in Trio, calls'[d].pc \in Leads!Holding, NEW a \in accounts'
        PROVE  Leads!Unique(Leads!RowOf(d)', a)
    BY <2>1, <2>2, <2>4 DEF Apart
  <2>5. ASSUME NEW d \in Trio, NEW e \in Trio, d # e, calls'[d].pc \in Leads!Holding,
                 calls'[e].pc \in Leads!Holding
        PROVE  Leads!Unique(Leads!RowOf(d)', Leads!RowOf(e)')
    <3>1. CASE d = c  BY <2>2, <2>5, <3>1
    <3>2. CASE e = c
      <4>1. Leads!Unique(Leads!RowOf(c)', Leads!RowOf(d)')  BY <2>2, <2>5, <3>2
      <4> QED  BY <3>2, <4>1, UniqueBothWays
    <3>3. CASE d # c /\ e # c  BY <2>1, <2>2, <2>5, <3>3 DEF Apart
    <3> QED  BY <3>1, <3>2, <3>3
  <2> QED  BY <2>3, <2>4, <2>5 DEF Apart, Leads!Unique
<1> QED  BY <1>1, <1>2, <1>3 DEF LeadsInductive

-----------------------------------------------------------------------------

LEMMA FindCompanyKeepsLeads ==
  ASSUME LeadsFit, LeadsInductive, NEW c \in Trio, Leads!FindCompany(c) PROVE LeadsInductive'
<1>1. calls[c].pc = "idle" /\ UNCHANGED <<Leads!book, profiles, sellable, past>>
  BY DEF Leads!FindCompany, Leads!At
<1>2. PICK firm \in IF companies = {} THEN {None} ELSE companies :
        Leads!Goto(c, [Leads!Idle EXCEPT !.pc = "found", !.company = firm])
  BY DEF Leads!FindCompany
<1> DEFINE r == [Leads!Idle EXCEPT !.pc = "found", !.company = firm]
<1>3. firm \in Leads!Companies \cup {None}  BY DEF LeadsInductive, Leads!TypesHold
<1>4. r \in LeadCall /\ r.pc = "found" /\ r.company = firm /\ r.answer = None
  BY <1>3, IdleLead DEF LeadCall, Leads!Working
<1>5. Leads!Goto(c, r)  BY <1>2
<1> HIDE DEF r
<1>6. /\ calls' \in [Trio -> LeadCall] /\ calls'[c] = r
      /\ \A d \in Trio : d # c => calls'[d] = calls[d]
  BY <1>4, <1>5, LeadGoesTo
<1>7. Leads!TypesHold'  BY <1>1, <1>4, <1>6 DEF Leads!book, LeadsInductive, Leads!TypesHold
<1>8. SoundLead(c)'
  <2>1. Looked(c)'  BY <1>1, <1>2, <1>4, <1>6 DEF Looked, Leads!book
  <2>2. calls'[c].pc \notin {"scope", "check", "insert", "recover", "conflict", "answered"}
          \cup Leads!Holding
    BY <1>4, <1>6 DEF Leads!Holding
  <2> QED  BY <2>1, <2>2 DEF SoundLead, Converts, Refused, LeadTold
<1>9. calls'[c].pc \notin Leads!Holding  BY <1>4, <1>6 DEF Leads!Holding
<1> QED  BY <1>1, <1>6, <1>7, <1>8, <1>9, QuietKeepsLeads DEF Leads!book

LEMMA ConvertKeepsLeads ==
  ASSUME LeadsFit, LeadsInductive, NEW c \in Trio, Leads!Convert(c) PROVE LeadsInductive'
<1>1. calls[c].pc = "idle" /\ UNCHANGED <<Leads!book, profiles, sellable, past>>
  BY DEF Leads!Convert, Leads!At
<1>2. PICK p \in Leads!People, firm \in companies \cup {None}, key \in Keys \cup {None} :
        /\ contacts[p] # None
        /\ LET call == [Leads!Idle EXCEPT !.contact = p, !.company = firm, !.key = key] IN
             Leads!Goto(c, IF key # None /\ keys[key] # None
                           THEN [call EXCEPT !.pc = "answered", !.answer = keys[key]]
                           ELSE [call EXCEPT !.pc = "scope"])
  BY DEF Leads!Convert
<1>3. firm \in Leads!Companies \cup {None}  BY DEF LeadsInductive, Leads!TypesHold
<1> DEFINE call == [Leads!Idle EXCEPT !.contact = p, !.company = firm, !.key = key]
<1>4. /\ call \in LeadCall /\ call.contact = p /\ call.company = firm /\ call.key = key
      /\ call.answer = None
  BY <1>3, IdleLead DEF LeadCall
<1>5. CASE key # None /\ keys[key] # None
  <2> DEFINE r == [call EXCEPT !.pc = "answered", !.answer = keys[key]]
  <2>1. Leads!Goto(c, r)  BY <1>2, <1>5
  <2> HIDE DEF call
  <2>2. keys[key] \in Leads!People  BY <1>2, <1>5 DEF LeadsInductive, Leads!TypesHold
  <2>3. /\ r \in LeadCall /\ r.pc = "answered" /\ r.answer = keys[key] /\ r.contact = p
           /\ r.key = key
    BY <1>4, <2>2 DEF LeadCall
  <2> HIDE DEF r
  <2>4. /\ calls' \in [Trio -> LeadCall] /\ calls'[c] = r
        /\ \A d \in Trio : d # c => calls'[d] = calls[d]
    BY <2>1, <2>3, LeadGoesTo
  <2>5. Leads!TypesHold'
    BY <1>1, <2>2, <2>3, <2>4 DEF Leads!book, LeadsInductive, Leads!TypesHold
  <2>6. PICK d \in Trio : calls[d].pc = "answered" /\ calls[d].key = key
               /\ calls[d].contact = keys[key]
    BY <1>2, <1>5 DEF LeadsInductive, KeysAreUsed
  <2>7. \E a \in accounts : a.contact = keys[key]  BY <1>2, <1>5 DEF LeadsInductive, KeysAreUsed
  <2>8. calls'[d] = calls[d]  BY <1>1, <2>4, <2>6
  <2>9. LeadTold(c)'  BY <1>1, <2>3, <2>4, <2>6, <2>7, <2>8 DEF LeadTold, Leads!book
  <2>10. calls'[c].pc \notin {"scope", "check", "insert", "recover", "conflict", "found"}
           \cup Leads!Holding
    BY <2>3, <2>4 DEF Leads!Holding
  <2>11. SoundLead(c)'  BY <2>9, <2>10 DEF SoundLead, Converts, Refused, Looked
  <2> QED  BY <1>1, <2>4, <2>5, <2>10, <2>11, QuietKeepsLeads DEF Leads!book
<1>6. CASE ~(key # None /\ keys[key] # None)
  <2> DEFINE r == [call EXCEPT !.pc = "scope"]
  <2>1. Leads!Goto(c, r)  BY <1>2, <1>6
  <2> HIDE DEF call
  <2>2. r \in LeadCall /\ r.pc = "scope" /\ r.answer = None /\ r.contact = p
    BY <1>4 DEF LeadCall, Leads!Working
  <2> HIDE DEF r
  <2>3. /\ calls' \in [Trio -> LeadCall] /\ calls'[c] = r
        /\ \A d \in Trio : d # c => calls'[d] = calls[d]
    BY <2>1, <2>2, LeadGoesTo
  <2>4. Leads!TypesHold'  BY <1>1, <2>2, <2>3 DEF Leads!book, LeadsInductive, Leads!TypesHold
  <2>5. Converts(c)'  BY <1>1, <1>2, <2>2, <2>3 DEF Converts, Leads!book
  <2>6. calls'[c].pc \notin {"recover", "conflict", "found", "answered"} \cup Leads!Holding
    BY <2>2, <2>3 DEF Leads!Holding
  <2>7. SoundLead(c)'  BY <2>5, <2>6 DEF SoundLead, LeadTold, Refused, Looked
  <2> QED  BY <1>1, <2>3, <2>4, <2>6, <2>7, QuietKeepsLeads DEF Leads!book
<1> QED  BY <1>5, <1>6

\* A conversion that ends without an account.
LEMMA EndKeepsLeads ==
  ASSUME LeadsInductive, NEW c \in Trio, calls[c].pc # "answered",
         NEW pc \in {"notfound", "unsellable", "crashed"},
         Leads!Continue(c, pc) \/ Leads!Answer(c, pc, None),
         UNCHANGED <<Leads!book, profiles, sellable, past>>
  PROVE  LeadsInductive'
<1>1. None \in Leads!People \cup {None} /\ calls[c].answer \in Leads!People \cup {None}
  BY DEF LeadsInductive, Leads!TypesHold
<1>2. /\ calls' \in [Trio -> LeadCall] /\ calls'[c].pc = pc
      /\ calls'[c].answer \in Leads!People \cup {None}
      /\ \A d \in Trio : d # c => calls'[d] = calls[d]
  BY <1>1, LeadGoesOn
<1>3. Leads!TypesHold'  BY <1>2 DEF Leads!book, LeadsInductive, Leads!TypesHold
<1>4. calls'[c].pc \notin {"scope", "check", "insert", "recover", "conflict", "found",
        "answered"} \cup Leads!Holding
  BY <1>2 DEF Leads!Holding
<1>5. SoundLead(c)'  BY <1>4 DEF SoundLead, Converts, LeadTold, Refused, Looked
<1> QED  BY <1>2, <1>3, <1>4, <1>5, QuietKeepsLeads DEF Leads!book

\* A conversion that goes on.
LEMMA GoingOnKeepsLeads ==
  ASSUME LeadsInductive, NEW c \in Trio,
         NEW pc \in {"check", "insert", "recover"} \cup Leads!Holding,
         calls[c].pc \in {"scope", "check", "insert"} \cup Leads!Holding, Leads!Continue(c, pc),
         UNCHANGED <<Leads!book, sellable, past>>, profiles' \subseteq Leads!People
           \cup Leads!Companies,
         pc = "recover" =>
           \/ Leads!Rivals(calls[c].contact, calls[c].company) # {}
           \/ calls[c].key # None /\ keys[calls[c].key] # None,
         pc \in Leads!Holding =>
           /\ \A a \in accounts : Leads!Unique(Leads!RowOf(c), a)
           /\ \A d \in Trio : d # c /\ calls[d].pc \in Leads!Holding
              => Leads!Unique(Leads!RowOf(c), Leads!RowOf(d))
  PROVE  LeadsInductive'
<1>1. calls[c].answer \in Leads!People \cup {None} /\ pc \in Leads!Working
        /\ calls[c].pc # "answered"
  BY DEF LeadsInductive, Leads!TypesHold, Leads!Working, Leads!Holding
<1>2. /\ calls' \in [Trio -> LeadCall]
      /\ calls'[c].pc = pc /\ calls'[c].answer = calls[c].answer
      /\ calls'[c].contact = calls[c].contact /\ calls'[c].company = calls[c].company
      /\ calls'[c].key = calls[c].key
      /\ \A d \in Trio : d # c => calls'[d] = calls[d]
  BY <1>1, LeadGoesOn
<1>3. Leads!TypesHold'  BY <1>1, <1>2 DEF Leads!book, LeadsInductive, Leads!TypesHold
<1>4. Converts(c)'  BY <1>2 DEF LeadsInductive, SoundLead, Converts, Leads!book
<1>5. pc \notin {"conflict", "found", "answered"}  BY DEF Leads!Holding
<1>6. Refused(c)'  BY <1>2, <1>5 DEF Refused, Leads!Rivals, Leads!book
<1>7. SoundLead(c)'  BY <1>2, <1>4, <1>5, <1>6 DEF SoundLead, LeadTold, Looked
<1>8. Leads!RowOf(c)' = Leads!RowOf(c)  BY <1>2 DEF Leads!RowOf
<1> QED  BY <1>1, <1>2, <1>3, <1>7, <1>8, QuietKeepsLeads DEF Leads!book

LEMMA ResolveScopeKeepsLeads ==
  ASSUME LeadsFit, LeadsInductive, NEW c \in Trio, Leads!ResolveScope(c) PROVE LeadsInductive'
<1> DEFINE p == calls[c].contact
           company == IF calls[c].company = None THEN contacts[p].company ELSE calls[c].company
           r == [calls[c] EXCEPT !.pc = "check", !.company = company]
<1>1. calls[c].pc = "scope" /\ UNCHANGED <<Leads!book, profiles, sellable, past>>
  BY DEF Leads!ResolveScope, Leads!At
<1>2. CASE opportunities[p] # "OPEN"
  <2>1. Leads!Answer(c, "notfound", None)  BY <1>2 DEF Leads!ResolveScope
  <2> QED  BY <1>1, <2>1, EndKeepsLeads
<1>3. CASE opportunities[p] = "OPEN"
  <2>1. Leads!Goto(c, r)  BY <1>3 DEF Leads!ResolveScope
  <2>2. calls[c] \in LeadCall /\ p \in Leads!People /\ contacts[p] # None
    BY <1>1 DEF LeadsInductive, SoundLead, Converts
  <2>3. company \in Leads!Companies \cup {None}
    BY <2>2 DEF LeadCall, LeadsInductive, Leads!TypesHold
  <2> HIDE DEF company
  <2>4. /\ r \in LeadCall /\ r.pc = "check" /\ r.contact = calls[c].contact
        /\ r.answer = calls[c].answer
    BY <2>2, <2>3 DEF LeadCall, Leads!Working
  <2> HIDE DEF r
  <2>5. /\ calls' \in [Trio -> LeadCall] /\ calls'[c] = r
        /\ \A d \in Trio : d # c => calls'[d] = calls[d]
    BY <2>1, <2>4, LeadGoesTo
  <2>6. Leads!TypesHold'  BY <1>1, <2>4, <2>5 DEF Leads!book, LeadsInductive, Leads!TypesHold
  <2>7. Converts(c)'  BY <1>1, <2>2, <2>4, <2>5 DEF Converts, Leads!book
  <2>8. calls'[c].pc \notin {"recover", "conflict", "found", "answered"} \cup Leads!Holding
    BY <2>4, <2>5 DEF Leads!Holding
  <2>9. SoundLead(c)'  BY <2>7, <2>8 DEF SoundLead, LeadTold, Refused, Looked
  <2> QED  BY <1>1, <2>5, <2>6, <2>8, <2>9, QuietKeepsLeads DEF Leads!book
<1> QED  BY <1>2, <1>3

LEMMA CheckDuplicateKeepsLeads ==
  ASSUME LeadsFit, LeadsInductive, NEW c \in Trio, Leads!CheckDuplicate(c) PROVE LeadsInductive'
<1>1. calls[c].pc = "check" /\ UNCHANGED <<Leads!book, profiles, sellable, past>>
  BY DEF Leads!CheckDuplicate, Leads!At
<1>2. CASE ~sellable
  <2>1. Leads!Answer(c, "unsellable", None)  BY <1>2 DEF Leads!CheckDuplicate
  <2> QED  BY <1>1, <2>1, EndKeepsLeads
<1>3. CASE sellable /\ Leads!Rivals(calls[c].contact, calls[c].company) # {}
  <2>1. Leads!Answer(c, "conflict", None)  BY <1>3 DEF Leads!CheckDuplicate
  <2>2. /\ calls' \in [Trio -> LeadCall] /\ calls'[c].pc = "conflict" /\ calls'[c].answer = None
        /\ calls'[c].contact = calls[c].contact /\ calls'[c].company = calls[c].company
        /\ \A d \in Trio : d # c => calls'[d] = calls[d]
    BY <2>1, LeadGoesOn
  <2>3. Leads!TypesHold'  BY <1>1, <2>2 DEF Leads!book, LeadsInductive, Leads!TypesHold
  <2>4. Refused(c)'  BY <1>1, <1>3, <2>2 DEF Refused, Leads!Rivals, Leads!book
  <2>5. calls'[c].pc \notin {"scope", "check", "insert", "recover", "found", "answered"}
          \cup Leads!Holding
    BY <2>2 DEF Leads!Holding
  <2>6. SoundLead(c)'  BY <2>4, <2>5 DEF SoundLead, Converts, LeadTold, Looked
  <2> QED  BY <1>1, <2>2, <2>3, <2>5, <2>6, QuietKeepsLeads DEF Leads!book
<1>4. CASE sellable /\ Leads!Rivals(calls[c].contact, calls[c].company) = {}
  <2>1. Leads!Continue(c, "insert")  BY <1>4 DEF Leads!CheckDuplicate
  <2>2. profiles' \subseteq Leads!People \cup Leads!Companies
    BY <1>1 DEF LeadsInductive, Leads!TypesHold
  <2>3. "insert" \notin Leads!Holding  BY DEF Leads!Holding
  <2> QED  BY <1>1, <2>1, <2>2, <2>3, GoingOnKeepsLeads
<1> QED  BY <1>2, <1>3, <1>4

LEMMA InsertAccountKeepsLeads ==
  ASSUME LeadsFit, LeadsInductive, NEW c \in Trio, Leads!InsertAccount(c) PROVE LeadsInductive'
<1>1. calls[c].pc = "insert" /\ UNCHANGED <<Leads!book, profiles, sellable, past>>
  BY DEF Leads!InsertAccount, Leads!At
<1>2. \A d \in Trio : d # c /\ calls[d].pc \in Leads!Holding
        => Leads!Unique(Leads!RowOf(c), Leads!RowOf(d))
  BY DEF Leads!InsertAccount
<1>3. profiles' \subseteq Leads!People \cup Leads!Companies
  BY <1>1 DEF LeadsInductive, Leads!TypesHold
<1>4. CASE \A a \in accounts : Leads!Unique(Leads!RowOf(c), a)
  <2>1. Leads!Continue(c, "profile")  BY <1>4 DEF Leads!InsertAccount
  <2>2. "profile" \in Leads!Holding  BY DEF Leads!Holding
  <2> QED  BY <1>1, <1>2, <1>3, <1>4, <2>1, <2>2, GoingOnKeepsLeads
<1>5. CASE ~\A a \in accounts : Leads!Unique(Leads!RowOf(c), a)
  <2>1. Leads!Continue(c, "recover") /\ "recover" \notin Leads!Holding
    BY <1>5 DEF Leads!InsertAccount, Leads!Holding
  <2>2. Leads!Rivals(calls[c].contact, calls[c].company) # {}
    <3>1. PICK a \in accounts : ~Leads!Unique(Leads!RowOf(c), a)  BY <1>5
    <3>2. a \in Leads!Rivals(calls[c].contact, calls[c].company)
      BY <3>1 DEF Leads!Unique, Leads!RowOf, Leads!Rivals
    <3> QED  BY <3>2
  <2> QED  BY <1>1, <1>3, <2>1, <2>2, GoingOnKeepsLeads
<1> QED  BY <1>4, <1>5

LEMMA FindProfileKeepsLeads ==
  ASSUME LeadsFit, LeadsInductive, NEW c \in Trio, Leads!FindProfile(c) PROVE LeadsInductive'
<1>1. calls[c].pc \in Leads!Holding /\ UNCHANGED <<Leads!book, profiles, sellable, past>>
  BY DEF Leads!FindProfile, Leads!At, Leads!Holding
<1>2. /\ \A a \in accounts : Leads!Unique(Leads!RowOf(c), a)
      /\ \A d \in Trio : d # c /\ calls[d].pc \in Leads!Holding
         => Leads!Unique(Leads!RowOf(c), Leads!RowOf(d))
  BY <1>1 DEF LeadsInductive, Apart
<1>3. \E pc \in {"commit", "open"} : Leads!Continue(c, pc)  BY DEF Leads!FindProfile
<1>4. profiles' \subseteq Leads!People \cup Leads!Companies /\ {"commit", "open"}
        \subseteq Leads!Holding
  BY <1>1 DEF LeadsInductive, Leads!TypesHold, Leads!Holding
<1> QED  BY <1>1, <1>2, <1>3, <1>4, GoingOnKeepsLeads

LEMMA OpenProfileKeepsLeads ==
  ASSUME LeadsFit, LeadsInductive, NEW c \in Trio, Leads!OpenProfile(c) PROVE LeadsInductive'
<1>1. calls[c].pc = "open" /\ calls[c].pc \in Leads!Holding /\ UNCHANGED <<Leads!book, sellable,
        past>>
  BY DEF Leads!OpenProfile, Leads!At, Leads!Holding
<1>2. calls[c] \in LeadCall /\ calls[c].contact \in Leads!People
        /\ contacts[calls[c].contact] # None
  BY <1>1 DEF LeadsInductive, SoundLead, Converts
<1>3. CASE Leads!Subject(c) \notin profiles
  <2>1. profiles' = profiles \cup {Leads!Subject(c)} /\ Leads!Continue(c, "commit")
    BY <1>3 DEF Leads!OpenProfile
  <2>2. Leads!Subject(c) \in Leads!People \cup Leads!Companies
    BY <1>2 DEF Leads!Subject, LeadCall
  <2>3. profiles' \subseteq Leads!People \cup Leads!Companies
    BY <2>1, <2>2 DEF LeadsInductive, Leads!TypesHold
  <2>4. /\ \A a \in accounts : Leads!Unique(Leads!RowOf(c), a)
        /\ \A d \in Trio : d # c /\ calls[d].pc \in Leads!Holding
           => Leads!Unique(Leads!RowOf(c), Leads!RowOf(d))
        /\ "commit" \in Leads!Holding
    BY <1>1 DEF LeadsInductive, Apart, Leads!Holding
  <2> QED  BY <1>1, <2>1, <2>3, <2>4, GoingOnKeepsLeads
<1>4. CASE Leads!Subject(c) \in profiles
  <2> DEFINE r == [calls[c] EXCEPT !.pc = "recover", !.raced = TRUE]
  <2>1. Leads!Goto(c, r) /\ UNCHANGED profiles  BY <1>4 DEF Leads!OpenProfile
  <2>2. /\ r \in LeadCall /\ r.pc = "recover" /\ r.raced /\ r.contact = calls[c].contact
        /\ r.answer = calls[c].answer
    BY <1>2 DEF LeadCall, Leads!Working
  <2> HIDE DEF r
  <2>3. /\ calls' \in [Trio -> LeadCall] /\ calls'[c] = r
        /\ \A d \in Trio : d # c => calls'[d] = calls[d]
    BY <2>1, <2>2, LeadGoesTo
  <2>4. Leads!TypesHold'
    BY <1>1, <2>1, <2>2, <2>3 DEF Leads!book, LeadsInductive, Leads!TypesHold
  <2>5. Converts(c)'  BY <1>1, <1>2, <2>2, <2>3 DEF Converts, Leads!book
  <2>6. Refused(c)'  BY <2>2, <2>3 DEF Refused
  <2>7. calls'[c].pc \notin {"found", "answered"} \cup Leads!Holding
    BY <2>2, <2>3 DEF Leads!Holding
  <2>8. SoundLead(c)'  BY <2>5, <2>6, <2>7 DEF SoundLead, LeadTold, Looked
  <2> QED  BY <1>1, <2>3, <2>4, <2>7, <2>8, QuietKeepsLeads DEF Leads!book
<1> QED  BY <1>3, <1>4

LEMMA RecoverKeepsLeads ==
  ASSUME LeadsFit, LeadsInductive, NEW c \in Trio, Leads!Recover(c) PROVE LeadsInductive'
<1> DEFINE account == Leads!Recovered(calls[c])
           pc == IF account = None THEN "conflict" ELSE "answered"
<1>1. /\ calls[c].pc = "recover" /\ Leads!Answer(c, pc, account) /\ UNCHANGED <<Leads!book,
         profiles, sellable, past>>
  BY DEF Leads!Recover, Leads!At
<1>2. calls[c] \in LeadCall  BY DEF LeadsInductive
<1>3. account \in Leads!People \cup {None} /\ (account # None =>
        calls[c].key \in Keys /\ account = keys[calls[c].key])
  BY <1>2 DEF Leads!Recovered, LeadCall, LeadsInductive, Leads!TypesHold
<1>4. account = None => ~(calls[c].key # None /\ keys[calls[c].key] # None)
  BY DEF Leads!Recovered
<1> HIDE DEF account
<1>5. pc \in {"conflict", "answered"} /\ (pc = "conflict" <=> account = None)  OBVIOUS
<1> HIDE DEF pc
<1>6. /\ calls' \in [Trio -> LeadCall]
      /\ calls'[c].pc = pc /\ calls'[c].answer = account
      /\ calls'[c].contact = calls[c].contact /\ calls'[c].company = calls[c].company
      /\ calls'[c].key = calls[c].key /\ calls'[c].raced = calls[c].raced
      /\ \A d \in Trio : d # c => calls'[d] = calls[d]
  BY <1>1, <1>3, <1>5, LeadGoesOn
<1>7. Leads!TypesHold'  BY <1>1, <1>3, <1>6 DEF Leads!book, LeadsInductive, Leads!TypesHold
<1>8. Refused(c)'
  <2>1. Refused(c)  BY DEF LeadsInductive, SoundLead
  <2> QED  BY <1>1, <1>4, <1>5, <1>6, <2>1 DEF Refused, Leads!Rivals, Leads!book
<1>9. LeadTold(c)'
  <2>1. CASE account = None  BY <1>5, <1>6, <2>1 DEF LeadTold
  <2>2. CASE account # None
    <3>1. PICK d \in Trio : /\ calls[d].pc = "answered" /\ calls[d].key = calls[c].key
                            /\ calls[d].contact = account
      BY <1>3, <2>2 DEF LeadsInductive, KeysAreUsed
    <3>2. \E a \in accounts : a.contact = account  BY <1>3, <2>2 DEF LeadsInductive, KeysAreUsed
    <3>3. calls'[d] = calls[d]  BY <1>1, <1>6, <3>1
    <3> QED  BY <1>1, <1>6, <3>1, <3>2, <3>3 DEF LeadTold, Leads!book
  <2> QED  BY <2>1, <2>2
<1>10. calls'[c].pc \notin {"scope", "check", "insert", "recover", "found"} \cup Leads!Holding
  BY <1>5, <1>6 DEF Leads!Holding
<1>11. SoundLead(c)'  BY <1>8, <1>9, <1>10 DEF SoundLead, Converts, Looked
<1> QED  BY <1>1, <1>6, <1>7, <1>10, <1>11, QuietKeepsLeads DEF Leads!book

LEMMA CommitConversionKeepsLeads ==
  ASSUME LeadsFit, LeadsInductive, NEW c \in Trio, Leads!CommitConversion(c)
  PROVE  LeadsInductive'
<1> DEFINE key == calls[c].key
           p == calls[c].contact
<1>1. calls[c].pc = "commit" /\ calls[c].pc \in Leads!Holding /\ UNCHANGED <<companies,
        profiles, sellable, past>>
  BY DEF Leads!CommitConversion, Leads!At, Leads!Holding
<1>2. CASE key # None /\ keys[key] # None
  <2>1. Leads!Continue(c, "recover") /\ UNCHANGED <<accounts, keys, contacts, opportunities>>
    BY <1>2 DEF Leads!CommitConversion
  <2>2. profiles' \subseteq Leads!People \cup Leads!Companies /\ "recover" \notin Leads!Holding
    BY <1>1 DEF LeadsInductive, Leads!TypesHold, Leads!Holding
  <2> QED  BY <1>1, <1>2, <2>1, <2>2, GoingOnKeepsLeads DEF Leads!book
<1>3. CASE ~(key # None /\ keys[key] # None)
  <2>1. /\ accounts' = accounts \cup {Leads!RowOf(c)}
        /\ keys' = [k \in Keys |-> IF k = key THEN p ELSE keys[k]]
        /\ contacts' = [contacts EXCEPT ![p].status = "CUSTOMER"]
        /\ opportunities' = [opportunities EXCEPT ![p] = "WON"]
        /\ Leads!Answer(c, "answered", p)
    BY <1>3 DEF Leads!CommitConversion
  <2>2. calls[c] \in LeadCall /\ p \in Leads!People /\ contacts[p] # None
    BY <1>1 DEF LeadsInductive, SoundLead, Converts
  <2>3. /\ calls' \in [Trio -> LeadCall]
        /\ calls'[c].pc = "answered" /\ calls'[c].answer = p
        /\ calls'[c].contact = p /\ calls'[c].key = key
        /\ \A d \in Trio : d # c => calls'[d] = calls[d]
    BY <2>1, <2>2, LeadGoesOn
  <2>4. Leads!RowOf(c) \in Leads!Account /\ Leads!RowOf(c).contact = p
    BY <2>2 DEF Leads!RowOf, Leads!Account, LeadCall
  <2> HIDE DEF key, p
  <2>5. /\ contacts' \in [Leads!People -> [status : {"LEAD", "CUSTOMER"},
           company : Leads!Companies \cup {None}] \cup {None}]
        /\ \A q \in Leads!People : contacts[q] # None => contacts'[q] # None
    <3> DEFINE T == [status : {"LEAD", "CUSTOMER"}, company : Leads!Companies \cup {None}]
               x == [contacts[p] EXCEPT !.status = "CUSTOMER"]
    <3>1. contacts \in [Leads!People -> T \cup {None}]  BY DEF LeadsInductive, Leads!TypesHold
    <3>2. contacts[p] \in T  BY <2>2, <3>1
    <3>3. x \in T  BY <3>2
    <3>4. contacts' = [contacts EXCEPT ![p] = x]  BY <2>1
    <3>5. None \notin T  BY DEF LeadsFit
    <3> HIDE DEF x, T
    <3>6. contacts' \in [Leads!People -> T \cup {None}]
            /\ \A q \in Leads!People : contacts[q] # None => contacts'[q] # None
      BY <2>2, <3>1, <3>3, <3>4, <3>5
    <3> QED  BY <3>6 DEF T
  <2>6. keys' \in [Keys -> Leads!People \cup {None}] /\ \A k \in Keys : keys[k] # None
          => keys'[k] # None
    BY <2>1, <2>2 DEF LeadsInductive, Leads!TypesHold, LeadsFit
  <2>7. Leads!TypesHold'
    <3>1. opportunities' \in [Leads!People -> {"OPEN", "WON", "LOST", None}]
      BY <2>1, <2>2 DEF LeadsInductive, Leads!TypesHold
    <3>2. accounts' \subseteq Leads!Account  BY <2>1, <2>4 DEF LeadsInductive, Leads!TypesHold
    <3>3. \A d \in Trio : calls'[d].answer \in Leads!People \cup {None}
      BY <2>2, <2>3 DEF LeadsInductive, Leads!TypesHold
    <3> QED  BY <1>1, <2>5, <2>6, <3>1, <3>2, <3>3 DEF LeadsInductive, Leads!TypesHold
  <2>8. accounts \subseteq accounts' /\ Leads!RowOf(c) \in accounts'  BY <2>1
  <2>9. calls[c].pc # "answered"  BY <1>1
  <2>10. ASSUME NEW d \in Trio PROVE SoundLead(d)'
    <3>1. CASE d = c
      <4>1. calls'[d].pc \notin {"scope", "check", "insert", "recover", "found", "conflict"}
              \cup Leads!Holding
        BY <2>3, <3>1 DEF Leads!Holding
      <4>2. LeadTold(d)'  BY <2>3, <2>4, <2>8, <3>1 DEF LeadTold
      <4> QED  BY <4>1, <4>2 DEF SoundLead, Converts, Refused, Looked
    <3>2. CASE d # c
      <4>1. calls'[d] = calls[d] /\ companies' = companies  BY <1>1, <2>3, <3>2
      <4> QED  BY <2>3, <2>5, <2>6, <2>8, <2>9, <4>1, RestStaysSound
    <3> QED  BY <3>1, <3>2
  <2>11. KeysAreUsed'
    <3>1. ASSUME NEW k \in Keys, keys'[k] # None
          PROVE  /\ \E a \in accounts' : a.contact = keys'[k]
                 /\ \E d \in Trio : calls'[d].pc = "answered" /\ calls'[d].key = k
                    /\ calls'[d].contact = keys'[k]
      <4>1. CASE k = key
        <5>1. keys'[k] = p  BY <2>1, <4>1
        <5> QED  BY <2>3, <2>4, <2>8, <4>1, <5>1
      <4>2. CASE k # key
        <5>1. keys'[k] = keys[k]  BY <2>1, <4>2
        <5>2. PICK a \in accounts : a.contact = keys[k]
          BY <3>1, <5>1 DEF LeadsInductive, KeysAreUsed
        <5>3. PICK d \in Trio : calls[d].pc = "answered" /\ calls[d].key = k
                     /\ calls[d].contact = keys[k]
          BY <3>1, <5>1 DEF LeadsInductive, KeysAreUsed
        <5>4. calls'[d] = calls[d]  BY <2>3, <2>9, <5>3
        <5> QED  BY <2>8, <5>1, <5>2, <5>3, <5>4
      <4> QED  BY <4>1, <4>2
    <3> QED  BY <3>1 DEF KeysAreUsed
  <2>12. Apart'
    <3>1. Apart  BY DEF LeadsInductive
    <3>2. calls'[c].pc \notin Leads!Holding /\ \A d \in Trio : d # c
            => Leads!RowOf(d)' = Leads!RowOf(d) /\ calls'[d] = calls[d]
      BY <2>3 DEF Leads!RowOf, Leads!Holding
    <3>3. ASSUME NEW a \in accounts', NEW b \in accounts' PROVE a = b \/ Leads!Unique(a, b)
      <4>1. \A x \in accounts : Leads!Unique(Leads!RowOf(c), x)  BY <1>1, <3>1 DEF Apart
      <4>2. \A x \in accounts : Leads!Unique(x, Leads!RowOf(c))  BY <4>1, UniqueBothWays
      <4> QED  BY <2>1, <3>1, <4>1, <4>2 DEF Apart
    <3>4. ASSUME NEW d \in Trio, calls'[d].pc \in Leads!Holding, NEW a \in accounts'
          PROVE  Leads!Unique(Leads!RowOf(d)', a)
      <4>1. d # c  BY <3>2, <3>4
      <4> QED  BY <1>1, <2>1, <3>1, <3>2, <3>4, <4>1 DEF Apart
    <3>5. ASSUME NEW d \in Trio, NEW e \in Trio, d # e, calls'[d].pc \in Leads!Holding,
                   calls'[e].pc \in Leads!Holding
          PROVE  Leads!Unique(Leads!RowOf(d)', Leads!RowOf(e)')
      <4>1. d # c /\ e # c  BY <3>2, <3>5
      <4> QED  BY <3>1, <3>2, <3>5, <4>1 DEF Apart
    <3> QED  BY <3>3, <3>4, <3>5 DEF Apart, Leads!Unique
  <2> QED  BY <1>1, <2>3, <2>7, <2>10, <2>11, <2>12 DEF LeadsInductive
<1> QED  BY <1>2, <1>3

LEMMA CrashKeepsLeads ==
  ASSUME LeadsFit, LeadsInductive, NEW c \in Trio, Leads!Crash(c) PROVE LeadsInductive'
BY EndKeepsLeads DEF Leads!Crash, Leads!Working, Leads!Holding

\* A lead is made; those who look for its company learn that they are late.
LEMMA CreateLeadKeepsLeads ==
  ASSUME LeadsFit, LeadsInductive, NEW c \in Trio, Leads!CreateLead(c) PROVE LeadsInductive'
<1> DEFINE firm == Leads!CompanyFor(c)
           row == [status |-> "LEAD", company |-> firm]
<1>1. /\ calls[c].pc = "found" /\ companies' = companies \cup {firm}
      /\ contacts' = [contacts EXCEPT ![c] = row]
      /\ opportunities' = [opportunities EXCEPT ![c] = "OPEN"]
      /\ past' = (past \/ (firm \notin companies /\ calls[c].late))
      /\ UNCHANGED <<accounts, keys, profiles, sellable>>
  BY DEF Leads!CreateLead, Leads!At
<1>2. calls[c] \in LeadCall /\ Looked(c)  BY DEF LeadsInductive, SoundLead
<1>3. firm \in Leads!Companies /\ c \in Leads!People
  BY <1>2 DEF Leads!CompanyFor, Leads!Companies, Leads!People, LeadCall
<1>4. \/ firm \in companies
      \/ companies = {} /\ companies' = {firm}
      \/ past'
  <2>1. None \notin companies  BY DEF LeadsInductive, Leads!TypesHold, LeadsFit
  <2>2. CASE calls[c].company \in companies  BY <2>1, <2>2 DEF Leads!CompanyFor
  <2>3. CASE calls[c].company = None /\ companies = {}  BY <1>1, <2>3
  <2>4. CASE calls[c].company = None /\ calls[c].late  BY <1>1, <2>4
  <2> QED  BY <1>1, <1>2, <2>2, <2>3, <2>4 DEF Looked
<1> HIDE DEF firm
<1>5. row \in [status : {"LEAD", "CUSTOMER"}, company : Leads!Companies \cup {None}]  BY <1>3
<1> HIDE DEF row
<1>6. /\ contacts' \in [Leads!People -> [status : {"LEAD", "CUSTOMER"},
         company : Leads!Companies \cup {None}] \cup {None}]
      /\ \A p \in Leads!People : contacts[p] # None => contacts'[p] # None
  BY <1>1, <1>3, <1>5 DEF LeadsInductive, Leads!TypesHold, LeadsFit
<1>7. [Leads!Idle EXCEPT !.pc = "done"] \in LeadCall
        /\ [Leads!Idle EXCEPT !.pc = "done"].pc = "done"
      /\ [Leads!Idle EXCEPT !.pc = "done"].answer = None
  BY IdleLead DEF LeadCall
<1>8. calls'[c].pc = "done" /\ calls'[c] \in LeadCall /\ calls'[c].answer = None
  <2>1. calls'[c] = [Leads!Idle EXCEPT !.pc = "done"]  BY DEF Leads!CreateLead
  <2> QED  BY <1>7, <2>1
<1>9. ASSUME NEW d \in Trio, d # c
      PROVE  /\ calls'[d] \in LeadCall /\ calls'[d].pc = calls[d].pc
                /\ calls'[d].contact = calls[d].contact
             /\ calls'[d].company = calls[d].company /\ calls'[d].key = calls[d].key
             /\ calls'[d].answer = calls[d].answer /\ calls'[d].raced = calls[d].raced
             /\ calls[d].pc = "found" => calls'[d].late
  <2>1. calls[d] \in LeadCall  BY DEF LeadsInductive
  <2>2. CASE calls[d].pc = "found"
    <3>1. calls'[d] = [calls[d] EXCEPT !.late = TRUE]
      BY <1>9, <2>2 DEF Leads!CreateLead, Leads!At
    <3> QED  BY <2>1, <3>1 DEF LeadCall
  <2>3. CASE calls[d].pc # "found"
    <3>1. calls'[d] = calls[d]  BY <1>9, <2>3 DEF Leads!CreateLead, Leads!At
    <3> QED  BY <2>1, <2>3, <3>1
  <2> QED  BY <2>2, <2>3
<1>10. calls' \in [Trio -> LeadCall]
  <2>1. calls' = [d \in Trio |-> calls'[d]]  BY DEF Leads!CreateLead
  <2>2. \A d \in Trio : calls'[d] \in LeadCall  BY <1>8, <1>9
  <2> QED  BY <2>1, <2>2
<1>11. Leads!TypesHold'
  <2>1. \A d \in Trio : calls'[d].answer \in Leads!People \cup {None}
    BY <1>8, <1>9 DEF LeadsInductive, Leads!TypesHold
  <2>2. opportunities' \in [Leads!People -> {"OPEN", "WON", "LOST", None}]
    BY <1>1, <1>3 DEF LeadsInductive, Leads!TypesHold
  <2> QED  BY <1>1, <1>3, <1>6, <2>1, <2>2 DEF LeadsInductive, Leads!TypesHold
<1>12. ASSUME NEW d \in Trio PROVE SoundLead(d)'
  <2>1. CASE d = c
    <3>1. calls'[d].pc \notin {"scope", "check", "insert", "recover", "found", "conflict",
            "answered"} \cup Leads!Holding
      BY <1>8, <2>1 DEF Leads!Holding
    <3> QED  BY <3>1 DEF SoundLead, Converts, Refused, Looked, LeadTold
  <2>2. CASE d # c
    <3>1. Converts(d) /\ Looked(d) /\ Refused(d) /\ LeadTold(d)
      BY DEF LeadsInductive, SoundLead
    <3>2. Converts(d)'  BY <1>6, <1>9, <2>2, <3>1 DEF Converts
    <3>3. Looked(d)'  BY <1>1, <1>9, <2>2, <3>1 DEF Looked
    <3>4. Refused(d)'  BY <1>1, <1>9, <2>2, <3>1 DEF Refused, Leads!Rivals
    <3>5. LeadTold(d)'
      <4>1. \A e \in Trio : calls[e].pc = "answered" => e # c  BY <1>1
      <4> QED  BY <1>1, <1>9, <2>2, <3>1, <4>1 DEF LeadTold
    <3> QED  BY <3>2, <3>3, <3>4, <3>5 DEF SoundLead
  <2> QED  BY <2>1, <2>2
<1>13. KeysAreUsed'
  <2>1. \A e \in Trio : calls[e].pc = "answered" => e # c  BY <1>1
  <2>2. KeysAreUsed  BY DEF LeadsInductive
  <2> QED  BY <1>1, <1>9, <2>1, <2>2 DEF KeysAreUsed
<1>14. Apart'
  <2>1. Apart  BY DEF LeadsInductive
  <2>2. calls'[c].pc \notin Leads!Holding  BY <1>8 DEF Leads!Holding
  <2>3. \A d \in Trio : d # c => Leads!RowOf(d)' = Leads!RowOf(d) /\ calls'[d].pc = calls[d].pc
    BY <1>9 DEF Leads!RowOf
  <2>4. \A a, b \in accounts' : a = b \/ Leads!Unique(a, b)  BY <1>1, <2>1 DEF Apart
  <2>5. ASSUME NEW d \in Trio, calls'[d].pc \in Leads!Holding, NEW a \in accounts'
        PROVE  Leads!Unique(Leads!RowOf(d)', a)
    BY <1>1, <2>1, <2>2, <2>3, <2>5 DEF Apart
  <2>6. ASSUME NEW d \in Trio, NEW e \in Trio, d # e, calls'[d].pc \in Leads!Holding,
                 calls'[e].pc \in Leads!Holding
        PROVE  Leads!Unique(Leads!RowOf(d)', Leads!RowOf(e)')
    BY <2>1, <2>2, <2>3, <2>6 DEF Apart
  <2> QED  BY <2>4, <2>5, <2>6 DEF Apart, Leads!Unique
<1>15. past' \/ (\A a, b \in companies' : a = b) \/ companies' \subseteq Firms
  BY <1>1, <1>4 DEF LeadsInductive
<1>16. past' \in BOOLEAN  BY <1>1, <1>2 DEF LeadsInductive, LeadCall
<1> QED  BY <1>10, <1>11, <1>12, <1>13, <1>14, <1>15, <1>16 DEF LeadsInductive

-----------------------------------------------------------------------------

\* What happens beside the requests.
LEMMA OthersKeepLeads ==
  ASSUME LeadsInductive, UNCHANGED <<contacts, companies, accounts, keys, calls, past>>,
         Leads!TypesHold'
  PROVE  LeadsInductive'
<1>1. ASSUME NEW c \in Trio, SoundLead(c) PROVE SoundLead(c)'
  BY <1>1 DEF SoundLead, Converts, Looked, Refused, Leads!Rivals, LeadTold
<1>2. KeysAreUsed' <=> KeysAreUsed  BY DEF KeysAreUsed
<1>3. Apart' <=> Apart  BY DEF Apart, Leads!RowOf, Leads!Unique
<1> QED  BY <1>1, <1>2, <1>3 DEF LeadsInductive

\* A step keeps the invariant.
LEMMA LeadsStep ==
  ASSUME LeadsFit, LeadsInductive, [Leads!Next]_(Leads!vars)
  PROVE  LeadsInductive'
<1>1. CASE UNCHANGED Leads!vars
  <2>1. Leads!TypesHold'  BY <1>1 DEF Leads!vars, LeadsInductive, Leads!TypesHold
  <2> QED  BY <1>1, <2>1, OthersKeepLeads DEF Leads!vars
<1>2. CASE Leads!OtherProfile
  <2>1. Leads!TypesHold'
    BY <1>2 DEF Leads!OtherProfile, Leads!book, LeadsInductive, Leads!TypesHold, Leads!People
  <2> QED  BY <1>2, <2>1, OthersKeepLeads DEF Leads!OtherProfile, Leads!book
<1>3. CASE Leads!LoseOpportunity
  <2>1. Leads!TypesHold'
    BY <1>3 DEF Leads!LoseOpportunity, LeadsInductive, Leads!TypesHold, Leads!People
  <2> QED  BY <1>3, <2>1, OthersKeepLeads DEF Leads!LoseOpportunity
<1>4. CASE Leads!RetireOffer
  <2>1. Leads!TypesHold'
    BY <1>4 DEF Leads!RetireOffer, Leads!book, LeadsInductive, Leads!TypesHold
  <2> QED  BY <1>4, <2>1, OthersKeepLeads DEF Leads!RetireOffer, Leads!book
<1>5. ASSUME NEW c \in Trio, Leads!Step(c) PROVE LeadsInductive'
  BY <1>5, FindCompanyKeepsLeads, CreateLeadKeepsLeads, ConvertKeepsLeads,
     ResolveScopeKeepsLeads,
     CheckDuplicateKeepsLeads, InsertAccountKeepsLeads, FindProfileKeepsLeads,
       OpenProfileKeepsLeads,
     CommitConversionKeepsLeads, RecoverKeepsLeads, CrashKeepsLeads DEF Leads!Step
<1> QED  BY <1>1, <1>2, <1>3, <1>4, <1>5 DEF Leads!Next

LEMMA LeadsMean ==
  ASSUME LeadsFit, LeadsInductive
  PROVE  Leads!TypesHold /\ Leads!AnswersOwnClient /\ Leads!ConflictsAreTrue
           /\ Leads!LeadsShareACompany
<1>1. Leads!TypesHold  BY DEF LeadsInductive
<1>2. Leads!AnswersOwnClient
  <2>1. \A a, b \in accounts : a = b \/ (a.contact # b.contact
          /\ (a.company = None \/ a.company # b.company))
    BY DEF LeadsInductive, Apart, Leads!Unique
  <2>2. \A c \in Trio : LeadTold(c)  BY DEF LeadsInductive, SoundLead
  <2> QED  BY <2>1, <2>2 DEF Leads!AnswersOwnClient, LeadTold, Leads!At
<1>3. Leads!ConflictsAreTrue
  <2>1. \A c \in Trio : Refused(c)  BY DEF LeadsInductive, SoundLead
  <2> QED  BY <2>1 DEF Leads!ConflictsAreTrue, Refused, Leads!At
<1>4. Leads!LeadsShareACompany
  <2>1. ASSUME \A a, b \in companies : a = b PROVE Leads!Cardinality(companies) <= 1
    <3>1. CASE companies = {}  BY <3>1, FS_EmptySet, LeadsCount
    <3>2. CASE companies # {}
      <4>1. PICK x \in companies : TRUE  BY <3>2
      <4>2. companies = {x}  BY <2>1, <4>1
      <4>3. Leads!Cardinality({x}) = 1  BY FS_Singleton, LeadsCount
      <4> QED  BY <4>2, <4>3
    <3> QED  BY <3>1, <3>2
  <2> QED  BY <2>1 DEF LeadsInductive, Leads!LeadsShareACompany
<1> QED  BY <1>1, <1>2, <1>3, <1>4

-----------------------------------------------------------------------------
(* Figures that are worked out twice agree (Figures).                     *)

\* The component counts as its library does.
LEMMA ReadingsCount == \A S : Readings!Cardinality(S) = Cardinality(S)
BY DEF Readings!Cardinality, Cardinality

\* What the tables hold.
Tables ==
  [clients : [Clients -> Readings!Client],
   items : [Items -> [status : Readings!ItemStatuses, due : Readings!Dues]],
   works : [Deliverables -> [status : Readings!WorkStatuses, due : Readings!Dues]],
   deals : [Deals -> [status : {"OPEN", "WON", "LOST"}]],
   people : [Persons -> [status : {"LEAD", "CUSTOMER"}, met : BOOLEAN, noted : BOOLEAN]],
   ledger : SUBSET [amount : {97}, source : {"STRIPE_WEBHOOK", "MANUAL"}]]

\* Only an account has a plan, and is rated.
PlansAreOfAccounts ==
  \A c \in Clients : db.clients[c].service = None =>
                       db.clients[c].plan = None /\ db.clients[c].health = None

\* The queries that are compared.
Compared == {"pipeline", "ready", "overdue", "rated", "all", "byStage", "operations",
                "projected",
             "followup", "account"}

\* What nothing was written under is still so.
Fresh ==
  under = 0 => \A n \in DOMAIN figures :
                 Readings!Queries(reader)[n] \in Compared
                   => figures[n] = Readings!Answer(Readings!Queries(reader)[n])

\* A count is no further from what it counts than what was written since.
Near ==
  reader = "dashboard" =>
    /\ 8 \in DOMAIN figures => figures[8] \in Nat /\ Readings!Apart(figures[8],
       Readings!Cardinality(Readings!KpiReady)) <= under
    /\ 10 \in DOMAIN figures =>
         figures[10] \in Nat /\ Readings!Apart(figures[10],
           Readings!Cardinality(Readings!InService("ACTIVE"))) <= under
    /\ 11 \in DOMAIN figures => figures[11] \in Nat /\ Readings!Apart(figures[11],
       Readings!Cardinality(Readings!Elevated)) <= under
    /\ 20 \in DOMAIN figures =>
         /\ figures[20].ready \in Nat /\ Readings!Apart(figures[8], figures[20].ready) <= under
         /\ figures[20].active \in Nat /\ Readings!Apart(figures[10],
            figures[20].active) <= under
    /\ 21 \in DOMAIN figures =>
         Readings!Cardinality(figures[21]) \in Nat /\ Readings!Apart(Readings!Least(Shown,
           figures[11]), Readings!Cardinality(figures[21])) <= under

\* The inductive invariant.
FiguresInductive ==
  /\ db \in Tables /\ PlansAreOfAccounts
  /\ reader \in {"dashboard", "desk", "report"}
  /\ figures = [n \in 1..Len(figures) |-> figures[n]]
     /\ Len(figures) \in 0..Len(Readings!Queries(reader))
  /\ writes \in 0..MaxWrites /\ under \in 0..writes
  /\ reader = "report" => under = 0
  /\ Fresh /\ Near

-----------------------------------------------------------------------------
(* The queries.                                                            *)

LEMMA QueriesOfADashboard ==
  /\ Len(Readings!Queries("dashboard")) = 22
  /\ \A n \in 1..22 : /\ Readings!Queries("dashboard")[n] = "pipeline" <=> n = 3
                      /\ Readings!Queries("dashboard")[n] = "ready" <=> n = 8
                      /\ Readings!Queries("dashboard")[n] = "overdue" <=> n = 9
                      /\ Readings!Queries("dashboard")[n] = "active" <=> n = 10
                      /\ Readings!Queries("dashboard")[n] = "elevated" <=> n = 11
                      /\ Readings!Queries("dashboard")[n] = "rated" <=> n = 12
                      /\ Readings!Queries("dashboard")[n] = "all" <=> n = 13
                      /\ Readings!Queries("dashboard")[n] = "byStage" <=> n = 18
                      /\ Readings!Queries("dashboard")[n] = "operations" <=> n = 20
                      /\ Readings!Queries("dashboard")[n] = "atRisk" <=> n = 21
<1>1. Readings!Queries("dashboard") = Readings!KpiQueries \o Readings!SectionQueries
  BY DEF Readings!Queries
<1>2. Len(Readings!KpiQueries) = 17 /\ Len(Readings!SectionQueries) = 5
  BY DEF Readings!KpiQueries, Readings!SectionQueries
<1> DEFINE Words == {"revenue", "mrr", "pipeline", "backlog", "leads", "converted",
                        "completion",
                     "ready", "overdue", "active", "elevated", "rated", "all", "churned",
                       "total",
                     "average", "tiers", "byStage", "open", "operations", "atRisk",
                       "milestones"}
<1>3. Readings!KpiQueries \in Seq(Words) /\ Readings!SectionQueries \in Seq(Words)
  BY DEF Readings!KpiQueries, Readings!SectionQueries
<1> HIDE DEF Words
<1>4. /\ Len(Readings!Queries("dashboard")) = 22
      /\ \A n \in 1..17 : Readings!Queries("dashboard")[n] = Readings!KpiQueries[n]
      /\ \A n \in 18..22 : Readings!Queries("dashboard")[n] = Readings!SectionQueries[n - 17]
  <2> DEFINE s == Readings!KpiQueries
             t == Readings!SectionQueries
             u == s \o t
             k == Len(s)
             l == Len(t)
  <2>1. k = 17 /\ l = 5 /\ s \in Seq(Words) /\ t \in Seq(Words)  BY <1>2, <1>3
  <2> HIDE DEF s, t
  <2>2. /\ Len(u) = k + l
        /\ \A n \in 1..(k + l) : u[n] = IF n <= k THEN s[n] ELSE t[n - k]
    BY <2>1, ConcatProperties
  <2> HIDE DEF u, k, l
  <2>3. Len(u) = 22  BY <2>1, <2>2
  <2>4. /\ \A n \in 1..17 : u[n] = s[n]
        /\ \A n \in 18..22 : u[n] = t[n - 17]
    BY <2>1, <2>2
  <2>5. Readings!Queries("dashboard") = u  BY <1>1 DEF u, s, t
  <2> QED  BY <2>3, <2>4, <2>5, Zenon DEF s, t
<1>5. \A n \in 1..17 : /\ Readings!KpiQueries[n] = "pipeline" <=> n = 3
                       /\ Readings!KpiQueries[n] = "ready" <=> n = 8
                       /\ Readings!KpiQueries[n] = "overdue" <=> n = 9
                       /\ Readings!KpiQueries[n] = "active" <=> n = 10
                       /\ Readings!KpiQueries[n] = "elevated" <=> n = 11
                       /\ Readings!KpiQueries[n] = "rated" <=> n = 12
                       /\ Readings!KpiQueries[n] = "all" <=> n = 13
                       /\ Readings!KpiQueries[n] \notin {"byStage", "operations", "atRisk"}
  BY DEF Readings!KpiQueries
<1>6. \A n \in 1..5 : /\ Readings!SectionQueries[n] = "byStage" <=> n = 1
                      /\ Readings!SectionQueries[n] = "operations" <=> n = 3
                      /\ Readings!SectionQueries[n] = "atRisk" <=> n = 4
                      /\ Readings!SectionQueries[n] \notin {"pipeline", "ready", "overdue",
                                                               "active", "elevated",
                                                            "rated", "all"}
  BY DEF Readings!SectionQueries
<1>7. \A n \in 18..22 : n - 17 \in 1..5  OBVIOUS
<1>8. ASSUME NEW n \in 1..22, n \notin 1..17 PROVE n \in 18..22  BY <1>8
<1> QED
  <2> SUFFICES ASSUME NEW n \in 1..22
               PROVE  /\ Readings!Queries("dashboard")[n] = "pipeline" <=> n = 3
                      /\ Readings!Queries("dashboard")[n] = "ready" <=> n = 8
                      /\ Readings!Queries("dashboard")[n] = "overdue" <=> n = 9
                      /\ Readings!Queries("dashboard")[n] = "active" <=> n = 10
                      /\ Readings!Queries("dashboard")[n] = "elevated" <=> n = 11
                      /\ Readings!Queries("dashboard")[n] = "rated" <=> n = 12
                      /\ Readings!Queries("dashboard")[n] = "all" <=> n = 13
                      /\ Readings!Queries("dashboard")[n] = "byStage" <=> n = 18
                      /\ Readings!Queries("dashboard")[n] = "operations" <=> n = 20
                      /\ Readings!Queries("dashboard")[n] = "atRisk" <=> n = 21
    BY <1>4
  <2> HIDE DEF Readings!KpiQueries, Readings!SectionQueries
  <2>1. CASE n \in 1..17  BY <1>4, <1>5, <2>1
  <2>2. CASE n \in 18..22  BY <1>4, <1>6, <1>7, <2>2
  <2> QED  BY <1>8, <2>1, <2>2

LEMMA QueriesOfADesk ==
  /\ Len(Readings!Queries("desk")) = 3
  /\ \A n \in 1..3 : /\ Readings!Queries("desk")[n] = "projected" <=> n = 2
                     /\ Readings!Queries("desk")[n] = "followup" <=> n = 3
BY DEF Readings!Queries

LEMMA QueriesOfAReport == Len(Readings!Queries("report")) = 1
                            /\ Readings!Queries("report")[1] = "account"
BY DEF Readings!Queries

LEMMA AnswersAre ==
  /\ Readings!Answer("pipeline") = [projected |-> Readings!Projected,
     weighted |-> Readings!Weighted]
  /\ Readings!Answer("ready") = Readings!Cardinality(Readings!KpiReady)
     /\ Readings!Answer("overdue") = Readings!Cardinality(Readings!KpiOverdue)
  /\ Readings!Answer("active") = Readings!Cardinality(Readings!InService("ACTIVE"))
     /\ Readings!Answer("elevated") = Readings!Cardinality(Readings!Elevated)
  /\ Readings!Answer("rated") = Readings!Cardinality(Readings!Rated)
     /\ Readings!Answer("all") = Readings!Cardinality(Readings!Accounts)
  /\ Readings!Answer("byStage") = Readings!Projected
     /\ Readings!Answer("operations") = Readings!Operations
  /\ Readings!Answer("projected") = [value |-> Readings!DeskProjected,
     likely |-> Readings!Cardinality(Readings!LikelyToBook)]
  /\ Readings!Answer("followup") = Readings!Cardinality(Readings!NeedsFollowup)
  /\ Readings!Answer("account") = [c \in Readings!Accounts |-> Readings!ReportOf(c)]
  /\ Readings!Answers("atRisk") = Readings!Listed /\ \A q : q # "atRisk"
     => Readings!Answers(q) = {Readings!Answer(q)}
BY DEF Readings!Answer, Readings!Answers
-----------------------------------------------------------------------------
(* What a write changes.                                                   *)

\* A write is about client c, its items and its deliverables.
IsAbout(c) ==
  /\ \A d \in Clients : d # c => db'.clients[d] = db.clients[d]
  /\ \A i \in Items : Owner[i] # c => db'.items[i] = db.items[i]
  /\ \A w \in Deliverables : Owner[w] # c => db'.works[w] = db.works[w]

\* Sets that differ in one element have counts that differ by one at most.
LEMMA OneApart ==
  ASSUME NEW S, NEW T, NEW c, IsFiniteSet(S), IsFiniteSet(T), S \ {c} = T \ {c}
  PROVE  Readings!Cardinality(S) \in Nat /\ Readings!Cardinality(T) \in Nat
           /\ Readings!Apart(Readings!Cardinality(S), Readings!Cardinality(T)) <= 1
<1>1. Readings!Cardinality(S) \in Nat /\ Readings!Cardinality(T) \in Nat
  BY FS_CardinalityType, ReadingsCount
<1>2. Readings!Cardinality(S \ {c}) = IF c \in S THEN Readings!Cardinality(S) - 1
        ELSE Readings!Cardinality(S)
  BY FS_RemoveElement, ReadingsCount
<1>3. Readings!Cardinality(T \ {c}) = IF c \in T THEN Readings!Cardinality(T) - 1
        ELSE Readings!Cardinality(T)
  BY FS_RemoveElement, ReadingsCount
<1> QED  BY <1>1, <1>2, <1>3 DEF Readings!Apart

LEMMA ApartAdds ==
  ASSUME NEW k \in Nat, NEW m \in Nat, NEW n \in Nat, NEW u \in Nat,
         Readings!Apart(k, m) <= u, Readings!Apart(m, n) <= 1
  PROVE  Readings!Apart(k, n) <= u + 1
BY DEF Readings!Apart

\* A list that is cut off is no further from a count than the whole of it.
LEMMA LeastIsClose ==
  ASSUME NEW s \in Nat, NEW m \in Nat, NEW n \in Nat, NEW u \in Nat, Readings!Apart(m, n) <= u
  PROVE  Readings!Apart(Readings!Least(s, m), Readings!Least(s, n)) <= u
           /\ Readings!Least(s, m) \in Nat /\ Readings!Least(s, n) \in Nat
BY DEF Readings!Apart, Readings!Least

\* The sets that are counted are finite.
LEMMA CountedAreFinite ==
  ASSUME FiguresFit
  PROVE  /\ IsFiniteSet(Readings!KpiReady) /\ IsFiniteSet(Readings!Elevated)
            /\ IsFiniteSet(Readings!InService("ACTIVE"))
         /\ IsFiniteSet(Readings!KpiOverdue) /\ IsFiniteSet(Readings!Accounts)
            /\ IsFiniteSet(Readings!Rated) /\ IsFiniteSet(Readings!Backlog)
         /\ IsFiniteSet(Readings!Pending)
<1>1. Readings!KpiReady \subseteq Clients /\ Readings!Elevated \subseteq Clients
        /\ Readings!InService("ACTIVE") \subseteq Clients
      /\ Readings!Accounts \subseteq Clients /\ Readings!Rated \subseteq Clients
         /\ Readings!Pending \subseteq Clients
  BY DEF Readings!KpiReady, Readings!Elevated, Readings!InService, Readings!Accounts,
         Readings!Rated, Readings!Pending
<1>2. Readings!Backlog \subseteq Persons  BY DEF Readings!Backlog, Readings!Leads
<1>3. Readings!KpiOverdue \subseteq Deliverables
  BY DEF Readings!KpiOverdue, Readings!AllWorks, Readings!WorksOf, Readings!Of
<1>4. IsFiniteSet(Clients) /\ IsFiniteSet(Persons) /\ IsFiniteSet(Deliverables)
  BY DEF FiguresFit
<1> QED  BY <1>1, <1>2, <1>3, <1>4, FS_Subset, ReadingsCount

\* What a write does not change of another client.
LEMMA OthersAreTheSame ==
  ASSUME FiguresFit, NEW c, IsAbout(c), NEW d \in Clients, d # c
  PROVE  /\ d \in Readings!KpiReady' <=> d \in Readings!KpiReady
         /\ d \in Readings!Elevated' <=> d \in Readings!Elevated
         /\ d \in Readings!InService("ACTIVE")' <=> d \in Readings!InService("ACTIVE")
<1>1. db'.clients[d] = db.clients[d]  BY DEF IsAbout
<1>2. Readings!ItemsOf(d)' = Readings!ItemsOf(d)  BY <1>1 DEF Readings!ItemsOf, Readings!Of
<1>3. ASSUME NEW i \in Readings!ItemsOf(d)
      PROVE  Readings!Status(i)' = Readings!Status(i) /\ i \in Items
  <2>1. i \in Items /\ Owner[i] = d  BY <1>3 DEF Readings!ItemsOf, Readings!Of
  <2>2. db'.items[i] = db.items[i]  BY <2>1 DEF IsAbout
  <2> QED  BY <2>1, <2>2 DEF Readings!Status
<1> DEFINE required == Readings!ItemsOf(d) \cap Required
<1>4. required' = required  BY <1>2
<1>5. Readings!Having(required, {"COMPLETE", "WAIVED"})' = Readings!Having(required,
        {"COMPLETE", "WAIVED"})
  BY <1>3, <1>4 DEF Readings!Having
<1>6. d \in Readings!KpiReady <=> /\ db.clients[d].service = "PENDING_ONBOARDING"
                                     /\ required # {}
                                  /\ required = Readings!Having(required,
                                     {"COMPLETE", "WAIVED"})
  BY DEF Readings!KpiReady, Readings!InService
<1>7. d \in Readings!KpiReady' <=> /\ db'.clients[d].service = "PENDING_ONBOARDING"
                                      /\ required' # {}
                                   /\ required' = Readings!Having(required,
                                      {"COMPLETE", "WAIVED"})'
  BY DEF Readings!KpiReady, Readings!InService
<1>8. d \in Readings!KpiReady' <=> d \in Readings!KpiReady  BY <1>1, <1>4, <1>5, <1>6, <1>7
<1>9. d \in Readings!Elevated' <=> d \in Readings!Elevated  BY <1>1 DEF Readings!Elevated
<1>10. d \in Readings!InService("ACTIVE")' <=> d \in Readings!InService("ACTIVE")
  BY <1>1 DEF Readings!InService
<1> QED  BY <1>8, <1>9, <1>10

LEMMA CountsAreClose ==
  ASSUME FiguresFit, NEW c, IsAbout(c)
  PROVE  /\ Readings!Cardinality(Readings!KpiReady) \in Nat
            /\ Readings!Cardinality(Readings!KpiReady') \in Nat
         /\ Readings!Apart(Readings!Cardinality(Readings!KpiReady),
            Readings!Cardinality(Readings!KpiReady')) <= 1
         /\ Readings!Cardinality(Readings!Elevated) \in Nat
            /\ Readings!Cardinality(Readings!Elevated') \in Nat
         /\ Readings!Apart(Readings!Cardinality(Readings!Elevated),
            Readings!Cardinality(Readings!Elevated')) <= 1
         /\ Readings!Cardinality(Readings!InService("ACTIVE")) \in Nat
            /\ Readings!Cardinality(Readings!InService("ACTIVE")') \in Nat
         /\ Readings!Apart(Readings!Cardinality(Readings!InService("ACTIVE")),
            Readings!Cardinality(Readings!InService("ACTIVE")')) <= 1
<1>1. /\ Readings!KpiReady \subseteq Clients /\ Readings!Elevated \subseteq Clients
         /\ Readings!InService("ACTIVE") \subseteq Clients
      /\ Readings!KpiReady' \subseteq Clients /\ Readings!Elevated' \subseteq Clients
         /\ Readings!InService("ACTIVE")' \subseteq Clients
  BY DEF Readings!KpiReady, Readings!Elevated, Readings!InService
<1>2. IsFiniteSet(Clients)  BY DEF FiguresFit
<1>3. /\ IsFiniteSet(Readings!KpiReady) /\ IsFiniteSet(Readings!Elevated)
         /\ IsFiniteSet(Readings!InService("ACTIVE"))
      /\ IsFiniteSet(Readings!KpiReady') /\ IsFiniteSet(Readings!Elevated')
         /\ IsFiniteSet(Readings!InService("ACTIVE")')
  BY <1>1, <1>2, FS_Subset, ReadingsCount
<1>4. /\ Readings!KpiReady \ {c} = Readings!KpiReady' \ {c}
         /\ Readings!Elevated \ {c} = Readings!Elevated' \ {c}
      /\ Readings!InService("ACTIVE") \ {c} = Readings!InService("ACTIVE")' \ {c}
  BY <1>1, OthersAreTheSame
<1> QED  BY <1>3, <1>4, OneApart

LEMMA WriteKeeps ==
  ASSUME FiguresFit, FiguresInductive, NEW c, NEW tables \in Tables, Readings!Write(tables),
         IsAbout(c),
         PlansAreOfAccounts'
  PROVE  FiguresInductive'
<1>1. /\ writes < MaxWrites /\ Len(figures) # Len(Readings!Queries(reader)) /\ db' = tables
      /\ writes' = writes + 1 /\ under' = IF figures = << >> THEN 0 ELSE under + 1
      /\ reader' = reader /\ figures' = figures
  BY DEF Readings!Write, Readings!Over
<1>2. /\ reader \in {"dashboard", "desk", "report"}
         /\ figures = [n \in 1..Len(figures) |-> figures[n]]
      /\ Len(figures) \in 0..Len(Readings!Queries(reader)) /\ writes \in 0..MaxWrites
         /\ under \in 0..writes
      /\ (reader = "report" => under = 0) /\ Near /\ MaxWrites \in Nat
  BY DEF FiguresInductive, FiguresFit
<1>3. writes' \in 0..MaxWrites /\ under' \in 0..writes'  BY <1>1, <1>2
<1>4. Len(figures) = 0 => figures = << >>  BY <1>2
<1>5. figures = << >> => DOMAIN figures = {}  OBVIOUS
<1>6. reader' = "report" => under' = 0
  <2> SUFFICES ASSUME reader = "report" PROVE figures = << >>
    BY <1>1
  <2>0. Len(Readings!Queries(reader)) = 1  BY QueriesOfAReport
  <2>1. Len(figures) \in 0..Len(Readings!Queries(reader))
          /\ Len(figures) # Len(Readings!Queries(reader))
    BY <1>1, <1>2
  <2>2. Len(figures) \in 0..1 /\ Len(figures) # 1  BY <2>0, <2>1, Zenon
  <2>3. Len(figures) = 0  BY <2>2
  <2> QED  BY <1>4, <2>3
<1>7. Fresh'
  <2>1. CASE figures = << >>  BY <1>1, <1>5, <2>1 DEF Fresh
  <2>2. CASE figures # << >>
    <3>1. under' # 0  BY <1>1, <1>2, <2>2
    <3> QED  BY <3>1 DEF Fresh
  <2> QED  BY <2>1, <2>2
<1>8. Near'
  <2>1. CASE figures = << >>  BY <1>1, <1>5, <2>1 DEF Near
  <2>2. CASE figures # << >>
    <3>1. under' = under + 1 /\ under \in Nat  BY <1>1, <1>2, <2>2
    <3> SUFFICES ASSUME reader = "dashboard" PROVE Near'
      BY <1>1 DEF Near
    <3> DEFINE ready == Readings!Cardinality(Readings!KpiReady)
               active == Readings!Cardinality(Readings!InService("ACTIVE"))
               elevated == Readings!Cardinality(Readings!Elevated)
    <3>2. /\ ready \in Nat /\ ready' \in Nat /\ Readings!Apart(ready, ready') <= 1
          /\ active \in Nat /\ active' \in Nat /\ Readings!Apart(active, active') <= 1
          /\ elevated \in Nat /\ elevated' \in Nat /\ Readings!Apart(elevated, elevated') <= 1
      BY CountsAreClose
    <3>3. /\ 8 \in DOMAIN figures => figures[8] \in Nat /\ Readings!Apart(figures[8],
             ready) <= under
          /\ 10 \in DOMAIN figures =>
             figures[10] \in Nat /\ Readings!Apart(figures[10], active) <= under
          /\ 11 \in DOMAIN figures =>
             figures[11] \in Nat /\ Readings!Apart(figures[11], elevated) <= under
          /\ 20 \in DOMAIN figures =>
               /\ figures[20].ready \in Nat /\ Readings!Apart(figures[8],
                  figures[20].ready) <= under
               /\ figures[20].active \in Nat /\ Readings!Apart(figures[10],
                  figures[20].active) <= under
          /\ 21 \in DOMAIN figures =>
               Readings!Cardinality(figures[21]) \in Nat
                 /\ Readings!Apart(Readings!Least(Shown, figures[11]),
                    Readings!Cardinality(figures[21])) <= under
      BY <1>2 DEF Near
    <3>4. ready' = Readings!Cardinality(Readings!KpiReady')
            /\ active' = Readings!Cardinality(Readings!InService("ACTIVE")')
          /\ elevated' = Readings!Cardinality(Readings!Elevated')
      OBVIOUS
    <3> HIDE DEF ready, active, elevated
    <3>5. 8 \in DOMAIN figures => figures[8] \in Nat /\ Readings!Apart(figures[8],
            ready') <= under + 1
      BY <3>1, <3>2, <3>3, ApartAdds
    <3>6. 10 \in DOMAIN figures => figures[10] \in Nat /\ Readings!Apart(figures[10],
            active') <= under + 1
      BY <3>1, <3>2, <3>3, ApartAdds
    <3>7. 11 \in DOMAIN figures => figures[11] \in Nat /\ Readings!Apart(figures[11],
            elevated') <= under + 1
      BY <3>1, <3>2, <3>3, ApartAdds
    <3>8. 20 \in DOMAIN figures =>
            /\ figures[20].ready \in Nat /\ Readings!Apart(figures[8],
               figures[20].ready) <= under + 1
            /\ figures[20].active \in Nat /\ Readings!Apart(figures[10],
               figures[20].active) <= under + 1
      <4> SUFFICES ASSUME 20 \in DOMAIN figures
                   PROVE  /\ figures[20].ready \in Nat /\ Readings!Apart(figures[8],
                             figures[20].ready) <= under + 1
                          /\ figures[20].active \in Nat /\ Readings!Apart(figures[10],
                             figures[20].active) <= under + 1
        OBVIOUS
      <4>1. 8 \in DOMAIN figures /\ 10 \in DOMAIN figures  BY <1>2
      <4> QED  BY <3>1, <3>3, <4>1 DEF Readings!Apart
    <3>9. 21 \in DOMAIN figures =>
            Readings!Cardinality(figures[21]) \in Nat /\ Readings!Apart(Readings!Least(Shown,
              figures[11]), Readings!Cardinality(figures[21])) <= under + 1
      <4> SUFFICES ASSUME 21 \in DOMAIN figures
                   PROVE  Readings!Cardinality(figures[21]) \in Nat
                          /\ Readings!Apart(Readings!Least(Shown, figures[11]),
                             Readings!Cardinality(figures[21])) <= under + 1
        OBVIOUS
      <4>1. 11 \in DOMAIN figures  BY <1>2
      <4>2. Readings!Least(Shown, figures[11]) \in Nat
        BY <3>3, <4>1 DEF Readings!Least, FiguresFit
      <4> QED  BY <3>1, <3>3, <4>1, <4>2 DEF Readings!Apart
    <3> QED  BY <1>1, <3>1, <3>4, <3>5, <3>6, <3>7, <3>8, <3>9 DEF Near
  <2> QED  BY <2>1, <2>2
<1> QED  BY <1>1, <1>2, <1>3, <1>6, <1>7, <1>8 DEF FiguresInductive
-----------------------------------------------------------------------------
(* The steps.                                                              *)

\* The same tables have the same answers.
LEMMA AnswersStay ==
  ASSUME db' = db
  PROVE  /\ Readings!KpiReady' = Readings!KpiReady /\ Readings!Elevated' = Readings!Elevated
            /\ Readings!InService("ACTIVE")' = Readings!InService("ACTIVE")
         /\ \A q \in Compared : Readings!Answer(q)' = Readings!Answer(q)
<1>1. \A c \in Clients : Readings!ItemsOf(c)' = Readings!ItemsOf(c)
        /\ Readings!WorksOf(c)' = Readings!WorksOf(c)
  BY DEF Readings!ItemsOf, Readings!WorksOf
<1>2. /\ Readings!AllItems' = Readings!AllItems /\ Readings!AllWorks' = Readings!AllWorks
      /\ \A r : Readings!Status(r)' = Readings!Status(r) /\ Readings!Due(r)' = Readings!Due(r)
  BY DEF Readings!AllItems, Readings!AllWorks, Readings!ItemsOf, Readings!WorksOf,
         Readings!Status, Readings!Due
<1>3. \A s : Readings!InService(s)' = Readings!InService(s)  BY DEF Readings!InService
<1>4. \A R, s : Readings!Having(R, s)' = Readings!Having(R, s)
  BY DEF Readings!Having, Readings!Status
<1>5. Readings!KpiReady' = Readings!KpiReady
  BY DEF Readings!KpiReady, Readings!InService, Readings!ItemsOf, Readings!Having,
         Readings!Status
<1>6. Readings!KpiOverdue' = Readings!KpiOverdue
  BY DEF Readings!KpiOverdue, Readings!AllWorks, Readings!WorksOf, Readings!Due, Readings!Status
<1>7. Readings!Elevated' = Readings!Elevated /\ Readings!Rated' = Readings!Rated
        /\ Readings!Accounts' = Readings!Accounts
  BY DEF Readings!Elevated, Readings!Rated, Readings!Accounts
<1>8. Readings!OpenDeals' = Readings!OpenDeals  BY DEF Readings!OpenDeals
<1>9. Readings!Projected' = Readings!Projected /\ Readings!Weighted' = Readings!Weighted
        /\ Readings!DeskProjected' = Readings!DeskProjected
  BY <1>8 DEF Readings!Projected, Readings!Weighted, Readings!DeskProjected
<1>10. Readings!LikelyToBook' = Readings!LikelyToBook
         /\ Readings!NeedsFollowup' = Readings!NeedsFollowup
  BY <1>8 DEF Readings!LikelyToBook, Readings!NeedsFollowup, Readings!Leads
<1>11. Readings!Operations' = Readings!Operations
  <2>1. Readings!Pending' = Readings!Pending  BY DEF Readings!Pending, Readings!InService
  <2>2. Readings!Blocked' = Readings!Blocked
    BY DEF Readings!Blocked, Readings!Pending, Readings!InService, Readings!ItemsOf,
           Readings!Having, Readings!Status
  <2>3. Readings!WaitingOnDemm' = Readings!WaitingOnDemm
    BY DEF Readings!WaitingOnDemm, Readings!Pending, Readings!InService, Readings!ItemsOf,
           Readings!Having, Readings!Status
  <2>4. Readings!WaitingOnThemselves' = Readings!WaitingOnThemselves
    BY DEF Readings!WaitingOnThemselves, Readings!Pending, Readings!InService,
           Readings!ItemsOf, Readings!Having, Readings!Status
  <2>5. Readings!OpsReady' = Readings!OpsReady
    BY DEF Readings!OpsReady, Readings!Pending, Readings!InService, Readings!ItemsOf,
           Readings!Status
  <2>6. Readings!OpsOverdue' = Readings!OpsOverdue
    BY DEF Readings!OpsOverdue, Readings!Accounts, Readings!WorksOf, Readings!Due,
           Readings!Status
  <2> QED  BY <1>3, <2>1, <2>2, <2>3, <2>4, <2>5, <2>6 DEF Readings!Operations
<1>12. [c \in Readings!Accounts |-> Readings!ReportOf(c)]' = [c \in Readings!Accounts |-> Readings!ReportOf(c)]
  <2>1. ASSUME NEW c PROVE Readings!ReportOf(c)' = Readings!ReportOf(c)
    BY DEF Readings!ReportOf, Readings!ItemsOf, Readings!WorksOf, Readings!Having,
           Readings!Status, Readings!Due
  <2> QED  BY <1>7, <2>1
<1>13. /\ Readings!Answer("pipeline")' = Readings!Answer("pipeline")
          /\ Readings!Answer("ready")' = Readings!Answer("ready")
       /\ Readings!Answer("overdue")' = Readings!Answer("overdue")
          /\ Readings!Answer("rated")' = Readings!Answer("rated")
       /\ Readings!Answer("all")' = Readings!Answer("all")
          /\ Readings!Answer("byStage")' = Readings!Answer("byStage")
       /\ Readings!Answer("operations")' = Readings!Answer("operations")
          /\ Readings!Answer("projected")' = Readings!Answer("projected")
       /\ Readings!Answer("followup")' = Readings!Answer("followup")
  BY <1>5, <1>6, <1>7, <1>9, <1>10, <1>11 DEF Readings!Answer
<1>14. Readings!Answer("account")' = Readings!Answer("account")  BY <1>12 DEF Readings!Answer
<1> QED  BY <1>3, <1>5, <1>7, <1>13, <1>14 DEF Compared

LEMMA ReadyAgree == Readings!OpsReady = Readings!KpiReady
BY DEF Readings!OpsReady, Readings!KpiReady, Readings!Pending, Readings!Having

LEMMA QueryKeeps ==
  ASSUME FiguresFit, FiguresInductive, Readings!Query PROVE FiguresInductive'
<1> DEFINE n == Len(figures) + 1
           S == {figures[k] : k \in 1..Len(figures)}
<1>0. PICK a \in Readings!Answers(Readings!Queries(reader)[n]) : figures' = Append(figures, a)
  BY DEF Readings!Query
<1>1. Len(figures) < Len(Readings!Queries(reader)) /\ figures' = Append(figures, a)
      /\ db' = db /\ reader' = reader /\ writes' = writes /\ under' = under
  BY <1>0 DEF Readings!Query
<1>2. /\ reader \in {"dashboard", "desk", "report"}
         /\ figures = [k \in 1..Len(figures) |-> figures[k]]
      /\ Len(figures) \in 0..Len(Readings!Queries(reader)) /\ writes \in 0..MaxWrites
         /\ under \in 0..writes
      /\ MaxWrites \in Nat
  BY DEF FiguresInductive, FiguresFit
<1>3. Len(figures) \in Nat /\ under \in Nat /\ Len(Readings!Queries(reader)) \in Nat
  <2>1. Len(Readings!Queries(reader)) \in {22, 3, 1}
    BY <1>2, QueriesOfADashboard, QueriesOfADesk, QueriesOfAReport
  <2> QED  BY <1>2, <2>1
<1>4. figures \in Seq(S \cup {a})
  <2>1. \A k \in 1..Len(figures) : figures[k] \in S \cup {a}  OBVIOUS
  <2> HIDE DEF S
  <2> QED  BY <1>2, <1>3, <2>1
<1> HIDE DEF S
<1>5. /\ a \in S \cup {a}
      /\ Readings!Queries(reader)[n] # "atRisk"
         => a = Readings!Answer(Readings!Queries(reader)[n])
      /\ Readings!Queries(reader)[n] = "atRisk" => a \in Readings!Listed
  BY <1>0, AnswersAre
<1>6. /\ Len(figures') = n /\ figures'[n] = a
         /\ \A k \in 1..Len(figures) : figures'[k] = figures[k]
      /\ figures' \in Seq(S \cup {a})
  BY <1>1, <1>4, <1>5, AppendProperties
<1>7. n \in Nat /\ n \in 0..Len(Readings!Queries(reader)) /\ \A k \in 1..n : k = n
        \/ k \in 1..Len(figures)
  BY <1>1, <1>3
<1>8. DOMAIN figures = 1..Len(figures)  BY <1>2
<1>9. DOMAIN figures' = 1..n /\ figures' = [k \in 1..n |-> figures'[k]]
  BY <1>6
<1>10. /\ Readings!KpiReady' = Readings!KpiReady /\ Readings!Elevated' = Readings!Elevated
          /\ Readings!InService("ACTIVE")' = Readings!InService("ACTIVE")
       /\ \A q \in Compared : Readings!Answer(q)' = Readings!Answer(q)
  BY <1>1, AnswersStay
<1>11. Fresh'
  <2> SUFFICES ASSUME under = 0, NEW k \in 1..n, Readings!Queries(reader)[k] \in Compared
               PROVE  figures'[k] = Readings!Answer(Readings!Queries(reader)[k])
    BY <1>1, <1>9, <1>10 DEF Fresh
  <2>1. CASE k = n
    <3>1. Readings!Queries(reader)[n] # "atRisk"  BY <2>1 DEF Compared
    <3> QED  BY <1>5, <1>6, <2>1, <3>1
  <2>2. CASE k \in 1..Len(figures)  BY <1>6, <1>8, <2>2 DEF FiguresInductive, Fresh
  <2> QED  BY <1>7, <2>1, <2>2
<1>12. Near'
  <2> SUFFICES ASSUME reader = "dashboard" PROVE Near'
    BY <1>1 DEF Near
  <2> DEFINE ready == Readings!Cardinality(Readings!KpiReady)
             active == Readings!Cardinality(Readings!InService("ACTIVE"))
             elevated == Readings!Cardinality(Readings!Elevated)
  <2>1. ready \in Nat /\ active \in Nat /\ elevated \in Nat
    BY CountedAreFinite, FS_CardinalityType, ReadingsCount
  <2>2. \A m \in Nat : Readings!Apart(m, m) <= under  BY <1>3 DEF Readings!Apart
  <2>3. n \in 1..22
    <3>1. Len(Readings!Queries(reader)) = 22  BY QueriesOfADashboard
    <3>2. Len(figures) < 22 /\ Len(figures) \in Nat  BY <1>1, <1>3, <3>1, Zenon
    <3> QED  BY <3>2
  <2>4. /\ n = 8 => a = ready
        /\ n = 10 => a = active
        /\ n = 11 => a = elevated
        /\ n = 20 => a.ready = ready /\ a.active = active
        /\ n = 21 => a \in Readings!Listed
    BY <1>5, <2>3, QueriesOfADashboard, AnswersAre, ReadyAgree DEF Readings!Operations
  <2>5. /\ 8 \in DOMAIN figures => figures[8] \in Nat /\ Readings!Apart(figures[8],
           ready) <= under
        /\ 10 \in DOMAIN figures => figures[10] \in Nat /\ Readings!Apart(figures[10],
           active) <= under
        /\ 11 \in DOMAIN figures => figures[11] \in Nat /\ Readings!Apart(figures[11],
           elevated) <= under
        /\ 20 \in DOMAIN figures =>
             /\ figures[20].ready \in Nat /\ Readings!Apart(figures[8],
                figures[20].ready) <= under
             /\ figures[20].active \in Nat /\ Readings!Apart(figures[10],
                figures[20].active) <= under
        /\ 21 \in DOMAIN figures =>
             Readings!Cardinality(figures[21]) \in Nat /\ Readings!Apart(Readings!Least(Shown,
               figures[11]), Readings!Cardinality(figures[21])) <= under
    BY DEF FiguresInductive, Near
  <2>6. n = 21 => Readings!Cardinality(a) = Readings!Least(Shown, elevated)
    BY <2>4 DEF Readings!Listed
  <2>7. ready' = ready /\ active' = active /\ elevated' = elevated  BY <1>10
  <2>8. ready' = Readings!Cardinality(Readings!KpiReady')
          /\ active' = Readings!Cardinality(Readings!InService("ACTIVE")')
        /\ elevated' = Readings!Cardinality(Readings!Elevated')
    OBVIOUS
  <2> HIDE DEF ready, active, elevated
  <2>9. 8 \in 1..n => figures'[8] \in Nat /\ Readings!Apart(figures'[8], ready) <= under
    <3>1. CASE n = 8  BY <1>6, <2>1, <2>2, <2>4, <3>1
    <3>2. CASE 8 \in 1..Len(figures)  BY <1>6, <1>8, <2>5, <3>2
    <3> QED  BY <1>7, <3>1, <3>2
  <2>10. 10 \in 1..n => figures'[10] \in Nat /\ Readings!Apart(figures'[10], active) <= under
    <3>1. CASE n = 10  BY <1>6, <2>1, <2>2, <2>4, <3>1
    <3>2. CASE 10 \in 1..Len(figures)  BY <1>6, <1>8, <2>5, <3>2
    <3> QED  BY <1>7, <3>1, <3>2
  <2>11. 11 \in 1..n => figures'[11] \in Nat /\ Readings!Apart(figures'[11], elevated) <= under
    <3>1. CASE n = 11  BY <1>6, <2>1, <2>2, <2>4, <3>1
    <3>2. CASE 11 \in 1..Len(figures)  BY <1>6, <1>8, <2>5, <3>2
    <3> QED  BY <1>7, <3>1, <3>2
  <2>12. 20 \in 1..n =>
           /\ figures'[20].ready \in Nat /\ Readings!Apart(figures'[8],
              figures'[20].ready) <= under
           /\ figures'[20].active \in Nat /\ Readings!Apart(figures'[10],
              figures'[20].active) <= under
    <3>1. CASE n = 20
      <4>1. figures'[8] = figures[8] /\ 8 \in DOMAIN figures /\ figures'[10] = figures[10]
            /\ 10 \in DOMAIN figures
        BY <1>3, <1>6, <1>8, <3>1
      <4> QED  BY <1>6, <2>1, <2>4, <2>5, <3>1, <4>1
    <3>2. CASE 20 \in 1..Len(figures)
      <4>1. figures'[8] = figures[8] /\ figures'[10] = figures[10] /\ figures'[20] = figures[20]
            /\ 20 \in DOMAIN figures
        BY <1>3, <1>6, <1>8, <3>2
      <4> QED  BY <2>5, <4>1
    <3> QED  BY <1>7, <3>1, <3>2
  <2>13. 21 \in 1..n =>
           Readings!Cardinality(figures'[21]) \in Nat /\ Readings!Apart(Readings!Least(Shown,
             figures'[11]), Readings!Cardinality(figures'[21])) <= under
    <3>1. CASE n = 21
      <4>1. figures'[11] = figures[11] /\ 11 \in DOMAIN figures  BY <1>3, <1>6, <1>8, <3>1
      <4>2. figures'[21] = a  BY <1>6, <3>1
      <4>3. Readings!Apart(Readings!Least(Shown, figures[11]),
              Readings!Least(Shown, elevated)) <= under
            /\ Readings!Least(Shown, elevated) \in Nat
        <5>1. Shown \in Nat  BY DEF FiguresFit
        <5>2. figures[11] \in Nat /\ Readings!Apart(figures[11], elevated) <= under
          BY <2>5, <4>1
        <5> QED  BY <1>3, <2>1, <5>1, <5>2, LeastIsClose
      <4> QED  BY <2>6, <3>1, <4>1, <4>2, <4>3
    <3>2. CASE 21 \in 1..Len(figures)
      <4>1. figures'[11] = figures[11] /\ figures'[21] = figures[21] /\ 21 \in DOMAIN figures
        BY <1>3, <1>6, <1>8, <3>2
      <4> QED  BY <2>5, <4>1
    <3> QED  BY <1>7, <3>1, <3>2
  <2> QED  BY <1>1, <1>9, <2>7, <2>8, <2>9, <2>10, <2>11, <2>12, <2>13 DEF Near
<1>13. db' \in Tables /\ PlansAreOfAccounts'  BY <1>1 DEF FiguresInductive, PlansAreOfAccounts
<1>14. (reader = "report" => under = 0)  BY DEF FiguresInductive
<1> QED  BY <1>1, <1>2, <1>6, <1>7, <1>9, <1>11, <1>12, <1>13, <1>14 DEF FiguresInductive
\* The tables with one of them written anew.
LEMMA ClientsWritten ==
  ASSUME FiguresInductive, NEW clients \in [Clients -> Readings!Client], NEW c,
         \A d \in Clients : d # c => clients[d] = db.clients[d],
         NEW tables, tables = [db EXCEPT !.clients = clients]
  PROVE  /\ tables \in Tables /\ tables.clients = clients /\ (db' = tables => IsAbout(c))
<1>1. db \in Tables  BY DEF FiguresInductive
<1>2. tables \in Tables /\ tables.clients = clients /\ tables.items = db.items
        /\ tables.works = db.works
  BY <1>1 DEF Tables
<1> QED  BY <1>2 DEF IsAbout

LEMMA ClientWriteKeeps ==
  ASSUME FiguresFit, FiguresInductive, NEW c \in Clients, NEW new \in Readings!Client,
         new.service = None => new.plan = None /\ new.health = None,
         NEW tables, tables = [db EXCEPT !.clients = [db.clients EXCEPT ![c] = new]],
         Readings!Write(tables)
  PROVE  FiguresInductive'
<1> DEFINE clients == [db.clients EXCEPT ![c] = new]
<1>1. db.clients \in [Clients -> Readings!Client]  BY DEF FiguresInductive, Tables
<1>2. /\ clients \in [Clients -> Readings!Client] /\ clients[c] = new
      /\ \A d \in Clients : d # c => clients[d] = db.clients[d]
  BY <1>1
<1>3. tables = [db EXCEPT !.clients = clients]  OBVIOUS
<1> HIDE DEF clients
<1>4. tables \in Tables /\ tables.clients = clients /\ (db' = tables => IsAbout(c))
  BY <1>2, <1>3, ClientsWritten
<1>5. db' = tables  BY DEF Readings!Write
<1>6. PlansAreOfAccounts'
  <2>1. ASSUME NEW d \in Clients, clients[d].service = None
        PROVE  clients[d].plan = None /\ clients[d].health = None
    BY <1>2, <2>1 DEF FiguresInductive, PlansAreOfAccounts
  <2> QED  BY <1>4, <1>5, <2>1 DEF PlansAreOfAccounts
<1> QED  BY <1>4, <1>5, <1>6, WriteKeeps

LEMMA ConvertsKeeps ==
  ASSUME FiguresFit, FiguresInductive, NEW c \in Clients, Readings!Converts(c)
  PROVE  FiguresInductive'
<1>1. /\ Readings!Newcomer \in Readings!Client /\ Readings!Newcomer.service # None
  BY DEF Readings!Newcomer, Readings!Stranger, Readings!Client, FiguresFit
<1>2. Readings!Write([db EXCEPT !.clients = [db.clients EXCEPT ![c] = Readings!Newcomer]])
  BY DEF Readings!Converts
<1> QED  BY <1>1, <1>2, ClientWriteKeeps

LEMMA LaunchesKeeps ==
  ASSUME FiguresFit, FiguresInductive, NEW c \in Clients, Readings!Launches(c)
  PROVE  FiguresInductive'
<1> DEFINE new == [db.clients[c] EXCEPT !.service = "ACTIVE", !.plan = "COMPLETE"]
<1>1. db \in Tables /\ db.clients[c] \in Readings!Client  BY DEF FiguresInductive, Tables
<1>2. new \in Readings!Client /\ new.service # None
  BY <1>1 DEF Readings!Client, FiguresFit
<1>3. [db EXCEPT !.clients[c].service = "ACTIVE", !.clients[c].plan = "COMPLETE"]
        = [db EXCEPT !.clients = [db.clients EXCEPT ![c] = new]]
  BY <1>1 DEF Tables, Readings!Client
<1>4. Readings!Write([db EXCEPT !.clients = [db.clients EXCEPT ![c] = new]])
  BY <1>3 DEF Readings!Launches
<1> HIDE DEF new
<1> QED  BY <1>2, <1>4, ClientWriteKeeps

LEMMA RatesKeeps ==
  ASSUME FiguresFit, FiguresInductive, NEW c \in Clients, Readings!Rates(c)
  PROVE  FiguresInductive'
<1>1. PICK h \in {"HEALTHY", "AT_RISK"} :
        db.clients[c].service # None /\ Readings!Write([db EXCEPT !.clients[c].health = h])
  BY DEF Readings!Rates
<1> DEFINE new == [db.clients[c] EXCEPT !.health = h]
<1>2. db \in Tables /\ db.clients[c] \in Readings!Client  BY DEF FiguresInductive, Tables
<1>3. new \in Readings!Client /\ new.service # None
  BY <1>1, <1>2 DEF Readings!Client
<1>4. [db EXCEPT !.clients[c].health = h] = [db EXCEPT !.clients = [db.clients EXCEPT ![c] = new]]
  BY <1>2 DEF Tables, Readings!Client
<1>5. Readings!Write([db EXCEPT !.clients = [db.clients EXCEPT ![c] = new]])  BY <1>1, <1>4
<1> HIDE DEF new
<1> QED  BY <1>3, <1>5, ClientWriteKeeps

LEMMA BillsKeeps ==
  ASSUME FiguresFit, FiguresInductive, NEW c \in Clients, Readings!Bills(c)
  PROVE  FiguresInductive'
<1> DEFINE new == [db.clients[c] EXCEPT !.billed = Price[c]]
<1>2. db \in Tables /\ db.clients[c] \in Readings!Client /\ Price[c] \in Nat
        /\ db.clients[c].service # None
  BY DEF FiguresInductive, Tables, FiguresFit, Readings!Bills
<1>3. new \in Readings!Client /\ new.service # None
  BY <1>2 DEF Readings!Client
<1>4. [db EXCEPT !.clients[c].billed = Price[c]] = [db EXCEPT !.clients = [db.clients EXCEPT ![c] = new]]
  BY <1>2 DEF Tables, Readings!Client
<1>5. Readings!Write([db EXCEPT !.clients = [db.clients EXCEPT ![c] = new]])
  BY <1>4 DEF Readings!Bills
<1> HIDE DEF new
<1> QED  BY <1>3, <1>5, ClientWriteKeeps

\* A write that leaves the clients alone.
LEMMA OtherWriteKeeps ==
  ASSUME FiguresFit, FiguresInductive, NEW c, NEW tables \in Tables, Readings!Write(tables),
         tables.clients = db.clients,
         \A i \in Items : Owner[i] # c => tables.items[i] = db.items[i],
         \A w \in Deliverables : Owner[w] # c => tables.works[w] = db.works[w]
  PROVE  FiguresInductive'
<1>1. db' = tables  BY DEF Readings!Write
<1>2. IsAbout(c)  BY <1>1 DEF IsAbout
<1>3. PlansAreOfAccounts'  BY <1>1 DEF PlansAreOfAccounts, FiguresInductive
<1> QED  BY <1>2, <1>3, WriteKeeps

LEMMA UpdatesItemKeeps ==
  ASSUME FiguresFit, FiguresInductive, NEW i \in Items, Readings!UpdatesItem(i)
  PROVE  FiguresInductive'
<1>1. PICK s \in Readings!ItemStatuses : Readings!Write([db EXCEPT !.items[i].status = s])
  BY DEF Readings!UpdatesItem
<1> DEFINE new == [db.items[i] EXCEPT !.status = s]
           items == [db.items EXCEPT ![i] = new]
           tables == [db EXCEPT !.items = items]
<1>2. db \in Tables /\ db.items \in [Items -> [status : Readings!ItemStatuses,
        due : Readings!Dues]]
  BY DEF FiguresInductive, Tables
<1>3. new \in [status : Readings!ItemStatuses, due : Readings!Dues]  BY <1>2
<1>4. [db EXCEPT !.items[i].status = s] = tables  BY <1>2 DEF Tables
<1>5. Readings!Write(tables)  BY <1>1, <1>4
<1> HIDE DEF new
<1>6. items \in [Items -> [status : Readings!ItemStatuses, due : Readings!Dues]]
      /\ \A j \in Items : j # i => items[j] = db.items[j]
  BY <1>2, <1>3
<1> HIDE DEF items
<1>7. tables \in Tables /\ tables.clients = db.clients /\ tables.items = items
        /\ tables.works = db.works
  BY <1>2, <1>6 DEF Tables
<1> HIDE DEF tables
<1>8. \A j \in Items : Owner[j] # Owner[i] => tables.items[j] = db.items[j]  BY <1>6, <1>7
<1>9. \A w \in Deliverables : Owner[w] # Owner[i] => tables.works[w] = db.works[w]  BY <1>7
<1> QED  BY <1>5, <1>7, <1>8, <1>9, OtherWriteKeeps

LEMMA UpdatesWorkKeeps ==
  ASSUME FiguresFit, FiguresInductive, NEW w \in Deliverables, Readings!UpdatesWork(w)
  PROVE  FiguresInductive'
<1>1. PICK s \in Readings!WorkStatuses : Readings!Write([db EXCEPT !.works[w].status = s])
  BY DEF Readings!UpdatesWork
<1> DEFINE new == [db.works[w] EXCEPT !.status = s]
           works == [db.works EXCEPT ![w] = new]
           tables == [db EXCEPT !.works = works]
<1>2. db \in Tables /\ db.works \in [Deliverables -> [status : Readings!WorkStatuses,
        due : Readings!Dues]]
  BY DEF FiguresInductive, Tables
<1>3. new \in [status : Readings!WorkStatuses, due : Readings!Dues]  BY <1>2
<1>4. [db EXCEPT !.works[w].status = s] = tables  BY <1>2 DEF Tables
<1>5. Readings!Write(tables)  BY <1>1, <1>4
<1> HIDE DEF new
<1>6. works \in [Deliverables -> [status : Readings!WorkStatuses, due : Readings!Dues]]
      /\ \A v \in Deliverables : v # w => works[v] = db.works[v]
  BY <1>2, <1>3
<1> HIDE DEF works
<1>7. tables \in Tables /\ tables.clients = db.clients /\ tables.items = db.items
        /\ tables.works = works
  BY <1>2, <1>6 DEF Tables
<1> HIDE DEF tables
<1>8. \A v \in Deliverables : Owner[v] # Owner[w] => tables.works[v] = db.works[v]
  BY <1>6, <1>7
<1>9. \A i \in Items : Owner[i] # Owner[w] => tables.items[i] = db.items[i]  BY <1>7
<1> QED  BY <1>5, <1>7, <1>8, <1>9, OtherWriteKeeps

LEMMA ItemFallsDueKeeps ==
  ASSUME FiguresFit, FiguresInductive, NEW i \in Items, Readings!ItemFallsDue(i)
  PROVE  FiguresInductive'
<1>1. Readings!Write([db EXCEPT !.items[i].due = "past"])  BY DEF Readings!ItemFallsDue
<1> DEFINE new == [db.items[i] EXCEPT !.due = "past"]
           items == [db.items EXCEPT ![i] = new]
           tables == [db EXCEPT !.items = items]
<1>2. db \in Tables /\ db.items \in [Items -> [status : Readings!ItemStatuses,
        due : Readings!Dues]]
  BY DEF FiguresInductive, Tables
<1>3. new \in [status : Readings!ItemStatuses, due : Readings!Dues]  BY <1>2 DEF Readings!Dues
<1>4. [db EXCEPT !.items[i].due = "past"] = tables  BY <1>2 DEF Tables
<1>5. Readings!Write(tables)  BY <1>1, <1>4
<1> HIDE DEF new
<1>6. items \in [Items -> [status : Readings!ItemStatuses, due : Readings!Dues]]
      /\ \A j \in Items : j # i => items[j] = db.items[j]
  BY <1>2, <1>3
<1> HIDE DEF items
<1>7. tables \in Tables /\ tables.clients = db.clients /\ tables.items = items
        /\ tables.works = db.works
  BY <1>2, <1>6 DEF Tables
<1> HIDE DEF tables
<1>8. \A j \in Items : Owner[j] # Owner[i] => tables.items[j] = db.items[j]  BY <1>6, <1>7
<1>9. \A w \in Deliverables : Owner[w] # Owner[i] => tables.works[w] = db.works[w]  BY <1>7
<1> QED  BY <1>5, <1>7, <1>8, <1>9, OtherWriteKeeps

LEMMA WorkFallsDueKeeps ==
  ASSUME FiguresFit, FiguresInductive, NEW w \in Deliverables, Readings!WorkFallsDue(w)
  PROVE  FiguresInductive'
<1>1. Readings!Write([db EXCEPT !.works[w].due = "past"])  BY DEF Readings!WorkFallsDue
<1> DEFINE new == [db.works[w] EXCEPT !.due = "past"]
           works == [db.works EXCEPT ![w] = new]
           tables == [db EXCEPT !.works = works]
<1>2. db \in Tables /\ db.works \in [Deliverables -> [status : Readings!WorkStatuses,
        due : Readings!Dues]]
  BY DEF FiguresInductive, Tables
<1>3. new \in [status : Readings!WorkStatuses, due : Readings!Dues]  BY <1>2 DEF Readings!Dues
<1>4. [db EXCEPT !.works[w].due = "past"] = tables  BY <1>2 DEF Tables
<1>5. Readings!Write(tables)  BY <1>1, <1>4
<1> HIDE DEF new
<1>6. works \in [Deliverables -> [status : Readings!WorkStatuses, due : Readings!Dues]]
      /\ \A v \in Deliverables : v # w => works[v] = db.works[v]
  BY <1>2, <1>3
<1> HIDE DEF works
<1>7. tables \in Tables /\ tables.clients = db.clients /\ tables.items = db.items
        /\ tables.works = works
  BY <1>2, <1>6 DEF Tables
<1> HIDE DEF tables
<1>8. \A v \in Deliverables : Owner[v] # Owner[w] => tables.works[v] = db.works[v]
  BY <1>6, <1>7
<1>9. \A i \in Items : Owner[i] # Owner[w] => tables.items[i] = db.items[i]  BY <1>7
<1> QED  BY <1>5, <1>7, <1>8, <1>9, OtherWriteKeeps

LEMMA ClosesDealKeeps ==
  ASSUME FiguresFit, FiguresInductive, NEW x \in Deals, Readings!ClosesDeal(x)
  PROVE  FiguresInductive'
<1>1. PICK s \in {"WON", "LOST"} : Readings!Write([db EXCEPT !.deals[x].status = s])
  BY DEF Readings!ClosesDeal
<1> DEFINE new == [db.deals[x] EXCEPT !.status = s]
           deals == [db.deals EXCEPT ![x] = new]
           tables == [db EXCEPT !.deals = deals]
<1>2. db \in Tables /\ db.deals \in [Deals -> [status : {"OPEN", "WON", "LOST"}]]
  BY DEF FiguresInductive, Tables
<1>3. new \in [status : {"OPEN", "WON", "LOST"}]  BY <1>2
<1>4. [db EXCEPT !.deals[x].status = s] = tables  BY <1>2 DEF Tables
<1>5. Readings!Write(tables)  BY <1>1, <1>4
<1> HIDE DEF new
<1>6. deals \in [Deals -> [status : {"OPEN", "WON", "LOST"}]]  BY <1>2, <1>3
<1> HIDE DEF deals
<1>7. tables \in Tables /\ tables.clients = db.clients /\ tables.items = db.items
        /\ tables.works = db.works
  BY <1>2, <1>6 DEF Tables
<1> HIDE DEF tables
<1> QED  BY <1>5, <1>7, OtherWriteKeeps

LEMMA TouchesKeeps ==
  ASSUME FiguresFit, FiguresInductive, NEW p \in Persons, Readings!Touches(p)
  PROVE  FiguresInductive'
<1> DEFINE Person == [status : {"LEAD", "CUSTOMER"}, met : BOOLEAN, noted : BOOLEAN]
<1>1. db \in Tables /\ db.people \in [Persons -> Person]  BY DEF FiguresInductive, Tables
<1>2. ASSUME NEW new \in Person,
               Readings!Write([db EXCEPT !.people = [db.people EXCEPT ![p] = new]])
      PROVE  FiguresInductive'
  <2> DEFINE people == [db.people EXCEPT ![p] = new]
             tables == [db EXCEPT !.people = people]
  <2>1. people \in [Persons -> Person]  BY <1>1
  <2>2. Readings!Write(tables)  BY <1>2
  <2> HIDE DEF people
  <2>3. tables \in Tables /\ tables.clients = db.clients /\ tables.items = db.items
          /\ tables.works = db.works
    BY <1>1, <2>1 DEF Tables
  <2> HIDE DEF tables
  <2> QED  BY <2>2, <2>3, OtherWriteKeeps
<1> DEFINE met == [db.people[p] EXCEPT !.met = TRUE]
           noted == [db.people[p] EXCEPT !.noted = TRUE]
           customer == [db.people[p] EXCEPT !.status = "CUSTOMER"]
<1>3. met \in Person /\ noted \in Person /\ customer \in Person  BY <1>1
<1>4. /\ [db EXCEPT !.people[p].met = TRUE] = [db EXCEPT !.people = [db.people EXCEPT ![p] = met]]
      /\ [db EXCEPT !.people[p].noted = TRUE] = [db EXCEPT !.people = [db.people EXCEPT ![p] = noted]]
      /\ [db EXCEPT !.people[p].status = "CUSTOMER"]
           = [db EXCEPT !.people = [db.people EXCEPT ![p] = customer]]
  BY <1>1 DEF Tables
<1>5. \E new \in {met, noted,
        customer} : Readings!Write([db EXCEPT !.people = [db.people EXCEPT ![p] = new]])
  BY <1>4 DEF Readings!Touches
<1> HIDE DEF met, noted, customer, Person
<1> QED  BY <1>2, <1>3, <1>5

LEMMA PaysKeeps ==
  ASSUME FiguresFit, FiguresInductive, Readings!Pays PROVE FiguresInductive'
<1>1. PICK source \in {"STRIPE_WEBHOOK", "MANUAL"} :
        Readings!Write([db EXCEPT !.ledger = @ \cup {[amount |-> 97, source |-> source]}])
  BY DEF Readings!Pays
<1> DEFINE ledger == db.ledger \cup {[amount |-> 97, source |-> source]}
           tables == [db EXCEPT !.ledger = ledger]
<1>2. db \in Tables  BY DEF FiguresInductive
<1>3. Readings!Write(tables)  BY <1>1
<1>4. ledger \in SUBSET [amount : {97}, source : {"STRIPE_WEBHOOK", "MANUAL"}]
  BY <1>2 DEF Tables
<1> HIDE DEF ledger
<1>5. tables \in Tables /\ tables.clients = db.clients /\ tables.items = db.items
        /\ tables.works = db.works
  BY <1>2, <1>4 DEF Tables
<1> HIDE DEF tables
<1> QED  BY <1>3, <1>5, OtherWriteKeeps

LEMMA FiguresBegin == FiguresFit /\ Readings!Init => FiguresInductive
<1> SUFFICES ASSUME FiguresFit, Readings!Init PROVE FiguresInductive
  OBVIOUS
<1>1. PICK converted \in SUBSET Clients, rating \in {"AT_RISK", None},
           status \in [Items -> {"NOT_STARTED", "COMPLETE"}], due \in {"past", "soon"} :
       db = [clients |-> [c \in Clients |-> IF c \in converted
                                                THEN [Readings!Newcomer EXCEPT !.health = rating]
                                             ELSE Readings!Stranger],
             items   |-> [i \in Items |-> [status |-> status[i], due |-> due]],
             works   |-> [w \in Deliverables |-> [status |-> "NOT_STARTED", due |-> due]],
             deals   |-> [x \in Deals |-> [status |-> "OPEN"]],
             people  |-> [p \in Persons |-> [status |-> "LEAD", met |-> FALSE,
               noted |-> FALSE]],
             ledger  |-> {}]
  BY DEF Readings!Init
<1>2. reader \in {"dashboard", "desk", "report"} /\ figures = << >> /\ writes = 0 /\ under = 0
  BY DEF Readings!Init
<1>3. [Readings!Newcomer EXCEPT !.health = rating] \in Readings!Client
      /\ [Readings!Newcomer EXCEPT !.health = rating].service # None
      /\ Readings!Stranger \in Readings!Client /\ Readings!Stranger.plan = None
         /\ Readings!Stranger.health = None
  BY DEF Readings!Newcomer, Readings!Stranger, Readings!Client, FiguresFit
<1> DEFINE clients == [c \in Clients |-> IF c \in converted
                                             THEN [Readings!Newcomer EXCEPT !.health = rating]
                                          ELSE Readings!Stranger]
           items == [i \in Items |-> [status |-> status[i], due |-> due]]
           works == [w \in Deliverables |-> [status |-> "NOT_STARTED", due |-> due]]
           deals == [x \in Deals |-> [status |-> "OPEN"]]
           people == [p \in Persons |-> [status |-> "LEAD", met |-> FALSE, noted |-> FALSE]]
<1>4. clients \in [Clients -> Readings!Client]
      /\ \A c \in Clients : clients[c].service = None =>
         clients[c].plan = None /\ clients[c].health = None
  BY <1>3
<1>5. items \in [Items -> [status : Readings!ItemStatuses, due : Readings!Dues]]
  BY DEF Readings!ItemStatuses, Readings!Dues
<1>6. works \in [Deliverables -> [status : Readings!WorkStatuses, due : Readings!Dues]]
  BY DEF Readings!WorkStatuses, Readings!Dues
<1>7. /\ deals \in [Deals -> [status : {"OPEN", "WON", "LOST"}]]
      /\ people \in [Persons -> [status : {"LEAD", "CUSTOMER"}, met : BOOLEAN, noted : BOOLEAN]]
  OBVIOUS
<1>8. db = [clients |-> clients, items |-> items, works |-> works, deals |-> deals,
               people |-> people,
            ledger |-> {}]
  BY <1>1
<1> HIDE DEF clients, items, works, deals, people
<1>9. db \in Tables /\ db.clients = clients  BY <1>4, <1>5, <1>6, <1>7, <1>8 DEF Tables
<1>10. PlansAreOfAccounts  BY <1>4, <1>9 DEF PlansAreOfAccounts
<1>11. DOMAIN figures = {} /\ Len(figures) = 0
         /\ figures = [n \in 1..Len(figures) |-> figures[n]]
  BY <1>2
<1>12. Fresh /\ Near  BY <1>11 DEF Fresh, Near
<1>13. Len(figures) \in 0..Len(Readings!Queries(reader))
  <2>1. Len(Readings!Queries(reader)) \in {22, 3, 1}
    BY <1>2, QueriesOfADashboard, QueriesOfADesk, QueriesOfAReport
  <2> QED  BY <1>11, <2>1
<1>14. writes \in 0..MaxWrites /\ under \in 0..writes  BY <1>2 DEF FiguresFit
<1> QED  BY <1>2, <1>9, <1>10, <1>11, <1>12, <1>13, <1>14 DEF FiguresInductive

LEMMA FiguresStep == FiguresFit /\ FiguresInductive /\ [Readings!Next]_(Readings!vars)
                       => FiguresInductive'
<1> SUFFICES ASSUME FiguresFit, FiguresInductive, [Readings!Next]_(Readings!vars)
             PROVE  FiguresInductive'
  OBVIOUS
<1>1. CASE Readings!Query  BY <1>1, QueryKeeps
<1>2. ASSUME NEW c \in Clients, Readings!Converts(c) \/ Readings!Launches(c)
               \/ Readings!Rates(c) \/ Readings!Bills(c)
      PROVE  FiguresInductive'
  BY <1>2, ConvertsKeeps, LaunchesKeeps, RatesKeeps, BillsKeeps
<1>3. ASSUME NEW i \in Items, Readings!UpdatesItem(i) \/ Readings!ItemFallsDue(i)
      PROVE  FiguresInductive'
  BY <1>3, UpdatesItemKeeps, ItemFallsDueKeeps
<1>4. ASSUME NEW w \in Deliverables, Readings!UpdatesWork(w) \/ Readings!WorkFallsDue(w)
      PROVE  FiguresInductive'
  BY <1>4, UpdatesWorkKeeps, WorkFallsDueKeeps
<1>5. ASSUME NEW x \in Deals, Readings!ClosesDeal(x) PROVE FiguresInductive'
  BY <1>5, ClosesDealKeeps
<1>6. ASSUME NEW p \in Persons, Readings!Touches(p) PROVE FiguresInductive'
  BY <1>6, TouchesKeeps
<1>7. CASE Readings!Pays  BY <1>7, PaysKeeps
<1>8. CASE UNCHANGED Readings!vars
  <2>1. db' = db /\ reader' = reader /\ figures' = figures /\ writes' = writes /\ under' = under
    BY <1>8 DEF Readings!vars
  <2>2. /\ Readings!KpiReady' = Readings!KpiReady /\ Readings!Elevated' = Readings!Elevated
           /\ Readings!InService("ACTIVE")' = Readings!InService("ACTIVE")
        /\ \A q \in Compared : Readings!Answer(q)' = Readings!Answer(q)
    BY <2>1, AnswersStay
  <2>3. Fresh'  BY <2>1, <2>2 DEF FiguresInductive, Fresh
  <2>4. Near'
    <3>1. Near  BY DEF FiguresInductive
    <3> QED  BY <2>1, <2>2, <3>1 DEF Near
  <2>5. PlansAreOfAccounts'  BY <2>1 DEF FiguresInductive, PlansAreOfAccounts
  <2> QED  BY <2>1, <2>3, <2>4, <2>5 DEF FiguresInductive
<1> QED  BY <1>1, <1>2, <1>3, <1>4, <1>5, <1>6, <1>7, <1>8 DEF Readings!Next
-----------------------------------------------------------------------------
(* What the invariant means.                                               *)

LEMMA TheFigureOf ==
  ASSUME NEW q, NEW n \in DOMAIN figures,
         \A m \in DOMAIN figures : Readings!Queries(reader)[m] = q <=> m = n
  PROVE  Readings!The(q) = figures[n]
<1> DEFINE k == CHOOSE m \in DOMAIN figures : Readings!Queries(reader)[m] = q
<1>1. \E m \in DOMAIN figures : Readings!Queries(reader)[m] = q  OBVIOUS
<1>2. k \in DOMAIN figures /\ Readings!Queries(reader)[k] = q  BY <1>1
<1>3. k = n  BY <1>2
<1> QED  BY <1>3 DEF Readings!The

LEMMA OverdueAgree ==
  ASSUME PlansAreOfAccounts PROVE Readings!KpiOverdue = Readings!OpsOverdue
<1>1. ASSUME NEW w, w \in Readings!KpiOverdue PROVE w \in Readings!OpsOverdue
  <2>1. PICK c \in Clients : w \in Readings!WorksOf(c)
    BY <1>1 DEF Readings!KpiOverdue, Readings!AllWorks
  <2>2. db.clients[c].plan # None  BY <2>1 DEF Readings!WorksOf
  <2>3. c \in Readings!Accounts  BY <2>2 DEF PlansAreOfAccounts, Readings!Accounts
  <2>4. Readings!Due(w) = "past" /\ Readings!Status(w) \notin {"DELIVERED", "ACCEPTED",
          "CANCELLED"}
    BY <1>1 DEF Readings!KpiOverdue
  <2> QED  BY <2>1, <2>3, <2>4 DEF Readings!OpsOverdue
<1>2. ASSUME NEW w, w \in Readings!OpsOverdue PROVE w \in Readings!KpiOverdue
  <2>1. PICK c \in Readings!Accounts : w \in Readings!WorksOf(c) /\ Readings!Due(w) = "past"
                                       /\ Readings!Status(w) \notin {"DELIVERED", "ACCEPTED",
                                          "CANCELLED"}
    BY <1>2 DEF Readings!OpsOverdue
  <2>2. w \in Readings!AllWorks  BY <2>1 DEF Readings!AllWorks, Readings!Accounts
  <2> QED  BY <2>1, <2>2 DEF Readings!KpiOverdue
<1> QED  BY <1>1, <1>2

LEMMA DashboardsAgree ==
  ASSUME FiguresFit, FiguresInductive, Readings!Over, reader = "dashboard"
  PROVE  /\ Readings!Apart(Readings!The("ready"), Readings!The("operations").ready) <= under
         /\ Readings!Apart(Readings!The("active"), Readings!The("operations").active) <= under
         /\ Readings!Apart(Readings!Least(Shown, Readings!The("elevated")),
            Readings!Cardinality(Readings!The("atRisk"))) <= under
         /\ under = 0 => /\ Readings!The("overdue") = Readings!Cardinality(Readings!The("operations").overdue)
                         /\ Readings!The("pipeline").projected = Readings!The("byStage")
                         /\ Readings!The("ready") <= Readings!Cardinality({c \in Readings!Pending : Readings!MayLaunch(c)})
                         /\ Readings!The("rated") <= Readings!The("all")
<1>1. DOMAIN figures = 1..22
  <2>1. Len(figures) = 22  BY QueriesOfADashboard DEF Readings!Over
  <2>2. figures = [n \in 1..Len(figures) |-> figures[n]]  BY DEF FiguresInductive
  <2> QED  BY <2>1, <2>2
<1>2. /\ 3 \in DOMAIN figures /\ 8 \in DOMAIN figures /\ 9 \in DOMAIN figures
         /\ 10 \in DOMAIN figures
      /\ 11 \in DOMAIN figures /\ 12 \in DOMAIN figures /\ 13 \in DOMAIN figures
         /\ 18 \in DOMAIN figures
      /\ 20 \in DOMAIN figures /\ 21 \in DOMAIN figures
  BY <1>1
<1>3. \A n \in DOMAIN figures : /\ Readings!Queries(reader)[n] = "pipeline" <=> n = 3
                                /\ Readings!Queries(reader)[n] = "ready" <=> n = 8
                                /\ Readings!Queries(reader)[n] = "overdue" <=> n = 9
                                /\ Readings!Queries(reader)[n] = "active" <=> n = 10
                                /\ Readings!Queries(reader)[n] = "elevated" <=> n = 11
                                /\ Readings!Queries(reader)[n] = "rated" <=> n = 12
                                /\ Readings!Queries(reader)[n] = "all" <=> n = 13
                                /\ Readings!Queries(reader)[n] = "byStage" <=> n = 18
                                /\ Readings!Queries(reader)[n] = "operations" <=> n = 20
                                /\ Readings!Queries(reader)[n] = "atRisk" <=> n = 21
  BY <1>1, QueriesOfADashboard
<1>4. /\ Readings!The("pipeline") = figures[3] /\ Readings!The("ready") = figures[8]
         /\ Readings!The("overdue") = figures[9]
      /\ Readings!The("active") = figures[10] /\ Readings!The("elevated") = figures[11]
         /\ Readings!The("rated") = figures[12]
      /\ Readings!The("all") = figures[13] /\ Readings!The("byStage") = figures[18]
         /\ Readings!The("operations") = figures[20]
      /\ Readings!The("atRisk") = figures[21]
  BY <1>2, <1>3, TheFigureOf
<1>5. /\ Readings!Apart(figures[8], figures[20].ready) <= under
         /\ Readings!Apart(figures[10], figures[20].active) <= under
      /\ Readings!Apart(Readings!Least(Shown, figures[11]),
         Readings!Cardinality(figures[21])) <= under
  BY <1>2 DEF FiguresInductive, Near
<1>6. ASSUME under = 0
      PROVE  /\ figures[9] = Readings!Cardinality(figures[20].overdue)
             /\ figures[3].projected = figures[18]
             /\ figures[8] <= Readings!Cardinality({c \in Readings!Pending : Readings!MayLaunch(c)})
             /\ figures[12] <= figures[13]
  <2>1. \A n \in DOMAIN figures : Readings!Queries(reader)[n] \in Compared
          => figures[n] = Readings!Answer(Readings!Queries(reader)[n])
    BY <1>6 DEF FiguresInductive, Fresh
  <2>2. /\ figures[3] = Readings!Answer("pipeline") /\ figures[9] = Readings!Answer("overdue")
        /\ figures[12] = Readings!Answer("rated") /\ figures[13] = Readings!Answer("all")
           /\ figures[18] = Readings!Answer("byStage")
        /\ figures[20] = Readings!Answer("operations")
    <3>1. /\ Readings!Queries(reader)[3] = "pipeline" /\ Readings!Queries(reader)[9] = "overdue"
          /\ Readings!Queries(reader)[12] = "rated" /\ Readings!Queries(reader)[13] = "all"
          /\ Readings!Queries(reader)[18] = "byStage"
             /\ Readings!Queries(reader)[20] = "operations"
      BY <1>2, <1>3
    <3> QED  BY <1>2, <2>1, <3>1 DEF Compared
  <2>3. figures[9] = Readings!Cardinality(figures[20].overdue)
    BY <2>2, AnswersAre, OverdueAgree DEF Readings!Operations, FiguresInductive
  <2>4. figures[3].projected = figures[18]  BY <2>2, AnswersAre
  <2>5. figures[12] <= figures[13]
    <3>1. Readings!Rated \subseteq Readings!Accounts
      BY DEF Readings!Rated, Readings!Accounts, FiguresInductive, PlansAreOfAccounts
    <3>2. Readings!Cardinality(Readings!Rated) <= Readings!Cardinality(Readings!Accounts)
      BY <3>1, CountedAreFinite, FS_Subset, ReadingsCount
    <3> QED  BY <2>2, <3>2, AnswersAre
  <2>6. figures[8] <= Readings!Cardinality({c \in Readings!Pending : Readings!MayLaunch(c)})
    <3> DEFINE free == {c \in Readings!Pending : Readings!MayLaunch(c)}
               ready == Readings!Cardinality(Readings!KpiReady)
               all == Readings!Cardinality(free)
    <3>1. Readings!KpiReady \subseteq free
      <4> SUFFICES ASSUME NEW c \in Readings!KpiReady
                   PROVE  c \in Readings!Pending /\ Readings!MayLaunch(c)
        OBVIOUS
      <4>1. Readings!ItemsOf(c) \cap Required = Readings!Having(Readings!ItemsOf(c) \cap Required, {"COMPLETE", "WAIVED"})
            /\ c \in Readings!InService("PENDING_ONBOARDING")
        BY DEF Readings!KpiReady
      <4> QED  BY <4>1 DEF Readings!Pending, Readings!MayLaunch, Readings!Having
    <3>2. free \subseteq Readings!Pending  OBVIOUS
    <3>3. IsFiniteSet(free)  BY <3>2, CountedAreFinite, FS_Subset, ReadingsCount
    <3>4. ready <= all /\ ready \in Nat /\ all \in Nat
      BY <3>1, <3>3, CountedAreFinite, FS_Subset, FS_CardinalityType, ReadingsCount
    <3>5. figures[8] \in Nat /\ Readings!Apart(figures[8], ready) <= 0
      BY <1>2, <1>6 DEF FiguresInductive, Near
    <3> HIDE DEF ready, all
    <3>6. figures[8] <= all  BY <3>4, <3>5 DEF Readings!Apart
    <3> QED  BY <3>6 DEF all
  <2> QED  BY <2>3, <2>4, <2>5, <2>6
<1> QED  BY <1>4, <1>5, <1>6

LEMMA DesksAgree ==
  ASSUME FiguresFit, FiguresInductive, Readings!Over, reader = "desk", under = 0
  PROVE  Readings!The("projected").value = Readings!Weighted
           /\ Readings!The("followup") <= Readings!Cardinality(Readings!Backlog)
<1>1. DOMAIN figures = 1..3
  <2>1. Len(figures) = 3  BY QueriesOfADesk DEF Readings!Over
  <2>2. figures = [n \in 1..Len(figures) |-> figures[n]]  BY DEF FiguresInductive
  <2> QED  BY <2>1, <2>2
<1>2. /\ 2 \in DOMAIN figures /\ 3 \in DOMAIN figures
      /\ \A n \in DOMAIN figures : /\ Readings!Queries(reader)[n] = "projected" <=> n = 2
                                   /\ Readings!Queries(reader)[n] = "followup" <=> n = 3
  BY <1>1, QueriesOfADesk
<1>3. Readings!The("projected") = figures[2] /\ Readings!The("followup") = figures[3]
  BY <1>2, TheFigureOf
<1>4. figures[2] = Readings!Answer("projected") /\ figures[3] = Readings!Answer("followup")
  <2>1. \A n \in DOMAIN figures : Readings!Queries(reader)[n] \in Compared
          => figures[n] = Readings!Answer(Readings!Queries(reader)[n])
    BY DEF FiguresInductive, Fresh
  <2> QED  BY <1>2, <2>1 DEF Compared
<1>5. Readings!DeskProjected = Readings!Weighted
  BY DEF Readings!DeskProjected, Readings!Weighted
<1>6. Readings!NeedsFollowup \subseteq Readings!Backlog
  BY DEF Readings!NeedsFollowup, Readings!Backlog
<1>7. Readings!Cardinality(Readings!NeedsFollowup) <= Readings!Cardinality(Readings!Backlog)
  BY <1>6, CountedAreFinite, FS_Subset, ReadingsCount
<1> QED  BY <1>3, <1>4, <1>5, <1>7, AnswersAre

LEMMA ReportsTellTheTruth ==
  ASSUME FiguresFit, FiguresInductive
  PROVE  Readings!ReportsAgree
<1> SUFFICES ASSUME Readings!Over, reader = "report", NEW c \in DOMAIN Readings!The("account")
             PROVE  LET r == Readings!The("account")[c]
                        open == r.waitingOnClient \cup r.waitingOnDemm \cup r.blockers
                                  \cup r.workInProgress
                    IN  /\ r.workCompleted \cap open = {}
                        /\ c \in Readings!KpiReady => Required \cap open = {}
                        /\ c \in Readings!Pending =>
                             /\ r.blockers \cap Items # {} => c \in Readings!Blocked
                             /\ r.waitingOnDemm \cap Items # {} => c \in Readings!WaitingOnDemm
                             /\ r.waitingOnClient \ Ours # {}
                                => c \in Readings!WaitingOnThemselves
  BY DEF Readings!ReportsAgree
<1> DEFINE r == Readings!The("account")[c]
           open == r.waitingOnClient \cup r.waitingOnDemm \cup r.blockers \cup r.workInProgress
<1>1. DOMAIN figures = {1}
  <2>1. Len(figures) = 1  BY QueriesOfAReport DEF Readings!Over
  <2>2. figures = [n \in 1..Len(figures) |-> figures[n]]  BY DEF FiguresInductive
  <2> QED  BY <2>1, <2>2
<1>2. 1 \in DOMAIN figures /\ \A n \in DOMAIN figures : Readings!Queries(reader)[n] = "account"
        <=> n = 1
  BY <1>1, QueriesOfAReport
<1>3. Readings!The("account") = figures[1]  BY <1>2, TheFigureOf
<1>4. figures[1] = [d \in Readings!Accounts |-> Readings!ReportOf(d)]
  BY <1>2, AnswersAre DEF FiguresInductive, Fresh, Compared
<1>5. c \in Readings!Accounts /\ r = Readings!ReportOf(c)  BY <1>3, <1>4
<1> DEFINE items == Readings!ItemsOf(c)
           works == Readings!WorksOf(c)
<1>o. open = r.waitingOnClient \cup r.waitingOnDemm \cup r.blockers \cup r.workInProgress
  OBVIOUS
<1>6. /\ r.workCompleted = Readings!Having(items, {"COMPLETE"})
         \cup Readings!Having(works, {"DELIVERED", "ACCEPTED"})
      /\ r.workInProgress = Readings!Having(items \cup works, {"IN_PROGRESS"})
      /\ r.waitingOnClient = Readings!Having(items, {"WAITING_ON_CLIENT"})
      /\ r.waitingOnDemm = Readings!Having(items \cap Ours,
                                {"NOT_STARTED", "IN_PROGRESS", "BLOCKED"})
                             \cup Readings!Having(works, {"NOT_STARTED", "BLOCKED"})
      /\ r.blockers = Readings!Having(items \cup works, {"BLOCKED"})
  <2> DEFINE done == Readings!Having(items, {"COMPLETE"})
               \cup Readings!Having(works, {"DELIVERED", "ACCEPTED"})
             going == Readings!Having(items \cup works, {"IN_PROGRESS"})
             client == Readings!Having(items, {"WAITING_ON_CLIENT"})
             demm == Readings!Having(items \cap Ours, {"NOT_STARTED", "IN_PROGRESS", "BLOCKED"})
                       \cup Readings!Having(works, {"NOT_STARTED", "BLOCKED"})
             stuck == Readings!Having(items \cup works, {"BLOCKED"})
             soon == {x \in items \cup works : Readings!Due(x) = "soon"}
             none == db.clients[c].plan = None
  <2>1. Readings!ReportOf(c) = [workCompleted |-> done, workInProgress |-> going,
                                waitingOnClient |-> client, waitingOnDemm |-> demm,
                                blockers |-> stuck, upcoming |-> soon, incomplete |-> none]
    BY Zenon DEF Readings!ReportOf
  <2>2. r = Readings!ReportOf(c)  BY <1>5
  <2> HIDE DEF done, going, client, demm, stuck, soon, none, r
  <2>3. /\ r.workCompleted = done /\ r.workInProgress = going /\ r.waitingOnClient = client
        /\ r.waitingOnDemm = demm /\ r.blockers = stuck
    BY <2>1, <2>2
  <2> QED  BY <2>3 DEF done, going, client, demm, stuck
<1>7. items \subseteq Items /\ works \subseteq Deliverables /\ Items \cap Deliverables = {}
        /\ Required \subseteq Items
  BY DEF Readings!ItemsOf, Readings!WorksOf, Readings!Of, FiguresFit
<1>8. items = Readings!ItemsOf(c)  OBVIOUS
<1> HIDE DEF items, works, r, open
<1>9. \A x \in open : Readings!Status(x) \in {"WAITING_ON_CLIENT", "NOT_STARTED", "IN_PROGRESS",
                         "BLOCKED"}
                      /\ (x \in Items => x \in items)
  BY <1>6, <1>7, <1>o DEF Readings!Having
<1>10. r.workCompleted \cap open = {}
  <2>1. \A x \in r.workCompleted : Readings!Status(x) \in {"COMPLETE", "DELIVERED", "ACCEPTED"}
    BY <1>6 DEF Readings!Having
  <2> QED  BY <1>9, <2>1
<1>11. c \in Readings!KpiReady => Required \cap open = {}
  <2> SUFFICES ASSUME c \in Readings!KpiReady, NEW x \in Required \cap open PROVE FALSE
    OBVIOUS
  <2>1. items \cap Required = Readings!Having(items \cap Required, {"COMPLETE", "WAIVED"})
    BY <1>8 DEF Readings!KpiReady
  <2>2. x \in items \cap Required  BY <1>7, <1>9
  <2>3. Readings!Status(x) \in {"COMPLETE", "WAIVED"}  BY <2>1, <2>2 DEF Readings!Having
  <2> QED  BY <1>9, <2>3
<1>12. c \in Readings!Pending /\ r.blockers \cap Items # {} => c \in Readings!Blocked
  <2> SUFFICES ASSUME c \in Readings!Pending, NEW x \in r.blockers \cap Items
               PROVE  c \in Readings!Blocked
    OBVIOUS
  <2>1. x \in Readings!Having(items, {"BLOCKED"})  BY <1>6, <1>7 DEF Readings!Having
  <2> QED  BY <1>8, <2>1 DEF Readings!Blocked
<1>13. c \in Readings!Pending /\ r.waitingOnDemm \cap Items # {} => c \in Readings!WaitingOnDemm
  <2> SUFFICES ASSUME c \in Readings!Pending, NEW x \in r.waitingOnDemm \cap Items
               PROVE  c \in Readings!WaitingOnDemm
    OBVIOUS
  <2>1. x \in Readings!Having(items \cap Ours, {"NOT_STARTED", "IN_PROGRESS", "BLOCKED"})
    BY <1>6, <1>7 DEF Readings!Having
  <2>2. x \in items \cap Ours /\ Readings!Status(x) \notin {"COMPLETE", "WAIVED", "CANCELLED"}
    BY <2>1 DEF Readings!Having
  <2>3. x \in (items \cap Ours) \ Readings!Having(Items, {"COMPLETE", "WAIVED", "CANCELLED"})
    BY <2>2 DEF Readings!Having
  <2> QED  BY <1>8, <2>3 DEF Readings!WaitingOnDemm
<1>14. c \in Readings!Pending /\ r.waitingOnClient \ Ours # {}
         => c \in Readings!WaitingOnThemselves
  <2> SUFFICES ASSUME c \in Readings!Pending, NEW x \in r.waitingOnClient \ Ours
               PROVE  c \in Readings!WaitingOnThemselves
    OBVIOUS
  <2>1. x \in Readings!Having(items \ Ours, {"WAITING_ON_CLIENT"})  BY <1>6 DEF Readings!Having
  <2> QED  BY <1>8, <2>1 DEF Readings!WaitingOnThemselves
<1> QED  BY <1>10, <1>11, <1>12, <1>13, <1>14 DEF r, open

\* What the inductive invariant says of the readings.
LEMMA FiguresMean ==
  FiguresFit /\ FiguresInductive =>
    Readings!TypesHold /\ Readings!FiguresAgree /\ Readings!ReportsAgree
<1> SUFFICES ASSUME FiguresFit, FiguresInductive
             PROVE  Readings!TypesHold /\ Readings!FiguresAgree /\ Readings!ReportsAgree
  OBVIOUS
<1>1. Readings!TypesHold
  <2>1. Len(figures) <= Len(Readings!Queries(reader))
    <3>1. Len(Readings!Queries(reader)) \in {22, 3, 1}
      BY QueriesOfADashboard, QueriesOfADesk, QueriesOfAReport DEF FiguresInductive
    <3>2. Len(figures) \in 0..Len(Readings!Queries(reader))  BY DEF FiguresInductive
    <3> QED  BY <3>1, <3>2
  <2>2. db \in Tables /\ writes \in 0..MaxWrites /\ under \in 0..writes  BY DEF FiguresInductive
  <2> QED  BY <2>1, <2>2 DEF Readings!TypesHold, Tables
<1>2. Readings!FiguresAgree  BY DashboardsAgree, DesksAgree DEF Readings!FiguresAgree
<1>3. Readings!ReportsAgree  BY ReportsTellTheTruth
<1> QED  BY <1>1, <1>2, <1>3

-----------------------------------------------------------------------------
(* Records, launch and rating of a client (ClientDelivery).               *)

\* What a call can be told of.
DeliveryTold == Delivery!Rows \cup {"evidence", "health"}

\* What is known of a call.
DeliveryCall ==
  [pc : {"idle"} \cup Delivery!Working \cup Delivery!Ended,
   op : {"update", "activate", "generate", "recalculate", "override", "clear", None},
   row : Delivery!Rows \cup {None}, ask : Asks \cup {None}, was : Statuses \cup {None},
   gates : SUBSET Checklist, rated : Delivery!HealthStates \cup {None},
     found : Delivery!HealthRow \cup {None},
   between : SUBSET DeliveryTold]

\* What a call has read still holds, or it was told of the change.
Reads(c) ==
  LET call == calls[c] IN
    /\ call.pc = "update" =>
         /\ call.row \in Delivery!Exists(Delivery!Rows) /\ call.ask \in Asks
            /\ call.was \in Statuses
         /\ call.row \notin call.between => call.was = rows[call.row].status
    /\ call.pc \in {"update", "launch"} => call.op # "recalculate"
    /\ call.pc = "launch" => Delivery!OpenGates \subseteq call.gates
       \cup (call.between \cap Checklist)
    /\ call.pc \in {"health", "save", "signal", "override"}
       => call.rated \in Delivery!HealthStates
    /\ call.pc \in {"health", "save"} /\ "evidence" \notin call.between
       => call.rated = Delivery!Rate(Delivery!Facts)
    /\ call.pc \in {"override", "clear"} => health # None
    /\ call.pc = "clear" => call.found # None
    /\ call.pc \in {"save", "clear"} /\ "health" \notin call.between => call.found = health

\* The log tells the status of every row, from its making on.
LogsTell ==
  /\ \A r \in Delivery!Rows : rows[r] = None => log[r] = << >>
  /\ plan = None => \A r \in Delivery!Rows \ Extras : rows[r] = None
  /\ Delivery!HistoryMissesOnlyOverlaps

\* A call that has written and will rate the client.
WillRate(c) == calls[c].op # "recalculate" /\ calls[c].pc \in {"evidence", "health", "save"}

RatingIsDue ==
  health # None /\ ~past.unrated =>
    \/ health.computed = Delivery!Rate(Delivery!Facts)
    \/ \E c \in Pair : WillRate(c)

\* One call may be about to turn the signal over.
SignalsTell ==
  ~past.disturbed =>
    /\ Delivery!OverrideIn(health) = None
    /\ \A c, d \in Pair : Delivery!At(c, "signal") /\ Delivery!At(d, "signal") => c = d
    /\ \A c \in Pair : Delivery!At(c, "signal") =>
         /\ health # None /\ calls[c].rated = health.state
         /\ signals = IF Delivery!IsElevated(health) THEN 0 ELSE 1
    /\ (\A c \in Pair : ~Delivery!At(c, "signal")) => signals = IF Delivery!IsElevated(health)
       THEN 1 ELSE 0

\* The inductive invariant.
DeliveryInductive ==
  /\ Delivery!TypesHold
  /\ today \in Nat
  /\ calls \in [Pair -> DeliveryCall]
  /\ past \in [unrated : BOOLEAN, torn : BOOLEAN, disturbed : BOOLEAN]
  /\ \A c \in Pair : Reads(c)
  /\ LogsTell
  /\ Delivery!LaunchIsJustified
  /\ Delivery!StateMissesOverrideOnlyByOverlap
  /\ RatingIsDue
  /\ SignalsTell

-----------------------------------------------------------------------------
(* The operators of the model.                                             *)

\* A rating is one of the states.
LEMMA RateIsAState ==
  ASSUME service \in {"PENDING_ONBOARDING", "ACTIVE"}
  PROVE  Delivery!Rate(Delivery!Facts) \in Delivery!HealthStates
<1>1. Delivery!Facts.service = service  BY DEF Delivery!Facts
<1>2. Delivery!Facts.service \notin {"CHURNED", "PAUSED"}  BY <1>1
<1>3. Delivery!Rate(Delivery!Facts) \in {"CRITICAL", "AT_RISK", "WATCH", "UNKNOWN", "HEALTHY"}
  BY <1>2, Zenon DEF Delivery!Rate
<1> QED  BY <1>3 DEF Delivery!HealthStates

\* The same evidence has the same rating.
LEMMA RateStays ==
  ASSUME UNCHANGED Delivery!evidence
  PROVE  Delivery!Rate(Delivery!Facts)' = Delivery!Rate(Delivery!Facts)
           /\ Delivery!Facts' = Delivery!Facts
<1>1. plan' = plan /\ service' = service /\ rows' = rows /\ commercial' = commercial
        /\ today' = today
  BY DEF Delivery!evidence
<1>2. Delivery!Facts' = Delivery!Facts  BY <1>1 DEF Delivery!Facts, Delivery!Exists
<1> QED  BY <1>2

LEMMA IdleDelivery ==
  /\ Delivery!Idle \in DeliveryCall /\ Delivery!Idle.pc = "idle" /\ Delivery!Idle.op = None
     /\ Delivery!Idle.row = None
  /\ Delivery!Idle.ask = None /\ Delivery!Idle.was = None /\ Delivery!Idle.gates = {}
     /\ Delivery!Idle.rated = None
  /\ Delivery!Idle.found = None /\ Delivery!Idle.between = {}
BY DEF Delivery!Idle, DeliveryCall

LEMMA OverIsACall ==
  ASSUME NEW o \in Delivery!Ended
  PROVE  Delivery!Over(o) \in DeliveryCall /\ Delivery!Over(o).pc = o
           /\ Delivery!Over(o).pc \notin Delivery!Working
<1>1. Delivery!Over(o) \in DeliveryCall /\ Delivery!Over(o).pc = o
  BY IdleDelivery DEF Delivery!Over, DeliveryCall
<1> QED  BY <1>1 DEF Delivery!Ended, Delivery!Working

LEMMA RequestIsACall ==
  ASSUME NEW op \in {"update", "activate", "generate", "recalculate", "override", "clear",
           None},
         NEW pc \in Delivery!Working
  PROVE  /\ Delivery!Request(op, pc) \in DeliveryCall /\ Delivery!Request(op, pc).pc = pc
            /\ Delivery!Request(op, pc).op = op
         /\ Delivery!Request(op, pc).between = {}
BY IdleDelivery DEF Delivery!Request, DeliveryCall

\* Another call learns of what was written, and of nothing else.
Learns(d, what) ==
  /\ calls'[d] \in DeliveryCall
  /\ calls'[d].pc = calls[d].pc /\ calls'[d].op = calls[d].op /\ calls'[d].row = calls[d].row
  /\ calls'[d].ask = calls[d].ask /\ calls'[d].was = calls[d].was
  /\ calls'[d].gates = calls[d].gates /\ calls'[d].rated = calls[d].rated
  /\ calls'[d].found = calls[d].found
  /\ calls[d].between \subseteq calls'[d].between
  /\ calls[d].pc \in Delivery!Working => what \subseteq calls'[d].between

LEMMA NoticeIsLearned ==
  ASSUME DeliveryInductive, NEW what \in SUBSET DeliveryTold, NEW d \in Pair,
         calls'[d] = IF calls[d].pc \in Delivery!Working
                        THEN [calls[d] EXCEPT !.between = @ \cup what]
                     ELSE calls[d]
  PROVE  Learns(d, what)
<1> DEFINE between == calls[d].between \cup what
<1>1. calls[d] \in DeliveryCall  BY DEF DeliveryInductive
<1>2. CASE calls[d].pc \notin Delivery!Working  BY <1>1, <1>2 DEF Learns
<1>3. CASE calls[d].pc \in Delivery!Working
  <2>1. calls'[d] = [calls[d] EXCEPT !.between = between]  BY <1>3
  <2>2. between \in SUBSET DeliveryTold  BY <1>1 DEF DeliveryCall
  <2>3. calls[d].between \subseteq between /\ what \subseteq between  OBVIOUS
  <2> HIDE DEF between
  <2>4. calls'[d].between = between /\ calls'[d] \in DeliveryCall
    BY <1>1, <2>1, <2>2 DEF DeliveryCall
  <2>5. /\ calls'[d].pc = calls[d].pc /\ calls'[d].op = calls[d].op
           /\ calls'[d].row = calls[d].row
        /\ calls'[d].ask = calls[d].ask /\ calls'[d].was = calls[d].was
        /\ calls'[d].gates = calls[d].gates /\ calls'[d].rated = calls[d].rated
        /\ calls'[d].found = calls[d].found
    BY <1>1, <2>1 DEF DeliveryCall
  <2> QED  BY <2>3, <2>4, <2>5 DEF Learns
<1> QED  BY <1>2, <1>3

LEMMA TellingMoves ==
  ASSUME DeliveryInductive, NEW c \in Pair, NEW new \in DeliveryCall,
         NEW what \in SUBSET DeliveryTold,
         Delivery!TurnAndTell(c, new, what)
  PROVE  /\ calls' \in [Pair -> DeliveryCall] /\ calls'[c] = new
         /\ \A d \in Pair : d # c => Learns(d, what)
<1>1. calls'[c] = new
  BY DEF Delivery!TurnAndTell, Delivery!Notice, DeliveryInductive
<1>2. ASSUME NEW d \in Pair, d # c PROVE Learns(d, what)
  <2>1. calls'[d] = IF calls[d].pc \in Delivery!Working THEN [calls[d] EXCEPT !.between = @
                       \cup what]
                    ELSE calls[d]
    BY <1>2 DEF Delivery!TurnAndTell, Delivery!Notice, DeliveryInductive
  <2> QED  BY <2>1, NoticeIsLearned
<1>3. calls' = [d \in Pair |-> calls'[d]]  BY DEF Delivery!TurnAndTell, Delivery!Notice
<1>4. \A d \in Pair : calls'[d] \in DeliveryCall  BY <1>1, <1>2 DEF Learns
<1> QED  BY <1>1, <1>2, <1>3, <1>4

LEMMA TurningMoves ==
  ASSUME DeliveryInductive, NEW c \in Pair, NEW new \in DeliveryCall, Delivery!Turn(c, new)
  PROVE  /\ calls' \in [Pair -> DeliveryCall] /\ calls'[c] = new
         /\ \A d \in Pair : d # c => Learns(d, {}) /\ calls'[d] = calls[d]
<1>1. /\ calls' \in [Pair -> DeliveryCall] /\ calls'[c] = new
      /\ \A d \in Pair : d # c => calls'[d] = calls[d]
  BY DEF Delivery!Turn, DeliveryInductive
<1> QED  BY <1>1 DEF Learns

\* What was read holds for a call that has learned of the changes.
LEMMA ReadsStay ==
  ASSUME DeliveryInductive, NEW d \in Pair, NEW what \in SUBSET DeliveryTold, Learns(d, what),
         \A r \in Delivery!Rows : rows'[r] # rows[r] => r \in what /\ rows'[r] # None,
         "evidence" \in what \/ Delivery!Rate(Delivery!Facts)' = Delivery!Rate(Delivery!Facts),
         "health" \in what \/ health' = health,
         health # None => health' # None
  PROVE  Reads(d)'
<1>1. Reads(d)  BY DEF DeliveryInductive
<1>2. calls[d].pc \in Delivery!Working => what \subseteq calls'[d].between  BY DEF Learns
<1>3. ASSUME calls[d].pc = "update"
      PROVE  /\ calls[d].row \in Delivery!Exists(Delivery!Rows)' /\ calls[d].ask \in Asks
                /\ calls[d].was \in Statuses
             /\ calls[d].row \notin calls'[d].between
                => calls[d].was = rows'[calls[d].row].status
  <2>1. /\ calls[d].row \in Delivery!Exists(Delivery!Rows) /\ calls[d].ask \in Asks
           /\ calls[d].was \in Statuses
        /\ calls[d].row \notin calls[d].between => calls[d].was = rows[calls[d].row].status
    BY <1>1, <1>3 DEF Reads
  <2>2. calls[d].row \in Delivery!Rows /\ rows[calls[d].row] # None  BY <2>1 DEF Delivery!Exists
  <2>3. what \subseteq calls'[d].between /\ calls[d].between \subseteq calls'[d].between
    BY <1>2, <1>3 DEF Delivery!Working, Learns
  <2> QED  BY <2>1, <2>2, <2>3 DEF Delivery!Exists
<1>4. ASSUME calls[d].pc = "launch"
      PROVE  Delivery!OpenGates' \subseteq calls[d].gates
               \cup (calls'[d].between \cap Checklist)
  <2>1. Delivery!OpenGates \subseteq calls[d].gates \cup (calls[d].between \cap Checklist)
    BY <1>1, <1>4 DEF Reads
  <2>2. what \subseteq calls'[d].between /\ calls[d].between \subseteq calls'[d].between
    BY <1>2, <1>4 DEF Delivery!Working, Learns
  <2>3. ASSUME NEW i \in Delivery!OpenGates'
        PROVE  i \in Delivery!OpenGates \/ i \in what \cap Checklist
    <3>1. i \in Checklist /\ i \in Delivery!Rows /\ rows'[i] # None
            /\ Delivery!OpenGate(rows'[i].status)
      BY DEF Delivery!OpenGates, Delivery!Exists, Delivery!Rows
    <3>2. CASE rows'[i] = rows[i]  BY <3>1, <3>2 DEF Delivery!OpenGates, Delivery!Exists
    <3>3. CASE rows'[i] # rows[i]  BY <3>1, <3>3
    <3> QED  BY <3>2, <3>3
  <2> QED  BY <2>1, <2>2, <2>3
<1>5. /\ calls'[d].pc = calls[d].pc /\ calls'[d].row = calls[d].row
         /\ calls'[d].ask = calls[d].ask
      /\ calls'[d].was = calls[d].was /\ calls'[d].gates = calls[d].gates
      /\ calls'[d].rated = calls[d].rated /\ calls'[d].found = calls[d].found
      /\ calls[d].between \subseteq calls'[d].between
  BY DEF Learns
<1>6. calls[d].pc \in {"health", "save", "signal", "override"}
        => calls[d].rated \in Delivery!HealthStates
  BY <1>1 DEF Reads
<1>7. calls[d].pc \in {"health", "save"} /\ "evidence" \notin calls'[d].between
        => calls[d].rated = Delivery!Rate(Delivery!Facts)'
  <2>1. calls[d].pc \in {"health", "save"} => what \subseteq calls'[d].between
    BY <1>2 DEF Delivery!Working
  <2> QED  BY <1>1, <1>5, <2>1 DEF Reads
<1>8. calls[d].pc \in {"override", "clear"} => health' # None  BY <1>1 DEF Reads
<1>9. calls[d].pc \in {"save", "clear"} /\ "health" \notin calls'[d].between
        => calls[d].found = health'
  <2>1. calls[d].pc \in {"save", "clear"} => what \subseteq calls'[d].between
    BY <1>2 DEF Delivery!Working
  <2> QED  BY <1>1, <1>5, <2>1 DEF Reads
<1>10. calls[d].pc = "clear" => calls[d].found # None  BY <1>1 DEF Reads
<1>11. calls[d].pc \in {"update", "launch"} => calls'[d].op # "recalculate"
  BY <1>1 DEF Reads, Learns
<1> HIDE DEF Delivery!Rate, Delivery!Facts
<1> QED  BY <1>11, <1>3, <1>4, <1>5, <1>6, <1>7, <1>8, <1>9, <1>10 DEF Reads
-----------------------------------------------------------------------------
(* What a step leaves alone.                                               *)

LEMMA LogsStay ==
  ASSUME DeliveryInductive, UNCHANGED <<plan, rows, log>> PROVE LogsTell'
BY DEF DeliveryInductive, LogsTell, Delivery!HistoryMissesOnlyOverlaps, Delivery!Exists

LEMMA LaunchStays ==
  ASSUME DeliveryInductive, UNCHANGED <<plan, service, overrides, launches>>
  PROVE  Delivery!LaunchIsJustified'
BY DEF DeliveryInductive, Delivery!LaunchIsJustified

LEMMA StateStays ==
  ASSUME DeliveryInductive, health' = health, past.torn => past'.torn
  PROVE  Delivery!StateMissesOverrideOnlyByOverlap'
BY DEF DeliveryInductive, Delivery!StateMissesOverrideOnlyByOverlap, Delivery!Given

\* The signal is turned over by its own statement only.
LEMMA SignalStays ==
  ASSUME DeliveryInductive, UNCHANGED <<health, signals>>, past.disturbed => past'.disturbed,
         \A d \in Pair : /\ calls'[d].pc = "signal" <=> calls[d].pc = "signal"
                         /\ calls[d].pc = "signal" => calls'[d].rated = calls[d].rated
  PROVE  SignalsTell'
<1> SUFFICES ASSUME ~past'.disturbed PROVE SignalsTell'
  BY DEF SignalsTell
<1>1. ~past.disturbed  OBVIOUS
<1>2. /\ Delivery!OverrideIn(health) = None
      /\ \A c, d \in Pair : Delivery!At(c, "signal") /\ Delivery!At(d, "signal") => c = d
      /\ \A c \in Pair : Delivery!At(c, "signal") =>
           /\ health # None /\ calls[c].rated = health.state
           /\ signals = IF Delivery!IsElevated(health) THEN 0 ELSE 1
      /\ (\A c \in Pair : ~Delivery!At(c, "signal")) => signals = IF Delivery!IsElevated(health)
         THEN 1 ELSE 0
  BY <1>1 DEF DeliveryInductive, SignalsTell
<1>3. Delivery!OverrideIn(health)' = Delivery!OverrideIn(health)
        /\ Delivery!IsElevated(health)' = Delivery!IsElevated(health)
  BY DEF Delivery!OverrideIn, Delivery!IsElevated
<1>4. \A c, d \in Pair : calls'[c].pc = "signal" /\ calls'[d].pc = "signal" => c = d
  BY <1>2 DEF Delivery!At
<1>5. \A c \in Pair : calls'[c].pc = "signal" =>
           /\ health # None /\ calls'[c].rated = health.state
           /\ signals = IF Delivery!IsElevated(health) THEN 0 ELSE 1
  BY <1>2 DEF Delivery!At
<1>6. (\A c \in Pair : calls'[c].pc # "signal") => signals = IF Delivery!IsElevated(health)
        THEN 1 ELSE 0
  BY <1>2 DEF Delivery!At
<1> QED  BY <1>2, <1>3, <1>4, <1>5, <1>6 DEF SignalsTell, Delivery!At

\* A client stays rated while the evidence stays and who will rate it goes on.
LEMMA RatingStays ==
  ASSUME DeliveryInductive, health' = health,
         Delivery!Rate(Delivery!Facts)' = Delivery!Rate(Delivery!Facts),
         past.unrated => past'.unrated,
         \A d \in Pair : WillRate(d) => WillRate(d)' \/ past'.unrated
  PROVE  RatingIsDue'
BY DEF DeliveryInductive, RatingIsDue

\* A call that only reads, or ends.
LEMMA ReadingKeeps ==
  ASSUME DeliveryInductive, NEW c \in Pair, NEW new \in DeliveryCall, Delivery!Turn(c, new),
         UNCHANGED <<Delivery!evidence, Delivery!rating, overrides, log, launches, past>>,
         Reads(c)', WillRate(c) => WillRate(c)',
         calls[c].pc # "signal", new.pc # "signal"
  PROVE  DeliveryInductive'
<1>1. /\ calls' \in [Pair -> DeliveryCall] /\ calls'[c] = new
      /\ \A d \in Pair : d # c => Learns(d, {}) /\ calls'[d] = calls[d]
  BY TurningMoves
<1>2. /\ plan' = plan /\ service' = service /\ rows' = rows /\ commercial' = commercial
         /\ today' = today
      /\ health' = health /\ signals' = signals /\ filed' = filed
      /\ overrides' = overrides /\ log' = log /\ launches' = launches /\ past' = past
  BY DEF Delivery!evidence, Delivery!rating
<1>3. Delivery!Rate(Delivery!Facts)' = Delivery!Rate(Delivery!Facts)  BY RateStays
<1>4. ASSUME NEW d \in Pair PROVE Reads(d)'
  <2>1. CASE d = c  BY <2>1
  <2>2. CASE d # c  BY <1>1, <1>2, <1>3, <2>2, ReadsStay
  <2> QED  BY <2>1, <2>2
<1>5. \A d \in Pair : WillRate(d) => WillRate(d)'
  <2> SUFFICES ASSUME NEW d \in Pair, WillRate(d) PROVE WillRate(d)'
    OBVIOUS
  <2>1. CASE d = c  BY <2>1
  <2>2. CASE d # c  BY <1>1, <2>2 DEF WillRate
  <2> QED  BY <2>1, <2>2
<1>6. LogsTell' /\ Delivery!LaunchIsJustified' /\ Delivery!StateMissesOverrideOnlyByOverlap'
  BY <1>2, LogsStay, LaunchStays, StateStays
<1>7. RatingIsDue'  BY <1>2, <1>3, <1>5, RatingStays
<1>8. SignalsTell'  BY <1>1, <1>2, SignalStays
<1>9. Delivery!TypesHold'
  <2>1. \A d \in Pair : calls'[d].pc \in {"idle"} \cup Delivery!Working \cup Delivery!Ended
    BY <1>1 DEF DeliveryCall
  <2> QED  BY <1>2, <2>1 DEF DeliveryInductive, Delivery!TypesHold
<1>10. today' \in Nat /\ past' \in [unrated : BOOLEAN, torn : BOOLEAN, disturbed : BOOLEAN]
  BY <1>2 DEF DeliveryInductive
<1> QED  BY <1>1, <1>4, <1>6, <1>7, <1>8, <1>9, <1>10 DEF DeliveryInductive
-----------------------------------------------------------------------------
(* The calls that read.                                                    *)

LEMMA FindRowKeeps ==
  ASSUME DeliveryFit, DeliveryInductive, NEW c \in Pair, NEW r \in Delivery!Rows,
         NEW ask \in Asks, Delivery!FindRow(c, r, ask)
  PROVE  DeliveryInductive'
<1> DEFINE found == [Delivery!Request("update", "update") EXCEPT !.row = r, !.ask = ask,
             !.was = rows[r].status]
<1>1. calls[c].pc = "idle" /\ UNCHANGED <<Delivery!evidence, Delivery!rating, overrides, log,
        launches, past>>
  BY DEF Delivery!FindRow, Delivery!At
<1>2. CASE rows[r] = None
  <2>1. Delivery!Over("refused") \in DeliveryCall /\ Delivery!Over("refused").pc = "refused"
    BY OverIsACall DEF Delivery!Ended
  <2>2. Delivery!Turn(c, Delivery!Over("refused"))  BY <1>2 DEF Delivery!FindRow
  <2>3. calls'[c] = Delivery!Over("refused")  BY <2>1, <2>2, TurningMoves
  <2>4. Reads(c)'  BY <2>1, <2>3 DEF Reads
  <2> QED  BY <1>1, <2>1, <2>2, <2>4, ReadingKeeps DEF WillRate
<1>3. CASE rows[r] # None
  <2>1. /\ Delivery!Request("update", "update") \in DeliveryCall
           /\ Delivery!Request("update", "update").pc = "update"
        /\ Delivery!Request("update", "update").op = "update"
    BY RequestIsACall DEF Delivery!Working
  <2>2. rows[r] \in Delivery!Row  BY <1>3 DEF DeliveryInductive, Delivery!TypesHold
  <2>3. rows[r].status \in Statuses  BY <2>2 DEF Delivery!Row, Statuses
  <2>4. found \in DeliveryCall /\ found.pc = "update" /\ found.row = r /\ found.ask = ask
        /\ found.was = rows[r].status /\ found.op = "update"
    BY <2>1, <2>3 DEF DeliveryCall
  <2>5. Delivery!Turn(c, found)  BY <1>3 DEF Delivery!FindRow
  <2> HIDE DEF found
  <2>6. calls'[c] = found  BY <2>4, <2>5, TurningMoves
  <2>7. rows' = rows  BY <1>1 DEF Delivery!evidence
  <2>8. Reads(c)'  BY <1>3, <2>3, <2>4, <2>6, <2>7 DEF Reads, Delivery!Exists
  <2> QED  BY <1>1, <2>4, <2>5, <2>8, ReadingKeeps DEF WillRate
<1> QED  BY <1>2, <1>3

LEMMA ActivateKeeps ==
  ASSUME DeliveryFit, DeliveryInductive, NEW c \in Pair, Delivery!Activate(c)
  PROVE  DeliveryInductive'
<1> DEFINE found == [Delivery!Request("activate", "launch") EXCEPT !.gates = Delivery!OpenGates]
<1>1. calls[c].pc = "idle" /\ UNCHANGED <<Delivery!evidence, Delivery!rating, overrides, log,
        launches, past>>
  BY DEF Delivery!Activate, Delivery!At
<1>2. CASE Delivery!Turn(c, Delivery!Over("refused"))
  <2>1. Delivery!Over("refused") \in DeliveryCall /\ Delivery!Over("refused").pc = "refused"
    BY OverIsACall DEF Delivery!Ended
  <2>3. calls'[c] = Delivery!Over("refused")  BY <2>1, <1>2, TurningMoves
  <2>4. Reads(c)'  BY <2>1, <2>3 DEF Reads
  <2> QED  BY <1>1, <2>1, <1>2, <2>4, ReadingKeeps DEF WillRate
<1>3. CASE Delivery!Turn(c, found)
  <2>1. /\ Delivery!Request("activate", "launch") \in DeliveryCall
           /\ Delivery!Request("activate", "launch").pc = "launch"
        /\ Delivery!Request("activate", "launch").op = "activate"
    BY RequestIsACall DEF Delivery!Working
  <2>2. Delivery!OpenGates \in SUBSET Checklist  BY DEF Delivery!OpenGates, Delivery!Exists
  <2>3. found \in DeliveryCall /\ found.pc = "launch" /\ found.gates = Delivery!OpenGates
          /\ found.op = "activate"
    BY <2>1, <2>2 DEF DeliveryCall
  <2> HIDE DEF found
  <2>4. calls'[c] = found  BY <1>3, <2>3, TurningMoves
  <2>5. Delivery!OpenGates' = Delivery!OpenGates
    BY <1>1 DEF Delivery!evidence, Delivery!OpenGates, Delivery!Exists
  <2>6. Reads(c)'  BY <2>3, <2>4, <2>5 DEF Reads
  <2> QED  BY <1>1, <1>3, <2>3, <2>6, ReadingKeeps DEF WillRate
<1> QED  BY <1>2, <1>3 DEF Delivery!Activate

LEMMA GenerateKeeps ==
  ASSUME DeliveryFit, DeliveryInductive, NEW c \in Pair, Delivery!Generate(c)
  PROVE  DeliveryInductive'
<1>1. calls[c].pc = "idle" /\ UNCHANGED <<Delivery!evidence, Delivery!rating, overrides, log,
        launches, past>>
  BY DEF Delivery!Generate, Delivery!At
<1>2. PICK new \in {Delivery!Over("done"), Delivery!Request("generate",
             "generate")} : Delivery!Turn(c, new)
  BY DEF Delivery!Generate
<1>3. new \in DeliveryCall /\ new.pc \in {"done", "generate"}
  <2>1. Delivery!Over("done") \in DeliveryCall /\ Delivery!Over("done").pc = "done"
    BY OverIsACall DEF Delivery!Ended
  <2>2. Delivery!Request("generate", "generate") \in DeliveryCall
          /\ Delivery!Request("generate", "generate").pc = "generate"
    BY RequestIsACall DEF Delivery!Working
  <2> QED  BY <2>1, <2>2
<1>4. calls'[c] = new  BY <1>2, <1>3, TurningMoves
<1>5. Reads(c)'  BY <1>3, <1>4 DEF Reads
<1> QED  BY <1>1, <1>2, <1>3, <1>5, ReadingKeeps DEF WillRate

LEMMA RecalculateKeeps ==
  ASSUME DeliveryFit, DeliveryInductive, NEW c \in Pair, Delivery!Recalculate(c)
  PROVE  DeliveryInductive'
<1>1. calls[c].pc = "idle" /\ UNCHANGED <<Delivery!evidence, Delivery!rating, overrides, log,
        launches, past>>
      /\ Delivery!Turn(c, Delivery!Request("recalculate", "evidence"))
  BY DEF Delivery!Recalculate, Delivery!At
<1>2. Delivery!Request("recalculate", "evidence") \in DeliveryCall
        /\ Delivery!Request("recalculate", "evidence").pc = "evidence"
  BY RequestIsACall DEF Delivery!Working
<1>3. calls'[c] = Delivery!Request("recalculate", "evidence")  BY <1>1, <1>2, TurningMoves
<1>4. Reads(c)'  BY <1>2, <1>3 DEF Reads
<1> QED  BY <1>1, <1>2, <1>4, ReadingKeeps DEF WillRate

LEMMA ReadEvidenceKeeps ==
  ASSUME DeliveryFit, DeliveryInductive, NEW c \in Pair, Delivery!ReadEvidence(c)
  PROVE  DeliveryInductive'
<1> DEFINE rated == Delivery!Rate(Delivery!Facts)
           new == [calls[c] EXCEPT !.pc = "health", !.rated = rated, !.between = {}]
<1>1. calls[c].pc = "evidence" /\ UNCHANGED <<Delivery!evidence, Delivery!rating, overrides,
        log, launches, past>>
      /\ Delivery!Turn(c, new) /\ calls[c] \in DeliveryCall
  BY DEF Delivery!ReadEvidence, Delivery!At, DeliveryInductive
<1>2. rated \in Delivery!HealthStates  BY RateIsAState DEF DeliveryInductive, Delivery!TypesHold
<1>3. rated' = rated  BY <1>1, RateStays
<1>4. rated = Delivery!Rate(Delivery!Facts) /\ rated' = Delivery!Rate(Delivery!Facts)'  OBVIOUS
<1> HIDE DEF rated
<1>5. new \in DeliveryCall  BY <1>1, <1>2 DEF DeliveryCall, Delivery!Working
<1>6. new.pc = "health" /\ new.rated = rated /\ new.op = calls[c].op /\ new.between = {}
  BY <1>1 DEF DeliveryCall
<1> HIDE DEF new
<1>7. calls'[c] = new  BY <1>1, <1>5, TurningMoves
<1>8. Reads(c)'  BY <1>2, <1>3, <1>4, <1>6, <1>7 DEF Reads
<1>9. WillRate(c) => WillRate(c)'  BY <1>6, <1>7 DEF WillRate
<1> QED  BY <1>1, <1>5, <1>6, <1>8, <1>9, ReadingKeeps

LEMMA ReadHealthKeeps ==
  ASSUME DeliveryFit, DeliveryInductive, NEW c \in Pair, Delivery!ReadHealth(c)
  PROVE  DeliveryInductive'
<1> DEFINE between == calls[c].between \ {"health"}
           new == [calls[c] EXCEPT !.pc = "save", !.found = health, !.between = between]
<1>1. calls[c].pc = "health" /\ UNCHANGED <<Delivery!evidence, Delivery!rating, overrides, log,
        launches, past>>
      /\ Delivery!Turn(c, new) /\ calls[c] \in DeliveryCall
  BY DEF Delivery!ReadHealth, Delivery!At, DeliveryInductive
<1>2. between \in SUBSET DeliveryTold /\ health \in Delivery!HealthRow \cup {None}
      /\ ("evidence" \notin between => "evidence" \notin calls[c].between)
  BY <1>1 DEF DeliveryCall, DeliveryInductive, Delivery!TypesHold
<1> HIDE DEF between
<1>3. new \in DeliveryCall  BY <1>1, <1>2 DEF DeliveryCall, Delivery!Working
<1>4. new.pc = "save" /\ new.rated = calls[c].rated /\ new.op = calls[c].op
        /\ new.between = between
      /\ new.found = health
  BY <1>1 DEF DeliveryCall
<1> HIDE DEF new
<1>5. calls'[c] = new  BY <1>1, <1>3, TurningMoves
<1>6. health' = health /\ Delivery!Rate(Delivery!Facts)' = Delivery!Rate(Delivery!Facts)
  BY <1>1, RateStays DEF Delivery!rating
<1>7. calls[c].rated \in Delivery!HealthStates /\ ("evidence" \notin calls[c].between
        => calls[c].rated = Delivery!Rate(Delivery!Facts))
  BY <1>1 DEF DeliveryInductive, Reads
<1>8. Reads(c)'  BY <1>2, <1>4, <1>5, <1>6, <1>7 DEF Reads
<1>9. WillRate(c) => WillRate(c)'  BY <1>4, <1>5 DEF WillRate
<1> QED  BY <1>1, <1>3, <1>4, <1>8, <1>9, ReadingKeeps

LEMMA OverrideKeeps ==
  ASSUME DeliveryFit, DeliveryInductive, NEW c \in Pair, Delivery!Override(c)
  PROVE  DeliveryInductive'
<1>1. PICK state \in Ratings :
        /\ calls[c].pc = "idle" /\ UNCHANGED <<Delivery!evidence, Delivery!rating, overrides,
           log, launches, past>>
        /\ Delivery!Turn(c, IF health = None THEN Delivery!Over("refused")
                            ELSE [Delivery!Request("override",
                              "override") EXCEPT !.rated = state])
  BY DEF Delivery!Override, Delivery!At
<1> DEFINE new == [Delivery!Request("override", "override") EXCEPT !.rated = state]
<1>2. CASE health = None
  <2>1. Delivery!Over("refused") \in DeliveryCall /\ Delivery!Over("refused").pc = "refused"
    BY OverIsACall DEF Delivery!Ended
  <2>2. Delivery!Turn(c, Delivery!Over("refused"))  BY <1>1, <1>2
  <2>3. calls'[c] = Delivery!Over("refused")  BY <2>1, <2>2, TurningMoves
  <2>4. Reads(c)'  BY <2>1, <2>3 DEF Reads
  <2> QED  BY <1>1, <2>1, <2>2, <2>4, ReadingKeeps DEF WillRate
<1>3. CASE health # None
  <2>1. Delivery!Request("override", "override") \in DeliveryCall
          /\ Delivery!Request("override", "override").pc = "override"
    BY RequestIsACall DEF Delivery!Working
  <2>2. state \in Delivery!HealthStates  BY DEF DeliveryFit
  <2>3. new \in DeliveryCall /\ new.pc = "override" /\ new.rated = state
    BY <2>1, <2>2 DEF DeliveryCall
  <2>4. Delivery!Turn(c, new)  BY <1>1, <1>3
  <2> HIDE DEF new
  <2>5. calls'[c] = new  BY <2>3, <2>4, TurningMoves
  <2>6. health' # None  BY <1>1, <1>3 DEF Delivery!rating
  <2>7. Reads(c)'  BY <2>2, <2>3, <2>5, <2>6 DEF Reads
  <2> QED  BY <1>1, <2>3, <2>4, <2>7, ReadingKeeps DEF WillRate
<1> QED  BY <1>2, <1>3

LEMMA ClearOverrideKeeps ==
  ASSUME DeliveryFit, DeliveryInductive, NEW c \in Pair, Delivery!ClearOverride(c)
  PROVE  DeliveryInductive'
<1> DEFINE new == [Delivery!Request("clear", "clear") EXCEPT !.found = health]
<1>1. /\ calls[c].pc = "idle" /\ UNCHANGED <<Delivery!evidence, Delivery!rating, overrides, log,
         launches, past>>
      /\ Delivery!Turn(c, IF Delivery!OverrideIn(health) = None THEN Delivery!Over("refused")
         ELSE new)
  BY DEF Delivery!ClearOverride, Delivery!At
<1>2. CASE Delivery!OverrideIn(health) = None
  <2>1. Delivery!Over("refused") \in DeliveryCall /\ Delivery!Over("refused").pc = "refused"
    BY OverIsACall DEF Delivery!Ended
  <2>2. Delivery!Turn(c, Delivery!Over("refused"))  BY <1>1, <1>2
  <2>3. calls'[c] = Delivery!Over("refused")  BY <2>1, <2>2, TurningMoves
  <2>4. Reads(c)'  BY <2>1, <2>3 DEF Reads
  <2> QED  BY <1>1, <2>1, <2>2, <2>4, ReadingKeeps DEF WillRate
<1>3. CASE Delivery!OverrideIn(health) # None
  <2>1. Delivery!Request("clear", "clear") \in DeliveryCall
          /\ Delivery!Request("clear", "clear").pc = "clear"
    BY RequestIsACall DEF Delivery!Working
  <2>2. health # None /\ health \in Delivery!HealthRow \cup {None}
    BY <1>3 DEF Delivery!OverrideIn, DeliveryInductive, Delivery!TypesHold
  <2>3. new \in DeliveryCall /\ new.pc = "clear" /\ new.found = health
    BY <2>1, <2>2 DEF DeliveryCall
  <2>4. Delivery!Turn(c, new)  BY <1>1, <1>3
  <2> HIDE DEF new
  <2>5. calls'[c] = new  BY <2>3, <2>4, TurningMoves
  <2>6. health' = health  BY <1>1 DEF Delivery!rating
  <2>7. Reads(c)'  BY <2>2, <2>3, <2>5, <2>6 DEF Reads
  <2> QED  BY <1>1, <2>3, <2>4, <2>7, ReadingKeeps DEF WillRate
<1> QED  BY <1>2, <1>3
-----------------------------------------------------------------------------
(* Writes that do not rate the client.                                     *)

\* A new row is one, and has no history.
LEMMA NewRowIsARow ==
  ASSUME DeliveryFit, DeliveryInductive, NEW r \in Delivery!Rows
  PROVE  Delivery!NewRow(r) \in Delivery!Row /\ Delivery!NewRow(r) # None
           /\ Delivery!NewRow(r).status = "NOT_STARTED"
<1>1. Delivery!NewRow(r) \in Delivery!Row
  BY DEF DeliveryFit, DeliveryInductive, Delivery!NewRow, Delivery!Row, Delivery!Never,
         Delivery!ItemStatuses
<1>2. None \notin Delivery!Row  BY DEF DeliveryFit
<1> QED  BY <1>1, <1>2 DEF Delivery!NewRow

LEMMA RecordingKeeps ==
  ASSUME DeliveryFit, DeliveryInductive, NEW what \in SUBSET DeliveryTold, "evidence" \in what,
         calls' \in [Pair -> DeliveryCall],
         \A d \in Pair : Learns(d, what) \/ (calls[d].pc \in {"idle", "generate"}
           /\ calls'[d] = Delivery!Over("done")),
         UNCHANGED <<Delivery!rating, overrides, log, launches, service>>, Delivery!Unrated,
           today' \in Nat,
         plan' = plan \/ (plan = None /\ plan' = "NOT_STARTED"),
         rows' \in [Delivery!Rows -> Delivery!Row \cup {None}], LogsTell',
         \A r \in Delivery!Rows : rows'[r] # rows[r] => r \in what /\ rows'[r] # None
  PROVE  DeliveryInductive'
<1>1. /\ health' = health /\ signals' = signals /\ filed' = filed /\ service' = service
      /\ overrides' = overrides /\ log' = log /\ launches' = launches
      /\ past' = [past EXCEPT !.unrated = TRUE]
  BY DEF Delivery!rating, Delivery!Unrated
<1>2. past' \in [unrated : BOOLEAN, torn : BOOLEAN, disturbed : BOOLEAN]
      /\ past'.unrated = TRUE /\ past'.torn = past.torn /\ past'.disturbed = past.disturbed
  BY <1>1 DEF DeliveryInductive
<1>3. ASSUME NEW d \in Pair PROVE Reads(d)'
  <2>1. CASE Learns(d, what)  BY <1>1, <2>1, ReadsStay
  <2>2. CASE calls'[d] = Delivery!Over("done")
    <3>1. calls'[d].pc = "done"  BY <2>2, OverIsACall DEF Delivery!Ended
    <3> QED  BY <3>1 DEF Reads
  <2> QED  BY <2>1, <2>2
<1>4. \A d \in Pair : /\ calls'[d].pc = "signal" <=> calls[d].pc = "signal"
                      /\ calls[d].pc = "signal" => calls'[d].rated = calls[d].rated
  <2> SUFFICES ASSUME NEW d \in Pair
               PROVE  /\ calls'[d].pc = "signal" <=> calls[d].pc = "signal"
                      /\ calls[d].pc = "signal" => calls'[d].rated = calls[d].rated
    OBVIOUS
  <2>1. CASE Learns(d, what)  BY <2>1 DEF Learns
  <2>2. CASE calls[d].pc \in {"idle", "generate"} /\ calls'[d] = Delivery!Over("done")
    <3>1. calls'[d].pc = "done"  BY <2>2, OverIsACall DEF Delivery!Ended
    <3> QED  BY <2>2, <3>1
  <2> QED  BY <2>1, <2>2
<1>5. SignalsTell'  BY <1>1, <1>2, <1>4, SignalStays
<1>6. RatingIsDue'  BY <1>2 DEF RatingIsDue
<1>7. Delivery!StateMissesOverrideOnlyByOverlap'  BY <1>1, <1>2, StateStays
<1>8. Delivery!LaunchIsJustified' /\ plan' \in {None, "NOT_STARTED", "COMPLETE"}
  <2>1. Delivery!LaunchIsJustified /\ plan \in {None, "NOT_STARTED", "COMPLETE"}
          /\ None # "COMPLETE"
    BY DEF DeliveryInductive, Delivery!TypesHold, DeliveryFit
  <2> QED  BY <1>1, <2>1 DEF Delivery!LaunchIsJustified
<1>9. Delivery!TypesHold'
  <2>1. \A d \in Pair : calls'[d].pc \in {"idle"} \cup Delivery!Working \cup Delivery!Ended
    BY DEF DeliveryCall
  <2> QED  BY <1>1, <1>8, <2>1 DEF DeliveryInductive, Delivery!TypesHold
<1> QED  BY <1>2, <1>3, <1>5, <1>6, <1>7, <1>8, <1>9 DEF DeliveryInductive

LEMMA CommitPlanKeeps ==
  ASSUME DeliveryFit, DeliveryInductive, NEW c \in Pair, Delivery!CommitPlan(c)
  PROVE  DeliveryInductive'
<1>1. calls[c].pc = "generate" /\ UNCHANGED <<Delivery!rating, overrides, log, launches>>
  BY DEF Delivery!CommitPlan, Delivery!At
<1>2. CASE plan # None
  <2>1. Delivery!Turn(c, Delivery!Over("refused")) /\ UNCHANGED <<Delivery!evidence, past>>
    BY <1>2 DEF Delivery!CommitPlan, Delivery!Answer
  <2>2. Delivery!Over("refused") \in DeliveryCall /\ Delivery!Over("refused").pc = "refused"
    BY OverIsACall DEF Delivery!Ended
  <2>3. calls'[c] = Delivery!Over("refused")  BY <2>1, <2>2, TurningMoves
  <2>4. Reads(c)'  BY <2>2, <2>3 DEF Reads
  <2> QED  BY <1>1, <2>1, <2>2, <2>4, ReadingKeeps DEF WillRate
<1>3. CASE plan = None
  <2> DEFINE what == Checklist \cup Scope \cup {"evidence"}
  <2>1. /\ plan' = "NOT_STARTED" /\ rows' = [r \in Delivery!Rows |-> IF r \in Extras
           THEN rows[r] ELSE Delivery!NewRow(r)]
        /\ Delivery!TurnAndTell(c, Delivery!Over("done"), what) /\ Delivery!Unrated
           /\ service' = service /\ today' = today
    BY <1>3 DEF Delivery!CommitPlan
  <2>2. what \in SUBSET DeliveryTold /\ "evidence" \in what
    BY DEF DeliveryTold, Delivery!Rows, Delivery!Works
  <2>3. \A r \in Delivery!Rows : r \notin Extras => r \in what
    BY DEF Delivery!Rows, Delivery!Works
  <2> HIDE DEF what
  <2>4. rows \in [Delivery!Rows -> Delivery!Row \cup {None}]
    BY DEF DeliveryInductive, Delivery!TypesHold
  <2>5. /\ \A r \in Delivery!Rows : rows'[r] # rows[r] => r \in what /\ rows'[r] # None
        /\ rows' \in [Delivery!Rows -> Delivery!Row \cup {None}]
    BY <2>1, <2>3, <2>4, NewRowIsARow
  <2>6. Delivery!Over("done") \in DeliveryCall  BY OverIsACall DEF Delivery!Ended
  <2>7. /\ calls' \in [Pair -> DeliveryCall] /\ calls'[c] = Delivery!Over("done")
        /\ \A d \in Pair : d # c => Learns(d, what)
    BY <2>1, <2>2, <2>6, TellingMoves
  <2>8. \A d \in Pair : Learns(d, what) \/ (calls[d].pc \in {"idle", "generate"}
          /\ calls'[d] = Delivery!Over("done"))
    BY <1>1, <2>7
  <2>9. LogsTell'
    <3>1. /\ \A r \in Delivery!Rows : rows[r] = None => log[r] = << >>
          /\ \A r \in Delivery!Rows \ Extras : rows[r] = None
          /\ Delivery!HistoryMissesOnlyOverlaps
      BY <1>3 DEF DeliveryInductive, LogsTell
    <3>2. log' = log /\ plan' # None  BY <1>1, <2>1 DEF DeliveryFit
    <3>3. \A r \in Delivery!Rows : rows'[r] = None => log'[r] = << >>
      BY <2>1, <3>1, <3>2, NewRowIsARow
    <3>4. ASSUME NEW r \in Delivery!Rows, rows'[r] # None
          PROVE  /\ rows'[r].status = IF log[r] = << >> THEN "NOT_STARTED"
                    ELSE log[r][Len(log[r])].to
                 /\ \A k \in DOMAIN log[r] :
                      log[r][k].overtaken
                      \/ log[r][k].from = IF k = 1 THEN "NOT_STARTED" ELSE log[r][k - 1].to
      <4>1. CASE r \in Extras
        <5>1. rows'[r] = rows[r]  BY <2>1, <4>1
        <5>2. r \in Delivery!Exists(Delivery!Rows)  BY <3>4, <5>1 DEF Delivery!Exists
        <5> QED  BY <3>1, <5>1, <5>2 DEF Delivery!HistoryMissesOnlyOverlaps
      <4>2. CASE r \notin Extras
        <5>1. rows'[r] = Delivery!NewRow(r) /\ log[r] = << >>  BY <2>1, <3>1, <4>2
        <5>2. DOMAIN log[r] = {}  BY <5>1
        <5> QED  BY <5>1, <5>2, NewRowIsARow
      <4> QED  BY <4>1, <4>2
    <3>5. Delivery!HistoryMissesOnlyOverlaps'
      BY <3>2, <3>4 DEF Delivery!HistoryMissesOnlyOverlaps, Delivery!Exists
    <3> QED  BY <3>2, <3>3, <3>5 DEF LogsTell
  <2>10. today' \in Nat  BY <2>1 DEF DeliveryInductive
  <2> QED  BY <1>1, <1>3, <2>1, <2>2, <2>5, <2>7, <2>8, <2>9, <2>10, RecordingKeeps
<1> QED  BY <1>2, <1>3

LEMMA OutsideScopeKeeps ==
  ASSUME DeliveryFit, DeliveryInductive, NEW c \in Pair, Delivery!CreateOutsideScope(c)
  PROVE  DeliveryInductive'
<1>1. PICK w \in Extras :
        /\ calls[c].pc = "idle" /\ rows[w] = None
           /\ rows' = [rows EXCEPT ![w] = Delivery!NewRow(w)]
        /\ Delivery!TurnAndTell(c, Delivery!Over("done"), {w, "evidence"}) /\ Delivery!Unrated
        /\ UNCHANGED <<plan, service, commercial, today, Delivery!rating, overrides, log,
           launches>>
  BY DEF Delivery!CreateOutsideScope, Delivery!At
<1> DEFINE what == {w, "evidence"}
<1>2. w \in Delivery!Rows  BY DEF Delivery!Rows, Delivery!Works
<1>3. what \in SUBSET DeliveryTold /\ "evidence" \in what /\ w \in what
  BY <1>2 DEF DeliveryTold
<1>4. Delivery!TurnAndTell(c, Delivery!Over("done"), what)  BY <1>1
<1> HIDE DEF what
<1>5. rows \in [Delivery!Rows -> Delivery!Row \cup {None}]
  BY DEF DeliveryInductive, Delivery!TypesHold
<1>6. /\ \A r \in Delivery!Rows : rows'[r] # rows[r] => r \in what /\ rows'[r] # None
      /\ rows' \in [Delivery!Rows -> Delivery!Row \cup {None}] /\ rows'[w] = Delivery!NewRow(w)
      /\ \A r \in Delivery!Rows : r # w => rows'[r] = rows[r]
  BY <1>1, <1>2, <1>3, <1>5, NewRowIsARow
<1>7. Delivery!Over("done") \in DeliveryCall  BY OverIsACall DEF Delivery!Ended
<1>8. /\ calls' \in [Pair -> DeliveryCall] /\ calls'[c] = Delivery!Over("done")
      /\ \A d \in Pair : d # c => Learns(d, what)
  BY <1>3, <1>4, <1>7, TellingMoves
<1>9. \A d \in Pair : Learns(d, what) \/ (calls[d].pc \in {"idle", "generate"}
        /\ calls'[d] = Delivery!Over("done"))
  BY <1>1, <1>8
<1>10. LogsTell'
  <2>1. /\ \A r \in Delivery!Rows : rows[r] = None => log[r] = << >>
        /\ plan = None => \A r \in Delivery!Rows \ Extras : rows[r] = None
        /\ Delivery!HistoryMissesOnlyOverlaps
    BY DEF DeliveryInductive, LogsTell
  <2>2. log' = log /\ plan' = plan  BY <1>1
  <2>3. \A r \in Delivery!Rows : rows'[r] = None => log'[r] = << >>
    BY <1>2, <1>6, <2>1, <2>2, NewRowIsARow
  <2>4. ASSUME NEW r \in Delivery!Rows, rows'[r] # None
        PROVE  /\ rows'[r].status = IF log[r] = << >> THEN "NOT_STARTED"
                  ELSE log[r][Len(log[r])].to
               /\ \A k \in DOMAIN log[r] :
                    log[r][k].overtaken
                    \/ log[r][k].from = IF k = 1 THEN "NOT_STARTED" ELSE log[r][k - 1].to
    <3>1. CASE r # w
      <4>1. rows'[r] = rows[r]  BY <1>6, <3>1
      <4>2. r \in Delivery!Exists(Delivery!Rows)  BY <2>4, <4>1 DEF Delivery!Exists
      <4> QED  BY <2>1, <4>1, <4>2 DEF Delivery!HistoryMissesOnlyOverlaps
    <3>2. CASE r = w
      <4>1. rows'[r] = Delivery!NewRow(r) /\ log[r] = << >>  BY <1>1, <1>6, <2>1, <3>2
      <4>2. DOMAIN log[r] = {}  BY <4>1
      <4> QED  BY <4>1, <4>2, NewRowIsARow
    <3> QED  BY <3>1, <3>2
  <2>5. Delivery!HistoryMissesOnlyOverlaps'
    BY <2>2, <2>4 DEF Delivery!HistoryMissesOnlyOverlaps, Delivery!Exists
  <2>6. plan' = None => \A r \in Delivery!Rows \ Extras : rows'[r] = None  BY <1>6, <2>1, <2>2
  <2> QED  BY <2>3, <2>5, <2>6 DEF LogsTell
<1>11. today' \in Nat  BY <1>1 DEF DeliveryInductive
<1> QED  BY <1>1, <1>3, <1>6, <1>8, <1>9, <1>10, <1>11, RecordingKeeps

LEMMA CommercialKeeps ==
  ASSUME DeliveryFit, DeliveryInductive, NEW c \in Pair, Delivery!RecordCommercialStateChange(c)
  PROVE  DeliveryInductive'
<1>1. /\ calls[c].pc = "idle" /\ UNCHANGED <<plan, service, rows, today, Delivery!rating,
         overrides, log, launches>>
      /\ \/ Delivery!Turn(c, Delivery!Over("refused")) /\ UNCHANGED <<commercial, past>>
         \/ Delivery!TurnAndTell(c, Delivery!Over("done"), {"evidence"}) /\ Delivery!Unrated
  BY DEF Delivery!RecordCommercialStateChange, Delivery!At
<1>2. CASE Delivery!Turn(c, Delivery!Over("refused")) /\ UNCHANGED <<commercial, past>>
  <2>1. Delivery!Over("refused") \in DeliveryCall /\ Delivery!Over("refused").pc = "refused"
    BY OverIsACall DEF Delivery!Ended
  <2>2. UNCHANGED <<Delivery!evidence, Delivery!rating, overrides, log, launches, past>>
    BY <1>1, <1>2 DEF Delivery!evidence
  <2>3. calls'[c] = Delivery!Over("refused")  BY <2>1, <1>2, TurningMoves
  <2>4. Reads(c)'  BY <2>1, <2>3 DEF Reads
  <2> QED  BY <1>1, <1>2, <2>1, <2>2, <2>4, ReadingKeeps DEF WillRate
<1>3. CASE Delivery!TurnAndTell(c, Delivery!Over("done"), {"evidence"}) /\ Delivery!Unrated
  <2> DEFINE what == {"evidence"}
  <2>1. what \in SUBSET DeliveryTold /\ "evidence" \in what  BY DEF DeliveryTold
  <2>2. Delivery!Over("done") \in DeliveryCall  BY OverIsACall DEF Delivery!Ended
  <2>3. Delivery!TurnAndTell(c, Delivery!Over("done"), what)  BY <1>3
  <2> HIDE DEF what
  <2>4. /\ calls' \in [Pair -> DeliveryCall] /\ calls'[c] = Delivery!Over("done")
        /\ \A d \in Pair : d # c => Learns(d, what)
    BY <2>1, <2>2, <2>3, TellingMoves
  <2>5. \A d \in Pair : Learns(d, what) \/ (calls[d].pc \in {"idle", "generate"}
          /\ calls'[d] = Delivery!Over("done"))
    BY <1>1, <2>4
  <2>6. LogsTell'  BY <1>1, LogsStay
  <2>7. today' \in Nat /\ rows' \in [Delivery!Rows -> Delivery!Row \cup {None}] /\ rows' = rows
    BY <1>1 DEF DeliveryInductive, Delivery!TypesHold
  <2> QED  BY <1>1, <1>3, <2>1, <2>4, <2>5, <2>6, <2>7, RecordingKeeps
<1> QED  BY <1>1, <1>2, <1>3

LEMMA TimeKeeps ==
  ASSUME DeliveryFit, DeliveryInductive, Delivery!TimePasses PROVE DeliveryInductive'
<1> DEFINE what == {"evidence"}
<1>1. /\ today' = Horizon /\ Delivery!Unrated /\ calls' = Delivery!Notice(calls, what, Pair)
      /\ UNCHANGED <<plan, service, rows, commercial, Delivery!rating, overrides, log,
         launches>>
  BY DEF Delivery!TimePasses
<1>2. what \in SUBSET DeliveryTold /\ "evidence" \in what  BY DEF DeliveryTold
<1> HIDE DEF what
<1>3. ASSUME NEW d \in Pair PROVE Learns(d, what)
  <2>1. calls'[d] = IF calls[d].pc \in Delivery!Working THEN [calls[d] EXCEPT !.between = @
                       \cup what]
                    ELSE calls[d]
    BY <1>1 DEF Delivery!Notice
  <2> QED  BY <1>2, <2>1, NoticeIsLearned
<1>4. calls' = [d \in Pair |-> calls'[d]]  BY <1>1 DEF Delivery!Notice
<1>5. \A d \in Pair : calls'[d] \in DeliveryCall  BY <1>3 DEF Learns
<1>6. calls' \in [Pair -> DeliveryCall]  BY <1>4, <1>5
<1>7. LogsTell'  BY <1>1, LogsStay
<1>8. today' \in Nat /\ rows' \in [Delivery!Rows -> Delivery!Row \cup {None}] /\ rows' = rows
  BY <1>1 DEF DeliveryInductive, Delivery!TypesHold, DeliveryFit
<1> QED  BY <1>1, <1>2, <1>3, <1>6, <1>7, <1>8, RecordingKeeps
-----------------------------------------------------------------------------
(* Writes that rate the client.                                            *)

\* What a call writes in its transaction, it rates afterwards.
LEMMA WritingKeeps ==
  ASSUME DeliveryFit, DeliveryInductive, NEW what \in SUBSET DeliveryTold, "evidence" \in what,
         NEW c \in Pair,
         calls[c].pc \in {"update", "launch"}, Delivery!TurnAndTell(c,
           Delivery!Request(calls[c].op, "evidence"), what),
         UNCHANGED <<Delivery!rating, today, past>>,
         plan' \in {None, "NOT_STARTED", "COMPLETE"}, service' \in {"PENDING_ONBOARDING",
           "ACTIVE"},
         overrides' \subseteq SUBSET Checklist, log' \in [Delivery!Rows
           -> Seq(Delivery!LogRow)],
         launches' \subseteq [read : SUBSET Checklist, open : SUBSET Checklist,
           between : SUBSET Checklist],
         LogsTell', Delivery!LaunchIsJustified', rows' \in [Delivery!Rows -> Delivery!Row
           \cup {None}],
         \A r \in Delivery!Rows : rows'[r] # rows[r] => r \in what /\ rows'[r] # None
  PROVE  DeliveryInductive'
<1> DEFINE new == Delivery!Request(calls[c].op, "evidence")
<1>1. calls[c] \in DeliveryCall /\ calls[c].op # "recalculate"  BY DEF DeliveryInductive, Reads
<1>2. new \in DeliveryCall /\ new.pc = "evidence" /\ new.op # "recalculate"
  <2>1. calls[c].op \in {"update", "activate", "generate", "recalculate", "override", "clear",
          None}
    BY <1>1 DEF DeliveryCall
  <2> QED  BY <1>1, <2>1, RequestIsACall DEF Delivery!Working
<1>3. Delivery!TurnAndTell(c, new, what)  OBVIOUS
<1> HIDE DEF new
<1>4. /\ calls' \in [Pair -> DeliveryCall] /\ calls'[c] = new
      /\ \A d \in Pair : d # c => Learns(d, what)
  BY <1>2, <1>3, TellingMoves
<1>5. health' = health /\ signals' = signals /\ filed' = filed  BY DEF Delivery!rating
<1>6. ASSUME NEW d \in Pair PROVE Reads(d)'
  <2>1. CASE d = c  BY <1>2, <1>4, <2>1 DEF Reads
  <2>2. CASE d # c  BY <1>4, <1>5, <2>2, ReadsStay
  <2> QED  BY <2>1, <2>2
<1>7. \A d \in Pair : /\ calls'[d].pc = "signal" <=> calls[d].pc = "signal"
                      /\ calls[d].pc = "signal" => calls'[d].rated = calls[d].rated
  <2> SUFFICES ASSUME NEW d \in Pair
               PROVE  /\ calls'[d].pc = "signal" <=> calls[d].pc = "signal"
                      /\ calls[d].pc = "signal" => calls'[d].rated = calls[d].rated
    OBVIOUS
  <2>1. CASE d = c  BY <1>2, <1>4, <2>1
  <2>2. CASE d # c  BY <1>4, <2>2 DEF Learns
  <2> QED  BY <2>1, <2>2
<1>8. SignalsTell'  BY <1>5, <1>7, SignalStays
<1>9. WillRate(c)'  BY <1>2, <1>4 DEF WillRate
<1>10. RatingIsDue'  BY <1>9 DEF RatingIsDue
<1>11. Delivery!StateMissesOverrideOnlyByOverlap'  BY <1>5, StateStays
<1>12. Delivery!TypesHold'
  <2>1. \A d \in Pair : calls'[d].pc \in {"idle"} \cup Delivery!Working \cup Delivery!Ended
    BY <1>4 DEF DeliveryCall
  <2> QED  BY <1>5, <2>1 DEF DeliveryInductive, Delivery!TypesHold
<1>13. today' \in Nat /\ past' \in [unrated : BOOLEAN, torn : BOOLEAN, disturbed : BOOLEAN]
  BY DEF DeliveryInductive
<1> QED  BY <1>4, <1>6, <1>8, <1>10, <1>11, <1>12, <1>13 DEF DeliveryInductive

LEMMA PatchedIsARow ==
  ASSUME DeliveryFit, DeliveryInductive, NEW row \in Delivery!Row, NEW call, call.ask \in Asks
  PROVE  /\ Delivery!Patched(row, call) \in Delivery!Row /\ Delivery!Patched(row, call) # None
         /\ Delivery!Patched(row, call).status = IF Delivery!Changes(call) THEN call.ask.status
            ELSE row.status
<1> DEFINE status == IF Delivery!Changes(call) THEN call.ask.status ELSE row.status
           due == Delivery!Given(call.ask.due, row.due)
<1>1. call.ask \in Wishes /\ row.status \in Statuses /\ row.due \in Nat /\ today \in Nat
  BY DEF DeliveryFit, Delivery!Row, Statuses, DeliveryInductive
<1>2. status \in Statuses  BY <1>1 DEF Delivery!Changes, Wishes
<1>3. due \in Nat  BY <1>1 DEF Delivery!Given, Wishes
<1>4. Delivery!Patched(row, call) = [row EXCEPT !.status = status, !.due = due,
        !.touched = today]
  BY DEF Delivery!Patched
<1>5. status = IF Delivery!Changes(call) THEN call.ask.status ELSE row.status  OBVIOUS
<1> HIDE DEF status, due
<1>6. Delivery!Patched(row, call) \in Delivery!Row
  BY <1>1, <1>2, <1>3, <1>4 DEF Delivery!Row, Statuses
<1>7. Delivery!Patched(row, call).status = status  BY <1>4 DEF Delivery!Row
<1>8. None \notin Delivery!Row  BY DEF DeliveryFit
<1> QED  BY <1>5, <1>6, <1>7, <1>8

LEMMA UpdateKeeps ==
  ASSUME DeliveryFit, DeliveryInductive, NEW c \in Pair, Delivery!CommitUpdate(c)
  PROVE  DeliveryInductive'
<1> DEFINE call == calls[c]
           r == call.row
           what == {r, "evidence"}
           new == Delivery!LogEntry(call)
<1>1. /\ call.pc = "update" /\ rows' = [rows EXCEPT ![r] = Delivery!Patched(rows[r], call)]
      /\ log' = IF Delivery!Changes(call) THEN [log EXCEPT ![r] = Append(log[r], new)] ELSE log
      /\ Delivery!TurnAndTell(c, Delivery!Request(calls[c].op, "evidence"), what)
      /\ UNCHANGED <<plan, service, commercial, today, Delivery!rating, overrides, launches,
         past>>
  BY DEF Delivery!CommitUpdate, Delivery!At
<1>2. /\ r \in Delivery!Exists(Delivery!Rows) /\ call.ask \in Asks /\ call.was \in Statuses
      /\ r \notin call.between => call.was = rows[r].status
  BY <1>1 DEF DeliveryInductive, Reads
<1>3. r \in Delivery!Rows /\ rows[r] # None  BY <1>2 DEF Delivery!Exists
<1>4. what \in SUBSET DeliveryTold /\ "evidence" \in what /\ r \in what
  BY <1>3 DEF DeliveryTold
<1>5. call.ask.status \in Statuses \cup {None}  BY <1>2 DEF DeliveryFit, Wishes
<1>6. new.from = call.was /\ new.to = call.ask.status /\ new.overtaken = (r \in call.between)
      /\ (Delivery!Changes(call) => new \in Delivery!LogRow)
  <2>1. Delivery!Changes(call) => call.ask.status \in Statuses  BY <1>5 DEF Delivery!Changes
  <2> QED  BY <1>2, <2>1 DEF Delivery!LogEntry, Delivery!LogRow, Statuses
<1> HIDE DEF what, new
<1>7. rows \in [Delivery!Rows -> Delivery!Row \cup {None}]
        /\ log \in [Delivery!Rows -> Seq(Delivery!LogRow)] /\ rows[r] \in Delivery!Row
  BY <1>3 DEF DeliveryInductive, Delivery!TypesHold
<1>8. /\ Delivery!Patched(rows[r], call) \in Delivery!Row
         /\ Delivery!Patched(rows[r], call) # None
      /\ Delivery!Patched(rows[r], call).status = IF Delivery!Changes(call) THEN call.ask.status
         ELSE rows[r].status
  BY <1>2, <1>7, PatchedIsARow
<1>9. /\ rows' \in [Delivery!Rows -> Delivery!Row \cup {None}]
         /\ rows'[r] = Delivery!Patched(rows[r], call)
      /\ \A q \in Delivery!Rows : q # r => rows'[q] = rows[q]
  BY <1>1, <1>3, <1>7, <1>8
<1>10. \A q \in Delivery!Rows : rows'[q] # rows[q] => q \in what /\ rows'[q] # None
  BY <1>4, <1>8, <1>9
<1>11. log' \in [Delivery!Rows -> Seq(Delivery!LogRow)] /\ \A q \in Delivery!Rows : q # r
         => log'[q] = log[q]
  <2>1. CASE Delivery!Changes(call)
    <3>1. new \in Delivery!LogRow  BY <1>6, <2>1
    <3>2. Append(log[r], new) \in Seq(Delivery!LogRow)  BY <1>3, <1>7, <3>1
    <3> QED  BY <1>1, <1>3, <1>7, <2>1, <3>2
  <2>2. CASE ~Delivery!Changes(call)  BY <1>1, <1>7, <2>2
  <2> QED  BY <2>1, <2>2
<1>12. LogsTell'
  <2>1. /\ \A q \in Delivery!Rows : rows[q] = None => log[q] = << >>
        /\ plan = None => \A q \in Delivery!Rows \ Extras : rows[q] = None
        /\ Delivery!HistoryMissesOnlyOverlaps
    BY DEF DeliveryInductive, LogsTell
  <2>2. ASSUME NEW q \in Delivery!Rows, rows'[q] # None
        PROVE  /\ rows'[q].status = IF log'[q] = << >> THEN "NOT_STARTED"
                  ELSE log'[q][Len(log'[q])].to
               /\ \A k \in DOMAIN log'[q] :
                    log'[q][k].overtaken
                    \/ log'[q][k].from = IF k = 1 THEN "NOT_STARTED" ELSE log'[q][k - 1].to
    <3>1. CASE q # r
      <4>1. rows'[q] = rows[q] /\ log'[q] = log[q]  BY <1>9, <1>11, <3>1
      <4>2. q \in Delivery!Exists(Delivery!Rows)  BY <2>2, <4>1 DEF Delivery!Exists
      <4> QED  BY <2>1, <4>1, <4>2 DEF Delivery!HistoryMissesOnlyOverlaps
    <3>2. CASE q = r /\ ~Delivery!Changes(call)
      <4>1. rows'[q].status = rows[q].status /\ log'[q] = log[q]  BY <1>1, <1>8, <1>9, <3>2
      <4> QED  BY <1>2, <2>1, <3>2, <4>1 DEF Delivery!HistoryMissesOnlyOverlaps
    <3>3. CASE q = r /\ Delivery!Changes(call)
      <4> DEFINE old == log[r]
      <4>1. log'[q] = Append(old, new) /\ old \in Seq(Delivery!LogRow)
              /\ new \in Delivery!LogRow
        BY <1>1, <1>3, <1>6, <1>7, <3>3
      <4>2. rows'[q].status = call.ask.status  BY <1>8, <1>9, <3>3
      <4>3. /\ rows[r].status = IF old = << >> THEN "NOT_STARTED" ELSE old[Len(old)].to
            /\ \A k \in DOMAIN old : old[k].overtaken
                 \/ old[k].from = IF k = 1 THEN "NOT_STARTED" ELSE old[k - 1].to
        BY <1>2, <2>1 DEF Delivery!HistoryMissesOnlyOverlaps
      <4>4. new.overtaken \/ new.from = rows[r].status  BY <1>2, <1>6
      <4> HIDE DEF old
      <4>5. /\ Len(log'[q]) = Len(old) + 1 /\ Len(old) \in Nat /\ log'[q][Len(old) + 1] = new
            /\ \A k \in 1..Len(old) : log'[q][k] = old[k]
            /\ DOMAIN log'[q] = 1..(Len(old) + 1) /\ DOMAIN old = 1..Len(old) /\ log'[q] # << >>
        BY <4>1
      <4>6. old = << >> <=> Len(old) = 0  BY <4>1
      <4>7. rows'[q].status = log'[q][Len(log'[q])].to  BY <1>6, <4>2, <4>5
      <4>8. ASSUME NEW k \in 1..(Len(old) + 1)
            PROVE  log'[q][k].overtaken
                   \/ log'[q][k].from = IF k = 1 THEN "NOT_STARTED" ELSE log'[q][k - 1].to
        <5>1. CASE k \in 1..Len(old)
          <6>1. log'[q][k] = old[k]  BY <4>5, <5>1
          <6>2. k # 1 => log'[q][k - 1] = old[k - 1]  BY <4>5, <5>1
          <6> QED  BY <4>3, <4>5, <5>1, <6>1, <6>2
        <5>2. CASE k = Len(old) + 1
          <6>1. log'[q][k] = new  BY <4>5, <5>2
          <6>2. CASE Len(old) = 0  BY <4>3, <4>4, <4>6, <5>2, <6>1, <6>2
          <6>3. CASE Len(old) # 0
            <7>1. k # 1 /\ k - 1 = Len(old) /\ k - 1 \in 1..Len(old)  BY <4>5, <5>2, <6>3
            <7>2. log'[q][k - 1] = old[Len(old)]  BY <4>5, <7>1
            <7> QED  BY <4>3, <4>4, <4>6, <6>1, <6>3, <7>1, <7>2
          <6> QED  BY <6>2, <6>3
        <5> QED  BY <4>5, <5>1, <5>2
      <4> QED  BY <4>5, <4>7, <4>8
    <3> QED  BY <3>1, <3>2, <3>3
  <2>3. Delivery!HistoryMissesOnlyOverlaps'
    BY <2>2 DEF Delivery!HistoryMissesOnlyOverlaps, Delivery!Exists
  <2>4. \A q \in Delivery!Rows : rows'[q] = None => log'[q] = << >>
    BY <1>8, <1>9, <1>11, <2>1
  <2>5. plan' = None => \A q \in Delivery!Rows \ Extras : rows'[q] = None
    BY <1>1, <1>3, <1>9, <2>1
  <2> QED  BY <2>3, <2>4, <2>5 DEF LogsTell
<1>13. Delivery!LaunchIsJustified'  BY <1>1, LaunchStays
<1>14. /\ plan' \in {None, "NOT_STARTED", "COMPLETE"} /\ service' \in {"PENDING_ONBOARDING",
          "ACTIVE"}
       /\ overrides' \subseteq SUBSET Checklist
       /\ launches' \subseteq [read : SUBSET Checklist, open : SUBSET Checklist,
          between : SUBSET Checklist]
  BY <1>1 DEF DeliveryInductive, Delivery!TypesHold
<1> QED  BY <1>1, <1>4, <1>9, <1>10, <1>11, <1>12, <1>13, <1>14, WritingKeeps

LEMMA LaunchKeeps ==
  ASSUME DeliveryFit, DeliveryInductive, NEW c \in Pair, Delivery!CommitLaunch(c)
  PROVE  DeliveryInductive'
<1> DEFINE call == calls[c]
           what == {"evidence"}
           over == call.between \cap Checklist
           launch == [read |-> call.gates, open |-> Delivery!OpenGates, between |-> over]
<1>1. /\ call.pc = "launch" /\ overrides' = overrides \cup Delivery!Bypassed(call)
      /\ launches' = launches \cup {launch}
      /\ Delivery!TurnAndTell(c, Delivery!Request(calls[c].op, "evidence"), what)
      /\ plan' = "COMPLETE" /\ service' = "ACTIVE"
      /\ UNCHANGED <<rows, commercial, today, Delivery!rating, log, past>>
  BY DEF Delivery!CommitLaunch, Delivery!At
<1>2. Delivery!OpenGates \subseteq call.gates \cup over /\ call.gates \in SUBSET Checklist
  <2>1. calls[c] \in DeliveryCall  BY DEF DeliveryInductive
  <2>2. call.gates \in SUBSET Checklist  BY <2>1 DEF DeliveryCall
  <2> QED  BY <1>1, <2>2 DEF DeliveryInductive, Reads
<1>3. Delivery!OpenGates \subseteq Checklist /\ over \subseteq Checklist
  BY DEF Delivery!OpenGates, Delivery!Exists
<1>4. launch \in [read : SUBSET Checklist, open : SUBSET Checklist, between : SUBSET Checklist]
  BY <1>2, <1>3
<1>5. launch.read = call.gates /\ launch.open = Delivery!OpenGates /\ launch.between = over
  OBVIOUS
<1>6. what \in SUBSET DeliveryTold /\ "evidence" \in what  BY DEF DeliveryTold
<1> HIDE DEF what, launch, over
<1>7. /\ \A l \in launches : l.open \subseteq l.read \cup l.between
         /\ (l.read # {} => l.read \in overrides)
  BY DEF DeliveryInductive, Delivery!LaunchIsJustified
<1>8. overrides \subseteq overrides' /\ (call.gates # {} => call.gates \in overrides')
  BY <1>1 DEF Delivery!Bypassed
<1>9. Delivery!LaunchIsJustified'
  <2>1. launches' # {}  BY <1>1
  <2>2. \A l \in launches' : l.open \subseteq l.read \cup l.between
          /\ (l.read # {} => l.read \in overrides')
    BY <1>1, <1>2, <1>5, <1>7, <1>8
  <2> QED  BY <1>1, <2>1, <2>2 DEF Delivery!LaunchIsJustified
<1>10. LogsTell'
  <2>1. plan' # None  BY <1>1 DEF DeliveryFit
  <2> QED
    BY <1>1, <2>1 DEF DeliveryInductive, LogsTell, Delivery!HistoryMissesOnlyOverlaps,
                      Delivery!Exists
<1>11. Delivery!Bypassed(call) \subseteq SUBSET Checklist  BY <1>2 DEF Delivery!Bypassed
<1>12. /\ overrides' \subseteq SUBSET Checklist
       /\ launches' \subseteq [read : SUBSET Checklist, open : SUBSET Checklist,
          between : SUBSET Checklist]
       /\ log' \in [Delivery!Rows -> Seq(Delivery!LogRow)]
          /\ rows' \in [Delivery!Rows -> Delivery!Row \cup {None}] /\ rows' = rows
  BY <1>1, <1>4, <1>11 DEF DeliveryInductive, Delivery!TypesHold
<1> QED  BY <1>1, <1>6, <1>9, <1>10, <1>12, WritingKeeps
-----------------------------------------------------------------------------
(* The rating, its signal and its override.                                *)

\* Who rates, files and crashes leaves the evidence and the launches alone.
LEMMA EvidenceStays ==
  ASSUME DeliveryInductive, UNCHANGED <<Delivery!evidence, overrides, log, launches>>
  PROVE  /\ Delivery!Rate(Delivery!Facts)' = Delivery!Rate(Delivery!Facts) /\ rows' = rows
            /\ today' \in Nat
         /\ LogsTell' /\ Delivery!LaunchIsJustified'
<1>1. plan' = plan /\ service' = service /\ rows' = rows /\ today' = today
  BY DEF Delivery!evidence
<1>2. today' \in Nat  BY <1>1 DEF DeliveryInductive
<1> QED  BY <1>1, <1>2, RateStays, LogsStay, LaunchStays

LEMMA TypesStay ==
  ASSUME DeliveryInductive, UNCHANGED <<Delivery!evidence, overrides, log, launches>>,
         health' \in Delivery!HealthRow \cup {None}, signals' \in Nat, filed' \subseteq Pair,
         calls' \in [Pair -> DeliveryCall]
  PROVE  Delivery!TypesHold'
<1>1. plan' = plan /\ service' = service /\ rows' = rows  BY DEF Delivery!evidence
<1>2. \A d \in Pair : calls'[d].pc \in {"idle"} \cup Delivery!Working \cup Delivery!Ended
  BY DEF DeliveryCall
<1> QED  BY <1>1, <1>2 DEF DeliveryInductive, Delivery!TypesHold

LEMMA OverrideInARow ==
  ASSUME NEW row \in Delivery!HealthRow \cup {None}
  PROVE  Delivery!OverrideIn(row) \in Delivery!HealthStates \cup {None}
BY DEF Delivery!OverrideIn, Delivery!HealthRow

\* A rating stands for what it read.
LEMMA UpsertedIsARow ==
  ASSUME DeliveryFit, DeliveryInductive, NEW call \in DeliveryCall,
         call.rated \in Delivery!HealthStates
  PROVE  /\ Delivery!Upserted(call) \in Delivery!HealthRow /\ Delivery!Upserted(call) # None
         /\ Delivery!Upserted(call).state = Delivery!Effective(call)
            /\ Delivery!Upserted(call).computed = call.rated
         /\ Delivery!Upserted(call).override = Delivery!OverrideIn(IF health = None
            THEN call.found ELSE health)
         /\ Delivery!Effective(call) \in Delivery!HealthStates
<1> DEFINE override == Delivery!OverrideIn(IF health = None THEN call.found ELSE health)
           state == Delivery!Effective(call)
<1>1. call.found \in Delivery!HealthRow \cup {None} /\ health \in Delivery!HealthRow \cup {None}
  BY DEF DeliveryCall, DeliveryInductive, Delivery!TypesHold
<1>2. override \in Delivery!HealthStates \cup {None}  BY <1>1, OverrideInARow
<1>3. state \in Delivery!HealthStates
  BY <1>1, OverrideInARow DEF Delivery!Effective, Delivery!Given
<1>4. Delivery!Upserted(call) = [state |-> state, computed |-> call.rated,
        override |-> override]
  BY DEF Delivery!Upserted
<1>5. override = Delivery!OverrideIn(IF health = None THEN call.found ELSE health)
        /\ state = Delivery!Effective(call)
  OBVIOUS
<1> HIDE DEF override, state
<1>6. Delivery!Upserted(call) \in Delivery!HealthRow  BY <1>2, <1>3, <1>4 DEF Delivery!HealthRow
<1>7. None \notin Delivery!HealthRow  BY DEF DeliveryFit
<1>8. Delivery!Upserted(call) # None  BY <1>6, <1>7
<1>9. Delivery!Upserted(call).state = state /\ Delivery!Upserted(call).computed = call.rated
        /\ Delivery!Upserted(call).override = override
  BY <1>4
<1> QED  BY <1>3, <1>5, <1>6, <1>8, <1>9

LEMMA SaveKeeps ==
  ASSUME DeliveryFit, DeliveryInductive, NEW c \in Pair, Delivery!SaveHealth(c)
  PROVE  DeliveryInductive'
<1> DEFINE call == calls[c]
           what == {"health"}
           state == Delivery!Effective(call)
           told == [Delivery!Request(call.op, "signal") EXCEPT !.rated = state]
           new == IF Delivery!Crosses(call) THEN told ELSE Delivery!Over("done")
           torn == "health" \in call.between
           unrated == "evidence" \in call.between
           others == \E d \in Pair \ {c} : calls[d].pc = "signal"
           disturbed == past.disturbed \/ torn \/ others
<1>1. /\ call.pc = "save" /\ health' = Delivery!Upserted(call)
         /\ Delivery!TurnAndTell(c, new, what)
      /\ past' = [unrated |-> unrated, torn |-> torn, disturbed |-> disturbed]
      /\ UNCHANGED <<Delivery!evidence, signals, filed, overrides, log, launches>>
  BY DEF Delivery!SaveHealth, Delivery!At
<1>2. /\ call \in DeliveryCall /\ call.rated \in Delivery!HealthStates
      /\ "evidence" \notin call.between => call.rated = Delivery!Rate(Delivery!Facts)
      /\ "health" \notin call.between => call.found = health
  <2>1. call \in DeliveryCall  BY DEF DeliveryInductive
  <2> QED  BY <1>1, <2>1 DEF DeliveryInductive, Reads
<1>3. /\ Delivery!Upserted(call) \in Delivery!HealthRow /\ Delivery!Upserted(call) # None
      /\ Delivery!Upserted(call).state = state /\ Delivery!Upserted(call).computed = call.rated
      /\ Delivery!Upserted(call).override = Delivery!OverrideIn(IF health = None THEN call.found
         ELSE health)
      /\ state \in Delivery!HealthStates
  BY <1>2, UpsertedIsARow
<1>4. told \in DeliveryCall /\ told.pc = "signal" /\ told.rated = state
  <2>1. call.op \in {"update", "activate", "generate", "recalculate", "override", "clear", None}
    BY <1>2 DEF DeliveryCall
  <2>2. Delivery!Request(call.op, "signal") \in DeliveryCall
          /\ Delivery!Request(call.op, "signal").pc = "signal"
    BY <2>1, RequestIsACall DEF Delivery!Working
  <2> HIDE DEF state
  <2> QED  BY <1>3, <2>2 DEF DeliveryCall
<1>5. Delivery!Over("done") \in DeliveryCall /\ Delivery!Over("done").pc = "done"
  BY OverIsACall DEF Delivery!Ended
<1>6. /\ new \in DeliveryCall /\ (new.pc = "signal" <=> Delivery!Crosses(call))
         /\ new.pc \in {"signal", "done"}
      /\ (new.pc = "signal" => new.rated = state)
  BY <1>4, <1>5
<1>7. what \in SUBSET DeliveryTold /\ "health" \in what  BY DEF DeliveryTold
<1>8. /\ past' \in [unrated : BOOLEAN, torn : BOOLEAN, disturbed : BOOLEAN]
      /\ past'.unrated = unrated /\ past'.torn = torn /\ past'.disturbed = disturbed
  BY <1>1 DEF DeliveryInductive
<1>9. Delivery!Crosses(call)
        <=> (Delivery!IsElevated(call.found) # (state \in Delivery!Elevated))
  BY DEF Delivery!Crosses
<1>10. state = Delivery!Given(Delivery!OverrideIn(call.found), call.rated)
  BY DEF Delivery!Effective
<1> HIDE DEF what, told, new, state
<1>11. /\ calls' \in [Pair -> DeliveryCall] /\ calls'[c] = new
       /\ \A d \in Pair : d # c => Learns(d, what)
  BY <1>1, <1>6, <1>7, TellingMoves
<1>12. /\ Delivery!Rate(Delivery!Facts)' = Delivery!Rate(Delivery!Facts) /\ rows' = rows
          /\ today' \in Nat
       /\ LogsTell' /\ Delivery!LaunchIsJustified'
  BY <1>1, EvidenceStays
<1>13. ASSUME NEW d \in Pair PROVE Reads(d)'
  <2>1. CASE d = c  BY <1>3, <1>6, <1>11, <2>1 DEF Reads
  <2>2. CASE d # c  BY <1>1, <1>3, <1>7, <1>11, <1>12, <2>2, ReadsStay
  <2> QED  BY <2>1, <2>2
<1>14. Delivery!TypesHold'
  <2>1. signals' \in Nat /\ filed' \subseteq Pair
    BY <1>1 DEF DeliveryInductive, Delivery!TypesHold
  <2> QED  BY <1>1, <1>3, <1>11, <2>1, TypesStay
<1>15. RatingIsDue'
  <2>1. ~unrated => health'.computed = Delivery!Rate(Delivery!Facts)'
    BY <1>1, <1>2, <1>3, <1>12
  <2> QED  BY <1>8, <2>1 DEF RatingIsDue
<1>16. Delivery!StateMissesOverrideOnlyByOverlap'
  <2>1. ASSUME ~torn PROVE health'.state = Delivery!Given(health'.override, health'.computed)
    <3>1. call.found = health  BY <1>2, <2>1
    <3>2. health'.override = Delivery!OverrideIn(call.found)  BY <1>1, <1>3, <3>1
    <3> QED  BY <1>1, <1>3, <1>10, <3>2
  <2> QED  BY <1>8, <2>1 DEF Delivery!StateMissesOverrideOnlyByOverlap
<1>17. SignalsTell'
  <2> SUFFICES ASSUME ~past'.disturbed PROVE SignalsTell'
    BY DEF SignalsTell
  <2>1. ~past.disturbed /\ ~torn /\ ~others  BY <1>8
  <2>2. /\ Delivery!OverrideIn(health) = None
        /\ (\A d \in Pair : ~Delivery!At(d, "signal"))
           => signals = IF Delivery!IsElevated(health) THEN 1 ELSE 0
    BY <2>1 DEF DeliveryInductive, SignalsTell
  <2>3. \A d \in Pair : calls[d].pc # "signal"  BY <1>1, <2>1
  <2>4. signals' = IF Delivery!IsElevated(health) THEN 1 ELSE 0
    BY <1>1, <2>2, <2>3 DEF Delivery!At
  <2>5. call.found = health  BY <1>2, <2>1
  <2>6. Delivery!OverrideIn(health') = None
    <3>1. health'.override = Delivery!OverrideIn(health)  BY <1>1, <1>3, <2>5
    <3> QED  BY <1>1, <1>3, <2>2, <3>1 DEF Delivery!OverrideIn
  <2>7. health' # None /\ health'.state = state  BY <1>1, <1>3
  <2>8. Delivery!IsElevated(health') <=> state \in Delivery!Elevated
    BY <2>7 DEF Delivery!IsElevated
  <2>9. \A d \in Pair : calls'[d].pc = "signal" <=> (d = c /\ Delivery!Crosses(call))
    <3> SUFFICES ASSUME NEW d \in Pair
                 PROVE  calls'[d].pc = "signal" <=> (d = c /\ Delivery!Crosses(call))
      OBVIOUS
    <3>1. CASE d = c  BY <1>6, <1>11, <3>1
    <3>2. CASE d # c  BY <1>11, <2>3, <3>2 DEF Learns
    <3> QED  BY <3>1, <3>2
  <2>10. Delivery!Crosses(call) => signals' = IF Delivery!IsElevated(health') THEN 0 ELSE 1
    BY <1>9, <2>4, <2>5, <2>8 DEF Delivery!IsElevated
  <2>11. ~Delivery!Crosses(call) => signals' = IF Delivery!IsElevated(health') THEN 1 ELSE 0
    BY <1>9, <2>4, <2>5, <2>8 DEF Delivery!IsElevated
  <2>12. Delivery!Crosses(call) => calls'[c].rated = state  BY <1>6, <1>11
  <2>13. \A d \in Pair : calls'[d].pc = "signal" =>
           /\ health' # None /\ calls'[d].rated = health'.state
           /\ signals' = IF Delivery!IsElevated(health') THEN 0 ELSE 1
    BY <2>7, <2>9, <2>10, <2>12
  <2>14. (\A d \in Pair : calls'[d].pc # "signal") => signals' = IF Delivery!IsElevated(health')
           THEN 1 ELSE 0
    BY <2>9, <2>11
  <2> QED
    BY <2>6, <2>9, <2>13, <2>14 DEF SignalsTell, Delivery!At, Delivery!OverrideIn,
                                    Delivery!IsElevated
<1> QED  BY <1>8, <1>11, <1>12, <1>13, <1>14, <1>15, <1>16, <1>17 DEF DeliveryInductive

LEMMA SignalKeeps ==
  ASSUME DeliveryFit, DeliveryInductive, NEW c \in Pair, Delivery!Signal(c)
  PROVE  DeliveryInductive'
<1> DEFINE call == calls[c]
<1>1. /\ call.pc = "signal" /\ signals' = IF call.rated \in Delivery!Elevated THEN signals + 1
         ELSE 0
      /\ UNCHANGED <<Delivery!evidence, health, overrides, log, launches, past>> /\ filed'
         \subseteq filed \cup {c}
  BY DEF Delivery!Signal, Delivery!At
<1>2. PICK new \in {Delivery!Over("done"), Delivery!Over("refused")} : Delivery!Turn(c, new)
  BY DEF Delivery!Signal, Delivery!Answer
<1>3. new \in DeliveryCall /\ new.pc \in {"done", "refused"}
  BY <1>2, OverIsACall DEF Delivery!Ended
<1>4. /\ calls' \in [Pair -> DeliveryCall] /\ calls'[c] = new
      /\ \A d \in Pair : d # c => Learns(d, {}) /\ calls'[d] = calls[d]
  BY <1>2, <1>3, TurningMoves
<1>5. /\ Delivery!Rate(Delivery!Facts)' = Delivery!Rate(Delivery!Facts) /\ rows' = rows
         /\ today' \in Nat
      /\ LogsTell' /\ Delivery!LaunchIsJustified'
  BY <1>1, EvidenceStays
<1>6. ASSUME NEW d \in Pair PROVE Reads(d)'
  <2>1. CASE d = c  BY <1>3, <1>4, <2>1 DEF Reads
  <2>2. CASE d # c  BY <1>1, <1>4, <1>5, <2>2, ReadsStay
  <2> QED  BY <2>1, <2>2
<1>7. Delivery!TypesHold'
  <2>1. health' \in Delivery!HealthRow \cup {None} /\ filed' \subseteq Pair /\ signals \in Nat
    BY <1>1 DEF DeliveryInductive, Delivery!TypesHold
  <2>2. signals' \in Nat  BY <1>1, <2>1
  <2> QED  BY <1>1, <1>4, <2>1, <2>2, TypesStay
<1>8. RatingIsDue'
  <2>1. \A d \in Pair : WillRate(d) => WillRate(d)'
    <3> SUFFICES ASSUME NEW d \in Pair, WillRate(d) PROVE WillRate(d)'
      OBVIOUS
    <3>1. d # c  BY <1>1 DEF WillRate
    <3> QED  BY <1>4, <3>1 DEF WillRate
  <2> QED  BY <1>1, <1>5, <2>1, RatingStays
<1>9. Delivery!StateMissesOverrideOnlyByOverlap'  BY <1>1, StateStays
<1>10. SignalsTell'
  <2> SUFFICES ASSUME ~past'.disturbed PROVE SignalsTell'
    BY DEF SignalsTell
  <2>1. /\ Delivery!OverrideIn(health) = None
        /\ \A d, e \in Pair : Delivery!At(d, "signal") /\ Delivery!At(e, "signal") => d = e
        /\ \A d \in Pair : Delivery!At(d, "signal") =>
             /\ health # None /\ calls[d].rated = health.state
             /\ signals = IF Delivery!IsElevated(health) THEN 0 ELSE 1
    BY <1>1 DEF DeliveryInductive, SignalsTell
  <2>2. /\ health # None /\ call.rated = health.state
        /\ signals = IF Delivery!IsElevated(health) THEN 0 ELSE 1
    BY <1>1, <2>1 DEF Delivery!At
  <2>3. signals' = IF Delivery!IsElevated(health) THEN 1 ELSE 0
    BY <1>1, <2>2 DEF Delivery!IsElevated
  <2>4. \A d \in Pair : calls'[d].pc # "signal"
    <3> SUFFICES ASSUME NEW d \in Pair PROVE calls'[d].pc # "signal"
      OBVIOUS
    <3>1. CASE d = c  BY <1>3, <1>4, <3>1
    <3>2. CASE d # c  BY <1>1, <1>4, <2>1, <3>2 DEF Delivery!At
    <3> QED  BY <3>1, <3>2
  <2>5. health' = health  BY <1>1
  <2> QED
    BY <2>1, <2>3, <2>4, <2>5 DEF SignalsTell, Delivery!At, Delivery!OverrideIn,
                                  Delivery!IsElevated
<1>11. past' \in [unrated : BOOLEAN, torn : BOOLEAN, disturbed : BOOLEAN]
  BY <1>1 DEF DeliveryInductive
<1> QED  BY <1>4, <1>5, <1>6, <1>7, <1>8, <1>9, <1>10, <1>11 DEF DeliveryInductive

\* A row that is put under an override, or taken from under it.
LEMMA SettingKeeps ==
  ASSUME DeliveryFit, DeliveryInductive, NEW c \in Pair, calls[c].pc \in {"override", "clear"},
         Delivery!TurnAndTell(c, Delivery!Over("done"), {"health"}),
         UNCHANGED <<Delivery!evidence, signals, filed, overrides, log, launches>>,
         health # None, health' \in Delivery!HealthRow, health'.computed = health.computed,
         past' \in [unrated : BOOLEAN, torn : BOOLEAN, disturbed : BOOLEAN],
         past'.unrated = past.unrated, past'.disturbed,
         ~past'.torn => health'.state = Delivery!Given(health'.override, health'.computed)
  PROVE  DeliveryInductive'
<1> DEFINE what == {"health"}
<1>1. Delivery!Over("done") \in DeliveryCall /\ Delivery!Over("done").pc = "done"
  BY OverIsACall DEF Delivery!Ended
<1>2. what \in SUBSET DeliveryTold /\ "health" \in what /\ Delivery!TurnAndTell(c,
        Delivery!Over("done"), what)
  BY DEF DeliveryTold
<1> HIDE DEF what
<1>3. /\ calls' \in [Pair -> DeliveryCall] /\ calls'[c] = Delivery!Over("done")
      /\ \A d \in Pair : d # c => Learns(d, what)
  BY <1>1, <1>2, TellingMoves
<1>4. /\ Delivery!Rate(Delivery!Facts)' = Delivery!Rate(Delivery!Facts) /\ rows' = rows
         /\ today' \in Nat
      /\ LogsTell' /\ Delivery!LaunchIsJustified'
  BY EvidenceStays
<1>5. health' # None  BY DEF DeliveryFit
<1>6. ASSUME NEW d \in Pair PROVE Reads(d)'
  <2>1. CASE d = c  BY <1>1, <1>3, <2>1 DEF Reads
  <2>2. CASE d # c  BY <1>2, <1>3, <1>4, <1>5, <2>2, ReadsStay
  <2> QED  BY <2>1, <2>2
<1>7. Delivery!TypesHold'
  <2>1. signals' \in Nat /\ filed' \subseteq Pair  BY DEF DeliveryInductive, Delivery!TypesHold
  <2> QED  BY <1>3, <2>1, TypesStay
<1>8. RatingIsDue'
  <2>1. \A d \in Pair : WillRate(d) => WillRate(d)'
    <3> SUFFICES ASSUME NEW d \in Pair, WillRate(d) PROVE WillRate(d)'
      OBVIOUS
    <3>1. d # c  BY DEF WillRate
    <3> QED  BY <1>3, <3>1 DEF WillRate, Learns
  <2>2. ~past.unrated =>
          health.computed = Delivery!Rate(Delivery!Facts) \/ \E d \in Pair : WillRate(d)
    BY DEF DeliveryInductive, RatingIsDue
  <2>3. ~past'.unrated =>
          health'.computed = Delivery!Rate(Delivery!Facts)' \/ \E d \in Pair : WillRate(d)'
    BY <1>4, <2>1, <2>2
  <2> QED  BY <2>3 DEF RatingIsDue
<1>9. Delivery!StateMissesOverrideOnlyByOverlap'
  BY DEF Delivery!StateMissesOverrideOnlyByOverlap
<1>10. SignalsTell'  BY DEF SignalsTell
<1> QED  BY <1>3, <1>4, <1>6, <1>7, <1>8, <1>9, <1>10 DEF DeliveryInductive

LEMMA CommitOverrideKeeps ==
  ASSUME DeliveryFit, DeliveryInductive, NEW c \in Pair, Delivery!CommitOverride(c)
  PROVE  DeliveryInductive'
<1> DEFINE call == calls[c]
           rated == call.rated
<1>1. /\ call.pc = "override" /\ health' = [health EXCEPT !.state = rated, !.override = rated]
      /\ Delivery!TurnAndTell(c, Delivery!Over("done"), {"health"})
      /\ past' = [past EXCEPT !.torn = FALSE, !.disturbed = TRUE]
      /\ UNCHANGED <<Delivery!evidence, signals, filed, overrides, log, launches>>
  BY DEF Delivery!CommitOverride, Delivery!At
<1>2. health # None /\ health \in Delivery!HealthRow /\ rated \in Delivery!HealthStates
  BY <1>1 DEF DeliveryInductive, Reads, Delivery!TypesHold
<1> HIDE DEF rated
<1>3. health' \in Delivery!HealthRow /\ health'.computed = health.computed
        /\ health'.state = rated
      /\ health'.override = rated
  BY <1>1, <1>2 DEF Delivery!HealthRow
<1>4. rated # None  BY <1>2 DEF DeliveryFit
<1>5. past' \in [unrated : BOOLEAN, torn : BOOLEAN, disturbed : BOOLEAN]
      /\ past'.unrated = past.unrated /\ past'.disturbed
  BY <1>1 DEF DeliveryInductive
<1>6. health'.state = Delivery!Given(health'.override, health'.computed)
  BY <1>3, <1>4 DEF Delivery!Given
<1> QED  BY <1>1, <1>2, <1>3, <1>5, <1>6, SettingKeeps

LEMMA CommitClearKeeps ==
  ASSUME DeliveryFit, DeliveryInductive, NEW c \in Pair, Delivery!CommitClear(c)
  PROVE  DeliveryInductive'
<1> DEFINE call == calls[c]
           state == call.found.computed
           torn == "health" \in call.between
<1>1. /\ call.pc = "clear" /\ health' = [health EXCEPT !.state = state, !.override = None]
      /\ Delivery!TurnAndTell(c, Delivery!Over("done"), {"health"})
      /\ past' = [past EXCEPT !.torn = torn, !.disturbed = TRUE]
      /\ UNCHANGED <<Delivery!evidence, signals, filed, overrides, log, launches>>
  BY DEF Delivery!CommitClear, Delivery!At
<1>2. /\ health # None /\ health \in Delivery!HealthRow /\ call.found # None
      /\ "health" \notin call.between => call.found = health
  BY <1>1 DEF DeliveryInductive, Reads, Delivery!TypesHold
<1>3. call.found \in Delivery!HealthRow
  <2>1. call \in DeliveryCall  BY DEF DeliveryInductive
  <2> QED  BY <1>2, <2>1 DEF DeliveryCall
<1>4. state \in Delivery!HealthStates /\ (~torn => state = health.computed)
  BY <1>2, <1>3 DEF Delivery!HealthRow
<1>5. torn \in BOOLEAN  OBVIOUS
<1> HIDE DEF state, torn
<1>6. health' \in Delivery!HealthRow /\ health'.computed = health.computed
        /\ health'.state = state
      /\ health'.override = None
  BY <1>1, <1>2, <1>4 DEF Delivery!HealthRow
<1>7. past' \in [unrated : BOOLEAN, torn : BOOLEAN, disturbed : BOOLEAN]
      /\ past'.unrated = past.unrated /\ past'.disturbed /\ past'.torn = torn
  BY <1>1, <1>5 DEF DeliveryInductive
<1>8. ~past'.torn => health'.state = Delivery!Given(health'.override, health'.computed)
  BY <1>4, <1>6, <1>7 DEF Delivery!Given
<1> QED  BY <1>1, <1>2, <1>6, <1>7, <1>8, SettingKeeps

LEMMA CrashKeepsDelivery ==
  ASSUME DeliveryFit, DeliveryInductive, NEW c \in Pair, Delivery!Crash(c)
  PROVE  DeliveryInductive'
<1> DEFINE unrated == past.unrated \/ WillRate(c)
           disturbed == past.disturbed \/ calls[c].pc = "signal"
<1>1. /\ Delivery!Turn(c, Delivery!Over("crashed")) /\ past' = [past EXCEPT !.unrated = unrated,
         !.disturbed = disturbed]
      /\ UNCHANGED <<Delivery!evidence, Delivery!rating, overrides, log, launches>>
  BY DEF Delivery!Crash, Delivery!Answer, Delivery!At, WillRate
<1>2. past \in [unrated : BOOLEAN, torn : BOOLEAN, disturbed : BOOLEAN]
  BY DEF DeliveryInductive
<1>3. unrated \in BOOLEAN /\ disturbed \in BOOLEAN  BY <1>2 DEF WillRate
<1>4. (past.unrated => unrated) /\ (WillRate(c) => unrated) /\ (past.disturbed => disturbed)
      /\ (calls[c].pc = "signal" => disturbed)
  OBVIOUS
<1> HIDE DEF unrated, disturbed
<1>5. past' \in [unrated : BOOLEAN, torn : BOOLEAN, disturbed : BOOLEAN]
      /\ past'.unrated = unrated /\ past'.disturbed = disturbed /\ past'.torn = past.torn
  BY <1>1, <1>2, <1>3
<1>6. Delivery!Over("crashed") \in DeliveryCall /\ Delivery!Over("crashed").pc = "crashed"
  BY OverIsACall DEF Delivery!Ended
<1>7. /\ calls' \in [Pair -> DeliveryCall] /\ calls'[c] = Delivery!Over("crashed")
      /\ \A d \in Pair : d # c => Learns(d, {}) /\ calls'[d] = calls[d]
  BY <1>1, <1>6, TurningMoves
<1>8. /\ Delivery!Rate(Delivery!Facts)' = Delivery!Rate(Delivery!Facts) /\ rows' = rows
         /\ today' \in Nat
      /\ LogsTell' /\ Delivery!LaunchIsJustified'
  BY <1>1, EvidenceStays
<1>9. health' = health /\ signals' = signals /\ filed' = filed  BY <1>1 DEF Delivery!rating
<1>10. ASSUME NEW d \in Pair PROVE Reads(d)'
  <2>1. CASE d = c  BY <1>6, <1>7, <2>1 DEF Reads
  <2>2. CASE d # c  BY <1>7, <1>8, <1>9, <2>2, ReadsStay
  <2> QED  BY <2>1, <2>2
<1>11. Delivery!TypesHold'
  <2>1. health' \in Delivery!HealthRow \cup {None} /\ signals' \in Nat /\ filed' \subseteq Pair
    BY <1>9 DEF DeliveryInductive, Delivery!TypesHold
  <2> QED  BY <1>1, <1>7, <2>1, TypesStay
<1>12. RatingIsDue'
  <2>1. \A d \in Pair : WillRate(d) => WillRate(d)' \/ past'.unrated
    <3> SUFFICES ASSUME NEW d \in Pair, WillRate(d) PROVE WillRate(d)' \/ past'.unrated
      OBVIOUS
    <3>1. CASE d = c  BY <1>4, <1>5, <3>1
    <3>2. CASE d # c  BY <1>7, <3>2 DEF WillRate
    <3> QED  BY <3>1, <3>2
  <2> QED  BY <1>4, <1>5, <1>8, <1>9, <2>1, RatingStays
<1>13. Delivery!StateMissesOverrideOnlyByOverlap'  BY <1>5, <1>9, StateStays
<1>14. SignalsTell'
  <2>1. CASE calls[c].pc = "signal"  BY <1>4, <1>5, <2>1 DEF SignalsTell
  <2>2. CASE calls[c].pc # "signal"
    <3>1. \A d \in Pair : /\ calls'[d].pc = "signal" <=> calls[d].pc = "signal"
                          /\ calls[d].pc = "signal" => calls'[d].rated = calls[d].rated
      BY <1>6, <1>7, <2>2
    <3> QED  BY <1>4, <1>5, <1>9, <3>1, SignalStays
  <2> QED  BY <2>1, <2>2
<1> QED  BY <1>5, <1>7, <1>8, <1>10, <1>11, <1>12, <1>13, <1>14 DEF DeliveryInductive

-----------------------------------------------------------------------------
(* The invariant.                                                          *)

\* What Init allows.
LEMMA DeliveryBegin == DeliveryFit /\ Delivery!Init => DeliveryInductive
<1> SUFFICES ASSUME DeliveryFit, Delivery!Init PROVE DeliveryInductive
  OBVIOUS
<1>1. /\ today = 0 /\ service = "PENDING_ONBOARDING" /\ plan \in {None, "NOT_STARTED"}
      /\ overrides = {} /\ filed = {} /\ launches = {} /\ calls = [c \in Pair |-> Delivery!Idle]
      /\ past = [unrated |-> health = None, torn |-> FALSE,
                 disturbed |-> health # None /\ health.override # None]
      /\ signals = IF health # None /\ health.computed \in Delivery!Elevated THEN 1 ELSE 0
      /\ \/ health = None
         \/ \E o \in Ratings \cup {None} :
              health = [state |-> IF o = None THEN Delivery!Rate(Delivery!Facts) ELSE o,
                        computed |-> Delivery!Rate(Delivery!Facts), override |-> o]
  BY DEF Delivery!Init
<1>2. PICK was \in [Delivery!Rows -> {"NOT_STARTED", "BLOCKED"}] :
       /\ rows = [r \in Delivery!Rows |-> IF plan # None /\ r \notin Extras
                                          THEN [Delivery!NewRow(r) EXCEPT !.status = was[r]]
                                            ELSE None]
       /\ log = [r \in Delivery!Rows |-> IF rows[r] # None /\ was[r] = "BLOCKED"
                                         THEN <<[from |-> "NOT_STARTED", to |-> "BLOCKED",
                                                 overtaken |-> FALSE]>>
                                         ELSE << >>]
  BY DEF Delivery!Init
<1>3. None \notin Delivery!Row /\ None \notin Delivery!HealthRow
        /\ None \notin Delivery!HealthStates /\ None # "NOT_STARTED"
      /\ None # "COMPLETE" /\ Digits \in [Delivery!Rows -> Nat] /\ Ratings
         \subseteq Delivery!HealthStates
  BY DEF DeliveryFit
<1>4. \A c \in Pair : calls[c] = Delivery!Idle  BY <1>1
<1>5. calls \in [Pair -> DeliveryCall] /\ \A c \in Pair : calls[c].pc = "idle"
  BY <1>1, IdleDelivery
<1>6. ASSUME NEW r \in Delivery!Rows
      PROVE  /\ rows[r] \in Delivery!Row \cup {None}
             /\ rows[r] # None => plan # None /\ r \notin Extras /\ rows[r].status = was[r]
  <2> DEFINE new == Delivery!NewRow(r)
  <2>1. new \in Delivery!Row
    BY <1>1, <1>3 DEF Delivery!NewRow, Delivery!Row, Delivery!Never, Delivery!ItemStatuses
  <2>2. rows[r] = IF plan # None /\ r \notin Extras THEN [new EXCEPT !.status = was[r]]
          ELSE None
    BY <1>2
  <2> HIDE DEF new
  <2>3. was[r] \in Statuses  BY DEF Statuses, Delivery!ItemStatuses
  <2> QED  BY <2>1, <2>2, <2>3 DEF Delivery!Row, Statuses
<1>7. rows \in [Delivery!Rows -> Delivery!Row \cup {None}]  BY <1>2, <1>6
<1>8. ASSUME NEW r \in Delivery!Rows
      PROVE  /\ log[r] \in Seq(Delivery!LogRow)
             /\ rows[r] = None => log[r] = << >>
             /\ rows[r] # None => rows[r].status = IF log[r] = << >> THEN "NOT_STARTED"
                ELSE log[r][Len(log[r])].to
             /\ \A k \in DOMAIN log[r] : k = 1 /\ log[r][k].from = "NOT_STARTED"
  <2> DEFINE e == [from |-> "NOT_STARTED", to |-> "BLOCKED", overtaken |-> FALSE]
  <2>1. e \in Delivery!LogRow  BY DEF Delivery!LogRow, Delivery!ItemStatuses
  <2>2. e.from = "NOT_STARTED" /\ e.to = "BLOCKED"  OBVIOUS
  <2>3. log[r] = IF rows[r] # None /\ was[r] = "BLOCKED" THEN <<e>> ELSE << >>  BY <1>2
  <2> HIDE DEF e
  <2>4. CASE rows[r] # None /\ was[r] = "BLOCKED"
    <3>1. log[r] = <<e>> /\ <<e>> \in Seq(Delivery!LogRow) /\ Len(<<e>>) = 1 /\ <<e>>[1] = e
            /\ <<e>> # << >>
          /\ DOMAIN <<e>> = {1}
      BY <2>1, <2>3, <2>4
    <3> QED  BY <1>6, <2>2, <2>4, <3>1
  <2>5. CASE ~(rows[r] # None /\ was[r] = "BLOCKED")
    <3>1. log[r] = << >> /\ << >> \in Seq(Delivery!LogRow) /\ DOMAIN << >> = {}  BY <2>3, <2>5
    <3>2. rows[r] # None => was[r] = "NOT_STARTED"  BY <2>5
    <3> QED  BY <1>6, <3>1, <3>2
  <2> QED  BY <2>4, <2>5
<1>9. log \in [Delivery!Rows -> Seq(Delivery!LogRow)]  BY <1>2, <1>8
<1>10. Delivery!Rate(Delivery!Facts) \in Delivery!HealthStates  BY <1>1, RateIsAState
<1>11. health = None \/ (/\ health \in Delivery!HealthRow /\ health # None
                            /\ health.computed = Delivery!Rate(Delivery!Facts)
                         /\ health.state = Delivery!Given(health.override,
                            Delivery!Rate(Delivery!Facts)))
  <2> SUFFICES ASSUME health # None
               PROVE  /\ health \in Delivery!HealthRow
                         /\ health.computed = Delivery!Rate(Delivery!Facts)
                      /\ health.state = Delivery!Given(health.override,
                         Delivery!Rate(Delivery!Facts))
    OBVIOUS
  <2> DEFINE rated == Delivery!Rate(Delivery!Facts)
  <2>1. PICK o \in Ratings \cup {None} :
          health = [state |-> IF o = None THEN rated ELSE o, computed |-> rated, override |-> o]
    BY <1>1
  <2>2. rated \in Delivery!HealthStates /\ o \in Delivery!HealthStates \cup {None}
    BY <1>3, <1>10
  <2>3. rated = Delivery!Rate(Delivery!Facts)  OBVIOUS
  <2> HIDE DEF rated
  <2>4. health \in Delivery!HealthRow  BY <2>1, <2>2 DEF Delivery!HealthRow
  <2>5. health.computed = rated /\ health.override = o /\ health.state = IF o = None THEN rated
          ELSE o
    BY <2>1
  <2> QED  BY <2>3, <2>4, <2>5 DEF Delivery!Given
<1>12. /\ past \in [unrated : BOOLEAN, torn : BOOLEAN, disturbed : BOOLEAN]
       /\ past.unrated = (health = None)
       /\ past.disturbed = (health # None /\ health.override # None)
  BY <1>1
<1>13. Delivery!TypesHold
  <2>1. /\ plan \in {None, "NOT_STARTED", "COMPLETE"} /\ service \in {"PENDING_ONBOARDING",
           "ACTIVE"}
        /\ health \in Delivery!HealthRow \cup {None} /\ signals \in Nat
        /\ overrides \subseteq SUBSET Checklist /\ filed \subseteq Pair
        /\ launches \subseteq [read : SUBSET Checklist, open : SUBSET Checklist,
           between : SUBSET Checklist]
    BY <1>1, <1>11
  <2> QED  BY <1>5, <1>7, <1>9, <2>1 DEF Delivery!TypesHold
<1>14. \A c \in Pair : Reads(c)  BY <1>5 DEF Reads
<1>15. LogsTell
  <2>1. Delivery!HistoryMissesOnlyOverlaps
    BY <1>8 DEF Delivery!HistoryMissesOnlyOverlaps, Delivery!Exists
  <2>2. plan = None => \A r \in Delivery!Rows \ Extras : rows[r] = None  BY <1>6
  <2> QED  BY <1>8, <2>1, <2>2 DEF LogsTell
<1>16. Delivery!LaunchIsJustified  BY <1>1, <1>3 DEF Delivery!LaunchIsJustified
<1>17. Delivery!StateMissesOverrideOnlyByOverlap
  BY <1>11 DEF Delivery!StateMissesOverrideOnlyByOverlap
<1>18. RatingIsDue  BY <1>11 DEF RatingIsDue
<1>19. SignalsTell
  <2> SUFFICES ASSUME ~past.disturbed PROVE SignalsTell
    BY DEF SignalsTell
  <2>1. Delivery!OverrideIn(health) = None  BY <1>12 DEF Delivery!OverrideIn
  <2>2. health # None => health.state = health.computed
    BY <1>11, <2>1 DEF Delivery!OverrideIn, Delivery!Given
  <2>3. signals = IF Delivery!IsElevated(health) THEN 1 ELSE 0
    BY <1>1, <2>2 DEF Delivery!IsElevated
  <2>4. \A c \in Pair : ~Delivery!At(c, "signal")  BY <1>5 DEF Delivery!At
  <2> QED  BY <2>1, <2>3, <2>4 DEF SignalsTell
<1>20. today \in Nat  BY <1>1
<1> QED
  BY <1>5, <1>12, <1>13, <1>14, <1>15, <1>16, <1>17, <1>18, <1>19, <1>20 DEF DeliveryInductive

LEMMA DeliveryStep == DeliveryFit /\ DeliveryInductive /\ [Delivery!Next]_(Delivery!vars)
                        => DeliveryInductive'
<1> SUFFICES ASSUME DeliveryFit, DeliveryInductive, [Delivery!Next]_(Delivery!vars)
             PROVE  DeliveryInductive'
  OBVIOUS
<1>1. CASE Delivery!TimePasses  BY <1>1, TimeKeeps
<1>2. ASSUME NEW c \in Pair, Delivery!Step(c) PROVE DeliveryInductive'
  <2>1. CASE Delivery!UpdateItem(c) \/ Delivery!UpdateDeliverable(c)
    <3>1. PICK r \in Delivery!Rows, ask \in Asks : Delivery!FindRow(c, r, ask)
      BY <2>1 DEF Delivery!UpdateItem, Delivery!UpdateDeliverable, Delivery!Rows
    <3> QED  BY <3>1, FindRowKeeps
  <2>2. CASE Delivery!CommitUpdate(c)  BY <2>2, UpdateKeeps
  <2>3. CASE Delivery!Activate(c)  BY <2>3, ActivateKeeps
  <2>4. CASE Delivery!CommitLaunch(c)  BY <2>4, LaunchKeeps
  <2>5. CASE Delivery!Generate(c)  BY <2>5, GenerateKeeps
  <2>6. CASE Delivery!CommitPlan(c)  BY <2>6, CommitPlanKeeps
  <2>7. CASE Delivery!CreateOutsideScope(c)  BY <2>7, OutsideScopeKeeps
  <2>8. CASE Delivery!RecordCommercialStateChange(c)  BY <2>8, CommercialKeeps
  <2>9. CASE Delivery!Recalculate(c)  BY <2>9, RecalculateKeeps
  <2>10. CASE Delivery!ReadEvidence(c)  BY <2>10, ReadEvidenceKeeps
  <2>11. CASE Delivery!ReadHealth(c)  BY <2>11, ReadHealthKeeps
  <2>12. CASE Delivery!SaveHealth(c)  BY <2>12, SaveKeeps
  <2>13. CASE Delivery!Signal(c)  BY <2>13, SignalKeeps
  <2>14. CASE Delivery!Override(c)  BY <2>14, OverrideKeeps
  <2>15. CASE Delivery!CommitOverride(c)  BY <2>15, CommitOverrideKeeps
  <2>16. CASE Delivery!ClearOverride(c)  BY <2>16, ClearOverrideKeeps
  <2>17. CASE Delivery!CommitClear(c)  BY <2>17, CommitClearKeeps
  <2>18. CASE Delivery!Crash(c)  BY <2>18, CrashKeepsDelivery
  <2> QED
    BY <1>2, <2>1, <2>2, <2>3, <2>4, <2>5, <2>6, <2>7, <2>8, <2>9, <2>10, <2>11, <2>12, <2>13,
       <2>14, <2>15, <2>16, <2>17, <2>18 DEF Delivery!Step
<1>3. CASE UNCHANGED Delivery!vars
  <2>1. UNCHANGED <<Delivery!evidence, overrides, log, launches>> /\ UNCHANGED <<health,
          signals, filed, calls, past>>
    BY <1>3 DEF Delivery!vars, Delivery!rating
  <2>2. /\ Delivery!Rate(Delivery!Facts)' = Delivery!Rate(Delivery!Facts) /\ rows' = rows
           /\ today' \in Nat
        /\ LogsTell' /\ Delivery!LaunchIsJustified'
    BY <2>1, EvidenceStays
  <2>3. Delivery!TypesHold'
    BY <2>1, TypesStay DEF DeliveryInductive, Delivery!TypesHold
  <2>4. \A d \in Pair : Learns(d, {})  BY <2>1 DEF Learns, DeliveryInductive
  <2>5. \A d \in Pair : Reads(d)'  BY <2>1, <2>2, <2>4, ReadsStay
  <2>6. RatingIsDue'
    <3>1. \A d \in Pair : WillRate(d) => WillRate(d)'  BY <2>1 DEF WillRate
    <3> QED  BY <2>1, <2>2, <3>1, RatingStays
  <2>7. Delivery!StateMissesOverrideOnlyByOverlap'  BY <2>1, StateStays
  <2>8. SignalsTell'  BY <2>1, SignalStays
  <2> QED  BY <2>1, <2>2, <2>3, <2>5, <2>6, <2>7, <2>8 DEF DeliveryInductive
<1> QED  BY <1>1, <1>2, <1>3 DEF Delivery!Next

\* What the inductive invariant says of the records of a client.
LEMMA DeliveryMeans ==
  DeliveryInductive =>
    /\ Delivery!TypesHold /\ Delivery!HistoryMissesOnlyOverlaps
       /\ Delivery!StateMissesOverrideOnlyByOverlap
    /\ Delivery!LaunchIsJustified /\ Delivery!RatingFollowsEvidence
<1> SUFFICES ASSUME DeliveryInductive
             PROVE  /\ Delivery!TypesHold /\ Delivery!HistoryMissesOnlyOverlaps
                       /\ Delivery!StateMissesOverrideOnlyByOverlap
                    /\ Delivery!LaunchIsJustified /\ Delivery!RatingFollowsEvidence
  OBVIOUS
<1>1. Delivery!TypesHold /\ Delivery!HistoryMissesOnlyOverlaps
        /\ Delivery!StateMissesOverrideOnlyByOverlap /\ Delivery!LaunchIsJustified
  BY DEF DeliveryInductive, LogsTell
<1>2. ASSUME Delivery!Quiescent, health # None
      PROVE  /\ past.unrated \/ health.computed = Delivery!Rate(Delivery!Facts)
             /\ past.disturbed \/ signals = IF Delivery!IsElevated(health) THEN 1 ELSE 0
  <2>1. \A c \in Pair : calls[c].pc \in Delivery!Ended \cup {"idle"}
    BY <1>2 DEF Delivery!Quiescent
  <2>2. \A c \in Pair : ~WillRate(c) /\ ~Delivery!At(c, "signal")
    BY <2>1 DEF WillRate, Delivery!At, Delivery!Ended
  <2>3. past.unrated \/ health.computed = Delivery!Rate(Delivery!Facts)
    BY <1>2, <2>2 DEF DeliveryInductive, RatingIsDue
  <2>4. past.disturbed \/ signals = IF Delivery!IsElevated(health) THEN 1 ELSE 0
    BY <2>2 DEF DeliveryInductive, SignalsTell
  <2> QED  BY <2>3, <2>4
<1>3. Delivery!RatingFollowsEvidence  BY <1>2 DEF Delivery!RatingFollowsEvidence
<1> QED  BY <1>1, <1>3

-----------------------------------------------------------------------------
(* The whole: a behaviour is of one service, which takes the steps of its  *)
(* component.                                                              *)

\* A step of the whole in which a service goes on is one of its component, or none.
LEMMA StepsAreOfTheService ==
  ASSUME [Next]_vars
  PROVE  /\ part' = part
         /\ part = "delivery" => [Delivery!Next]_(Delivery!vars)
         /\ part = "offers" => [Offers!Next]_(Offers!vars)
         /\ part = "leads" => [Leads!Next]_(Leads!vars)
         /\ part = "links" => [Links!Next]_(Links!vars)
         /\ part = "figures" => [Readings!Next]_(Readings!vars)
<1>1. CASE Next  BY <1>1 DEF Next
<1>2. CASE UNCHANGED vars
  BY <1>2 DEF vars, deliveryOnly, offersOnly, leadsOnly, linksOnly, figuresOnly,
              Delivery!vars, Offers!vars, Leads!vars, Links!vars, Readings!vars,
              Delivery!evidence, Delivery!rating, Leads!book
<1> QED  BY <1>1, <1>2

\* The inductive invariant of the whole is that of the service.
ServicesInductive ==
  /\ part = "delivery" => DeliveryInductive
  /\ part = "offers" => OffersInductive
  /\ part = "leads" => LeadsInductive
  /\ part = "links" => LinksInductive
  /\ part = "figures" => FiguresInductive

LEMMA ServicesBegin == Init => ServicesInductive
<1> SUFFICES ASSUME Init PROVE ServicesInductive
  OBVIOUS
<1>1. CASE part = "delivery" /\ Delivery!Init
  BY <1>1, ConstantsAssumption, DeliveryBegin DEF ServicesInductive
<1>2. CASE part = "offers" /\ Offers!Init
  BY <1>2, ConstantsAssumption, OffersBegin DEF ServicesInductive
<1>3. CASE part = "leads" /\ Leads!Init
  BY <1>3, ConstantsAssumption, LeadsBegin DEF ServicesInductive
<1>4. CASE part = "links" /\ Links!Init
  BY <1>4, ConstantsAssumption, LinksBegin DEF ServicesInductive
<1>5. CASE part = "figures" /\ Readings!Init
  BY <1>5, ConstantsAssumption, FiguresBegin DEF ServicesInductive
<1> QED  BY <1>1, <1>2, <1>3, <1>4, <1>5 DEF Init

LEMMA ServicesStep == ServicesInductive /\ [Next]_vars => ServicesInductive'
<1> SUFFICES ASSUME ServicesInductive, [Next]_vars PROVE ServicesInductive'
  OBVIOUS
<1>1. part' = part  BY StepsAreOfTheService
<1>2. part = "delivery" => DeliveryInductive'
  BY StepsAreOfTheService, ConstantsAssumption, DeliveryStep DEF ServicesInductive
<1>3. part = "offers" => OffersInductive'
  BY StepsAreOfTheService, ConstantsAssumption, OffersStep DEF ServicesInductive
<1>4. part = "leads" => LeadsInductive'
  BY StepsAreOfTheService, ConstantsAssumption, LeadsStep DEF ServicesInductive
<1>5. part = "links" => LinksInductive'
  BY StepsAreOfTheService, ConstantsAssumption, LinksStep DEF ServicesInductive
<1>6. part = "figures" => FiguresInductive'
  BY StepsAreOfTheService, ConstantsAssumption, FiguresStep DEF ServicesInductive
<1> QED  BY <1>1, <1>2, <1>3, <1>4, <1>5, <1>6 DEF ServicesInductive

LEMMA ServicesStay == Spec => []ServicesInductive
BY ServicesBegin, ServicesStep, PTL DEF Spec

\* What is on record about an item, a deliverable and an override is what happened,
\* except where two calls overlapped, for any number of calls, rows and dates
\* (OnboardingService, ServiceDeliverableService, ClientHealthService).
THEOREM RecordsTellWhatHappened == Spec => []RecordsMissOnlyOverlaps
<1>1. ServicesInductive => RecordsMissOnlyOverlaps
  BY DeliveryMeans DEF ServicesInductive, RecordsMissOnlyOverlaps
<1> QED  BY <1>1, ServicesStay, PTL

\* A launch over items that were open when it was asked for has its justification on
\* record, and the rating of a client and the signal about it follow the evidence
\* (activate, recalculate, override and clear, whatever order they come in).
THEOREM LaunchAndRatingHaveGrounds == Spec => []DeliveryIsGrounded
<1>1. ServicesInductive => DeliveryIsGrounded
  BY DeliveryMeans DEF ServicesInductive, DeliveryIsGrounded
<1> QED  BY <1>1, ServicesStay, PTL

\* One version of an offer is sellable at a time and a client is billed what its
\* snapshot says; a client has one open signal, about its newest link; for any number
\* of requests, versions, prices and attempts (OfferService, StripeCheckoutService).
THEOREM SalesStayHonest == Spec => []SalesAreHonest
<1>1. ServicesInductive => SalesAreHonest
  BY ConstantsAssumption, OffersMean, LinksMean DEF ServicesInductive, SalesAreHonest
<1> QED  BY <1>1, ServicesStay, PTL

\* A version of an offer goes forward through its life, with its terms while it is
\* live, and a link that is paid stays paid (transition, updateOffer,
\* createOrRetryCheckout).
THEOREM SettledIsKept == Spec => SettledStaysSettled
<1>1. ServicesInductive /\ [Next]_vars => [Settles]_vars
  <2> SUFFICES ASSUME ServicesInductive, [Next]_vars PROVE Settles
    OBVIOUS
  <2>1. part = "offers" => Offers!GoesForward
    BY StepsAreOfTheService, ConstantsAssumption, OffersGoForward DEF ServicesInductive
  <2>2. part = "links" => Links!StaysPaid
    BY StepsAreOfTheService, ConstantsAssumption, LinksStayPaid DEF ServicesInductive
  <2> QED  BY <2>1, <2>2 DEF Settles
<1> QED  BY <1>1, ServicesStay, PTL DEF Spec, SettledStaysSettled

\* A conversion is answered with the client it is about, a refusal tells the truth,
\* and leads that name one company share it, for any number of requests, leads,
\* companies and keys (ClientAccountService.convert, LeadService.createLead).
THEOREM ConversionsAreAnsweredTruly == Spec => []ConversionsAnswerTruly
<1>1. ServicesInductive => ConversionsAnswerTruly
  BY ConstantsAssumption, LeadsMean DEF ServicesInductive, ConversionsAnswerTruly
<1> QED  BY <1>1, ServicesStay, PTL

\* Figures that are worked out twice are apart by no more than what was written while
\* they were read, and a report does not contradict the lists shown inside, for any
\* clients, items, deliverables, deals and prices (KpiService, DashboardService,
\* ReportingService).
THEOREM FiguresAreConsistent == Spec => []FiguresAgree
<1>1. ServicesInductive => FiguresAgree
  BY ConstantsAssumption, FiguresMean DEF ServicesInductive, FiguresAgree
<1> QED  BY <1>1, ServicesStay, PTL
=============================================================================
