------------------------------ MODULE Services ------------------------------
(***************************************************************************)
(* Services of the backend, one at a time: a behaviour is one of the       *)
(* service its first state names, and leaves the state of the others       *)
(* alone.  Services that have a variable of the same name use the same one. *)
(***************************************************************************)
EXTENDS Naturals, FiniteSets

CONSTANTS
  Pair,         \* requests to the delivery of a client's account
  Trio,         \* requests to the other services
  Checklist, Scope, Extras, Digits, Asks, Ratings, AccountId, Contacts, Horizon,
  Prices, MaxVersion,
  Known, Firms, Keys,
  MaxAttempt, Provisioned,
  Clients, Items, Deliverables, Deals, Persons, Owner, Required, Ours, Price, Tier, Value, Likely,
  Shown, MaxWrites,
  None

VARIABLES
  part,        \* the service
  calls, past, signals, rows, accounts,
  plan, service, commercial, health, overrides, filed, today, log, launches,
  offers, mappings, stripe, sales,
  contacts, companies, opportunities, keys, profiles, sellable,
  links, sessions, profiled,
  db, reader, figures, writes, under

deliveryOnly == <<plan, service, commercial, health, overrides, filed, today, log, launches>>
offersOnly == <<offers, mappings, stripe, sales>>
leadsOnly == <<contacts, companies, opportunities, keys, profiles, sellable>>
linksOnly == <<links, sessions, profiled>>
figuresOnly == <<db, reader, figures, writes, under>>

vars == <<part, calls, past, signals, rows, accounts, deliveryOnly, offersOnly, leadsOnly,
          linksOnly, figuresOnly>>

Delivery == INSTANCE ClientDelivery WITH
  Calls <- Pair, Items <- Checklist, Services <- Scope, Account <- AccountId

Offers == INSTANCE OfferCatalog WITH Calls <- Trio

Leads == INSTANCE LeadConversion WITH Calls <- Trio

Links == INSTANCE Checkout WITH Calls <- Trio

Readings == INSTANCE Figures WITH Works <- Deliverables, People <- Persons

\* What an item or deliverable may be, and what may be asked for one.
Statuses == Delivery!ItemStatuses \cup Delivery!WorkStatuses
Wishes == [status : Statuses \cup {None}, due : Nat \cup {None}]

\* null is no row, state, status or date; what is asked for and set by hand are values
\* of their types, and the digits of an identifier are a number.
DeliveryFit ==
  /\ None \notin Delivery!Row \cup Delivery!HealthRow \cup Delivery!HealthStates \cup Statuses
                 \cup Nat \cup {"NOT_STARTED", "COMPLETE"}
  /\ Digits \in [Delivery!Rows -> Nat] /\ Asks \subseteq Wishes
  /\ Ratings \subseteq Delivery!HealthStates /\ Horizon \in Nat

\* null is no version of an offer and no price, and there is a first version.
OffersFit == None \notin Offers!Offer /\ None \notin Prices /\ MaxVersion \in Nat \ {0}

\* null is no contact, no company, no key and no row.
LeadsFit ==
  /\ None \notin Leads!People /\ None \notin Leads!Companies /\ None \notin Keys
  /\ None \notin [status : {"LEAD", "CUSTOMER"}, company : Leads!Companies \cup {None}]

\* null is no link, and the account may have a first attempt.
LinksFit == None \notin Links!Link /\ MaxAttempt \in Nat \ {0}

\* Clients, people and deliverables are finitely many, each item and deliverable is of
\* one client, and items are not deliverables; null is no status, the bound is a number,
\* and a list shows somebody.
FiguresFit ==
  /\ IsFiniteSet(Clients) /\ IsFiniteSet(Persons) /\ IsFiniteSet(Deliverables)
  /\ Owner \in [Items \cup Deliverables -> Clients]
  /\ Items \cap Deliverables = {} /\ Required \subseteq Items
  /\ None \notin {"PENDING_ONBOARDING", "ACTIVE", "NOT_STARTED", "COMPLETE", "HEALTHY", "AT_RISK"}
  /\ Price \in [Clients -> Nat] /\ MaxWrites \in Nat /\ Shown \in Nat \ {0}

ASSUME ConstantsAssumption == DeliveryFit /\ OffersFit /\ LeadsFit /\ LinksFit /\ FiguresFit

NoDelivery == /\ plan = None /\ service = None /\ commercial = None /\ health = None
              /\ overrides = None /\ filed = None /\ today = None /\ log = None
              /\ launches = None
NoOffers == offers = None /\ mappings = None /\ stripe = None /\ sales = None
NoLeads == /\ contacts = None /\ companies = None /\ opportunities = None
           /\ keys = None /\ profiles = None /\ sellable = None
NoLinks == links = None /\ sessions = None /\ profiled = None
NoFigures == db = None /\ reader = None /\ figures = None /\ writes = None /\ under = None

Init ==
  \/ /\ part = "delivery" /\ Delivery!Init
     /\ NoOffers /\ NoLeads /\ NoLinks /\ NoFigures /\ accounts = None
  \/ /\ part = "offers" /\ Offers!Init
     /\ NoDelivery /\ NoLeads /\ NoLinks /\ NoFigures
     /\ rows = None /\ accounts = None /\ signals = None
  \/ /\ part = "leads" /\ Leads!Init
     /\ NoDelivery /\ NoOffers /\ NoLinks /\ NoFigures
     /\ rows = None /\ signals = None
  \/ /\ part = "links" /\ Links!Init
     /\ NoDelivery /\ NoOffers /\ NoLeads /\ NoFigures
     /\ rows = None /\ accounts = None
  \/ /\ part = "figures" /\ Readings!Init
     /\ NoDelivery /\ NoOffers /\ NoLeads /\ NoLinks
     /\ calls = None /\ past = None /\ rows = None /\ accounts = None /\ signals = None

Next ==
  /\ UNCHANGED part
  /\ \/ /\ part = "delivery" /\ Delivery!Next
        /\ UNCHANGED <<offersOnly, leadsOnly, linksOnly, figuresOnly, accounts>>
     \/ /\ part = "offers" /\ Offers!Next
        /\ UNCHANGED <<deliveryOnly, leadsOnly, linksOnly, figuresOnly,
                       rows, accounts, signals>>
     \/ /\ part = "leads" /\ Leads!Next
        /\ UNCHANGED <<deliveryOnly, offersOnly, linksOnly, figuresOnly, rows, signals>>
     \/ /\ part = "links" /\ Links!Next
        /\ UNCHANGED <<deliveryOnly, offersOnly, leadsOnly, figuresOnly, rows, accounts>>
     \/ /\ part = "figures" /\ Readings!Next
        /\ UNCHANGED <<deliveryOnly, offersOnly, leadsOnly, linksOnly,
                       calls, past, rows, accounts, signals>>

Spec == Init /\ [][Next]_vars

\* HistoryMissesOnlyOverlaps and StateMissesOverrideOnlyByOverlap of
\* ClientDelivery: what is on record about a row and about an override is what
\* happened, except where two calls overlapped.  In each part one property has
\* the types of the part's variables with it.
RecordsMissOnlyOverlaps ==
  part = "delivery" =>
    Delivery!TypesHold /\ Delivery!HistoryMissesOnlyOverlaps /\ Delivery!StateMissesOverrideOnlyByOverlap

\* LaunchIsJustified and RatingFollowsEvidence of ClientDelivery: a launch over
\* open items is justified, and the rating and its signal follow the evidence.
DeliveryIsGrounded ==
  part = "delivery" => Delivery!LaunchIsJustified /\ Delivery!RatingFollowsEvidence

\* OneIsSellable and BilledAsSold of OfferCatalog, OnePendingSignal of Checkout: one
\* version of an offer can be sold at a time, what is billed is what was sold, and
\* until an invoice is paid a client has one open signal about its newest link.
SalesAreHonest ==
  /\ part = "offers" => Offers!TypesHold /\ Offers!OneIsSellable /\ Offers!BilledAsSold
  /\ part = "links" => Links!TypesHold /\ Links!OnePendingSignal

\* GoesForward of OfferCatalog and StaysPaid of Checkout: a version goes forward
\* and its terms stay while it is live; a link that is paid stays paid.
Settles ==
  /\ part = "offers" => Offers!GoesForward
  /\ part = "links" => Links!StaysPaid

SettledStaysSettled == [][Settles]_vars

\* AnswersOwnClient, ConflictsAreTrue and LeadsShareACompany of LeadConversion: a
\* conversion is answered with the client it is about, a refusal tells the truth,
\* and leads that name one company share it.
ConversionsAnswerTruly ==
  part = "leads" =>
    Leads!TypesHold /\ Leads!AnswersOwnClient /\ Leads!ConflictsAreTrue /\ Leads!LeadsShareACompany

\* FiguresAgree and ReportsAgree of Figures: figures that are worked out twice are
\* apart by no more than what was written while they were read.
FiguresAgree ==
  part = "figures" => Readings!TypesHold /\ Readings!FiguresAgree /\ Readings!ReportsAgree

\* What a comment of the code says and the code does not do: RatedByDays of
\* ClientDelivery.
RatedByDays == part = "delivery" => Delivery!RatedByDays
=============================================================================
