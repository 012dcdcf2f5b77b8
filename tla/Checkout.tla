------------------------------ MODULE Checkout ------------------------------
(***************************************************************************)
(* Checkout links of one client account (stripe-checkout.service.ts,       *)
(* billing-checkout-failure.service.ts, the end of the convert request in  *)
(* client-account.controller.ts, and what stripe-webhook-handler.service.ts *)
(* does to links and their signals).                                       *)
(*                                                                         *)
(* A link is made by a row of its own, a session at Stripe and two signals *)
(* in separate statements.  Every convert request makes the first link,    *)
(* also one that is answered from its idempotency key.  Stripe answers a   *)
(* repeated idempotency key with the session it made, so that an attempt   *)
(* and its session have the same number here.                              *)
(***************************************************************************)
EXTENDS Integers, FiniteSetsExt

CONSTANTS
  Calls,       \* requests; each is one process
  MaxAttempt,  \* a bound on the attempts of the account
  Provisioned, \* whether the offer was at Stripe when it was sold
  None         \* null

Attempts == 1 .. MaxAttempt

VARIABLES
  links,       \* BillingCheckoutSession by attempt, or None
  sessions,    \* the session of each attempt at Stripe
  signals,     \* RelationshipSignal rows in state ACTIVE
  profiled,    \* the client's contact has a RelationshipProfile
  calls,       \* the local state of every request
  past         \* *history* attempts a convert request repeated, overlaps, payments

vars == <<links, sessions, signals, profiled, calls, past>>

Statuses == {"PENDING", "CREATED", "COMPLETED", "FAILED"}

\* known: the row holds the identifier of its session.
Link == [status : Statuses, known : BOOLEAN]

Idle == [pc |-> "idle", op |-> None, attempt |-> None]

Working == {"upsert", "session", "created", "resolve", "pending", "failed",
            "clear", "handle"}

Init ==
  /\ links = [a \in Attempts |-> None]
  /\ sessions = [a \in Attempts |-> "none"]
  /\ signals = {}
  /\ profiled \in BOOLEAN
  /\ calls = [c \in Calls |-> Idle]
  /\ past = [repeated |-> FALSE, crossed |-> FALSE, broken |-> FALSE, settled |-> FALSE]

At(c, pc) == calls[c].pc = pc
Goto(c, new) == calls' = [calls EXCEPT ![c] = new]
Continue(c, pc) == Goto(c, [calls[c] EXCEPT !.pc = pc])

\* History: requests for links that run at the same time.
Start(c, op, pc, attempt) ==
  /\ Goto(c, [pc |-> pc, op |-> op, attempt |-> attempt])
  /\ past' = [past EXCEPT
                !.repeated = @ \/ (op = "convert" /\ \E a \in Attempts : links[a] # None),
                !.crossed  = @ \/ \E d \in Calls : calls[d].pc \in Working]

\* An offer that was not at Stripe has no link, and the failure is handled.
Convert(c) ==
  /\ At(c, "idle")
  /\ Start(c, "convert", IF Provisioned THEN "upsert" ELSE "handle", 1)
  /\ UNCHANGED <<links, sessions, signals, profiled>>

Made == {a \in Attempts : links[a] # None}

\* mutant of NextAttempt: a new link takes the number of the last one
NextAttemptSame == Max(Made \cup {1})

\* regenerateCheckout: one more than the newest.
NextAttempt == Max(Made \cup {0}) + 1

Regenerate(c) ==
  /\ At(c, "idle")
  /\ NextAttempt \in Attempts
  /\ Start(c, "regenerate", IF Provisioned THEN "upsert" ELSE "error", NextAttempt)
  /\ UNCHANGED <<links, sessions, signals, profiled>>

-----------------------------------------------------------------------------
(* createSubscriptionCheckout                                              *)

UpsertLink(c) ==
  LET a == calls[c].attempt IN
    /\ At(c, "upsert")
    /\ links' = [links EXCEPT ![a] = IF @ = None THEN [status |-> "PENDING", known |-> FALSE]
                                     ELSE [@ EXCEPT !.status = "PENDING"]]
    /\ Continue(c, "session")
    /\ UNCHANGED <<sessions, signals, profiled, past>>

\* The customer, then the session.
CreateSession(c) ==
  LET a == calls[c].attempt IN
    /\ At(c, "session")
    /\ sessions' = [sessions EXCEPT ![a] = IF @ = "none" THEN "open" ELSE @]
    /\ Continue(c, "created")
    /\ UNCHANGED <<links, signals, profiled, past>>

StoreSession(c) ==
  /\ At(c, "created")
  /\ links' = [links EXCEPT ![calls[c].attempt] = [status |-> "CREATED", known |-> TRUE]]
  /\ Continue(c, "resolve")
  /\ UNCHANGED <<sessions, signals, profiled, past>>

Of(type) == {s \in signals : s[2] = type}

\* mutant of Superseded: nothing is resolved
SupersededNone == {}

\* resolveSignals: a new link resolves the signal of the one before it.
Superseded == Of("CHECKOUT_PENDING")

ResolveSignals(c) ==
  /\ calls[c].pc \in {"resolve", "clear"}
  /\ signals' = signals \ Superseded
  /\ Continue(c, IF At(c, "resolve") THEN "pending"
                 ELSE IF calls[c].op = "convert" THEN "handle" ELSE "error")
  /\ UNCHANGED <<links, sessions, profiled, past>>

\* createSignal: without a profile to hang it on there is no signal.
Signalled(c, type) == IF profiled THEN signals \cup {<<c, type>>} ELSE signals

\* History: what was paid before it does not settle it.
SignalPending(c) ==
  /\ At(c, "pending")
  /\ signals' = Signalled(c, "CHECKOUT_PENDING")
  /\ past' = [past EXCEPT !.settled = FALSE]
  /\ Continue(c, "done")
  /\ UNCHANGED <<links, sessions, profiled>>

\* The catch covers the call of Stripe and everything after it.
Fail(c) ==
  /\ calls[c].pc \in {"session", "created", "resolve", "pending"}
  /\ past' = [past EXCEPT !.broken = @ \/ ~At(c, "session")]
  /\ Continue(c, "failed")
  /\ UNCHANGED <<links, sessions, signals, profiled>>

StoreFailure(c) ==
  /\ At(c, "failed")
  /\ links' = [links EXCEPT ![calls[c].attempt].status = "FAILED"]
  /\ Continue(c, "clear")
  /\ UNCHANGED <<sessions, signals, profiled, past>>

\* BillingCheckoutFailureService.handle: a task, a signal and an audit event.
HandleFailure(c) ==
  /\ At(c, "handle")
  /\ signals' = Signalled(c, "BILLING_SETUP_FAILED")
  /\ Continue(c, "handled")
  /\ UNCHANGED <<links, sessions, profiled, past>>

Crash(c) ==
  /\ calls[c].pc \in Working
  /\ Continue(c, "crashed")
  /\ past' = [past EXCEPT !.broken = TRUE]
  /\ UNCHANGED <<links, sessions, signals, profiled>>

-----------------------------------------------------------------------------

\* The client pays at Stripe.  An earlier link stays open.
Pay(a) ==
  /\ sessions[a] = "open"
  /\ sessions' = [sessions EXCEPT ![a] = "paid"]
  /\ UNCHANGED <<links, signals, profiled, calls, past>>

\* checkout.session.completed finds the row by the identifier of the session;
\* it may come any number of times.
Complete(a) ==
  /\ sessions[a] = "paid"
  /\ links' = IF links[a].known THEN [links EXCEPT ![a].status = "COMPLETED"] ELSE links
  /\ UNCHANGED <<sessions, signals, profiled, calls, past>>

\* onInvoicePaid, of an invoice that is not on record yet, closes both signals,
\* also before checkout.session.completed has come (the rest of it: StripeWebhooks).
InvoicePaid ==
  /\ \E a \in Attempts : sessions[a] = "paid"
  /\ signals' = signals \ (Of("CHECKOUT_PENDING") \cup Of("BILLING_SETUP_FAILED"))
  /\ past' = [past EXCEPT !.settled = TRUE]
  /\ UNCHANGED <<links, sessions, profiled, calls>>

Step(c) ==
  \/ Convert(c) \/ Regenerate(c) \/ UpsertLink(c) \/ CreateSession(c)
  \/ StoreSession(c) \/ ResolveSignals(c) \/ SignalPending(c) \/ Fail(c)
  \/ StoreFailure(c) \/ HandleFailure(c) \/ Crash(c)

Next ==
  \/ \E a \in Attempts : Pay(a) \/ Complete(a)
  \/ InvoicePaid
  \/ \E c \in Calls : Step(c)

Spec == Init /\ [][Next]_vars

-----------------------------------------------------------------------------
(* Properties.                                                             *)

TypesHold ==
  /\ links \in [Attempts -> Link \cup {None}]
  /\ sessions \in [Attempts -> {"none", "open", "paid"}]
  /\ signals \subseteq Calls \X {"CHECKOUT_PENDING", "BILLING_SETUP_FAILED"}
  /\ profiled \in BOOLEAN

\* A link that has been paid stays so at every step, unless a convert request was
\* repeated, requests for links overlapped, or the request that made it broke off
\* after Stripe had answered (createSubscriptionCheckout: its upsert makes a row of
\* the same attempt PENDING again, and its catch makes one FAILED).
StaysPaid ==
  \A a \in Made : links[a].status = "COMPLETED" /\ links'[a].status # "COMPLETED"
    => past'.repeated \/ past'.crossed \/ past'.broken

Quiet == \A c \in Calls : calls[c].pc \notin Working

\* Between requests a client has one open signal about a link at most, and it
\* has one when the newest link can be paid and no invoice was paid since it was
\* made, unless requests overlapped, one broke off after Stripe had answered, or its
\* contact has no profile (createSubscriptionCheckout, onInvoicePaid).
OnePendingSignal ==
  Quiet /\ ~past.crossed /\ ~past.broken =>
    /\ Cardinality(Of("CHECKOUT_PENDING")) <= 1
    /\ Made # {} /\ links[Max(Made)].status = "CREATED" /\ ~past.repeated /\ profiled =>
         Of("CHECKOUT_PENDING") # {} \/ past.settled

-----------------------------------------------------------------------------
(* Statements of comments in the code that it does not keep (README,       *)
(* section 6).                                                             *)

\* A link that is made resolves the alarm about one that could not be (the
\* comment of BillingCheckoutFailureService.handle): only a payment does.
AlarmsEnd ==
  [][\A c \in Calls : At(c, "pending") /\ calls'[c].pc = "done"
       => ~\E s \in signals' : s[2] = "BILLING_SETUP_FAILED"]_vars
=============================================================================
