--------------------------- MODULE StripeWebhooks ---------------------------
(***************************************************************************)
(* Stripe's webhook deliveries for one client account                      *)
(* (stripe-webhook.controller.ts, stripe-webhook-dedup.service.ts,         *)
(* stripe-webhook-handler.service.ts of backend/src/modules/marketing).    *)
(*                                                                         *)
(* Stripe delivers an event any number of times and in any order.  A       *)
(* delivery opens a transaction, takes the advisory lock of its event and  *)
(* calls the handler, whose statements run one by one on other connections *)
(* of the pool and are not part of that transaction: a timeout gives the   *)
(* lock back under a handler that goes on, a failure leaves what it has    *)
(* already written.                                                        *)
(*                                                                         *)
(* The account is named in the metadata of its subscription and its offer  *)
(* has a price at Stripe: events of any other are logged and left.         *)
(***************************************************************************)
EXTENDS Integers, FiniteSetsExt

CONSTANTS
  Calls,        \* deliveries; each is one process
  Events,       \* events of the account's subscription at Stripe
  Payload,      \* what each event says
  Invoices,
  Price,        \* amount_paid of an invoice
  PoolSize,     \* connections of the database pool
  Profiled,     \* whether the account's contact has a RelationshipProfile
  None          \* null

EventTypes == {"checkout.session.completed", "customer.subscription.updated",
               "customer.subscription.deleted", "invoice.paid",
               "invoice.payment_failed", "charge.refunded", "other"}

Statuses == {"INCOMPLETE", "INCOMPLETE_EXPIRED", "TRIALING", "ACTIVE",
             "PAST_DUE", "CANCELED", "UNPAID", "PAUSED"}

\* A subscription as an event or Stripe's API reports it, and as it is stored.
Reports == [status : Statuses, cancels : BOOLEAN]

\* Columns of a BillingPaymentRecord; maker is the delivery that inserted it.
PaymentRows == [maker : Calls \cup {None}, refunded : 0 .. Price]

ASSUME CallAssumption ==
  None \notin Calls \cup Events \cup Invoices \cup Reports \cup PaymentRows
ASSUME PayloadAssumption ==
  Payload \in [Events -> [type     : EventTypes,
                          invoice  : Invoices,
                          report   : Reports,
                          refunded : 0 .. Price]]   \* cumulative, at Stripe
ASSUME AmountAssumption == Price \in Nat \ {0} /\ PoolSize \in Nat \ {0}
ASSUME ProfileAssumption == Profiled \in BOOLEAN

VARIABLES
  inbox,        \* committed StripeWebhookEvent rows: processingState
  locks,        \* which delivery's transaction holds each event's lock
  calls,        \* the local state of every delivery
  checkout,     \* BillingCheckoutSession.status of the account's session
  subscription, \* the BillingSubscription row, or None
  payments,     \* BillingPaymentRecord rows by invoice
  ledger,       \* ClientCommercialStateChange rows with field PAYMENT
  signals       \* RelationshipSignal rows in state ACTIVE

vars == <<inbox, locks, calls, checkout, subscription, payments, ledger, signals>>

tables == <<checkout, subscription, payments, ledger, signals>>

-----------------------------------------------------------------------------

Type(e) == Payload[e].type

LedgerRow(c, kind, e, amount) ==
  [call |-> c, kind |-> kind, event |-> e, invoice |-> Payload[e].invoice,
   amount |-> amount]

SignalTypes == {"CHECKOUT_PENDING", "BILLING_SETUP_FAILED", "PAYMENT_FAILURE",
                "PAST_DUE", "CANCELLATION_SCHEDULED", "CANCELLATION_COMPLETED"}

\* Where the handler of an event begins.
Entry == [t \in EventTypes |->
            CASE t = "checkout.session.completed"    -> "complete"
              [] t = "customer.subscription.updated" -> "prior"
              [] t = "customer.subscription.deleted" -> "cancel"
              [] t = "invoice.paid"                  -> "account"
              [] t = "invoice.payment_failed"        -> "pastdue"
              [] t = "charge.refunded"               -> "charge"
              [] OTHER                               -> "mark"]

\* The statements of the handlers.
Handling == {"complete", "retrieve", "upsert", "prior", "signal", "schedule",
             "cancel", "cancelled", "account", "known", "record", "revenue",
             "recovery", "recover", "settle", "activate", "pastdue", "failure",
             "charge", "refund", "reverse"}

\* The handler is running, or has returned or thrown and is to be marked.
Claimed == Handling \cup {"mark", "fail"}

\* Answered 200 as processed, skipped or failed; answered 500; or dead.
Ended == {"done", "skipped", "failed", "error", "crashed"}

CallPcs == {"idle", "begin", "lock"} \cup Claimed \cup Ended

CallStates == [pc     : CallPcs,
               event  : Events \cup {None},
               late   : BOOLEAN,                  \* its transaction timed out
               prior  : Reports \cup {None},      \* the row it read
               report : Reports \cup {None}]      \* what it is to store

Idle == [pc |-> "idle", event |-> None, late |-> FALSE, prior |-> None,
         report |-> None]

\* Invoices may have been paid by earlier deliveries, and the account has been
\* sent its checkout session.
Init ==
  /\ inbox = [e \in Events |-> "NEW"]
  /\ locks = [e \in Events |-> None]
  /\ calls = [c \in Calls |-> Idle]
  /\ checkout = "CREATED"
  /\ subscription \in {Payload[e].report : e \in Events} \cup {None}
  /\ \E I \in SUBSET Invoices :
       /\ payments = [i \in Invoices |->
                        IF i \in I THEN [maker |-> None, refunded |-> 0] ELSE None]
       /\ ledger = {[call |-> None, kind |-> "PAID", event |-> None,
                     invoice |-> i, amount |-> Price] : i \in I}
  /\ signals = IF Profiled THEN {<<None, "CHECKOUT_PENDING">>} ELSE {}

Goto(c, pc) == calls' = [calls EXCEPT ![c].pc = pc]

Turn(c, pc) == Goto(c, pc) /\ UNCHANGED <<inbox, locks, tables>>

At(c, pc) == calls[c].pc = pc

EventOf(c) == calls[c].event
PayloadOf(c) == Payload[EventOf(c)]
InvoiceOf(c) == PayloadOf(c).invoice

-----------------------------------------------------------------------------
(* claimAndProcess: the transaction around the handler.                    *)

InTransaction == {c \in Calls : calls[c].pc \in Claimed \cup {"lock"} /\ ~calls[c].late}

\* A connection of the pool that no transaction has taken.
FreeConnection == Cardinality(InTransaction) < PoolSize

\* constructEvent has checked the signature.
Deliver(c, e) ==
  /\ At(c, "idle")
  /\ calls' = [calls EXCEPT ![c].pc = "begin", ![c].event = e]
  /\ UNCHANGED <<inbox, locks, tables>>

OpenTransaction(c) == At(c, "begin") /\ FreeConnection /\ Turn(c, "lock")

\* Prisma's maxWait passed: deliveries, or the rest of the server, had them all.
NoTransaction(c) == At(c, "begin") /\ Turn(c, "error")

Unlock(c) == locks' = [locks EXCEPT ![EventOf(c)] = None]

LockAnyway(c) == At(c, "lock")                        \* mutant of LockGranted
LockGranted(c) == At(c, "lock") /\ locks[EventOf(c)] = None

NothingKnown(c) == FALSE                              \* mutant of AlreadyProcessed
AlreadyProcessed(c) == inbox[EventOf(c)] = "PROCESSED"

Skip(c) == LockGranted(c) /\ AlreadyProcessed(c) /\ Turn(c, "skipped")

\* The row becomes PROCESSING, which no other transaction ever sees.
Claim(c) ==
  /\ LockGranted(c)
  /\ ~AlreadyProcessed(c)
  /\ locks' = [locks EXCEPT ![EventOf(c)] = c]
  /\ Goto(c, Entry[Type(EventOf(c))])
  /\ UNCHANGED <<inbox, tables>>

\* Its 15 s passed in the queue for the lock; the lock is let go at once.
WaitTooLong(c) == LockGranted(c) /\ Turn(c, "error")

TimeoutNever(c) == FALSE                              \* mutant of Timeout

\* The transaction is rolled back under the handler, which goes on.
Timeout(c) ==
  /\ calls[c].pc \in Claimed /\ ~calls[c].late
  /\ calls' = [calls EXCEPT ![c].late = TRUE]
  /\ Unlock(c)
  /\ UNCHANGED <<inbox, tables>>

MarkProcessed(c) ==
  /\ At(c, "mark") /\ ~calls[c].late
  /\ inbox' = [inbox EXCEPT ![EventOf(c)] = "PROCESSED"]
  /\ Unlock(c)
  /\ Goto(c, "done")
  /\ UNCHANGED tables

\* Committed and answered 200.
MarkFailed(c) ==
  /\ At(c, "fail") /\ ~calls[c].late
  /\ inbox' = [inbox EXCEPT ![EventOf(c)] = "FAILED"]
  /\ Unlock(c)
  /\ Goto(c, "failed")
  /\ UNCHANGED tables

\* The update of the closed transaction throws, and so does the one in catch.
MarkTooLate(c) ==
  calls[c].pc \in {"mark", "fail"} /\ calls[c].late /\ Turn(c, "error")

\* A statement of the handler or a call to Stripe's API throws.
HandlerFails(c) == calls[c].pc \in Handling /\ Turn(c, "fail")

\* The process dies: its transaction is rolled back.
Crash(c) ==
  /\ calls[c].pc \notin Ended \cup {"idle"}
  /\ locks' = [e \in Events |-> IF locks[e] = c THEN None ELSE locks[e]]
  /\ Goto(c, "crashed")
  /\ UNCHANGED <<inbox, tables>>

-----------------------------------------------------------------------------
(* handleEvent: statement by statement.                                    *)

\* Statement pc of the handler of call c gets a connection.
Runs(c, pc) == At(c, pc) /\ FreeConnection

\* onCheckoutCompleted.
CompleteCheckout(c) ==
  /\ Runs(c, "complete")
  /\ checkout' = "COMPLETED"
  /\ Goto(c, "retrieve")
  /\ UNCHANGED <<inbox, locks, subscription, payments, ledger, signals>>

\* subscriptions.retrieve tells of any state the subscription has had.
RetrieveSubscription(c) ==
  /\ At(c, "retrieve")
  /\ \E e \in Events :
       calls' = [calls EXCEPT ![c].pc = "upsert", ![c].report = Payload[e].report]
  /\ UNCHANGED <<inbox, locks, tables>>

\* onSubscriptionUpsert reads the row before it writes it.
ReadPrior(c) ==
  /\ Runs(c, "prior")
  /\ calls' = [calls EXCEPT ![c].pc = "upsert", ![c].prior = subscription,
                            ![c].report = PayloadOf(c).report]
  /\ UNCHANGED <<inbox, locks, tables>>

UpsertSubscription(c) ==
  /\ Runs(c, "upsert")
  /\ subscription' = calls[c].report
  /\ Goto(c, IF Type(EventOf(c)) = "checkout.session.completed" THEN "mark" ELSE "signal")
  /\ UNCHANGED <<inbox, locks, checkout, payments, ledger, signals>>

\* Skipped, with a warning, when the contact has no profile.
CreateSignal(c, type) ==
  signals' = IF Profiled THEN signals \cup {<<c, type>>} ELSE signals

ResolveSignals(types) == signals' = {s \in signals : s[2] \notin types}

\* The prior row had been in this condition.
WasPastDue(c) == calls[c].prior # None /\ calls[c].prior.status = "PAST_DUE"
WasCancelling(c) == calls[c].prior # None /\ calls[c].prior.cancels

SignalPastDue(c) ==
  /\ Runs(c, "signal")
  /\ IF calls[c].report.status = "PAST_DUE" /\ ~WasPastDue(c)
       THEN CreateSignal(c, "PAST_DUE")
       ELSE UNCHANGED signals
  /\ Goto(c, "schedule")
  /\ UNCHANGED <<inbox, locks, checkout, subscription, payments, ledger>>

SignalCancellation(c) ==
  /\ Runs(c, "schedule")
  /\ IF calls[c].report.cancels
       THEN IF WasCancelling(c) THEN UNCHANGED signals
                                ELSE CreateSignal(c, "CANCELLATION_SCHEDULED")
       ELSE IF WasCancelling(c) THEN ResolveSignals({"CANCELLATION_SCHEDULED"})
                                ELSE UNCHANGED signals
  /\ Goto(c, "mark")
  /\ UNCHANGED <<inbox, locks, checkout, subscription, payments, ledger>>

\* An updateMany of the row's status.
SetStatus(status) ==
  subscription' = IF subscription = None THEN None
                  ELSE [subscription EXCEPT !.status = status]

CancelSubscription(c) ==
  /\ Runs(c, "cancel")
  /\ SetStatus("CANCELED")
  /\ Goto(c, "cancelled")
  /\ UNCHANGED <<inbox, locks, checkout, payments, ledger, signals>>

SignalCancelled(c) ==
  /\ Runs(c, "cancelled")
  /\ CreateSignal(c, "CANCELLATION_COMPLETED")
  /\ Goto(c, "mark")
  /\ UNCHANGED <<inbox, locks, checkout, subscription, payments, ledger>>

-----------------------------------------------------------------------------
(* onInvoicePaid, onInvoicePaymentFailed and onChargeRefunded.             *)

\* The account comes from the row, or from Stripe when there is none yet.
FindAccount(c) ==
  /\ Runs(c, "account")
  /\ calls' = [calls EXCEPT ![c].pc = "known", ![c].prior = subscription]
  /\ UNCHANGED <<inbox, locks, tables>>

FindPayment(c) ==
  /\ Runs(c, "known")
  /\ Turn(c, IF payments[InvoiceOf(c)] = None THEN "record" ELSE "activate")

CreatePaymentUpsert(c) ==                             \* mutant of CreatePayment
  /\ Runs(c, "record")
  /\ payments' = [payments EXCEPT ![InvoiceOf(c)] = [maker |-> c, refunded |-> 0]]
  /\ Goto(c, "revenue")
  /\ UNCHANGED <<inbox, locks, checkout, subscription, ledger, signals>>

\* stripeInvoiceId is unique: a second insert throws.
CreatePayment(c) ==
  /\ Runs(c, "record")
  /\ IF payments[InvoiceOf(c)] = None
       THEN /\ payments' = [payments EXCEPT
                              ![InvoiceOf(c)] = [maker |-> c, refunded |-> 0]]
            /\ Goto(c, "revenue")
       ELSE /\ Goto(c, "fail")
            /\ UNCHANGED payments
  /\ UNCHANGED <<inbox, locks, checkout, subscription, ledger, signals>>

\* Mutant of AddRevenue: the insert is not awaited, and its failure not seen.
AddRevenueUnawaited(c) ==
  /\ Runs(c, "revenue")
  /\ ledger' \in {ledger, ledger \cup {LedgerRow(c, "PAID", EventOf(c), Price)}}
  /\ Goto(c, "recovery")
  /\ UNCHANGED <<inbox, locks, checkout, subscription, payments, signals>>

AddRevenue(c) ==
  /\ Runs(c, "revenue")
  /\ ledger' = ledger \cup {LedgerRow(c, "PAID", EventOf(c), Price)}
  /\ Goto(c, "recovery")
  /\ UNCHANGED <<inbox, locks, checkout, subscription, payments, signals>>

AllRisk == SignalTypes                                \* mutant of Failing
Failing == {"PAYMENT_FAILURE", "PAST_DUE"}

\* PAYMENT_SUCCESS and PAYMENT_RECOVERY are created resolved.
FindFailing(c) ==
  /\ Runs(c, "recovery")
  /\ Turn(c, IF \E s \in signals : s[2] \in Failing THEN "recover" ELSE "settle")

ResolveFailing(c) ==
  /\ Runs(c, "recover")
  /\ ResolveSignals(Failing)
  /\ Goto(c, "settle")
  /\ UNCHANGED <<inbox, locks, checkout, subscription, payments, ledger>>

SettleCheckout(c) ==
  /\ Runs(c, "settle")
  /\ ResolveSignals({"CHECKOUT_PENDING", "BILLING_SETUP_FAILED"})
  /\ Goto(c, "activate")
  /\ UNCHANGED <<inbox, locks, checkout, subscription, payments, ledger>>

\* Only a row that was found before the payment was recorded is updated.
Activate(c) ==
  /\ Runs(c, "activate")
  /\ IF calls[c].prior = None THEN UNCHANGED subscription ELSE SetStatus("ACTIVE")
  /\ Goto(c, "mark")
  /\ UNCHANGED <<inbox, locks, checkout, payments, ledger, signals>>

MarkPastDue(c) ==
  /\ Runs(c, "pastdue")
  /\ SetStatus("PAST_DUE")
  /\ Goto(c, "failure")
  /\ UNCHANGED <<inbox, locks, checkout, payments, ledger, signals>>

SignalFailure(c) ==
  /\ Runs(c, "failure")
  /\ CreateSignal(c, "PAYMENT_FAILURE")
  /\ Goto(c, "mark")
  /\ UNCHANGED <<inbox, locks, checkout, subscription, payments, ledger>>

\* A refund of a payment not yet recorded is logged and left at that.
FindCharge(c) ==
  /\ Runs(c, "charge")
  /\ Turn(c, IF payments[InvoiceOf(c)] = None THEN "mark" ELSE "refund")

RecordRefund(c) ==
  /\ Runs(c, "refund")
  /\ payments' = [payments EXCEPT ![InvoiceOf(c)].refunded = PayloadOf(c).refunded]
  /\ Goto(c, "reverse")
  /\ UNCHANGED <<inbox, locks, checkout, subscription, ledger, signals>>

\* Mutant of AddReversal: the insert is not awaited, and its failure not seen.
AddReversalUnawaited(c) ==
  /\ Runs(c, "reverse")
  /\ ledger' \in {ledger, ledger \cup
                    {LedgerRow(c, "REFUNDED", EventOf(c), -PayloadOf(c).refunded)}}
  /\ Goto(c, "mark")
  /\ UNCHANGED <<inbox, locks, checkout, subscription, payments, signals>>

\* amount_refunded is all that was given back so far: the row of a second partial
\* refund contains the first.
AddReversal(c) ==
  /\ Runs(c, "reverse")
  /\ ledger' = ledger \cup
       {LedgerRow(c, "REFUNDED", EventOf(c), -PayloadOf(c).refunded)}
  /\ Goto(c, "mark")
  /\ UNCHANGED <<inbox, locks, checkout, subscription, payments, signals>>

-----------------------------------------------------------------------------

Handle(c) ==
  \/ CompleteCheckout(c) \/ RetrieveSubscription(c) \/ ReadPrior(c)
  \/ UpsertSubscription(c) \/ SignalPastDue(c) \/ SignalCancellation(c)
  \/ CancelSubscription(c) \/ SignalCancelled(c)
  \/ FindAccount(c) \/ FindPayment(c) \/ CreatePayment(c) \/ AddRevenue(c)
  \/ FindFailing(c) \/ ResolveFailing(c) \/ SettleCheckout(c) \/ Activate(c)
  \/ MarkPastDue(c) \/ SignalFailure(c)
  \/ FindCharge(c) \/ RecordRefund(c) \/ AddReversal(c)

Proceed(c) ==
  \/ OpenTransaction(c) \/ NoTransaction(c) \/ Skip(c) \/ Claim(c) \/ Handle(c)
  \/ MarkProcessed(c) \/ MarkFailed(c) \/ MarkTooLate(c)

Disturb(c) == WaitTooLong(c) \/ Timeout(c) \/ HandlerFails(c) \/ Crash(c)

Next ==
  \E c \in Calls : (\E e \in Events : Deliver(c, e)) \/ Proceed(c) \/ Disturb(c)

Spec == Init /\ [][Next]_vars

\* Node runs every ready continuation, and Prisma's timer of a transaction that
\* stays open fires.  Nothing makes Stripe deliver, or a statement fail.
FairSpec ==
  /\ Spec
  /\ \A c \in Calls : WF_vars(Proceed(c)) /\ WF_vars(Timeout(c))

-----------------------------------------------------------------------------
(* Safety.                                                                 *)

LedgerRows ==
  [call : Calls \cup {None}, kind : {"PAID", "REFUNDED"}, event : Events \cup {None},
   invoice : Invoices, amount : -Price .. Price]

TypeOK ==
  /\ inbox \in [Events -> {"NEW", "PROCESSED", "FAILED"}]
  /\ locks \in [Events -> Calls \cup {None}]
  /\ calls \in [Calls -> CallStates]
  /\ checkout \in {"CREATED", "COMPLETED"}
  /\ subscription \in Reports \cup {None}
  /\ payments \in [Invoices -> PaymentRows \cup {None}]
  /\ ledger \subseteq LedgerRows
  /\ signals \subseteq (Calls \cup {None}) \X SignalTypes

\* A delivery that did not come to an orderly end.
Broken(c) == calls[c].late \/ calls[c].pc \in {"fail", "failed", "error", "crashed"}

\* The handler of an event never runs twice at a time ("one set of business
\* effects"), save beside a run that outlived its transaction's 15 s.
HandlersAreExclusive ==
  \A c, d \in Calls :
    c # d /\ calls[c].pc \in Claimed /\ calls[d].pc \in Claimed /\ EventOf(c) = EventOf(d)
      => calls[c].late \/ calls[d].late

\* However often an invoice is reported paid, by deliveries that race, outlive
\* their lock or repeat a failed one, its money is counted once, for a payment
\* on record.
PaidOnce ==
  \A r \in ledger :
    r.kind = "PAID" =>
      /\ payments[r.invoice] # None
      /\ \A s \in ledger : s.kind = "PAID" /\ s.invoice = r.invoice => s = r

\* A payment on record is in the ledger the reports read, unless the delivery
\* that recorded it is about to put it there, or broke off.
PaymentsReachLedger ==
  \A i \in Invoices :
    payments[i] # None =>
      \/ \E r \in ledger : r.kind = "PAID" /\ r.invoice = i
      \/ payments[i].maker \in Calls /\ (At(payments[i].maker, "revenue") \/ Broken(payments[i].maker))

\* What the payment's row says was given back is taken off in the ledger, unless
\* the delivery that brought the figure is about to do that, or broke off.
RefundsReachLedger ==
  \A i \in Invoices :
    payments[i] # None /\ payments[i].refunded > 0 =>
      \/ \E r \in ledger :
           r.kind = "REFUNDED" /\ r.invoice = i /\ r.amount = -payments[i].refunded
      \/ \E c \in Calls :
           /\ At(c, "reverse") \/ Broken(c)
           /\ Type(EventOf(c)) = "charge.refunded" /\ InvoiceOf(c) = i
           /\ PayloadOf(c).refunded = payments[i].refunded

\* A refund event is taken off twice only when one of its deliveries broke off.
RefundsRepeatOnlyAfterFailure ==
  \A r, s \in ledger :
    r.kind = "REFUNDED" /\ s.kind = "REFUNDED" /\ r.event = s.event /\ r.call # s.call
      => Broken(r.call) \/ Broken(s.call)

\* The ledger tells of the money: every payment on record once, and of a refund on
\* record the whole that was given back so far, each event of it once, unless the
\* delivery that was to enter it broke off (onInvoicePaid, onChargeRefunded).  The
\* rows of two partial refunds do not add up to what was given back: LedgerIsNet.
MoneyIsCounted ==
  /\ PaidOnce /\ PaymentsReachLedger
  /\ RefundsReachLedger /\ RefundsRepeatOnlyAfterFailure

\* A cancellation that was processed is before somebody's eyes from then on,
\* whatever payments come late, if the contact has a profile to show it in
\* ("needs human follow-up, not a silent closure").
CancellationsAreFollowedUp ==
  \A e \in Events :
    Profiled /\ Type(e) = "customer.subscription.deleted" /\ inbox[e] = "PROCESSED" =>
      \E c \in Calls : EventOf(c) = e /\ <<c, "CANCELLATION_COMPLETED">> \in signals

-----------------------------------------------------------------------------
(* The inductive invariant of StripeWebhooksProofs.                        *)

\* The statements of the handler of an event.
Statements(e) ==
  CASE Type(e) = "checkout.session.completed"    -> {"complete", "retrieve", "upsert"}
    [] Type(e) = "customer.subscription.updated" -> {"prior", "upsert", "signal", "schedule"}
    [] Type(e) = "customer.subscription.deleted" -> {"cancel", "cancelled"}
    [] Type(e) = "invoice.paid"                  -> {"account", "known", "record", "revenue",
                                                     "recovery", "recover", "settle", "activate"}
    [] Type(e) = "invoice.payment_failed"        -> {"pastdue", "failure"}
    [] Type(e) = "charge.refunded"               -> {"charge", "refund", "reverse"}
    [] OTHER                                     -> {}

FollowedUp(c) == Profiled => <<c, "CANCELLATION_COMPLETED">> \in signals

\* A delivery knows its event, and a handler only runs statements of its own.
EventOK(c) ==
  /\ EventOf(c) = None <=> At(c, "idle")
  /\ calls[c].pc \in Handling => calls[c].pc \in Statements(EventOf(c))
  /\ calls[c].pc \in {"upsert", "signal", "schedule"} => calls[c].report \in Reports

\* A handler whose transaction is open has the lock of an event still to do.
HolderOK(c) ==
  /\ calls[c].pc \in {"idle", "begin", "lock"} => ~calls[c].late
  /\ calls[c].pc \in Claimed /\ ~calls[c].late =>
       locks[EventOf(c)] = c /\ inbox[EventOf(c)] # "PROCESSED"
  /\ At(c, "done") => inbox[EventOf(c)] = "PROCESSED"

\* What a handler has written by the time it is at a statement.
ProgressOK(c) ==
  /\ At(c, "revenue") => payments[InvoiceOf(c)] # None /\ payments[InvoiceOf(c)].maker = c
  /\ calls[c].pc \in {"refund", "reverse"} => payments[InvoiceOf(c)] # None
  /\ calls[c].pc \in {"mark", "done"} /\ Type(EventOf(c)) = "customer.subscription.deleted" =>
       FollowedUp(c)

LockOK(e) ==
  locks[e] # None =>
    EventOf(locks[e]) = e /\ calls[locks[e]].pc \in Claimed /\ ~calls[locks[e]].late

PaymentOK(i) ==
  payments[i] # None /\ payments[i].maker # None =>
    ~At(payments[i].maker, "idle") /\ InvoiceOf(payments[i].maker) = i

\* The one row of the payment of an invoice.
PaidRow(i) ==
  IF payments[i].maker = None
    THEN [call |-> None, kind |-> "PAID", event |-> None, invoice |-> i, amount |-> Price]
    ELSE LedgerRow(payments[i].maker, "PAID", EventOf(payments[i].maker), Price)

RowOK(r) ==
  /\ r.kind = "PAID" => payments[r.invoice] # None /\ r = PaidRow(r.invoice)
  /\ r.kind = "REFUNDED" =>
       /\ r.call \in Calls /\ ~At(r.call, "idle") /\ r.event = EventOf(r.call)
       /\ Broken(r.call) \/ At(r.call, "mark") \/ At(r.call, "done")

IInv ==
  /\ TypeOK
  /\ \A c \in Calls : EventOK(c) /\ HolderOK(c) /\ ProgressOK(c)
  /\ \A e \in Events : LockOK(e)
  /\ \A i \in Invoices : PaymentOK(i)
  /\ \A r \in ledger : RowOK(r)
  /\ PaymentsReachLedger
  /\ RefundsReachLedger
  /\ RefundsRepeatOnlyAfterFailure
  /\ CancellationsAreFollowedUp

-----------------------------------------------------------------------------
(* Refinement and liveness.                                                *)

Completed == {<<c, EventOf(c)>> : c \in {d \in Calls : At(d, "done")}}

Inbox == INSTANCE EventInbox WITH Deliveries <- Calls, state <- inbox,
                                  completed <- Completed

\* Each event is completed by one delivery at most, and then left alone.
ImplementsEventInbox == Inbox!Spec

\* No delivery waits for ever, for the lock of its event or for a connection,
\* not even when waiting deliveries have taken the whole pool.
DeliveriesEnd == \A c \in Calls : At(c, "begin") ~> calls[c].pc \in Ended

-----------------------------------------------------------------------------
(* Statements of the design of the Stripe billing, which the code does not  *)
(* keep (README, section 6).                                               *)

\* No delivery is under way.
Quiet == \A c \in Calls : calls[c].pc \in {"idle"} \cup Ended

\* "On `invoice.paid`, the webhook handler writes both": once an event of a
\* payment is processed and nothing runs any more, its revenue is recorded.
ProcessedPaymentsAreRevenue ==
  \A e \in Events :
    Quiet /\ Type(e) = "invoice.paid" /\ inbox[e] = "PROCESSED" =>
      \E r \in ledger : r.kind = "PAID" /\ r.invoice = Payload[e].invoice

\* No delivery broke off, and none is about to enter a row.
InOrder ==
  \A c \in Calls : ~Broken(c) /\ calls[c].pc \notin {"revenue", "refund", "reverse"}

Recorded == {i \in Invoices : payments[i] # None}

\* What was paid less what was given back.
NetFigure == MapThenSumSet(LAMBDA i : Price - payments[i].refunded, Recorded)

\* "A negative-amount row, so revenue sums naturally net out": the ledger as a
\* whole is the net figure.
LedgerIsNet == InOrder => MapThenSumSet(LAMBDA r : r.amount, ledger) = NetFigure

\* computeCollectedRevenue90d adds up the rows whose newValue contains PAID.
CollectedRevenue ==
  MapThenSumSet(LAMBDA r : r.amount, {r \in ledger : r.kind = "PAID"})

\* "dashboard `collectedRevenue90d` reflects the net figure".
RevenueIsNet == InOrder => CollectedRevenue = NetFigure
=============================================================================
