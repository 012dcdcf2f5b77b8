------------------------ MODULE StripeWebhooksProofs ------------------------
(***************************************************************************)
(* Proofs about StripeWebhooks, for any number of deliveries, events,      *)
(* invoices and connections.                                               *)
(***************************************************************************)
EXTENDS StripeWebhooks, TLAPS

-----------------------------------------------------------------------------
(* How a step moves the call it belongs to.                                *)

\* Call c goes to statement pc, knowing its event and its timeout as before.
Moves(c, pc) ==
  /\ calls' \in [Calls -> CallStates]
  /\ calls'[c].pc = pc
  /\ calls'[c].event = calls[c].event
  /\ calls'[c].late = calls[c].late
  /\ \A d \in Calls \ {c} : calls'[d] = calls[d]

\* A handler only goes to a statement of its own.
OwnStatement(c, pc) == pc \in Handling => pc \in Statements(EventOf(c))

LEMMA GotoMoves ==
  ASSUME TypeOK, NEW c \in Calls, NEW pc \in CallPcs, Goto(c, pc)
  PROVE  Moves(c, pc) /\ calls'[c].report = calls[c].report
BY DEF TypeOK, Goto, Moves, CallStates

\* The same for a statement that reads a subscription into the locals.
LEMMA FetchMoves ==
  ASSUME TypeOK, NEW c \in Calls, NEW pc \in CallPcs, NEW s \in CallStates,
         s.pc = pc, s.event = calls[c].event, s.late = calls[c].late,
         calls' = [calls EXCEPT ![c] = s]
  PROVE  Moves(c, pc) /\ calls'[c] = s
<1>1. calls \in [Calls -> CallStates]
  BY DEF TypeOK
<1>2. QED
  BY <1>1 DEF Moves

LEMMA PcsAre == Handling \subseteq Claimed /\ Claimed \subseteq CallPcs /\ Ended \subseteq CallPcs
BY DEF Claimed, CallPcs

LEMMA TypesAre == \A e \in Events : Type(e) \in EventTypes
                                      /\ Payload[e].invoice \in Invoices
                                      /\ Payload[e].report \in Reports
                                      /\ Payload[e].refunded \in 0 .. Price
BY PayloadAssumption DEF Type

\* A delivery enters its handler at one of its statements, or at its end.
LEMMA EntryOwn ==
  ASSUME NEW e \in Events
  PROVE  Entry[Type(e)] \in Claimed
           /\ (Entry[Type(e)] \in Handling => Entry[Type(e)] \in Statements(e))
           /\ Entry[Type(e)] \notin {"upsert", "signal", "schedule", "revenue", "refund",
                                     "reverse", "fail"}
           /\ (Entry[Type(e)] = "mark" => Type(e) = "other")
<1>1. Type(e) \in EventTypes
  BY TypesAre
<1>2. CASE Type(e) = "checkout.session.completed"
  BY <1>1, <1>2 DEF Entry, EventTypes, Statements, Claimed, Handling
<1>3. CASE Type(e) = "customer.subscription.updated"
  BY <1>1, <1>3 DEF Entry, EventTypes, Statements, Claimed, Handling
<1>4. CASE Type(e) = "customer.subscription.deleted"
  BY <1>1, <1>4 DEF Entry, EventTypes, Statements, Claimed, Handling
<1>5. CASE Type(e) = "invoice.paid"
  BY <1>1, <1>5 DEF Entry, EventTypes, Statements, Claimed, Handling
<1>6. CASE Type(e) = "invoice.payment_failed"
  BY <1>1, <1>6 DEF Entry, EventTypes, Statements, Claimed, Handling
<1>7. CASE Type(e) = "charge.refunded"
  BY <1>1, <1>7 DEF Entry, EventTypes, Statements, Claimed, Handling
<1>8. CASE Type(e) = "other"
  BY <1>1, <1>8 DEF Entry, EventTypes, Statements, Claimed, Handling
<1>9. QED
  BY <1>1, <1>2, <1>3, <1>4, <1>5, <1>6, <1>7, <1>8 DEF EventTypes

\* The type of an event follows from the statement its handler is at.
LEMMA StatementTypes ==
  ASSUME NEW e \in Events, NEW pc \in Statements(e)
  PROVE  /\ pc \in {"complete", "retrieve"} => Type(e) = "checkout.session.completed"
         /\ pc \in {"prior", "signal", "schedule"} => Type(e) = "customer.subscription.updated"
         /\ pc = "upsert" => Type(e) \in {"checkout.session.completed",
                                          "customer.subscription.updated"}
         /\ pc \in {"cancel", "cancelled"} => Type(e) = "customer.subscription.deleted"
         /\ pc \in {"account", "known", "record", "revenue", "recovery", "recover",
                    "settle", "activate"} => Type(e) = "invoice.paid"
         /\ pc \in {"pastdue", "failure"} => Type(e) = "invoice.payment_failed"
         /\ pc \in {"charge", "refund", "reverse"} => Type(e) = "charge.refunded"
BY TypesAre DEF Statements, EventTypes

-----------------------------------------------------------------------------
\* A statement of a handler leaves the inbox and the locks alone, and goes to
\* the end of the handler or to another of its statements.
LEMMA HandlerStep ==
  ASSUME IInv, NEW c \in Calls, Handle(c) \/ HandlerFails(c)
  PROVE  /\ UNCHANGED <<inbox, locks>>
         /\ calls[c].pc \in Handling
         /\ \E pc \in Claimed :
              /\ Moves(c, pc)
              /\ OwnStatement(c, pc)
              /\ pc \in {"upsert", "signal", "schedule"} => calls'[c].report \in Reports
              /\ calls[c].pc = "revenue" => pc \in {"recovery", "fail"}
              /\ pc = "revenue" => CreatePayment(c)
              /\ pc = "refund" => payments[InvoiceOf(c)] # None
              /\ pc = "reverse" => calls[c].pc = "refund"
              /\ pc = "mark" /\ Type(EventOf(c)) = "customer.subscription.deleted" =>
                   SignalCancelled(c)
<1> DEFINE P(pc) == /\ Moves(c, pc)
                    /\ OwnStatement(c, pc)
                    /\ pc \in {"upsert", "signal", "schedule"} => calls'[c].report \in Reports
                    /\ calls[c].pc = "revenue" => pc \in {"recovery", "fail"}
                    /\ pc = "revenue" => CreatePayment(c)
                    /\ pc = "refund" => payments[InvoiceOf(c)] # None
                    /\ pc = "reverse" => calls[c].pc = "refund"
                    /\ pc = "mark" /\ Type(EventOf(c)) = "customer.subscription.deleted" =>
                         SignalCancelled(c)
<1> SUFFICES /\ UNCHANGED <<inbox, locks>> /\ calls[c].pc \in Handling
             /\ \E pc \in Claimed : P(pc)
  OBVIOUS
<1>1. TypeOK /\ EventOK(c)
  BY DEF IInv
<1>2. CASE HandlerFails(c)
  <2>1. P("fail")
    BY <1>1, <1>2, GotoMoves DEF HandlerFails, Turn, OwnStatement, Handling, Claimed, CallPcs
  <2>2. QED
    BY <1>2, <2>1 DEF HandlerFails, Turn, Claimed
<1>3. ASSUME NEW pc \in Handling, At(c, pc)
      PROVE  /\ EventOf(c) \in Events
             /\ calls[c].pc \in Handling
             /\ pc \in Statements(EventOf(c))
  BY <1>1, <1>3 DEF EventOK, At, TypeOK, CallStates, EventOf, Handling
<1>4. ASSUME NEW pc \in Claimed, Goto(c, pc) PROVE Moves(c, pc) /\ calls'[c].report = calls[c].report
  BY <1>1, <1>4, GotoMoves, PcsAre
<1>5. CASE CompleteCheckout(c)
  <2>1. At(c, "complete") /\ EventOf(c) \in Events /\ "complete" \in Statements(EventOf(c))
    BY <1>3, <1>5 DEF CompleteCheckout, Runs, Handling
  <2>2. P("retrieve")
    BY <1>1, <1>5, <1>4, <2>1, StatementTypes DEF CompleteCheckout, Turn, At, OwnStatement, Statements, Handling, Claimed
  <2>3. QED
    BY <1>3, <1>5, <2>1, <2>2 DEF CompleteCheckout, Turn, tables, Claimed, Handling
<1>6. CASE RetrieveSubscription(c)
  <2>1. At(c, "retrieve") /\ EventOf(c) \in Events /\ "retrieve" \in Statements(EventOf(c))
    BY <1>3, <1>6 DEF RetrieveSubscription, Runs, Handling
  <2>2. Moves(c, "upsert") /\ calls'[c].report \in Reports
    <3>0. /\ calls[c] \in CallStates /\ subscription \in Reports \cup {None}
          /\ "upsert" \in CallPcs
      BY <1>1 DEF TypeOK, CallPcs, Claimed, Handling
    <3>e. PICK e \in Events :
            calls' = [calls EXCEPT ![c].pc = "upsert", ![c].report = Payload[e].report]
      BY <1>6 DEF RetrieveSubscription
    <3> DEFINE s == [calls[c] EXCEPT !.pc = "upsert", !.report = Payload[e].report]
    <3>1. calls' = [calls EXCEPT ![c] = s]
      BY <1>6, <3>e DEF RetrieveSubscription, PayloadOf
    <3>2. s \in CallStates /\ s.pc = "upsert" /\ s.event = calls[c].event /\ s.late = calls[c].late
      BY <2>1, <3>0, TypesAre DEF CallStates, PayloadOf
    <3>3. s.report \in Reports
      BY <2>1, <3>0, TypesAre DEF CallStates, PayloadOf
    <3> HIDE DEF s
    <3>4. QED
      BY <1>1, <3>0, <3>1, <3>2, <3>3, FetchMoves
  <2>3. P("upsert")
    BY <2>1, <2>2, StatementTypes DEF At, OwnStatement, Statements
  <2>4. QED
    BY <1>3, <1>6, <2>1, <2>3 DEF RetrieveSubscription, tables, Claimed, Handling
<1>7. CASE ReadPrior(c)
  <2>1. At(c, "prior") /\ EventOf(c) \in Events /\ "prior" \in Statements(EventOf(c))
    BY <1>3, <1>7 DEF ReadPrior, Runs, Handling
  <2>2. Moves(c, "upsert") /\ calls'[c].report \in Reports
    <3>0. /\ calls[c] \in CallStates /\ subscription \in Reports \cup {None}
          /\ "upsert" \in CallPcs
      BY <1>1 DEF TypeOK, CallPcs, Claimed, Handling
    <3> DEFINE s == [calls[c] EXCEPT !.pc = "upsert", !.prior = subscription, !.report = PayloadOf(c).report]
    <3>1. calls' = [calls EXCEPT ![c] = s]
      BY <1>7 DEF ReadPrior, PayloadOf
    <3>2. s \in CallStates /\ s.pc = "upsert" /\ s.event = calls[c].event /\ s.late = calls[c].late
      BY <2>1, <3>0, TypesAre DEF CallStates, PayloadOf
    <3>3. s.report \in Reports
      BY <2>1, <3>0, TypesAre DEF CallStates, PayloadOf
    <3> HIDE DEF s
    <3>4. QED
      BY <1>1, <3>0, <3>1, <3>2, <3>3, FetchMoves
  <2>3. P("upsert")
    BY <2>1, <2>2, StatementTypes DEF At, OwnStatement, Statements
  <2>4. QED
    BY <1>3, <1>7, <2>1, <2>3 DEF ReadPrior, tables, Claimed, Handling
<1>8. CASE UpsertSubscription(c)
  <2>1. At(c, "upsert") /\ EventOf(c) \in Events /\ "upsert" \in Statements(EventOf(c))
    BY <1>3, <1>8 DEF UpsertSubscription, Runs, Handling
  <2>2. \E pc \in {"mark", "signal"} : P(pc)
    BY <1>1, <1>8, <1>4, <2>1, StatementTypes DEF UpsertSubscription, Turn, At, OwnStatement, Statements, Handling, Claimed, EventOK
  <2>3. QED
    BY <1>3, <1>8, <2>1, <2>2 DEF UpsertSubscription, Turn, tables, Claimed, Handling
<1>9. CASE SignalPastDue(c)
  <2>1. At(c, "signal") /\ EventOf(c) \in Events /\ "signal" \in Statements(EventOf(c))
    BY <1>3, <1>9 DEF SignalPastDue, Runs, Handling
  <2>2. P("schedule")
    BY <1>1, <1>9, <1>4, <2>1, StatementTypes DEF SignalPastDue, Turn, At, OwnStatement, Statements, Handling, Claimed, EventOK
  <2>3. QED
    BY <1>3, <1>9, <2>1, <2>2 DEF SignalPastDue, Turn, tables, Claimed, Handling
<1>10. CASE SignalCancellation(c)
  <2>1. At(c, "schedule") /\ EventOf(c) \in Events /\ "schedule" \in Statements(EventOf(c))
    BY <1>3, <1>10 DEF SignalCancellation, Runs, Handling
  <2>2. P("mark")
    BY <1>1, <1>10, <1>4, <2>1, StatementTypes DEF SignalCancellation, Turn, At, OwnStatement, Statements, Handling, Claimed
  <2>3. QED
    BY <1>3, <1>10, <2>1, <2>2 DEF SignalCancellation, Turn, tables, Claimed, Handling
<1>11. CASE CancelSubscription(c)
  <2>1. At(c, "cancel") /\ EventOf(c) \in Events /\ "cancel" \in Statements(EventOf(c))
    BY <1>3, <1>11 DEF CancelSubscription, Runs, Handling
  <2>2. P("cancelled")
    BY <1>1, <1>11, <1>4, <2>1, StatementTypes DEF CancelSubscription, Turn, At, OwnStatement, Statements, Handling, Claimed
  <2>3. QED
    BY <1>3, <1>11, <2>1, <2>2 DEF CancelSubscription, Turn, tables, Claimed, Handling
<1>12. CASE SignalCancelled(c)
  <2>1. At(c, "cancelled") /\ EventOf(c) \in Events /\ "cancelled" \in Statements(EventOf(c))
    BY <1>3, <1>12 DEF SignalCancelled, Runs, Handling
  <2>2. P("mark")
    BY <1>1, <1>12, <1>4, <2>1, StatementTypes DEF SignalCancelled, Turn, At, OwnStatement, Statements, Handling, Claimed
  <2>3. QED
    BY <1>3, <1>12, <2>1, <2>2 DEF SignalCancelled, Turn, tables, Claimed, Handling
<1>13. CASE FindAccount(c)
  <2>1. At(c, "account") /\ EventOf(c) \in Events /\ "account" \in Statements(EventOf(c))
    BY <1>3, <1>13 DEF FindAccount, Runs, Handling
  <2>2. Moves(c, "known")
    <3>0. /\ calls[c] \in CallStates /\ subscription \in Reports \cup {None}
          /\ "known" \in CallPcs
      BY <1>1 DEF TypeOK, CallPcs, Claimed, Handling
    <3> DEFINE s == [calls[c] EXCEPT !.pc = "known", !.prior = subscription]
    <3>1. calls' = [calls EXCEPT ![c] = s]
      BY <1>13 DEF FindAccount, PayloadOf
    <3>2. s \in CallStates /\ s.pc = "known" /\ s.event = calls[c].event /\ s.late = calls[c].late
      BY <2>1, <3>0, TypesAre DEF CallStates, PayloadOf
    <3> HIDE DEF s
    <3>4. QED
      BY <1>1, <3>0, <3>1, <3>2, FetchMoves
  <2>3. P("known")
    BY <2>1, <2>2, StatementTypes DEF At, OwnStatement, Statements
  <2>4. QED
    BY <1>3, <1>13, <2>1, <2>3 DEF FindAccount, tables, Claimed, Handling
<1>14. CASE FindPayment(c)
  <2>1. At(c, "known") /\ EventOf(c) \in Events /\ "known" \in Statements(EventOf(c))
    BY <1>3, <1>14 DEF FindPayment, Runs, Handling
  <2>2. \E pc \in {"record", "activate"} : P(pc)
    BY <1>1, <1>14, <1>4, <2>1, StatementTypes DEF FindPayment, Turn, At, OwnStatement, Statements, Handling, Claimed
  <2>3. QED
    BY <1>3, <1>14, <2>1, <2>2 DEF FindPayment, Turn, tables, Claimed, Handling
<1>15. CASE CreatePayment(c)
  <2>1. At(c, "record") /\ EventOf(c) \in Events /\ "record" \in Statements(EventOf(c))
    BY <1>3, <1>15 DEF CreatePayment, Runs, Handling
  <2>2. \E pc \in {"revenue", "fail"} : P(pc)
    BY <1>1, <1>15, <1>4, <2>1, StatementTypes DEF CreatePayment, Turn, At, OwnStatement, Statements, Handling, Claimed
  <2>3. QED
    BY <1>3, <1>15, <2>1, <2>2 DEF CreatePayment, Turn, tables, Claimed, Handling
<1>16. CASE AddRevenue(c)
  <2>1. At(c, "revenue") /\ EventOf(c) \in Events /\ "revenue" \in Statements(EventOf(c))
    BY <1>3, <1>16 DEF AddRevenue, Runs, Handling
  <2>2. P("recovery")
    BY <1>1, <1>16, <1>4, <2>1, StatementTypes DEF AddRevenue, Turn, At, OwnStatement, Statements, Handling, Claimed
  <2>3. QED
    BY <1>3, <1>16, <2>1, <2>2 DEF AddRevenue, Turn, tables, Claimed, Handling
<1>17. CASE FindFailing(c)
  <2>1. At(c, "recovery") /\ EventOf(c) \in Events /\ "recovery" \in Statements(EventOf(c))
    BY <1>3, <1>17 DEF FindFailing, Runs, Handling
  <2>2. \E pc \in {"recover", "settle"} : P(pc)
    BY <1>1, <1>17, <1>4, <2>1, StatementTypes DEF FindFailing, Turn, At, OwnStatement, Statements, Handling, Claimed
  <2>3. QED
    BY <1>3, <1>17, <2>1, <2>2 DEF FindFailing, Turn, tables, Claimed, Handling
<1>18. CASE ResolveFailing(c)
  <2>1. At(c, "recover") /\ EventOf(c) \in Events /\ "recover" \in Statements(EventOf(c))
    BY <1>3, <1>18 DEF ResolveFailing, Runs, Handling
  <2>2. P("settle")
    BY <1>1, <1>18, <1>4, <2>1, StatementTypes DEF ResolveFailing, Turn, At, OwnStatement, Statements, Handling, Claimed
  <2>3. QED
    BY <1>3, <1>18, <2>1, <2>2 DEF ResolveFailing, Turn, tables, Claimed, Handling
<1>19. CASE SettleCheckout(c)
  <2>1. At(c, "settle") /\ EventOf(c) \in Events /\ "settle" \in Statements(EventOf(c))
    BY <1>3, <1>19 DEF SettleCheckout, Runs, Handling
  <2>2. P("activate")
    BY <1>1, <1>19, <1>4, <2>1, StatementTypes DEF SettleCheckout, Turn, At, OwnStatement, Statements, Handling, Claimed
  <2>3. QED
    BY <1>3, <1>19, <2>1, <2>2 DEF SettleCheckout, Turn, tables, Claimed, Handling
<1>20. CASE Activate(c)
  <2>1. At(c, "activate") /\ EventOf(c) \in Events /\ "activate" \in Statements(EventOf(c))
    BY <1>3, <1>20 DEF Activate, Runs, Handling
  <2>2. P("mark")
    BY <1>1, <1>20, <1>4, <2>1, StatementTypes DEF Activate, Turn, At, OwnStatement, Statements, Handling, Claimed
  <2>3. QED
    BY <1>3, <1>20, <2>1, <2>2 DEF Activate, Turn, tables, Claimed, Handling
<1>21. CASE MarkPastDue(c)
  <2>1. At(c, "pastdue") /\ EventOf(c) \in Events /\ "pastdue" \in Statements(EventOf(c))
    BY <1>3, <1>21 DEF MarkPastDue, Runs, Handling
  <2>2. P("failure")
    BY <1>1, <1>21, <1>4, <2>1, StatementTypes DEF MarkPastDue, Turn, At, OwnStatement, Statements, Handling, Claimed
  <2>3. QED
    BY <1>3, <1>21, <2>1, <2>2 DEF MarkPastDue, Turn, tables, Claimed, Handling
<1>22. CASE SignalFailure(c)
  <2>1. At(c, "failure") /\ EventOf(c) \in Events /\ "failure" \in Statements(EventOf(c))
    BY <1>3, <1>22 DEF SignalFailure, Runs, Handling
  <2>2. P("mark")
    BY <1>1, <1>22, <1>4, <2>1, StatementTypes DEF SignalFailure, Turn, At, OwnStatement, Statements, Handling, Claimed
  <2>3. QED
    BY <1>3, <1>22, <2>1, <2>2 DEF SignalFailure, Turn, tables, Claimed, Handling
<1>23. CASE FindCharge(c)
  <2>1. At(c, "charge") /\ EventOf(c) \in Events /\ "charge" \in Statements(EventOf(c))
    BY <1>3, <1>23 DEF FindCharge, Runs, Handling
  <2>2. \E pc \in {"mark", "refund"} : P(pc)
    BY <1>1, <1>23, <1>4, <2>1, StatementTypes DEF FindCharge, Turn, At, OwnStatement, Statements, Handling, Claimed
  <2>3. QED
    BY <1>3, <1>23, <2>1, <2>2 DEF FindCharge, Turn, tables, Claimed, Handling
<1>24. CASE RecordRefund(c)
  <2>1. At(c, "refund") /\ EventOf(c) \in Events /\ "refund" \in Statements(EventOf(c))
    BY <1>3, <1>24 DEF RecordRefund, Runs, Handling
  <2>2. P("reverse")
    BY <1>1, <1>24, <1>4, <2>1, StatementTypes DEF RecordRefund, Turn, At, OwnStatement, Statements, Handling, Claimed
  <2>3. QED
    BY <1>3, <1>24, <2>1, <2>2 DEF RecordRefund, Turn, tables, Claimed, Handling
<1>25. CASE AddReversal(c)
  <2>1. At(c, "reverse") /\ EventOf(c) \in Events /\ "reverse" \in Statements(EventOf(c))
    BY <1>3, <1>25 DEF AddReversal, Runs, Handling
  <2>2. P("mark")
    BY <1>1, <1>25, <1>4, <2>1, StatementTypes DEF AddReversal, Turn, At, OwnStatement, Statements, Handling, Claimed
  <2>3. QED
    BY <1>3, <1>25, <2>1, <2>2 DEF AddReversal, Turn, tables, Claimed, Handling
<1>26. QED
  BY <1>2, <1>5, <1>6, <1>7, <1>8, <1>9, <1>10, <1>11, <1>12, <1>13, <1>14, <1>15, <1>16, <1>17, <1>18, <1>19, <1>20, <1>21, <1>22, <1>23, <1>24, <1>25 DEF Handle

-----------------------------------------------------------------------------
(* Types.                                                                  *)

TablesOK ==
  /\ checkout \in {"CREATED", "COMPLETED"}
  /\ subscription \in Reports \cup {None}
  /\ payments \in [Invoices -> PaymentRows \cup {None}]
  /\ ledger \subseteq LedgerRows
  /\ signals \subseteq (Calls \cup {None}) \X SignalTypes

\* The tables keep their types: one step per statement that writes one.
LEMMA TablesTyped ==
  ASSUME IInv, NEW c \in Calls, Handle(c)
  PROVE  TablesOK'
<1>1. TypeOK /\ TablesOK /\ EventOK(c) /\ ProgressOK(c)
  BY DEF IInv, TypeOK, TablesOK
<1>2. /\ EventOf(c) \in Events
      /\ InvoiceOf(c) \in Invoices
      /\ PayloadOf(c).refunded \in 0 .. Price
  BY <1>1, HandlerStep, TypesAre DEF EventOK, At, TypeOK, CallStates, EventOf, InvoiceOf, PayloadOf,
     Handling
<1>3. ASSUME NEW t \in SignalTypes, CreateSignal(c, t)
      PROVE  signals' \subseteq (Calls \cup {None}) \X SignalTypes
  BY <1>1, <1>3 DEF CreateSignal, TablesOK
<1>4. ASSUME NEW T, ResolveSignals(T)
      PROVE  signals' \subseteq (Calls \cup {None}) \X SignalTypes
  BY <1>1, <1>4 DEF ResolveSignals, TablesOK
<1>5. ASSUME NEW t \in Statuses, SetStatus(t)
      PROVE  subscription' \in Reports \cup {None}
  BY <1>1, <1>5 DEF SetStatus, TablesOK, Reports
<1>6. CASE \/ RetrieveSubscription(c) \/ ReadPrior(c) \/ FindAccount(c)
           \/ FindPayment(c) \/ FindFailing(c) \/ FindCharge(c)
  BY <1>1, <1>6 DEF RetrieveSubscription, ReadPrior, FindAccount, FindPayment,
     FindFailing, FindCharge, Turn, tables, TablesOK
<1>7. CASE CompleteCheckout(c)
  BY <1>1, <1>7 DEF CompleteCheckout, TablesOK
<1>8. CASE UpsertSubscription(c)
  BY <1>1, <1>8 DEF UpsertSubscription, Runs, At, EventOK, TablesOK
<1>9. CASE SignalPastDue(c)
  BY <1>1, <1>3, <1>9 DEF SignalPastDue, TablesOK, SignalTypes
<1>10. CASE SignalCancellation(c)
  BY <1>1, <1>3, <1>4, <1>10 DEF SignalCancellation, TablesOK, SignalTypes
<1>11. CASE CancelSubscription(c)
  BY <1>1, <1>5, <1>11 DEF CancelSubscription, TablesOK, Statuses
<1>12. CASE SignalCancelled(c)
  BY <1>1, <1>3, <1>12 DEF SignalCancelled, TablesOK, SignalTypes
<1>13. CASE CreatePayment(c)
  <2>1. [maker |-> c, refunded |-> 0] \in PaymentRows
    BY AmountAssumption DEF PaymentRows
  <2>2. QED
    BY <1>1, <1>2, <1>13, <2>1 DEF CreatePayment, TablesOK
<1>14. CASE AddRevenue(c)
  <2>1. LedgerRow(c, "PAID", EventOf(c), Price) \in LedgerRows
    BY <1>2, AmountAssumption DEF LedgerRow, LedgerRows, InvoiceOf, PayloadOf
  <2>2. QED
    BY <1>1, <1>14, <2>1 DEF AddRevenue, TablesOK
<1>15. CASE ResolveFailing(c) \/ SettleCheckout(c)
  BY <1>1, <1>4, <1>15 DEF ResolveFailing, SettleCheckout, TablesOK
<1>16. CASE Activate(c)
  BY <1>1, <1>5, <1>16 DEF Activate, TablesOK, Statuses
<1>17. CASE MarkPastDue(c)
  BY <1>1, <1>5, <1>17 DEF MarkPastDue, TablesOK, Statuses
<1>18. CASE SignalFailure(c)
  BY <1>1, <1>3, <1>18 DEF SignalFailure, TablesOK, SignalTypes
<1>19. CASE RecordRefund(c)
  <2>1. payments[InvoiceOf(c)] # None
    BY <1>1, <1>19 DEF RecordRefund, Runs, At, ProgressOK
  <2>2. [payments[InvoiceOf(c)] EXCEPT !.refunded = PayloadOf(c).refunded] \in PaymentRows
    BY <1>1, <1>2, <2>1 DEF TablesOK, PaymentRows
  <2>3. payments' = [payments EXCEPT ![InvoiceOf(c)] =
                       [payments[InvoiceOf(c)] EXCEPT !.refunded = PayloadOf(c).refunded]]
    BY <1>19 DEF RecordRefund
  <2>4. QED
    BY <1>1, <1>19, <2>2, <2>3 DEF RecordRefund, TablesOK
<1>20. CASE AddReversal(c)
  <2>1. -PayloadOf(c).refunded \in -Price .. Price
    BY <1>2, AmountAssumption
  <2>2. LedgerRow(c, "REFUNDED", EventOf(c), -PayloadOf(c).refunded) \in LedgerRows
    BY <1>2, <2>1 DEF LedgerRow, LedgerRows, InvoiceOf, PayloadOf
  <2>3. QED
    BY <1>1, <1>20, <2>2 DEF AddReversal, TablesOK
<1>21. QED
  BY <1>6, <1>7, <1>8, <1>9, <1>10, <1>11, <1>12, <1>13, <1>14, <1>15, <1>16, <1>17,
     <1>18, <1>19, <1>20 DEF Handle

\* The statements around the handler: what each does to the call, the inbox
\* and the locks.
LEMMA TransactionStep ==
  ASSUME IInv, NEW c \in Calls
  PROVE  /\ OpenTransaction(c) => At(c, "begin") /\ Moves(c, "lock") /\ UNCHANGED <<inbox, locks, tables>>
         /\ NoTransaction(c) => At(c, "begin") /\ Moves(c, "error") /\ UNCHANGED <<inbox, locks, tables>>
         /\ Skip(c) => At(c, "lock") /\ Moves(c, "skipped") /\ UNCHANGED <<inbox, locks, tables>>
         /\ WaitTooLong(c) => At(c, "lock") /\ Moves(c, "error") /\ UNCHANGED <<inbox, locks, tables>>
         /\ MarkTooLate(c) => Moves(c, "error") /\ UNCHANGED <<inbox, locks, tables>>
         /\ MarkProcessed(c) => Moves(c, "done") /\ UNCHANGED tables
         /\ MarkFailed(c) => Moves(c, "failed") /\ UNCHANGED tables
         /\ Crash(c) => Moves(c, "crashed") /\ UNCHANGED tables
         /\ Claim(c) => /\ EventOf(c) \in Events
                        /\ Moves(c, Entry[Type(EventOf(c))])
                        /\ UNCHANGED tables
<1>1. TypeOK /\ EventOK(c)
  BY DEF IInv
<1>2. ASSUME NEW pc \in CallPcs, Goto(c, pc) PROVE Moves(c, pc)
  BY <1>1, <1>2, GotoMoves
<1>3. OpenTransaction(c) => At(c, "begin") /\ Moves(c, "lock") /\ UNCHANGED <<inbox, locks, tables>>
  BY <1>2 DEF OpenTransaction, Turn, CallPcs
<1>4. NoTransaction(c) => At(c, "begin") /\ Moves(c, "error") /\ UNCHANGED <<inbox, locks, tables>>
  BY <1>2 DEF NoTransaction, Turn, CallPcs, Ended
<1>5. Skip(c) => At(c, "lock") /\ Moves(c, "skipped") /\ UNCHANGED <<inbox, locks, tables>>
  BY <1>2 DEF Skip, LockGranted, Turn, CallPcs, Ended
<1>6. WaitTooLong(c) => At(c, "lock") /\ Moves(c, "error") /\ UNCHANGED <<inbox, locks, tables>>
  BY <1>2 DEF WaitTooLong, LockGranted, Turn, CallPcs, Ended
<1>7. MarkTooLate(c) => Moves(c, "error") /\ UNCHANGED <<inbox, locks, tables>>
  BY <1>2 DEF MarkTooLate, Turn, CallPcs, Ended
<1>8. MarkProcessed(c) => Moves(c, "done") /\ UNCHANGED tables
  BY <1>2 DEF MarkProcessed, CallPcs, Ended
<1>9. MarkFailed(c) => Moves(c, "failed") /\ UNCHANGED tables
  BY <1>2 DEF MarkFailed, CallPcs, Ended
<1>10. Crash(c) => Moves(c, "crashed") /\ UNCHANGED tables
  BY <1>2 DEF Crash, CallPcs, Ended
<1>11. ASSUME Claim(c)
       PROVE  EventOf(c) \in Events /\ Moves(c, Entry[Type(EventOf(c))]) /\ UNCHANGED tables
  <2>1. EventOf(c) \in Events
    BY <1>1, <1>11 DEF Claim, LockGranted, EventOK, At, TypeOK, CallStates, EventOf
  <2>2. Entry[Type(EventOf(c))] \in CallPcs
    BY <2>1, EntryOwn DEF CallPcs
  <2>3. QED
    BY <1>2, <1>11, <2>1, <2>2 DEF Claim
<1>12. QED
  BY <1>3, <1>4, <1>5, <1>6, <1>7, <1>8, <1>9, <1>10, <1>11

\* The steps there are.
LEMMA Steps ==
  ASSUME [Next]_vars
  PROVE  \/ UNCHANGED vars
         \/ \E c \in Calls :
              \/ \E e \in Events : Deliver(c, e)
              \/ OpenTransaction(c) \/ NoTransaction(c) \/ Skip(c) \/ WaitTooLong(c)
              \/ MarkTooLate(c)
              \/ Claim(c) \/ Timeout(c) \/ MarkProcessed(c) \/ MarkFailed(c) \/ Crash(c)
              \/ Handle(c) \/ HandlerFails(c)
BY DEF Next, Proceed, Disturb

LEMMA TypeStep == IInv /\ [Next]_vars => TypeOK'
<1> SUFFICES ASSUME IInv, [Next]_vars PROVE TypeOK'
  OBVIOUS
<1>1. TypeOK
  BY DEF IInv
<1>2. CASE UNCHANGED vars
  BY <1>1, <1>2 DEF TypeOK, vars, tables
<1>3. ASSUME NEW c \in Calls, NEW e \in Events, Deliver(c, e) PROVE TypeOK'
  <2>1. calls' \in [Calls -> CallStates]
    <3> DEFINE s == [calls[c] EXCEPT !.pc = "begin", !.event = e]
    <3>1. calls \in [Calls -> CallStates] /\ "begin" \in CallPcs
      BY <1>1 DEF TypeOK, CallPcs
    <3>2. s \in CallStates
      BY <3>1 DEF CallStates
    <3>3. calls' = [calls EXCEPT ![c] = s]
      BY <1>3 DEF Deliver
    <3>4. QED
      BY <3>1, <3>2, <3>3
  <2>2. QED
    BY <1>1, <1>3, <2>1 DEF TypeOK, Deliver, tables
<1>4. ASSUME NEW c \in Calls,
             \/ OpenTransaction(c) \/ NoTransaction(c) \/ Skip(c) \/ WaitTooLong(c)
             \/ MarkTooLate(c)
      PROVE  TypeOK'
  BY <1>1, <1>4, TransactionStep DEF TypeOK, Moves, tables
<1>5. ASSUME NEW c \in Calls, Claim(c) PROVE TypeOK'
  BY <1>1, <1>5, TransactionStep DEF TypeOK, Moves, tables, Claim
<1>6. ASSUME NEW c \in Calls, Timeout(c) PROVE TypeOK'
  <2>1. calls' \in [Calls -> CallStates]
    <3>1. calls \in [Calls -> CallStates] /\ [calls[c] EXCEPT !.late = TRUE] \in CallStates
      BY <1>1 DEF TypeOK, CallStates
    <3>2. calls' = [calls EXCEPT ![c] = [calls[c] EXCEPT !.late = TRUE]]
      BY <1>6 DEF Timeout
    <3>3. QED
      BY <3>1, <3>2
  <2>2. QED
    BY <1>1, <1>6, <2>1 DEF TypeOK, Timeout, Unlock, tables
<1>7. ASSUME NEW c \in Calls, MarkProcessed(c) \/ MarkFailed(c) PROVE TypeOK'
  BY <1>1, <1>7, TransactionStep DEF TypeOK, Moves, tables, MarkProcessed, MarkFailed, Unlock
<1>8. ASSUME NEW c \in Calls, Crash(c) PROVE TypeOK'
  BY <1>1, <1>8, TransactionStep DEF TypeOK, Moves, tables, Crash
<1>9. ASSUME NEW c \in Calls, Handle(c) PROVE TypeOK'
  BY <1>1, <1>9, HandlerStep, TablesTyped DEF TypeOK, TablesOK, Moves
<1>10. ASSUME NEW c \in Calls, HandlerFails(c) PROVE TypeOK'
  BY <1>1, <1>10, HandlerStep DEF TypeOK, Moves, HandlerFails, Turn, tables
<1>11. QED
  BY <1>2, <1>3, <1>4, <1>5, <1>6, <1>7, <1>8, <1>9, <1>10, Steps

-----------------------------------------------------------------------------
(* Events, locks and marks.                                                *)

LEMMA EventMoves ==
  ASSUME IInv, NEW c \in Calls, NEW pc \in CallPcs \ {"idle"}, ~At(c, "idle"),
         Moves(c, pc), OwnStatement(c, pc),
         pc \in {"upsert", "signal", "schedule"} => calls'[c].report \in Reports
  PROVE  \A d \in Calls : EventOK(d)'
<1>1. ASSUME NEW d \in Calls PROVE EventOK(d)
  BY DEF IInv
<1>2. EventOK(c)'
  BY <1>1 DEF EventOK, Moves, OwnStatement, At, EventOf
<1>3. ASSUME NEW d \in Calls \ {c} PROVE EventOK(d)'
  BY <1>1, <1>3 DEF EventOK, Moves, At, EventOf
<1>4. QED
  BY <1>2, <1>3

LEMMA EventStep == IInv /\ [Next]_vars => \A c \in Calls : EventOK(c)'
<1> SUFFICES ASSUME IInv, [Next]_vars PROVE \A c \in Calls : EventOK(c)'
  OBVIOUS
<1>1. TypeOK /\ \A c \in Calls : EventOK(c)
  BY DEF IInv
<1>2. CASE UNCHANGED vars
  BY <1>1, <1>2 DEF EventOK, vars, At, EventOf
<1>3. ASSUME NEW c \in Calls, NEW e \in Events, Deliver(c, e)
      PROVE  \A d \in Calls : EventOK(d)'
  <2>1. calls'[c].pc = "begin" /\ calls'[c].event = e /\ \A d \in Calls \ {c} : calls'[d] = calls[d]
    BY <1>1, <1>3 DEF Deliver, TypeOK, CallStates
  <2>2. EventOK(c)'
    BY <2>1, CallAssumption DEF EventOK, At, EventOf, Handling
  <2>3. QED
    BY <1>1, <2>1, <2>2 DEF EventOK, At, EventOf
<1>4. ASSUME NEW c \in Calls,
             \/ OpenTransaction(c) \/ NoTransaction(c) \/ Skip(c) \/ WaitTooLong(c)
             \/ MarkTooLate(c) \/ MarkProcessed(c) \/ MarkFailed(c) \/ Crash(c)
      PROVE  \A d \in Calls : EventOK(d)'
  <2>1. /\ ~At(c, "idle")
        /\ \E pc \in {"lock", "error", "skipped", "done", "failed", "crashed"} : Moves(c, pc)
    BY <1>4, TransactionStep DEF At, MarkTooLate, MarkProcessed, MarkFailed, Crash, Claimed
  <2>2. PICK pc \in {"lock", "error", "skipped", "done", "failed", "crashed"} : Moves(c, pc)
    BY <2>1
  <2>3. pc \in CallPcs \ {"idle"} /\ OwnStatement(c, pc)
    BY DEF CallPcs, Ended, OwnStatement, Handling
  <2>4. QED
    BY <2>1, <2>2, <2>3, EventMoves
<1>5. ASSUME NEW c \in Calls, Claim(c) PROVE \A d \in Calls : EventOK(d)'
  <2> DEFINE pc == Entry[Type(EventOf(c))]
  <2>1. EventOf(c) \in Events /\ Moves(c, pc) /\ ~At(c, "idle")
    BY <1>5, TransactionStep DEF Claim, LockGranted, At
  <2>2. pc \in CallPcs \ {"idle"} /\ OwnStatement(c, pc) /\ pc \notin {"upsert", "signal", "schedule"}
    BY <2>1, EntryOwn DEF CallPcs, Claimed, OwnStatement, Handling
  <2> HIDE DEF pc
  <2>3. QED
    BY <2>1, <2>2, EventMoves
<1>6. ASSUME NEW c \in Calls, Timeout(c) PROVE \A d \in Calls : EventOK(d)'
  <2>1. \A d \in Calls : /\ calls'[d].pc = calls[d].pc /\ calls'[d].event = calls[d].event
                         /\ calls'[d].report = calls[d].report
    BY <1>1, <1>6 DEF Timeout, TypeOK, CallStates
  <2>2. QED
    BY <1>1, <2>1 DEF EventOK, At, EventOf
<1>7. ASSUME NEW c \in Calls, Handle(c) \/ HandlerFails(c)
      PROVE  \A d \in Calls : EventOK(d)'
  <2>1. PICK pc \in Claimed :
          /\ Moves(c, pc) /\ OwnStatement(c, pc)
          /\ pc \in {"upsert", "signal", "schedule"} => calls'[c].report \in Reports
    BY <1>7, HandlerStep
  <2>2. pc \in CallPcs \ {"idle"} /\ ~At(c, "idle")
    BY <1>7, HandlerStep DEF CallPcs, Claimed, Handling, At
  <2>3. QED
    BY <2>1, <2>2, EventMoves
<1>8. QED
  BY <1>2, <1>3, <1>4, <1>5, <1>6, <1>7, Steps

\* The lock of an event is with the handler of it whose transaction is open,
\* and a processed event is never processed again.
LEMMA HolderStep ==
  IInv /\ [Next]_vars => /\ \A c \in Calls : HolderOK(c)'
                         /\ \A e \in Events : LockOK(e)'
<1> SUFFICES ASSUME IInv, [Next]_vars
             PROVE  (\A c \in Calls : HolderOK(c)') /\ (\A e \in Events : LockOK(e)')
  OBVIOUS
<1> DEFINE Goal == (\A c \in Calls : HolderOK(c)') /\ (\A e \in Events : LockOK(e)')
<1>1. /\ TypeOK
      /\ \A c \in Calls : EventOK(c) /\ HolderOK(c)
      /\ \A e \in Events : LockOK(e)
  BY DEF IInv
<1>2. /\ inbox \in [Events -> {"NEW", "PROCESSED", "FAILED"}]
      /\ locks \in [Events -> Calls \cup {None}] /\ None \notin Calls
      /\ \A c \in Calls : ~At(c, "idle") => EventOf(c) \in Events
  BY <1>1, CallAssumption DEF TypeOK, CallStates, EventOK, EventOf
<1>3. ASSUME UNCHANGED vars PROVE Goal
  BY <1>1, <1>3 DEF HolderOK, LockOK, vars, At, EventOf
<1>4. ASSUME NEW c \in Calls, NEW e \in Events, Deliver(c, e) PROVE Goal
  <2>1. /\ calls'[c].pc = "begin" /\ calls'[c].event = e /\ calls'[c].late = calls[c].late
        /\ \A d \in Calls \ {c} : calls'[d] = calls[d]
        /\ UNCHANGED <<inbox, locks>> /\ calls[c].pc = "idle"
    BY <1>1, <1>4 DEF Deliver, TypeOK, CallStates, At
  <2>2. \A d \in Calls : HolderOK(d)'
    BY <1>1, <2>1 DEF HolderOK, At, EventOf, Claimed, Handling
  <2>3. \A x \in Events : LockOK(x)'
    BY <1>1, <1>2, <2>1 DEF LockOK, EventOf, Claimed, Handling
  <2>4. QED
    BY <2>2, <2>3
<1>5. ASSUME NEW c \in Calls,
             \/ OpenTransaction(c) \/ NoTransaction(c) \/ Skip(c) \/ WaitTooLong(c)
             \/ MarkTooLate(c)
      PROVE  Goal
  <2>1. /\ calls[c].pc \in {"begin", "lock"} \/ calls[c].late
        /\ UNCHANGED <<inbox, locks>>
        /\ \E pc \in {"lock", "error", "skipped"} :
             Moves(c, pc) /\ (pc = "lock" => calls[c].pc = "begin")
    BY <1>5, TransactionStep DEF At, MarkTooLate
  <2>2. PICK pc \in {"lock", "error", "skipped"} :
          Moves(c, pc) /\ (pc = "lock" => calls[c].pc = "begin")
    BY <2>1
  <2>3. \A d \in Calls : HolderOK(d)'
    BY <1>1, <2>1, <2>2 DEF Moves, HolderOK, At, EventOf, Claimed, Handling
  <2>4. \A x \in Events : LockOK(x)'
    BY <1>1, <1>2, <2>1, <2>2 DEF Moves, LockOK, EventOf, Claimed, Handling
  <2>5. QED
    BY <2>3, <2>4
<1>6. ASSUME NEW c \in Calls, Claim(c) PROVE Goal
  <2>1. PICK pc \in Claimed : Moves(c, pc)
    BY <1>6, TransactionStep, EntryOwn
  <2>2. /\ EventOf(c) \in Events /\ locks[EventOf(c)] = None /\ inbox[EventOf(c)] # "PROCESSED"
        /\ locks' = [locks EXCEPT ![EventOf(c)] = c] /\ UNCHANGED inbox
        /\ calls[c].pc = "lock"
    BY <1>6, TransactionStep DEF Claim, LockGranted, AlreadyProcessed, At
  <2>3. \A d \in Calls : HolderOK(d)'
    BY <1>1, <1>2, <2>1, <2>2 DEF Moves, HolderOK, At, EventOf, Claimed, Handling
  <2>4. \A x \in Events : LockOK(x)'
    BY <1>1, <1>2, <2>1, <2>2 DEF Moves, LockOK, HolderOK, EventOf, Claimed, Handling
  <2>5. QED
    BY <2>3, <2>4
<1>7. ASSUME NEW c \in Calls, Timeout(c) PROVE Goal
  <2>1. /\ calls[c].pc \in Claimed /\ ~calls[c].late
        /\ calls'[c].pc = calls[c].pc /\ calls'[c].event = calls[c].event /\ calls'[c].late
        /\ \A d \in Calls \ {c} : calls'[d] = calls[d]
        /\ locks' = [locks EXCEPT ![EventOf(c)] = None] /\ UNCHANGED inbox
    BY <1>1, <1>7 DEF Timeout, Unlock, TypeOK, CallStates
  <2>2. EventOf(c) \in Events /\ locks[EventOf(c)] = c
    BY <1>1, <1>2, <2>1 DEF HolderOK, At, Claimed, Handling
  <2>3. \A d \in Calls : HolderOK(d)'
    BY <1>1, <1>2, <2>1, <2>2 DEF HolderOK, At, EventOf, Claimed, Handling
  <2>4. \A x \in Events : LockOK(x)'
    BY <1>1, <1>2, <2>1, <2>2 DEF LockOK, EventOf
  <2>5. QED
    BY <2>3, <2>4
<1>8. ASSUME NEW c \in Calls, MarkProcessed(c) \/ MarkFailed(c) PROVE Goal
  <2>1. /\ calls[c].pc \in Claimed /\ ~calls[c].late
        /\ locks' = [locks EXCEPT ![EventOf(c)] = None]
        /\ \E st \in {"PROCESSED", "FAILED"} :
             /\ inbox' = [inbox EXCEPT ![EventOf(c)] = st]
             /\ Moves(c, IF st = "PROCESSED" THEN "done" ELSE "failed")
    BY <1>8, TransactionStep DEF MarkProcessed, MarkFailed, Unlock, At, Claimed
  <2>2. EventOf(c) \in Events /\ locks[EventOf(c)] = c /\ inbox[EventOf(c)] # "PROCESSED"
    BY <1>1, <1>2, <2>1 DEF HolderOK, At, Claimed, Handling
  <2>3. \A d \in Calls : HolderOK(d)'
    BY <1>1, <1>2, <2>1, <2>2 DEF Moves, HolderOK, At, EventOf, Claimed, Handling
  <2>4. \A x \in Events : LockOK(x)'
    BY <1>1, <1>2, <2>1, <2>2 DEF Moves, LockOK, EventOf
  <2>5. QED
    BY <2>3, <2>4
<1>9. ASSUME NEW c \in Calls, Crash(c) PROVE Goal
  <2>1. /\ Moves(c, "crashed") /\ UNCHANGED inbox
        /\ locks' = [e \in Events |-> IF locks[e] = c THEN None ELSE locks[e]]
    BY <1>9, TransactionStep DEF Crash, tables
  <2>2. \A d \in Calls : HolderOK(d)'
    BY <1>1, <1>2, <2>1 DEF Moves, HolderOK, At, EventOf, Claimed, Handling
  <2>3. \A x \in Events : LockOK(x)'
    BY <1>1, <1>2, <2>1 DEF Moves, LockOK, EventOf
  <2>4. QED
    BY <2>2, <2>3
<1>10. ASSUME NEW c \in Calls, Handle(c) \/ HandlerFails(c) PROVE Goal
  <2>1. UNCHANGED <<inbox, locks>> /\ calls[c].pc \in Claimed
    BY <1>10, HandlerStep DEF Claimed
  <2>2. PICK pc \in Claimed : Moves(c, pc)
    BY <1>10, HandlerStep
  <2>3. \A d \in Calls : HolderOK(d)'
    BY <1>1, <2>1, <2>2 DEF Moves, HolderOK, At, EventOf, Claimed, Handling
  <2>4. \A x \in Events : LockOK(x)'
    BY <1>1, <1>2, <2>1, <2>2 DEF Moves, LockOK, EventOf
  <2>5. QED
    BY <2>3, <2>4
<1>11. QED
  BY <1>3, <1>4, <1>5, <1>6, <1>7, <1>8, <1>9, <1>10, Steps

-----------------------------------------------------------------------------
(* Payments, the ledger and the signals.                                   *)

\* What a step may do to the tables: a payment is only ever created, once, and
\* keeps its maker; only a refund writes what was given back; the ledger and the signal of a cancellation only grow.
TablesGrow ==
  /\ \A i \in Invoices :
       payments[i] # None => payments'[i] # None /\ payments'[i].maker = payments[i].maker
  /\ \A i \in Invoices :
       payments[i] = None /\ payments'[i] # None =>
         \E c \in Calls : CreatePayment(c) /\ i = InvoiceOf(c) /\ payments'[i].maker = c
  /\ \A i \in Invoices :
       payments'[i] # None /\ payments'[i].refunded > 0 =>
         \/ payments[i] # None /\ payments[i].refunded = payments'[i].refunded
         \/ \E c \in Calls : /\ RecordRefund(c) /\ i = InvoiceOf(c)
                             /\ payments'[i].refunded = PayloadOf(c).refunded
  /\ ledger \subseteq ledger'
  /\ \A r \in ledger' \ ledger :
       \E c \in Calls :
         \/ AddRevenue(c) /\ r = LedgerRow(c, "PAID", EventOf(c), Price)
         \/ AddReversal(c) /\ r = LedgerRow(c, "REFUNDED", EventOf(c), -PayloadOf(c).refunded)
  /\ \A s \in signals : s[2] = "CANCELLATION_COMPLETED" => s \in signals'

LEMMA TableStep == IInv /\ [Next]_vars => TablesGrow
<1> SUFFICES ASSUME IInv, [Next]_vars PROVE TablesGrow
  OBVIOUS
<1>1. TypeOK /\ \A c \in Calls : EventOK(c) /\ ProgressOK(c)
  BY DEF IInv
<1>2. ASSUME UNCHANGED tables PROVE TablesGrow
  BY <1>2 DEF TablesGrow, tables
<1>3. ASSUME NEW c \in Calls, Handle(c) PROVE TablesGrow
  <2>1. EventOf(c) \in Events /\ InvoiceOf(c) \in Invoices
    BY <1>1, <1>3, HandlerStep, TypesAre DEF EventOK, At, TypeOK, CallStates, EventOf,
       InvoiceOf, PayloadOf, Handling
  <2>2. payments \in [Invoices -> PaymentRows \cup {None}] /\ None \notin PaymentRows
    BY <1>1, CallAssumption DEF TypeOK
  <2>3. CASE CreatePayment(c)
    <3>1. UNCHANGED <<ledger, signals>>
      BY <2>3 DEF CreatePayment
    <3>2. CASE payments[InvoiceOf(c)] = None
      <4>1. payments' = [payments EXCEPT ![InvoiceOf(c)] = [maker |-> c, refunded |-> 0]]
        BY <2>3, <3>2 DEF CreatePayment
      <4>2. [maker |-> c, refunded |-> 0] # None
        BY <2>2, AmountAssumption DEF PaymentRows
      <4>3. QED
        BY <2>1, <2>2, <2>3, <3>1, <3>2, <4>1, <4>2 DEF TablesGrow
    <3>3. CASE payments[InvoiceOf(c)] # None
      BY <2>3, <3>1, <3>3 DEF CreatePayment, TablesGrow
    <3>4. QED
      BY <3>2, <3>3
  <2>4. CASE RecordRefund(c)
    <3>1. UNCHANGED <<ledger, signals>> /\ payments[InvoiceOf(c)] # None
      BY <1>1, <2>4 DEF RecordRefund, ProgressOK, Runs, At
    <3>2. payments' = [payments EXCEPT ![InvoiceOf(c)] =
                         [payments[InvoiceOf(c)] EXCEPT !.refunded = PayloadOf(c).refunded]]
      BY <2>4 DEF RecordRefund
    <3>3. payments[InvoiceOf(c)] \in PaymentRows
      BY <2>1, <2>2, <3>1
    <3>4. /\ payments'[InvoiceOf(c)].maker = payments[InvoiceOf(c)].maker
          /\ payments'[InvoiceOf(c)].refunded = PayloadOf(c).refunded
          /\ payments'[InvoiceOf(c)] \in PaymentRows
      <4>1. PayloadOf(c).refunded \in 0 .. Price
        BY <2>1, TypesAre DEF PayloadOf
      <4>2. QED
        BY <2>1, <2>2, <3>2, <3>3, <4>1 DEF PaymentRows
    <3>5. payments'[InvoiceOf(c)] # None
      BY <2>2, <3>4
    <3>6. \A i \in Invoices : i # InvoiceOf(c) => payments'[i] = payments[i]
      BY <2>1, <2>2, <3>2
    <3>7. QED
      BY <2>1, <2>2, <2>4, <3>1, <3>4, <3>5, <3>6 DEF TablesGrow
  <2>5. CASE AddRevenue(c)
    BY <2>5 DEF AddRevenue, TablesGrow
  <2>6. CASE AddReversal(c)
    BY <2>6 DEF AddReversal, TablesGrow
  <2>7. ASSUME NEW t, CreateSignal(c, t), UNCHANGED <<payments, ledger>> PROVE TablesGrow
    BY <2>7 DEF CreateSignal, TablesGrow
  <2>8. ASSUME NEW T, "CANCELLATION_COMPLETED" \notin T, ResolveSignals(T),
               UNCHANGED <<payments, ledger>>
        PROVE  TablesGrow
    BY <2>8 DEF ResolveSignals, TablesGrow
  <2>9. ASSUME UNCHANGED <<payments, ledger, signals>> PROVE TablesGrow
    BY <2>9 DEF TablesGrow
  <2>10. CASE SignalPastDue(c) \/ SignalCancelled(c) \/ SignalFailure(c)
    BY <2>7, <2>9, <2>10 DEF SignalPastDue, SignalCancelled, SignalFailure
  <2>11. CASE ResolveFailing(c) \/ SettleCheckout(c)
    BY <2>8, <2>11 DEF ResolveFailing, SettleCheckout, Failing
  <2>12. CASE SignalCancellation(c)
    BY <2>7, <2>8, <2>9, <2>12 DEF SignalCancellation
  <2>13. CASE \/ CompleteCheckout(c) \/ RetrieveSubscription(c) \/ ReadPrior(c)
              \/ UpsertSubscription(c) \/ CancelSubscription(c) \/ FindAccount(c)
              \/ FindPayment(c) \/ FindFailing(c) \/ Activate(c) \/ MarkPastDue(c)
              \/ FindCharge(c)
    BY <2>9, <2>13 DEF CompleteCheckout, RetrieveSubscription, ReadPrior, UpsertSubscription,
       CancelSubscription, FindAccount, FindPayment, FindFailing, Activate, MarkPastDue,
       FindCharge, Turn, tables
  <2>14. QED
    BY <1>3, <2>3, <2>4, <2>5, <2>6, <2>10, <2>11, <2>12, <2>13 DEF Handle
<1>4. ASSUME NEW c \in Calls, HandlerFails(c) PROVE TablesGrow
  BY <1>2, <1>4 DEF HandlerFails, Turn
<1>5. ASSUME NEW c \in Calls,
             \/ \E e \in Events : Deliver(c, e)
             \/ OpenTransaction(c) \/ NoTransaction(c) \/ Skip(c) \/ WaitTooLong(c)
             \/ MarkTooLate(c)
             \/ Claim(c) \/ Timeout(c) \/ MarkProcessed(c) \/ MarkFailed(c) \/ Crash(c)
      PROVE  TablesGrow
  BY <1>2, <1>5, TransactionStep DEF Deliver, Timeout, tables
<1>6. CASE UNCHANGED vars
  BY <1>2, <1>6 DEF vars, tables
<1>7. QED
  BY <1>3, <1>4, <1>5, <1>6, Steps

\* What a step may do to a call.
CallAdvances(d) ==
  /\ At(d, "idle") => calls'[d].pc \in {"idle", "begin"}
  /\ ~At(d, "idle") => calls'[d].pc # "idle" /\ calls'[d].event = calls[d].event
  /\ Broken(d) => Broken(d)'
  /\ calls[d].pc \in {"mark", "done"} => calls'[d].pc \in {"mark", "done"} \/ Broken(d)'
  /\ At(d, "revenue") => calls'[d].pc = "revenue" \/ Broken(d)' \/ AddRevenue(d)
  /\ calls'[d].pc = "revenue" => At(d, "revenue") \/ CreatePayment(d)
  /\ At(d, "reverse") => calls'[d].pc = "reverse" \/ Broken(d)' \/ AddReversal(d)
  /\ calls'[d].pc \in {"refund", "reverse"} =>
       calls[d].pc \in {"refund", "reverse"} \/ payments[InvoiceOf(d)] # None
  /\ calls'[d].pc \in {"mark", "done"} /\ Type(EventOf(d)) = "customer.subscription.deleted" =>
       calls[d].pc \in {"mark", "done"} \/ SignalCancelled(d)

LEMMA CallStep ==
  ASSUME IInv, [Next]_vars, NEW d \in Calls
  PROVE  CallAdvances(d)
<1>1. TypeOK /\ EventOK(d) /\ HolderOK(d)
  BY DEF IInv
<1>2. ASSUME calls'[d] = calls[d] PROVE CallAdvances(d)
  BY <1>2 DEF CallAdvances, Broken, At
<1>3. ASSUME NEW c \in Calls, \E e \in Events : Deliver(c, e) PROVE CallAdvances(d)
  <2>1. /\ calls'[c].pc = "begin" /\ calls[c].pc = "idle"
        /\ \A x \in Calls \ {c} : calls'[x] = calls[x]
    BY <1>1, <1>3 DEF Deliver, TypeOK, CallStates, At
  <2>2. CASE d = c
    BY <1>1, <2>1, <2>2 DEF CallAdvances, Broken, At, HolderOK
  <2>3. QED
    BY <1>2, <2>1, <2>2
<1>4. ASSUME NEW c \in Calls,
             \/ OpenTransaction(c) \/ NoTransaction(c) \/ Skip(c) \/ WaitTooLong(c)
             \/ MarkTooLate(c) \/ MarkProcessed(c) \/ MarkFailed(c) \/ Crash(c)
      PROVE  CallAdvances(d)
  <2>1. PICK pc \in {"lock", "error", "skipped", "done", "failed", "crashed"} :
          /\ Moves(c, pc)
          /\ pc \in {"lock", "skipped"} => calls[c].pc \in {"begin", "lock"}
          /\ pc = "done" => calls[c].pc = "mark"
          /\ calls[c].pc # "idle"
    BY <1>4, TransactionStep DEF At, MarkTooLate, MarkProcessed, MarkFailed, Crash
  <2>2. CASE d = c
    BY <1>1, <2>1, <2>2 DEF CallAdvances, Moves, Broken, At, HolderOK
  <2>3. QED
    BY <1>2, <2>1, <2>2 DEF Moves
<1>5. ASSUME NEW c \in Calls, Claim(c) PROVE CallAdvances(d)
  <2> DEFINE pc == Entry[Type(EventOf(c))]
  <2>1. EventOf(c) \in Events /\ Moves(c, pc) /\ At(c, "lock")
    BY <1>5, TransactionStep DEF Claim, LockGranted
  <2>2. /\ pc \in Claimed /\ pc \notin {"revenue", "refund", "reverse"}
        /\ pc = "mark" => Type(EventOf(c)) = "other"
    BY <2>1, EntryOwn
  <2> HIDE DEF pc
  <2>3. CASE d = c
    BY <1>1, <2>1, <2>2, <2>3 DEF CallAdvances, Moves, Broken, At, HolderOK, Claimed, Handling
  <2>4. QED
    BY <1>2, <2>1, <2>3 DEF Moves
<1>6. ASSUME NEW c \in Calls, Timeout(c) PROVE CallAdvances(d)
  <2>1. /\ calls'[c].pc = calls[c].pc /\ calls'[c].event = calls[c].event /\ calls'[c].late
        /\ \A x \in Calls \ {c} : calls'[x] = calls[x]
    BY <1>1, <1>6 DEF Timeout, TypeOK, CallStates
  <2>2. CASE d = c
    BY <2>1, <2>2 DEF CallAdvances, Broken, At
  <2>3. QED
    BY <1>2, <2>1, <2>2
<1>7. ASSUME NEW c \in Calls, Handle(c) \/ HandlerFails(c) PROVE CallAdvances(d)
  <2>1. PICK pc \in Claimed :
          /\ Moves(c, pc)
          /\ pc = "revenue" => CreatePayment(c)
          /\ pc = "refund" => payments[InvoiceOf(c)] # None
          /\ pc = "reverse" => calls[c].pc = "refund"
          /\ pc = "mark" /\ Type(EventOf(c)) = "customer.subscription.deleted" =>
               SignalCancelled(c)
    BY <1>7, HandlerStep
  <2>2. calls[c].pc \in Handling
    BY <1>7, HandlerStep
  <2>3. /\ At(c, "revenue") => calls'[c].pc = "fail" \/ AddRevenue(c)
        /\ At(c, "reverse") => calls'[c].pc = "fail" \/ AddReversal(c)
    <3>1. CASE HandlerFails(c)
      BY <1>1, <3>1 DEF HandlerFails, Turn, Goto, TypeOK, CallStates
    <3>2. CASE Handle(c)
      BY <3>2 DEF Handle, Runs, At,
         CompleteCheckout, RetrieveSubscription, ReadPrior, UpsertSubscription,
         SignalPastDue, SignalCancellation, CancelSubscription, SignalCancelled,
         FindAccount, FindPayment, CreatePayment, AddRevenue, FindFailing,
         ResolveFailing, SettleCheckout, Activate, MarkPastDue, SignalFailure,
         FindCharge, RecordRefund, AddReversal
    <3>3. QED
      BY <1>7, <3>1, <3>2
  <2>4. CASE d = c
    BY <2>1, <2>2, <2>3, <2>4 DEF CallAdvances, Moves, Broken, At, Claimed, Handling
  <2>5. QED
    BY <1>2, <2>1, <2>4 DEF Moves
<1>8. CASE UNCHANGED vars
  BY <1>2, <1>8 DEF vars
<1>9. QED
  BY <1>3, <1>4, <1>5, <1>6, <1>7, <1>8, Steps

\* Which statement follows one that writes a payment, a row or a signal.
LEMMA Writers ==
  ASSUME IInv, NEW c \in Calls
  PROVE  /\ CreatePayment(c) => At(c, "record") /\ calls'[c].pc \in {"revenue", "fail"}
         /\ CreatePayment(c) /\ calls'[c].pc = "revenue" =>
              payments' = [payments EXCEPT ![InvoiceOf(c)] = [maker |-> c, refunded |-> 0]]
         /\ AddRevenue(c) => At(c, "revenue") /\ calls'[c].pc = "recovery"
         /\ AddReversal(c) => At(c, "reverse") /\ calls'[c].pc = "mark"
         /\ RecordRefund(c) => At(c, "refund") /\ calls'[c].pc = "reverse"
         /\ SignalCancelled(c) /\ Profiled => <<c, "CANCELLATION_COMPLETED">> \in signals'
<1>1. TypeOK
  BY DEF IInv
<1>2. ASSUME NEW pc, Goto(c, pc) PROVE calls'[c].pc = pc
  BY <1>1, <1>2 DEF Goto, TypeOK, CallStates
<1>3. CreatePayment(c) => At(c, "record") /\ calls'[c].pc \in {"revenue", "fail"}
  BY <1>2 DEF CreatePayment, Runs
<1>4. CreatePayment(c) /\ calls'[c].pc = "revenue" =>
        payments' = [payments EXCEPT ![InvoiceOf(c)] = [maker |-> c, refunded |-> 0]]
  BY <1>2 DEF CreatePayment
<1>5. AddRevenue(c) => At(c, "revenue") /\ calls'[c].pc = "recovery"
  BY <1>2 DEF AddRevenue, Runs
<1>6. AddReversal(c) => At(c, "reverse") /\ calls'[c].pc = "mark"
  BY <1>2 DEF AddReversal, Runs
<1>7. RecordRefund(c) => At(c, "refund") /\ calls'[c].pc = "reverse"
  BY <1>2 DEF RecordRefund, Runs
<1>8. SignalCancelled(c) /\ Profiled => <<c, "CANCELLATION_COMPLETED">> \in signals'
  BY DEF SignalCancelled, CreateSignal
<1>9. QED
  BY <1>3, <1>4, <1>5, <1>6, <1>7, <1>8

\* A delivery past its first step has an event of the account, of an invoice.
LEMMA EventKnown ==
  ASSUME IInv, NEW c \in Calls, ~At(c, "idle")
  PROVE  EventOf(c) \in Events /\ InvoiceOf(c) \in Invoices
<1>1. TypeOK /\ EventOK(c)
  BY DEF IInv
<1>2. EventOf(c) \in Events
  BY <1>1 DEF TypeOK, CallStates, EventOK, EventOf
<1>3. QED
  BY <1>2, TypesAre DEF InvoiceOf, PayloadOf

\* A handler that is to add revenue or a reversal finds the payment on record,
\* and the payment of an invoice was recorded for an event of that invoice.
LEMMA PaymentStep ==
  IInv /\ [Next]_vars => /\ \A c \in Calls : ProgressOK(c)'
                         /\ \A i \in Invoices : PaymentOK(i)'
<1> SUFFICES ASSUME IInv, [Next]_vars
             PROVE  (\A c \in Calls : ProgressOK(c)') /\ (\A i \in Invoices : PaymentOK(i)')
  OBVIOUS
<1>1. /\ TypeOK
      /\ \A c \in Calls : EventOK(c) /\ ProgressOK(c)
      /\ \A i \in Invoices : PaymentOK(i)
  BY DEF IInv
<1>2. TablesGrow /\ \A c \in Calls : CallAdvances(c)
  BY TableStep, CallStep
<1>3. \A c \in Calls : EventOK(c)' /\ TypeOK'
  BY EventStep, TypeStep
<1>4. ASSUME NEW c \in Calls, ~At(c, "idle")
      PROVE  /\ EventOf(c)' = EventOf(c) /\ InvoiceOf(c)' = InvoiceOf(c)
             /\ InvoiceOf(c) \in Invoices
  BY <1>2, <1>4, EventKnown DEF CallAdvances, EventOf, InvoiceOf, PayloadOf
<1>5. ASSUME NEW c \in Calls PROVE ProgressOK(c)'
  <2>1. CASE At(c, "idle")
    <3>1. calls'[c].pc \notin {"revenue", "refund", "reverse", "mark", "done"}
      BY <1>2, <2>1 DEF CallAdvances
    <3>2. QED
      BY <3>1 DEF ProgressOK, At
  <2>2. CASE ~At(c, "idle")
    <3>1. ASSUME calls'[c].pc = "revenue"
          PROVE  payments'[InvoiceOf(c)] # None /\ payments'[InvoiceOf(c)].maker = c
      <4>1. CASE At(c, "revenue")
        BY <1>1, <1>2, <1>4, <2>2, <4>1 DEF TablesGrow, ProgressOK
      <4>2. CASE CreatePayment(c)
        <5>1. payments' = [payments EXCEPT ![InvoiceOf(c)] = [maker |-> c, refunded |-> 0]]
          BY <3>1, <4>2, Writers
        <5>2. [maker |-> c, refunded |-> 0] # None
          BY CallAssumption, AmountAssumption DEF PaymentRows
        <5>3. QED
          BY <1>1, <1>4, <2>2, <5>1, <5>2 DEF TypeOK
      <4>3. QED
        BY <1>2, <3>1, <4>1, <4>2 DEF CallAdvances
    <3>2. ASSUME calls'[c].pc \in {"refund", "reverse"}
          PROVE  payments'[InvoiceOf(c)] # None
      BY <1>1, <1>2, <1>4, <2>2, <3>2 DEF CallAdvances, TablesGrow, ProgressOK
    <3>3. ASSUME calls'[c].pc \in {"mark", "done"}, Profiled,
                 Type(EventOf(c)) = "customer.subscription.deleted"
          PROVE  <<c, "CANCELLATION_COMPLETED">> \in signals'
      BY <1>1, <1>2, <3>3, Writers DEF CallAdvances, ProgressOK, FollowedUp, TablesGrow
    <3>4. QED
      BY <1>4, <2>2, <3>1, <3>2, <3>3 DEF ProgressOK, At, FollowedUp
  <2>3. QED
    BY <2>1, <2>2
<1>6. ASSUME NEW i \in Invoices PROVE PaymentOK(i)'
  <2>1. CASE payments[i] # None
    <3>1. payments'[i].maker = payments[i].maker
      BY <1>2, <2>1 DEF TablesGrow
    <3>2. payments[i].maker \in Calls \cup {None}
      BY <1>1, <2>1 DEF TypeOK, PaymentRows
    <3>3. QED
      BY <1>1, <1>2, <1>4, <2>1, <3>1, <3>2 DEF PaymentOK, CallAdvances, At
  <2>2. CASE payments[i] = None /\ payments'[i] # None
    <3>1. PICK c \in Calls : CreatePayment(c) /\ i = InvoiceOf(c) /\ payments'[i].maker = c
      BY <1>2, <2>2 DEF TablesGrow
    <3>2. ~At(c, "idle")
      BY <3>1, Writers DEF At
    <3>3. QED
      BY <1>2, <1>4, <3>1, <3>2 DEF PaymentOK, CallAdvances, At
  <2>3. CASE payments[i] = None /\ payments'[i] = None
    BY <2>3 DEF PaymentOK
  <2>4. QED
    BY <2>1, <2>2, <2>3
<1>7. QED
  BY <1>5, <1>6

\* The rows of the ledger stay the ones of payments on record and of refunds.
LEMMA RowStep == IInv /\ [Next]_vars => \A r \in ledger' : RowOK(r)'
<1> SUFFICES ASSUME IInv, [Next]_vars, NEW r \in ledger' PROVE RowOK(r)'
  OBVIOUS
<1>1. /\ TypeOK
      /\ \A c \in Calls : ProgressOK(c)
      /\ \A i \in Invoices : PaymentOK(i)
  BY DEF IInv
<1>2. TablesGrow /\ \A c \in Calls : CallAdvances(c)
  BY TableStep, CallStep
<1>3. CASE r \in ledger
  <2>1. RowOK(r) /\ r.invoice \in Invoices
    BY <1>1, <1>3 DEF IInv, TypeOK, LedgerRows
  <2>2. ASSUME r.kind = "PAID"
        PROVE  payments'[r.invoice] # None /\ r = PaidRow(r.invoice)'
    <3> DEFINE m == payments[r.invoice].maker
    <3>1. payments[r.invoice] # None /\ r = PaidRow(r.invoice)
      BY <2>1, <2>2 DEF RowOK
    <3>2. payments'[r.invoice] # None /\ payments'[r.invoice].maker = m
      BY <1>2, <2>1, <3>1 DEF TablesGrow
    <3>3. CASE m = None
      BY <3>1, <3>2, <3>3 DEF PaidRow
    <3>4. CASE m # None
      <4>1. m \in Calls /\ ~At(m, "idle")
        BY <1>1, <2>1, <3>1, <3>4 DEF TypeOK, PaymentRows, PaymentOK
      <4>2. calls'[m].event = calls[m].event
        BY <1>2, <4>1 DEF CallAdvances
      <4>3. QED
        BY <3>1, <3>2, <3>4, <4>2 DEF PaidRow, EventOf
    <3>5. QED
      BY <3>3, <3>4
  <2>3. ASSUME r.kind = "REFUNDED"
        PROVE  /\ r.call \in Calls /\ ~At(r.call, "idle")' /\ r.event = EventOf(r.call)'
               /\ Broken(r.call)' \/ At(r.call, "mark")' \/ At(r.call, "done")'
    <3>1. /\ r.call \in Calls /\ ~At(r.call, "idle") /\ r.event = EventOf(r.call)
          /\ Broken(r.call) \/ At(r.call, "mark") \/ At(r.call, "done")
      BY <2>1, <2>3 DEF RowOK
    <3>2. CallAdvances(r.call)
      BY <1>2, <3>1
    <3>3. QED
      BY <3>1, <3>2 DEF CallAdvances, At, EventOf
  <2>4. QED
    BY <2>2, <2>3 DEF RowOK
<1>4. ASSUME NEW c \in Calls, AddRevenue(c), r = LedgerRow(c, "PAID", EventOf(c), Price)
      PROVE  RowOK(r)'
  <2>1. /\ At(c, "revenue") /\ r.kind = "PAID" /\ r.invoice = InvoiceOf(c)
        /\ payments[InvoiceOf(c)] # None /\ payments[InvoiceOf(c)].maker = c
    BY <1>1, <1>4, Writers DEF ProgressOK, LedgerRow, InvoiceOf, PayloadOf
  <2>2. InvoiceOf(c) \in Invoices
    BY <2>1, EventKnown DEF At
  <2>3. /\ payments'[r.invoice] # None /\ payments'[r.invoice].maker = c
        /\ EventOf(c)' = EventOf(c)
    BY <1>2, <2>1, <2>2 DEF TablesGrow, CallAdvances, At, EventOf
  <2>4. r = PaidRow(r.invoice)'
    BY <1>4, <2>3, CallAssumption DEF PaidRow
  <2>5. QED
    BY <2>1, <2>3, <2>4 DEF RowOK
<1>5. ASSUME NEW c \in Calls, AddReversal(c),
             r = LedgerRow(c, "REFUNDED", EventOf(c), -PayloadOf(c).refunded)
      PROVE  RowOK(r)'
  <2>1. At(c, "reverse") /\ calls'[c].pc = "mark" /\ EventOf(c)' = EventOf(c)
    BY <1>2, <1>5, Writers DEF CallAdvances, At, EventOf
  <2>2. r.call = c /\ r.kind = "REFUNDED" /\ r.event = EventOf(c)
    BY <1>5 DEF LedgerRow
  <2>3. QED
    BY <2>1, <2>2 DEF RowOK, At
<1>6. QED
  BY <1>2, <1>3, <1>4, <1>5 DEF TablesGrow

LEMMA ReachStep == IInv /\ [Next]_vars => PaymentsReachLedger'
<1> SUFFICES ASSUME IInv, [Next]_vars, NEW i \in Invoices, payments'[i] # None
             PROVE  \/ \E r \in ledger' : r.kind = "PAID" /\ r.invoice = i
                    \/ \E m \in Calls : /\ payments'[i].maker = m
                                        /\ calls'[m].pc = "revenue" \/ Broken(m)'
  BY DEF PaymentsReachLedger, At, Broken
<1>1. TypeOK /\ PaymentsReachLedger /\ PaymentOK(i)
  BY DEF IInv
<1>2. TablesGrow /\ \A c \in Calls : CallAdvances(c)
  BY TableStep, CallStep
<1>3. CASE payments[i] = None
  <2>1. PICK c \in Calls : CreatePayment(c) /\ payments'[i].maker = c
    BY <1>2, <1>3 DEF TablesGrow
  <2>2. QED
    BY <2>1, Writers DEF At, Broken
<1>4. CASE payments[i] # None
  <2> DEFINE m == payments[i].maker
  <2>1. payments'[i].maker = m
    BY <1>2, <1>4 DEF TablesGrow
  <2>2. CASE \E r \in ledger : r.kind = "PAID" /\ r.invoice = i
    BY <1>2, <2>2 DEF TablesGrow
  <2>3. CASE m \in Calls /\ (At(m, "revenue") \/ Broken(m))
    <3>1. CASE AddRevenue(m)
      <4>1. InvoiceOf(m) = i
        BY <1>1, <1>4, <2>3, CallAssumption DEF PaymentOK
      <4>2. LedgerRow(m, "PAID", EventOf(m), Price) \in ledger'
        BY <3>1 DEF AddRevenue
      <4>3. QED
        BY <4>1, <4>2 DEF LedgerRow, InvoiceOf, PayloadOf
    <3>2. CASE ~AddRevenue(m)
      <4>1. CallAdvances(m)
        BY <1>2, <2>3
      <4>2. QED
        BY <2>1, <2>3, <3>2, <4>1 DEF CallAdvances, At
    <3>3. QED
      BY <3>1, <3>2
  <2>4. QED
    BY <1>1, <1>4, <2>2, <2>3 DEF PaymentsReachLedger
<1>5. QED
  BY <1>3, <1>4

LEMMA ReversalStep == IInv /\ [Next]_vars => RefundsReachLedger'
<1> SUFFICES ASSUME IInv, [Next]_vars, NEW i \in Invoices,
                    payments'[i] # None, payments'[i].refunded > 0
             PROVE  \/ \E r \in ledger' : /\ r.kind = "REFUNDED" /\ r.invoice = i
                                          /\ r.amount = -payments'[i].refunded
                    \/ \E c \in Calls : /\ calls'[c].pc = "reverse" \/ Broken(c)'
                                       /\ Type(EventOf(c)') = "charge.refunded"
                                       /\ InvoiceOf(c)' = i
                                       /\ PayloadOf(c)'.refunded = payments'[i].refunded
  BY DEF RefundsReachLedger, At, Broken
<1>1. /\ TypeOK /\ RefundsReachLedger
      /\ \A c \in Calls : EventOK(c) /\ HolderOK(c)
  BY DEF IInv
<1>2. TablesGrow /\ \A c \in Calls : CallAdvances(c)
  BY TableStep, CallStep
<1>3. ASSUME NEW c \in Calls, ~At(c, "idle")
      PROVE  /\ EventOf(c)' = EventOf(c) /\ InvoiceOf(c)' = InvoiceOf(c)
             /\ PayloadOf(c)' = PayloadOf(c)
  BY <1>2, <1>3 DEF CallAdvances, EventOf, InvoiceOf, PayloadOf
<1>4. CASE payments[i] # None /\ payments[i].refunded = payments'[i].refunded
  <2>1. CASE \E r \in ledger :
               r.kind = "REFUNDED" /\ r.invoice = i /\ r.amount = -payments[i].refunded
    BY <1>2, <1>4, <2>1 DEF TablesGrow
  <2>2. ASSUME NEW c \in Calls, At(c, "reverse") \/ Broken(c),
               Type(EventOf(c)) = "charge.refunded", InvoiceOf(c) = i,
               PayloadOf(c).refunded = payments[i].refunded
        PROVE  \/ \E r \in ledger' : /\ r.kind = "REFUNDED" /\ r.invoice = i
                                     /\ r.amount = -payments[i].refunded
               \/ calls'[c].pc = "reverse" \/ Broken(c)'
    <3>1. CASE AddReversal(c)
      <4>1. LedgerRow(c, "REFUNDED", EventOf(c), -PayloadOf(c).refunded) \in ledger'
        BY <3>1 DEF AddReversal
      <4>2. QED
        BY <2>2, <4>1 DEF LedgerRow, InvoiceOf, PayloadOf
    <3>2. CASE ~AddReversal(c)
      BY <1>2, <2>2, <3>2 DEF CallAdvances
    <3>3. QED
      BY <3>1, <3>2
  <2>3. ASSUME NEW c \in Calls, At(c, "reverse") \/ Broken(c) PROVE ~At(c, "idle")
    BY <1>1, <2>3 DEF At, Broken, HolderOK
  <2>4. \/ \E r \in ledger :
             r.kind = "REFUNDED" /\ r.invoice = i /\ r.amount = -payments[i].refunded
        \/ \E c \in Calls :
             /\ At(c, "reverse") \/ Broken(c)
             /\ Type(EventOf(c)) = "charge.refunded" /\ InvoiceOf(c) = i
             /\ PayloadOf(c).refunded = payments[i].refunded
    BY <1>1, <1>4 DEF RefundsReachLedger
  <2>5. QED
    BY <1>3, <1>4, <2>1, <2>2, <2>3, <2>4
<1>5. ASSUME NEW c \in Calls, RecordRefund(c), i = InvoiceOf(c),
             payments'[i].refunded = PayloadOf(c).refunded
      PROVE  /\ calls'[c].pc = "reverse" /\ Type(EventOf(c)') = "charge.refunded"
             /\ InvoiceOf(c)' = i /\ PayloadOf(c)' = PayloadOf(c)
  <2>1. At(c, "refund") /\ calls'[c].pc = "reverse"
    BY <1>5, Writers
  <2>2. ~At(c, "idle") /\ EventOf(c) \in Events
    BY <2>1, EventKnown DEF At
  <2>3. "refund" \in Statements(EventOf(c))
    BY <1>1, <2>1 DEF EventOK, At, Handling
  <2>4. Type(EventOf(c)) = "charge.refunded"
    BY <2>2, <2>3, StatementTypes
  <2>5. QED
    BY <1>3, <1>5, <2>1, <2>2, <2>4
<1>6. \/ payments[i] # None /\ payments[i].refunded = payments'[i].refunded
      \/ \E c \in Calls : /\ RecordRefund(c) /\ i = InvoiceOf(c)
                         /\ payments'[i].refunded = PayloadOf(c).refunded
  BY <1>2 DEF TablesGrow
<1>7. QED
  BY <1>4, <1>5, <1>6

LEMMA RefundStep == IInv /\ [Next]_vars => RefundsRepeatOnlyAfterFailure'
<1> SUFFICES ASSUME IInv, [Next]_vars, NEW r \in ledger', NEW s \in ledger',
                    r.kind = "REFUNDED", s.kind = "REFUNDED", r.event = s.event,
                    r.call # s.call
             PROVE  Broken(r.call)' \/ Broken(s.call)'
  BY DEF RefundsRepeatOnlyAfterFailure
<1>1. TypeOK /\ RefundsRepeatOnlyAfterFailure /\ \A c \in Calls : HolderOK(c)
  BY DEF IInv
<1>2. TablesGrow /\ \A c \in Calls : CallAdvances(c)
  BY TableStep, CallStep
<1>3. \A x \in ledger : RowOK(x)
  BY DEF IInv
<1>4. CASE r \in ledger /\ s \in ledger
  BY <1>1, <1>2, <1>3, <1>4 DEF RefundsRepeatOnlyAfterFailure, RowOK, CallAdvances
\* One of the two is new: the other is by a delivery that has not come to its
\* end in order, or the new one's transaction has timed out.
<1>5. ASSUME NEW x \in ledger' \ ledger, NEW y \in ledger',
             x.kind = "REFUNDED", y.kind = "REFUNDED", x.event = y.event, x.call # y.call
      PROVE  Broken(x.call)' \/ Broken(y.call)'
  <2>1. PICK c \in Calls :
          AddReversal(c) /\ x = LedgerRow(c, "REFUNDED", EventOf(c), -PayloadOf(c).refunded)
    BY <1>2, <1>5 DEF TablesGrow, LedgerRow
  <2>2. y \in ledger
    BY <1>5, <2>1 DEF AddReversal
  <2>3. RowOK(y)
    BY <1>3, <2>2
  <2>4. /\ y.call \in Calls /\ EventOf(y.call) = EventOf(c) /\ y.call # c
        /\ Broken(y.call) \/ At(y.call, "mark") \/ At(y.call, "done")
    BY <1>5, <2>1, <2>3 DEF RowOK, LedgerRow
  <2>5. CASE Broken(y.call)
    BY <1>2, <2>4, <2>5 DEF CallAdvances
  <2>6. CASE calls[c].late
    BY <1>2, <2>1, <2>6 DEF CallAdvances, Broken, LedgerRow
  <2>7. CASE ~Broken(y.call) /\ ~calls[c].late
    <3>1. locks[EventOf(c)] = c /\ inbox[EventOf(c)] # "PROCESSED"
      BY <1>1, <2>1, <2>7, Writers DEF HolderOK, At, Claimed, Handling
    <3>2. locks[EventOf(c)] = y.call \/ inbox[EventOf(c)] = "PROCESSED"
      BY <1>1, <2>4, <2>7 DEF HolderOK, Broken, At, Claimed, Handling
    <3>3. QED
      BY <2>4, <3>1, <3>2
  <2>8. QED
    BY <2>5, <2>6, <2>7
<1>6. QED
  BY <1>4, <1>5

LEMMA FollowUpStep == IInv /\ [Next]_vars => CancellationsAreFollowedUp'
<1> SUFFICES ASSUME IInv, [Next]_vars, NEW e \in Events, Profiled,
                    Type(e) = "customer.subscription.deleted", inbox'[e] = "PROCESSED"
             PROVE  \E c \in Calls : /\ EventOf(c)' = e
                                     /\ <<c, "CANCELLATION_COMPLETED">> \in signals'
  BY DEF CancellationsAreFollowedUp
<1>1. /\ TypeOK /\ CancellationsAreFollowedUp
      /\ \A c \in Calls : EventOK(c) /\ ProgressOK(c)
  BY DEF IInv
<1>2. TablesGrow /\ \A c \in Calls : CallAdvances(c)
  BY TableStep, CallStep
<1>3. \E c \in Calls : EventOf(c) = e /\ <<c, "CANCELLATION_COMPLETED">> \in signals
  <2>1. CASE inbox[e] = "PROCESSED"
    BY <1>1, <2>1 DEF CancellationsAreFollowedUp
  <2>2. CASE inbox[e] # "PROCESSED"
    <3>1. PICK c \in Calls : MarkProcessed(c) \/ MarkFailed(c)
      <4>1. inbox' # inbox
        BY <2>2
      <4>2. QED
        BY <4>1, Steps, TransactionStep, HandlerStep DEF vars, Deliver, Timeout, Claim, Crash
    <3>2. MarkProcessed(c) /\ EventOf(c) = e /\ At(c, "mark")
      BY <1>1, <2>2, <3>1 DEF MarkProcessed, MarkFailed, TypeOK
    <3>3. QED
      BY <1>1, <3>2 DEF ProgressOK, FollowedUp, At
  <2>3. QED
    BY <2>1, <2>2
<1>4. PICK c \in Calls : EventOf(c) = e /\ <<c, "CANCELLATION_COMPLETED">> \in signals
  BY <1>3
<1>5. ~At(c, "idle")
  BY <1>1, <1>4, CallAssumption DEF EventOK
<1>6. QED
  BY <1>2, <1>4, <1>5 DEF TablesGrow, CallAdvances, EventOf

-----------------------------------------------------------------------------
(* Theorems.                                                               *)

LEMMA InitInductive == Init => IInv
<1> SUFFICES ASSUME Init PROVE IInv
  OBVIOUS
<1>1. PICK I \in SUBSET Invoices :
        /\ payments = [i \in Invoices |->
                         IF i \in I THEN [maker |-> None, refunded |-> 0] ELSE None]
        /\ ledger = {[call |-> None, kind |-> "PAID", event |-> None,
                      invoice |-> i, amount |-> Price] : i \in I}
  BY DEF Init
<1>2. \A c \in Calls : calls[c] = Idle
  BY DEF Init
<1>3. TypeOK
  <2>1. Idle \in CallStates
    BY DEF Idle, CallStates, CallPcs
  <2>2. [maker |-> None, refunded |-> 0] \in PaymentRows
    BY AmountAssumption DEF PaymentRows
  <2>3. ledger \subseteq LedgerRows
    BY <1>1, AmountAssumption DEF LedgerRows
  <2>4. QED
    BY <1>1, <2>1, <2>2, <2>3, TypesAre DEF Init, TypeOK, SignalTypes
<1>4. \A c \in Calls : EventOK(c) /\ HolderOK(c) /\ ProgressOK(c)
  BY <1>2 DEF EventOK, HolderOK, ProgressOK, Idle, At, EventOf, Claimed, Handling
<1>5. \A e \in Events : LockOK(e)
  BY DEF Init, LockOK
<1>6. \A i \in Invoices : PaymentOK(i)
  BY <1>1 DEF PaymentOK
<1>7. \A r \in ledger : RowOK(r)
  <2>1. ASSUME NEW i \in I PROVE payments[i].maker = None /\ payments[i] # None
    BY <1>1, AmountAssumption, CallAssumption DEF PaymentRows
  <2>2. QED
    BY <1>1, <2>1 DEF RowOK, PaidRow
<1>8. PaymentsReachLedger
  <2>1. ASSUME NEW i \in Invoices, payments[i] # None
        PROVE  \E r \in ledger : r.kind = "PAID" /\ r.invoice = i
    <3>1. [call |-> None, kind |-> "PAID", event |-> None, invoice |-> i, amount |-> Price] \in ledger
      BY <1>1, <2>1
    <3>2. QED
      BY <3>1
  <2>2. QED
    BY <2>1 DEF PaymentsReachLedger
<1>9. RefundsRepeatOnlyAfterFailure /\ CancellationsAreFollowedUp
  BY <1>1 DEF Init, RefundsRepeatOnlyAfterFailure, CancellationsAreFollowedUp
<1>10. RefundsReachLedger
  <2>1. \A i \in Invoices : payments[i] # None => payments[i].refunded = 0
    BY <1>1
  <2>2. QED
    BY <2>1 DEF RefundsReachLedger
<1>11. QED
  BY <1>3, <1>4, <1>5, <1>6, <1>7, <1>8, <1>9, <1>10 DEF IInv

LEMMA IInvStep == IInv /\ [Next]_vars => IInv'
BY TypeStep, EventStep, HolderStep, PaymentStep, RowStep, ReachStep,
   ReversalStep, RefundStep, FollowUpStep DEF IInv

\* The inductive invariant holds in every reachable state.
THEOREM Inductive == Spec => []IInv
BY InitInductive, IInvStep, PTL DEF Spec

\* Every variable keeps its type, for any deliveries, events and invoices.
THEOREM TypeCorrect == Spec => []TypeOK
<1>1. IInv => TypeOK
  BY DEF IInv
<1>2. QED
  BY <1>1, Inductive, PTL

\* The handler of an event runs twice at a time only when one of the two runs
\* has outlived its transaction, and with it the advisory lock.
THEOREM OneHandlerAtATime == Spec => []HandlersAreExclusive
<1>1. IInv => HandlersAreExclusive
  BY DEF IInv, HandlersAreExclusive, HolderOK
<1>2. QED
  BY <1>1, Inductive, PTL

\* The money of an invoice is in the ledger once at most, however its events
\* are delivered, fail, race or outlive their locks.
THEOREM MoneyIsCountedOnce == Spec => []PaidOnce
<1>1. ASSUME IInv PROVE PaidOnce
  <2>1. ASSUME NEW r \in ledger, r.kind = "PAID"
        PROVE  payments[r.invoice] # None /\ r = PaidRow(r.invoice)
    BY <1>1, <2>1 DEF IInv, RowOK
  <2>2. QED
    BY <2>1 DEF PaidOnce
<1>2. QED
  BY <1>1, Inductive, PTL

\* A payment on record is revenue, about to be, or its delivery broke off.
THEOREM MoneyIsNotForgotten == Spec => []PaymentsReachLedger
<1>1. IInv => PaymentsReachLedger
  BY DEF IInv
<1>2. QED
  BY <1>1, Inductive, PTL

\* A refund on record is in the ledger, about to be, or its delivery broke off.
THEOREM RefundsAreNotForgotten == Spec => []RefundsReachLedger
<1>1. IInv => RefundsReachLedger
  BY DEF IInv
<1>2. QED
  BY <1>1, Inductive, PTL

\* A refund is in the ledger twice only after one of its deliveries broke off.
THEOREM RefundsAreTakenOffOnce == Spec => []RefundsRepeatOnlyAfterFailure
<1>1. IInv => RefundsRepeatOnlyAfterFailure
  BY DEF IInv
<1>2. QED
  BY <1>1, Inductive, PTL

\* A processed cancellation keeps its signal, whatever is delivered later.
THEOREM CancellationsStayVisible == Spec => []CancellationsAreFollowedUp
<1>1. IInv => CancellationsAreFollowedUp
  BY DEF IInv
<1>2. QED
  BY <1>1, Inductive, PTL

-----------------------------------------------------------------------------
\* The deliveries implement the inbox: an event fails any number of times, is
\* completed by one delivery at most, and is left alone from then on.
THEOREM Refinement == Spec => ImplementsEventInbox
<1>1. Init => Inbox!Init
  BY DEF Init, Inbox!Init, Completed, At, Idle
<1>2. ASSUME IInv, [Next]_vars PROVE [Inbox!Next]_<<inbox, Completed>>
  <2>1. /\ TypeOK
        /\ \A c \in Calls : EventOK(c) /\ HolderOK(c)
    BY <1>2 DEF IInv
  <2>2. \A c \in Calls : CallAdvances(c)
    BY <1>2, CallStep
  <2>3. ASSUME NEW c \in Calls, NEW pc \in CallPcs \ {"done"}, calls[c].pc # "done",
               Moves(c, pc)
        PROVE  UNCHANGED Completed
    BY <2>3 DEF Completed, Moves, At, EventOf
  <2>4. ASSUME NEW c \in Calls, MarkProcessed(c)
        PROVE  Inbox!Complete(c, EventOf(c)) /\ EventOf(c) \in Events
    <3>1. /\ EventOf(c) \in Events /\ inbox[EventOf(c)] # "PROCESSED"
          /\ Moves(c, "done") /\ At(c, "mark")
          /\ inbox' = [inbox EXCEPT ![EventOf(c)] = "PROCESSED"]
      <4>1. ~At(c, "idle") /\ At(c, "mark") /\ ~calls[c].late
        BY <2>4 DEF MarkProcessed, At
      <4>2. QED
        BY <1>2, <2>1, <2>4, <4>1, EventKnown, TransactionStep DEF MarkProcessed, HolderOK, At, Claimed
    <3>2. Completed' = Completed \cup {<<c, EventOf(c)>>}
      BY <3>1 DEF Completed, Moves, At, EventOf
    <3>3. \A p \in Completed : p[2] # EventOf(c)
      BY <2>1, <3>1 DEF Completed, HolderOK
    <3>4. QED
      BY <3>1, <3>2, <3>3 DEF Inbox!Complete, Inbox!Open
  <2>5. ASSUME NEW c \in Calls, MarkFailed(c)
        PROVE  Inbox!Fail(EventOf(c)) /\ EventOf(c) \in Events
    <3>1. /\ EventOf(c) \in Events /\ inbox[EventOf(c)] # "PROCESSED"
          /\ Moves(c, "failed") /\ At(c, "fail")
          /\ inbox' = [inbox EXCEPT ![EventOf(c)] = "FAILED"]
      <4>1. ~At(c, "idle") /\ At(c, "fail") /\ ~calls[c].late
        BY <2>5 DEF MarkFailed, At
      <4>2. QED
        BY <1>2, <2>1, <2>5, <4>1, EventKnown, TransactionStep DEF MarkFailed, HolderOK, At, Claimed
    <3>2. UNCHANGED Completed
      BY <2>3, <3>1 DEF At, CallPcs, Ended
    <3>3. QED
      BY <3>1, <3>2 DEF Inbox!Fail, Inbox!Open
  <2>6. ASSUME NEW c \in Calls,
               \/ OpenTransaction(c) \/ NoTransaction(c) \/ Skip(c) \/ WaitTooLong(c)
               \/ MarkTooLate(c) \/ Claim(c)
        PROVE  UNCHANGED <<inbox, Completed>>
    <3>1. /\ UNCHANGED inbox /\ calls[c].pc # "done"
          /\ \E pc \in CallPcs \ {"done"} : Moves(c, pc)
      BY <1>2, <2>6, TransactionStep, EntryOwn DEF At, MarkTooLate, Claim, LockGranted, CallPcs,
         Ended, Claimed, Handling
    <3>2. QED
      BY <2>3, <3>1
  <2>7. ASSUME NEW c \in Calls, Crash(c) PROVE UNCHANGED <<inbox, Completed>>
    <3>1. UNCHANGED inbox /\ calls[c].pc # "done" /\ Moves(c, "crashed")
      BY <1>2, <2>7, TransactionStep DEF Crash, Ended
    <3>2. QED
      BY <2>3, <3>1 DEF CallPcs, Ended
  <2>8. ASSUME NEW c \in Calls, Handle(c) \/ HandlerFails(c) PROVE UNCHANGED <<inbox, Completed>>
    <3>1. /\ UNCHANGED inbox /\ calls[c].pc # "done"
          /\ \E pc \in CallPcs \ {"done"} : Moves(c, pc)
      BY <1>2, <2>8, HandlerStep DEF CallPcs, Claimed, Handling
    <3>2. QED
      BY <2>3, <3>1
  <2>9. ASSUME NEW c \in Calls, Timeout(c) PROVE UNCHANGED <<inbox, Completed>>
    <3>1. \A d \in Calls : calls'[d].pc = calls[d].pc /\ calls'[d].event = calls[d].event
      BY <2>1, <2>9 DEF Timeout, TypeOK, CallStates
    <3>2. QED
      BY <2>9, <3>1 DEF Timeout, Completed, At, EventOf
  <2>10. ASSUME NEW c \in Calls, NEW e \in Events, Deliver(c, e)
         PROVE  UNCHANGED <<inbox, Completed>>
    <3>1. /\ calls'[c].pc = "begin" /\ calls[c].pc = "idle"
          /\ \A d \in Calls \ {c} : calls'[d] = calls[d]
      BY <2>1, <2>10 DEF Deliver, TypeOK, CallStates, At
    <3>2. ASSUME NEW d \in Calls PROVE At(d, "done")' <=> At(d, "done") /\ d # c
      BY <3>1 DEF At
    <3>3. UNCHANGED Completed
      BY <3>1, <3>2 DEF Completed, EventOf, At
    <3>4. QED
      BY <2>10, <3>3 DEF Deliver
  <2>11. CASE UNCHANGED vars
    BY <2>11 DEF vars, Completed, At, EventOf
  <2>12. QED
    BY <1>2, <2>4, <2>5, <2>6, <2>7, <2>8, <2>9, <2>10, <2>11, Steps DEF Inbox!Next
<1>3. QED
  BY <1>1, <1>2, Inductive, PTL DEF Spec, ImplementsEventInbox, Inbox!Spec

\* Every payment on record is in the ledger once, and of every refund on record
\* the figure that came with it, unless the delivery that was to enter it broke off;
\* one event's figure is entered again only after such a delivery.
THEOREM LedgerIsTrue == Spec => []MoneyIsCounted
  BY MoneyIsCountedOnce, MoneyIsNotForgotten, RefundsAreNotForgotten,
     RefundsAreTakenOffOnce, PTL DEF MoneyIsCounted
=============================================================================
