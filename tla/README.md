# DEMM CRM: specification, model checking and proofs

DEMM CRM is a multi-tenant CRM in which an agent acts for people: a NestJS
backend over PostgreSQL (`backend/src`), a Next.js frontend that keeps the
browser's session (`frontend/src`), Stripe for billing. This directory holds
TLA+ specifications of the parts whose correctness depends on the order in which
things happen, the TLC configurations that check them on small instances, and
proofs of their safety properties for instances of every size.

All paths below are relative to the repository's root.

## 1. The system

Every HTTP call is one asynchronous function in a Node process. Between two
`await`s it is atomic with respect to its own process; at every `await` any
other call, in this process or in another replica, may run. Calls share nothing
but PostgreSQL (READ COMMITTED, through Prisma), except for one in-memory map in
the agent service. A statement outside `$transaction` commits by itself. There
is no queue, no scheduler and no job that repairs things later: what a crashed
call leaves half done stays half done until a person or Stripe calls again.

The same shape therefore recurs in every module here: the processes are the
calls, a `pc` says which statement of the source a call is about to run, each
action is the code from one `await` to the next, and a call may fail or die at
any of them.

### 1.1 Components

**Agent approvals** (`backend/src/modules/agent/agent.service.ts`, 550-1333).
*State:* `AgentApproval` rows (PENDING, then APPROVED, REJECTED, EXPIRED or
CANCELLED) with the requester, the staged role and the window; `AuditLog` rows
for the governance trail and for runs. *Operations:* stage a high-risk tool
call, approve, reject, withdraw, expire on sight, execute. *Interactions:* tool
handlers write CRM tables; every transition writes an audit row in a transaction
of its own. *Hard:* several people decide at once on a row they all read as
PENDING; the clock is read before the row; three commits make one execution.
*Correct when:* a request is decided once and carried out at most once, with
the authority staged, inside its window, and the trail tells the truth.

**Agent execution sessions** (same file, 131-134, 367-399, 674-768). *State:*
the in-memory map from session id to `AbortController`, and the set of sessions
that are over. *Operations:* run a tool, cancel a session, restart. *Hard:* two
runs may share a session id, the first to end deletes the entry of the other; a
cancellation may come before the run. *Correct when:* a cancellation that was
answered is kept.

**Sessions and refresh tokens** (`backend/src/modules/auth/auth.service.ts`,
441-946). *State:* `RefreshToken` rows. *Operations:* select a workspace,
refresh, switch workspace, log out, log out everywhere, answer a suspected theft
by revoking the account. *Interactions:* memberships, which `removeMember`
deletes together with tokens; the audit log. *Hard:* tabs that race over one
token, a replay that looks like a race, clocks of two machines, a revocation
that overtakes an exchange. *Correct when:* one login is one session, a race is
not taken for a theft nor a theft for a race, a revocation lasts.

**Registration and login** (`auth.service.ts`, 41-390, and the routes of the web
server that chain them). *State:* `User`, `Organization`, `Workspace`,
`Membership`. *Operations:* register, register by invitation, password login,
mint an invitation capability, accept, select. *Hard:* registration writes four
tables without a transaction; a retry finds a half-made account; an invitation is
revoked under a registration. *Correct when:* every answer is true of the account
and the invitation it is about.

**Team membership and roles** (`backend/src/modules/team/team.service.ts`,
`role-hierarchy.ts`). *State:* `Membership` rows. *Operations:* change a role,
remove a member (and end the member's sessions), both under a lock on the
workspace's row. *Hard:* two owners remove each other; a seat is promoted while
somebody of lower rank changes it. *Correct when:* an owner always remains and
each change is judged by the seat as it is.

**Invitations** (same service and `invitation.controller.ts`). *State:*
`Invitation` rows. *Operations:* invite (which supersedes older invitations of
the address), revoke, accept by token or by capability, expire on sight. *Hard:*
acceptance, its retries, revocation, expiry and a newer invitation race for one
row, without any lock. *Correct when:* a link is used once, its addressee is
never refused without a cause, a decision is final.

**Workspace and role guards** (`backend/src/common/guards`, the token strategies,
`modules/workspace`). *State:* none; the memberships are read again for each
request, once. *Hard:* what they read is old by the time the handler uses it.
*Correct when:* whoever acts had the authority since the request was sent.

**Throttling and client identity** (`proxy-aware-throttler.guard.ts`,
`bff-client-identity.ts`, the web server's `client-identity.ts`). *State:* the
counters of `@nestjs/throttler`. *Hard:* everybody comes through one web server;
whom a request is counted against depends on a signed claim, its age, and the
number of proxies each server believes in. *Correct when:* a client is refused
for its own requests only.

**Stripe webhooks** (`backend/src/modules/marketing/stripe-webhook*.ts`).
*State:* `StripeWebhookEvent` (the inbox), `BillingSubscription`,
`BillingPaymentRecord`, `BillingCheckoutSession`, `ClientCommercialStateChange`
(the ledger). *Operations:* deliver an event; six handlers. *Interactions:*
Stripe calls in and is called back; relationship signals; the revenue reports
read the ledger. *Hard:* events come twice, late and in any order; the
transaction that deduplicates holds a lock and one connection while the handler
writes through others, and may time out under it; a handler that fails half way
is not undone. *Correct when:* money is counted once and not forgotten, a
completed event is not handled again, no delivery waits for ever.

**Stripe checkout** (`stripe-checkout.service.ts`,
`billing-checkout-failure.service.ts`, `stripe-provisioning.service.ts`). *State:*
`BillingCheckoutSession`, Stripe's idempotency keys and prices. *Operations:* make,
retry and regenerate a link, handle a failure, provision prices. *Hard:* a retry
may reset a session the webhook has completed. *Correct when:* what is paid stays
paid, and there is one open signal about the newest link.

**Billing signals** (`billing-relationship-signal.service.ts`,
`marketing-relationship.service.ts`). *State:* `RelationshipSignal` rows. They are
modelled in the modules of those who create and resolve them: webhooks, checkout,
health and conversions.

**Offers** (`offer.service.ts`). *State:* versions of an offer, DRAFT, ACTIVE or
RETIRED; the price mapping. *Operations:* update (in place or by a new version),
change the life cycle, sync, and the snapshot of a sale. *Hard:* everything is
written by row id on an old reading. *Correct when:* one version is sellable and
what is billed is what was sold.

**Leads and client accounts** (`lead.service.ts`, `client-account.service.ts`).
*State:* contacts, companies, opportunities, accounts, idempotency keys.
*Operations:* create a lead, convert it. *Hard:* unique indexes, a key that is looked up
before the transaction, a profile that is opened outside it. *Correct when:* a
conversion is answered with the client it is about, and a refusal is true.

**Onboarding, service deliverables, client health** (`onboarding.service.ts`,
`service-deliverable.service.ts`, `client-health.service.ts`). *State:* the plan and
its items, deliverables, their histories, the health row with its override.
*Operations:* generate or repair the plan, update items and deliverables, add one
outside the scope, launch (with or without an override), record commercial
changes, rate, override, clear. *Hard:* check-then-act throughout; the rating runs
after the commit it follows. *Correct when:* histories, launches and ratings have
the grounds they claim.

**KPIs, dashboards, reports** (`kpi.service.ts`, two `dashboard.service.ts`,
`reporting.service.ts`). They only read, but by many queries without a
transaction, and work out several figures more than once. *Correct when:* the
figures agree.

**Memory candidates and engrams; consent directives and briefs**
(`backend/src/modules/dom26r`). *State:* profiles of subjects, candidates under
review with their approvals, engrams with their corrections, briefs that cite
engrams, consent directives, audit events. *Operations:* propose, approve,
reject; capture, correct, forget; generate a brief; grant and withdraw consent.
*Interactions:* a conversion records facts here in its own transaction; pages and
health scores create profiles on sight. *Hard:* every operation tests its row
before the transaction that writes it, and nothing tests it again. *Correct
when:* promotions were approved, the trail of corrections is complete, what was
forgotten stays so, no audit event reports what was rolled back.

**Contacts, companies, opportunities, pipelines, tasks.** *State:* one table each,
and the activities of a deal. *Operations:* create, update, move a deal. *Hard:* what
a body refers to is looked up before the write, and an update writes fields it has not
looked up; a move is two writes. *Correct when:* nothing that is looked up refers to
another workspace.

**Session routes of the web server and browser session client**
(`frontend/src/app/api/session`, `frontend/src/lib/session`). *State:* the
refresh cookie, an access token and an epoch per tab, a lock shared by the tabs.
*Operations:* bootstrap, refresh, switch, log in, log out, accept an invitation,
broadcasts, retried API calls. *Hard:* tabs share one cookie; a switch is not under
the refresh lock; an answer may be lost after the server spent the token.
*Correct when:* tabs that follow the rules are never taken for thieves, and all
show the workspace they are in.

**Pages** (`frontend/src/app/*/page.tsx`). *State:* the rows a page holds, its
selection, its busy flags, its message. *Operations:* load, pick, submit, reload, leave
a tab of it and come back, dismiss the message. *Hard:* answers overtake each other; one
flag stands for many buttons; a tab that is left loses its flags and forms while its
requests go on. *Correct when:* a page at rest shows what its user picked and changed, or
has said that something failed.

**Bootstrap, configuration and logging.** Wiring and I/O without state of their
own; not modelled.

### 1.2 How the components meet

- Team removal ends sessions: in `TeamMembership` the sweep races with calls that read
  the seat and then issue a session (`Renew`, `FindSeat`, `IssueSession`),
  `RefreshTokens` has the removal as an action on tokens, `CrmRecords` has members
  who leave while records are assigned to them.
- Acceptance of an invitation makes the seat that `selectWorkspace` looks for:
  `AccountRegistration` has the whole chain of the web server's route.
- Webhooks write what reports read, and open and close the signals that checkout
  also opens; `Checkout` has what they do to a link and its signals as `Complete` and
  `InvoicePaid`.
- A conversion (`LeadConversion`) freezes an offer (`OfferCatalog`, `Freeze`), makes the
  first link (`Checkout`, `Convert`), leaves the account of `ClientDelivery` and records facts
  (`Dom26rMemory`, `RecordFacts`).
- Approval executes tool handlers that write CRM tables, through the runs of
  `AgentRuns`; who may ask for a tool is in `RequestAuthority`.
- The browser's tabs (`BrowserTabs`) drive refresh, switch and logout; the backend's
  answer to a token is there by the rule that `RefreshTokens` models in detail.

## 2. The modules

| Module | Models | Abstract specification | Proofs |
| --- | --- | --- | --- |
| `AgentApprovals` | staging, decision, execution of high-risk actions | `ApprovalDecision` | `AgentApprovalsProofs` |
| `RefreshTokens` | exchange and revocation of refresh tokens | `LoginSession` | `RefreshTokensProofs` |
| `RoleHierarchy`, `TeamMembership` | ranks, seats and invitations | `TeamRoster` | `TeamMembershipProofs` |
| `StripeWebhooks` | deliveries and handlers of billing events | `EventInbox` | `StripeWebhooksProofs` |
| `Dom26rMemory` | candidates, engrams, consent and briefs of a business unit | | `Dom26rMemoryProofs` |
| `AgentRuns` | the registries of running tools and their cancellation | | `WorkspaceProofs` |
| `RequestAuthority` | a request on its way through strategies and guards | | `WorkspaceProofs` |
| `CrmRecords` | contacts, companies, deals, tasks, pipelines of several workspaces | | `WorkspaceProofs` |
| `AccountRegistration` | registration, login, and the way in by an invitation | | `WorkspaceProofs` |
| `ClientBudgets` | rate limits and whom they count against | | `WorkspaceProofs` |
| `OfferCatalog` | versions of an offer, their prices at Stripe, their sales | | `ServicesProofs` |
| `LeadConversion` | leads and their conversion | | `ServicesProofs` |
| `Checkout` | checkout links and their payment | | `ServicesProofs` |
| `HealthRule`, `ClientDelivery` | the work for a client, its launch and its rating | | `ServicesProofs` |
| `Figures` | dashboards and reports | | `ServicesProofs` |
| `BrowserTabs` | the session of a browser in its tabs | | `BrowserProofs` |
| `Pages` | what a page holds of the server | | `BrowserProofs` |
| `Services`, `Workspace`, `Browser` | the small components side by side | | |
| `BrowserInvariants` | the inductive invariants of the two parts of `Browser` | | |

Three modules put small components side by side: `Services` (`ClientDelivery`,
`OfferCatalog`, `LeadConversion`, `Checkout`, `Figures`), `Workspace`
(`AccountRegistration`, `AgentRuns`, `CrmRecords`, `ClientBudgets`,
`RequestAuthority`) and `Browser` (`BrowserTabs`, `Pages`). A variable `part`
says which of them a behaviour is of; the variables of the others are null. That is
a union of instances, not a composition: the parts share no state. Each property
of such a module names the part it is about, and one per part carries the type
invariant with it. The three are parameterised like every other module, and proved
about as they are; `MCServices`, `MCWorkspace` and `MCBrowser` instantiate them. What
the parts need of the constants is one predicate each (`DeliveryFit`, `PagesFit`), and
the module's `ConstantsAssumption` is their conjunction.

`MC*.tla` hold the functions and the symmetry that TLC's instances need, `*.cfg`
the instances. Operators whose comment says "mutant of" are plausible mistakes
in the operator named; no action uses them, they exist to show that a property
notices the mistake.

Conventions. `calls` maps each call to a record: `pc` is the statement it is
about to run, the other fields are the local variables that survive an `await`.
`Proceed(c)` is what call `c` does by itself, `Request(c)` (or `Deliver`) what
somebody outside makes it do, `Crash`/`Fail` what may go wrong at any point.
Variables marked *history* are written but never read by the code's actions;
they let properties speak of the past. Each call of an instance is used once,
which bounds the number of requests, not their order.

### 2.1 AgentApprovals

| Code (`agent.service.ts`) | Action |
| --- | --- |
| `executeTool`, `stageApproval` | `Stage`, `RefuseStaging` |
| `resolveApproval`, `cancelApproval` up to the read | `Begin`: the clock is read here |
| the checks after the read | `Find...`, one per outcome |
| the conditional `updateMany` | `WinClaim`, `LoseClaim` with `ClaimMatches` |
| `writeApprovalAudit` | `Record` |
| `executeApprovedTool`, `runTool` | `RunForbidden`, `RunStart`, `HandlerCommits`, `HandlerFails`, `RecordResult`, `RecordError`, `RecordRefusal` |
| the two `catch` blocks when an audit write fails | `AuditFails` |

The checks are made on the row as read (`Found(c)`, kept in `seen`), the claim on
the row as it then is. What the handler does is one commit with the authority it
ran under; tool arguments and results are abstracted away. A call of `runTool`
outside the approval path (tools that are not high-risk) is not modelled: it
touches no approval. Rows may exist at start-up that were staged before the
columns `requesterRole` and `expiresAt`, or with a role today's tool forbids.
A claim's `WHERE` clause compares the window with the clock read at the start of
the call, so an approval that began in time may commit after its window: that is
why `WindowRespected` speaks of when the call began.

### 2.2 RefreshTokens

| Code (`auth.service.ts`) | Action |
| --- | --- |
| `selectWorkspace`, `refresh`, `switchWorkspace` | `SelectWorkspace`, `RefreshToken`, `SwitchWorkspace` |
| states 1 to 4 of the presented token | `FindUnusable`, `FindRaced`, `FindReplayed`, `FindLive` |
| `isBenignConcurrentPresentation` | `Benign` |
| the conditional `updateMany` that spends a token | `WinClaim`, `LoseClaim` |
| membership and token of `issueSession` | `FindMember`, `FindNoMember`, `Mint` |
| `handleSuspectedTokenReuse` | `RevokeFamily`, `ReportReuse` |
| `logout`, `logoutAll` | `Logout`, `LogoutAll` |
| `removeMember` of `team.service.ts` | `RemoveMember` |

Time needs care: `new Date()` is evaluated before the statement that stores it
commits. `Stamps(t0)` is the set of values a stored date may have when the code
evaluated it no earlier than `t0` and the commit lagged by at most `Lag`; `Skew`
is `CLOCK_SKEW_ALLOWANCE_MS`. The history variable `origin` remembers from which
login a token descends and when its revocation really committed, against which
the code's judgement by stored dates is measured. Access tokens are stateless
and outlive all of this by up to 15 minutes; no property speaks of them.

### 2.3 TeamMembership

| Code (`team.service.ts`) | Action |
| --- | --- |
| the guards and the rank test of the controller's call | `BeginAsAdmin`, `ChangeRole`, `RemoveMember`, `Invite`, `RevokeInvitation` |
| `withWorkspaceLock` | `LockWorkspace`, `Refuse` |
| the body of `changeRole` / `removeMember` | `FindTarget`, `AssertNotLastOwner`, `CommitSeat` |
| `invite` | `FindInvitee`, `Supersede`, `CreateInvitation`, `Audit` |
| `revokeInvitation` | `ClaimRevocation`, `Audit` |
| `acceptInvitation`, `acceptInvitationById` | `AcceptInvitation`, `ReadInvitation`, `MarkExpired`, `Retry`, `WinClaim`, `LoseClaim` |
| `issueTokensForMembership` of `auth.service.ts` | `Renew`, `FindSeat`, `IssueSession` |

A removal sweeps the member's sessions in its transaction, but a refresh, a choice or a
switch of workspace that has read the seat before issues one after the sweep, without any
lock (`auth.service.ts:520-551`). The history variable `overtaken` has the calls that were
between the two when the seat went. In `TeamRoster` a change of a seat is made with the
rank of somebody whose request about that seat is under way (`asking`), and must be within
that rank for the seat as it is at the commit: a check on a seat as it was is a step that
the roster does not have.

READ COMMITTED is modelled where it matters. The rows a transaction has updated
and not yet committed are `held`: every other update of them waits (`Unlocked`),
and their new state appears with the commit (`CreateInvitation`). `earlier` is
the history variable that remembers which invitations an invite could see.
The workspace's lock is the row lock of `SELECT ... FOR UPDATE`. The insert of a
seat is the code's `skipDuplicates`: an existing seat is left as it is. An
account stands for its (normalized) address.

### 2.4 StripeWebhooks

| Code (`backend/src/modules/marketing`) | Action |
| --- | --- |
| `stripe-webhook.controller.ts`, after the signature | `Deliver` |
| `claimAndProcess` | `OpenTransaction`, `NoTransaction`, `Skip`, `Claim`, `MarkProcessed`, `MarkFailed`, `MarkTooLate`, `WaitTooLong`, `Timeout` |
| `onCheckoutCompleted` | `CompleteCheckout`, `RetrieveSubscription`, `UpsertSubscription` |
| `onSubscriptionUpsert` | `ReadPrior`, `UpsertSubscription`, `SignalPastDue`, `SignalCancellation` |
| `onSubscriptionDeleted` | `CancelSubscription`, `SignalCancelled` |
| `onInvoicePaid` | `FindAccount`, `FindPayment`, `CreatePayment`, `AddRevenue`, `FindFailing`, `ResolveFailing`, `SettleCheckout`, `Activate` |
| `onInvoicePaymentFailed` | `MarkPastDue`, `SignalFailure` |
| `onChargeRefunded` | `FindCharge`, `RecordRefund`, `AddReversal` |

The deduplicating transaction and the handler use different connections. The
model has both: the transaction takes a connection of the pool from
`OpenTransaction` on, every statement of a handler needs another
(`FreeConnection`; the rest of the server may have them all when a transaction
wants to open, hence `NoTransaction`), and Prisma's timer may roll the transaction back under the
handler (`Timeout`), which then runs on without the lock. A delivery whose
transaction is gone cannot mark its event and answers 500. The comment in
`stripe-webhook-dedup.service.ts` that the lock is provably held until the
handler's promise settles is therefore true only up to those 15 seconds, and
`HandlersAreExclusive` says so.

The events are those of one client account: the account is named in the
subscription's metadata and its offer has a price (others are logged and left).
The account's contact may lack the relationship profile that signals hang on;
that is so for accounts converted with a company, whose profile belongs to the
company, while the billing signals look up the contact's. `Profiled` says which.
The event `charge.dispute.created` only logs and is left out. What Stripe says
when asked is any state the subscription has had. A `charge.refunded` event brings
`amount_refunded`, which is all that was given back so far; the instance has two of them,
of a first part and of the whole. The handler stores the figure in the payment's row and
books it, negative, in the ledger.

### 2.5 Dom26rMemory

| Code (`backend/src/modules/dom26r`) | Action |
| --- | --- |
| the controllers | `Begin` |
| `getOrCreateProfile` | `FindSubject`, `CreateSubject`, `FindProfile`, `CreateProfile` |
| `findByIdScoped` and the test that follows it | `ReadCandidate`, `ReadEngram`, `ReadEvidence`, `ReadForConsent` |
| `create` of candidates and engrams | `CreateCandidate`, `CreateEngram` |
| `recordConversionFacts` (`marketing-relationship.service.ts`) | `RecordFacts` |
| `approve`, `reject` | `Promote`, `Reject` |
| `correct`, `forget` | `Correct`, `Forget` |
| `generate`; `create` and `withdraw` of consent | `Cite`; `Grant`, `Withdraw` |
| `Dom26rAuditService.record` | `Record` |

Every write is one transaction (or one statement) and one step; the audit event
is another, except in a conversion, which hands its transaction down. A text is
named for the call that wrote it, since all that matters of it is where it came
from; a promoted engram has the text of its candidate (`None`). Two history
variables say which calls had committed (`commits`) and which of them had when a
call read its row (`knew`): two calls *overlap* when neither knew the other. One
business unit is modelled: every query names the unit, and rows of another are
rows that are not found. A brief cites one engram; a conversion records one
candidate and one engram. A call that ends before it has committed leaves no
trace, so its local variables are dropped (`Abandon`). Pages and health scores
that only want a profile are the kind `OPEN`.

Two things the model shows by having nothing to say about them: `generate` does
not look at the state of the engrams it cites, so a brief may cite a forgotten
one; and `forget` leaves the rows of `MemoryCorrection` as they are, with the
previous text, which `GET engrams/:id` returns. `isSharingAllowed` has no caller.

### 2.6 AgentRuns

| Code (`agent.service.ts`) | Action |
| --- | --- |
| `runTool` up to its first `await`, the intent row | `EnterRun`, `RecordIntent` |
| the look at the controller | `StartRun`, `StopRun` |
| the handler's end and the `finally`, the result row | `EndRun`, `RecordResult` |
| `cancelExecution` | `RefuseCancellation`, `CancelAhead`, `CancelActive` |
| a restart of the process | `Restart` |

`cancelExecution` has no `await`, so each of its answers is one step. A session id is
given by the client or made of the clock, so two runs may have one; `parted`
remembers that a run's session was closed under it.

### 2.7 AccountRegistration

| Code (`auth.service.ts` and the web server's routes) | Action |
| --- | --- |
| `register` | `LookUpAddress`, `CreateOrganization`, `CreateWorkspace`, `CreateUser`, `CreateOwner`, `RecordRegistration` |
| `registerInvited` | `ReadInvitation`, `ResolveExisting`, `ReReadInvitation`, `CommitAccount`, `ResolveConflict` |
| the chain of `accept-invitation/route.ts` | `Login`, `MintInvitationCapability`, `AcceptInvitation`, `SelectWorkspace` |
| others | `RevokeInvitation`, `RemoveMember`, `Lapse`, `BreakOff` |

Three addresses: the one invited, the same one with a capital, and another. There is one
invitation; its life among others is in `TeamMembership`.

### 2.8 RequestAuthority

| Code | Action |
| --- | --- |
| `JwtStrategy.validate`, `InvitationCapabilityStrategy.validate` | `Validate`, `ValidateCapability` |
| `WorkspaceGuard`, `resolveAuthorizedWorkspace` | `ResolveWorkspace` |
| `RolesGuard`, `assertToolPermission`, the gate for high risk | `After` |
| `BusinessUnitGuard` | `CheckUnit` |
| `WorkspaceController` | `ListWorkspaces`, `AuthorizeCreation`, `CreateWorkspace` |
| other requests | `Grant`, `Remove`, `Found` |

The requests are of one user. Memberships are read once, in the strategy, and used
after later awaits: a request in flight may finish with a role that was taken from
its user meanwhile. The property therefore says "at a moment since it was sent", and
the comment in `team.controller.ts` that a demoted member loses the authority
immediately is true of requests sent afterwards. A seat in the workspace counts even
when it is lower than the organization-wide one; no tool is for SUPERADMIN. `GET
/workspaces` is behind `RolesGuard` without `WorkspaceGuard`, so `request.user.role` is
undefined and it refuses everybody. A malformed id, which is answered 400, is left out.

### 2.9 ClientBudgets

`Request` is the web server's forwarding (`forwardClientIdentityFrom`,
`buildInternalClientIdentity`) or a direct call; `Damage` and `Delay` are what may become
of the signed claim on its way; `CanActivate` is the guard (`Verified`, `Tracker`) and the
limiter behind it; `Minute` starts the limiter's next window. The limiter is external: a
fixed minute per tracker and path, where that of the library starts with the first
request. The number of hops is taken as how many entries stand right of the client's in
the forwarded list. A secret that is missing in production makes the web server answer 502.

### 2.10 OfferCatalog, LeadConversion, Checkout

| Code (`backend/src/modules/marketing`) | Action |
| --- | --- |
| `OfferService.update` | `Update`, `EditInPlace`, `InsertVersion` |
| `OfferService.setLifecycle` | `SetLifecycle`, `FindSibling`, `WriteState` |
| `StripeProvisioningService.syncOfferPrices` | `SyncOfferPrices`, `NextOffer`, `CreatePrice`, `RecordMapping` |
| `assertSellable`, `offerSnapshot.create` in `convert` | `AssertSellable`, `Freeze` |
| `LeadService.createLead` | `FindCompany`, `CreateLead` |
| `ClientAccountService.convert` | `Convert`, `ResolveScope`, `CheckDuplicate`, `InsertAccount`, `FindProfile`, `OpenProfile`, `CommitConversion`, `Recover` |
| `createSubscriptionCheckout` | `Start`, `UpsertLink`, `CreateSession`, `StoreSession`, `ResolveSignals`, `SignalPending` |
| its `catch`, `BillingCheckoutFailureService.handle` | `Fail`, `StoreFailure`, `HandleFailure` |
| Stripe, `onCheckoutCompleted` | `Pay`, `Complete` |
| `onInvoicePaid`, as far as it concerns the signals of a link | `InvoicePaid` |

An insert that meets an uncommitted row with its unique key waits (`Holding`), as in
PostgreSQL; the profile of the client is opened on another connection, and stays when
the conversion is rolled back. Stripe answers a repeated idempotency key with the
session it made first, so an attempt and its session have one number. `profiled` says
whether the client's contact has the relationship profile that the signals about links
hang on (2.4): without one `createSignal` writes nothing, and no signal is promised. A
new paid invoice, which may come before `checkout.session.completed` and again with each
renewal, closes the pending signal and the alarm whatever state the links are in;
`past.settled` says that one came after the newest link was made.

### 2.11 HealthRule and ClientDelivery

`HealthRule` is `ClientHealthService.calculate` from the query's answer to the rating, as
operators: the factors, the days that are read out of the evidence texts, the rule.
`ClientDelivery` has around it

| Code | Action |
| --- | --- |
| `OnboardingService.updateItem`, `ServiceDeliverableService.update` | `UpdateItem`, `UpdateDeliverable`, `CommitUpdate` |
| `checkLaunchReadiness`, `activate` | `Activate`, `CommitLaunch` |
| `generateForClient` as a repair | `Generate`, `CommitPlan` |
| `createOutsideScope`, `recordCommercialStateChange` | actions of the same names |
| `calculate` | `Recalculate`, `ReadEvidence`, `ReadHealth`, `SaveHealth`, `Signal` |
| `override`, `clearOverride` | `Override`, `CommitOverride`, `ClearOverride`, `CommitClear` |

`past` says which gaps have been met: `torn`, a row of health was written that had
changed since it was read; `unrated`, evidence changed without a rating after it.

### 2.12 Figures

A reading is the sequence of queries of one endpoint (`Queries`); `Query` answers the
next one, `Write` is one change by another request in between. Each figure is an operator
over the tables, named for its method. The list of clients at risk is cut at `Shown`
(the code's `take: 10`): which of them it has is left open, how many is not. Dates pass
between queries as well (`ItemFallsDue`, `WorkFallsDue`): each query reads the clock for
itself. Of deliverables those in the scope of the offer are modelled.

### 2.13 CrmRecords

`Create` and `Change` are the requests of the five services, `Check` is one look-up of a
relation, `Write` the row, `Tell` the activity that `moveStage` adds, `Remove` a member
who leaves. Two workspaces have the same records; a body may name any identifier of
either. A stage is checked to be of the workspace, not of the deal's pipeline.

Bodies are `any`, so the validation pipe strips nothing, and `update` writes `...data`. What
it looks up (`Check`) is what the service looks up; the pipeline of a deal and the contact and
deal of a task pass unchecked (`Unchecked`), and so does the `workspaceId` of any record
(`Destinations`). Two histories name where that was used: `past.strayed` has the records and
the relation, `past.moved` the records that went to another workspace.

### 2.14 BrowserTabs

| Code (`frontend/src/lib/session`, `frontend/src/app/api/session`) | Action |
| --- | --- |
| `bootstrapSession`, `refreshSession`, `withRefreshLock` | `Bootstrap`, `ProactiveRefresh`, `Granted`, `AdoptToken`, `PostRefresh`, `FinishRefresh`, `EndRefresh` |
| `switchWorkspace`, `beginWorkspaceSwitch`, `acceptInvitationAndEnter` | `SwitchWorkspace`, `BeginWorkspaceSwitch`, `AcceptInvitation`, `FinishSwitch` with `Entered` |
| `beginLogin`, `logout` | `BeginLogin`, `Logout`, `FinishLogout` |
| the routes and the backend | `HandleSelect`, `HandleLogout`, `ReadToken`, `ClaimToken` |
| the answer, its cookie, its loss | `Arrive`, `Baked`, `Lose` |
| the broadcast channel | `Hear` |
| `request` of `lib/api.ts` | `RetryRequest` |
| a page that is left, a tab that is closed | `Navigate`, `Close`, `Abandon` |

A cookie is set when the answer arrives, not when the backend sends it, and calls on
their way may arrive in any order. `past` notes the first thing that upset the protocol
(`Upsets`): a lost answer, a tab gone in the middle of a call, a call outside the lock that
overlapped another. What the properties claim is claimed of browsers not upset; that
the code can be upset in those ways is recorded in section 6. `Limits` bounds the tokens a
behaviour may mint, one bound per kind of behaviour; `home` says which workspace a token
is of. The lock by `localStorage` for browsers without Web Locks is not modelled.

### 2.15 Pages

Every page is a record (`ClientDetailPage`, `ContactsPage`, `TeamPage`, ...): what it
opens with, whether the user picks rows, whether it shows errors, and its controls. A
control has the flag that disables it and the requests its handler makes, the last ones
(`tail`) after the flag is lowered. The actions are the same for all: `Pick`, `Submit`, `Choose`,
`Serve` (the server handles a request), `Answer`, `Fail`, `Others`. A row is a version
number, since what matters is whether what is shown is older than what is known.
`Offered` says for which rows a control is there. A row's form takes its status once, when
the row is first shown, and goes with the row.

*Tabs.* The page of a client renders a tab only while it is chosen. `RemountRows` leaves the
tab of the checklist or of the deliverables and comes back: the forms and their saving flags
are new, with the status of the rows as last read, while the handlers, which are the page's, go
on. `RemountCard` does so for billing and health, which load for themselves: everything they
held is gone and is read anew, and of a handler at work only a change on its way is left
(`Stranded`). A control may then be sent again while its request is out, and a save may undo
a change: `OneAtATime` promises nothing beyond the tab's stay, and `past.gone` has the rows
whose form came back while a change of them was under way or not yet shown. It also has those
whose form went when a reading of the deliverables failed, which the page shows as none.

*Messages.* The message that something failed stays until the next submission, until the
user takes it away (`Dismiss`: the button, or a form opened on the page of offers), or until
its card is left. Pages that keep rows and failure in one state (`OneState`) show no rows
where they could not be read, and the approvals offer to try again (`TryAgain`). A page
without its client or its assessment renders neither rows nor message (`Blank`). `past.told`
says that the user took away a message since the last submission.

*Exceptions.* Three histories mark what the code does not order and the properties
therefore do not claim: `crossed` (a reading begun while another of the same part was out,
or a pick while an answer is awaited), `muddled` (two rows worked on under one `busyId`),
`left` (the tab of a change was left before it was carried out).

## 3. What the runs check

There are twelve runs. Each asks one question of a part of the system; a property of a
run is often the conjunction of two or three named parts, which section 4 proves one
by one. Deadlock checking is off in every run: each instance has finitely many calls
and the system legitimately stops when all have ended. Whether a call can be stuck is
a question of its own, which `LinkCallsEnd`, `DeliveriesEnd`, `ApprovedIsSettled`,
`ClaimIsHonoured` and `RestorationEnds` answer.

**`approvals`** (`MCAgentApprovals.cfg`): two calls of any kind by two people in
two tenants over one request, two roles of which one is permitted, a window of
one tick, one tick of the clock. *Question:* can any
order of two decisions, with failing writes and crashes, decide twice, run
twice, run with the wrong authority, or leave a false trail? *Why enough:* every
race in the code is between two conditional updates of one row, and the rows do
not interact; two ticks separate before, at and after the window. `AtMostOnceExecution`,
`ExecutionIsDue` (`ExecutionAuthorised`, `WindowRespected`) and `TrailIsWhole`
(`GovernanceTruthful`, `EffectsHaveIntent`) hold, the service implements
`ApprovalDecision` within one tenant at each step, and an approved request is settled
unless its process died (`ApprovedIsSettled`).

**`sessions`** (`MCRefreshTokens.cfg`): two calls over one login of one user, two
workspaces, three tokens, two ticks with lifetime, skew and lag of one, fair.
*Question:* does one login stay one session through switches, removals, revocations
and crashes, and does the comparison of dates tell races from replays?
`NoAmplification`, `RevokedHoldNothing` (`RevocationHolds`, `RemovedHoldNoToken`),
`ReportsAreTrue` and `ReplaysAreTold` (`RacersAreBenign`, `ReplayIsDetected`) hold;
the service implements `LoginSession`; a call that spent a token answers with a
session unless the user has no seat where it leads or the process dies
(`ClaimIsHonoured`). *Why enough:* one call exchanges and one interferes; a third
token is the second successor. That no third call can spoil the judgement of the
dates is what the proofs say.

**`team`** (`MCTeamMembership.cfg`): two calls and two people, in two instances. In
`links` there are three invitations, one pending and two new, of one role, and
statements go on; in `ranks` two invitations, seats of an owner, a superadmin and an
agent, an administrator of the organization without a seat, and requests for two roles.
*Question:* does the lock make role changes atomic, and can races between accepting,
retrying, revoking, expiring and superseding break a link or use it twice?
`OneLinkOneEntry` (`LinkIsUsedOnce`, `OnlyOverlappingInvitesCoexist`), `OwnerRemains`,
`RemovedAreSignedOut` (a removed member holds no session but one that a call of theirs
issued after the sweep for the seat it had read before) hold, the service implements
`TeamRoster`, and no call waits for
ever (`LinkCallsEnd`). *Why enough:* each conflict is between two statements on one row;
three invitations allow an old one and two that overlap; the last owner needs two
owners and two calls; the ranks are those the rank tests single out.

**`webhooks`** (`MCStripeWebhooks.cfg`): two deliveries of any of seven events,
one per handler and a second refund, over a pool of two connections, one invoice of 2
units that is given back in two parts, fair. *Question:* do redeliveries, late
handlers and failures count money twice, lose it, or lock up? `MoneyIsCounted`
(`PaidOnce`, `PaymentsReachLedger`, `RefundsReachLedger`, `RefundsRepeatOnlyAfterFailure`)
and
`CancellationsAreFollowedUp` hold, the endpoint
implements `EventInbox`, and every delivery ends (`DeliveriesEnd`), even when
two waiting transactions have taken the whole pool: the timer frees it. *Why
enough:* two deliveries are one event and its duplicate, or two events whose
handlers meet on a row; two connections is the smallest pool that lets a handler
run at all and that two deliveries exhaust.

**`half_paid`** (`MCStripeWebhooksHalfPaid.cfg`): *expected to be violated.* A
payment on record whose event is PROCESSED need not be in the ledger (section 6).

**`memory`** (`MCDom26rMemory.cfg`): three calls of any kind over one pending
candidate and one engram of one or two subjects, with room for one more candidate
and two more engrams; calls, subjects and free rows are interchangeable.
*Question:* what can operations that test first and write
later do to one another, and where is the line between that and what may never
happen? `RecordsAreTruthful` (`AuditIsTruthful`, `DecisionsAreOnRecord`) and
`LossesNeedOverlap` (`DecisionsCollideOnlyByOverlap`, `CorrectionsMissOnlyOverlaps`)
hold. *Why enough:*
a row is spoilt by one call that acts on an old reading and one that acts
meanwhile; a third makes longer chains (correct, forget, correct). Free rows for
two insertions let two reviewers promote one candidate.

**`services`** (`MCServices.cfg`): five parts. *Delivery:* two calls over one checklist item,
one deliverable and one extra, on days up to the fifteenth; identifiers with the numbers 0 and
9, which is what the rating reads as days. `RecordsMissOnlyOverlaps`: histories and overrides
are lost only to overlaps; `DeliveryIsGrounded`: a launch over open items names them or was
overtaken, and the rating follows the evidence. *Offers:* three calls over two versions of one
offer and two prices; *links:* three requests for three attempts. `SalesAreHonest`: one version
is sellable unless two activations crossed, a client is billed what its snapshot says, there is
one open signal about the newest link unless an invoice was paid since it was made;
`SettledStaysSettled`: versions go forward, paid links stay paid, except where the property
names the gap. *Leads:* three calls on a contact, a company and a key. `ConversionsAnswerTruly`:
a conversion is answered with its client, a refusal is true. *Figures:* a reading of two clients
and their rows with at most one write in between, a list of those at risk that holds one.
`FiguresAgree`: figures worked out twice are apart by the writes under the reading, and what is
overdue is the same when there was none; the list of clients at risk is as long as their count
up to its limit, and never longer than that. *Why enough:* each gap in these services is between
one read and one write, so two calls meet it and a third makes a chain; a write more under a
reading only moves the figures further apart by what the property allows. The proofs of all five
parts say it of any number of calls, rows, dates and writes.

**`misread`** (`MCServicesMisread.cfg`): *expected to be violated.* The rating is not
by the days the items are late (section 6).

**`workspace`** (`MCWorkspace.cfg`): five parts. *Registration:* three calls with two
passwords and three addresses. `RegistrationAnswersTruly`, `InvitationsEndForGood`.
*Runs:* three runs over two session ids, with cancellations and restarts.
`CancellationHolds`. *Records:* two changes in two workspaces with a member each.
`RelationsStayInside`: nothing refers to another workspace, unless the body of an update
named a workspace or a relation that update does not look up, and the activities of a deal
end where it is. *Budgets:* three requests of two clients over two minutes.
`BudgetsAreTheirOwn`. *Requests:* one request of one user whose seats are changed once on
the way, in two workspaces of two organizations, with three tools, of which one may be a
large deal. `AuthorityWasHeld`. *Why enough:* a run, its companion of the same session and a
third one that comes after; a founder, an invited person and a rival; limits of one and
two are exceeded by three requests. That more requests and changes, more workspaces and
other limits show nothing new is what the proofs of all five parts say.

**`registrants`** (`MCWorkspaceRegistrants.cfg`) and **`shared_budget`**
(`MCWorkspaceSharedBudget.cfg`): *expected to be violated.* Not everybody who registers by an
invitation can go on to accept it; the hops of an invitation share one budget (section 6).

**`browser`** (`MCBrowser.cfg`): two tabs and two workspaces, and pages with two
handlers and two rows. In *smooth*, of four tokens, a behaviour stops with the first upset
that the program does not answer for; *rough* goes on after those, with two tokens, and is
fair. `TabsFollowTheSwitch`, `HonestTabsRaiseNoAlarm`, `LogoutEndsTheSession`: two tabs
that keep to the protocol show the workspace they are in, never present a spent token,
and end together. `RestorationEnds`: whatever is lost, a tab at start-up comes to a result.
On *pages*, all fourteen of them, with two events of the user, one change of tab and
three versions of a row: `PagesTellTheTruth`: at rest a page shows the choice and the
changes of its user, or says, or has said, that something failed;
`SubmissionsAreDeliberate`: a disabled control is sent once while its tab stays, and a form
undoes a change by itself only where somebody else made it, or where the form had gone, with
a failed reading or with its tab, and came back on an older one. The exceptions are those of
section 2.15. *Why enough:* a token, its successor, and the
successor after a switch while the other tab refreshes makes four; two handlers are a
request and one that overtakes it. The proofs have any number of tabs, workspaces, tokens,
handlers and rows.

### 3.1 Fairness

`FairSpec` assumes weak fairness of `Proceed(c)` for each call: Node runs every
continuation that is ready, and PostgreSQL answers a statement that waits for no
lock. `MCTeamMembership` assumes the same in its part `links` (`Finish`). For webhooks
it is also assumed that the timer of an open transaction fires, which Prisma guarantees.
In `MCBrowser`, part `rough`, weak fairness of `Proceed(b)` is that a tab which is open
runs its continuations and that a call on its way arrives or is lost: the calls
have timeouts. Nothing is assumed of people, of Stripe, of the clock, or of failures: none
of `Request`, `Deliver`, `Tick`, `Lapse`, `Crash`, `Fail` is fair, so no liveness property
holds because a failure came to its aid, and those that speak of a crash allow it
explicitly. Weak fairness is enough for the lock waits because each instance has
finitely many calls, so a lock that is released is not taken away for ever.

## 4. What is proved

TLC says that a formula holds of the instances above. The theorems say it for
every set of users, workspaces, rows, calls, events and invoices, every window,
lifetime, skew and pool, under the assumptions on constants that the modules
name (`NoneAssumption`, `TimeAssumption`, ...: null is not a value of anything,
quantities are natural numbers, a prepared state uses rows that exist). TLC
evaluates those assumptions in every run. That of `Services`, `Workspace` and `Browser` is the
conjunction of what each part needs (`OffersFit`, `TabsFit`), and a part's lemmas
cite its own conjunct alone.

Each proof module has the same argument. `IInv` (or `Inductive`) is the conjunction of
the type invariant and of what each call knows at each `pc`; it is shown of `Spec`
from one lemma per group of actions; each safety property then
follows from it without looking at the actions again, and each action
property and refinement from it and one step.

**`AgentApprovalsProofs`** - `TypeCorrect`, `Inductive`, `ExecutedAtMostOnce`,
`ExecutedWithAuthority`, `WindowIsRespected`, `TrailIsTruthful`,
`EffectsAreTraced`, `DecisionsAreFinal`, `TenantsAreIsolated`, `Refinement`, and the
conjunctions the run checks, `ExecutedOnlyWhenDue` and `NothingIsHidden`. The
safety properties are not inductive: they speak of effects and audit rows, which
are written by a call long after it won its claim. `IInv` closes the gap:
`UniqueWinner` (a row has one claimant), `SeenIsCurrent` (what a call read of a
row's authority is still so), and each effect or trail row equals what its call
would write now. `DecisionsAreFinal` proves the step property `DecisionFinal`,
which no run repeats because `ImplementsDecision` covers it.

**`RefreshTokensProofs`** - `TypeCorrect`, `Inductive`, `OneLoginOneSession`, `RevocationLasts`,
`RemovalEndsSessions`, `ReplaysAreDetected`, `ReportsTellTruth`, `RacersAreSafe`, `Refinement`;
`RevocationIsFelt` and `ReplaysAreToldApart`. The idea of `IInv` is a baton: of all the live
tokens of a login and all the calls that have spent one and not replaced it, there is one at
most. For the `Refinement` to `LoginSession`, `Placed` says where the mapping finds it, and
`SameBaton` which logins a step leaves alone: a won claim takes one baton, an issue starts or
gives back one, a failure drops one, and every other step ends those whose tokens it revokes,
which may be none. `RacersAreSafe` has the hypothesis that no commit lags behind its date by
more than the skew allowance (`Lag <= Skew`): that is what the allowance is for, and without it
the statement is false.

**`TeamMembershipProofs`** - `TypeCorrect`, `Inductive`, `OwnerAlwaysRemains`,
`RemovalSignsOut`, `LinksAreUsedOnce`, `InvitationsSupersede`, `OneEntryPerInvitation`,
`DecisionsStayFinal`, `Refinement`. The heart is `SeatCallOK`: whoever is past
the rank test or the count holds the lock, the seat still has the rank that was
judged, and at the write another owner exists. Every other step that touches
seats only adds one, which keeps all three. For the sessions it is `RenewCallOK`: a call
about to issue one belongs to somebody with a seat, or is in `overtaken` already.

**`StripeWebhooksProofs`** - `Inductive`, `TypeCorrect`, `OneHandlerAtATime`,
`MoneyIsCountedOnce`, `MoneyIsNotForgotten`, `RefundsAreNotForgotten`, `RefundsAreTakenOffOnce`,
`LedgerIsTrue`, `CancellationsStayVisible`, `Refinement`. The event's lock does not protect the
money, since a handler outlives it; what does is the unique `stripeInvoiceId`. `RowOK` therefore
ties every paid row to the delivery that inserted the payment record, and `HolderOK` ties a
handler whose transaction is open to the lock and to an event that is still to do.

**`Dom26rMemoryProofs`** - `Inductive`, `TypeCorrect`, `NoFalseSuccess`,
`PromotionsWereApproved`, `RecordsTellTruth`, `OneDecisionWithoutOverlap`,
`NothingLostWithoutOverlap`, `LossNeedsOverlap`. A step is a `Reading` (it writes no row
of memory) or
a `Writing` (it commits); each part of the invariant needs one lemma for either.
`PendingOK` is the strengthening: a call about to write does not know of any
review of its candidate, nor of any forget of its engram, nor of the writer of a
text other than the one it read. The properties follow because a call that
commits is known to nobody.

**`WorkspaceProofs`** - `AnswersAreTrue`, `InvitationsEnd`, `CancellationIsKept`,
`RecordsStayInside`, `BudgetsAreNotShared`, `AuthorityIsNeverInvented`; one inductive
invariant per part.
- *Registration* (`AccountsInductive`): each call is `Honest`, that is, the rows it has created
  are those its `pc` says, what it read of the account and the invitation may have changed
  only in the ways that cannot come back, and its answer is true already. While the
  invitation is not accepted nobody has, or has had, a seat by it.
- *Runs* (`RunsInductive`): a run that has yet to look at its controller is either the one its
  session's entry names (`Linked`) or parted from it; a promise made to a cancellation
  (`Promised`) is kept by the controller's being aborted.
- *Records* (`RecordsInductive`): a record never goes away, and leaves its workspace only by
  an update that names another, after which it is in `past.moved`; so what a look-up has
  found stays true until the write, save that a member may have left or a record may have
  been moved, which the property allows. The moves under way are tied to the deals whose trail lags.
- *Budgets* (`BudgetsInductive`): each entry of the limiter is that of one request which was
  answered in this minute (`EntryIsEarned`); those are finitely many, so a refusal can be
  charged to as many of them as the limit.
- *Requests* (`RequestsInductive`): `held` has every set of memberships since the request was
  sent; the strengthening is that the set the strategy has read is one of them, and that the
  role was taken from that set alone.

**`ServicesProofs`** - `RecordsTellWhatHappened`, `LaunchAndRatingHaveGrounds`,
`SalesStayHonest`, `SettledIsKept`, `ConversionsAreAnsweredTruly`, `FiguresAreConsistent`.
- *Delivery* (`DeliveryInductive`): what a call has read still holds or it was told of the
  change (`Reads`); a row has a history from its making on (`LogsTell`); `RatingIsDue` names
  the call that is yet to rate what has changed, unless the gap is in `past`; `SignalsTell`
  does so for the signal of a crossing.
- *Offers* (`OffersInductive`): what a call is about to do to a version was allowed by what it
  read (`Aimed`, `Informed`), and outside the gaps that `past` records a version has one quote,
  that of its live terms (`QuotesAgree`).
- *Links* (`LinksInductive`): one call works at a time (`Alone`) unless two crossed; then
  `OneSignal` and `NewestIsSignalled` follow from which statement that call is at (`Serves`),
  unless one broke off or was repeated; a payment closes signals and says so (`settled`).
- *Leads* (`LeadsInductive`): a used key has its client (`KeysAreUsed`), rows that would
  violate a unique index are not there together (`Apart`), and each call knows why it
  is about to answer as it is.
- *Figures* (`FiguresInductive`): what was read is what is there but for the writes since
  (`Fresh`), and a write, or a date that passes, moves the counts that are compared by one at
  most (`Near`); the length of the cut list follows from that of the whole.

**`BrowserProofs`** - `TabsKeepToOneWorkspace`, `HonestTabsStayUnsuspected`,
`LogoutIsForEveryTab`, `PagesStayTruthful`, `SubmissionsStayDeliberate`. The invariants
they rest on are stated in `BrowserInvariants`.
- *Tabs* (`SessionInvariant`): unless the protocol was upset, one call of the session is
  under way in all tabs together and its user has heard everything (`OneCall`); that call
  left with the cookie or has brought it (`CallAgrees`), which is live once the call is back
  (`CookieIsLive`). `OneWorkspace` is the heart: one workspace is that of the cookie, of the
  refresh under way, of every request that waits for it, and of every token a tab
  holds or will hear of and is not told to drop. Without it each tab may be right by
  itself and the next broadcast wrong.
- *Pages* (`PagesInvariant`): a raised flag is held by one handler at work (`FlagsAreHeld`,
  `OneIsAtWork`), what is shown or on its way is not ahead of the server and not behind what
  its reader is to read again (`NothingIsAhead`, `OneReader`, `WritesArrive`), the choice is
  shown or a handler will show it (`ChoiceIsShown`, `PanelBelongs`), and a form is as old as its
  row (`FormsAreCurrent`). What a tab leaves behind holds no flag and writes no row that is shown
  without `past` saying so (`StrandedAreKnown`).

Model-checked only: liveness under fairness (`ApprovedIsSettled`, `ClaimIsHonoured`,
`LinkCallsEnd`, `DeliveriesEnd`, `RestorationEnds`), which is beyond the prover, as is
ENABLED. Every other property of a run that must pass is the subject of a theorem. No module
with a proof declares a RECURSIVE operator, and nothing here needs induction over data, both
of which the prover cannot do.

## 5. Hazards

`PROJECT.json` lists every hazard at its line, with the properties that would catch it.
The one without a property is behaviour the code promises nothing about: a refund event
that arrives before its payment is dropped (`FindCharge`). Of some others a property covers
a part only, because the code itself does not answer for the rest; the note of each says so:

- a late `invoice.paid` or an old subscription update overwrites the status of a deleted
  subscription: only the signal of its cancellation is protected;
- the write of an approval's audit row may fail after the claim was won
  (`agent.service.ts:832`, `1259`), which leaves it without an outcome as a crash does:
  `ApprovedIsSettled` excepts both and covers the failures of permission and handler;
- the rows of two partial refunds do not add up, since each has the cumulative figure;
- a switch or a logout outside the refresh lock may cross a refresh of another tab
  (`client.ts:519`): the properties of tabs except it (`Upset`);
- on a page, an earlier answer may come after a later one (`crossed`), one `busyId` stands for
  all rows (`muddled`), and a form may come back with an older status (`gone`).

## 6. Where the code and its documents disagree

Four runs find a disagreement each:

1. **A payment without revenue** (`half_paid`). The billing design, line 327: on
   `invoice.paid` the handler writes the payment record and the ledger row. They
   are two statements, and the existence of the first stands for both: when a
   delivery breaks off between them, the redelivery finds the record, writes
   nothing, and the event becomes PROCESSED. `PaymentsReachLedger` is what
   remains true.
2. **Registered and not let in** (`registrants`). `invite/page.tsx:108`: create the
   account, then immediately accept. `registerInvited` stores the address in lower case;
   `login`, the next call of the chain, looks it up as it was typed.
3. **Rated by the identifier** (`misread`). `client-health.service.ts:37`: nothing
   enters the rating that cannot be read off the data. `overdueDays` reads the number of
   days from the first digits before a "d" in a text that holds an identifier and a date
   and no number of days.
4. **One budget for all who accept** (`shared_budget`). `backend.ts:87` of the web server:
   the invitation hops "are not per-client throttled at the backend". The capability hop
   is, at ten a minute (`auth.controller.ts:91`), and since it claims no identity the ten
   are everybody's. The global limit of 100 counts logins in the same way.

Not kept either, stated in the modules as definitions that no run checks:

- `RevocationIsComplete` (`RefreshTokens`). `auth.service.ts:583`: a detected replay ends
  "every live session for that account". A call that had spent its token when the
  revocation committed issues a live successor; `RevocationHolds` is what remains.
- `LedgerIsNet` (`StripeWebhooks`). The billing design, lines 331 and 412: a refund is a row
  of negative amount, so that revenue nets out. The row has `-amount_refunded`, Stripe's total
  so far: two partial refunds in good order take the first off twice.
- `RevenueIsNet` (`StripeWebhooks`). The billing design, line 412: revenue is net of refunds.
  Even of one refund it is not: the sum takes only rows whose `newValue` contains PAID; the
  negative row of a refund says REFUNDED. The same test takes UNPAID_MANUAL for a payment in
  `kpi.service.ts` and, as `/PAID/`, in `client-health.service.ts:224`.
- `ForgottenStaysRedacted` (`Dom26rMemory`). `engram.service.ts:156`: the redaction "is the
  guarantee". `correct` tests the state before its transaction and updates by id: a
  `forget` that commits in between is undone. `CorrectionsMissOnlyOverlaps` is what remains.
- `CrossingsAreFiled` (`ClientDelivery`). `marketing-relationship.service.ts:207` promises
  a pending candidate for each crossing; it is filed for a contact under the account's
  identifier, which is refused every time, and the recalculation that caused it is
  answered 403.
- `AlarmsEnd` (`Checkout`). `billing-checkout-failure.service.ts:45` and the design, line
  359: a link that is made resolves BILLING_SETUP_FAILED. It does not; only a payment does
  (`stripe-webhook-handler.service.ts:346-349`), which also closes CHECKOUT_PENDING, where
  the design (358) has the completion of the checkout do it.
- `NoRelationIsHijacked` (`CrmRecords`). "Prevent relation hijacking"
  (`opportunity.service.ts:80`, `131`): an update writes `...data`, so that the pipeline of a
  deal, the contact and deal of a task and the workspace of any record pass unchecked.
  `RelationsStayInside` is what remains.

Met while modelling:

- *Team.* Two invitations of one address whose transactions overlap both stay pending
  (`team.service.ts:155`); `OnlyOverlappingInvitesCoexist` is what remains.
- *Approvals.* `agent.service.ts:872`: an action lost to a crash shows as an APPROVED
  approval without an execution row. `runTool` writes that row (718) before it calls the
  handler (736), so a crash in between leaves the row and no action.
- *Webhooks.* An event whose handler failed is answered 200
  (`stripe-webhook.controller.ts:76`) and nothing in the repository tries it again.
- *Offers.* Two changes of a version's state can bring back a retired one or leave two
  active; the next version of a live offer comes without its trial, though
  `offer.service.ts:113` speaks of merged fields.
- *Checkout.* Every replay of a convert request starts attempt 1 again, also one that is
  paid; a snapshot's missing price mapping is never filled in, though the error says to
  run the sync first (`stripe-checkout.service.ts:27`).
- *Conversions.* The idempotency key is looked up without its business unit; a lost race
  for the profile is answered "already been converted"; billing signals look for the
  contact's profile where the conversion has opened the company's.
- *Delivery.* The comment of `recordOnboardingMilestone` (248) says that completed items,
  overrides and blockers call it; only the new plan and the activation do. A deliverable
  outside the scope, a payment, a repaired plan and the passing of time are rated by
  nothing. The engrams of those milestones are not in `ClientDelivery`; `Dom26rMemory` has
  what such a write in a caller's transaction does (`RecordFacts`).
- *Registration.* A founder whose subdomain is taken leaves an organization behind.
- *Figures.* The conversion rate can exceed 100 %; what the desk calls projected the KPIs
  call weighted.
- *Records.* A stage is checked to be of the workspace, where the tool's text says it must
  belong to the pipeline; `update` moves a deal without an activity.
- *Browser.* A logout that races a refresh signs the tabs in again (`client.ts:657`); a switch
  is outside the lock (519), and a refused one has spent the token; a lost answer leaves a spent
  token in the cookie, whose next use ends all sessions of the account; a tab closed between the
  cookie and its broadcast leaves the others in the old workspace; `api.ts:192` repeats a
  request with the token and workspace of after the refresh.
- *Pages.* The forms of contacts, deals and life cycles, the end of an override and the form for
  work outside the scope have no busy flag and may be sent twice; `busyId` holds one row, so a
  second one enables the first again; a failed reading of deliverables shows none; a row's
  select is not renewed by a reload, so saving it undoes another's change; a change of the
  client's tab forgets the saving flags and brings the forms back with the status last read, so
  that a change on its way may be sent again or undone; a reload may jump back from a newer
  selection; the approvals page calls every APPROVED request run.

Three corrections came from proofs that failed, with counterexamples larger than the
instances. The two counts of what is overdue were thought to differ by the writes under a
reading at most; a conversion brings all deliverables of a client at once, so now they are
said to agree when nothing was written. A form that has gone with a failed reading comes
back with the status of an older one (`clients/[id]/page.tsx:374`), so saving it undoes its
user's own change: `SavesAreChosen` names that gap. And two cases of what a reading of a page
sees overlapped in the model.

## 7. Plan

Done, in this order: `AgentApprovals`, `RefreshTokens`, `TeamMembership`, `StripeWebhooks`
(each with an abstract specification and proofs), `Dom26rMemory` with proofs; then the
client's life (`OfferCatalog`, `LeadConversion`, `Checkout`, `ClientDelivery`, `Figures`),
the workspace (`AccountRegistration`, `ClientBudgets`, `AgentRuns`, `RequestAuthority`,
`CrmRecords`), the browser (`BrowserTabs`, `Pages`), and the proofs of all three.

What is left, most useful first:

1. Compositions in place of the unions of section 2: a conversion over `OfferCatalog` and
   `Checkout` with the webhooks that pay it; `BrowserTabs` over `RefreshTokens` itself.
2. An abstract specification of memory, of rows that are only added to, decided and
   redacted, and its refinement.

**Not modelled.** Bootstrap, configuration and logging: wiring and I/O. Of the pages,
layout, form fields, the contact search and the components that only render. The
`localStorage` lock of old browsers. Signature and expiry checks of the JWT library, the
HTTP validation that answers 400, the text of audit rows. The repository's own test
scripts (`backend/test-*.ts`, a third of its lines) are not part of the system; they
were read for what they expect of it.
