-------------------------------- MODULE Pages --------------------------------
(***************************************************************************)
(* The pages of the application (src/frontend/src/app) and the parts of    *)
(* them that load for themselves: what one of them shows of the rows of    *)
(* the server, while its user picks rows and submits changes, requests     *)
(* overtake each other, are refused or lost, and others change the rows.   *)
(*                                                                         *)
(* A handler of a page is a series of awaited requests.  Every page is     *)
(* described by what its handlers ask for and by the flags that disable    *)
(* its controls.  The tabs of the page of a client come and go, with what  *)
(* they hold; a whole page is left only by closing it, and without a token *)
(* there is none.  Layout, wording and the fields of forms are left out.   *)
(***************************************************************************)
EXTENDS Integers, Sequences

CONSTANTS
  Calls,       \* handlers at work; each is one process
  Rows,
  First,       \* the row that a page with a selection opens with
  MaxEvents,   \* bounds on what the user picks and submits, on how often the tab
  MaxMoves,    \* of a client is left, and on what is changed
  MaxVersion,
  None         \* null

VARIABLES
  page,        \* the name of the page
  server,      \* the rows as the backend has them
  shown,       \* part of the page -> the rows it shows, as they were read
  calls,       \* the local state of every handler
  busy,        \* the flags that disable controls
  loading,     \* a spinner hides the page
  error,       \* the message that something failed is set
  choice,      \* the row the user picked last
  drafts,      \* row -> what its own form has: a version of the row, None, or
               \* what the user chose and, maybe, sent
  past         \* *history* events, own writes, overlaps, failures, tabs left

vars == <<page, server, shown, calls, busy, loading, error, choice, drafts, past>>

-----------------------------------------------------------------------------
(* The pages                                                               *)

\* A control: the flag that disables it ("own": one of its own, "row": one of each
\* row, "one": the busyId of the page), the part that must show its row ("page": it is
\* the row the page is about, None: a new one), what is read again after it and, not
\* awaited, after the flag is reset.
Control(name, flag, on, then, tail) ==
  [name |-> name, flag |-> flag, on |-> on, then |-> then, tail |-> tail]

\* A page: what it reads when it opens and when a row is picked, when a spinner hides
\* it, whether it shows its failures, and its controls.
Page(opens, picks, hidden, tells, controls) ==
  [opens |-> opens, picks |-> picks, hidden |-> hidden, tells |-> tells,
   controls |-> controls]

\* The page of a client, and the forms in the rows of its checklist and of its
\* deliverables; a behaviour is about the rows of one of the two.
ClientLoad(rows) == <<{"detail", rows}>>

RowForm(rows)      == Control("update", "row", rows, ClientLoad(rows), << >>)
ActivateForm(rows) == Control("activate", "own", "detail", ClientLoad(rows), << >>)
PaymentForm(rows)  == Control("payment", "own", "detail", ClientLoad(rows), << >>)
ScopeForm(rows)    == Control("outsideScope", "none", "detail", ClientLoad(rows), << >>)

ClientDetailPage(rows) ==
  Page(ClientLoad(rows), << >>, {"open"}, TRUE,
       {RowForm(rows), ActivateForm(rows), PaymentForm(rows), ScopeForm(rows)})

BillingCard ==
  Page(<<{"billing"}>>, << >>, {"open"}, TRUE,
       {Control("regenerate", "own", "page", <<{"billing"}>>, << >>)})

HealthForms ==
  {Control("recalculate", "own", "page", <<{"health"}>>, << >>),
   Control("override", "own", "health", <<{"health"}>>, << >>),
   Control("clear", "none", "health", <<{"health"}>>, << >>)}

ClientHealthTab == Page(<<{"health"}>>, << >>, {"open"}, TRUE, HealthForms)

\* The contacts, the one that is selected, and the client account it has.
ContactSelect == <<{"detail"}, {"client"}>>

CreateContactForm == Control("create", "none", None, <<{"list"}>>, ContactSelect)
ConvertForm       == Control("convert", "own", "detail", <<{"list"}>>, ContactSelect)

ContactsPage ==
  Page(<<{"list"}>> \o ContactSelect, ContactSelect, {}, FALSE,
       {CreateContactForm, ConvertForm})

\* The leads, the pipelines to choose from ("list") and the stages of the chosen one.
LeadForm == Control("create", "own", "list", <<{"leads"}>>, << >>)

LeadsPage ==
  Page(<<{"leads"}, {"list"}, {"detail"}>>, <<{"detail"}>>, {"open"}, TRUE, {LeadForm})

OfferForm     == Control("submit", "own", "list", <<{"list"}>>, << >>)
LifecycleForm == Control("lifecycle", "none", "list", <<{"list"}>>, << >>)

OffersPage == Page(<<{"list"}>>, << >>, {"open"}, TRUE, {OfferForm, LifecycleForm})

InviteForm == Control("invite", "own", None, <<{"list"}>>, << >>)
MemberForm == Control("member", "one", "list", <<{"list"}>>, << >>)

TeamPage == Page(<<{"list"}>>, << >>, {}, TRUE, {InviteForm, MemberForm})

ResolveForm == Control("resolve", "one", "list", <<{"list"}>>, << >>)

ApprovalsPage == Page(<<{"list"}>>, << >>, {}, TRUE, {ResolveForm})

RunForm == Control("run", "own", "list", << >>, << >>)

AgentConsole == Page(<<{"list"}>>, << >>, {}, TRUE, {RunForm})

\* The pipelines, the one that is selected with its opportunities, the contacts.
CreateOppForm == Control("create", "none", "detail", << >>, <<{"detail"}>>)
MoveOppForm   == Control("move", "none", "detail", << >>, <<{"detail"}>>)

PipelinesPage ==
  Page(<<{"list"}, {"detail"}, {"contacts"}>>, <<{"detail"}>>, {"open", "pick"}, FALSE,
       {CreateOppForm, MoveOppForm})

\* The internal report and the one of the client that is asked for; that client is
\* then in the address of the page, which reads both again.
ReportsPage ==
  LET open == <<{"list"}, {"detail"}>>
  IN  Page(open, <<{"detail"}>> \o open, {"open"}, TRUE, {})

\* The two dashboards read once.
Dashboard              == Page(<<{"list"}>>, << >>, {"open"}, TRUE, {})
MarketingDashboardPage == Page(<<{"list"}>>, << >>, {"open"}, TRUE, {})

Names == {"client", "work", "billing", "health", "contacts", "leads", "offers", "team",
          "approvals", "agent", "pipelines", "reports", "dashboard",
          "marketing"}

P == CASE page = "client"    -> ClientDetailPage("items")
       [] page = "work"      -> ClientDetailPage("work")
       [] page = "billing"   -> BillingCard
       [] page = "health"    -> ClientHealthTab
       [] page = "contacts"  -> ContactsPage
       [] page = "leads"     -> LeadsPage
       [] page = "offers"    -> OffersPage
       [] page = "team"      -> TeamPage
       [] page = "approvals" -> ApprovalsPage
       [] page = "agent"     -> AgentConsole
       [] page = "pipelines" -> PipelinesPage
       [] page = "reports"   -> ReportsPage
       [] page = "dashboard" -> Dashboard
       [] page = "marketing" -> MarketingDashboardPage

\* Parts that show every row, and parts whose rows have forms; the others show one.
Lists == {"list", "leads", "contacts"}
Forms == {"items", "work"}
Parts == Lists \cup Forms \cup {"detail", "billing", "health", "client"}

\* What the part p shows when it is read for row r.  A page without a selection is
\* about its first row, whichever a handler has changed.
Seen(p, r) ==
  CASE p \in Lists -> Rows
    [] p \in Forms -> Rows \ {First}
    [] OTHER       -> IF P.picks = << >> THEN {First} ELSE {r}

\* Read with a catch of its own: a failure looks like no rows.
Lenient == {"work"}

\* The tabs of the page of a client that load for themselves, and those whose rows have
\* forms.
Cards    == {"billing", "health"}
RowsTabs == {"client", "work"}

\* Pages on which the user can take the message away: by its button, or, on that of the
\* offers, by opening a form.
Dismissible == {"client", "work", "leads", "offers"}

\* Pages that keep the rows and the failure to read them in one state: where the rows
\* cannot be read there are none, and what says so goes with the next that are.
OneState == {"team", "approvals", "agent", "dashboard"}

\* Without a client, or an assessment, a page returns before it renders any row, or the
\* message.
Blank ==
  \/ page \in RowsTabs /\ DOMAIN shown["detail"] = {}
  \/ page = "health" /\ DOMAIN shown["health"] = {}

-----------------------------------------------------------------------------

Nothing == [r \in {} |-> None]

Chosen == -1    \* what drafts holds instead of a version
Sent   == -2

Idle == [pc |-> "idle", name |-> None, row |-> None, flag |-> None,
         todo |-> << >>, tail |-> 0, got |-> None]

\* A handler that sends its first request.
Handler(name, row, flag, todo, tail) ==
  [pc |-> "sent", name |-> name, row |-> row, flag |-> flag,
   todo |-> todo, tail |-> tail, got |-> None]

Init ==
  /\ page \in Names
  /\ server = [r \in Rows |-> [n |-> 0, client |-> FALSE]]
  /\ shown = [p \in Parts |-> Nothing]
  /\ \E c \in Calls :
       calls = [d \in Calls |->
                  IF d = c THEN Handler("open", First, None, P.opens, 0) ELSE Idle]
  /\ busy = {}
  /\ loading = ("open" \in P.hidden)
  /\ error = FALSE
  /\ choice = First
  /\ drafts = [r \in Rows |-> None]
  /\ past = [events |-> 0, mine |-> [r \in Rows |-> 0], others |-> {}, reverted |-> {},
             gone |-> {}, crossed |-> {}, muddled |-> FALSE, failed |-> FALSE,
             told |-> FALSE, left |-> FALSE, moves |-> 0]

AtWork == {c \in Calls : calls[c].pc # "idle"}
Free(c) == calls[c].pc = "idle"
Turn(c, new) == calls' = [calls EXCEPT ![c] = new]

\* History: the parts that c is about to read while another reading is under way.
Crossing(c, parts) ==
  {p \in parts : \E d \in AtWork \ {c} : p \in Head(calls[d].todo)}

\* History: the user acts while an answer is awaited that may change the row shown.
Upset == IF AtWork # {} THEN {"pick"} ELSE {}

-----------------------------------------------------------------------------
(* The user                                                                *)

MayAct(c) == Free(c) /\ ~loading /\ past.events < MaxEvents

\* handleSelectContact, handlePipelineChange, handlePipelineSelect, loadClientReport.
Pick(c, r) ==
  /\ MayAct(c)
  /\ P.picks # << >> /\ r \in DOMAIN shown["list"]
  /\ Turn(c, Handler("pick", r, None, P.picks, 0))
  /\ choice' = r
  /\ loading' = ("pick" \in P.hidden)
  /\ past' = [past EXCEPT !.events = @ + 1,
                          !.crossed = @ \cup Crossing(c, Head(P.picks))
                                        \cup Upset]
  /\ error' = IF page = "reports" THEN FALSE ELSE error
  /\ UNCHANGED <<page, server, shown, busy, drafts>>

\* The button of the approvals that takes the place of rows that could not be read.
TryAgain(c) ==
  /\ MayAct(c)
  /\ page = "approvals" /\ past.failed /\ shown["list"] = Nothing
  /\ Turn(c, Handler("open", First, None, P.opens, 0))
  /\ past' = [past EXCEPT !.events = @ + 1,
                          !.crossed = @ \cup Crossing(c, Head(P.opens)) \cup Upset]
  /\ UNCHANGED <<page, server, shown, busy, loading, error, choice, drafts>>

\* The flag that a control has for row r.
Flag(a, r) ==
  CASE a.flag = "none" -> None
    [] a.flag = "own"  -> <<a.name>>
    [] a.flag = "row"  -> <<a.name, r>>
    [] a.flag = "one"  -> <<"busyId", r>>

\* mutant of Disabled: the control stays enabled
DisabledNever(a, r) == a.name = None

Disabled(a, r) == Flag(a, r) \in busy

\* The control is there for row r.
Offered(a, r) ==
  CASE a.on = None   -> TRUE
    [] a.on = "page" -> r = First
    [] OTHER         -> r \in DOMAIN shown[a.on]

\* busyId holds one row: setting it forgets another, and resetting it all.
Raised(a, r) ==
  CASE a.flag = "none" -> busy
    [] a.flag = "one"  -> {f \in busy : f[1] # "busyId"} \cup {Flag(a, r)}
    [] OTHER           -> busy \cup {Flag(a, r)}

Lowered(f) ==
  IF f = None THEN busy
  ELSE {g \in busy : g # f /\ ~(f[1] = "busyId" /\ g[1] = "busyId")}

\* The row's own form: its select and its save button.
Savable(a, r) == a.flag = "row" => drafts[r] # shown[a.on][r].n

Choose(r) ==
  /\ ~loading /\ past.events < MaxEvents
  /\ \E p \in Forms : r \in DOMAIN shown[p]
  /\ drafts[r] # Chosen
  /\ drafts' = [drafts EXCEPT ![r] = Chosen]
  /\ past' = [past EXCEPT !.events = @ + 1]
  /\ UNCHANGED <<page, server, shown, calls, busy, loading, error, choice>>

\* mutant of Follows: the page is left as it was
FollowsNothing(a) == [then |-> << >>, tail |-> << >>]

Follows(a) == [then |-> a.then, tail |-> a.tail]

\* The handler of a control: the request, and what is read again.
Submit(c, a, r) ==
  /\ MayAct(c)
  /\ Offered(a, r) /\ ~Disabled(a, r) /\ Savable(a, r)
  /\ Turn(c, Handler(a.name, r, Flag(a, r),
                     <<{"act"}>> \o Follows(a).then \o Follows(a).tail,
                     Len(Follows(a).tail)))
  /\ busy' = Raised(a, r)
  /\ error' = FALSE
  /\ past' = [past EXCEPT
       !.events = @ + 1,
       !.told = FALSE,
       !.crossed = @ \cup Upset,
       !.reverted = IF a.flag = "row" /\ drafts[r] \in 0 .. shown[a.on][r].n - 1
                    THEN @ \cup {r} ELSE @,
       !.muddled = @ \/ (a.flag = "one" /\ \E d \in AtWork : calls[d].row # r)]
  /\ drafts' = IF a.flag = "row" THEN [drafts EXCEPT ![r] = Sent] ELSE drafts
  /\ UNCHANGED <<page, server, shown, loading, choice>>

\* The user takes the message away.
Dismiss ==
  /\ page \in Dismissible /\ error /\ ~Blank /\ ~loading
  /\ error' = FALSE
  /\ past' = [past EXCEPT !.told = TRUE]
  /\ UNCHANGED <<page, server, shown, calls, busy, loading, choice, drafts>>

-----------------------------------------------------------------------------
(* The tabs of the page of a client                                        *)

\* The parts that show row r with a form, and the version they show.
Showing(view, r) == {p \in Forms : r \in DOMAIN view[p]}
Status(view, r)  == view[CHOOSE p \in Showing(view, r) : TRUE][r].n

\* A row's form takes the status of the row when it is first shown, and is gone when
\* the row is.
Mounted(new) ==
  [r \in Rows |-> IF Showing(new, r) = {} THEN None
                  ELSE IF drafts[r] = None THEN Status(new, r) ELSE drafts[r]]

\* All forms are new: each has the status that its row is shown with.
Remounted ==
  [r \in Rows |-> IF Showing(shown, r) = {} THEN None ELSE Status(shown, r)]

Changes(c) == c \in AtWork /\ Head(calls[c].todo) = {"act"}

\* The form of a row: its flag is of the row.
OfARow(f) == f # None /\ f[1] = "update"

\* setTab: the user goes to another tab and comes back.  The forms of the rows, and what
\* they had as flags, are new; the handlers go on, which are the page's.
RemountRows ==
  /\ page \in RowsTabs /\ ~loading /\ ~Blank /\ past.moves < MaxMoves
  /\ drafts' = Remounted
  /\ busy' = {f \in busy : ~OfARow(f)}
  /\ calls' = [c \in Calls |-> IF OfARow(calls[c].flag) THEN [calls[c] EXCEPT !.flag = None]
                               ELSE calls[c]]
  /\ past' = [past EXCEPT
       !.moves = @ + 1,
       !.gone = @ \cup {r \in Rows : \/ \E c \in Calls : Changes(c) /\ calls[c].row = r
                                    \/ Remounted[r] \in 0 .. past.mine[r] - 1}]
  /\ UNCHANGED <<page, server, shown, loading, error, choice>>

\* What is left of a handler whose card is gone: a change that is under way; nothing
\* shows what comes of it, or what is read after it.
Stranded(c) ==
  IF Changes(c)
  THEN [calls[c] EXCEPT !.name = "left", !.flag = None, !.todo = <<{"act"}>>, !.tail = 0]
  ELSE Idle

\* setTab, where the tab is one that loads for itself: it starts anew.
RemountCard(c) ==
  /\ page \in Cards /\ Free(c) /\ past.moves < MaxMoves
  /\ calls' = [d \in Calls |-> IF d = c THEN Handler("open", First, None, P.opens, 0)
                               ELSE Stranded(d)]
  /\ shown' = [p \in Parts |-> Nothing]
  /\ busy' = {}
  /\ loading' = TRUE
  /\ error' = FALSE
  /\ past' = [past EXCEPT !.moves = @ + 1,
                          !.told = FALSE,
                          !.left = @ \/ \E d \in Calls : Changes(d) /\ calls[d].pc = "sent",
                          !.crossed = @ \cup Upset]
  /\ UNCHANGED <<page, server, choice, drafts>>

-----------------------------------------------------------------------------
(* The server                                                              *)

Reading(c) ==
  [p \in Head(calls[c].todo) |-> [r \in Seen(p, calls[c].row) |-> server[r]]]

Written(c) ==
  [server EXCEPT ![calls[c].row] =
     [n |-> @.n + 1, client |-> @.client \/ calls[c].name = "convert"]]

\* A request is carried out.  What a form has sent is, until the user chooses
\* again, what the row now has.
Serve(c) ==
  LET f == calls[c]
      r == f.row
  IN  /\ f.pc = "sent"
      /\ IF Head(f.todo) # {"act"}
         THEN /\ Turn(c, [f EXCEPT !.pc = "served", !.got = Reading(c)])
              /\ UNCHANGED <<server, drafts, past>>
         ELSE /\ server[r].n < MaxVersion
              /\ server' = Written(c)
              /\ drafts' = IF drafts[r] = Sent THEN [drafts EXCEPT ![r] = server'[r].n] ELSE drafts
              /\ past' = [past EXCEPT !.mine[r] = server'[r].n]
              /\ Turn(c, [f EXCEPT !.pc = "served"])
      /\ UNCHANGED <<page, shown, busy, loading, error, choice>>

\* Another user changes a row, once.
Others(r) ==
  /\ past.others = {}
  /\ server[r].n < MaxVersion
  /\ server' = [server EXCEPT ![r].n = @ + 1]
  /\ past' = [past EXCEPT !.others = @ \cup {r}]
  /\ UNCHANGED <<page, shown, calls, busy, loading, error, choice, drafts>>

-----------------------------------------------------------------------------
(* The answers                                                             *)

\* The effect of the contacts page: the panel of the client is emptied when the
\* contact, or the account it has, is another one than before, and is read again
\* if there is an account.
Renewed(r, was, is) ==
  page = "contacts" /\ (DOMAIN was # {r} \/ was[r].client # is[r].client)

After(c) ==
  LET f == calls[c]
      rest == Tail(f.todo)
  IN  IF Head(f.todo) = {"detail"} /\ page = "contacts"
         /\ ~(Renewed(f.row, shown["detail"], f.got["detail"]) /\ f.got["detail"][f.row].client)
      THEN Tail(rest) ELSE rest

Displayed(c) ==
  LET f == calls[c] IN
    IF Head(f.todo) = {"act"} THEN shown
    ELSE [p \in Parts |->
            IF p \in Head(f.todo) THEN f.got[p]
            ELSE IF p = "client" /\ Head(f.todo) = {"detail"}
                    /\ Renewed(f.row, shown["detail"], f.got["detail"])
              THEN Nothing
            ELSE shown[p]]

\* The handler goes on to its next request, or is over.
GoOn(c, rest) ==
  LET f == calls[c]
      \* a reload by handlePipelineSelect shows its spinner
      again == rest # << >> /\ f.name \notin {"open", "pick"} /\ "pick" \in P.hidden
  IN  /\ Turn(c, IF rest = << >> THEN Idle
                 ELSE [f EXCEPT !.pc = "sent", !.todo = rest, !.got = None])
      /\ busy' = IF Len(f.todo) > f.tail /\ Len(rest) <= f.tail
               THEN Lowered(f.flag) ELSE busy
      /\ loading' = IF again THEN TRUE
                    ELSE IF rest = << >> /\ (f.name \in {"open", "pick"} \/ "pick" \in P.hidden)
                      THEN FALSE
                    ELSE loading

Answer(c) ==
  LET f == calls[c]
      rest == After(c)
  IN  /\ f.pc = "served"
      /\ shown' = Displayed(c)
      /\ drafts' = Mounted(shown')
      /\ GoOn(c, rest)
      /\ choice' = IF f.name = "create" /\ page = "contacts" /\ rest # << >>
                      /\ Head(rest) = {"detail"} THEN f.row ELSE choice
      /\ past' = [past EXCEPT !.crossed =
                    IF rest = << >> THEN @
                    ELSE @ \cup Crossing(c, Head(rest))
                           \cup (IF choice' # choice /\ AtWork # {c} THEN {"pick"} ELSE {})]
      /\ UNCHANGED <<page, server, error>>

\* What is left of a handler when a request fails: what comes after the function that
\* has caught it.
AfterFailure(c) ==
  LET f == calls[c] IN
    CASE page = "contacts" /\ f.name \in {"create", "convert"} /\ Head(f.todo) = {"list"}
           -> ContactSelect
      [] page = "leads" /\ f.name = "open" /\ Head(f.todo) = {"leads"}
           -> Tail(f.todo)
      [] page = "pipelines" /\ f.name = "open" /\ Head(f.todo) # {"contacts"}
           -> <<{"contacts"}>>
      [] OTHER -> << >>

\* The rows of a page that keeps them with the failure to read them.
Unread(c) == page \in OneState /\ Head(calls[c].todo) = {"list"}

\* A request is refused, was not carried out, or its answer is lost.  The message stays
\* until the next submission or until the user takes it away; what has left with its card
\* has none, and that of rows that were not read is in their place.
Fail(c) ==
  LET rest == AfterFailure(c)
  IN  /\ calls[c].pc \in {"sent", "served"}
      /\ GoOn(c, rest)
      /\ error' = IF calls[c].name = "left" \/ Unread(c) THEN error ELSE P.tells
      /\ shown' = IF Unread(c) THEN [shown EXCEPT !["list"] = Nothing] ELSE shown
      /\ past' = [past EXCEPT !.failed = TRUE,
                              !.crossed = @ \cup (IF rest = << >> THEN {} ELSE Crossing(c, Head(rest)))]
      /\ UNCHANGED <<page, server, choice, drafts>>

\* getDeliverables(clientId).catch(() => []).
FailLeniently(c) ==
  LET f == calls[c] IN
    /\ f.pc = "served" /\ Head(f.todo) \cap Lenient # {}
    /\ shown' = [p \in Parts |-> IF p \in Lenient THEN Nothing
                                 ELSE IF p \in Head(f.todo) THEN f.got[p] ELSE shown[p]]
    /\ drafts' = Mounted(shown')
    /\ GoOn(c, Tail(f.todo))
    /\ past' = [past EXCEPT !.gone = @ \cup {r \in Rows : drafts[r] # None /\ drafts'[r] = None}]
    /\ UNCHANGED <<page, server, error, choice>>

Next ==
  \/ \E c \in Calls :
       \/ \E r \in Rows : Pick(c, r)
       \/ \E a \in P.controls, r \in Rows : Submit(c, a, r)
       \/ TryAgain(c)
       \/ Serve(c)
       \/ Answer(c)
       \/ Fail(c)
       \/ FailLeniently(c)
       \/ RemountCard(c)
  \/ \E r \in Rows : Choose(r) \/ Others(r)
  \/ Dismiss
  \/ RemountRows

Spec == Init /\ [][Next]_vars

-----------------------------------------------------------------------------
(* Properties.                                                             *)

\* A page that is at rest shows the row its user picked last, unless it was picked,
\* or a change submitted, while a request was under way, or one has failed; the panel
\* of the client beside a contact is that contact's, unless a request was under way
\* then.
ShowsTheChoice ==
  AtWork = {} =>
    /\ P.picks # << >> /\ "pick" \notin past.crossed /\ ~past.failed =>
         DOMAIN shown["detail"] = {choice}
    /\ "pick" \notin past.crossed =>
         DOMAIN shown["client"] \subseteq DOMAIN shown["detail"]

\* What is read again after a submission.
ReadAgain(a) == UNION {(a.then \o a.tail)[k] : k \in DOMAIN (a.then \o a.tail)}

\* What the user sees of a part.
Visible(p) == IF Blank THEN {} ELSE DOMAIN shown[p]

\* The page says that something failed, or has said so since the last submission; those
\* that never say so have had a failure.
Admits == IF P.tells THEN (error /\ ~Blank) \/ past.told ELSE past.failed

\* At rest the rows that a page shows are as its user has changed them, unless the page
\* admits to a failure, the user left the tab of a change before it was carried out, or
\* an earlier reading of the same part was still under way when it read again.
OwnWritesShow ==
  AtWork = {} /\ ~Admits /\ ~past.left =>
    \A a \in P.controls :
      \A p \in ReadAgain(a) \ (past.crossed \cup {"client"}) :
        \A r \in Visible(p) : shown[p][r].n >= past.mine[r]

\* A control that is disabled while its request is out has one request out at a time, as
\* long as its tab stays; on the pages that remember one busy row, as long as one row is
\* worked on at a time.
OneAtATime ==
  \A c, d \in AtWork :
    c # d /\ calls[c].flag # None /\ calls[c].flag = calls[d].flag =>
      \/ Len(calls[c].todo) <= calls[c].tail \/ Len(calls[d].todo) <= calls[d].tail
      \/ past.muddled

\* A row's form undoes a change, without its user having chosen anything, only where
\* somebody else has changed the row; where the form was taken away by a reading that
\* failed and came back with one that was older than the user's last change; or where the
\* user left its tab before a change of the row was carried out and shown.
SavesAreChosen == past.reverted \subseteq past.others \cup past.gone

\* What a page at rest shows is what its user has picked and changed (the two parts
\* above).
PagesTellTheTruth == ShowsTheChoice /\ OwnWritesShow

\* What a page sends is sent once and was meant (the two parts above).
SubmissionsAreDeliberate == OneAtATime /\ SavesAreChosen

\* Types.
TypesHold ==
  /\ page \in Names
  /\ server \in [Rows -> [n : 0 .. MaxVersion, client : BOOLEAN]]
  /\ DOMAIN shown = Parts /\ \A p \in Parts : DOMAIN shown[p] \subseteq Rows
  /\ \A c \in Calls : calls[c].pc \in {"idle", "sent", "served"}
  /\ loading \in BOOLEAN /\ error \in BOOLEAN /\ choice \in Rows
  /\ drafts \in [Rows -> {None, Chosen, Sent} \cup 0 .. MaxVersion]
=============================================================================
