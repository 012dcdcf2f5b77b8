-------------------------- MODULE BrowserInvariants --------------------------
(***************************************************************************)
(* The inductive invariants of the parts of Browser: that of the session,  *)
(* SessionInvariant, and that of a page, PagesInvariant, with what they    *)
(* are made of.  BrowserProofs shows that they are kept.                   *)
(***************************************************************************)
EXTENDS Browser, Sequences

-----------------------------------------------------------------------------
(* The tabs of a browser follow one session (BrowserTabs).                 *)

-----------------------------------------------------------------------------
(* What is known of the variables.                                         *)

Minted == BT!Tokens \ BT!Fresh

Messages == [type : {"ACCESS_TOKEN_UPDATED", "WORKSPACE_SWITCHED", "SESSION_ENDED"},
             token : Nat \cup {None}]

Answers == {"ok", "none", "refused", "out", "lost", "unavailable"}

CallsOfSession ==
  [pc : BT!OnTheWay \cup {"idle", "wait", "await"},
   op : BT!SessionOps \cup {"request", None},
   sent : Nat \cup {None}, to : Workspaces \cup {None}, before : Nat \cup {None},
   answer : Answers \cup {None}, token : Nat \cup {None}, told : BOOLEAN]

\* A tab that holds no token shows nothing; a tab that is closed has nothing.
TabOK(b) ==
  /\ tabs[b].token \in Minted \cup {None}
  /\ tabs[b].state = "AUTHENTICATED" \/ tabs[b].screen \in Workspaces => tabs[b].token # None
  /\ tabs[b].state = "closed" =>
       /\ tabs[b] = BT!Closed /\ channel[b] = << >>
       /\ \A k \in BT!Who : BT!At(b, k, "idle")

\* What a tab is yet to be told.
ChannelOK(b) ==
  \A i \in DOMAIN channel[b] :
    channel[b][i].type # "SESSION_ENDED" => channel[b][i].token \in Minted

\* A call of a kind and in a state that its part of the tab makes.
FetchOK(b, k) ==
  LET f == fetches[b][k] IN
    /\ f.sent \in Minted \cup {None}
    /\ f.pc \in BT!OnTheWay =>
         f.op \in BT!SessionOps /\ (f.op = "refresh" <=> k = "refresh")
    /\ f.pc \in {"answered", "arrived"} => f.answer # None
    /\ f.pc \in {"answered", "arrived"} /\ f.answer = "ok" =>
         f.op \in BT!Minting /\ f.token \in Minted
    /\ f.pc = "begun" => f.op \in {"refresh", "switch"} /\ f.sent # None
    /\ f.op \in {"switch", "select", "accept"} => f.to \in Workspaces
    /\ f.pc = "wait" => k = "refresh"
    /\ f.pc = "await" => k = "user"

\* The lock is held or awaited by the tabs that refresh, once each, and who is on the
\* way has it.
QueueOK ==
  /\ \A i, j \in DOMAIN queue : queue[i] = queue[j] => i = j
  /\ \A b \in Tabs : ~BT!At(b, "refresh", "idle") <=> \E i \in DOMAIN queue : queue[i] = b
  /\ \A b \in Tabs : fetches[b].refresh.pc \in BT!OnTheWay => queue[1] = b

HomeTyped == \E max \in {ManyTokens, FewTokens} : home \in [1 .. max -> Workspaces \cup {None}]

SessionTyped ==
  /\ HomeTyped
  /\ cookie \in Minted \cup {None}
  /\ live \subseteq Minted
  /\ queue \in Seq(Tabs)
  /\ channel \in [Tabs -> Seq(Messages)]
  /\ tabs \in [Tabs -> BT!Tab]
  /\ fetches \in [Tabs -> [BT!Who -> CallsOfSession]]
  /\ past \subseteq BT!Notes
  /\ \A b \in Tabs : TabOK(b) /\ ChannelOK(b) /\ \A k \in BT!Who : FetchOK(b, k)
  /\ QueueOK

-----------------------------------------------------------------------------
(* The invariant.                                                          *)

\* The session call k of tab b is under way.
Way(b, k) == fetches[b][k].pc \in BT!OnTheWay

\* Without an upset one session call is under way at a time, and a user who makes one
\* has heard everything.
OneCall ==
  /\ \A b, c \in Tabs : \A k, l \in BT!Who : Way(b, k) /\ Way(c, l) => b = c /\ k = l
  /\ \A b \in Tabs : Way(b, "user") => channel[b] = << >>

\* The call agrees with the cookie: it has left with it, or has brought it.
CallAgrees ==
  \A b \in Tabs : \A k \in BT!Who : LET c == fetches[b][k] IN
    /\ c.pc \in {"sent", "begun"} => c.sent = cookie
    /\ c.pc \in {"answered", "arrived"} =>
         /\ c.answer \in {"ok", "none", "refused", "out"}
         /\ c.answer = "refused" => c.op = "switch"
         /\ c.answer = "none" => cookie = None
         /\ c.answer = "ok" => c.token \in live
    /\ c.pc = "arrived" => cookie = IF c.answer = "ok" THEN c.token ELSE None

CookieIsLive ==
  cookie # None /\ (\A b \in Tabs : \A k \in BT!Who : fetches[b][k].pc # "answered")
    => cookie \in live

\* Tokens that b holds or is to hold, unless it is told of a switch after them.
Held(b) ==
  {t \in Minted :
     \/ t = tabs[b].token /\ ~BT!Untold(b)
     \/ \E i \in DOMAIN channel[b] :
          /\ channel[b][i].token = t /\ channel[b][i].type # "SESSION_ENDED"
          /\ \A j \in DOMAIN channel[b] : j > i => channel[b][j].type # "WORKSPACE_SWITCHED"}

\* A switch or a login that has come back and is yet to be told.
Turning(c) ==
  c.pc = "arrived" /\ c.op \in {"switch", "select", "accept"} /\ c.answer = "ok"

\* The session is of workspace w: for every tab, for the cookie, for the refresh that is
\* under way and for the requests that await it.
IsOf(w) ==
  /\ \A b \in Tabs : \A t \in Held(b) : home[t] = w
  /\ cookie # None /\ (\A b \in Tabs : ~Turning(fetches[b].user)) => home[cookie] = w
  /\ \A b \in Tabs : LET c == fetches[b].refresh IN
       c.pc \in {"answered", "arrived"} /\ c.answer = "ok" => home[c.token] = w
  /\ \A b \in Tabs : LET c == fetches[b].user IN
       c.pc = "await" /\ ~c.told /\ ~BT!Untold(b) => c.to = w

OneWorkspace == \E w \in Workspaces : IsOf(w)

\* A page shows the workspace of its tab's token.
ScreensAgree ==
  \A b \in Tabs : tabs[b].screen \in Workspaces /\ ~tabs[b].leaving /\ ~BT!Untold(b) =>
    home[tabs[b].token] = tabs[b].screen

\* After a logout no cookie is left, no call that could bring one, and every tab knows
\* or will hear of it last.
IsOut ==
  "out" \in past =>
    /\ cookie = None
    /\ \A b \in Tabs : \A k \in BT!Who : LET c == fetches[b][k] IN
         Way(b, k) => c.sent = None /\ c.op \notin {"select", "accept"} /\ c.answer # "ok"
    /\ \A b \in Tabs :
         \/ channel[b] = << >> /\ tabs[b].token = None
         \/ channel[b] # << >> /\ channel[b][Len(channel[b])].type = "SESSION_ENDED"

Sound ==
  /\ OneCall /\ CallAgrees /\ CookieIsLive /\ OneWorkspace /\ ScreensAgree /\ IsOut
  /\ "alarm" \notin past /\ "strayed" \notin past

SessionInvariant == SessionTyped /\ (BT!Upset \/ Sound)

-----------------------------------------------------------------------------
(* A page at rest tells the truth, and sends what was meant (Pages).       *)

-----------------------------------------------------------------------------
(* What is known of the variables.                                         *)

Version == [n : 0 .. MaxVersion, client : BOOLEAN]

\* What a part shows, and what one request asks for and brings.
Views == UNION {[S -> Version] : S \in SUBSET Rows}
Requests == (SUBSET PG!Parts) \cup {{"act"}}
Results == UNION {[S -> Views] : S \in SUBSET PG!Parts}

\* What a handler still asks for: a submission comes first, the deliverables last; on
\* the page of contacts the panel of the client is the last and comes after its contact,
\* which comes after the list.
Script(t) ==
  /\ t \in Seq(Requests) /\ t # << >>
  /\ \A k \in DOMAIN t :
       /\ t[k] = {"act"} => k = 1
       /\ "work" \in t[k] => page = "work" /\ k = Len(t)
       /\ page # "contacts" => "client" \notin t[k]
       /\ page = "contacts" =>
            /\ "detail" \in t[k] => t[k] = {"detail"} /\ k + 1 = Len(t) /\ t[k + 1] = {"client"}
            /\ "client" \in t[k] =>
               t[k] = {"client"} /\ k = Len(t) /\ (k > 1 => t[k - 1] = {"detail"})
            /\ "list" \in t[k] => t[k] = {"list"} /\ k + 2 = Len(t) /\ t[k + 1] = {"detail"}

\* What a control has its handler ask for.
Order(a) == <<{"act"}>> \o a.then \o a.tail

ControlNames ==
  {"update", "activate", "payment", "outsideScope", "regenerate", "recalculate", "override",
   "clear", "create", "convert", "submit", "lifecycle", "invite", "member", "resolve", "run",
   "move"}

\* The flags of controls, and those a handler may have for its row.
Flags == {<<n>> : n \in ControlNames} \cup {<<n, r>> : n \in ControlNames \cup {"busyId"},
  r \in Rows}

FlagsFor(r) == {<<n>> : n \in ControlNames} \cup {<<n, r>> : n \in ControlNames \cup {"busyId"}}

Handlers ==
  [pc : {"idle", "sent", "served"}, name : ControlNames \cup {"open", "pick", "left", None},
   row : Rows \cup {None}, flag : Flags \cup {None}, todo : Seq(Requests), tail : Nat,
   got : Results \cup {None}]

\* A handler that submits is that of a control; its flag may be gone with its form.
Submits(c, a) ==
  /\ calls[c].name = a.name /\ calls[c].flag \in {PG!Flag(a, calls[c].row), None}
  /\ calls[c].todo = Order(a) /\ calls[c].tail = Len(a.tail)

\* What is left of one whose card is gone.
Left(c) ==
  /\ calls[c].name = "left" /\ calls[c].flag = None
  /\ calls[c].todo = <<{"act"}>> /\ page \in PG!Cards

Acts(c) == Head(calls[c].todo) = {"act"}
Reads(c, p) == p \in Head(calls[c].todo)

Histories ==
  [events : Nat, mine : [Rows -> 0 .. MaxVersion], others : SUBSET Rows, reverted : SUBSET Rows,
   gone : SUBSET Rows, crossed : SUBSET (PG!Parts \cup {"pick"}), muddled : BOOLEAN,
   failed : BOOLEAN, told : BOOLEAN, left : BOOLEAN, moves : Nat]

HandlerOK(c) ==
  LET f == calls[c] IN
    /\ f.row \in Rows
    /\ Script(f.todo)
    /\ f.name \in {"open", "pick"} => f.flag = None
    /\ f.flag \in FlagsFor(f.row) \cup {None}
    /\ Acts(c) => Left(c) \/ \E a \in PG!P.controls : Submits(c, a)
    /\ f.name = "left" => Left(c)
    /\ f.pc = "served" /\ ~Acts(c) =>
         /\ f.got \in [Head(f.todo) -> Views]
         /\ \A p \in Head(f.todo) : DOMAIN f.got[p] = PG!Seen(p, f.row)

ScreensTyped ==
  /\ page \in PG!Names
  /\ server \in [Rows -> Version]
  /\ shown \in [PG!Parts -> Views]
  /\ calls \in [Pair -> Handlers]
  /\ busy \subseteq Flags
  /\ loading \in BOOLEAN /\ error \in BOOLEAN /\ choice \in Rows
  /\ drafts \in [Rows -> {None, PG!Chosen, PG!Sent} \cup 0 .. MaxVersion]
  /\ past \in Histories
  /\ \A c \in PG!AtWork : HandlerOK(c)

-----------------------------------------------------------------------------
(* The invariant.                                                          *)

\* A handler that has its flag raised.
Holds(c) == calls[c].flag # None /\ Len(calls[c].todo) > calls[c].tail

\* The flags that are raised are of one handler each, and busyId is of one.
FlagsAreHeld ==
  ~past.muddled =>
    /\ \A c \in PG!AtWork : Holds(c) => calls[c].flag \in busy
    /\ \A c, d \in PG!AtWork :
         c # d /\ Holds(c) /\ Holds(d) =>
           /\ calls[c].flag # calls[d].flag
           /\ ~(calls[c].flag[1] = "busyId" /\ calls[d].flag[1] = "busyId")

\* While nothing has overlapped, one handler is at work.
OneIsAtWork == "pick" \notin past.crossed => \A c, d \in PG!AtWork : c = d

\* The handler at work is about to show the row its user has picked, or it is shown.
ChoiceIsShown ==
  PG!P.picks # << >> /\ "pick" \notin past.crossed /\ ~past.failed =>
    /\ \A c \in PG!AtWork : \A k \in DOMAIN calls[c].todo :
         "detail" \in calls[c].todo[k] =>
           \/ calls[c].row = choice
           \/ page = "contacts" /\ calls[c].name = "create" /\ k > 1
    /\ (\A c \in PG!AtWork : \A k \in DOMAIN calls[c].todo :
          "detail" \notin calls[c].todo[k]) =>
         DOMAIN shown["detail"] = {choice}

\* The panel of the client is about the contact beside it.
PanelBelongs ==
  /\ page # "contacts" => DOMAIN shown["client"] = {}
  /\ "pick" \notin past.crossed =>
       /\ DOMAIN shown["client"] \subseteq DOMAIN shown["detail"]
       /\ \A c \in PG!AtWork :
            Head(calls[c].todo) = {"client"} => DOMAIN shown["detail"] = {calls[c].row}

\* Nothing that is shown or on its way is newer than the server, nor is what the user
\* has written.
NothingIsAhead ==
  /\ \A r \in Rows : past.mine[r] <= server[r].n
  /\ \A p \in PG!Parts : \A r \in DOMAIN shown[p] : shown[p][r].n <= server[r].n
  /\ \A c \in PG!AtWork : calls[c].pc = "served" /\ ~Acts(c) =>
       \A p \in Head(calls[c].todo) : \A r \in DOMAIN calls[c].got[p] :
         calls[c].got[p][r].n <= server[r].n

\* A part that has not been crossed is read by one handler at a time.
OneReader ==
  \A p \in PG!Parts \ past.crossed : \A c, d \in PG!AtWork : Reads(c, p) /\ Reads(d, p) => c = d

\* The page admits to a failure, or has, or the user has left a change.
Broken == (IF PG!P.tells THEN error \/ past.told ELSE past.failed) \/ past.left

\* A change whose card is gone and that is not carried out yet has been left.
StrandedAreKnown ==
  \A c \in PG!AtWork : calls[c].name = "left" /\ calls[c].pc = "sent" => past.left

\* The part p has still to be read; it was, since the user's last change; it is shown.
WillRead(c, p) ==
  \E k \in DOMAIN calls[c].todo : p \in calls[c].todo[k] /\ (k > 1 \/ calls[c].pc = "sent")
HasRead(c, p) == calls[c].pc = "served" /\ Reads(c, p)
Recent(view) == \A r \in DOMAIN view : view[r].n >= past.mine[r]

WritesArrive ==
  ~Broken =>
    \A a \in PG!P.controls : \A p \in PG!ReadAgain(a) \ (past.crossed \cup {"client"}) :
      \/ \E c \in PG!AtWork : WillRead(c, p)
      \/ \E c \in PG!AtWork : HasRead(c, p) /\ Recent(calls[c].got[p])
      \/ (\A c \in PG!AtWork : ~HasRead(c, p)) /\ Recent(shown[p])

\* On the page of a client: a form has a version of its row only while that is the one
\* the server has, unless another user has changed it; an untouched row has not been
\* changed at all; what the server has is then what the user wrote last.
Kept == Rows \ ({FirstRow} \cup past.others \cup past.gone)

FormIsCurrent(r) ==
  /\ drafts[r] \in Nat => drafts[r] = server[r].n
  /\ drafts[r] = None => server[r].n = 0
  /\ past.mine[r] = server[r].n
  /\ \A c \in PG!AtWork :
       Acts(c) /\ calls[c].row = r =>
          /\ calls[c].flag = <<"update", r>> /\ drafts[r] # None
          /\ calls[c].pc = "sent" => drafts[r] \notin Nat

FormsAreCurrent ==
  page \in {"client", "work"} =>
    /\ ~past.muddled
    /\ DOMAIN shown["detail"] \subseteq {FirstRow}
    /\ \A p \in PG!Forms : FirstRow \notin DOMAIN shown[p]
    /\ \A r \in Rows : drafts[r] = None <=> \A p \in PG!Forms : r \notin DOMAIN shown[p]
    /\ \A r \in Kept : FormIsCurrent(r)

PagesInvariant ==
  /\ ScreensTyped
  /\ FlagsAreHeld /\ OneIsAtWork /\ ChoiceIsShown /\ PanelBelongs
  /\ NothingIsAhead /\ OneReader /\ WritesArrive
  /\ FormsAreCurrent /\ PG!SavesAreChosen /\ StrandedAreKnown

-----------------------------------------------------------------------------
(* The pages.                                                              *)

\* What is true of each control of each page.
ControlOK(a) ==
  /\ a.name \in ControlNames /\ a.flag \in {"none", "own", "row", "one"}
  /\ a.on \in PG!Parts \cup {"page", None}
  /\ a.then \in Seq(SUBSET PG!Parts) /\ a.tail \in Seq(SUBSET PG!Parts)
  /\ Script(Order(a)) /\ Len(Order(a)) > Len(a.tail)
  /\ a.flag = "row" => page \in {"client", "work"} /\ a.name = "update" /\ a.on \in PG!Forms
  /\ page \in {"client", "work"} => a.flag # "one" /\ (a.flag = "row" \/ a.on = "detail")
  /\ PG!P.picks # << >> /\ (\E k \in DOMAIN Order(a) : "detail" \in Order(a)[k]) =>
       a.on = "detail" \/ (page = "contacts" /\ a.name = "create")
  /\ \A p \in PG!ReadAgain(a) : \E k \in DOMAIN Order(a) : k > 1 /\ p \in Order(a)[k]

PageOK ==
  /\ Script(PG!P.opens) /\ PG!P.opens[1] # {"act"}
  /\ PG!P.picks # << >> =>
       /\ Script(PG!P.picks) /\ PG!P.picks[1] # {"act"}
       /\ page \in {"contacts", "leads", "pipelines", "reports"}
       /\ \E k \in DOMAIN PG!P.picks : "detail" \in PG!P.picks[k]
       /\ \E k \in DOMAIN PG!P.opens : "detail" \in PG!P.opens[k]
  /\ page = "contacts" => PG!P.picks # << >>
  /\ PG!P.tells \in BOOLEAN /\ (page \in PG!Dismissible => PG!P.tells)
  /\ page \in PG!Cards =>
       /\ PG!P.picks = << >> /\ PG!P.tells
       /\ \A a \in PG!P.controls : \A p \in PG!ReadAgain(a) : \E k \in DOMAIN PG!P.opens : p \in PG!P.opens[k]
  /\ page \in PG!OneState => PG!P.picks = << >> /\ \A a \in PG!P.controls : PG!ReadAgain(a)
     \subseteq {"list"}
  /\ page = "reports" => PG!P.controls = {}
  /\ \A a \in PG!P.controls : ControlOK(a)
  /\ \A a, b \in PG!P.controls : PG!ReadAgain(a) = PG!ReadAgain(b)
=============================================================================
