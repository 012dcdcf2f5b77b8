----------------------------- MODULE BrowserTabs -----------------------------
(***************************************************************************)
(* The session of one browser (frontend/src/lib/session, the routes under  *)
(* frontend/src/app/api/session, and request of frontend/src/lib/api.ts).  *)
(*                                                                         *)
(* The tabs share one refresh cookie, one lock and one broadcast channel;  *)
(* each holds an access token of its own in memory.  A session call sends  *)
(* the cookie, is handled by the backend, comes back and sets the cookie,  *)
(* and is then continued by its tab; other tabs act in between.  What the  *)
(* backend does with a token is the subject of RefreshTokens.  Here an     *)
(* access token and the refresh token minted with it have one name.        *)
(***************************************************************************)
EXTENDS Integers, FiniteSets, Sequences

CONSTANTS
  Tabs,
  Workspaces,
  Limits,      \* bounds on the tokens minted, one for each kind of behaviour
  None         \* null

VARIABLES
  cookie,      \* the refresh token the browser holds, or None
  home,        \* the workspace each token was minted for, or None
  live,        \* tokens that are not revoked
  queue,       \* the tabs that hold (first) or await the refresh lock
  channel,     \* what each tab has yet to be told
  tabs,        \* what each tab holds in memory and shows
  fetches,     \* each tab's refresh, and the call its user has made
  past         \* *history* what can upset a session

vars == <<cookie, home, live, queue, channel, tabs, fetches, past>>

backend == <<home, live>>

\* The tokens of this behaviour, minted or not.
Tokens == DOMAIN home

States == {"closed", "RESTORING", "AUTHENTICATED", "UNAUTHENTICATED",
           "WORKSPACE_SELECTION_REQUIRED"}

\* Why a choice of workspace is awaited: with a password just proved, or not.
Reasons == {"LOGIN", "SWITCH"}

\* screen: the workspace whose data is on show, or the sign-in page.  leaving: a
\* full load has been asked for.
Tab == [state : States, token : Tokens \cup {None},
        screen : Workspaces \cup {"sign-in", None},
        pending : Reasons \cup {None}, leaving : BOOLEAN]

Closed == [state |-> "closed", token |-> None, screen |-> None, pending |-> None,
           leaving |-> FALSE]

\* told: its page is being left, or its tab was told of a switch since it began.
Idle == [pc |-> "idle", op |-> None, sent |-> None, to |-> None, before |-> None,
         answer |-> None, token |-> None, told |-> FALSE]

Who == {"refresh", "user"}

\* Calls of session routes, and those of them that may mint a token.
SessionOps == {"refresh", "switch", "select", "accept", "logout"}
Minting == {"refresh", "switch", "select", "accept"}

Message(type, n) == [type |-> type, token |-> n]

\* A browser with the cookie of a session, or without.
Init ==
  /\ \E w \in Workspaces, n \in {None, 1}, max \in Limits :
       /\ cookie = n
       /\ home = [t \in 1 .. max |-> IF t = n THEN w ELSE None]
       /\ live = {n} \ {None}
  /\ queue = << >>
  /\ channel = [b \in Tabs |-> << >>]
  /\ tabs = [b \in Tabs |-> Closed]
  /\ fetches = [b \in Tabs |-> [k \in Who |-> Idle]]
  /\ past = {}

At(b, k, pc) == fetches[b][k].pc = pc
Open == {b \in Tabs : tabs[b].state # "closed"}
OnTheWay == {"sent", "begun", "answered", "arrived"}

\* Calls of session routes that are under way.
Under == {f \in Tabs \X Who :
            fetches[f[1]][f[2]].pc \in OnTheWay /\ fetches[f[1]][f[2]].op \in SessionOps}

Fresh == {n \in Tokens : home[n] = None}

\* The bounds: a call starts only if there is a token left for its answer and no
\* tab has more than one message to hear.
Room ==
  /\ Cardinality({f \in Tabs \X Who : fetches[f[1]][f[2]].op \in Minting}) < Cardinality(Fresh)
  /\ \A b \in Tabs : Len(channel[b]) <= 1

Put(b, k, f) == fetches' = [fetches EXCEPT ![b][k] = f]

\* What can upset a session other than a fault of the program: calls that were
\* lost, tabs that went away in the middle of one, and session calls outside the
\* refresh lock that overlapped another call or the news of it.
Upsets == {"crossed", "lost", "dropped"}
Upset == past \cap Upsets # {}

\* After an upset nothing else is noted.
Noted(what) == IF Upset THEN past
               ELSE IF what \cap Upsets # {} THEN what \cap Upsets ELSE past \cup what
Note(what) == past' = Noted(what)

\* A session call leaves with the cookie of the browser.
Sent(op, to) == [Idle EXCEPT !.pc = "sent", !.op = op, !.sent = cookie, !.to = to]

\* A call outside the refresh lock overlaps another, or the news of one.
Crossing(b, k) ==
  IF \/ \E f \in Under \ {<<b, k>>} : {k, f[2]} # {"refresh"}
     \/ k = "user" /\ channel[b] # << >>
  THEN {"crossed"} ELSE {}

Told(b, m) ==
  [u \in Tabs |-> IF u \in Open \ {b} THEN Append(channel[u], m) ELSE channel[u]]
Tell(b, m) == channel' = Told(b, m)

\* applySession, clearSessionLocally
Applied(tab, n) == [tab EXCEPT !.state = "AUTHENTICATED", !.token = n]

Cleared(tab) == [tab EXCEPT !.state = "UNAUTHENTICATED", !.token = None,
                            !.screen = "sign-in", !.pending = None]

\* The queue for the lock without b, which is in it once at most.
Without(b) ==
  IF \E i \in DOMAIN queue : queue[i] = b
  THEN LET i == CHOOSE i \in DOMAIN queue : queue[i] = b
       IN  [k \in 1 .. Len(queue) - 1 |-> queue[IF k < i THEN k ELSE k + 1]]
  ELSE queue

-----------------------------------------------------------------------------
(* A session call at the backend and back.                                 *)

Answered(b, k, answer, n) ==
  Put(b, k, [fetches[b][k] EXCEPT !.pc = "answered", !.answer = answer, !.token = n])

Mint(b, k, w) ==
  \E n \in Fresh :
    /\ \A m \in Fresh : n <= m
    /\ home' = [home EXCEPT ![n] = w]
    /\ live' = (live \ {fetches[b][k].sent}) \cup {n}
    /\ Answered(b, k, "ok", n)

\* selectWorkspace: after a password, and without the cookie; the acceptance of an
\* invitation ends in it.
HandleSelect(b, k) ==
  /\ At(b, k, "sent") /\ fetches[b][k].op \in {"select", "accept"}
  /\ \E n \in Fresh :
       /\ \A m \in Fresh : n <= m
       /\ home' = [home EXCEPT ![n] = fetches[b][k].to]
       /\ live' = live \cup {n}
       /\ Answered(b, k, "ok", n)
  /\ UNCHANGED <<cookie, queue, channel, tabs, past>>

\* The outcome of the revocation is not looked at.
HandleLogout(b, k) ==
  /\ At(b, k, "sent") /\ fetches[b][k].op = "logout"
  /\ \E heard \in BOOLEAN : live' = IF heard THEN live \ {fetches[b][k].sent} ELSE live
  /\ Answered(b, k, "out", None)
  /\ UNCHANGED <<cookie, home, queue, channel, tabs, past>>

\* The route refuses a call without a cookie; the backend looks the token up,
\* and takes one that is spent as a stolen copy.
ReadToken(b, k) ==
  LET n == fetches[b][k].sent IN
    /\ At(b, k, "sent") /\ fetches[b][k].op \in {"refresh", "switch"}
    /\ IF n = None THEN Answered(b, k, "none", None) /\ UNCHANGED <<backend, past>>
       ELSE IF n \in live
       THEN Put(b, k, [fetches[b][k] EXCEPT !.pc = "begun"]) /\ UNCHANGED <<backend, past>>
       ELSE /\ live' = {}
            /\ Answered(b, k, "refused", None)
            /\ Note({"alarm"})
            /\ UNCHANGED home
    /\ UNCHANGED <<cookie, queue, channel, tabs>>

\* The loser of a race is only refused.  A switch to a workspace the account has
\* left spends the token for nothing.
ClaimToken(b, k) ==
  LET f == fetches[b][k] IN
    /\ At(b, k, "begun")
    /\ \/ f.sent \in live /\ Mint(b, k, IF f.op = "switch" THEN f.to ELSE home[f.sent])
       \/ /\ f.sent \in live /\ f.op = "switch"
          /\ live' = live \ {f.sent}
          /\ Answered(b, k, "refused", None)
          /\ UNCHANGED home
       \/ /\ f.sent \notin live
          /\ Answered(b, k, "refused", None)
          /\ UNCHANGED backend
    /\ UNCHANGED <<cookie, queue, channel, tabs, past>>

\* mutant of Baked: logging out leaves the cookie
BakedOn(f) == IF f.answer = "ok" THEN f.token ELSE IF f.answer = "refused" THEN None ELSE cookie

\* The cookie after an answer: rotated, cleared or as it was.
Baked(f) ==
  CASE f.answer = "ok"                -> f.token
    [] f.answer \in {"refused", "out"} -> None
    [] OTHER                          -> cookie

Arrive(b, k) ==
  /\ At(b, k, "answered")
  /\ cookie' = Baked(fetches[b][k])
  /\ Put(b, k, [fetches[b][k] EXCEPT !.pc = "arrived"])
  /\ UNCHANGED <<backend, queue, channel, tabs, past>>

\* The call or its answer is lost between the backend and the route, which then
\* says "unavailable", or between the route and the browser.
Lose(b, k) ==
  /\ fetches[b][k].pc \in {"sent", "answered"}
  /\ fetches[b][k].op \in SessionOps
  /\ \E answer \in {"lost", "unavailable"} :
       /\ fetches[b][k].op = "logout" => answer = "lost"
       /\ Put(b, k, [fetches[b][k] EXCEPT !.pc = "arrived", !.answer = answer])
  /\ Note({"lost"})
  /\ UNCHANGED <<cookie, backend, queue, channel, tabs>>

-----------------------------------------------------------------------------
(* refreshSession, under the lock                                          *)

\* One refresh at a time in a tab; other callers join it.
Waiting(b) ==
  [Idle EXCEPT !.pc = "wait", !.op = "refresh", !.before = tabs[b].token]

\* The timer of scheduleProactiveRefresh.
ProactiveRefresh(b) ==
  /\ tabs[b].state = "AUTHENTICATED"
  /\ At(b, "refresh", "idle")
  /\ Room
  /\ queue' = Append(queue, b)
  /\ Put(b, "refresh", Waiting(b))
  /\ UNCHANGED <<cookie, backend, channel, tabs, past>>

\* The tab is yet to hear of a switch.
Untold(b) == \E i \in DOMAIN channel[b] : channel[b][i].type = "WORKSPACE_SWITCHED"

\* A request that awaited the refresh is sent again with the token there is, and
\* is carried out in the workspace of that token.
Strays(b, token) ==
  LET f == fetches[b].user IN
    f.pc = "await" /\ home[token] # f.to /\ ~f.told /\ ~Untold(b)

\* mutant of EndRefresh: only a refresh that succeeds hands the lock on
EndRefreshIfDone(b, token, refreshed) ==
  /\ queue' = IF refreshed THEN Tail(queue) ELSE queue
  /\ fetches' = [fetches EXCEPT ![b].refresh = Idle,
                                ![b].user = IF @.pc = "await" THEN Idle ELSE @]
  /\ UNCHANGED past

EndRefresh(b, token, refreshed) ==
  /\ queue' = Tail(queue)
  /\ fetches' = [fetches EXCEPT ![b].refresh = Idle,
                                ![b].user = IF @.pc = "await" THEN Idle ELSE @]
  /\ IF refreshed /\ Strays(b, token) THEN Note({"strayed"}) ELSE UNCHANGED past

\* mutant of Granted: the lock is not waited for
GrantedAtOnce(b) == TRUE

Granted(b) == b = Head(queue)

\* Another tab may have refreshed while this one waited.
AdoptToken(b) ==
  /\ At(b, "refresh", "wait") /\ Granted(b)
  /\ tabs[b].token \notin {None, fetches[b].refresh.before}
  /\ EndRefresh(b, tabs[b].token, TRUE)
  /\ UNCHANGED <<cookie, backend, channel, tabs>>

PostRefresh(b) ==
  /\ At(b, "refresh", "wait") /\ Granted(b)
  /\ tabs[b].token \in {None, fetches[b].refresh.before}
  /\ Put(b, "refresh", [Sent("refresh", None) EXCEPT !.before = fetches[b].refresh.before])
  /\ Note(Crossing(b, "refresh"))
  /\ UNCHANGED <<cookie, backend, queue, channel, tabs>>

\* Whatever is not a token ends the session: here, and in the other tabs unless
\* the route was not reached at all.
FinishRefresh(b) ==
  LET f == fetches[b].refresh IN
    /\ At(b, "refresh", "arrived")
    /\ tabs' = [tabs EXCEPT ![b] = IF f.answer = "ok" THEN Applied(@, f.token) ELSE Cleared(@)]
    /\ CASE f.answer = "ok"   -> Tell(b, Message("ACCESS_TOKEN_UPDATED", f.token))
         [] f.answer = "lost" -> UNCHANGED channel
         [] OTHER             -> Tell(b, Message("SESSION_ENDED", None))
    /\ EndRefresh(b, f.token, f.answer = "ok")
    /\ UNCHANGED <<cookie, backend>>

-----------------------------------------------------------------------------
(* Messages of the other tabs.                                             *)

\* mutant of Switched: the tab adopts the token and stays where it is
SwitchedQuietly(tab, n) == [Applied(tab, n) EXCEPT !.pending = None]

\* The token first, then a reload of the page.
Switched(tab, n) == [Applied(tab, n) EXCEPT !.pending = None, !.leaving = TRUE]

Hear(b) ==
  /\ channel[b] # << >>
  /\ LET m == Head(channel[b]) IN
       /\ tabs' = [tabs EXCEPT ![b] =
            CASE m.type = "ACCESS_TOKEN_UPDATED" -> Applied(@, m.token)
              [] m.type = "WORKSPACE_SWITCHED"   -> Switched(@, m.token)
              [] OTHER                           -> Cleared(@)]
       /\ fetches' = [fetches EXCEPT ![b].user.told = @ \/ m.type = "WORKSPACE_SWITCHED"]
  /\ channel' = [channel EXCEPT ![b] = Tail(@)]
  /\ UNCHANGED <<cookie, backend, queue, past>>

-----------------------------------------------------------------------------
(* What a user does in a tab.                                              *)

\* A tab that goes away drops its calls, its lock and what it has not told.
Abandon(b) ==
  /\ Note(IF \E f \in Under : f[1] = b THEN {"dropped"} ELSE {})
  /\ channel' = [channel EXCEPT ![b] = << >>]

\* bootstrapSession: a tab that is opened or loaded again restores the session.
Bootstrap(b) ==
  /\ tabs[b].state = "closed" \/ tabs[b].leaving
  /\ Room
  /\ Abandon(b)
  /\ tabs' = [tabs EXCEPT ![b] = [Closed EXCEPT !.state = "RESTORING"]]
  /\ queue' = Append(Without(b), b)
  /\ fetches' = [fetches EXCEPT ![b] =
                   [refresh |-> [Idle EXCEPT !.pc = "wait", !.op = "refresh"], user |-> Idle]]
  /\ UNCHANGED <<cookie, backend>>

Close(b) ==
  /\ b \in Open
  /\ Abandon(b)
  /\ tabs' = [tabs EXCEPT ![b] = Closed]
  /\ queue' = Without(b)
  /\ fetches' = [fetches EXCEPT ![b] = [k \in Who |-> Idle]]
  /\ UNCHANGED <<cookie, backend>>

\* A page is entered and loads its data with the token the tab holds.
Navigate(b) ==
  /\ tabs[b].state = "AUTHENTICATED" /\ tabs[b].screen # "sign-in" /\ ~tabs[b].leaving
  /\ tabs' = [tabs EXCEPT ![b].screen = home[tabs[b].token]]
  /\ UNCHANGED <<cookie, backend, queue, channel, fetches, past>>

\* beginLogin of an account with several workspaces.
BeginLogin(b) ==
  /\ tabs[b].screen = "sign-in" /\ tabs[b].pending = None
  /\ tabs' = [tabs EXCEPT ![b].state = "WORKSPACE_SELECTION_REQUIRED",
                          ![b].pending = "LOGIN"]
  /\ UNCHANGED <<cookie, backend, queue, channel, fetches, past>>

BeginWorkspaceSwitch(b) ==
  /\ tabs[b].screen \in Workspaces /\ tabs[b].pending = None
  /\ tabs' = [tabs EXCEPT ![b].pending = "SWITCH"]
  /\ UNCHANGED <<cookie, backend, queue, channel, fetches, past>>

CancelSelection(b) ==
  /\ tabs[b].pending # None /\ At(b, "user", "idle")
  /\ tabs' = [tabs EXCEPT ![b].pending = None]
  /\ UNCHANGED <<cookie, backend, queue, channel, fetches, past>>

SwitchWorkspace(b, w) ==
  /\ tabs[b].pending # None
  /\ At(b, "user", "idle")
  /\ Room
  /\ LET login == tabs[b].pending = "LOGIN" IN
       /\ Put(b, "user", Sent(IF login THEN "select" ELSE "switch", w))
       /\ past' = Noted(Crossing(b, "user")) \ IF login THEN {"out"} ELSE {}
  /\ UNCHANGED <<cookie, backend, queue, channel, tabs>>

\* acceptInvitationAndEnter: who is invited comes with a password, to one workspace.
AcceptInvitation(b, w) ==
  /\ tabs[b].screen = "sign-in" /\ tabs[b].pending = None
  /\ At(b, "user", "idle")
  /\ Room
  /\ Put(b, "user", Sent("accept", w))
  /\ past' = Noted(Crossing(b, "user")) \ {"out"}
  /\ UNCHANGED <<cookie, backend, queue, channel, tabs>>

\* A switch is followed by a full load, a login by the first page.
Entered(tab, f) ==
  [Applied(tab, f.token) EXCEPT
     !.pending = None,
     !.leaving = tab.leaving \/ f.op = "switch",
     !.screen  = IF f.op = "switch" THEN tab.screen ELSE None]

\* A choice that fails is kept.
FinishSwitch(b) ==
  LET f == fetches[b].user IN
    /\ At(b, "user", "arrived") /\ f.op \in {"select", "accept", "switch"}
    /\ IF f.answer = "ok"
       THEN /\ tabs' = [tabs EXCEPT ![b] = Entered(@, f)]
            /\ Tell(b, Message("WORKSPACE_SWITCHED", f.token))
       ELSE UNCHANGED <<tabs, channel>>
    /\ Put(b, "user", Idle)
    /\ Note(Crossing(b, "user"))
    /\ UNCHANGED <<cookie, backend, queue>>

Logout(b) ==
  /\ tabs[b].screen \in Workspaces
  /\ At(b, "user", "idle")
  /\ Put(b, "user", Sent("logout", None))
  /\ Note(Crossing(b, "user"))
  /\ UNCHANGED <<cookie, backend, queue, channel, tabs>>

FinishLogout(b) ==
  /\ At(b, "user", "arrived") /\ fetches[b].user.op = "logout"
  /\ tabs' = [tabs EXCEPT ![b] = Cleared(@)]
  /\ Tell(b, Message("SESSION_ENDED", None))
  /\ Put(b, "user", Idle)
  /\ Note({"out"} \cup Crossing(b, "user"))
  /\ UNCHANGED <<cookie, backend, queue>>

\* request of api.ts, by the page on show: one that is answered 401 refreshes, or
\* joins the refresh there is, and is tried once more.
RetryRequest(b) ==
  LET f == [Idle EXCEPT !.pc = "await", !.op = "request", !.to = tabs[b].screen,
                        !.told = tabs[b].leaving]
  IN  /\ tabs[b].screen \in Workspaces
      /\ At(b, "user", "idle")
      /\ IF At(b, "refresh", "idle")
         THEN /\ Room
              /\ queue' = Append(queue, b)
              /\ fetches' = [fetches EXCEPT ![b] = [refresh |-> Waiting(b), user |-> f]]
         ELSE Put(b, "user", f) /\ UNCHANGED queue
      /\ UNCHANGED <<cookie, backend, channel, tabs, past>>

-----------------------------------------------------------------------------

\* The network and the script of a tab go on by themselves.
Proceed(b) ==
  \/ \E k \in Who : HandleSelect(b, k) \/ HandleLogout(b, k) \/ ReadToken(b, k)
                    \/ ClaimToken(b, k) \/ Arrive(b, k)
  \/ AdoptToken(b) \/ PostRefresh(b) \/ FinishRefresh(b)
  \/ FinishSwitch(b) \/ FinishLogout(b)

Act(b) ==
  \/ Bootstrap(b) \/ Close(b) \/ Navigate(b) \/ ProactiveRefresh(b)
  \/ BeginLogin(b) \/ BeginWorkspaceSwitch(b) \/ CancelSelection(b)
  \/ \E w \in Workspaces : SwitchWorkspace(b, w) \/ AcceptInvitation(b, w)
  \/ Logout(b) \/ RetryRequest(b)

Step(b) == Proceed(b) \/ Act(b) \/ Hear(b) \/ \E k \in Who : Lose(b, k)

Next == \E b \in Tabs : Step(b)

Fairness == \A b \in Tabs : WF_vars(Proceed(b))

Spec == Init /\ [][Next]_vars
FairSpec == Spec /\ Fairness

-----------------------------------------------------------------------------
(* Properties.                                                             *)

Notes == {"crossed", "lost", "dropped", "alarm", "strayed", "out"}

TypesHold ==
  /\ cookie \in Tokens \cup {None}
  /\ \E max \in Limits : home \in [1 .. max -> Workspaces \cup {None}]
  /\ live \subseteq Tokens \ Fresh
  /\ tabs \in [Tabs -> Tab]
  /\ \A b \in Tabs : tabs[b].screen \in Workspaces => tabs[b].token # None
  /\ \A i, j \in DOMAIN queue : queue[i] = queue[j] => i = j
  /\ past \subseteq Notes

\* No tab shows one workspace and holds the token of another, unless the switch
\* is being told to it or its page is being left (bootstrapSession,
\* switchWorkspace: every tab follows the new workspace); and no request is
\* carried out in a workspace other than that of its page, unless that page was
\* being left or told of the switch while the request was under way (request of
\* api.ts).
TabsFollowTheSwitch ==
  Upset \/
    /\ "strayed" \notin past
    /\ \A b \in Open :
         tabs[b].screen \in Workspaces /\ ~tabs[b].leaving /\ ~Untold(b) =>
           home[tabs[b].token] = tabs[b].screen

\* Tabs that refresh, switch and log out never present a spent token, which the
\* backend would take for a stolen one; and the cookie they are left with when
\* nothing is under way is that of a live session (refreshSession: what stops
\* legitimate multi-tab activity from tripping the replay defence).
HonestTabsRaiseNoAlarm ==
  Upset \/ ("alarm" \notin past /\ (Under = {} /\ cookie # None => cookie \in live))

WillEnd(b) == \E i \in DOMAIN channel[b] : channel[b][i].type = "SESSION_ENDED"

\* A session that is logged out in one tab is over in every tab, and nobody comes
\* back to it without a password (logout).
LogoutEndsTheSession ==
  "out" \in past /\ ~Upset =>
    cookie = None /\ \A b \in Open : tabs[b].token = None \/ WillEnd(b)

\* A tab that restores its session at start-up comes to a result (bootstrapSession:
\* never a loop).
RestorationEnds ==
  \A b \in Tabs : tabs[b].state = "RESTORING" ~> tabs[b].state # "RESTORING"
=============================================================================
