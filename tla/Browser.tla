------------------------------- MODULE Browser -------------------------------
(***************************************************************************)
(* What runs in a browser.  A behaviour is of one of three parts.  Two are *)
(* of the session: in "smooth" the tabs act at will, and the behaviour     *)
(* stops with the first loss or overlap that the program does not answer   *)
(* for; "rough" goes on after those, and may have fewer tokens.  The third *)
(* part is about one page of the application.                              *)
(***************************************************************************)
EXTENDS Integers

CONSTANTS
  Tabs, Workspaces,
  ManyTokens, FewTokens,   \* bounds on the tokens of the two parts of the session
  Pair,                    \* the handlers of a page
  Rows, FirstRow,          \* the rows it shows, and the one it opens with
  MaxEvents, MaxMoves, MaxVersion,
  None

VARIABLES
  part,        \* "smooth", "rough" or "page"
  past,
  cookie, home, live, queue, channel, tabs, fetches,
  page, server, shown, calls, busy, loading, error, choice, drafts

tabsOnly == <<cookie, home, live, queue, channel, tabs, fetches>>
pageOnly == <<page, server, shown, calls, busy, loading, error, choice, drafts>>
vars == <<part, past, tabsOnly, pageOnly>>

\* Named for the initials of their modules.
BT == INSTANCE BrowserTabs WITH Limits <- {ManyTokens, FewTokens}

PG == INSTANCE Pages WITH Calls <- Pair, First <- FirstRow

\* The row a page opens with is a row; null is no version of a row, no part of a page and
\* no flag; the bound is a number.
PagesFit ==
  /\ FirstRow \in Rows /\ MaxVersion \in Nat
  /\ None \notin Int /\ None \notin PG!Parts \cup {"page"}
  /\ \A r \in Rows : None # <<"update", r>>

\* There may be a first token; null is no token, no workspace and none of the names that
\* occur beside it, nor is the sign-in page a workspace.
TabsFit ==
  /\ {ManyTokens, FewTokens} \subseteq Nat \ {0}
  /\ None \notin Nat /\ None \notin Workspaces /\ "sign-in" \notin Workspaces
  /\ None \notin BT!States \cup BT!Reasons \cup BT!SessionOps
                   \cup {"sign-in", "request"}
  /\ None \notin {"ok", "none", "refused", "out", "lost", "unavailable"}

ASSUME ConstantsAssumption == PagesFit /\ TabsFit

NoTabs ==
  /\ cookie = None /\ home = None /\ live = None /\ queue = None
  /\ channel = None /\ tabs = None /\ fetches = None
NoPage ==
  /\ page = None /\ server = None /\ shown = None /\ calls = None /\ busy = None
  /\ loading = None /\ error = None /\ choice = None /\ drafts = None

\* The browser starts with a session.
Begins(max) == BT!Init /\ cookie = 1 /\ BT!Tokens = 1 .. max /\ NoPage

Init ==
  \/ part = "smooth" /\ Begins(ManyTokens)
  \/ part = "rough" /\ Begins(FewTokens)
  \/ part = "page" /\ PG!Init /\ NoTabs

Next ==
  /\ UNCHANGED part
  /\ \/ part = "smooth" /\ ~BT!Upset /\ BT!Next /\ UNCHANGED pageOnly
     \/ part = "rough" /\ BT!Next /\ UNCHANGED pageOnly
     \/ part = "page" /\ PG!Next /\ UNCHANGED tabsOnly

Proceed(b) ==
  part = "rough" /\ BT!Proceed(b) /\ UNCHANGED <<part, pageOnly>>

Fairness == \A b \in Tabs : WF_vars(Proceed(b))

Spec == Init /\ [][Next]_vars /\ Fairness

\* Every tab follows a switch to the workspace it is now about (BrowserTabs); the
\* variables have their types, as those of a page have in PagesTellTheTruth.
TabsFollowTheSwitch == part # "page" => BT!TypesHold /\ BT!TabsFollowTheSwitch

\* Tabs that keep to the protocol never present a spent token (BrowserTabs).
HonestTabsRaiseNoAlarm == part # "page" => BT!HonestTabsRaiseNoAlarm

\* A session that is logged out in one tab is over in all (BrowserTabs).
LogoutEndsTheSession == part # "page" => BT!LogoutEndsTheSession

\* A page at rest shows what its user has picked and changed (Pages).
PagesTellTheTruth == part = "page" => PG!TypesHold /\ PG!PagesTellTheTruth

\* What a page sends is sent once and was meant (Pages).
SubmissionsAreDeliberate == part = "page" => PG!SubmissionsAreDeliberate

Restoring(b) == part = "rough" /\ tabs[b].state = "RESTORING"

\* The restoration of a session comes to an end, whatever is lost (BrowserTabs,
\* under weak fairness of what the network and the scripts do by themselves).
RestorationEnds == \A b \in Tabs : Restoring(b) ~> ~Restoring(b)
=============================================================================
