---------------------------- MODULE BrowserProofs ----------------------------
(***************************************************************************)
(* Proofs about Browser: how tabs share a session, for any number of them, *)
(* of tokens and of workspaces, and what a page shows and sends, for any   *)
(* number of handlers, rows and versions.  The inductive invariants are    *)
(* those of BrowserInvariants; at the end the steps of the whole are those *)
(* of its part.                                                            *)
(***************************************************************************)
EXTENDS BrowserInvariants, SequenceTheorems, TLAPS

-----------------------------------------------------------------------------
(* The tabs of a browser follow one session (BrowserTabs).                 *)

-----------------------------------------------------------------------------
(* Tokens, notes and calls.                                                *)

LEMMA TokensAre ==
  ASSUME TabsFit, SessionTyped
  PROVE  /\ BT!Tokens \subseteq Nat /\ Minted \subseteq Nat /\ Minted \subseteq BT!Tokens
            /\ None \notin Minted
         /\ \A n \in BT!Tokens : n \in Minted <=> home[n] # None
         /\ \A n \in Minted : home[n] \in Workspaces
         /\ \A n \in BT!Fresh : n \in BT!Tokens /\ n \in Nat /\ n \notin Minted
<1>1. PICK max \in {ManyTokens, FewTokens} : home \in [1 .. max -> Workspaces \cup {None}]
  BY DEF SessionTyped, HomeTyped
<1>2. BT!Tokens = 1 .. max /\ max \in Nat  BY <1>1 DEF BT!Tokens, TabsFit
<1>3. BT!Fresh = {n \in 1 .. max : home[n] = None}  BY <1>2 DEF BT!Fresh
<1>4. Minted = {n \in 1 .. max : home[n] # None}  BY <1>2, <1>3 DEF Minted
<1> QED  BY <1>1, <1>2, <1>3, <1>4 DEF TabsFit

LEMMA HomeStays ==
  ASSUME home' = home
  PROVE  BT!Fresh' = BT!Fresh /\ Minted' = Minted /\ BT!Tab' = BT!Tab
           /\ (HomeTyped' <=> HomeTyped)
BY DEF BT!Tokens, BT!Fresh, Minted, BT!Tab, HomeTyped

\* A token is minted for w.
LEMMA HomeGrows ==
  ASSUME TabsFit, SessionTyped, NEW n \in BT!Fresh, NEW w \in Workspaces,
         home' = [home EXCEPT ![n] = w]
  PROVE  /\ Minted' = Minted \cup {n} /\ n \notin Minted /\ n \in Nat
         /\ home'[n] = w /\ \A t \in Minted : home'[t] = home[t]
         /\ HomeTyped' /\ BT!Tab' = BT!Tab
<1>1. PICK max \in {ManyTokens, FewTokens} : home \in [1 .. max -> Workspaces \cup {None}]
  BY DEF SessionTyped, HomeTyped
<1>2. BT!Tokens = 1 .. max /\ max \in Nat  BY <1>1 DEF BT!Tokens, TabsFit
<1>3. home' \in [1 .. max -> Workspaces \cup {None}] /\ n \in 1 .. max
  BY <1>1, <1>2 DEF BT!Fresh
<1>4. BT!Tokens' = 1 .. max  BY <1>3 DEF BT!Tokens
<1>5. BT!Fresh = {t \in 1 .. max : home[t] = None}
        /\ BT!Fresh' = {t \in 1 .. max : home'[t] = None}
  BY <1>2, <1>4 DEF BT!Fresh
<1>6. Minted = {t \in 1 .. max : home[t] # None} /\ Minted' = {t \in 1 .. max : home'[t] # None}
  BY <1>2, <1>4, <1>5 DEF Minted
<1>7. n \notin Minted /\ home'[n] = w /\ \A t \in 1 .. max : t # n => home'[t] = home[t]
  BY <1>1, <1>3, <1>5, <1>6
<1>8. w # None  BY DEF TabsFit
<1>9. BT!Tab' = BT!Tab  BY <1>2, <1>4 DEF BT!Tab
<1> QED  BY <1>1, <1>2, <1>3, <1>6, <1>7, <1>8, <1>9 DEF HomeTyped

LEMMA NotedIs ==
  ASSUME past \subseteq BT!Notes, NEW what \in SUBSET BT!Notes
  PROVE  /\ BT!Noted(what) \subseteq BT!Notes
         /\ BT!Noted(what) \cap BT!Upsets = {} =>
            ~BT!Upset /\ what \cap BT!Upsets = {} /\ BT!Noted(what) = past \cup what
<1>1. CASE BT!Upset  BY <1>1 DEF BT!Noted, BT!Upset
<1>2. CASE ~BT!Upset /\ what \cap BT!Upsets # {}  BY <1>2 DEF BT!Noted
<1>3. CASE ~BT!Upset /\ what \cap BT!Upsets = {}  BY <1>3 DEF BT!Noted, BT!Upset
<1> QED  BY <1>1, <1>2, <1>3

LEMMA NoteIs ==
  ASSUME past \subseteq BT!Notes, NEW what \in SUBSET BT!Notes, BT!Note(what)
  PROVE  /\ past' \subseteq BT!Notes
         /\ ~BT!Upset' => ~BT!Upset /\ what \cap BT!Upsets = {} /\ past' = past \cup what
BY NotedIs DEF BT!Note, BT!Upset, BT!Upsets

LEMMA PutIs ==
  ASSUME fetches \in [Tabs -> [BT!Who -> CallsOfSession]], NEW b \in Tabs, NEW k \in BT!Who,
         NEW f \in CallsOfSession, BT!Put(b, k, f)
  PROVE  /\ fetches' \in [Tabs -> [BT!Who -> CallsOfSession]] /\ fetches'[b][k] = f
         /\ \A c \in Tabs : \A l \in BT!Who : c # b \/ l # k => fetches'[c][l] = fetches[c][l]
BY DEF BT!Put

LEMMA WhoIs == "refresh" \in BT!Who /\ "user" \in BT!Who /\ \A k \in BT!Who : k = "refresh"
                 \/ k = "user"
BY DEF BT!Who

LEMMA IdleIs ==
  /\ BT!Idle \in CallsOfSession /\ BT!Idle.pc = "idle" /\ BT!Idle.op = None
     /\ BT!Idle.sent = None
  /\ BT!Idle.answer = None /\ BT!Idle.to = None
BY DEF BT!Idle, CallsOfSession

\* A session call that leaves.
LEMMA SentIs ==
  ASSUME TabsFit, SessionTyped, NEW op \in BT!SessionOps, NEW to \in Workspaces \cup {None}
  PROVE  LET f == BT!Sent(op, to) IN
         /\ f \in CallsOfSession /\ f.pc = "sent" /\ f.op = op /\ f.sent = cookie /\ f.to = to
         /\ f.answer = None
<1>1. cookie \in Nat \cup {None}  BY TokensAre DEF SessionTyped
<1> QED  BY <1>1 DEF BT!Sent, BT!Idle, CallsOfSession, BT!OnTheWay, BT!SessionOps

\* Session calls outside the lock overlap nothing, when nothing is upset.
LEMMA CrossingIs ==
  ASSUME TabsFit, SessionTyped, NEW b \in Tabs, NEW k \in BT!Who
  PROVE  /\ BT!Crossing(b, k) \in SUBSET BT!Notes
         /\ BT!Crossing(b, k) \cap BT!Upsets = {} =>
              /\ \A c \in Tabs : \A l \in BT!Who : Way(c, l) =>
                 <<c, l>> = <<b, k>> \/ (k = "refresh" /\ l = "refresh")
              /\ k = "user" => channel[b] = << >>
              /\ BT!Crossing(b, k) = {}
<1>1. BT!Crossing(b, k) = {} \/ BT!Crossing(b, k) = {"crossed"}  BY DEF BT!Crossing
<1>2. BT!Crossing(b, k) \in SUBSET BT!Notes /\ (BT!Crossing(b, k) \cap BT!Upsets = {}
        => BT!Crossing(b, k) = {})
  BY <1>1 DEF BT!Notes, BT!Upsets
<1>3. ASSUME BT!Crossing(b, k) = {}, NEW c \in Tabs, NEW l \in BT!Who, Way(c, l)
      PROVE  <<c, l>> = <<b, k>> \/ (k = "refresh" /\ l = "refresh")
  <2>1. <<c, l>> \in BT!Under  BY <1>3 DEF Way, BT!Under, SessionTyped, FetchOK
  <2>2. <<c, l>> # <<b, k>> => {k, <<c, l>>[2]} = {"refresh"}  BY <1>3, <2>1 DEF BT!Crossing
  <2> QED  BY <2>2
<1>4. BT!Crossing(b, k) = {} /\ k = "user" => channel[b] = << >>  BY DEF BT!Crossing
<1> QED  BY <1>2, <1>3, <1>4

-----------------------------------------------------------------------------
(* Every step keeps the types: what a step leaves alone.                   *)

LEMMA TypesAre ==
  ASSUME SessionTyped
  PROVE  /\ HomeTyped /\ cookie \in Minted \cup {None} /\ live \subseteq Minted
            /\ queue \in Seq(Tabs)
         /\ channel \in [Tabs -> Seq(Messages)] /\ tabs \in [Tabs -> BT!Tab]
         /\ fetches \in [Tabs -> [BT!Who -> CallsOfSession]] /\ past \subseteq BT!Notes
         /\ \A b \in Tabs : TabOK(b) /\ ChannelOK(b) /\ \A k \in BT!Who : FetchOK(b, k)
         /\ QueueOK
BY DEF SessionTyped

LEMMA HomeTypedStays ==
  ASSUME SessionTyped, home' = home
  PROVE  HomeTyped' /\ BT!Tab' = BT!Tab /\ Minted' = Minted
BY HomeStays DEF SessionTyped

LEMMA TypesNext ==
  ASSUME HomeTyped', BT!Tab' = BT!Tab, cookie' \in Minted' \cup {None}, live' \subseteq Minted',
         queue' \in Seq(Tabs),
         channel' \in [Tabs -> Seq(Messages)], tabs' \in [Tabs -> BT!Tab],
         fetches' \in [Tabs -> [BT!Who -> CallsOfSession]], past' \subseteq BT!Notes,
         \A b \in Tabs : TabOK(b)' /\ ChannelOK(b)',
         \A b \in Tabs : \A k \in BT!Who : FetchOK(b, k)',
         QueueOK'
  PROVE  SessionTyped'
BY DEF SessionTyped

LEMMA TabStays ==
  ASSUME SessionTyped, Minted \subseteq Minted', NEW b \in Tabs, tabs'[b] = tabs[b],
         \/ tabs[b].state # "closed"
         \/ channel'[b] = channel[b] /\ \A k \in BT!Who : fetches'[b][k].pc = fetches[b][k].pc
  PROVE  TabOK(b)'
<1>1. TabOK(b)  BY DEF SessionTyped
<1> QED  BY <1>1 DEF TabOK, BT!At

LEMMA ChannelStays ==
  ASSUME SessionTyped, Minted \subseteq Minted', NEW b \in Tabs, channel'[b] = channel[b]
  PROVE  ChannelOK(b)'
BY DEF SessionTyped, ChannelOK

LEMMA FetchStays ==
  ASSUME SessionTyped, Minted \subseteq Minted', NEW b \in Tabs, NEW k \in BT!Who,
         fetches'[b][k] = fetches[b][k]
  PROVE  FetchOK(b, k)'
BY DEF SessionTyped, FetchOK

LEMMA QueueStays ==
  ASSUME SessionTyped, queue' = queue,
         \A b \in Tabs : /\ fetches'[b].refresh.pc = "idle" <=> fetches[b].refresh.pc = "idle"
                         /\ Way(b, "refresh")' => Way(b, "refresh") \/ queue[1] = b
  PROVE  QueueOK'
<1>1. QueueOK  BY DEF SessionTyped
<1> QED  BY <1>1 DEF QueueOK, BT!At, Way

\* A tab with a call, a pending choice or something on its screen is open.
LEMMA OpenTabs ==
  ASSUME SessionTyped, NEW b \in Tabs,
         (\E k \in BT!Who : ~BT!At(b, k, "idle")) \/ tabs[b].pending # None
           \/ tabs[b].screen # None
         \/ channel[b] # << >> \/ tabs[b].state = "AUTHENTICATED"
  PROVE  tabs[b].state # "closed"
<1>1. TabOK(b)  BY DEF SessionTyped
<1> QED  BY <1>1 DEF TabOK, BT!Closed

LEMMA WayIs ==
  ASSUME SessionTyped, NEW b \in Tabs, NEW k \in BT!Who, Way(b, k)
  PROVE  /\ ~BT!At(b, k, "idle") /\ tabs[b].state # "closed" /\ fetches[b][k] \in CallsOfSession
         /\ FetchOK(b, k) /\ (k = "refresh" => queue # << >> /\ queue[1] = b)
<1>1. ~BT!At(b, k, "idle")  BY DEF Way, BT!At, BT!OnTheWay
<1>2. k = "refresh" => queue # << >> /\ queue[1] = b
  <2> SUFFICES ASSUME k = "refresh" PROVE queue # << >> /\ queue[1] = b
    OBVIOUS
  <2>1. queue[1] = b /\ \E i \in DOMAIN queue : queue[i] = b
    BY <1>1 DEF SessionTyped, QueueOK, Way, BT!At
  <2> QED  BY <2>1, EmptySeq
<1> QED  BY <1>1, <1>2, OpenTabs DEF SessionTyped

\* A session call goes on.
LEMMA CallGoesOn ==
  ASSUME SessionTyped, NEW b \in Tabs, NEW k \in BT!Who, Way(b, k), UNCHANGED <<queue, channel,
         tabs>>,
         NEW f \in CallsOfSession, BT!Put(b, k, f), f.pc \in BT!OnTheWay, FetchOK(b, k)',
         HomeTyped', BT!Tab' = BT!Tab, Minted \subseteq Minted', cookie' \in Minted'
           \cup {None}, live' \subseteq Minted',
         past' \subseteq BT!Notes
  PROVE  SessionTyped'
<1>1. /\ fetches' \in [Tabs -> [BT!Who -> CallsOfSession]] /\ fetches'[b][k] = f
      /\ \A c \in Tabs : \A l \in BT!Who : c # b \/ l # k => fetches'[c][l] = fetches[c][l]
  BY PutIs DEF SessionTyped
<1>2. \A c \in Tabs : TabOK(c)' /\ ChannelOK(c)'
  <2> SUFFICES ASSUME NEW c \in Tabs PROVE TabOK(c)' /\ ChannelOK(c)'
    OBVIOUS
  <2>1. CASE c = b  BY <2>1, WayIs, TabStays, ChannelStays
  <2>2. CASE c # b  BY <1>1, <2>2, TabStays, ChannelStays
  <2> QED  BY <2>1, <2>2
<1>3. \A c \in Tabs : \A l \in BT!Who : FetchOK(c, l)'  BY <1>1, FetchStays
<1>4. QueueOK'
  <2>1. \A c \in Tabs : /\ fetches'[c].refresh.pc = "idle" <=> fetches[c].refresh.pc = "idle"
                        /\ Way(c, "refresh")' => Way(c, "refresh") \/ queue[1] = c
    <3> SUFFICES ASSUME NEW c \in Tabs
                 PROVE  /\ fetches'[c].refresh.pc = "idle" <=> fetches[c].refresh.pc = "idle"
                        /\ Way(c, "refresh")' => Way(c, "refresh") \/ queue[1] = c
      OBVIOUS
    <3>1. CASE c = b /\ k = "refresh"  BY <1>1, <3>1 DEF Way, BT!OnTheWay
    <3>2. CASE ~(c = b /\ k = "refresh")  BY <1>1, <3>2, WhoIs DEF Way
    <3> QED  BY <3>1, <3>2
  <2> QED  BY <2>1, QueueStays
<1> QED  BY <1>1, <1>2, <1>3, <1>4, TypesNext, TypesAre

\* The backend answers a call.
LEMMA SessionAnswerIsTyped ==
  ASSUME TabsFit, SessionTyped, NEW b \in Tabs, NEW k \in BT!Who, Way(b, k), UNCHANGED <<cookie,
         queue, channel, tabs>>,
         NEW answer \in Answers, NEW n \in Nat \cup {None}, BT!Answered(b, k, answer, n),
         answer = "ok" => fetches[b][k].op \in BT!Minting /\ n \in Minted',
         HomeTyped', BT!Tab' = BT!Tab, Minted \subseteq Minted', live' \subseteq Minted', past'
           \subseteq BT!Notes
  PROVE  SessionTyped'
<1> DEFINE f == [fetches[b][k] EXCEPT !.pc = "answered", !.answer = answer, !.token = n]
<1>1. fetches[b][k] \in CallsOfSession /\ FetchOK(b, k)  BY WayIs
<1>2. f \in CallsOfSession /\ f.pc = "answered" /\ f.answer = answer /\ f.token = n
      /\ f.op = fetches[b][k].op /\ f.sent = fetches[b][k].sent /\ f.to = fetches[b][k].to
  BY <1>1 DEF CallsOfSession, BT!OnTheWay
<1>3. BT!Put(b, k, f)  BY DEF BT!Answered
<1>4. fetches'[b][k] = f  BY <1>2, <1>3, PutIs DEF SessionTyped
<1> HIDE DEF f
<1>5. FetchOK(b, k)'
  <2>1. answer # None  BY DEF TabsFit, Answers
  <2>2. FetchOK(b, k)' <=>
          /\ f.sent \in Minted' \cup {None}
          /\ f.pc \in BT!OnTheWay =>
             f.op \in BT!SessionOps /\ (f.op = "refresh" <=> k = "refresh")
          /\ f.pc \in {"answered", "arrived"} => f.answer # None
          /\ f.pc \in {"answered", "arrived"} /\ f.answer = "ok" =>
               f.op \in BT!Minting /\ f.token \in Minted'
          /\ f.pc = "begun" => f.op \in {"refresh", "switch"} /\ f.sent # None
          /\ f.op \in {"switch", "select", "accept"} => f.to \in Workspaces
          /\ f.pc = "wait" => k = "refresh"
          /\ f.pc = "await" => k = "user"
    BY <1>4 DEF FetchOK
  <2>3. fetches[b][k].sent \in Minted' \cup {None} /\ fetches[b][k].op \in BT!SessionOps
        /\ (fetches[b][k].op = "refresh" <=> k = "refresh")
        /\ (fetches[b][k].op \in {"switch", "select", "accept"}
           => fetches[b][k].to \in Workspaces)
    BY <1>1 DEF FetchOK, Way
  <2> QED  BY <1>2, <2>1, <2>2, <2>3
<1> QED  BY <1>2, <1>3, <1>5, CallGoesOn, TypesAre DEF BT!OnTheWay

-----------------------------------------------------------------------------
(* Types: a call at the backend and back.                                  *)

LEMMA SelectIsTyped ==
  ASSUME TabsFit, SessionTyped, NEW b \in Tabs, NEW k \in BT!Who, BT!HandleSelect(b, k)
  PROVE  SessionTyped'
<1>1. /\ Way(b, k) /\ UNCHANGED <<cookie, queue, channel, tabs>> /\ past' = past
      /\ fetches[b][k].op \in {"select", "accept"}
  BY DEF BT!HandleSelect, BT!At, Way, BT!OnTheWay
<1>2. fetches[b][k].to \in Workspaces  BY <1>1 DEF SessionTyped, FetchOK
<1>3. PICK n \in BT!Fresh : /\ home' = [home EXCEPT ![n] = fetches[b][k].to]
                            /\ live' = live \cup {n} /\ BT!Answered(b, k, "ok", n)
  BY DEF BT!HandleSelect
<1>4. HomeTyped' /\ BT!Tab' = BT!Tab /\ Minted' = Minted \cup {n} /\ n \in Nat
  BY <1>2, <1>3, HomeGrows
<1>5. live' \subseteq Minted' /\ past' \subseteq BT!Notes  BY <1>1, <1>3, <1>4 DEF SessionTyped
<1> QED  BY <1>1, <1>3, <1>4, <1>5, SessionAnswerIsTyped DEF Answers, BT!Minting

LEMMA LogoutIsTyped ==
  ASSUME TabsFit, SessionTyped, NEW b \in Tabs, NEW k \in BT!Who, BT!HandleLogout(b, k)
  PROVE  SessionTyped'
<1>1. /\ Way(b, k) /\ UNCHANGED <<cookie, queue, channel, tabs>> /\ past' = past /\ home' = home
      /\ BT!Answered(b, k, "out", None) /\ live' \subseteq live
  BY DEF BT!HandleLogout, BT!At, Way, BT!OnTheWay
<1>2. HomeTyped' /\ BT!Tab' = BT!Tab /\ Minted' = Minted  BY <1>1, HomeTypedStays
<1>3. live' \subseteq Minted' /\ past' \subseteq BT!Notes  BY <1>1, <1>2 DEF SessionTyped
<1> QED  BY <1>1, <1>2, <1>3, SessionAnswerIsTyped DEF Answers

\* The backend takes up a call.
LEMMA BegunIsTyped ==
  ASSUME TabsFit, SessionTyped, NEW b \in Tabs, NEW k \in BT!Who, BT!At(b, k, "sent"),
         fetches[b][k].op \in {"refresh", "switch"}, fetches[b][k].sent # None,
         BT!Put(b, k, [fetches[b][k] EXCEPT !.pc = "begun"]),
         UNCHANGED <<cookie, home, live, queue, channel, tabs, past>>
  PROVE  SessionTyped'
<1> DEFINE f == [fetches[b][k] EXCEPT !.pc = "begun"]
<1>1. Way(b, k) /\ fetches[b][k] \in CallsOfSession /\ FetchOK(b, k)
  BY WayIs DEF BT!At, Way, BT!OnTheWay
<1>2. f \in CallsOfSession /\ f.pc = "begun" /\ f.pc \in BT!OnTheWay
      /\ f.op = fetches[b][k].op /\ f.sent = fetches[b][k].sent /\ f.to = fetches[b][k].to
  BY <1>1 DEF CallsOfSession, BT!OnTheWay
<1>3. fetches'[b][k] = f  BY <1>2, PutIs DEF SessionTyped
<1>4. HomeTyped' /\ BT!Tab' = BT!Tab /\ Minted' = Minted  BY HomeTypedStays
<1> HIDE DEF f
<1>5. FetchOK(b, k)'  BY <1>1, <1>2, <1>3, <1>4 DEF FetchOK, Way
<1>6. cookie' \in Minted' \cup {None} /\ live' \subseteq Minted' /\ past' \subseteq BT!Notes
  BY <1>4 DEF SessionTyped
<1> QED  BY <1>1, <1>2, <1>4, <1>5, <1>6, CallGoesOn DEF f

LEMMA ReadIsTyped ==
  ASSUME TabsFit, SessionTyped, NEW b \in Tabs, NEW k \in BT!Who, BT!ReadToken(b, k)
  PROVE  SessionTyped'
<1>1. /\ Way(b, k) /\ UNCHANGED <<cookie, queue, channel, tabs>> /\ home' = home
      /\ BT!At(b, k, "sent") /\ fetches[b][k].op \in {"refresh", "switch"}
  BY DEF BT!ReadToken, BT!At, Way, BT!OnTheWay, BT!backend
<1>2. HomeTyped' /\ BT!Tab' = BT!Tab /\ Minted' = Minted  BY <1>1, HomeTypedStays
<1>3. CASE fetches[b][k].sent = None
  <2>1. BT!Answered(b, k, "none", None) /\ live' = live /\ past' = past
    BY <1>3 DEF BT!ReadToken, BT!backend
  <2>2. live' \subseteq Minted' /\ past' \subseteq BT!Notes  BY <1>2, <2>1 DEF SessionTyped
  <2> QED  BY <1>1, <1>2, <2>1, <2>2, SessionAnswerIsTyped DEF Answers
<1>4. CASE fetches[b][k].sent # None /\ fetches[b][k].sent \in live
  BY <1>1, <1>4, BegunIsTyped DEF BT!ReadToken, BT!backend
<1>5. CASE fetches[b][k].sent # None /\ fetches[b][k].sent \notin live
  <2>1. BT!Answered(b, k, "refused", None) /\ live' = {} /\ BT!Note({"alarm"})
    BY <1>5 DEF BT!ReadToken
  <2>2. past' \subseteq BT!Notes  BY <2>1, NoteIs DEF SessionTyped, BT!Notes
  <2> QED  BY <1>1, <1>2, <2>1, <2>2, SessionAnswerIsTyped DEF Answers
<1> QED  BY <1>3, <1>4, <1>5

LEMMA MintIs ==
  ASSUME TabsFit, SessionTyped, NEW b \in Tabs, NEW k \in BT!Who, NEW w \in Workspaces,
         BT!Mint(b, k, w)
  PROVE  \E n \in BT!Fresh :
           /\ Minted' = Minted \cup {n} /\ n \notin Minted /\ n \in Nat
           /\ home'[n] = w /\ \A t \in Minted : home'[t] = home[t]
           /\ HomeTyped' /\ BT!Tab' = BT!Tab
           /\ live' = (live \ {fetches[b][k].sent}) \cup {n}
           /\ BT!Answered(b, k, "ok", n)
<1>1. PICK n \in BT!Fresh : /\ home' = [home EXCEPT ![n] = w]
                            /\ live' = (live \ {fetches[b][k].sent}) \cup {n}
                            /\ BT!Answered(b, k, "ok", n)
  BY DEF BT!Mint
<1> QED  BY <1>1, HomeGrows

\* The workspace a call that is taken up is minted for.
Goal(f) == IF f.op = "switch" THEN f.to ELSE home[f.sent]

LEMMA GoalIs ==
  ASSUME TabsFit, SessionTyped, NEW b \in Tabs, NEW k \in BT!Who, BT!At(b, k, "begun")
  PROVE  /\ Way(b, k) /\ Goal(fetches[b][k]) \in Workspaces /\ fetches[b][k].sent \in Minted
         /\ fetches[b][k].op \in {"refresh", "switch"}
<1>1. Way(b, k) /\ FetchOK(b, k)  BY WayIs DEF BT!At, Way, BT!OnTheWay
<1> QED  BY <1>1, TokensAre DEF FetchOK, Goal, BT!At

LEMMA ClaimIsTyped ==
  ASSUME TabsFit, SessionTyped, NEW b \in Tabs, NEW k \in BT!Who, BT!ClaimToken(b, k)
  PROVE  SessionTyped'
<1>1. /\ Way(b, k) /\ UNCHANGED <<cookie, queue, channel, tabs>> /\ past' = past
      /\ Goal(fetches[b][k]) \in Workspaces /\ fetches[b][k].op \in {"refresh", "switch"}
  BY GoalIs DEF BT!ClaimToken
<1>2. past' \subseteq BT!Notes  BY <1>1 DEF SessionTyped
<1>3. CASE BT!Mint(b, k, Goal(fetches[b][k]))
  <2>1. PICK n \in BT!Fresh :
          /\ Minted' = Minted \cup {n} /\ n \in Nat /\ HomeTyped' /\ BT!Tab' = BT!Tab
          /\ live' = (live \ {fetches[b][k].sent}) \cup {n}
          /\ BT!Answered(b, k, "ok", n)
    BY <1>1, <1>3, MintIs
  <2>2. live' \subseteq Minted'  BY <2>1 DEF SessionTyped
  <2> QED  BY <1>1, <1>2, <2>1, <2>2, SessionAnswerIsTyped DEF Answers, BT!Minting
<1>4. CASE BT!Answered(b, k, "refused", None) /\ home' = home /\ live' \subseteq live
  <2>1. HomeTyped' /\ BT!Tab' = BT!Tab /\ Minted' = Minted  BY <1>4, HomeTypedStays
  <2>2. live' \subseteq Minted'  BY <1>4, <2>1 DEF SessionTyped
  <2> QED  BY <1>1, <1>2, <1>4, <2>1, <2>2, SessionAnswerIsTyped DEF Answers
<1> QED  BY <1>3, <1>4 DEF BT!ClaimToken, Goal, BT!backend

\* The answer of a call reaches the browser, or is lost.
LEMMA ArrivedIsTyped ==
  ASSUME TabsFit, SessionTyped, NEW b \in Tabs, NEW k \in BT!Who, NEW answer \in Answers,
         Way(b, k),
         answer # "ok" \/ (answer = fetches[b][k].answer /\ fetches[b][k].pc = "answered"),
         BT!Put(b, k, [fetches[b][k] EXCEPT !.pc = "arrived", !.answer = answer]),
         UNCHANGED <<home, live, queue, channel, tabs>>, cookie' \in Minted \cup {None}, past'
           \subseteq BT!Notes
  PROVE  SessionTyped'
<1> DEFINE f == [fetches[b][k] EXCEPT !.pc = "arrived", !.answer = answer]
<1>1. fetches[b][k] \in CallsOfSession /\ FetchOK(b, k)  BY WayIs
<1>2. f \in CallsOfSession /\ f.pc = "arrived" /\ f.pc \in BT!OnTheWay /\ f.answer = answer
      /\ f.token = fetches[b][k].token
      /\ f.op = fetches[b][k].op /\ f.sent = fetches[b][k].sent /\ f.to = fetches[b][k].to
  BY <1>1 DEF CallsOfSession, BT!OnTheWay
<1>3. fetches'[b][k] = f  BY <1>2, PutIs DEF SessionTyped
<1>4. HomeTyped' /\ BT!Tab' = BT!Tab /\ Minted' = Minted  BY HomeTypedStays
<1> HIDE DEF f
<1>5. answer # None  BY DEF TabsFit, Answers
<1>6. FetchOK(b, k)'  BY <1>1, <1>2, <1>3, <1>4, <1>5 DEF FetchOK, Way
<1>7. live' \subseteq Minted'  BY <1>4 DEF SessionTyped
<1> QED  BY <1>2, <1>4, <1>6, <1>7, CallGoesOn DEF f

LEMMA ArriveIsTyped ==
  ASSUME TabsFit, SessionTyped, NEW b \in Tabs, NEW k \in BT!Who, BT!Arrive(b, k)
  PROVE  SessionTyped'
<1> DEFINE f == fetches[b][k]
<1>1. Way(b, k) /\ f.pc = "answered" /\ UNCHANGED <<home, live, queue, channel, tabs, past>>
      /\ cookie' = BT!Baked(f) /\ BT!Put(b, k, [f EXCEPT !.pc = "arrived"])
  BY DEF BT!Arrive, BT!At, Way, BT!OnTheWay, BT!backend
<1>2. f \in CallsOfSession /\ FetchOK(b, k)  BY <1>1, WayIs
<1>3. f.answer \in Answers  BY <1>1, <1>2 DEF FetchOK, CallsOfSession
<1>4. [f EXCEPT !.pc = "arrived"] = [f EXCEPT !.pc = "arrived", !.answer = f.answer]
  BY <1>2 DEF CallsOfSession
<1>5. cookie' \in Minted \cup {None}
  <2>1. f.answer = "ok" => f.token \in Minted  BY <1>1, <1>2 DEF FetchOK
  <2>2. cookie \in Minted \cup {None}  BY DEF SessionTyped
  <2> QED  BY <1>1, <2>1, <2>2 DEF BT!Baked
<1>6. past' \subseteq BT!Notes  BY <1>1 DEF SessionTyped
<1> QED  BY <1>1, <1>3, <1>4, <1>5, <1>6, ArrivedIsTyped

LEMMA LoseIsTyped ==
  ASSUME TabsFit, SessionTyped, NEW b \in Tabs, NEW k \in BT!Who, BT!Lose(b, k)
  PROVE  SessionTyped' /\ BT!Upset'
<1>1. PICK answer \in {"lost", "unavailable"} :
        BT!Put(b, k, [fetches[b][k] EXCEPT !.pc = "arrived", !.answer = answer])
  BY DEF BT!Lose
<1>2. Way(b, k) /\ UNCHANGED <<cookie, home, live, queue, channel, tabs>> /\ BT!Note({"lost"})
  BY DEF BT!Lose, Way, BT!OnTheWay, BT!backend
<1>3. past' \subseteq BT!Notes /\ BT!Upset'
  BY <1>2, NoteIs DEF SessionTyped, BT!Notes, BT!Upsets
<1>4. cookie' \in Minted \cup {None}  BY <1>2 DEF SessionTyped
<1> QED  BY <1>1, <1>2, <1>3, <1>4, ArrivedIsTyped DEF Answers

-----------------------------------------------------------------------------
(* The queue for the lock, and the channel.                                *)

LEMMA QueueIs ==
  ASSUME SessionTyped
  PROVE  /\ queue \in Seq(Tabs) /\ Len(queue) \in Nat /\ DOMAIN queue = 1 .. Len(queue)
         /\ \A i \in DOMAIN queue : queue[i] \in Tabs
         /\ \A i, j \in DOMAIN queue : queue[i] = queue[j] => i = j
         /\ \A b \in Tabs : fetches[b].refresh.pc # "idle"
            <=> \E i \in DOMAIN queue : queue[i] = b
         /\ \A b \in Tabs : Way(b, "refresh") => queue[1] = b
BY DEF SessionTyped, QueueOK, BT!At, Way

\* The tab that has the lock hands it on.
LEMMA QueueOfEnd ==
  ASSUME SessionTyped, NEW b \in Tabs, fetches[b].refresh.pc # "idle", queue[1] = b,
         queue' = Tail(queue),
         fetches'[b].refresh.pc = "idle",
         \A c \in Tabs : c # b => fetches'[c].refresh = fetches[c].refresh
  PROVE  queue' \in Seq(Tabs) /\ QueueOK'
<1>1. queue # << >> /\ Len(queue) >= 1  BY QueueIs, EmptySeq
<1>2. /\ queue' \in Seq(Tabs) /\ Len(queue') = Len(queue) - 1
         /\ DOMAIN queue' = 1 .. Len(queue) - 1
      /\ \A i \in 1 .. Len(queue) - 1 : queue'[i] = queue[i + 1]
  <2>1. Tail(queue) \in Seq(Tabs) /\ Len(Tail(queue)) = Len(queue) - 1
        /\ \A i \in 1 .. Len(queue) - 1 : Tail(queue)[i] = queue[i + 1]
    BY <1>1, QueueIs, HeadTailProperties
  <2> DEFINE q == Tail(queue)
  <2>2. q \in Seq(Tabs) /\ Len(q) = Len(queue) - 1
          /\ \A i \in 1 .. Len(queue) - 1 : q[i] = queue[i + 1]
    BY <2>1
  <2> HIDE DEF q
  <2>3. DOMAIN q = 1 .. Len(q)  BY <2>2, LenProperties
  <2> QED  BY <2>2, <2>3 DEF q
<1> DEFINE L == Len(queue)
<1>3. L \in Nat /\ L >= 1 /\ DOMAIN queue = 1 .. L /\ \A i, j \in 1 .. L : queue[i] = queue[j]
        => i = j
  BY <1>1, QueueIs
<1>4. DOMAIN queue' = 1 .. L - 1 /\ \A i \in 1 .. L - 1 : queue'[i] = queue[i + 1]  BY <1>2
<1> HIDE DEF L
<1>5. \A i, j \in DOMAIN queue' : queue'[i] = queue'[j] => i = j
  <2> SUFFICES ASSUME NEW i \in 1 .. L - 1, NEW j \in 1 .. L - 1, queue'[i] = queue'[j]
               PROVE  i = j
    BY <1>4
  <2>1. i + 1 \in 1 .. L /\ j + 1 \in 1 .. L /\ queue[i + 1] = queue[j + 1]  BY <1>3, <1>4
  <2>2. i + 1 = j + 1  BY <1>3, <2>1
  <2> QED  BY <2>2
<1>6. \A c \in Tabs : (\E i \in DOMAIN queue' : queue'[i] = c) <=>
        c # b /\ \E i \in DOMAIN queue : queue[i] = c
  <2> TAKE c \in Tabs
  <2>1. ASSUME NEW i \in DOMAIN queue', queue'[i] = c
        PROVE  c # b /\ \E j \in DOMAIN queue : queue[j] = c
    <3>1. i \in 1 .. L - 1 /\ queue[i + 1] = c  BY <1>4, <2>1
    <3>2. i + 1 \in 1 .. L /\ i + 1 # 1 /\ 1 \in 1 .. L  BY <1>3, <3>1
    <3> QED  BY <1>3, <3>1, <3>2
  <2>2. ASSUME NEW i \in DOMAIN queue, queue[i] = c, c # b
        PROVE  \E j \in DOMAIN queue' : queue'[j] = c
    <3>1. i # 1 /\ i \in 1 .. L  BY <1>3, <2>2
    <3>2. i - 1 \in 1 .. L - 1 /\ (i - 1) + 1 = i  BY <1>3, <3>1
    <3>3. queue'[i - 1] = queue[i]  BY <1>4, <3>2
    <3> QED  BY <1>4, <2>2, <3>2, <3>3
  <2> QED  BY <2>1, <2>2
<1>7. \A c \in Tabs : ~Way(c, "refresh")'
  <2> SUFFICES ASSUME NEW c \in Tabs, Way(c, "refresh")' PROVE FALSE
    OBVIOUS
  <2>1. c # b  BY DEF Way, BT!OnTheWay
  <2>2. Way(c, "refresh")  BY <2>1 DEF Way
  <2> QED  BY <2>1, <2>2, QueueIs
<1>8. \A c \in Tabs : fetches'[c].refresh.pc # "idle" <=>
        c # b /\ fetches[c].refresh.pc # "idle"
  OBVIOUS
<1>9. \A c \in Tabs : fetches'[c].refresh.pc # "idle" <=> \E i \in DOMAIN queue' : queue'[i] = c
  BY <1>6, <1>8, QueueIs
<1> QED  BY <1>2, <1>5, <1>7, <1>9 DEF QueueOK, BT!At, Way

\* A tab joins the end of a queue q that it is not in.
LEMMA QueueOfJoin ==
  ASSUME SessionTyped, NEW b \in Tabs, NEW q \in Seq(Tabs), queue' = Append(q, b),
         \A i, j \in DOMAIN q : q[i] = q[j] => i = j,
         \A c \in Tabs : (\E i \in DOMAIN q : q[i] = c) <=>
           c # b /\ fetches[c].refresh.pc # "idle",
         \A c \in Tabs : c # b /\ queue[1] = c /\ fetches[c].refresh.pc # "idle" => q[1] = c,
         fetches'[b].refresh.pc = "wait",
         \A c \in Tabs : c # b => fetches'[c].refresh = fetches[c].refresh
  PROVE  queue' \in Seq(Tabs) /\ QueueOK'
<1> DEFINE L == Len(q)
           r == Append(q, b)
<1>1. r \in Seq(Tabs) /\ Len(r) = L + 1 /\ \A i \in 1 .. L : r[i] = q[i] /\ r[L + 1] = b
  BY AppendProperties
<1>2. r[L + 1] = b  BY AppendProperties
<1>3. L \in Nat /\ DOMAIN q = 1 .. L  BY LenProperties
<1> HIDE DEF r
<1>4. DOMAIN r = 1 .. L + 1 /\ queue' = r  BY <1>1, LenProperties DEF r
<1> HIDE DEF L
<1>5. \A i \in 1 .. L : q[i] # b  BY <1>3
<1>6. \A i, j \in DOMAIN r : r[i] = r[j] => i = j
  <2> SUFFICES ASSUME NEW i \in 1 .. L + 1, NEW j \in 1 .. L + 1, r[i] = r[j] PROVE i = j
    BY <1>4
  <2>1. (i \in 1 .. L \/ i = L + 1) /\ (j \in 1 .. L \/ j = L + 1)  BY <1>3
  <2> QED  BY <1>1, <1>2, <1>3, <1>5, <2>1
<1>7. \A c \in Tabs : (\E i \in DOMAIN r : r[i] = c) <=> c = b \/ \E i \in DOMAIN q : q[i] = c
  <2>1. \A i \in 1 .. L + 1 : i \in 1 .. L \/ i = L + 1  BY <1>3
  <2>2. L + 1 \in 1 .. L + 1 /\ \A i \in 1 .. L : i \in 1 .. L + 1  BY <1>3
  <2> QED  BY <1>1, <1>2, <1>3, <1>4, <2>1, <2>2
<1>8. \A c \in Tabs : fetches'[c].refresh.pc # "idle" <=> \E i \in DOMAIN r : r[i] = c  BY <1>7
<1>9. \A c \in Tabs : Way(c, "refresh")' => r[1] = c
  <2> SUFFICES ASSUME NEW c \in Tabs, Way(c, "refresh")' PROVE r[1] = c
    OBVIOUS
  <2>1. c # b  BY DEF Way, BT!OnTheWay
  <2>2. Way(c, "refresh") /\ fetches[c].refresh.pc # "idle"  BY <2>1 DEF Way, BT!OnTheWay
  <2>3. q[1] = c /\ \E i \in 1 .. L : q[i] = c  BY <1>3, <2>1, <2>2, QueueIs
  <2>4. 1 \in 1 .. L  BY <1>3, <2>3
  <2> QED  BY <1>1, <2>3, <2>4
<1> QED  BY <1>1, <1>4, <1>6, <1>8, <1>9 DEF QueueOK, BT!At, Way

LEMMA WithoutIs ==
  ASSUME SessionTyped, NEW b \in Tabs
  PROVE  /\ BT!Without(b) \in Seq(Tabs)
         /\ \A i, j \in DOMAIN BT!Without(b) :
              BT!Without(b)[i] = BT!Without(b)[j] => i = j
         /\ \A c \in Tabs : (\E i \in DOMAIN BT!Without(b) : BT!Without(b)[i] = c) <=>
            c # b /\ fetches[c].refresh.pc # "idle"
         /\ \A c \in Tabs : c # b /\ queue[1] = c /\ fetches[c].refresh.pc # "idle"
            => BT!Without(b)[1] = c
<1>1. CASE ~(\E i \in DOMAIN queue : queue[i] = b)
  <2>1. BT!Without(b) = queue  BY <1>1 DEF BT!Without
  <2> QED  BY <1>1, <2>1, QueueIs
<1>2. CASE \E i \in DOMAIN queue : queue[i] = b
  <2> DEFINE m == CHOOSE i \in DOMAIN queue : queue[i] = b
             L == Len(queue)
             q == [k \in 1 .. L - 1 |-> queue[IF k < m THEN k ELSE k + 1]]
  <2>1. BT!Without(b) = q  BY <1>2 DEF BT!Without
  <2>2. m \in DOMAIN queue /\ queue[m] = b  BY <1>2
  <2>3. L \in Nat /\ DOMAIN queue = 1 .. L  BY QueueIs
  <2> HIDE DEF m, L
  <2>4. m \in 1 .. L /\ \A k \in 1 .. L - 1 : (IF k < m THEN k ELSE k + 1) \in 1 .. L
    BY <2>2, <2>3
  <2>5. DOMAIN q = 1 .. L - 1 /\ L - 1 \in Nat  BY <2>3, <2>4
  <2>6. \A k \in 1 .. L - 1 : q[k] \in Tabs  BY <2>3, <2>4, QueueIs
  <2>7. q \in Seq(Tabs)  BY <2>5, <2>6, IsASeq
  <2>8. \A i, j \in 1 .. L - 1 : q[i] = q[j] => i = j
    <3> SUFFICES ASSUME NEW i \in 1 .. L - 1, NEW j \in 1 .. L - 1, q[i] = q[j] PROVE i = j
      OBVIOUS
    <3>1. (IF i < m THEN i ELSE i + 1) = (IF j < m THEN j ELSE j + 1)  BY <2>3, <2>4, QueueIs
    <3> QED  BY <2>3, <2>4, <3>1
  <2>9. \A c \in Tabs : (\E i \in 1 .. L - 1 : q[i] = c) <=>
          c # b /\ \E i \in 1 .. L : queue[i] = c
    <3> SUFFICES ASSUME NEW c \in Tabs
                 PROVE  (\E i \in 1 .. L - 1 : q[i] = c) <=>
                          c # b /\ \E i \in 1 .. L : queue[i] = c
      OBVIOUS
    <3>1. ASSUME NEW i \in 1 .. L - 1, q[i] = c PROVE c # b /\ \E j \in 1 .. L : queue[j] = c
      <4> DEFINE j == IF i < m THEN i ELSE i + 1
      <4>1. j \in 1 .. L /\ queue[j] = c  BY <2>4, <3>1
      <4>2. j # m  BY <2>3, <2>4
      <4> QED  BY <2>2, <2>3, <4>1, <4>2, QueueIs
    <3>2. ASSUME NEW j \in 1 .. L, queue[j] = c, c # b PROVE \E i \in 1 .. L - 1 : q[i] = c
      <4>1. j # m  BY <2>2, <3>2
      <4>2. CASE j < m
        <5>1. j \in 1 .. L - 1 /\ q[j] = queue[j]  BY <2>3, <2>4, <4>2
        <5> QED  BY <3>2, <5>1
      <4>3. CASE j > m
        <5>1. j - 1 \in 1 .. L - 1 /\ ~(j - 1 < m) /\ (j - 1) + 1 = j  BY <2>3, <2>4, <4>3
        <5>2. q[j - 1] = queue[j]  BY <5>1
        <5> QED  BY <3>2, <5>1, <5>2
      <4> QED  BY <2>3, <2>4, <4>1, <4>2, <4>3
    <3> QED  BY <3>1, <3>2
  <2>10. ASSUME NEW c \in Tabs, c # b, queue[1] = c, fetches[c].refresh.pc # "idle"
         PROVE  q[1] = c
    <3>1. m # 1  BY <2>2, <2>10
    <3>2. 1 \in 1 .. L - 1 /\ 1 < m  BY <2>3, <2>4, <3>1
    <3> QED  BY <2>10, <3>2
  <2>11. DOMAIN q = 1 .. L - 1  BY <2>5
  <2> HIDE DEF q
  <2>12. \A i, j \in DOMAIN q : q[i] = q[j] => i = j  BY <2>8, <2>11
  <2>13. \A c \in Tabs : (\E i \in DOMAIN queue : queue[i] = c)
           <=> fetches[c].refresh.pc # "idle"
    BY QueueIs
  <2>14. \A c \in Tabs : (\E i \in DOMAIN q : q[i] = c) <=>
           c # b /\ fetches[c].refresh.pc # "idle"
    BY <2>3, <2>9, <2>11, <2>13
  <2>15. \A c \in Tabs : c # b /\ queue[1] = c /\ fetches[c].refresh.pc # "idle" => q[1] = c
    BY <2>10
  <2> QED  BY <2>1, <2>7, <2>12, <2>14, <2>15
<1> QED  BY <1>1, <1>2

-----------------------------------------------------------------------------
(* Types: what a tab does.                                                 *)

\* A step of tab b that leaves the backend and the cookie alone.
LEMMA StepIsTyped ==
  ASSUME TabsFit, SessionTyped, UNCHANGED <<cookie, home, live>>, NEW b \in Tabs,
         tabs' \in [Tabs -> BT!Tab], \A c \in Tabs : c # b => tabs'[c] = tabs[c], TabOK(b)',
         channel' \in [Tabs -> Seq(Messages)], \A c \in Tabs : ChannelOK(c)',
         \A c \in Tabs : c # b /\ tabs[c].state = "closed" => channel'[c] = channel[c],
         fetches' \in [Tabs -> [BT!Who -> CallsOfSession]], \A k \in BT!Who : FetchOK(b, k)',
         \A c \in Tabs : c # b => fetches'[c] = fetches[c],
         queue' \in Seq(Tabs), QueueOK', past' \subseteq BT!Notes
  PROVE  SessionTyped'
<1>1. HomeTyped' /\ BT!Tab' = BT!Tab /\ Minted' = Minted  BY HomeTypedStays
<1>2. \A c \in Tabs : TabOK(c)'  BY <1>1, TabStays
<1>3. \A c \in Tabs : \A k \in BT!Who : FetchOK(c, k)'  BY <1>1, FetchStays
<1>4. cookie' \in Minted' \cup {None} /\ live' \subseteq Minted' /\ tabs' \in [Tabs -> BT!Tab]
  BY <1>1, TypesAre
<1> QED  BY <1>1, <1>2, <1>3, <1>4, TypesNext

LEMMA IdleIsOK ==
  ASSUME TabsFit, NEW b \in Tabs, NEW k \in BT!Who, fetches'[b][k] = BT!Idle
  PROVE  FetchOK(b, k)'
BY DEF FetchOK, BT!Idle, BT!OnTheWay, TabsFit, BT!States, BT!Reasons, BT!SessionOps

\* A session call that leaves.
LEMMA SentIsOK ==
  ASSUME TabsFit, SessionTyped, UNCHANGED <<cookie, home>>, NEW b \in Tabs, NEW k \in BT!Who,
         NEW op \in BT!SessionOps,
         NEW to \in Workspaces \cup {None}, op = "refresh" <=> k = "refresh",
         op \in {"switch", "select", "accept"} => to \in Workspaces,
         NEW f, fetches'[b][k] = f, f.pc = "sent", f.op = op, f.sent = cookie, f.to = to
  PROVE  FetchOK(b, k)'
<1>1. Minted' = Minted /\ cookie \in Minted \cup {None}  BY HomeTypedStays, TypesAre
<1> QED  BY <1>1 DEF FetchOK

\* A refresh that waits for the lock, and a request that waits for the refresh.
LEMMA WaitIsOK ==
  ASSUME TabsFit, NEW b \in Tabs, NEW k \in BT!Who, NEW f, fetches'[b][k] = f, f.sent = None,
         \/ f.pc = "wait" /\ f.op = "refresh" /\ k = "refresh"
         \/ f.pc = "await" /\ f.op = "request" /\ k = "user"
  PROVE  FetchOK(b, k)'
BY DEF FetchOK, BT!OnTheWay

LEMMA TellIs ==
  ASSUME SessionTyped, NEW b \in Tabs, NEW m \in Messages, BT!Tell(b, m), home' = home,
         m.type # "SESSION_ENDED" => m.token \in Minted
  PROVE  /\ channel' \in [Tabs -> Seq(Messages)] /\ channel'[b] = channel[b]
         /\ \A c \in Tabs : tabs[c].state = "closed" => channel'[c] = channel[c]
         /\ \A c \in Tabs : tabs[c].state # "closed" /\ c # b
            => channel'[c] = Append(channel[c], m)
         /\ \A c \in Tabs : ChannelOK(c)'
<1>1. channel \in [Tabs -> Seq(Messages)] /\ Minted' = Minted  BY HomeTypedStays, TypesAre
<1>2. \A c \in Tabs : Append(channel[c], m) \in Seq(Messages)  BY <1>1, AppendProperties
<1>3. channel' = [u \in Tabs |-> IF u \in BT!Open \ {b} THEN Append(channel[u], m)
        ELSE channel[u]]
  BY DEF BT!Tell, BT!Told
<1>4. channel' \in [Tabs -> Seq(Messages)]  BY <1>1, <1>2, <1>3
<1>5. \A c \in Tabs : channel'[c] = IF c \in BT!Open \ {b} THEN Append(channel[c], m)
        ELSE channel[c]
  BY <1>3
<1>6. \A c \in Tabs : c \in BT!Open <=> tabs[c].state # "closed"  BY DEF BT!Open
<1>7. \A c \in Tabs : ChannelOK(c)'
  <2> SUFFICES ASSUME NEW c \in Tabs PROVE ChannelOK(c)'
    OBVIOUS
  <2>1. CASE channel'[c] = channel[c]  BY <1>1, <2>1, ChannelStays
  <2>2. CASE channel'[c] = Append(channel[c], m)
    <3> DEFINE s == channel[c]
               r == Append(s, m)
    <3>1. s \in Seq(Messages)  BY <1>1
    <3>2. Len(r) = Len(s) + 1 /\ (\A i \in 1 .. Len(s) : r[i] = s[i]) /\ r[Len(s) + 1] = m
            /\ r \in Seq(Messages)
      BY <3>1, AppendProperties
    <3>3. DOMAIN s = 1 .. Len(s) /\ Len(s) \in Nat  BY <3>1, LenProperties
    <3>4. ChannelOK(c)  BY TypesAre
    <3>5. \A i \in DOMAIN s : s[i].type # "SESSION_ENDED" => s[i].token \in Minted
      BY <3>4 DEF ChannelOK
    <3> HIDE DEF r, s
    <3>6. DOMAIN r = 1 .. Len(s) + 1  BY <3>2, LenProperties
    <3>7. \A i \in DOMAIN r : r[i].type # "SESSION_ENDED" => r[i].token \in Minted
      <4> SUFFICES ASSUME NEW i \in 1 .. Len(s) + 1, r[i].type # "SESSION_ENDED"
                   PROVE  r[i].token \in Minted
        BY <3>6
      <4>1. i \in 1 .. Len(s) \/ i = Len(s) + 1  BY <3>3
      <4> QED  BY <3>2, <3>3, <3>5, <4>1
    <3>8. channel'[c] = r  BY <2>2 DEF r, s
    <3> QED  BY <1>1, <3>7, <3>8 DEF ChannelOK
  <2> QED  BY <1>5, <2>1, <2>2
<1> QED  BY <1>4, <1>5, <1>6, <1>7

\* A refresh of b ends.
LEMMA EndIs ==
  ASSUME TabsFit, SessionTyped, NEW b \in Tabs, fetches[b].refresh.pc # "idle", queue[1] = b,
         NEW n, NEW ok \in BOOLEAN, BT!EndRefresh(b, n, ok)
  PROVE  /\ queue' \in Seq(Tabs) /\ QueueOK'
         /\ fetches' \in [Tabs -> [BT!Who -> CallsOfSession]] /\ fetches'[b].refresh = BT!Idle
         /\ fetches'[b].user = IF fetches[b].user.pc = "await" THEN BT!Idle ELSE fetches[b].user
         /\ \A c \in Tabs : c # b => fetches'[c] = fetches[c]
         /\ past' \subseteq BT!Notes
         /\ ~BT!Upset' => ~BT!Upset /\ past' = past \cup IF ok /\ BT!Strays(b, n)
            THEN {"strayed"} ELSE {}
<1>1. /\ fetches \in [Tabs -> [BT!Who -> CallsOfSession]] /\ past \subseteq BT!Notes
      /\ \A c \in Tabs : fetches[c] \in [BT!Who -> CallsOfSession]
  BY TypesAre
<1>2. fetches' = [fetches EXCEPT ![b].refresh = BT!Idle, ![b].user = IF @.pc = "await"
        THEN BT!Idle ELSE @]
  BY DEF BT!EndRefresh
<1>3. /\ fetches' \in [Tabs -> [BT!Who -> CallsOfSession]] /\ fetches'[b].refresh = BT!Idle
      /\ fetches'[b].user = IF fetches[b].user.pc = "await" THEN BT!Idle ELSE fetches[b].user
      /\ \A c \in Tabs : c # b => fetches'[c] = fetches[c]
  <2> DEFINE h == [fetches EXCEPT ![b].refresh = BT!Idle]
  <2>1. h \in [Tabs -> [BT!Who -> CallsOfSession]] /\ h[b].refresh = BT!Idle
          /\ h[b].user = fetches[b].user
        /\ \A c \in Tabs : c # b => h[c] = fetches[c]
    BY <1>1, WhoIs, IdleIs
  <2> DEFINE g == IF fetches[b].user.pc = "await" THEN BT!Idle ELSE fetches[b].user
  <2>2. g \in CallsOfSession  BY <1>1, WhoIs, IdleIs
  <2>3. fetches' = [h EXCEPT ![b].user = g]  BY <1>2, <2>1
  <2> HIDE DEF h, g
  <2>4. fetches' \in [Tabs -> [BT!Who -> CallsOfSession]] /\ fetches'[b].user = g
          /\ fetches'[b].refresh = h[b].refresh
        /\ \A c \in Tabs : c # b => fetches'[c] = h[c]
    BY <2>1, <2>2, <2>3, WhoIs
  <2> QED  BY <2>1, <2>4 DEF g
<1>4. queue' \in Seq(Tabs) /\ QueueOK'
  <2>1. queue' = Tail(queue) /\ fetches'[b].refresh.pc = "idle"
        /\ \A c \in Tabs : c # b => fetches'[c].refresh = fetches[c].refresh
    BY <1>3, IdleIs DEF BT!EndRefresh
  <2> QED  BY <2>1, QueueOfEnd
<1>5. past' \subseteq BT!Notes /\ (~BT!Upset' =>
        ~BT!Upset /\ past' = past \cup IF ok /\ BT!Strays(b, n) THEN {"strayed"} ELSE {})
  <2>1. CASE ok /\ BT!Strays(b, n)
    <3>1. BT!Note({"strayed"})  BY <2>1 DEF BT!EndRefresh
    <3> QED  BY <1>1, <2>1, <3>1, NoteIs DEF BT!Notes
  <2>2. CASE ~(ok /\ BT!Strays(b, n))
    <3>1. past' = past  BY <2>2 DEF BT!EndRefresh
    <3> QED  BY <1>1, <2>2, <3>1 DEF BT!Upset
  <2> QED  BY <2>1, <2>2
<1> QED  BY <1>3, <1>4, <1>5
-----------------------------------------------------------------------------
(* Types: the refresh.                                                     *)

LEMMA AppliedIs ==
  ASSUME TabsFit, SessionTyped, NEW t \in BT!Tab, NEW n \in Minted
  PROVE  /\ BT!Applied(t, n) \in BT!Tab /\ BT!Applied(t, n).state = "AUTHENTICATED"
            /\ BT!Applied(t, n).token = n
         /\ BT!Applied(t, n).screen = t.screen /\ BT!Applied(t, n).leaving = t.leaving
         /\ BT!Applied(t, n).pending = t.pending
         /\ BT!Switched(t, n) \in BT!Tab /\ BT!Switched(t, n).state = "AUTHENTICATED"
            /\ BT!Switched(t, n).token = n
         /\ BT!Switched(t, n).screen = t.screen /\ BT!Switched(t, n).leaving
<1>1. n \in BT!Tokens /\ n # None  BY TokensAre
<1>2. BT!Applied(t, n) \in BT!Tab /\ BT!Applied(t, n).state = "AUTHENTICATED"
        /\ BT!Applied(t, n).token = n
      /\ BT!Applied(t, n).screen = t.screen /\ BT!Applied(t, n).leaving = t.leaving
         /\ BT!Applied(t, n).pending = t.pending
  BY <1>1 DEF BT!Applied, BT!Tab, BT!States
<1> HIDE DEF BT!Applied
<1>3. BT!Switched(t, n) \in BT!Tab /\ BT!Switched(t, n).state = "AUTHENTICATED"
            /\ BT!Switched(t, n).token = n
         /\ BT!Switched(t, n).screen = t.screen /\ BT!Switched(t, n).leaving
  BY <1>2 DEF BT!Switched, BT!Tab
<1> QED  BY <1>2, <1>3

LEMMA ClearedIs ==
  ASSUME TabsFit, SessionTyped, NEW t \in BT!Tab
  PROVE  /\ BT!Cleared(t) \in BT!Tab /\ BT!Cleared(t).state = "UNAUTHENTICATED"
            /\ BT!Cleared(t).token = None
         /\ BT!Cleared(t).screen = "sign-in" /\ BT!Cleared(t).pending = None
            /\ BT!Cleared(t).leaving = t.leaving
BY DEF BT!Cleared, BT!Tab, BT!States

\* A tab that is open and has a token of its own, or none and nothing to show.
LEMMA TabIsOK ==
  ASSUME TabsFit, home' = home, NEW b \in Tabs, NEW t, tabs'[b] = t, t.state # "closed",
         \/ t.token \in Minted
         \/ t.token = None /\ t.state # "AUTHENTICATED" /\ t.screen \notin Workspaces,
         SessionTyped
  PROVE  TabOK(b)'
<1>1. Minted' = Minted /\ None \notin Minted  BY HomeTypedStays, TokensAre
<1> QED  BY <1>1 DEF TabOK

LEMMA EndIsTyped ==
  ASSUME TabsFit, SessionTyped, UNCHANGED <<cookie, home, live>>, NEW b \in Tabs,
         fetches[b].refresh.pc # "idle", queue[1] = b,
         NEW n, NEW ok \in BOOLEAN, BT!EndRefresh(b, n, ok),
         tabs' \in [Tabs -> BT!Tab], \A c \in Tabs : c # b => tabs'[c] = tabs[c], TabOK(b)',
         channel' \in [Tabs -> Seq(Messages)], \A c \in Tabs : ChannelOK(c)',
         \A c \in Tabs : c # b /\ tabs[c].state = "closed" => channel'[c] = channel[c]
  PROVE  SessionTyped'
<1>1. /\ queue' \in Seq(Tabs) /\ QueueOK' /\ past' \subseteq BT!Notes
      /\ fetches' \in [Tabs -> [BT!Who -> CallsOfSession]] /\ fetches'[b].refresh = BT!Idle
      /\ fetches'[b].user = BT!Idle \/ fetches'[b].user = fetches[b].user
      /\ \A c \in Tabs : c # b => fetches'[c] = fetches[c]
  BY EndIs
<1>2. \A k \in BT!Who : FetchOK(b, k)'
  <2>1. FetchOK(b, "refresh")'  BY <1>1, IdleIsOK, WhoIs
  <2>2. CASE fetches'[b].user = BT!Idle  BY <2>1, <2>2, IdleIsOK, WhoIs
  <2>3. CASE fetches'[b].user = fetches[b].user
    BY <2>1, <2>3, FetchStays, HomeTypedStays, WhoIs
  <2> QED  BY <1>1, <2>2, <2>3
<1> QED  BY <1>1, <1>2, StepIsTyped

\* Who has the lock is first in the queue.
LEMMA GrantedIs ==
  ASSUME SessionTyped, NEW b \in Tabs, fetches[b].refresh.pc # "idle", BT!Granted(b)
  PROVE  queue[1] = b /\ tabs[b].state # "closed"
<1>1. queue # << >>  BY QueueIs, EmptySeq
<1>2. Head(queue) = queue[1]  BY <1>1, QueueIs, HeadTailProperties
<1>3. ~BT!At(b, "refresh", "idle")  BY DEF BT!At
<1> QED  BY <1>2, <1>3, OpenTabs, WhoIs DEF BT!Granted

LEMMA AdoptIsTyped ==
  ASSUME TabsFit, SessionTyped, NEW b \in Tabs, BT!AdoptToken(b)
  PROVE  SessionTyped'
<1>1. /\ fetches[b].refresh.pc # "idle" /\ BT!Granted(b)
         /\ BT!EndRefresh(b, tabs[b].token, TRUE)
      /\ UNCHANGED <<cookie, home, live, channel, tabs>>
  BY DEF BT!AdoptToken, BT!At, BT!backend
<1>2. queue[1] = b /\ tabs[b].state # "closed"  BY <1>1, GrantedIs
<1>3. Minted' = Minted  BY <1>1, HomeTypedStays
<1>4. TabOK(b)'  BY <1>1, <1>2, <1>3, TabStays
<1>5. \A c \in Tabs : ChannelOK(c)'  BY <1>1, <1>3, ChannelStays
<1>6. tabs' \in [Tabs -> BT!Tab] /\ channel' \in [Tabs -> Seq(Messages)]  BY <1>1, TypesAre
<1> QED  BY <1>1, <1>2, <1>4, <1>5, <1>6, EndIsTyped

\* A call takes the place of what its part of the tab was doing, and the queue stays.
LEMMA PutIsTyped ==
  ASSUME TabsFit, SessionTyped, UNCHANGED <<cookie, home, live, queue>>, NEW b \in Tabs,
         NEW k \in BT!Who,
         NEW f \in CallsOfSession, BT!Put(b, k, f), FetchOK(b, k)', past' \subseteq BT!Notes,
         k = "refresh" => fetches[b].refresh.pc # "idle" /\ f.pc # "idle" /\ queue[1] = b,
         tabs' \in [Tabs -> BT!Tab], \A c \in Tabs : c # b => tabs'[c] = tabs[c], TabOK(b)',
         channel' \in [Tabs -> Seq(Messages)], \A c \in Tabs : ChannelOK(c)',
         \A c \in Tabs : c # b /\ tabs[c].state = "closed" => channel'[c] = channel[c]
  PROVE  SessionTyped'
<1>1. /\ fetches' \in [Tabs -> [BT!Who -> CallsOfSession]] /\ fetches'[b][k] = f
      /\ \A c \in Tabs : \A l \in BT!Who : c # b \/ l # k => fetches'[c][l] = fetches[c][l]
  BY PutIs, TypesAre
<1>2. \A c \in Tabs : c # b => fetches'[c] = fetches[c]  BY TypesAre DEF BT!Put
<1>3. \A l \in BT!Who : FetchOK(b, l)'  BY <1>1, FetchStays, HomeTypedStays
<1>4. QueueOK' /\ queue' \in Seq(Tabs)
  <2>1. ASSUME NEW c \in Tabs
        PROVE  /\ fetches'[c].refresh.pc = "idle" <=> fetches[c].refresh.pc = "idle"
               /\ Way(c, "refresh")' => Way(c, "refresh") \/ queue[1] = c
    <3>1. CASE c = b /\ k = "refresh"  BY <1>1, <3>1 DEF Way
    <3>2. CASE ~(c = b /\ k = "refresh")  BY <1>1, <3>2, WhoIs DEF Way
    <3> QED  BY <3>1, <3>2
  <2> QED  BY <2>1, QueueStays, TypesAre
<1> QED  BY <1>1, <1>2, <1>3, <1>4, StepIsTyped

LEMMA PostIs ==
  ASSUME TabsFit, SessionTyped, NEW b \in Tabs, BT!PostRefresh(b)
  PROVE  /\ SessionTyped' /\ UNCHANGED <<cookie, home, live, queue, channel, tabs>>
            /\ BT!Note(BT!Crossing(b, "refresh"))
         /\ queue[1] = b /\ fetches[b].refresh.pc = "wait"
         /\ \E f \in CallsOfSession : /\ BT!Put(b, "refresh", f)
                                      /\ f.pc = "sent" /\ f.op = "refresh" /\ f.sent = cookie
                                         /\ f.answer = None
<1>1. /\ fetches[b].refresh.pc = "wait" /\ BT!Granted(b) /\ UNCHANGED <<cookie, home, live,
         queue, channel, tabs>>
      /\ BT!Note(BT!Crossing(b, "refresh"))
  BY DEF BT!PostRefresh, BT!At, BT!backend
<1> DEFINE s == BT!Sent("refresh", None)
           f == [s EXCEPT !.before = fetches[b].refresh.before]
<1>2. BT!Put(b, "refresh", f)  BY DEF BT!PostRefresh
<1>3. s \in CallsOfSession /\ s.pc = "sent" /\ s.op = "refresh" /\ s.sent = cookie
        /\ s.to = None /\ s.answer = None
  BY SentIs DEF BT!SessionOps
<1>4. fetches[b].refresh.before \in Nat \cup {None}  BY TypesAre, WhoIs DEF CallsOfSession
<1> HIDE DEF s
<1>5. f \in CallsOfSession /\ f.pc = "sent" /\ f.op = "refresh" /\ f.sent = cookie
        /\ f.to = None /\ f.answer = None
  BY <1>3, <1>4 DEF CallsOfSession
<1> HIDE DEF f
<1>6. queue[1] = b /\ tabs[b].state # "closed"  BY <1>1, GrantedIs
<1>7. fetches'[b].refresh = f  BY <1>2, <1>5, PutIs, TypesAre, WhoIs
<1>8. FetchOK(b, "refresh")'  BY <1>1, <1>5, <1>7, SentIsOK, WhoIs DEF BT!SessionOps
<1>9. past' \subseteq BT!Notes  BY <1>1, CrossingIs, NoteIs, TypesAre, WhoIs
<1>10. Minted' = Minted  BY <1>1, HomeTypedStays
<1>11. TabOK(b)' /\ \A c \in Tabs : ChannelOK(c)'  BY <1>1, <1>6, <1>10, TabStays, ChannelStays
<1>12. tabs' \in [Tabs -> BT!Tab] /\ channel' \in [Tabs -> Seq(Messages)]  BY <1>1, TypesAre
<1>13. SessionTyped'  BY <1>1, <1>2, <1>5, <1>6, <1>8, <1>9, <1>11, <1>12, PutIsTyped, WhoIs
<1> QED  BY <1>1, <1>2, <1>5, <1>6, <1>13

\* What a refresh leaves behind.
LEMMA FinishIs ==
  ASSUME TabsFit, SessionTyped, NEW b \in Tabs, BT!FinishRefresh(b)
  PROVE  LET f == fetches[b].refresh IN
         /\ f.pc = "arrived" /\ Way(b, "refresh") /\ queue[1] = b /\ tabs[b].state # "closed"
         /\ UNCHANGED <<cookie, home, live>>
         /\ BT!EndRefresh(b, f.token, f.answer = "ok")
         /\ tabs' \in [Tabs -> BT!Tab] /\ \A c \in Tabs : c # b => tabs'[c] = tabs[c]
         /\ f.answer = "ok" => tabs'[b] = BT!Applied(tabs[b], f.token) /\ f.token \in Minted
                               /\ BT!Message("ACCESS_TOKEN_UPDATED", f.token) \in Messages
                               /\ BT!Tell(b, BT!Message("ACCESS_TOKEN_UPDATED", f.token))
         /\ f.answer # "ok" => tabs'[b] = BT!Cleared(tabs[b])
         /\ f.answer = "lost" => channel' = channel
         /\ f.answer \notin {"ok", "lost"} =>
              /\ BT!Message("SESSION_ENDED", None) \in Messages
              /\ BT!Tell(b, BT!Message("SESSION_ENDED", None))
<1> DEFINE f == fetches[b].refresh
<1>1. f.pc = "arrived" /\ UNCHANGED <<cookie, home, live>>
        /\ BT!EndRefresh(b, f.token, f.answer = "ok")
      /\ tabs' = [tabs EXCEPT ![b] = IF f.answer = "ok" THEN BT!Applied(@, f.token)
         ELSE BT!Cleared(@)]
  BY DEF BT!FinishRefresh, BT!At, BT!backend
<1>2. Way(b, "refresh")  BY <1>1 DEF Way, BT!OnTheWay
<1>3. queue[1] = b /\ tabs[b].state # "closed" /\ FetchOK(b, "refresh")  BY <1>2, WayIs, WhoIs
<1>4. f.answer = "ok" => f.token \in Minted  BY <1>1, <1>3 DEF FetchOK
<1>5. tabs \in [Tabs -> BT!Tab] /\ tabs[b] \in BT!Tab  BY TypesAre
<1>6. tabs' \in [Tabs -> BT!Tab] /\ (\A c \in Tabs : c # b => tabs'[c] = tabs[c])
      /\ tabs'[b] = IF f.answer = "ok" THEN BT!Applied(tabs[b], f.token)
         ELSE BT!Cleared(tabs[b])
  BY <1>1, <1>4, <1>5, AppliedIs, ClearedIs
<1>7. f.answer = "ok" => /\ BT!Tell(b, BT!Message("ACCESS_TOKEN_UPDATED", f.token))
                         /\ BT!Message("ACCESS_TOKEN_UPDATED", f.token) \in Messages
  <2>1. f.answer = "ok" => f.token \in Nat  BY <1>4, TokensAre
  <2> QED  BY <2>1 DEF BT!FinishRefresh, BT!Message, Messages
<1>8. (f.answer = "lost" => channel' = channel)
      /\ (f.answer \notin {"ok", "lost"} => BT!Tell(b, BT!Message("SESSION_ENDED", None)))
  BY DEF BT!FinishRefresh
<1>9. BT!Message("SESSION_ENDED", None) \in Messages  BY DEF BT!Message, Messages
<1> QED  BY <1>1, <1>2, <1>3, <1>4, <1>6, <1>7, <1>8, <1>9

LEMMA FinishIsTyped ==
  ASSUME TabsFit, SessionTyped, NEW b \in Tabs, BT!FinishRefresh(b)
  PROVE  SessionTyped'
<1> DEFINE f == fetches[b].refresh
<1>1. /\ f.pc = "arrived" /\ queue[1] = b /\ tabs[b].state # "closed"
      /\ UNCHANGED <<cookie, home, live>> /\ BT!EndRefresh(b, f.token, f.answer = "ok")
      /\ tabs' \in [Tabs -> BT!Tab] /\ \A c \in Tabs : c # b => tabs'[c] = tabs[c]
  BY FinishIs
<1>2. TabOK(b)'
  <2>1. tabs[b] \in BT!Tab  BY TypesAre
  <2>2. CASE f.answer = "ok"
    <3>1. f.token \in Minted /\ tabs'[b] = BT!Applied(tabs[b], f.token)  BY <2>2, FinishIs
    <3>2. tabs'[b].state # "closed" /\ tabs'[b].token = f.token  BY <2>1, <3>1, AppliedIs
    <3> QED  BY <1>1, <3>1, <3>2, TabIsOK
  <2>3. CASE f.answer # "ok"
    <3>1. tabs'[b] = BT!Cleared(tabs[b])  BY <2>3, FinishIs
    <3>2. tabs'[b].state = "UNAUTHENTICATED" /\ tabs'[b].token = None
            /\ tabs'[b].screen = "sign-in"
      BY <2>1, <3>1, ClearedIs
    <3> QED  BY <1>1, <3>2, TabIsOK DEF TabsFit
  <2> QED  BY <2>2, <2>3
<1>3. /\ channel' \in [Tabs -> Seq(Messages)] /\ \A c \in Tabs : ChannelOK(c)'
      /\ \A c \in Tabs : tabs[c].state = "closed" => channel'[c] = channel[c]
  <2>1. CASE f.answer = "ok"
    <3> DEFINE m == BT!Message("ACCESS_TOKEN_UPDATED", f.token)
    <3>1. m \in Messages /\ BT!Tell(b, m) /\ f.token \in Minted  BY <2>1, FinishIs
    <3>2. m.token = f.token  BY DEF BT!Message
    <3> QED  BY <1>1, <3>1, <3>2, TellIs
  <2>2. CASE f.answer = "lost"
    <3>1. channel' = channel /\ Minted' = Minted  BY <1>1, <2>2, FinishIs, HomeTypedStays
    <3> QED  BY <3>1, ChannelStays, TypesAre
  <2>3. CASE f.answer \notin {"ok", "lost"}
    <3> DEFINE m == BT!Message("SESSION_ENDED", None)
    <3>1. m \in Messages /\ BT!Tell(b, m)  BY <2>3, FinishIs
    <3>2. m.type = "SESSION_ENDED"  BY DEF BT!Message
    <3> QED  BY <1>1, <3>1, <3>2, TellIs
  <2> QED  BY <2>1, <2>2, <2>3
<1>4. f.pc # "idle" /\ (f.answer = "ok") \in BOOLEAN  BY <1>1
<1> QED  BY <1>1, <1>2, <1>3, <1>4, EndIsTyped
-----------------------------------------------------------------------------
(* Types: what a user does.                                                *)

\* A step of a tab b that is open or opens and that writes no call of a user.
LEMMA SwitchIs ==
  ASSUME TabsFit, SessionTyped, NEW b \in Tabs, BT!FinishSwitch(b)
  PROVE  LET f == fetches[b].user IN
         /\ f.pc = "arrived" /\ Way(b, "user") /\ tabs[b].state # "closed"
         /\ f.op \in {"select", "accept", "switch"}
         /\ UNCHANGED <<cookie, home, live, queue>> /\ BT!Put(b, "user", BT!Idle)
            /\ BT!Note(BT!Crossing(b, "user"))
         /\ tabs' \in [Tabs -> BT!Tab] /\ \A c \in Tabs : c # b => tabs'[c] = tabs[c]
         /\ f.answer # "ok" => UNCHANGED <<tabs, channel>>
         /\ f.answer = "ok" =>
              /\ f.token \in Minted /\ tabs'[b].state = "AUTHENTICATED"
                 /\ tabs'[b].token = f.token
              /\ tabs'[b].screen \in Workspaces => tabs'[b].leaving
              /\ BT!Message("WORKSPACE_SWITCHED", f.token) \in Messages
              /\ BT!Tell(b, BT!Message("WORKSPACE_SWITCHED", f.token))
<1> DEFINE f == fetches[b].user
           a == BT!Applied(tabs[b], f.token)
           g == BT!Entered(tabs[b], f)
<1>1. f.pc = "arrived" /\ f.op \in {"select", "accept", "switch"} /\ UNCHANGED <<cookie, home,
        live, queue>>
      /\ BT!Put(b, "user", BT!Idle) /\ BT!Note(BT!Crossing(b, "user"))
  BY DEF BT!FinishSwitch, BT!At, BT!backend
<1>2. Way(b, "user")  BY <1>1 DEF Way, BT!OnTheWay
<1>3. tabs[b].state # "closed" /\ FetchOK(b, "user")  BY <1>2, WayIs, WhoIs
<1>4. tabs \in [Tabs -> BT!Tab] /\ tabs[b] \in BT!Tab  BY TypesAre
<1>5. CASE f.answer = "ok"
  <2>1. f.token \in Minted /\ f.token \in Nat  BY <1>1, <1>3, <1>5, TokensAre DEF FetchOK
  <2>2. tabs' = [tabs EXCEPT ![b] = g] /\ BT!Tell(b, BT!Message("WORKSPACE_SWITCHED", f.token))
    BY <1>5 DEF BT!FinishSwitch, g
  <2>3. a \in BT!Tab /\ a.state = "AUTHENTICATED" /\ a.token = f.token
          /\ a.screen = tabs[b].screen
    BY <1>4, <2>1, AppliedIs
  <2> HIDE DEF a
  <2>4. (tabs[b].leaving \/ f.op = "switch") \in BOOLEAN  OBVIOUS
  <2>9. g = [a EXCEPT !.pending = None, !.leaving = tabs[b].leaving \/ f.op = "switch",
                      !.screen = IF f.op = "switch" THEN tabs[b].screen ELSE None]
    BY DEF BT!Entered, a
  <2> HIDE DEF g
  <2>5. /\ g \in BT!Tab /\ g.state = "AUTHENTICATED" /\ g.token = f.token
        /\ f.op = "switch" => g.leaving
        /\ f.op # "switch" => g.screen = None
    BY <2>3, <2>4, <2>9 DEF BT!Tab
  <2>6. tabs' \in [Tabs -> BT!Tab] /\ tabs'[b] = g /\ \A c \in Tabs : c # b
          => tabs'[c] = tabs[c]
    BY <1>4, <2>2, <2>5
  <2>7. g.screen \in Workspaces => g.leaving  BY <2>5 DEF TabsFit
  <2>8. BT!Message("WORKSPACE_SWITCHED", f.token) \in Messages  BY <2>1 DEF BT!Message, Messages
  <2> QED  BY <1>1, <1>2, <1>3, <1>5, <2>1, <2>2, <2>5, <2>6, <2>7, <2>8
<1>6. CASE f.answer # "ok"
  <2>1. UNCHANGED <<tabs, channel>>  BY <1>6 DEF BT!FinishSwitch
  <2> QED  BY <1>1, <1>2, <1>3, <1>4, <1>6, <2>1
<1> QED  BY <1>5, <1>6

LEMMA SwitchIsTyped ==
  ASSUME TabsFit, SessionTyped, NEW b \in Tabs, BT!FinishSwitch(b)
  PROVE  SessionTyped'
<1> DEFINE f == fetches[b].user
<1>1. /\ UNCHANGED <<cookie, home, live, queue>> /\ BT!Put(b, "user", BT!Idle)
         /\ BT!Note(BT!Crossing(b, "user"))
      /\ tabs[b].state # "closed"
      /\ tabs' \in [Tabs -> BT!Tab] /\ \A c \in Tabs : c # b => tabs'[c] = tabs[c]
  BY SwitchIs
<1>2. past' \subseteq BT!Notes /\ Minted' = Minted
  BY <1>1, CrossingIs, NoteIs, TypesAre, WhoIs, HomeTypedStays
<1>3. FetchOK(b, "user")'  BY <1>1, IdleIs, IdleIsOK, PutIs, TypesAre, WhoIs
<1>4. /\ TabOK(b)' /\ channel' \in [Tabs -> Seq(Messages)] /\ \A c \in Tabs : ChannelOK(c)'
      /\ \A c \in Tabs : tabs[c].state = "closed" => channel'[c] = channel[c]
  <2>1. CASE f.answer = "ok"
    <3> DEFINE m == BT!Message("WORKSPACE_SWITCHED", f.token)
    <3>1. m \in Messages /\ BT!Tell(b, m) /\ f.token \in Minted /\ tabs'[b].token = f.token
          /\ tabs'[b].state = "AUTHENTICATED"
      BY <2>1, SwitchIs
    <3>2. m.token = f.token  BY DEF BT!Message
    <3>3. TabOK(b)'  BY <1>1, <3>1, TabIsOK
    <3> QED  BY <1>1, <3>1, <3>2, <3>3, TellIs
  <2>2. CASE f.answer # "ok"
    <3>1. UNCHANGED <<tabs, channel>>  BY <2>2, SwitchIs
    <3> QED  BY <1>1, <1>2, <3>1, TabStays, ChannelStays, TypesAre
  <2> QED  BY <2>1, <2>2
<1> QED  BY <1>1, <1>2, <1>3, <1>4, IdleIs, PutIsTyped, WhoIs

LEMMA OutIs ==
  ASSUME TabsFit, SessionTyped, NEW b \in Tabs, BT!FinishLogout(b)
  PROVE  /\ fetches[b].user.pc = "arrived" /\ Way(b, "user") /\ fetches[b].user.op = "logout"
         /\ tabs[b].state # "closed"
         /\ UNCHANGED <<cookie, home, live, queue>> /\ BT!Put(b, "user", BT!Idle)
         /\ BT!Note({"out"} \cup BT!Crossing(b, "user")) /\ {"out"}
            \cup BT!Crossing(b, "user") \in SUBSET BT!Notes
         /\ tabs' \in [Tabs -> BT!Tab] /\ (\A c \in Tabs : c # b => tabs'[c] = tabs[c])
         /\ tabs'[b] = BT!Cleared(tabs[b])
         /\ BT!Message("SESSION_ENDED", None) \in Messages
            /\ BT!Tell(b, BT!Message("SESSION_ENDED", None))
<1>1. fetches[b].user.pc = "arrived" /\ fetches[b].user.op = "logout" /\ UNCHANGED <<cookie,
        home, live, queue>>
      /\ BT!Put(b, "user", BT!Idle) /\ BT!Note({"out"} \cup BT!Crossing(b, "user"))
      /\ tabs' = [tabs EXCEPT ![b] = BT!Cleared(@)] /\ BT!Tell(b,
         BT!Message("SESSION_ENDED", None))
  BY DEF BT!FinishLogout, BT!At, BT!backend
<1>2. Way(b, "user")  BY <1>1 DEF Way, BT!OnTheWay
<1>3. tabs[b].state # "closed"  BY <1>2, WayIs, WhoIs
<1>4. tabs \in [Tabs -> BT!Tab] /\ BT!Cleared(tabs[b]) \in BT!Tab  BY TypesAre, ClearedIs
<1>5. tabs' \in [Tabs -> BT!Tab] /\ (\A c \in Tabs : c # b => tabs'[c] = tabs[c])
        /\ tabs'[b] = BT!Cleared(tabs[b])
  BY <1>1, <1>4
<1>6. BT!Message("SESSION_ENDED", None) \in Messages  BY DEF BT!Message, Messages
<1>7. {"out"} \cup BT!Crossing(b, "user") \in SUBSET BT!Notes  BY CrossingIs, WhoIs DEF BT!Notes
<1> QED  BY <1>1, <1>2, <1>3, <1>5, <1>6, <1>7

LEMMA OutIsTyped ==
  ASSUME TabsFit, SessionTyped, NEW b \in Tabs, BT!FinishLogout(b)
  PROVE  SessionTyped'
<1> DEFINE m == BT!Message("SESSION_ENDED", None)
<1>1. /\ UNCHANGED <<cookie, home, live, queue>> /\ BT!Put(b, "user", BT!Idle)
         /\ tabs'[b] = BT!Cleared(tabs[b])
      /\ BT!Note({"out"} \cup BT!Crossing(b, "user")) /\ {"out"}
         \cup BT!Crossing(b, "user") \in SUBSET BT!Notes
      /\ m \in Messages /\ BT!Tell(b, m)
      /\ tabs' \in [Tabs -> BT!Tab] /\ \A c \in Tabs : c # b => tabs'[c] = tabs[c]
  BY OutIs
<1>2. past' \subseteq BT!Notes  BY <1>1, NoteIs, TypesAre
<1>3. FetchOK(b, "user")'  BY <1>1, IdleIs, IdleIsOK, PutIs, TypesAre, WhoIs
<1>4. TabOK(b)'
  <2>1. tabs'[b].state = "UNAUTHENTICATED" /\ tabs'[b].token = None
          /\ tabs'[b].screen = "sign-in"
    BY <1>1, ClearedIs, TypesAre
  <2> QED  BY <1>1, <2>1, TabIsOK DEF TabsFit
<1>5. m.type = "SESSION_ENDED"  BY DEF BT!Message
<1>6. /\ channel' \in [Tabs -> Seq(Messages)] /\ \A c \in Tabs : ChannelOK(c)'
      /\ \A c \in Tabs : tabs[c].state = "closed" => channel'[c] = channel[c]
  BY <1>1, <1>5, TellIs
<1> QED  BY <1>1, <1>2, <1>3, <1>4, <1>6, IdleIs, PutIsTyped, WhoIs

\* A session call that a user makes.
LEMMA MadeIsTyped ==
  ASSUME TabsFit, SessionTyped, NEW b \in Tabs, NEW op \in BT!SessionOps \ {"refresh"},
         NEW to \in Workspaces \cup {None},
         op \in {"switch", "select", "accept"} => to \in Workspaces,
         BT!Put(b, "user", BT!Sent(op, to)), UNCHANGED <<cookie, home, live, queue, channel,
           tabs>>,
         past' \subseteq BT!Notes, tabs[b].state # "closed"
  PROVE  SessionTyped'
<1> DEFINE f == BT!Sent(op, to)
<1>1. f \in CallsOfSession /\ f.pc = "sent" /\ f.op = op /\ f.sent = cookie /\ f.to = to
  BY SentIs
<1> HIDE DEF f
<1>2. fetches'[b].user = f  BY <1>1, PutIs, TypesAre, WhoIs DEF f
<1>3. FetchOK(b, "user")'  BY <1>1, <1>2, SentIsOK, WhoIs
<1>4. Minted' = Minted  BY HomeTypedStays
<1>5. TabOK(b)' /\ \A c \in Tabs : ChannelOK(c)'  BY <1>4, TabStays, ChannelStays
<1>6. tabs' \in [Tabs -> BT!Tab] /\ channel' \in [Tabs -> Seq(Messages)]  BY TypesAre
<1> QED  BY <1>1, <1>3, <1>5, <1>6, PutIsTyped, WhoIs DEF f

LEMMA SessionChooseIsTyped ==
  ASSUME TabsFit, SessionTyped, NEW b \in Tabs, NEW w \in Workspaces, BT!SwitchWorkspace(b, w)
  PROVE  SessionTyped'
<1> DEFINE op == IF tabs[b].pending = "LOGIN" THEN "select" ELSE "switch"
<1>1. /\ tabs[b].pending # None /\ UNCHANGED <<cookie, home, live, queue, channel, tabs>>
      /\ BT!Put(b, "user", BT!Sent(op, w)) /\ past' \subseteq BT!Noted(BT!Crossing(b, "user"))
  BY DEF BT!SwitchWorkspace, BT!backend
<1>2. tabs[b].state # "closed"  BY <1>1, OpenTabs
<1>3. past' \subseteq BT!Notes  BY <1>1, CrossingIs, NotedIs, TypesAre, WhoIs
<1>4. op \in BT!SessionOps \ {"refresh"}  BY DEF BT!SessionOps
<1> QED  BY <1>1, <1>2, <1>3, <1>4, MadeIsTyped

LEMMA AcceptIsTyped ==
  ASSUME TabsFit, SessionTyped, NEW b \in Tabs, NEW w \in Workspaces, BT!AcceptInvitation(b, w)
  PROVE  SessionTyped'
<1>1. /\ tabs[b].screen = "sign-in" /\ UNCHANGED <<cookie, home, live, queue, channel, tabs>>
      /\ BT!Put(b, "user", BT!Sent("accept", w)) /\ past'
         \subseteq BT!Noted(BT!Crossing(b, "user"))
  BY DEF BT!AcceptInvitation, BT!backend
<1>2. tabs[b].state # "closed"  BY <1>1, OpenTabs DEF TabsFit
<1>3. past' \subseteq BT!Notes  BY <1>1, CrossingIs, NotedIs, TypesAre, WhoIs
<1> QED  BY <1>1, <1>2, <1>3, MadeIsTyped DEF BT!SessionOps

LEMMA LeaveIsTyped ==
  ASSUME TabsFit, SessionTyped, NEW b \in Tabs, BT!Logout(b)
  PROVE  SessionTyped'
<1>1. /\ tabs[b].screen \in Workspaces /\ UNCHANGED <<cookie, home, live, queue, channel, tabs>>
      /\ BT!Put(b, "user", BT!Sent("logout", None)) /\ BT!Note(BT!Crossing(b, "user"))
  BY DEF BT!Logout, BT!backend
<1>2. tabs[b].state # "closed"  BY <1>1, OpenTabs DEF TabsFit
<1>3. past' \subseteq BT!Notes  BY <1>1, CrossingIs, NoteIs, TypesAre, WhoIs
<1> QED  BY <1>1, <1>2, <1>3, MadeIsTyped DEF BT!SessionOps
-----------------------------------------------------------------------------
(* Types: messages, pages and what waits for the lock.                     *)

\* The first message of a channel is heard.
LEMMA HearIs ==
  ASSUME TabsFit, SessionTyped, NEW b \in Tabs, BT!Hear(b)
  PROVE  LET m == Head(channel[b]) IN
         /\ UNCHANGED <<cookie, home, live, queue, past>> /\ tabs[b].state # "closed"
         /\ channel[b] # << >> /\ m = channel[b][1] /\ m \in Messages
         /\ channel' = [channel EXCEPT ![b] = Tail(channel[b])]
         /\ channel' \in [Tabs -> Seq(Messages)] /\ channel'[b] = Tail(channel[b])
         /\ \A c \in Tabs : c # b => channel'[c] = channel[c]
         /\ Len(channel[b]) \in Nat \ {0} /\ DOMAIN channel[b] = 1 .. Len(channel[b])
         /\ Len(channel'[b]) = Len(channel[b]) - 1
            /\ DOMAIN channel'[b] = 1 .. Len(channel[b]) - 1
         /\ \A i \in 1 .. Len(channel[b]) - 1 : channel'[b][i] = channel[b][i + 1]
         /\ m.type # "SESSION_ENDED" => m.token \in Minted
         /\ tabs' \in [Tabs -> BT!Tab] /\ \A c \in Tabs : c # b => tabs'[c] = tabs[c]
         /\ m.type = "ACCESS_TOKEN_UPDATED" => tabs'[b] = BT!Applied(tabs[b], m.token)
         /\ m.type = "WORKSPACE_SWITCHED" => tabs'[b] = BT!Switched(tabs[b], m.token)
         /\ m.type = "SESSION_ENDED" => tabs'[b] = BT!Cleared(tabs[b])
         /\ fetches' \in [Tabs -> [BT!Who -> CallsOfSession]]
         /\ \A c \in Tabs : c # b => fetches'[c] = fetches[c]
         /\ fetches'[b].refresh = fetches[b].refresh
         /\ fetches'[b].user = [fetches[b].user EXCEPT !.told = fetches[b].user.told
            \/ m.type = "WORKSPACE_SWITCHED"]
<1> DEFINE s == channel[b]
           m == Head(s)
           r == Tail(s)
           f == fetches[b].user
           g == [f EXCEPT !.told = f.told \/ m.type = "WORKSPACE_SWITCHED"]
<1>1. s # << >> /\ channel' = [channel EXCEPT ![b] = r] /\ UNCHANGED <<cookie, home, live,
        queue, past>>
  BY DEF BT!Hear, BT!backend
<1>2. s \in Seq(Messages) /\ channel \in [Tabs -> Seq(Messages)] /\ tabs \in [Tabs -> BT!Tab]
        /\ tabs[b] \in BT!Tab
      /\ fetches \in [Tabs -> [BT!Who -> CallsOfSession]]
         /\ fetches[b] \in [BT!Who -> CallsOfSession]
      /\ f \in CallsOfSession /\ ChannelOK(b)
  BY TypesAre, WhoIs
<1>3. tabs[b].state # "closed"  BY <1>1, OpenTabs
<1>4. /\ m = s[1] /\ m \in Messages /\ r \in Seq(Messages) /\ Len(r) = Len(s) - 1
      /\ \A i \in 1 .. Len(s) - 1 : r[i] = s[i + 1]
  BY <1>1, <1>2, HeadTailProperties
<1>5. Len(s) \in Nat \ {0} /\ DOMAIN s = 1 .. Len(s)  BY <1>1, <1>2, LenProperties, EmptySeq
<1>6. m.type # "SESSION_ENDED" => m.token \in Minted
  <2>1. 1 \in DOMAIN s  BY <1>5
  <2> QED  BY <1>2, <1>4, <2>1 DEF ChannelOK
<1>7. m.type \in {"ACCESS_TOKEN_UPDATED", "WORKSPACE_SWITCHED", "SESSION_ENDED"}
  BY <1>4 DEF Messages
<1>8. tabs' = [tabs EXCEPT ![b] = CASE m.type = "ACCESS_TOKEN_UPDATED"
                                       -> BT!Applied(tabs[b], m.token)
                                    [] m.type = "WORKSPACE_SWITCHED"
                                      -> BT!Switched(tabs[b], m.token)
                                    [] OTHER                           -> BT!Cleared(tabs[b])]
      /\ fetches' = [fetches EXCEPT ![b].user.told = f.told \/ m.type = "WORKSPACE_SWITCHED"]
  BY DEF BT!Hear
<1> HIDE DEF r
<1>9. channel' \in [Tabs -> Seq(Messages)] /\ channel'[b] = r /\ \A c \in Tabs : c # b
        => channel'[c] = channel[c]
  BY <1>1, <1>2, <1>4
<1>10. DOMAIN r = 1 .. Len(s) - 1  BY <1>4, LenProperties
<1> HIDE DEF m
<1>11. /\ tabs' \in [Tabs -> BT!Tab] /\ \A c \in Tabs : c # b => tabs'[c] = tabs[c]
       /\ m.type = "ACCESS_TOKEN_UPDATED" => tabs'[b] = BT!Applied(tabs[b], m.token)
       /\ m.type = "WORKSPACE_SWITCHED" => tabs'[b] = BT!Switched(tabs[b], m.token)
       /\ m.type = "SESSION_ENDED" => tabs'[b] = BT!Cleared(tabs[b])
  <2>1. CASE m.type = "ACCESS_TOKEN_UPDATED"  BY <1>2, <1>6, <1>8, <2>1, AppliedIs
  <2>2. CASE m.type = "WORKSPACE_SWITCHED"  BY <1>2, <1>6, <1>8, <2>2, AppliedIs
  <2>3. CASE m.type = "SESSION_ENDED"  BY <1>2, <1>8, <2>3, ClearedIs
  <2> QED  BY <1>7, <2>1, <2>2, <2>3
<1>12. g \in CallsOfSession
  <2>1. (f.told \/ m.type = "WORKSPACE_SWITCHED") \in BOOLEAN  OBVIOUS
  <2> QED  BY <1>2, <2>1 DEF CallsOfSession
<1>13. fetches' = [fetches EXCEPT ![b].user = g]  BY <1>2, <1>8
<1> HIDE DEF g
<1>14. fetches' \in [Tabs -> [BT!Who -> CallsOfSession]]
         /\ fetches'[b].refresh = fetches[b].refresh
       /\ fetches'[b].user = g /\ \A c \in Tabs : c # b => fetches'[c] = fetches[c]
  BY <1>2, <1>12, <1>13, WhoIs
<1> QED  BY <1>1, <1>3, <1>4, <1>5, <1>6, <1>9, <1>10, <1>11, <1>14 DEF g, m, r

LEMMA HearIsTyped ==
  ASSUME TabsFit, SessionTyped, NEW b \in Tabs, BT!Hear(b)
  PROVE  SessionTyped'
<1> DEFINE m == Head(channel[b])
           n == Len(channel[b])
           f == fetches[b].user
<1>1. /\ UNCHANGED <<cookie, home, live, queue, past>> /\ n \in Nat \ {0}
      /\ channel' \in [Tabs -> Seq(Messages)] /\ \A c \in Tabs : c # b
         => channel'[c] = channel[c]
      /\ tabs' \in [Tabs -> BT!Tab] /\ \A c \in Tabs : c # b => tabs'[c] = tabs[c]
      /\ fetches' \in [Tabs -> [BT!Who -> CallsOfSession]]
      /\ \A c \in Tabs : c # b => fetches'[c] = fetches[c]
      /\ fetches'[b].refresh = fetches[b].refresh
      /\ fetches'[b].user = [f EXCEPT !.told = f.told \/ m.type = "WORKSPACE_SWITCHED"]
  BY HearIs
<1>2. /\ DOMAIN channel[b] = 1 .. n /\ DOMAIN channel'[b] = 1 .. n - 1
      /\ \A i \in 1 .. n - 1 : channel'[b][i] = channel[b][i + 1]
  BY HearIs
<1>3. Minted' = Minted  BY <1>1, HomeTypedStays
<1>4. f \in CallsOfSession /\ fetches[b] \in [BT!Who -> CallsOfSession] /\ tabs[b] \in BT!Tab
        /\ ChannelOK(b)
  BY TypesAre, WhoIs
<1>5. fetches'[b].user.pc = f.pc /\ fetches'[b].user.op = f.op /\ fetches'[b].user.sent = f.sent
      /\ fetches'[b].user.to = f.to /\ fetches'[b].user.answer = f.answer
         /\ fetches'[b].user.token = f.token
  BY <1>1, <1>4 DEF CallsOfSession
<1>6. \A k \in BT!Who : FetchOK(b, k)'
  <2>1. FetchOK(b, "refresh")'  BY <1>1, <1>3, FetchStays, WhoIs
  <2>2. FetchOK(b, "user")  BY TypesAre, WhoIs
  <2>3. FetchOK(b, "user")'  BY <1>3, <1>5, <2>2 DEF FetchOK
  <2> QED  BY <2>1, <2>3, WhoIs
<1>7. \A c \in Tabs : ChannelOK(c)'
  <2>1. \A c \in Tabs : c # b => ChannelOK(c)'  BY <1>1, <1>3, ChannelStays
  <2>2. ChannelOK(b)'
    <3> SUFFICES ASSUME NEW i \in 1 .. n - 1, channel'[b][i].type # "SESSION_ENDED"
                 PROVE  channel'[b][i].token \in Minted
      BY <1>2, <1>3 DEF ChannelOK
    <3>1. i + 1 \in 1 .. n /\ channel'[b][i] = channel[b][i + 1]  BY <1>1, <1>2
    <3> QED  BY <1>2, <1>4, <3>1 DEF ChannelOK
  <2> QED  BY <2>1, <2>2
<1>8. TabOK(b)'
  <2>1. CASE m.type = "ACCESS_TOKEN_UPDATED"
    <3>1. tabs'[b] = BT!Applied(tabs[b], m.token) /\ m.token \in Minted  BY <2>1, HearIs
    <3>2. tabs'[b].state = "AUTHENTICATED" /\ tabs'[b].token = m.token  BY <1>4, <3>1, AppliedIs
    <3> QED  BY <1>1, <3>1, <3>2, TabIsOK
  <2>2. CASE m.type = "WORKSPACE_SWITCHED"
    <3>1. tabs'[b] = BT!Switched(tabs[b], m.token) /\ m.token \in Minted  BY <2>2, HearIs
    <3>2. tabs'[b].state = "AUTHENTICATED" /\ tabs'[b].token = m.token  BY <1>4, <3>1, AppliedIs
    <3> QED  BY <1>1, <3>1, <3>2, TabIsOK
  <2>3. CASE m.type = "SESSION_ENDED"
    <3>1. tabs'[b] = BT!Cleared(tabs[b])  BY <2>3, HearIs
    <3>2. tabs'[b].state = "UNAUTHENTICATED" /\ tabs'[b].token = None
            /\ tabs'[b].screen = "sign-in"
      BY <1>4, <3>1, ClearedIs
    <3> QED  BY <1>1, <3>2, TabIsOK DEF TabsFit
  <2>4. m \in Messages  BY HearIs
  <2> QED  BY <2>1, <2>2, <2>3, <2>4 DEF Messages
<1>9. queue' \in Seq(Tabs) /\ QueueOK'
  <2>1. \A c \in Tabs : fetches'[c].refresh = fetches[c].refresh  BY <1>1
  <2> QED  BY <1>1, <2>1, QueueStays, TypesAre DEF Way
<1>10. past' \subseteq BT!Notes  BY <1>1, TypesAre
<1> QED  BY <1>1, <1>6, <1>7, <1>8, <1>9, <1>10, StepIsTyped

\* A step that changes what an open tab shows or waits for.
LEMMA ShowIsTyped ==
  ASSUME TabsFit, SessionTyped, NEW b \in Tabs, UNCHANGED <<cookie, home, live, queue, channel,
         fetches, past>>,
         NEW t \in BT!Tab, tabs' = [tabs EXCEPT ![b] = t], tabs[b].state # "closed",
         t.state # "closed",
         t.token \in Minted \/ (t.token = None /\ t.state # "AUTHENTICATED"
           /\ t.screen \notin Workspaces)
  PROVE  SessionTyped'
<1>1. tabs' \in [Tabs -> BT!Tab] /\ tabs'[b] = t /\ \A c \in Tabs : c # b => tabs'[c] = tabs[c]
  BY TypesAre
<1>2. TabOK(b)'  BY <1>1, TabIsOK
<1>3. Minted' = Minted  BY HomeTypedStays
<1>4. (\A c \in Tabs : ChannelOK(c)') /\ \A k \in BT!Who : FetchOK(b, k)'
  BY <1>3, ChannelStays, FetchStays
<1>5. QueueOK'  BY QueueStays DEF Way
<1> QED  BY <1>1, <1>2, <1>4, <1>5, StepIsTyped, TypesAre

LEMMA ShowingIsTyped ==
  ASSUME TabsFit, SessionTyped, NEW b \in Tabs,
         BT!Navigate(b) \/ BT!BeginLogin(b) \/ BT!BeginWorkspaceSwitch(b)
           \/ BT!CancelSelection(b)
  PROVE  /\ SessionTyped' /\ UNCHANGED <<cookie, home, live, queue, channel, fetches, past>>
         /\ \A c \in Tabs : c # b => tabs'[c] = tabs[c]
         /\ tabs'[b].token = tabs[b].token /\ tabs'[b].leaving = tabs[b].leaving
         /\ \/ tabs'[b].screen = tabs[b].screen
            \/ tabs'[b].screen = home[tabs[b].token]
<1>1. tabs \in [Tabs -> BT!Tab] /\ tabs[b] \in BT!Tab /\ TabOK(b)  BY TypesAre
<1>2. UNCHANGED <<cookie, home, live, queue, channel, fetches, past>>
  BY DEF BT!Navigate, BT!BeginLogin, BT!BeginWorkspaceSwitch, BT!CancelSelection, BT!backend
<1>3. ASSUME NEW t \in BT!Tab, tabs' = [tabs EXCEPT ![b] = t], t.token = tabs[b].token,
               t.leaving = tabs[b].leaving,
             t.screen = tabs[b].screen \/ t.screen = home[tabs[b].token],
             tabs[b].state # "closed", t.state # "closed",
             t.token \in Minted \/ (t.token = None /\ t.state # "AUTHENTICATED"
               /\ t.screen \notin Workspaces)
      PROVE  /\ SessionTyped'
             /\ \A c \in Tabs : c # b => tabs'[c] = tabs[c]
             /\ tabs'[b].token = tabs[b].token /\ tabs'[b].leaving = tabs[b].leaving
             /\ \/ tabs'[b].screen = tabs[b].screen
                \/ tabs'[b].screen = home[tabs[b].token]
  BY <1>1, <1>2, <1>3, ShowIsTyped
<1>4. CASE BT!Navigate(b)
  <2> DEFINE t == [tabs[b] EXCEPT !.screen = home[tabs[b].token]]
  <2>1. tabs[b].state = "AUTHENTICATED" /\ tabs' = [tabs EXCEPT ![b] = t]
    BY <1>1, <1>4 DEF BT!Navigate
  <2>2. tabs[b].token \in Minted /\ home[tabs[b].token] \in Workspaces
    BY <1>1, <2>1, TokensAre DEF TabOK
  <2>3. t \in BT!Tab /\ t.screen = home[tabs[b].token] /\ t.token = tabs[b].token
          /\ t.leaving = tabs[b].leaving
        /\ t.state = "AUTHENTICATED"
    BY <1>1, <2>1, <2>2 DEF BT!Tab
  <2> HIDE DEF t
  <2> QED  BY <1>2, <1>3, <2>1, <2>2, <2>3
<1>5. CASE BT!BeginLogin(b)
  <2> DEFINE t == [tabs[b] EXCEPT !.state = "WORKSPACE_SELECTION_REQUIRED", !.pending = "LOGIN"]
  <2>1. tabs[b].screen = "sign-in" /\ tabs' = [tabs EXCEPT ![b] = t]
    BY <1>1, <1>5 DEF BT!BeginLogin
  <2>2. tabs[b].state # "closed"  BY <2>1, OpenTabs DEF TabsFit
  <2>3. t \in BT!Tab /\ t.screen = tabs[b].screen /\ t.token = tabs[b].token
          /\ t.leaving = tabs[b].leaving
        /\ t.state = "WORKSPACE_SELECTION_REQUIRED"
    BY <1>1 DEF BT!Tab, BT!States, BT!Reasons
  <2>4. t.token \in Minted \/ t.token = None  BY <1>1, <2>3 DEF TabOK
  <2> HIDE DEF t
  <2> QED  BY <1>2, <1>3, <2>1, <2>2, <2>3, <2>4 DEF TabsFit
<1>6. CASE BT!BeginWorkspaceSwitch(b)
  <2> DEFINE t == [tabs[b] EXCEPT !.pending = "SWITCH"]
  <2>1. tabs[b].screen \in Workspaces /\ tabs' = [tabs EXCEPT ![b] = t]
    BY <1>1, <1>6 DEF BT!BeginWorkspaceSwitch
  <2>2. tabs[b].state # "closed" /\ tabs[b].token \in Minted
    BY <1>1, <2>1, OpenTabs DEF TabsFit, TabOK
  <2>3. t \in BT!Tab /\ t.screen = tabs[b].screen /\ t.token = tabs[b].token
          /\ t.leaving = tabs[b].leaving
        /\ t.state = tabs[b].state
    BY <1>1 DEF BT!Tab, BT!Reasons
  <2> HIDE DEF t
  <2> QED  BY <1>2, <1>3, <2>1, <2>2, <2>3
<1>7. CASE BT!CancelSelection(b)
  <2> DEFINE t == [tabs[b] EXCEPT !.pending = None]
  <2>1. tabs[b].pending # None /\ tabs' = [tabs EXCEPT ![b] = t]
    BY <1>1, <1>7 DEF BT!CancelSelection
  <2>2. tabs[b].state # "closed"  BY <2>1, OpenTabs
  <2>3. t \in BT!Tab /\ t.screen = tabs[b].screen /\ t.token = tabs[b].token
          /\ t.leaving = tabs[b].leaving
        /\ t.state = tabs[b].state
    BY <1>1 DEF BT!Tab
  <2>4. t.token \in Minted \/ (t.token = None /\ t.state # "AUTHENTICATED"
          /\ t.screen \notin Workspaces)
    BY <1>1, <2>3 DEF TabOK
  <2> HIDE DEF t
  <2> QED  BY <1>2, <1>3, <2>1, <2>2, <2>3, <2>4
<1> QED  BY <1>2, <1>4, <1>5, <1>6, <1>7
-----------------------------------------------------------------------------
(* Types: tabs that wait for the lock, that open and that go away.         *)

LEMMA WaitingIs ==
  ASSUME TabsFit, SessionTyped, NEW b \in Tabs
  PROVE  BT!Waiting(b) \in CallsOfSession /\ BT!Waiting(b).pc = "wait"
           /\ BT!Waiting(b).op = "refresh" /\ BT!Waiting(b).sent = None
<1>1. tabs[b] \in BT!Tab /\ TabOK(b)  BY TypesAre
<1>2. tabs[b].token \in Nat \cup {None}  BY <1>1, TokensAre DEF TabOK
<1> QED  BY <1>2 DEF BT!Waiting, BT!Idle, CallsOfSession, BT!OnTheWay, BT!SessionOps

LEMMA JoinIsTyped ==
  ASSUME TabsFit, SessionTyped, NEW b \in Tabs, UNCHANGED <<cookie, home, live, channel, tabs,
         past>>,
         tabs[b].state # "closed", fetches[b].refresh.pc = "idle", queue' = Append(queue, b),
         fetches' \in [Tabs -> [BT!Who -> CallsOfSession]], \A c \in Tabs : c # b
           => fetches'[c] = fetches[c],
         fetches'[b].refresh = BT!Waiting(b), FetchOK(b, "user")'
  PROVE  SessionTyped'
<1>1. FetchOK(b, "refresh")'  BY WaitingIs, WaitIsOK, WhoIs
<1>2. \A k \in BT!Who : FetchOK(b, k)'  BY <1>1, WhoIs
<1>3. Minted' = Minted  BY HomeTypedStays
<1>4. TabOK(b)' /\ \A c \in Tabs : ChannelOK(c)'  BY <1>3, TabStays, ChannelStays
<1>5. queue' \in Seq(Tabs) /\ QueueOK'
  <2>1. /\ queue \in Seq(Tabs)
        /\ \A i, j \in DOMAIN queue : queue[i] = queue[j] => i = j
        /\ \A c \in Tabs : fetches[c].refresh.pc # "idle"
           <=> \E i \in DOMAIN queue : queue[i] = c
    BY QueueIs
  <2>2. \A c \in Tabs : (\E i \in DOMAIN queue : queue[i] = c) <=>
          c # b /\ fetches[c].refresh.pc # "idle"
    BY <2>1
  <2>3. fetches'[b].refresh.pc = "wait" /\ \A c \in Tabs : c # b
          => fetches'[c].refresh = fetches[c].refresh
    BY WaitingIs
  <2> QED  BY <2>1, <2>2, <2>3, QueueOfJoin
<1> QED  BY <1>2, <1>4, <1>5, StepIsTyped, TypesAre

LEMMA ProactiveIs ==
  ASSUME TabsFit, SessionTyped, NEW b \in Tabs, BT!ProactiveRefresh(b)
  PROVE  /\ SessionTyped' /\ UNCHANGED <<cookie, home, live, channel, tabs, past>>
         /\ \A c \in Tabs : c # b => fetches'[c] = fetches[c]
         /\ fetches'[b].refresh.pc = "wait" /\ fetches'[b].user = fetches[b].user
<1>1. /\ tabs[b].state = "AUTHENTICATED" /\ fetches[b].refresh.pc = "idle"
         /\ queue' = Append(queue, b)
      /\ BT!Put(b, "refresh", BT!Waiting(b)) /\ UNCHANGED <<cookie, home, live, channel, tabs,
         past>>
  BY DEF BT!ProactiveRefresh, BT!At, BT!backend
<1>2. /\ fetches' \in [Tabs -> [BT!Who -> CallsOfSession]]
         /\ fetches'[b].refresh = BT!Waiting(b)
      /\ \A c \in Tabs : \A l \in BT!Who : c # b \/ l # "refresh"
         => fetches'[c][l] = fetches[c][l]
      /\ \A c \in Tabs : c # b => fetches'[c] = fetches[c]
  <2>1. fetches \in [Tabs -> [BT!Who -> CallsOfSession]]  BY TypesAre
  <2>2. \A c \in Tabs : c # b => fetches'[c] = fetches[c]  BY <1>1, <2>1 DEF BT!Put
  <2> QED  BY <1>1, <2>1, <2>2, WaitingIs, PutIs, WhoIs
<1>3. fetches'[b].user = fetches[b].user  BY <1>2, WhoIs
<1>4. FetchOK(b, "user")'  BY <1>1, <1>3, FetchStays, HomeTypedStays, WhoIs
<1> QED  BY <1>1, <1>2, <1>3, <1>4, JoinIsTyped, WaitingIs

LEMMA RetryIs ==
  ASSUME TabsFit, SessionTyped, NEW b \in Tabs, BT!RetryRequest(b)
  PROVE  /\ SessionTyped' /\ UNCHANGED <<cookie, home, live, channel, tabs, past>>
         /\ \A c \in Tabs : c # b => fetches'[c] = fetches[c]
         /\ \/ fetches'[b].refresh = fetches[b].refresh
            \/ fetches[b].refresh.pc = "idle" /\ fetches'[b].refresh.pc = "wait"
         /\ fetches'[b].user.pc = "await" /\ fetches'[b].user.to = tabs[b].screen
         /\ fetches'[b].user.told = tabs[b].leaving /\ tabs[b].screen \in Workspaces
<1> DEFINE f == [BT!Idle EXCEPT !.pc = "await", !.op = "request", !.to = tabs[b].screen,
             !.told = tabs[b].leaving]
<1>1. /\ tabs[b].screen \in Workspaces /\ UNCHANGED <<cookie, home, live, channel, tabs, past>>
      /\ fetches[b].user.pc = "idle"
  BY DEF BT!RetryRequest, BT!At, BT!backend
<1>2. tabs[b].state # "closed" /\ tabs[b] \in BT!Tab  BY <1>1, OpenTabs, TypesAre DEF TabsFit
<1>3. /\ f \in CallsOfSession /\ f.pc = "await" /\ f.op = "request" /\ f.sent = None
      /\ f.to = tabs[b].screen /\ f.told = tabs[b].leaving
  BY <1>1, <1>2 DEF BT!Idle, CallsOfSession, BT!Tab
<1>4. CASE fetches[b].refresh.pc = "idle"
  <2> DEFINE g == [refresh |-> BT!Waiting(b), user |-> f]
  <2>1. queue' = Append(queue, b) /\ fetches' = [fetches EXCEPT ![b] = g]
    BY <1>4 DEF BT!RetryRequest, BT!At
  <2> HIDE DEF f
  <2>2. g \in [BT!Who -> CallsOfSession] /\ g.refresh = BT!Waiting(b) /\ g.user = f
    BY <1>3, WaitingIs DEF BT!Who
  <2> HIDE DEF g
  <2>3. fetches' \in [Tabs -> [BT!Who -> CallsOfSession]] /\ fetches'[b] = g
          /\ \A c \in Tabs : c # b => fetches'[c] = fetches[c]
    BY <2>1, <2>2, TypesAre
  <2>4. FetchOK(b, "user")'  BY <1>3, <2>2, <2>3, WaitIsOK, WhoIs
  <2> QED  BY <1>1, <1>2, <1>3, <1>4, <2>1, <2>2, <2>3, <2>4, JoinIsTyped, WaitingIs
<1>5. CASE fetches[b].refresh.pc # "idle"
  <2>1. queue' = queue /\ BT!Put(b, "user", f)  BY <1>5 DEF BT!RetryRequest, BT!At
  <2> HIDE DEF f
  <2>2. /\ fetches'[b].user = f /\ \A c \in Tabs : \A l \in BT!Who : c # b \/ l # "user"
           => fetches'[c][l] = fetches[c][l]
    BY <1>3, <2>1, PutIs, TypesAre, WhoIs
  <2>3. \A c \in Tabs : c # b => fetches'[c] = fetches[c]  BY <2>1, TypesAre DEF BT!Put
  <2>4. FetchOK(b, "user")'  BY <1>3, <2>2, WaitIsOK, WhoIs
  <2>5. Minted' = Minted  BY <1>1, HomeTypedStays
  <2>6. TabOK(b)' /\ \A c \in Tabs : ChannelOK(c)'  BY <1>1, <1>2, <2>5, TabStays, ChannelStays
  <2>7. SessionTyped'  BY <1>1, <1>3, <2>1, <2>4, <2>6, PutIsTyped, TypesAre, WhoIs
  <2> QED  BY <1>1, <1>3, <2>2, <2>3, <2>7, WhoIs
<1> QED  BY <1>4, <1>5

\* A tab that goes away drops its calls, which upsets a session.
LEMMA AbandonIs ==
  ASSUME TabsFit, SessionTyped, NEW b \in Tabs, BT!Abandon(b)
  PROVE  /\ past' \subseteq BT!Notes /\ (~BT!Upset' =>
            ~BT!Upset /\ past' = past /\ \A k \in BT!Who : ~Way(b, k))
         /\ channel' \in [Tabs -> Seq(Messages)] /\ channel'[b] = << >> /\ \A c \in Tabs : c # b
            => channel'[c] = channel[c]
<1> DEFINE what == IF \E f \in BT!Under : f[1] = b THEN {"dropped"} ELSE {}
<1>1. past \subseteq BT!Notes /\ channel \in [Tabs -> Seq(Messages)] /\ << >> \in Seq(Messages)
  BY TypesAre, EmptySeq
<1>2. BT!Note(what) /\ channel' = [channel EXCEPT ![b] = << >>] /\ what \in SUBSET BT!Notes
  BY DEF BT!Abandon, BT!Notes
<1>3. past' \subseteq BT!Notes /\ (~BT!Upset' =>
        ~BT!Upset /\ what \cap BT!Upsets = {} /\ past' = past \cup what)
  BY <1>1, <1>2, NoteIs
<1>4. what \cap BT!Upsets = {} => what = {} /\ \A k \in BT!Who : ~Way(b, k)
  <2> SUFFICES ASSUME what \cap BT!Upsets = {} PROVE what = {} /\ \A k \in BT!Who : ~Way(b, k)
    OBVIOUS
  <2>1. ~\E f \in BT!Under : f[1] = b  BY DEF BT!Upsets
  <2>2. ASSUME NEW k \in BT!Who, Way(b, k) PROVE FALSE
    <3>1. <<b, k>> \in BT!Under  BY <2>2, WayIs DEF Way, BT!Under, FetchOK
    <3> QED  BY <2>1, <3>1
  <2> QED  BY <2>1, <2>2
<1> QED  BY <1>1, <1>2, <1>3, <1>4

\* What is left of a tab b: a tab t with the calls g.
LEMMA AwayIsTyped ==
  ASSUME TabsFit, SessionTyped, NEW b \in Tabs, UNCHANGED <<cookie, home, live>>, BT!Abandon(b),
         NEW t \in BT!Tab, tabs' = [tabs EXCEPT ![b] = t], t.token = None,
         t.state # "AUTHENTICATED",
         t.screen \notin Workspaces,
         NEW g \in [BT!Who -> CallsOfSession], fetches' = [fetches EXCEPT ![b] = g],
         t.state = "closed" => t = BT!Closed /\ \A k \in BT!Who : g[k].pc = "idle",
         \A k \in BT!Who : FetchOK(b, k)', queue' \in Seq(Tabs), QueueOK'
  PROVE  SessionTyped'
<1>1. past' \subseteq BT!Notes /\ channel' \in [Tabs -> Seq(Messages)] /\ channel'[b] = << >>
      /\ \A c \in Tabs : c # b => channel'[c] = channel[c]
  BY AbandonIs
<1>2. tabs' \in [Tabs -> BT!Tab] /\ tabs'[b] = t /\ (\A c \in Tabs : c # b
        => tabs'[c] = tabs[c])
      /\ fetches' \in [Tabs -> [BT!Who -> CallsOfSession]] /\ fetches'[b] = g
      /\ \A c \in Tabs : c # b => fetches'[c] = fetches[c]
  BY TypesAre
<1>3. TabOK(b)'  BY <1>1, <1>2 DEF TabOK, BT!At
<1>4. \A c \in Tabs : ChannelOK(c)'
  <2>1. Minted' = Minted  BY HomeTypedStays
  <2>2. DOMAIN channel'[b] = {}  BY <1>1
  <2> QED  BY <1>1, <2>1, <2>2, ChannelStays DEF ChannelOK
<1> QED  BY <1>1, <1>2, <1>3, <1>4, StepIsTyped
LEMMA BootIs ==
  ASSUME TabsFit, SessionTyped, NEW b \in Tabs, BT!Bootstrap(b)
  PROVE  /\ SessionTyped' /\ UNCHANGED <<cookie, home, live>> /\ BT!Abandon(b)
         /\ \A c \in Tabs : c # b => tabs'[c] = tabs[c] /\ fetches'[c] = fetches[c]
         /\ tabs'[b].token = None /\ tabs'[b].screen = None
         /\ fetches'[b].refresh.pc = "wait" /\ fetches'[b].user = BT!Idle
<1> DEFINE t == [BT!Closed EXCEPT !.state = "RESTORING"]
           w == [BT!Idle EXCEPT !.pc = "wait", !.op = "refresh"]
           g == [refresh |-> w, user |-> BT!Idle]
<1>1. /\ UNCHANGED <<cookie, home, live>> /\ BT!Abandon(b) /\ tabs' = [tabs EXCEPT ![b] = t]
      /\ queue' = Append(BT!Without(b), b) /\ fetches' = [fetches EXCEPT ![b] = g]
  BY DEF BT!Bootstrap, BT!backend
<1>2. t \in BT!Tab /\ t.state = "RESTORING" /\ t.token = None /\ t.screen = None
  BY DEF BT!Closed, BT!Tab, BT!States
<1>3. w \in CallsOfSession /\ w.pc = "wait" /\ w.op = "refresh" /\ w.sent = None
  BY DEF BT!Idle, CallsOfSession, BT!SessionOps
<1> HIDE DEF t, w
<1>4. g \in [BT!Who -> CallsOfSession] /\ g.refresh = w /\ g.user = BT!Idle
  BY <1>3, IdleIs DEF BT!Who
<1> HIDE DEF g
<1>5. /\ \A c \in Tabs : c # b => tabs'[c] = tabs[c] /\ fetches'[c] = fetches[c]
      /\ tabs'[b] = t /\ fetches'[b] = g
  BY <1>1, TypesAre
<1>6. \A k \in BT!Who : FetchOK(b, k)'
  <2>1. FetchOK(b, "refresh")'  BY <1>3, <1>4, <1>5, WaitIsOK, WhoIs
  <2>2. FetchOK(b, "user")'  BY <1>4, <1>5, IdleIsOK, WhoIs
  <2> QED  BY <2>1, <2>2, WhoIs
<1>7. queue' \in Seq(Tabs) /\ QueueOK'
  <2>1. fetches'[b].refresh.pc = "wait" /\ \A c \in Tabs : c # b
          => fetches'[c].refresh = fetches[c].refresh
    BY <1>3, <1>4, <1>5
  <2> DEFINE q == BT!Without(b)
  <2>2. /\ q \in Seq(Tabs)
        /\ \A i, j \in DOMAIN q : q[i] = q[j] => i = j
        /\ \A c \in Tabs : (\E i \in DOMAIN q : q[i] = c) <=>
           c # b /\ fetches[c].refresh.pc # "idle"
        /\ \A c \in Tabs : c # b /\ queue[1] = c /\ fetches[c].refresh.pc # "idle" => q[1] = c
    BY WithoutIs
  <2>3. queue' = Append(q, b)  BY <1>1
  <2> HIDE DEF q
  <2> QED  BY <2>1, <2>2, <2>3, QueueOfJoin
<1>8. t.screen \notin Workspaces /\ t.state # "closed" /\ t.state # "AUTHENTICATED"
  BY <1>2 DEF TabsFit
<1>9. SessionTyped'  BY <1>1, <1>2, <1>4, <1>6, <1>7, <1>8, AwayIsTyped
<1> QED  BY <1>1, <1>2, <1>3, <1>4, <1>5, <1>9

LEMMA CloseIs ==
  ASSUME TabsFit, SessionTyped, NEW b \in Tabs, BT!Close(b)
  PROVE  /\ SessionTyped' /\ UNCHANGED <<cookie, home, live>> /\ BT!Abandon(b)
         /\ \A c \in Tabs : c # b => tabs'[c] = tabs[c] /\ fetches'[c] = fetches[c]
         /\ tabs'[b].token = None /\ tabs'[b].screen = None
         /\ fetches'[b].refresh = BT!Idle /\ fetches'[b].user = BT!Idle
<1> DEFINE g == [k \in BT!Who |-> BT!Idle]
<1>1. /\ UNCHANGED <<cookie, home, live>> /\ BT!Abandon(b)
         /\ tabs' = [tabs EXCEPT ![b] = BT!Closed]
      /\ queue' = BT!Without(b) /\ fetches' = [fetches EXCEPT ![b] = g]
  BY DEF BT!Close, BT!backend
<1>2. BT!Closed \in BT!Tab /\ BT!Closed.state = "closed" /\ BT!Closed.token = None
        /\ BT!Closed.screen = None
  BY DEF BT!Closed, BT!Tab, BT!States
<1>3. g \in [BT!Who -> CallsOfSession] /\ \A k \in BT!Who : g[k] = BT!Idle  BY IdleIs
<1>4. g.refresh = BT!Idle /\ g.user = BT!Idle  BY <1>3, WhoIs
<1> HIDE DEF g
<1>5. /\ \A c \in Tabs : c # b => tabs'[c] = tabs[c] /\ fetches'[c] = fetches[c]
      /\ tabs'[b] = BT!Closed /\ fetches'[b] = g
  BY <1>1, TypesAre
<1>6. \A k \in BT!Who : FetchOK(b, k)'  BY <1>3, <1>5, IdleIsOK
<1>7. queue' \in Seq(Tabs) /\ QueueOK'
  <2>1. fetches'[b].refresh.pc = "idle" /\ \A c \in Tabs : c # b
          => fetches'[c].refresh = fetches[c].refresh
    BY <1>4, <1>5, IdleIs
  <2> DEFINE q == BT!Without(b)
  <2>2. /\ q \in Seq(Tabs)
        /\ \A i, j \in DOMAIN q : q[i] = q[j] => i = j
        /\ \A c \in Tabs : (\E i \in DOMAIN q : q[i] = c) <=>
           c # b /\ fetches[c].refresh.pc # "idle"
        /\ \A c \in Tabs : c # b /\ queue[1] = c /\ fetches[c].refresh.pc # "idle" => q[1] = c
    BY WithoutIs
  <2>3. queue' = q  BY <1>1
  <2> HIDE DEF q
  <2>4. \A c \in Tabs : fetches'[c].refresh.pc # "idle" <=> \E i \in DOMAIN q : q[i] = c
    BY <2>1, <2>2
  <2>5. \A c \in Tabs : Way(c, "refresh")' => q[1] = c
    <3> SUFFICES ASSUME NEW c \in Tabs, Way(c, "refresh")' PROVE q[1] = c
      OBVIOUS
    <3>1. c # b  BY <2>1 DEF Way, BT!OnTheWay
    <3>2. Way(c, "refresh") /\ fetches[c].refresh.pc # "idle"
      BY <2>1, <3>1 DEF Way, BT!OnTheWay
    <3> QED  BY <2>2, <3>1, <3>2, QueueIs
  <2> QED  BY <2>2, <2>3, <2>4, <2>5 DEF QueueOK, BT!At, Way
<1>8. BT!Closed.screen \notin Workspaces /\ BT!Closed.state # "AUTHENTICATED"
  BY <1>2 DEF TabsFit
<1>9. \A k \in BT!Who : g[k].pc = "idle"  BY <1>3, IdleIs
<1>10. SessionTyped'  BY <1>1, <1>2, <1>3, <1>6, <1>7, <1>8, <1>9, AwayIsTyped
<1> QED  BY <1>1, <1>2, <1>4, <1>5, <1>10
-----------------------------------------------------------------------------
(* What a tab holds or is to hold.                                         *)

\* The tokens that b is told and no switch after them.
ToldOf(s) ==
  {s[i].token : i \in {i \in DOMAIN s : s[i].type # "SESSION_ENDED"
                                        /\ \A j \in DOMAIN s : j > i
                                           => s[j].type # "WORKSPACE_SWITCHED"}}

LEMMA HeldIs ==
  ASSUME TabsFit, SessionTyped, NEW b \in Tabs
  PROVE  /\ \A t : t \in Held(b) <=> \/ t \in ToldOf(channel[b])
                                     \/ t = tabs[b].token /\ t # None /\ ~BT!Untold(b)
         /\ \A t : t \in Held(b) => t \in Minted
<1>1. tabs[b].token \in Minted \cup {None} /\ ChannelOK(b) /\ None \notin Minted
  BY TypesAre, TokensAre DEF TabOK
<1>2. \A t : t \in ToldOf(channel[b]) => t \in Minted  BY <1>1 DEF ToldOf, ChannelOK
<1>3. \A t \in Minted : t \in ToldOf(channel[b]) <=>
        \E i \in DOMAIN channel[b] :
          /\ channel[b][i].token = t /\ channel[b][i].type # "SESSION_ENDED"
          /\ \A j \in DOMAIN channel[b] : j > i => channel[b][j].type # "WORKSPACE_SWITCHED"
  BY DEF ToldOf
<1>4. \A t : t \in Held(b) <=>
        t \in Minted /\ (t \in ToldOf(channel[b]) \/ (t = tabs[b].token /\ ~BT!Untold(b)))
  BY <1>3 DEF Held
<1> QED  BY <1>1, <1>2, <1>4

\* The same after a step.
LEMMA HeldNext ==
  ASSUME TabsFit, SessionTyped', NEW b \in Tabs
  PROVE  /\ \A t : t \in Held(b)' <=> \/ t \in ToldOf(channel'[b])
                                      \/ t = tabs'[b].token /\ t # None /\ ~BT!Untold(b)'
<1>1. tabs'[b].token \in Minted' \cup {None} /\ ChannelOK(b)' /\ None \notin Minted'
  <2>1. TabOK(b)' /\ ChannelOK(b)' /\ HomeTyped'  BY DEF SessionTyped
  <2>2. PICK max \in {ManyTokens, FewTokens} : home' \in [1 .. max -> Workspaces \cup {None}]
    BY <2>1 DEF HomeTyped
  <2>3. BT!Tokens' = 1 .. max /\ max \in Nat  BY <2>2 DEF BT!Tokens, TabsFit
  <2>4. None \notin Minted'  BY <2>3 DEF Minted, TabsFit
  <2> QED  BY <2>1, <2>4 DEF TabOK
<1>2. \A t : t \in ToldOf(channel'[b]) => t \in Minted'  BY <1>1 DEF ToldOf, ChannelOK
<1>3. \A t \in Minted' : t \in ToldOf(channel'[b]) <=>
        \E i \in DOMAIN channel'[b] :
          /\ channel'[b][i].token = t /\ channel'[b][i].type # "SESSION_ENDED"
          /\ \A j \in DOMAIN channel'[b] : j > i => channel'[b][j].type # "WORKSPACE_SWITCHED"
  BY DEF ToldOf
<1>4. \A t : t \in Held(b)' <=>
        t \in Minted' /\ (t \in ToldOf(channel'[b]) \/ (t = tabs'[b].token /\ ~BT!Untold(b)'))
  BY <1>3 DEF Held
<1> QED  BY <1>1, <1>2, <1>4

\* A tab that keeps its token and its messages.
LEMMA HeldStays ==
  ASSUME TabsFit, SessionTyped, SessionTyped', NEW b \in Tabs,
         tabs'[b].token = tabs[b].token, channel'[b] = channel[b]
  PROVE  Held(b)' = Held(b) /\ (BT!Untold(b)' <=> BT!Untold(b))
<1>1. BT!Untold(b)' <=> BT!Untold(b)  BY DEF BT!Untold
<1>2. \A t : t \in Held(b)' <=> t \in Held(b)  BY <1>1, HeldIs, HeldNext
<1> QED  BY <1>1, <1>2

\* A tab that has nothing.
LEMMA HeldOfNone ==
  ASSUME TabsFit, SessionTyped', NEW b \in Tabs, tabs'[b].token = None, channel'[b] = << >>
  PROVE  Held(b)' = {} /\ ~BT!Untold(b)'
<1>1. DOMAIN channel'[b] = {}  OBVIOUS
<1>2. ToldOf(channel'[b]) = {} /\ ~BT!Untold(b)'  BY <1>1 DEF ToldOf, BT!Untold
<1> QED  BY <1>2, HeldNext

\* A message more.
LEMMA ToldMore ==
  ASSUME NEW s \in Seq(Messages), NEW m \in Messages, NEW r, r = Append(s, m)
  PROVE  /\ m.type # "WORKSPACE_SWITCHED" =>
              /\ (\E i \in DOMAIN r : r[i].type = "WORKSPACE_SWITCHED")
                   <=> \E i \in DOMAIN s : s[i].type = "WORKSPACE_SWITCHED"
              /\ ToldOf(r) = ToldOf(s) \cup IF m.type = "SESSION_ENDED" THEN {} ELSE {m.token}
         /\ m.type = "WORKSPACE_SWITCHED" =>
              /\ \E i \in DOMAIN r : r[i].type = "WORKSPACE_SWITCHED"
              /\ ToldOf(r) = {m.token}
         /\ r # << >> /\ r[Len(r)] = m
<1> DEFINE n == Len(s)
<1>1. r \in Seq(Messages) /\ Len(r) = n + 1 /\ (\A i \in 1 .. n : r[i] = s[i]) /\ r[n + 1] = m
  BY AppendProperties
<1>2. n \in Nat /\ DOMAIN s = 1 .. n /\ DOMAIN r = 1 .. n + 1  BY <1>1, LenProperties
<1>3. r # << >> /\ r[Len(r)] = m  BY <1>1, <1>2, EmptySeq
<1> HIDE DEF n
<1>4. (\A i \in 1 .. n + 1 : i \in 1 .. n \/ i = n + 1) /\ (\A i \in 1 .. n : i \in 1 .. n + 1
        /\ i # n + 1 /\ i < n + 1)
      /\ n + 1 \in 1 .. n + 1 /\ (\A i \in 1 .. n + 1 : ~(i > n + 1))
  BY <1>2
<1> DEFINE Stays(q, i) == q[i].type # "SESSION_ENDED" /\ \A j \in DOMAIN q : j > i
             => q[j].type # "WORKSPACE_SWITCHED"
<1>5. (\A t : t \in ToldOf(r) <=> \E i \in 1 .. n + 1 : Stays(r, i) /\ r[i].token = t)
      /\ (\A t : t \in ToldOf(s) <=> \E i \in 1 .. n : Stays(s, i) /\ s[i].token = t)
  BY <1>2 DEF ToldOf
<1>6. Stays(r, n + 1) <=> m.type # "SESSION_ENDED"  BY <1>1, <1>2, <1>4
<1>7. \A i \in 1 .. n : Stays(r, i) <=> m.type # "WORKSPACE_SWITCHED" /\ Stays(s, i)
  <2> SUFFICES ASSUME NEW i \in 1 .. n
               PROVE  Stays(r, i) <=> m.type # "WORKSPACE_SWITCHED" /\ Stays(s, i)
    OBVIOUS
  <2>1. (\A j \in 1 .. n + 1 : j > i => r[j].type # "WORKSPACE_SWITCHED") <=>
          m.type # "WORKSPACE_SWITCHED" /\ \A j \in 1 .. n : j > i
            => s[j].type # "WORKSPACE_SWITCHED"
    BY <1>1, <1>2, <1>4
  <2> QED  BY <1>1, <1>2, <2>1
<1> HIDE DEF Stays
<1>8. m.type # "WORKSPACE_SWITCHED" =>
        /\ (\E i \in DOMAIN r : r[i].type = "WORKSPACE_SWITCHED")
                   <=> \E i \in DOMAIN s : s[i].type = "WORKSPACE_SWITCHED"
        /\ ToldOf(r) = ToldOf(s) \cup IF m.type = "SESSION_ENDED" THEN {} ELSE {m.token}
  <2> SUFFICES ASSUME m.type # "WORKSPACE_SWITCHED"
               PROVE  /\ (\E i \in DOMAIN r : r[i].type = "WORKSPACE_SWITCHED")
                           <=> \E i \in DOMAIN s : s[i].type = "WORKSPACE_SWITCHED"
                      /\ ToldOf(r) = ToldOf(s) \cup IF m.type = "SESSION_ENDED" THEN {}
                         ELSE {m.token}
    OBVIOUS
  <2>1. \A t : t \in ToldOf(r) <=> t \in ToldOf(s) \/ (m.type # "SESSION_ENDED" /\ t = m.token)
    <3>1. \A t : (\E i \in 1 .. n + 1 : Stays(r, i) /\ r[i].token = t) <=>
                   \/ \E i \in 1 .. n : Stays(r, i) /\ r[i].token = t
                   \/ Stays(r, n + 1) /\ r[n + 1].token = t
      BY <1>4
    <3>2. \A t : (\E i \in 1 .. n : Stays(r, i) /\ r[i].token = t)
            <=> \E i \in 1 .. n : Stays(s, i) /\ s[i].token = t
      BY <1>1, <1>7
    <3>3. \A t : (\E i \in 1 .. n : Stays(s, i) /\ s[i].token = t) <=> t \in ToldOf(s)  BY <1>5
    <3>4. \A t : t \in ToldOf(r) <=>
            (\E i \in 1 .. n : Stays(r, i) /\ r[i].token = t)
              \/ (Stays(r, n + 1) /\ r[n + 1].token = t)
      BY <1>5, <3>1
    <3> QED  BY <1>1, <1>6, <3>2, <3>3, <3>4
  <2>2. (\E i \in 1 .. n + 1 : r[i].type = "WORKSPACE_SWITCHED")
           <=> \E i \in 1 .. n : s[i].type = "WORKSPACE_SWITCHED"
    BY <1>1, <1>4
  <2> QED  BY <1>2, <2>1, <2>2
<1>9. m.type = "WORKSPACE_SWITCHED" =>
        /\ \E i \in DOMAIN r : r[i].type = "WORKSPACE_SWITCHED"
        /\ ToldOf(r) = {m.token}
  <2> SUFFICES ASSUME m.type = "WORKSPACE_SWITCHED"
               PROVE  /\ \E i \in DOMAIN r : r[i].type = "WORKSPACE_SWITCHED"
                      /\ ToldOf(r) = {m.token}
    OBVIOUS
  <2>1. \E i \in DOMAIN r : r[i].type = "WORKSPACE_SWITCHED"  BY <1>1, <1>2, <1>4
  <2>2. \A t : t \in ToldOf(r) <=> t = m.token
    <3>1. \A t : (\E i \in 1 .. n + 1 : Stays(r, i) /\ r[i].token = t) <=>
                   \/ \E i \in 1 .. n : Stays(r, i) /\ r[i].token = t
                   \/ Stays(r, n + 1) /\ r[n + 1].token = t
      BY <1>4
    <3> QED  BY <1>1, <1>5, <1>6, <1>7, <3>1
  <2> QED  BY <2>1, <2>2
<1> QED  BY <1>3, <1>8, <1>9

\* A message less.
LEMMA ToldLess ==
  ASSUME NEW s, NEW r, NEW n \in Nat \ {0}, DOMAIN s = 1 .. n, DOMAIN r = 1 .. n - 1,
         \A i \in 1 .. n - 1 : r[i] = s[i + 1]
  PROVE  /\ \A t \in ToldOf(r) : t \in ToldOf(s)
         /\ (\E i \in DOMAIN s : s[i].type = "WORKSPACE_SWITCHED") <=>
              s[1].type = "WORKSPACE_SWITCHED"
                \/ \E i \in DOMAIN r : r[i].type = "WORKSPACE_SWITCHED"
         /\ s[1].type # "SESSION_ENDED"
                 /\ ~(\E i \in DOMAIN r : r[i].type = "WORKSPACE_SWITCHED")
              => s[1].token \in ToldOf(s)
<1>1. (\A i \in 1 .. n - 1 : i + 1 \in 1 .. n) /\ (\A i \in 1 .. n : i = 1
        \/ i - 1 \in 1 .. n - 1) /\ 1 \in 1 .. n
  OBVIOUS
<1>2. \A i \in 1 .. n : i # 1 => s[i] = r[i - 1]
  <2> SUFFICES ASSUME NEW i \in 1 .. n, i # 1 PROVE s[i] = r[i - 1]
    OBVIOUS
  <2>1. i - 1 \in 1 .. n - 1 /\ (i - 1) + 1 = i  OBVIOUS
  <2>2. r[i - 1] = s[(i - 1) + 1]  BY <2>1
  <2> QED  BY <2>1, <2>2
<1>3. \A t \in ToldOf(r) : t \in ToldOf(s)
  <2> SUFFICES ASSUME NEW i \in 1 .. n - 1, r[i].type # "SESSION_ENDED",
                      \A j \in 1 .. n - 1 : j > i => r[j].type # "WORKSPACE_SWITCHED"
               PROVE  r[i].token \in ToldOf(s)
    BY DEF ToldOf
  <2>1. \A j \in 1 .. n : j > i + 1 => s[j].type # "WORKSPACE_SWITCHED"
    <3> SUFFICES ASSUME NEW j \in 1 .. n, j > i + 1 PROVE s[j].type # "WORKSPACE_SWITCHED"
      OBVIOUS
    <3>1. j # 1 /\ j - 1 \in 1 .. n - 1 /\ j - 1 > i  OBVIOUS
    <3> QED  BY <1>2, <3>1
  <2>2. i + 1 \in 1 .. n /\ s[i + 1] = r[i]  OBVIOUS
  <2> QED  BY <2>1, <2>2 DEF ToldOf
<1>4. (\E i \in 1 .. n : s[i].type = "WORKSPACE_SWITCHED") <=>
        s[1].type = "WORKSPACE_SWITCHED"
          \/ \E i \in 1 .. n - 1 : r[i].type = "WORKSPACE_SWITCHED"
  BY <1>1, <1>2
<1>5. ASSUME s[1].type # "SESSION_ENDED", \A i \in 1 .. n - 1 : r[i].type # "WORKSPACE_SWITCHED"
      PROVE  s[1].token \in ToldOf(s)
  <2>1. \A j \in 1 .. n : j > 1 => s[j].type # "WORKSPACE_SWITCHED"  BY <1>1, <1>2, <1>5
  <2> QED  BY <1>1, <1>5, <2>1 DEF ToldOf
<1> QED  BY <1>3, <1>4, <1>5
-----------------------------------------------------------------------------
(* Soundness: a session call at the backend and back.                      *)

LEMMA SoundIs ==
  ASSUME Sound
  PROVE  /\ OneCall /\ CallAgrees /\ CookieIsLive /\ OneWorkspace /\ ScreensAgree /\ IsOut
         /\ "alarm" \notin past /\ "strayed" \notin past
BY DEF Sound

LEMMA SoundNext ==
  ASSUME OneCall', CallAgrees', CookieIsLive', OneWorkspace', ScreensAgree', IsOut',
         "alarm" \notin past', "strayed" \notin past'
  PROVE  Sound'
BY DEF Sound

\* The only call there is.
LEMMA SoleIs ==
  ASSUME Sound, NEW b \in Tabs, NEW k \in BT!Who, Way(b, k)
  PROVE  /\ \A c \in Tabs : \A l \in BT!Who : c # b \/ l # k => ~Way(c, l)
         /\ k = "user" => channel[b] = << >>
BY DEF Sound, OneCall

\* A call of tab b goes on while everything its tabs hold and hear stays.
LEMMA OnIsSound ==
  ASSUME TabsFit, SessionTyped, SessionTyped', Sound, NEW b \in Tabs, NEW k \in BT!Who,
         Way(b, k),
         UNCHANGED <<queue, channel, tabs, past>>, Minted \subseteq Minted',
         \A t \in Minted : home'[t] = home[t],
         NEW f, fetches'[b][k] = f, f.pc \in BT!OnTheWay, f.op = fetches[b][k].op,
         f.sent = fetches[b][k].sent,
         \A c \in Tabs : \A l \in BT!Who : c # b \/ l # k => fetches'[c][l] = fetches[c][l],
         \* It agrees with the cookie.
         f.pc \in {"sent", "begun"} => f.sent = cookie',
         f.pc \in {"answered", "arrived"} =>
           /\ f.answer \in {"ok", "none", "refused", "out"}
           /\ f.answer = "refused" => f.op = "switch"
           /\ f.answer = "none" => cookie' = None
           /\ f.answer = "ok" => f.token \in live',
         f.pc = "arrived" => cookie' = IF f.answer = "ok" THEN f.token ELSE None,
         cookie' # None /\ f.pc # "answered" => cookie' \in live',
         \* It is of the workspace.
         \A w \in Workspaces : IsOf(w) =>
           /\ cookie' # None /\ (k = "user" => ~Turning(f)) => home'[cookie'] = w
           /\ k = "refresh" /\ f.pc \in {"answered", "arrived"} /\ f.answer = "ok"
              => home'[f.token] = w,
         "out" \in past => cookie' = None /\ f.answer # "ok"
  PROVE  Sound'
<1>1. \A c \in Tabs : \A l \in BT!Who : c # b \/ l # k => ~Way(c, l) /\ ~Way(c, l)'
  BY SoleIs DEF Way
<1>2. OneCall'
  <2>1. \A c \in Tabs : Way(c, "user")' => channel'[c] = << >>  BY <1>1, SoleIs, WhoIs
  <2> QED  BY <1>1, <2>1 DEF OneCall
<1>3. CallAgrees'
  <2> SUFFICES ASSUME NEW c \in Tabs, NEW l \in BT!Who
               PROVE  LET g == fetches'[c][l] IN
                      /\ g.pc \in {"sent", "begun"} => g.sent = cookie'
                      /\ g.pc \in {"answered", "arrived"} =>
                           /\ g.answer \in {"ok", "none", "refused", "out"}
                           /\ g.answer = "refused" => g.op = "switch"
                           /\ g.answer = "none" => cookie' = None
                           /\ g.answer = "ok" => g.token \in live'
                      /\ g.pc = "arrived" => cookie' = IF g.answer = "ok" THEN g.token ELSE None
    BY DEF CallAgrees
  <2>1. CASE c = b /\ l = k  BY <2>1
  <2>2. CASE c # b \/ l # k  BY <1>1, <2>2 DEF Way, BT!OnTheWay
  <2> QED  BY <2>1, <2>2
<1>4. CookieIsLive'  BY DEF CookieIsLive
<1>5. \A c \in Tabs : Held(c)' = Held(c) /\ (BT!Untold(c)' <=> BT!Untold(c))  BY HeldStays
<1>6. OneWorkspace'
  <2>1. PICK w \in Workspaces : IsOf(w)
    BY SoundIs DEF OneWorkspace
  <2>2. \A c \in Tabs : \A t \in Held(c)' : home'[t] = w  BY <1>5, <2>1, HeldIs DEF IsOf
  <2>3. cookie' # None /\ (\A c \in Tabs : ~Turning(fetches'[c].user)) => home'[cookie'] = w
    BY <2>1
  <2>4. ASSUME NEW c \in Tabs, fetches'[c].refresh.pc \in {"answered", "arrived"},
                 fetches'[c].refresh.answer = "ok"
        PROVE  home'[fetches'[c].refresh.token] = w
    <3>1. c = b /\ k = "refresh"  BY <1>1, <2>4, WhoIs DEF Way, BT!OnTheWay
    <3> QED  BY <2>1, <2>4, <3>1
  <2>5. ASSUME NEW c \in Tabs, fetches'[c].user.pc = "await", ~fetches'[c].user.told,
                 ~BT!Untold(c)'
        PROVE  fetches'[c].user.to = w
    <3>1. c # b \/ k # "user"  BY <2>5 DEF BT!OnTheWay
    <3>2. fetches'[c].user = fetches[c].user  BY <3>1, WhoIs
    <3> QED  BY <1>5, <2>1, <2>5, <3>2 DEF IsOf
  <2> QED  BY <2>2, <2>3, <2>4, <2>5 DEF OneWorkspace, IsOf
<1>7. ScreensAgree'
  <2> SUFFICES ASSUME NEW c \in Tabs, tabs[c].screen \in Workspaces, ~tabs[c].leaving,
                        ~BT!Untold(c)
               PROVE  home'[tabs[c].token] = tabs[c].screen
    BY <1>5 DEF ScreensAgree
  <2>1. TabOK(c)  BY TypesAre
  <2>2. tabs[c].token \in Minted  BY <2>1 DEF TabOK
  <2> QED  BY <2>2, SoundIs DEF ScreensAgree
<1>8. IsOut'
  <2> SUFFICES ASSUME "out" \in past
               PROVE  /\ cookie' = None
                      /\ \A c \in Tabs : \A l \in BT!Who : LET g == fetches'[c][l] IN
                           Way(c, l)' =>
                             g.sent = None /\ g.op \notin {"select", "accept"}
                               /\ g.answer # "ok"
                      /\ \A c \in Tabs :
                           \/ channel[c] = << >> /\ tabs[c].token = None
                           \/ channel[c] # << >>
                              /\ channel[c][Len(channel[c])].type = "SESSION_ENDED"
    BY DEF IsOut
  <2>1. fetches[b][k].sent = None /\ fetches[b][k].op \notin {"select", "accept"}
        /\ \A c \in Tabs :
             \/ channel[c] = << >> /\ tabs[c].token = None
             \/ channel[c] # << >> /\ channel[c][Len(channel[c])].type = "SESSION_ENDED"
    BY SoundIs DEF IsOut
  <2>2. ASSUME NEW c \in Tabs, NEW l \in BT!Who, Way(c, l)'
        PROVE  LET g == fetches'[c][l] IN g.sent = None /\ g.op \notin {"select", "accept"}
                 /\ g.answer # "ok"
    BY <1>1, <2>1, <2>2
  <2> QED  BY <2>1, <2>2
<1>9. "alarm" \notin past' /\ "strayed" \notin past'  BY SoundIs
<1> QED  BY <1>2, <1>3, <1>4, <1>6, <1>7, <1>8, <1>9, SoundNext

\* The answer of the backend.
LEMMA AnswerIsSound ==
  ASSUME TabsFit, SessionTyped, SessionTyped', Sound, NEW b \in Tabs, NEW k \in BT!Who,
         fetches[b][k].pc \in {"sent", "begun"}, UNCHANGED <<cookie, queue, channel, tabs,
           past>>, Minted \subseteq Minted',
         \A t \in Minted : home'[t] = home[t],
         NEW answer \in {"ok", "none", "refused", "out"}, NEW n \in Nat \cup {None},
         BT!Answered(b, k, answer, n),
         answer = "refused" => fetches[b][k].op = "switch",
         answer = "none" => cookie = None,
         answer = "ok" => n \in live' /\ "out" \notin past,
         answer = "ok" /\ k = "refresh" => \A w \in Workspaces : IsOf(w) => home'[n] = w
  PROVE  Sound'
<1> DEFINE f == [fetches[b][k] EXCEPT !.pc = "answered", !.answer = answer, !.token = n]
<1>1. Way(b, k) /\ fetches[b][k] \in CallsOfSession  BY TypesAre DEF Way, BT!OnTheWay
<1>2. BT!Put(b, k, f) /\ answer \in Answers  BY DEF BT!Answered, Answers
<1>3. f.pc = "answered" /\ f.op = fetches[b][k].op /\ f.sent = fetches[b][k].sent
      /\ f.answer = answer /\ f.token = n /\ f \in CallsOfSession
  BY <1>1, <1>2 DEF CallsOfSession, BT!OnTheWay
<1> HIDE DEF f
<1>4. fetches'[b][k] = f /\ \A c \in Tabs : \A l \in BT!Who : c # b \/ l # k
        => fetches'[c][l] = fetches[c][l]
  BY <1>2, <1>3, PutIs, TypesAre
<1>5. ASSUME NEW w \in Workspaces, IsOf(w), cookie # None PROVE home'[cookie] = w
  <2>1. \A c \in Tabs : ~Turning(fetches[c].user)
    BY <1>1, SoleIs, WhoIs DEF Turning, Way, BT!OnTheWay
  <2>2. home[cookie] = w /\ cookie \in Minted  BY <1>5, <2>1, TypesAre DEF IsOf
  <2> QED  BY <2>2
<1>6. "out" \in past => cookie = None  BY SoundIs DEF IsOut
<1> QED  BY <1>1, <1>3, <1>4, <1>5, <1>6, OnIsSound DEF BT!OnTheWay

LEMMA SelectIsSound ==
  ASSUME TabsFit, SessionTyped, Sound, NEW b \in Tabs, NEW k \in BT!Who, BT!HandleSelect(b, k)
  PROVE  Sound'
<1>1. /\ fetches[b][k].pc = "sent" /\ UNCHANGED <<cookie, queue, channel, tabs, past>>
      /\ fetches[b][k].op \in {"select", "accept"} /\ Way(b, k)
  BY DEF BT!HandleSelect, BT!At, Way, BT!OnTheWay
<1>2. fetches[b][k].to \in Workspaces /\ k # "refresh"  BY <1>1, TypesAre DEF FetchOK, Way
<1>3. PICK n \in BT!Fresh : /\ home' = [home EXCEPT ![n] = fetches[b][k].to]
                            /\ live' = live \cup {n} /\ BT!Answered(b, k, "ok", n)
  BY DEF BT!HandleSelect
<1>4. Minted' = Minted \cup {n} /\ n \in Nat /\ \A t \in Minted : home'[t] = home[t]
  BY <1>2, <1>3, HomeGrows
<1>5. "out" \notin past  BY <1>1, SoundIs DEF IsOut
<1>6. SessionTyped' /\ Minted \subseteq Minted' /\ n \in live' /\ n \in Nat \cup {None}
  BY <1>3, <1>4, SelectIsTyped
<1> QED  BY <1>1, <1>2, <1>3, <1>4, <1>5, <1>6, AnswerIsSound

LEMMA LogoutIsSound ==
  ASSUME TabsFit, SessionTyped, Sound, NEW b \in Tabs, NEW k \in BT!Who, BT!HandleLogout(b, k)
  PROVE  Sound'
<1>1. /\ fetches[b][k].pc = "sent" /\ UNCHANGED <<cookie, queue, channel, tabs, past>>
         /\ home' = home
      /\ BT!Answered(b, k, "out", None)
  BY DEF BT!HandleLogout, BT!At
<1>2. SessionTyped' /\ Minted' = Minted  BY <1>1, LogoutIsTyped, HomeTypedStays
<1>3. Minted \subseteq Minted' /\ \A t \in Minted : home'[t] = home[t]  BY <1>1, <1>2
<1> QED  BY <1>1, <1>2, <1>3, AnswerIsSound

\* The token that a call presents is live.
LEMMA PresentedIsLive ==
  ASSUME TabsFit, SessionTyped, Sound, NEW b \in Tabs, NEW k \in BT!Who,
         fetches[b][k].pc \in {"sent", "begun"}, fetches[b][k].sent # None
  PROVE  fetches[b][k].sent \in live /\ fetches[b][k].sent = cookie /\ "out" \notin past
         /\ \A w \in Workspaces : IsOf(w) => home[cookie] = w
<1>1. Way(b, k)  BY DEF Way, BT!OnTheWay
<1>2. \A c \in Tabs : \A l \in BT!Who : fetches[c][l].pc # "answered"
  BY <1>1, SoleIs DEF Way, BT!OnTheWay
<1>3. fetches[b][k].sent = cookie /\ cookie \in live
  BY <1>2, SoundIs DEF CallAgrees, CookieIsLive
<1>4. \A c \in Tabs : ~Turning(fetches[c].user)
  BY <1>1, SoleIs, WhoIs DEF Turning, Way, BT!OnTheWay
<1> QED  BY <1>1, <1>3, <1>4, SoundIs DEF IsOut, IsOf

LEMMA ReadIsSound ==
  ASSUME TabsFit, SessionTyped, Sound, NEW b \in Tabs, NEW k \in BT!Who, BT!ReadToken(b, k)
  PROVE  Sound'
<1>1. /\ Way(b, k) /\ UNCHANGED <<cookie, queue, channel, tabs>> /\ home' = home
      /\ fetches[b][k].pc = "sent" /\ fetches[b][k].op \in {"refresh", "switch"}
  BY DEF BT!ReadToken, BT!At, Way, BT!OnTheWay, BT!backend
<1>2. SessionTyped' /\ Minted' = Minted  BY <1>1, ReadIsTyped, HomeTypedStays
<1>3. CASE fetches[b][k].sent = None
  <2>1. BT!Answered(b, k, "none", None) /\ live' = live /\ past' = past
    BY <1>3 DEF BT!ReadToken, BT!backend
  <2>2. cookie = None  BY <1>1, <1>3, SoundIs DEF CallAgrees
  <2> QED  BY <1>1, <1>2, <2>1, <2>2, AnswerIsSound
<1>4. CASE fetches[b][k].sent # None
  <2>1. fetches[b][k].sent \in live /\ fetches[b][k].sent = cookie /\ "out" \notin past
        /\ \A w \in Workspaces : IsOf(w) => home[cookie] = w
    BY <1>1, <1>4, PresentedIsLive
  <2> DEFINE f == [fetches[b][k] EXCEPT !.pc = "begun"]
  <2>2. BT!Put(b, k, f) /\ live' = live /\ past' = past
    BY <1>4, <2>1 DEF BT!ReadToken, BT!backend
  <2>7. fetches[b][k] \in CallsOfSession  BY TypesAre
  <2>3. f \in CallsOfSession /\ f.pc = "begun" /\ f.op = fetches[b][k].op
          /\ f.sent = fetches[b][k].sent
    BY <2>7 DEF CallsOfSession, BT!OnTheWay
  <2> HIDE DEF f
  <2>4. fetches'[b][k] = f /\ \A c \in Tabs : \A l \in BT!Who : c # b \/ l # k
          => fetches'[c][l] = fetches[c][l]
    BY <2>2, <2>3, PutIs, TypesAre
  <2>5. "out" \in past => cookie' = None /\ f.answer # "ok"  BY <2>1
  <2>6. /\ f.pc \in BT!OnTheWay /\ f.pc \notin {"answered", "arrived"} /\ f.sent = cookie'
           /\ cookie' \in live'
        /\ \A w \in Workspaces : IsOf(w) => home'[cookie'] = w
    BY <1>1, <2>1, <2>2, <2>3 DEF BT!OnTheWay
  <2> QED  BY <1>1, <1>2, <2>2, <2>3, <2>4, <2>5, <2>6, OnIsSound
<1> QED  BY <1>3, <1>4

LEMMA ClaimIsSound ==
  ASSUME TabsFit, SessionTyped, Sound, NEW b \in Tabs, NEW k \in BT!Who, BT!ClaimToken(b, k)
  PROVE  Sound'
<1>1. /\ fetches[b][k].pc = "begun" /\ UNCHANGED <<cookie, queue, channel, tabs, past>>
      /\ Goal(fetches[b][k]) \in Workspaces /\ fetches[b][k].op \in {"refresh", "switch"}
      /\ fetches[b][k].sent \in Minted /\ Way(b, k)
  BY GoalIs DEF BT!ClaimToken, BT!At
<1>2. SessionTyped' /\ fetches[b][k].sent # None  BY <1>1, ClaimIsTyped, TokensAre
<1>3. fetches[b][k].sent \in live /\ fetches[b][k].sent = cookie /\ "out" \notin past
        /\ \A w \in Workspaces : IsOf(w) => home[cookie] = w
  BY <1>1, <1>2, PresentedIsLive
<1>4. CASE BT!Mint(b, k, Goal(fetches[b][k]))
  <2>1. PICK n \in BT!Fresh :
          /\ Minted' = Minted \cup {n} /\ n \in Nat
          /\ home'[n] = Goal(fetches[b][k]) /\ \A t \in Minted : home'[t] = home[t]
          /\ live' = (live \ {fetches[b][k].sent}) \cup {n}
          /\ BT!Answered(b, k, "ok", n)
    BY <1>1, <1>4, MintIs
  <2>2. k = "refresh" => \A w \in Workspaces : IsOf(w) => home'[n] = w
    <3>1. k = "refresh" => fetches[b][k].op = "refresh"  BY <1>1, TypesAre DEF FetchOK, Way
    <3> QED  BY <1>3, <2>1, <3>1 DEF Goal
  <2>3. n \in live' /\ Minted \subseteq Minted' /\ n \in Nat \cup {None}  BY <2>1
  <2> QED  BY <1>1, <1>2, <1>3, <2>1, <2>2, <2>3, AnswerIsSound
<1>5. CASE BT!Answered(b, k, "refused", None) /\ home' = home /\ fetches[b][k].op = "switch"
  <2>1. Minted' = Minted  BY <1>5, HomeTypedStays
  <2>2. Minted \subseteq Minted' /\ \A t \in Minted : home'[t] = home[t]  BY <1>5, <2>1
  <2> QED  BY <1>1, <1>2, <1>5, <2>2, AnswerIsSound
<1> QED  BY <1>3, <1>4, <1>5 DEF BT!ClaimToken, Goal

LEMMA ArriveIsSound ==
  ASSUME TabsFit, SessionTyped, Sound, NEW b \in Tabs, NEW k \in BT!Who, BT!Arrive(b, k)
  PROVE  Sound'
<1> DEFINE c == fetches[b][k]
           f == [c EXCEPT !.pc = "arrived"]
<1>1. Way(b, k) /\ c.pc = "answered" /\ UNCHANGED <<home, live, queue, channel, tabs, past>>
      /\ cookie' = BT!Baked(c) /\ BT!Put(b, k, f)
  BY DEF BT!Arrive, BT!At, Way, BT!OnTheWay, BT!backend
<1>2. c \in CallsOfSession /\ FetchOK(b, k) /\ SessionTyped' /\ Minted' = Minted
  BY <1>1, WayIs, ArriveIsTyped, HomeTypedStays
<1>3. f \in CallsOfSession /\ f.pc = "arrived" /\ f.op = c.op /\ f.sent = c.sent
        /\ f.answer = c.answer
      /\ f.token = c.token
  BY <1>2 DEF CallsOfSession, BT!OnTheWay
<1> HIDE DEF f
<1>4. fetches'[b][k] = f /\ \A d \in Tabs : \A l \in BT!Who : d # b \/ l # k
        => fetches'[d][l] = fetches[d][l]
  BY <1>1, <1>3, PutIs, TypesAre
<1>5. /\ c.answer \in {"ok", "none", "refused", "out"}
      /\ c.answer = "refused" => c.op = "switch"
      /\ c.answer = "none" => cookie = None
      /\ c.answer = "ok" => c.token \in live
  BY <1>1, SoundIs DEF CallAgrees
<1>6. cookie' = IF c.answer = "ok" THEN c.token ELSE None  BY <1>1, <1>5 DEF BT!Baked
<1>7. "out" \in past => f.answer # "ok"  BY <1>1, <1>3, SoundIs DEF IsOut
<1>8. ASSUME NEW w \in Workspaces, IsOf(w)
      PROVE  /\ cookie' # None /\ (k = "user" => ~Turning(f)) => home'[cookie'] = w
             /\ k = "refresh" /\ f.answer = "ok" => home'[f.token] = w
  <2>1. k = "refresh" /\ f.answer = "ok" => home'[f.token] = w  BY <1>1, <1>3, <1>8 DEF IsOf
  <2>2. k = "user" /\ f.answer = "ok" => Turning(f)
    <3>1. k = "user" => c.op # "refresh"  BY <1>1, <1>2 DEF FetchOK, Way
    <3>2. f.answer = "ok" => c.op \in BT!Minting  BY <1>1, <1>2, <1>3 DEF FetchOK
    <3> QED  BY <1>3, <3>1, <3>2 DEF Turning, BT!Minting
  <2> QED  BY <1>3, <1>6, <2>1, <2>2, WhoIs
<1>9. cookie' # None => cookie' \in live'  BY <1>1, <1>5, <1>6
<1> QED  BY <1>1, <1>2, <1>3, <1>4, <1>5, <1>6, <1>7, <1>8, <1>9, OnIsSound DEF BT!OnTheWay
-----------------------------------------------------------------------------
(* Soundness: a session call leaves.                                       *)

\* No call is under way, and the call k of tab b leaves with the cookie.
LEMMA SendIsSound ==
  ASSUME TabsFit, SessionTyped, SessionTyped', Sound, NEW b \in Tabs, NEW k \in BT!Who,
         UNCHANGED <<cookie, home, live, queue, channel, tabs>>,
         \A c \in Tabs : \A l \in BT!Who : ~Way(c, l), k = "user" => channel[b] = << >>,
         NEW f, fetches'[b][k] = f, f.pc = "sent", f.sent = cookie, f.answer = None,
         \A c \in Tabs : \A l \in BT!Who : c # b \/ l # k => fetches'[c][l] = fetches[c][l],
         past' \subseteq past, "out" \in past' => f.op \notin {"select", "accept"}
  PROVE  Sound'
<1>1. \A c \in Tabs : \A l \in BT!Who : Way(c, l)' => c = b /\ l = k  BY DEF Way
<1>2. OneCall'  BY <1>1, WhoIs DEF OneCall
<1>3. CallAgrees'
  <2> SUFFICES ASSUME NEW c \in Tabs, NEW l \in BT!Who
               PROVE  LET g == fetches'[c][l] IN
                      /\ g.pc \in {"sent", "begun"} => g.sent = cookie
                      /\ g.pc \notin {"answered", "arrived"}
    BY DEF CallAgrees
  <2>1. CASE c = b /\ l = k  BY <2>1
  <2>2. CASE c # b \/ l # k  BY <1>1, <2>2 DEF Way, BT!OnTheWay
  <2> QED  BY <2>1, <2>2
<1>4. CookieIsLive'
  <2>1. \A c \in Tabs : \A l \in BT!Who : fetches[c][l].pc # "answered"  BY DEF Way, BT!OnTheWay
  <2> QED  BY <2>1, SoundIs DEF CookieIsLive
<1>5. \A c \in Tabs : Held(c)' = Held(c) /\ (BT!Untold(c)' <=> BT!Untold(c))  BY HeldStays
<1>6. OneWorkspace'
  <2>1. PICK w \in Workspaces : IsOf(w)
    BY SoundIs DEF OneWorkspace
  <2>2. \A c \in Tabs : \A t \in Held(c)' : home'[t] = w  BY <1>5, <2>1 DEF IsOf
  <2>3. cookie' # None => home'[cookie'] = w
    <3>1. \A c \in Tabs : ~Turning(fetches[c].user)  BY WhoIs DEF Turning, Way, BT!OnTheWay
    <3> QED  BY <2>1, <3>1 DEF IsOf
  <2>4. \A c \in Tabs : fetches'[c].refresh.pc \notin {"answered", "arrived"}
    BY <1>1, WhoIs DEF Way, BT!OnTheWay
  <2>5. ASSUME NEW c \in Tabs, fetches'[c].user.pc = "await", ~fetches'[c].user.told,
                 ~BT!Untold(c)'
        PROVE  fetches'[c].user.to = w
    <3>1. fetches'[c].user = fetches[c].user  BY <2>5, WhoIs
    <3> QED  BY <1>5, <2>1, <2>5, <3>1 DEF IsOf
  <2> QED  BY <2>2, <2>3, <2>4, <2>5 DEF OneWorkspace, IsOf
<1>7. ScreensAgree'  BY <1>5, SoundIs DEF ScreensAgree
<1>8. IsOut'
  <2>1. None # "ok"  BY DEF TabsFit
  <2> QED  BY <1>1, <2>1, SoundIs DEF IsOut
<1>9. "alarm" \notin past' /\ "strayed" \notin past'  BY SoundIs
<1> QED  BY <1>2, <1>3, <1>4, <1>6, <1>7, <1>8, <1>9, SoundNext

LEMMA PostIsSound ==
  ASSUME TabsFit, SessionTyped, Sound, NEW b \in Tabs, BT!PostRefresh(b), ~BT!Upset'
  PROVE  ~BT!Upset /\ Sound'
<1>1. /\ SessionTyped' /\ UNCHANGED <<cookie, home, live, queue, channel, tabs>>
         /\ BT!Note(BT!Crossing(b, "refresh"))
      /\ queue[1] = b /\ fetches[b].refresh.pc = "wait"
  BY PostIs
<1>2. PICK f \in CallsOfSession : /\ BT!Put(b, "refresh", f)
                                  /\ f.pc = "sent" /\ f.op = "refresh" /\ f.sent = cookie
                                     /\ f.answer = None
  BY PostIs
<1>3. ~BT!Upset /\ BT!Crossing(b, "refresh") \cap BT!Upsets = {} /\ past' = past
        \cup BT!Crossing(b, "refresh")
  BY <1>1, CrossingIs, NoteIs, TypesAre, WhoIs
<1>4. /\ \A c \in Tabs : \A l \in BT!Who : Way(c, l) =>
         <<c, l>> = <<b, "refresh">> \/ l = "refresh"
      /\ BT!Crossing(b, "refresh") = {}
  BY <1>3, CrossingIs, WhoIs
<1>5. \A c \in Tabs : \A l \in BT!Who : ~Way(c, l)
  <2> SUFFICES ASSUME NEW c \in Tabs, NEW l \in BT!Who, Way(c, l) PROVE FALSE
    OBVIOUS
  <2>1. l = "refresh"  BY <1>4
  <2>2. queue[1] = c  BY <2>1, QueueIs
  <2> QED  BY <1>1, <2>1, <2>2 DEF Way, BT!OnTheWay
<1>6. fetches'[b]["refresh"] = f /\ \A c \in Tabs : \A l \in BT!Who : c # b \/ l # "refresh"
        => fetches'[c][l] = fetches[c][l]
  BY <1>2, PutIs, TypesAre, WhoIs
<1> QED  BY <1>1, <1>2, <1>3, <1>4, <1>5, <1>6, SendIsSound, WhoIs

\* A user makes a session call, and neither a call nor the news of one is under way.
LEMMA MadeIsSound ==
  ASSUME TabsFit, SessionTyped, SessionTyped', Sound, NEW b \in Tabs, NEW op \in BT!SessionOps,
         NEW to \in Workspaces \cup {None},
         fetches[b].user.pc = "idle", BT!Put(b, "user", BT!Sent(op, to)),
         UNCHANGED <<cookie, home, live, queue, channel, tabs>>,
           BT!Crossing(b, "user") \cap BT!Upsets = {},
         past' \subseteq past, "out" \in past' => op \notin {"select", "accept"}
  PROVE  Sound'
<1> DEFINE f == BT!Sent(op, to)
<1>1. f \in CallsOfSession /\ f.pc = "sent" /\ f.op = op /\ f.sent = cookie /\ f.answer = None
  BY SentIs
<1> HIDE DEF f
<1>2. fetches'[b]["user"] = f /\ \A c \in Tabs : \A l \in BT!Who : c # b \/ l # "user"
        => fetches'[c][l] = fetches[c][l]
  BY <1>1, PutIs, TypesAre, WhoIs DEF f
<1>3. /\ \A c \in Tabs : \A l \in BT!Who : Way(c, l) => <<c, l>> = <<b, "user">>
      /\ channel[b] = << >>
  BY CrossingIs, WhoIs
<1>4. \A c \in Tabs : \A l \in BT!Who : ~Way(c, l)  BY <1>3 DEF Way, BT!OnTheWay
<1> QED  BY <1>1, <1>2, <1>3, <1>4, SendIsSound, WhoIs

LEMMA ChooseIsSound ==
  ASSUME TabsFit, SessionTyped, Sound, NEW b \in Tabs, NEW w \in Workspaces,
         BT!SwitchWorkspace(b, w), ~BT!Upset'
  PROVE  ~BT!Upset /\ Sound'
<1> DEFINE op == IF tabs[b].pending = "LOGIN" THEN "select" ELSE "switch"
           x == BT!Crossing(b, "user")
<1>1. /\ fetches[b].user.pc = "idle" /\ UNCHANGED <<cookie, home, live, queue, channel, tabs>>
      /\ BT!Put(b, "user", BT!Sent(op, w)) /\ past' = BT!Noted(x) \ IF tabs[b].pending = "LOGIN"
         THEN {"out"} ELSE {}
  BY DEF BT!SwitchWorkspace, BT!At, BT!backend
<1>2. x \in SUBSET BT!Notes /\ (x \cap BT!Upsets = {} => x = {})  BY CrossingIs, WhoIs
<1>3. BT!Noted(x) \cap BT!Upsets = {}  BY <1>1 DEF BT!Upset, BT!Upsets
<1>4. ~BT!Upset /\ x \cap BT!Upsets = {} /\ BT!Noted(x) = past \cup x
  BY <1>2, <1>3, NotedIs, TypesAre
<1>5. past' \subseteq past /\ ("out" \in past' => op \notin {"select", "accept"})
  BY <1>1, <1>2, <1>4
<1>6. op \in BT!SessionOps /\ SessionTyped'  BY SessionChooseIsTyped DEF BT!SessionOps
<1> QED  BY <1>1, <1>4, <1>5, <1>6, MadeIsSound

LEMMA AcceptIsSound ==
  ASSUME TabsFit, SessionTyped, Sound, NEW b \in Tabs, NEW w \in Workspaces,
         BT!AcceptInvitation(b, w), ~BT!Upset'
  PROVE  ~BT!Upset /\ Sound'
<1> DEFINE x == BT!Crossing(b, "user")
<1>1. /\ fetches[b].user.pc = "idle" /\ UNCHANGED <<cookie, home, live, queue, channel, tabs>>
      /\ BT!Put(b, "user", BT!Sent("accept", w)) /\ past' = BT!Noted(x) \ {"out"}
  BY DEF BT!AcceptInvitation, BT!At, BT!backend
<1>2. x \in SUBSET BT!Notes /\ (x \cap BT!Upsets = {} => x = {})  BY CrossingIs, WhoIs
<1>3. BT!Noted(x) \cap BT!Upsets = {}  BY <1>1 DEF BT!Upset, BT!Upsets
<1>4. ~BT!Upset /\ x \cap BT!Upsets = {} /\ BT!Noted(x) = past \cup x
  BY <1>2, <1>3, NotedIs, TypesAre
<1>5. past' \subseteq past /\ "out" \notin past'  BY <1>1, <1>2, <1>4
<1>6. "accept" \in BT!SessionOps /\ SessionTyped'  BY AcceptIsTyped DEF BT!SessionOps
<1> QED  BY <1>1, <1>4, <1>5, <1>6, MadeIsSound

LEMMA LeaveIsSound ==
  ASSUME TabsFit, SessionTyped, Sound, NEW b \in Tabs, BT!Logout(b), ~BT!Upset'
  PROVE  ~BT!Upset /\ Sound'
<1> DEFINE x == BT!Crossing(b, "user")
<1>1. /\ fetches[b].user.pc = "idle" /\ UNCHANGED <<cookie, home, live, queue, channel, tabs>>
      /\ BT!Put(b, "user", BT!Sent("logout", None)) /\ BT!Note(x)
  BY DEF BT!Logout, BT!At, BT!backend
<1>2. x \in SUBSET BT!Notes /\ (x \cap BT!Upsets = {} => x = {})  BY CrossingIs, WhoIs
<1>3. ~BT!Upset /\ x \cap BT!Upsets = {} /\ past' = past \cup x  BY <1>1, <1>2, NoteIs, TypesAre
<1>4. past' \subseteq past /\ "logout" \notin {"select", "accept"}  BY <1>2, <1>3
<1>5. "logout" \in BT!SessionOps /\ SessionTyped'  BY LeaveIsTyped DEF BT!SessionOps
<1> QED  BY <1>1, <1>3, <1>4, <1>5, MadeIsSound
-----------------------------------------------------------------------------
(* Soundness: steps that begin no session call.                            *)

\* Calls that are under way stay as they are, and those that are not do not begin.
LEMMA CallsStay ==
  ASSUME TabsFit, SessionTyped, Sound, UNCHANGED <<cookie, live>>,
         \A c \in Tabs : \A l \in BT!Who : Way(c, l)' =>
           Way(c, l) /\ fetches'[c][l] = fetches[c][l],
         \A c \in Tabs : Way(c, "user")' => channel'[c] = channel[c],
         \A c \in Tabs : \A l \in BT!Who : fetches[c][l].pc = "answered"
           => fetches'[c][l].pc = "answered"
  PROVE  OneCall' /\ CallAgrees' /\ CookieIsLive'
<1>1. OneCall'  BY SoundIs, WhoIs DEF OneCall
<1>2. CallAgrees'
  <2> SUFFICES ASSUME NEW c \in Tabs, NEW l \in BT!Who, fetches'[c][l].pc \in BT!OnTheWay
               PROVE  LET g == fetches'[c][l] IN
                      /\ g.pc \in {"sent", "begun"} => g.sent = cookie'
                      /\ g.pc \in {"answered", "arrived"} =>
                           /\ g.answer \in {"ok", "none", "refused", "out"}
                           /\ g.answer = "refused" => g.op = "switch"
                           /\ g.answer = "none" => cookie' = None
                           /\ g.answer = "ok" => g.token \in live'
                      /\ g.pc = "arrived" => cookie' = IF g.answer = "ok" THEN g.token ELSE None
    BY DEF CallAgrees, BT!OnTheWay
  <2>1. fetches'[c][l] = fetches[c][l]  BY DEF Way
  <2> QED  BY <2>1, SoundIs DEF CallAgrees
<1>3. CookieIsLive'  BY SoundIs DEF CookieIsLive
<1> QED  BY <1>1, <1>2, <1>3

\* Tab b changes what it waits for, hears and shows, while no call of its begins or ends.
LEMMA TabIsSound ==
  ASSUME TabsFit, SessionTyped, SessionTyped', Sound, NEW b \in Tabs, UNCHANGED <<cookie, home,
         live, past>>,
         \A c \in Tabs : c # b => /\ tabs'[c] = tabs[c] /\ fetches'[c] = fetches[c]
                                  /\ channel'[c] = channel[c],
         \A l \in BT!Who : (Way(b, l) \/ Way(b, l)') => fetches'[b][l] = fetches[b][l],
         Way(b, "user")' => channel'[b] = channel[b],
         \* It is of the workspace.
         \A w \in Workspaces : IsOf(w) =>
           /\ \A t \in Held(b)' : home[t] = w
           /\ LET c == fetches'[b].user IN
                c.pc = "await" /\ ~c.told /\ ~BT!Untold(b)' => c.to = w
           /\ tabs'[b].screen \in Workspaces /\ ~tabs'[b].leaving /\ ~BT!Untold(b)' =>
                home[tabs'[b].token] = tabs'[b].screen,
         \* It ends if the session has ended.
         "out" \in past =>
           \/ channel'[b] = << >> /\ tabs'[b].token = None
           \/ channel'[b] # << >> /\ channel'[b][Len(channel'[b])].type = "SESSION_ENDED"
  PROVE  Sound'
<1>1. \A c \in Tabs : \A l \in BT!Who : (Way(c, l) \/ Way(c, l)')
        => fetches'[c][l] = fetches[c][l]
  OBVIOUS
<1>2. \A c \in Tabs : \A l \in BT!Who : Way(c, l)' <=> Way(c, l)  BY <1>1 DEF Way
<1>3. OneCall' /\ CallAgrees' /\ CookieIsLive'
  <2>1. \A c \in Tabs : \A l \in BT!Who : fetches[c][l].pc = "answered"
          => fetches'[c][l].pc = "answered"
    BY <1>1 DEF Way, BT!OnTheWay
  <2>2. \A c \in Tabs : Way(c, "user")' => channel'[c] = channel[c]  OBVIOUS
  <2> QED  BY <1>1, <1>2, <2>1, <2>2, CallsStay
<1>4. \A c \in Tabs : c # b => Held(c)' = Held(c) /\ (BT!Untold(c)' <=> BT!Untold(c))
  BY HeldStays
<1>5. PICK w \in Workspaces : IsOf(w)
  BY SoundIs DEF OneWorkspace
<1>6. IsOf(w)'
  <2>1. \A c \in Tabs : \A t \in Held(c)' : home'[t] = w  BY <1>4, <1>5 DEF IsOf
  <2>2. cookie' # None /\ (\A c \in Tabs : ~Turning(fetches'[c].user)) => home'[cookie'] = w
    <3>1. \A c \in Tabs : Turning(fetches[c].user) => fetches'[c].user = fetches[c].user
      BY <1>1, WhoIs DEF Turning, Way, BT!OnTheWay
    <3> QED  BY <1>5, <3>1 DEF IsOf
  <2>3. ASSUME NEW c \in Tabs, fetches'[c].refresh.pc \in {"answered", "arrived"},
                 fetches'[c].refresh.answer = "ok"
        PROVE  home'[fetches'[c].refresh.token] = w
    <3>1. fetches'[c].refresh = fetches[c].refresh  BY <1>1, <2>3, WhoIs DEF Way, BT!OnTheWay
    <3> QED  BY <1>5, <2>3, <3>1 DEF IsOf
  <2>4. ASSUME NEW c \in Tabs, fetches'[c].user.pc = "await", ~fetches'[c].user.told,
                 ~BT!Untold(c)'
        PROVE  fetches'[c].user.to = w
    <3>1. CASE c = b  BY <1>5, <2>4, <3>1
    <3>2. CASE c # b  BY <1>4, <1>5, <2>4, <3>2 DEF IsOf
    <3> QED  BY <3>1, <3>2
  <2> QED  BY <2>1, <2>2, <2>3, <2>4 DEF IsOf
<1>7. ScreensAgree'
  <2> SUFFICES ASSUME NEW c \in Tabs, tabs'[c].screen \in Workspaces, ~tabs'[c].leaving,
                        ~BT!Untold(c)'
               PROVE  home[tabs'[c].token] = tabs'[c].screen
    BY DEF ScreensAgree
  <2>1. CASE c = b  BY <1>5, <2>1
  <2>2. CASE c # b  BY <1>4, <2>2, SoundIs DEF ScreensAgree
  <2> QED  BY <2>1, <2>2
<1>8. IsOut'
  <2> SUFFICES ASSUME "out" \in past PROVE IsOut'
    BY DEF IsOut
  <2>1. cookie' = None /\ \A c \in Tabs : \A l \in BT!Who : LET g == fetches'[c][l] IN
          Way(c, l)' => g.sent = None /\ g.op \notin {"select", "accept"} /\ g.answer # "ok"
    BY <1>1, <1>2, SoundIs DEF IsOut
  <2>2. ASSUME NEW c \in Tabs
        PROVE  \/ channel'[c] = << >> /\ tabs'[c].token = None
               \/ channel'[c] # << >> /\ channel'[c][Len(channel'[c])].type = "SESSION_ENDED"
    BY SoundIs DEF IsOut
  <2> QED  BY <2>1, <2>2 DEF IsOut
<1>9. "alarm" \notin past' /\ "strayed" \notin past'  BY SoundIs
<1> QED  BY <1>3, <1>5, <1>6, <1>7, <1>8, <1>9, SoundNext DEF OneWorkspace

\* What a tab shows is the workspace there is.
LEMMA ShownIs ==
  ASSUME TabsFit, SessionTyped, Sound, NEW w \in Workspaces, IsOf(w), NEW b \in Tabs,
         tabs[b].screen \in Workspaces,
         ~BT!Untold(b)
  PROVE  tabs[b].token \in Held(b) /\ home[tabs[b].token] = w
           /\ (~tabs[b].leaving => tabs[b].screen = w)
<1>1. tabs[b].token # None  BY TypesAre DEF TabOK
<1>2. tabs[b].token \in Held(b)  BY <1>1, HeldIs
<1> QED  BY <1>2, SoundIs DEF IsOf, ScreensAgree

LEMMA AdoptIsSound ==
  ASSUME TabsFit, SessionTyped, Sound, NEW b \in Tabs, BT!AdoptToken(b), ~BT!Upset'
  PROVE  ~BT!Upset /\ Sound'
<1>1. /\ fetches[b].refresh.pc = "wait" /\ BT!Granted(b)
         /\ BT!EndRefresh(b, tabs[b].token, TRUE)
      /\ UNCHANGED <<cookie, home, live, channel, tabs>> /\ tabs[b].token # None
  BY DEF BT!AdoptToken, BT!At, BT!backend
<1>2. queue[1] = b  BY <1>1, GrantedIs
<1>3. /\ fetches'[b].refresh = BT!Idle
      /\ fetches'[b].user = IF fetches[b].user.pc = "await" THEN BT!Idle ELSE fetches[b].user
      /\ \A c \in Tabs : c # b => fetches'[c] = fetches[c]
      /\ ~BT!Upset /\ past' = past \cup IF TRUE /\ BT!Strays(b, tabs[b].token) THEN {"strayed"}
         ELSE {}
  BY <1>1, <1>2, EndIs
<1>4. PICK w \in Workspaces : IsOf(w)
  BY SoundIs DEF OneWorkspace
<1>5. ~BT!Strays(b, tabs[b].token)
  <2> SUFFICES ASSUME BT!Strays(b, tabs[b].token) PROVE FALSE
    OBVIOUS
  <2>1. fetches[b].user.pc = "await" /\ home[tabs[b].token] # fetches[b].user.to
          /\ ~fetches[b].user.told /\ ~BT!Untold(b)
    BY DEF BT!Strays
  <2>2. tabs[b].token \in Held(b)  BY <1>1, <2>1, HeldIs
  <2> QED  BY <1>4, <2>1, <2>2 DEF IsOf
<1>6. SessionTyped' /\ past' = past  BY <1>3, <1>5, AdoptIsTyped
<1>7. Held(b)' = Held(b) /\ (BT!Untold(b)' <=> BT!Untold(b))  BY <1>1, <1>6, HeldStays
<1>8. \A l \in BT!Who : (Way(b, l) \/ Way(b, l)') => fetches'[b][l] = fetches[b][l]
  <2>1. ~Way(b, "refresh") /\ ~Way(b, "refresh")'  BY <1>1, <1>3, IdleIs DEF Way, BT!OnTheWay
  <2>2. (Way(b, "user") \/ Way(b, "user")') => fetches'[b].user = fetches[b].user
    BY <1>3, IdleIs DEF Way, BT!OnTheWay
  <2> QED  BY <2>1, <2>2, WhoIs
<1>9. ASSUME NEW v \in Workspaces, IsOf(v)
      PROVE  /\ \A t \in Held(b)' : home[t] = v
             /\ LET c == fetches'[b].user IN
                  c.pc = "await" /\ ~c.told /\ ~BT!Untold(b)' => c.to = v
             /\ tabs'[b].screen \in Workspaces /\ ~tabs'[b].leaving /\ ~BT!Untold(b)' =>
                  home[tabs'[b].token] = tabs'[b].screen
  <2>1. fetches'[b].user.pc # "await"  BY <1>3, IdleIs
  <2> QED  BY <1>1, <1>7, <1>9, <2>1, SoundIs DEF IsOf, ScreensAgree
<1>10. "out" \in past =>
           \/ channel'[b] = << >> /\ tabs'[b].token = None
           \/ channel'[b] # << >> /\ channel'[b][Len(channel'[b])].type = "SESSION_ENDED"
  BY <1>1, SoundIs DEF IsOut
<1> QED  BY <1>1, <1>3, <1>6, <1>8, <1>9, <1>10, TabIsSound

LEMMA ProactiveIsSound ==
  ASSUME TabsFit, SessionTyped, Sound, NEW b \in Tabs, BT!ProactiveRefresh(b)
  PROVE  past' = past /\ Sound'
<1>1. /\ SessionTyped' /\ UNCHANGED <<cookie, home, live, channel, tabs, past>>
      /\ \A c \in Tabs : c # b => fetches'[c] = fetches[c]
      /\ fetches'[b].refresh.pc = "wait" /\ fetches'[b].user = fetches[b].user
  BY ProactiveIs
<1>2. fetches[b].refresh.pc = "idle"  BY DEF BT!ProactiveRefresh, BT!At
<1>3. Held(b)' = Held(b) /\ (BT!Untold(b)' <=> BT!Untold(b))  BY <1>1, HeldStays
<1>4. \A l \in BT!Who : (Way(b, l) \/ Way(b, l)') => fetches'[b][l] = fetches[b][l]
  BY <1>1, <1>2, WhoIs DEF Way, BT!OnTheWay
<1> QED  BY <1>1, <1>3, <1>4, SoundIs, TabIsSound DEF IsOf, ScreensAgree, IsOut

LEMMA RetryIsSound ==
  ASSUME TabsFit, SessionTyped, Sound, NEW b \in Tabs, BT!RetryRequest(b)
  PROVE  past' = past /\ Sound'
<1>1. /\ SessionTyped' /\ UNCHANGED <<cookie, home, live, channel, tabs, past>>
      /\ \A c \in Tabs : c # b => fetches'[c] = fetches[c]
      /\ \/ fetches'[b].refresh = fetches[b].refresh
         \/ fetches[b].refresh.pc = "idle" /\ fetches'[b].refresh.pc = "wait"
      /\ fetches'[b].user.pc = "await" /\ fetches'[b].user.to = tabs[b].screen
      /\ fetches'[b].user.told = tabs[b].leaving /\ tabs[b].screen \in Workspaces
  BY RetryIs
<1>2. fetches[b].user.pc = "idle"  BY DEF BT!RetryRequest, BT!At
<1>3. Held(b)' = Held(b) /\ (BT!Untold(b)' <=> BT!Untold(b))  BY <1>1, HeldStays
<1>4. \A l \in BT!Who : (Way(b, l) \/ Way(b, l)') => fetches'[b][l] = fetches[b][l]
  <2>1. ~Way(b, "user") /\ ~Way(b, "user")'  BY <1>1, <1>2 DEF Way, BT!OnTheWay
  <2>2. (Way(b, "refresh") \/ Way(b, "refresh")') => fetches'[b].refresh = fetches[b].refresh
    BY <1>1 DEF Way, BT!OnTheWay
  <2> QED  BY <2>1, <2>2, WhoIs
<1>5. ASSUME NEW w \in Workspaces, IsOf(w), ~fetches'[b].user.told, ~BT!Untold(b)'
      PROVE  fetches'[b].user.to = w
  BY <1>1, <1>3, <1>5, ShownIs
<1> QED  BY <1>1, <1>3, <1>4, <1>5, SoundIs, TabIsSound DEF IsOf, ScreensAgree, IsOut

LEMMA ShowingIsSound ==
  ASSUME TabsFit, SessionTyped, Sound, NEW b \in Tabs,
         BT!Navigate(b) \/ BT!BeginLogin(b) \/ BT!BeginWorkspaceSwitch(b)
           \/ BT!CancelSelection(b)
  PROVE  past' = past /\ Sound'
<1>1. /\ SessionTyped' /\ UNCHANGED <<cookie, home, live, queue, channel, fetches, past>>
      /\ \A c \in Tabs : c # b => tabs'[c] = tabs[c]
      /\ tabs'[b].token = tabs[b].token /\ tabs'[b].leaving = tabs[b].leaving
      /\ \/ tabs'[b].screen = tabs[b].screen
         \/ tabs'[b].screen = home[tabs[b].token]
  BY ShowingIsTyped
<1>2. Held(b)' = Held(b) /\ (BT!Untold(b)' <=> BT!Untold(b))  BY <1>1, HeldStays
<1>3. tabs'[b].screen \in Workspaces /\ ~tabs'[b].leaving /\ ~BT!Untold(b)'
        => home[tabs'[b].token] = tabs'[b].screen
  BY <1>1, <1>2, SoundIs DEF ScreensAgree
<1>4. \A w \in Workspaces : IsOf(w) =>
           /\ \A t \in Held(b)' : home[t] = w
           /\ LET c == fetches'[b].user IN
                c.pc = "await" /\ ~c.told /\ ~BT!Untold(b)' => c.to = w
  BY <1>1, <1>2 DEF IsOf
<1>5. "out" \in past =>
           \/ channel'[b] = << >> /\ tabs'[b].token = None
           \/ channel'[b] # << >> /\ channel'[b][Len(channel'[b])].type = "SESSION_ENDED"
  BY <1>1, SoundIs DEF IsOut
<1>6. \A l \in BT!Who : (Way(b, l) \/ Way(b, l)') => fetches'[b][l] = fetches[b][l]  BY <1>1
<1> QED  BY <1>1, <1>3, <1>4, <1>5, <1>6, TabIsSound

\* A tab opens or goes away without a call.
LEMMA AwayIsSound ==
  ASSUME TabsFit, SessionTyped, SessionTyped', Sound, NEW b \in Tabs, BT!Abandon(b), ~BT!Upset',
         UNCHANGED <<cookie, home, live>>,
         \A c \in Tabs : c # b => tabs'[c] = tabs[c] /\ fetches'[c] = fetches[c],
         tabs'[b].token = None, tabs'[b].screen = None,
         fetches'[b].refresh.pc \in {"idle", "wait"}, fetches'[b].user = BT!Idle
  PROVE  ~BT!Upset /\ Sound'
<1>1. /\ ~BT!Upset /\ past' = past /\ \A k \in BT!Who : ~Way(b, k)
      /\ channel'[b] = << >> /\ \A c \in Tabs : c # b => channel'[c] = channel[c]
  BY AbandonIs
<1>2. \A k \in BT!Who : ~Way(b, k)'  BY IdleIs, WhoIs DEF Way, BT!OnTheWay
<1>3. Held(b)' = {} /\ ~BT!Untold(b)'  BY <1>1, HeldOfNone
<1>4. fetches'[b].user.pc # "await" /\ tabs'[b].screen \notin Workspaces  BY IdleIs DEF TabsFit
<1> QED  BY <1>1, <1>2, <1>3, <1>4, TabIsSound, WhoIs

LEMMA BootIsSound ==
  ASSUME TabsFit, SessionTyped, Sound, NEW b \in Tabs, BT!Bootstrap(b) \/ BT!Close(b),
         ~BT!Upset'
  PROVE  ~BT!Upset /\ Sound'
<1>1. /\ SessionTyped' /\ UNCHANGED <<cookie, home, live>> /\ BT!Abandon(b)
      /\ \A c \in Tabs : c # b => tabs'[c] = tabs[c] /\ fetches'[c] = fetches[c]
      /\ tabs'[b].token = None /\ tabs'[b].screen = None
      /\ fetches'[b].refresh.pc \in {"idle", "wait"} /\ fetches'[b].user = BT!Idle
  BY BootIs, CloseIs, IdleIs
<1> QED  BY <1>1, AwayIsSound

LEMMA HearIsSound ==
  ASSUME TabsFit, SessionTyped, Sound, NEW b \in Tabs, BT!Hear(b)
  PROVE  past' = past /\ Sound'
<1> DEFINE s == channel[b]
           r == channel'[b]
           m == Head(s)
           n == Len(s)
           f == fetches[b].user
<1>1. /\ UNCHANGED <<cookie, home, live, queue, past>> /\ n \in Nat \ {0} /\ m \in Messages
         /\ m = s[1] /\ s # << >>
      /\ \A c \in Tabs : c # b => channel'[c] = channel[c]
      /\ \A c \in Tabs : c # b => tabs'[c] = tabs[c]
      /\ \A c \in Tabs : c # b => fetches'[c] = fetches[c]
      /\ fetches'[b].refresh = fetches[b].refresh
      /\ fetches'[b].user = [f EXCEPT !.told = f.told \/ m.type = "WORKSPACE_SWITCHED"]
  BY HearIs
<1>2. /\ DOMAIN s = 1 .. n /\ DOMAIN r = 1 .. n - 1 /\ Len(r) = n - 1
      /\ \A i \in 1 .. n - 1 : r[i] = s[i + 1]
  BY HearIs
<1>3. SessionTyped' /\ f \in CallsOfSession /\ tabs[b] \in BT!Tab /\ r \in Seq(Messages)
  <2>1. SessionTyped'  BY HearIsTyped
  <2>2. f \in CallsOfSession /\ tabs[b] \in BT!Tab  BY TypesAre, WhoIs
  <2>3. r \in Seq(Messages)  BY HearIs
  <2> QED  BY <2>1, <2>2, <2>3
<1>4. fetches'[b].user.pc = f.pc /\ fetches'[b].user.to = f.to
      /\ (fetches'[b].user.told <=> f.told \/ m.type = "WORKSPACE_SWITCHED")
  BY <1>1, <1>3 DEF CallsOfSession
<1>6. \/ m.type = "ACCESS_TOKEN_UPDATED" /\ tabs'[b] = BT!Applied(tabs[b], m.token)
         /\ m.token \in Minted
      \/ m.type = "WORKSPACE_SWITCHED" /\ tabs'[b] = BT!Switched(tabs[b], m.token)
         /\ m.token \in Minted
      \/ m.type = "SESSION_ENDED" /\ tabs'[b] = BT!Cleared(tabs[b])
  <2>1. m.type \in {"ACCESS_TOKEN_UPDATED", "WORKSPACE_SWITCHED", "SESSION_ENDED"}
    BY <1>1 DEF Messages
  <2>2. /\ m.type # "SESSION_ENDED" => m.token \in Minted
        /\ m.type = "ACCESS_TOKEN_UPDATED" => tabs'[b] = BT!Applied(tabs[b], m.token)
        /\ m.type = "WORKSPACE_SWITCHED" => tabs'[b] = BT!Switched(tabs[b], m.token)
        /\ m.type = "SESSION_ENDED" => tabs'[b] = BT!Cleared(tabs[b])
    BY HearIs
  <2> QED  BY <2>1, <2>2
<1> HIDE DEF m
<1>5. /\ \A t \in ToldOf(r) : t \in ToldOf(s)
      /\ BT!Untold(b) <=> (m.type = "WORKSPACE_SWITCHED" \/ BT!Untold(b)')
      /\ m.type # "SESSION_ENDED" /\ ~BT!Untold(b)' => m.token \in ToldOf(s)
  <2>1. /\ BT!Untold(b) <=> \E i \in DOMAIN s : s[i].type = "WORKSPACE_SWITCHED"
        /\ BT!Untold(b)' <=> \E i \in DOMAIN r : r[i].type = "WORKSPACE_SWITCHED"
    BY DEF BT!Untold
  <2> HIDE DEF s, r, n
  <2>2. /\ \A t \in ToldOf(r) : t \in ToldOf(s)
        /\ (\E i \in DOMAIN s : s[i].type = "WORKSPACE_SWITCHED") <=>
             s[1].type = "WORKSPACE_SWITCHED"
               \/ \E i \in DOMAIN r : r[i].type = "WORKSPACE_SWITCHED"
        /\ s[1].type # "SESSION_ENDED"
                /\ ~(\E i \in DOMAIN r : r[i].type = "WORKSPACE_SWITCHED")
             => s[1].token \in ToldOf(s)
    BY <1>1, <1>2, ToldLess
  <2> QED  BY <1>1, <2>1, <2>2
<1> HIDE DEF s, r, n
<1>7. /\ m.type = "ACCESS_TOKEN_UPDATED" =>
           tabs'[b].token = m.token /\ tabs'[b].screen = tabs[b].screen
             /\ tabs'[b].leaving = tabs[b].leaving
      /\ m.type = "WORKSPACE_SWITCHED" => tabs'[b].token = m.token /\ tabs'[b].leaving
      /\ m.type = "SESSION_ENDED" => tabs'[b].token = None /\ tabs'[b].screen \notin Workspaces
  BY <1>3, <1>6, AppliedIs, ClearedIs DEF TabsFit
<1>8. \A t : t \in Held(b)' => t \in Held(b)
  <2> SUFFICES ASSUME NEW t, t \in Held(b)' PROVE t \in ToldOf(s)
    BY HeldIs DEF s
  <2>1. t \in ToldOf(r) \/ (t = tabs'[b].token /\ t # None /\ ~BT!Untold(b)')
    BY <1>3, HeldNext DEF r
  <2> QED  BY <1>5, <1>6, <1>7, <2>1
<1>9. ~Way(b, "user") /\ ~Way(b, "user")'  BY <1>1, <1>4, SoleIs, WhoIs DEF Way, s
<1>10. \A l \in BT!Who : (Way(b, l) \/ Way(b, l)') => fetches'[b][l] = fetches[b][l]
  BY <1>1, <1>9, WhoIs
<1>11. ASSUME NEW w \in Workspaces, IsOf(w)
       PROVE  /\ \A t \in Held(b)' : home[t] = w
              /\ LET c == fetches'[b].user IN
                   c.pc = "await" /\ ~c.told /\ ~BT!Untold(b)' => c.to = w
              /\ tabs'[b].screen \in Workspaces /\ ~tabs'[b].leaving /\ ~BT!Untold(b)' =>
                   home[tabs'[b].token] = tabs'[b].screen
  <2>1. \A t \in Held(b)' : home[t] = w  BY <1>8, <1>11 DEF IsOf
  <2>2. fetches'[b].user.pc = "await" /\ ~fetches'[b].user.told /\ ~BT!Untold(b)'
          => fetches'[b].user.to = w
    BY <1>4, <1>5, <1>11 DEF IsOf
  <2>3. tabs'[b].screen \in Workspaces /\ ~tabs'[b].leaving /\ ~BT!Untold(b)'
          => home[tabs'[b].token] = tabs'[b].screen
    <3> SUFFICES ASSUME tabs'[b].screen \in Workspaces, ~tabs'[b].leaving, ~BT!Untold(b)'
                 PROVE  home[tabs'[b].token] = tabs'[b].screen
      OBVIOUS
    <3>1. m.type = "ACCESS_TOKEN_UPDATED"  BY <1>6, <1>7
    <3>2. tabs[b].screen = w  BY <1>5, <1>7, <1>11, <3>1, ShownIs
    <3>3. m.token \in Held(b)  BY <1>5, <3>1, HeldIs DEF s
    <3> QED  BY <1>7, <1>11, <3>1, <3>2, <3>3 DEF IsOf
  <2> QED  BY <2>1, <2>2, <2>3
<1>12. "out" \in past =>
           \/ r = << >> /\ tabs'[b].token = None
           \/ r # << >> /\ r[Len(r)].type = "SESSION_ENDED"
  <2> SUFFICES ASSUME "out" \in past
               PROVE  \/ r = << >> /\ tabs'[b].token = None
                      \/ r # << >> /\ r[Len(r)].type = "SESSION_ENDED"
    OBVIOUS
  <2>1. s[n].type = "SESSION_ENDED"  BY <1>1, SoundIs DEF IsOut, s, n
  <2>2. CASE n = 1  BY <1>1, <1>2, <1>3, <1>7, <2>1, <2>2, EmptySeq
  <2>3. CASE n > 1
    <3>1. n - 1 \in 1 .. n - 1 /\ (n - 1) + 1 = n  BY <1>1, <2>3
    <3>2. r[n - 1] = s[n] /\ r # << >>  BY <1>1, <1>2, <1>3, <2>3, <3>1, EmptySeq
    <3> QED  BY <1>2, <2>1, <3>2
  <2> QED  BY <1>1, <2>2, <2>3
<1> QED  BY <1>1, <1>3, <1>9, <1>10, <1>11, <1>12, TabIsSound DEF r

\* What a tab holds after it is told something.
LEMMA TellHeld ==
  ASSUME TabsFit, SessionTyped, SessionTyped', NEW b \in Tabs, NEW m \in Messages,
         BT!Tell(b, m),
         home' = home, NEW c \in Tabs, c # b, tabs'[c] = tabs[c],
         m.type # "SESSION_ENDED" => m.token \in Minted
  PROVE  /\ m.type # "WORKSPACE_SWITCHED" =>
              /\ BT!Untold(c)' <=> BT!Untold(c)
              /\ \A t \in Held(c)' : t \in Held(c) \/ (m.type = "ACCESS_TOKEN_UPDATED"
                 /\ t = m.token)
         /\ m.type = "WORKSPACE_SWITCHED" =>
              /\ \A t \in Held(c)' : t = m.token
              /\ tabs[c].state # "closed" => BT!Untold(c)'
         /\ tabs[c].state # "closed" => channel'[c] # << >> /\ channel'[c][Len(channel'[c])] = m
         /\ tabs[c].state = "closed" => channel'[c] = channel[c] /\ tabs[c] = BT!Closed
<1> DEFINE s == channel[c]
           r == channel'[c]
<1>1. /\ tabs[c].state = "closed" => r = s
      /\ tabs[c].state # "closed" => r = Append(s, m)
  BY TellIs
<1>2. /\ s \in Seq(Messages) /\ TabOK(c)
      /\ m.type \in {"ACCESS_TOKEN_UPDATED", "WORKSPACE_SWITCHED", "SESSION_ENDED"}
  BY TypesAre DEF Messages
<1>3. /\ BT!Untold(c) <=> \E i \in DOMAIN s : s[i].type = "WORKSPACE_SWITCHED"
      /\ BT!Untold(c)' <=> \E i \in DOMAIN r : r[i].type = "WORKSPACE_SWITCHED"
  BY DEF BT!Untold
<1>4. /\ \A t : t \in Held(c) <=>
         t \in ToldOf(s) \/ (t = tabs[c].token /\ t # None /\ ~BT!Untold(c))
      /\ \A t : t \in Held(c)' <=>
         t \in ToldOf(r) \/ (t = tabs[c].token /\ t # None /\ ~BT!Untold(c)')
  <2>1. \A t : t \in Held(c) <=> \/ t \in ToldOf(channel[c])
                                 \/ t = tabs[c].token /\ t # None /\ ~BT!Untold(c)
    BY HeldIs
  <2>2. \A t : t \in Held(c)' <=> \/ t \in ToldOf(channel'[c])
                                  \/ t = tabs'[c].token /\ t # None /\ ~BT!Untold(c)'
    BY HeldNext
  <2> QED  BY <2>1, <2>2
<1> HIDE DEF s, r
<1>5. CASE tabs[c].state # "closed"
  <2>1. /\ m.type # "WORKSPACE_SWITCHED" =>
              /\ (\E i \in DOMAIN r : r[i].type = "WORKSPACE_SWITCHED")
                   <=> \E i \in DOMAIN s : s[i].type = "WORKSPACE_SWITCHED"
              /\ ToldOf(r) = ToldOf(s) \cup IF m.type = "SESSION_ENDED" THEN {} ELSE {m.token}
        /\ m.type = "WORKSPACE_SWITCHED" =>
              /\ \E i \in DOMAIN r : r[i].type = "WORKSPACE_SWITCHED"
              /\ ToldOf(r) = {m.token}
        /\ r # << >> /\ r[Len(r)] = m
    BY <1>1, <1>2, <1>5, ToldMore
  <2>2. ASSUME m.type # "WORKSPACE_SWITCHED"
        PROVE  /\ BT!Untold(c)' <=> BT!Untold(c)
               /\ \A t \in Held(c)' : t \in Held(c) \/ (m.type = "ACCESS_TOKEN_UPDATED"
                  /\ t = m.token)
    <3>1. BT!Untold(c)' <=> BT!Untold(c)  BY <1>3, <2>1, <2>2
    <3>2. \A t \in Held(c)' : t \in Held(c) \/ (m.type = "ACCESS_TOKEN_UPDATED" /\ t = m.token)
      BY <1>2, <1>4, <2>1, <2>2, <3>1
    <3> QED  BY <3>1, <3>2
  <2>3. m.type = "WORKSPACE_SWITCHED" => BT!Untold(c)' /\ \A t \in Held(c)' : t = m.token
    BY <1>3, <1>4, <2>1
  <2> QED  BY <1>5, <2>1, <2>2, <2>3 DEF r
<1>6. CASE tabs[c].state = "closed"
  <2>1. r = s /\ tabs[c] = BT!Closed /\ tabs[c].token = None /\ s = << >>
    BY <1>1, <1>2, <1>6 DEF TabOK, BT!Closed, s
  <2>2. ~BT!Untold(c) /\ ~BT!Untold(c)' /\ ToldOf(r) = {}  BY <1>3, <2>1 DEF ToldOf
  <2>3. \A t : t \notin Held(c)'  BY <1>4, <2>1, <2>2
  <2> QED  BY <1>6, <2>1, <2>2, <2>3 DEF s, r
<1> QED  BY <1>5, <1>6

\* The only call ends, and all that is left is of workspace w.
LEMMA EndedIsSound ==
  ASSUME TabsFit, SessionTyped, SessionTyped', Sound, NEW b \in Tabs, NEW k \in BT!Who,
         fetches[b][k].pc = "arrived", UNCHANGED <<cookie, home, live>>,
           fetches'[b][k] = BT!Idle,
         \A c \in Tabs : \A l \in BT!Who :
           c # b \/ l # k => fetches'[c][l] = fetches[c][l] \/ fetches'[c][l] = BT!Idle,
         NEW w \in Workspaces, cookie # None => home[cookie] = w,
         \A c \in Tabs :
           /\ \A t \in Held(c)' : home[t] = w
           /\ LET f == fetches'[c].user IN
                f.pc = "await" /\ ~f.told /\ ~BT!Untold(c)' => f.to = w
           /\ tabs'[c].screen \in Workspaces /\ ~tabs'[c].leaving /\ ~BT!Untold(c)' =>
                home[tabs'[c].token] = tabs'[c].screen,
         "out" \in past' =>
           /\ cookie = None
           /\ \A c \in Tabs :
                \/ channel'[c] = << >> /\ tabs'[c].token = None
                \/ channel'[c] # << >> /\ channel'[c][Len(channel'[c])].type = "SESSION_ENDED",
         "alarm" \notin past', "strayed" \notin past'
  PROVE  Sound'
<1>1. \A c \in Tabs : \A l \in BT!Who : ~Way(c, l)'
  <2> SUFFICES ASSUME NEW c \in Tabs, NEW l \in BT!Who PROVE ~Way(c, l)'
    OBVIOUS
  <2>1. BT!Idle.pc \notin BT!OnTheWay  BY IdleIs DEF BT!OnTheWay
  <2>2. Way(b, k)  BY DEF Way, BT!OnTheWay
  <2>3. CASE c = b /\ l = k  BY <2>1, <2>3 DEF Way
  <2>4. CASE c # b \/ l # k
    <3>1. ~Way(c, l)  BY <2>2, <2>4, SoleIs
    <3> QED  BY <2>1, <2>4, <3>1 DEF Way
  <2> QED  BY <2>3, <2>4
<1>2. \A c \in Tabs : \A l \in BT!Who : fetches'[c][l].pc \notin BT!OnTheWay  BY <1>1 DEF Way
<1>3. OneCall' /\ CallAgrees'
  <2>1. OneCall'  BY <1>1, WhoIs DEF OneCall
  <2>2. CallAgrees'  BY <1>2 DEF CallAgrees, BT!OnTheWay
  <2> QED  BY <2>1, <2>2
<1>4. CookieIsLive'  BY SoundIs DEF CallAgrees, CookieIsLive
<1>5. OneWorkspace'
  <2>1. \A c \in Tabs : \A t \in Held(c)' : home'[t] = w  OBVIOUS
  <2>2. cookie' # None => home'[cookie'] = w  OBVIOUS
  <2>3. \A c \in Tabs : fetches'[c].refresh.pc \notin {"answered", "arrived"}
    BY <1>2, WhoIs DEF BT!OnTheWay
  <2>4. IsOf(w)'  BY <2>1, <2>2, <2>3 DEF IsOf
  <2> QED  BY <2>4 DEF OneWorkspace
<1>6. ScreensAgree'  BY DEF ScreensAgree
<1>7. IsOut'  BY <1>1 DEF IsOut
<1> QED  BY <1>3, <1>4, <1>5, <1>6, <1>7, SoundNext

\* A call that has come back, when nothing is upset.
LEMMA BackIs ==
  ASSUME TabsFit, SessionTyped, Sound, NEW b \in Tabs, NEW k \in BT!Who,
         fetches[b][k].pc = "arrived"
  PROVE  LET f == fetches[b][k] IN
         /\ f.answer \in {"ok", "none", "refused", "out"}
         /\ f.answer = "refused" => f.op = "switch"
         /\ cookie = IF f.answer = "ok" THEN f.token ELSE None
         /\ f.answer = "ok" => f.token \in Minted /\ f.op \in BT!Minting /\ "out" \notin past
         /\ f.op = "refresh" <=> k = "refresh"
<1> DEFINE f == fetches[b][k]
<1>1. Way(b, k)  BY DEF Way, BT!OnTheWay
<1>2. FetchOK(b, k)  BY TypesAre
<1>3. /\ f.op = "refresh" <=> k = "refresh"
      /\ f.answer = "ok" => f.op \in BT!Minting /\ f.token \in Minted
  BY <1>2 DEF FetchOK, BT!OnTheWay
<1>4. /\ f.answer \in {"ok", "none", "refused", "out"}
      /\ f.answer = "refused" => f.op = "switch"
      /\ cookie = IF f.answer = "ok" THEN f.token ELSE None
  BY SoundIs DEF CallAgrees
<1>5. f.answer = "ok" => "out" \notin past  BY <1>1, SoundIs DEF IsOut
<1> QED  BY <1>3, <1>4, <1>5

\* What stays of a tab that is of workspace w.
LEMMA TabOfIs ==
  ASSUME TabsFit, SessionTyped, Sound, NEW w \in Workspaces, IsOf(w), NEW c \in Tabs
  PROVE  /\ \A t \in Held(c) : home[t] = w
         /\ LET f == fetches[c].user IN
              f.pc = "await" /\ ~f.told /\ ~BT!Untold(c) => f.to = w
         /\ tabs[c].screen \in Workspaces /\ ~tabs[c].leaving /\ ~BT!Untold(c) =>
              home[tabs[c].token] = tabs[c].screen
BY SoundIs DEF IsOf, ScreensAgree

LEMMA RefreshIsSound ==
  ASSUME TabsFit, SessionTyped, Sound, NEW b \in Tabs, BT!FinishRefresh(b), ~BT!Upset'
  PROVE  ~BT!Upset /\ Sound'
<1> DEFINE f == fetches[b].refresh
           u == fetches[b].user
<1>1. /\ f.pc = "arrived" /\ Way(b, "refresh") /\ queue[1] = b /\ tabs[b].state # "closed"
      /\ UNCHANGED <<cookie, home, live>>
      /\ BT!EndRefresh(b, f.token, f.answer = "ok")
      /\ tabs' \in [Tabs -> BT!Tab] /\ \A c \in Tabs : c # b => tabs'[c] = tabs[c]
  BY FinishIs
<1>2. /\ f.answer = "ok" => tabs'[b] = BT!Applied(tabs[b], f.token) /\ f.token \in Minted
                            /\ BT!Message("ACCESS_TOKEN_UPDATED", f.token) \in Messages
                            /\ BT!Tell(b, BT!Message("ACCESS_TOKEN_UPDATED", f.token))
      /\ f.answer # "ok" => tabs'[b] = BT!Cleared(tabs[b])
      /\ f.answer \notin {"ok", "lost"} =>
           /\ BT!Message("SESSION_ENDED", None) \in Messages
           /\ BT!Tell(b, BT!Message("SESSION_ENDED", None))
  BY FinishIs
<1>3. SessionTyped' /\ "refresh" \in BT!Who /\ "user" \in BT!Who  BY FinishIsTyped, WhoIs
<1>4. /\ f.answer \in {"ok", "none", "refused", "out"} /\ f.answer # "refused"
      /\ cookie = IF f.answer = "ok" THEN f.token ELSE None
      /\ f.answer = "ok" => f.token \in Minted /\ "out" \notin past
  BY <1>1, <1>3, BackIs
<1>5. PICK w \in Workspaces : IsOf(w)
  BY SoundIs DEF OneWorkspace
<1>6. f.answer = "ok" => home[f.token] = w  BY <1>1, <1>5 DEF IsOf
<1>7. (f.answer = "ok") \in BOOLEAN  OBVIOUS
<1>8. fetches[b].refresh.pc # "idle"  BY <1>1
<1>9. /\ fetches'[b].refresh = BT!Idle
      /\ fetches'[b].user = IF u.pc = "await" THEN BT!Idle ELSE u
      /\ \A c \in Tabs : c # b => fetches'[c] = fetches[c]
      /\ ~BT!Upset /\ past' = past \cup IF f.answer = "ok" /\ BT!Strays(b, f.token)
         THEN {"strayed"} ELSE {}
  BY <1>1, <1>7, <1>8, EndIs
<1>10. ~(f.answer = "ok" /\ BT!Strays(b, f.token)) /\ past' = past
  BY <1>5, <1>6, <1>9, TabOfIs DEF BT!Strays
<1>11. \A c \in Tabs : \A l \in BT!Who :
          c # b \/ l # "refresh" => fetches'[c][l] = fetches[c][l] \/ fetches'[c][l] = BT!Idle
  BY <1>9, WhoIs
<1>12. "alarm" \notin past' /\ "strayed" \notin past'  BY <1>10, SoundIs
<1>13. tabs[b] \in BT!Tab /\ tabs[b].screen \in Workspaces \cup {"sign-in", None}
  BY TypesAre DEF BT!Tab
<1>14. fetches'[b].user.pc = "await" => FALSE  BY <1>9, IdleIs
<1>15. CASE f.answer = "ok"
  <2> DEFINE m == BT!Message("ACCESS_TOKEN_UPDATED", f.token)
  <2>1. m \in Messages /\ BT!Tell(b, m) /\ m.type = "ACCESS_TOKEN_UPDATED" /\ m.token = f.token
        /\ f.token \in Minted
    BY <1>2, <1>15 DEF BT!Message
  <2> HIDE DEF m
  <2>2. tabs'[b].token = f.token /\ tabs'[b].screen = tabs[b].screen
          /\ tabs'[b].leaving = tabs[b].leaving
    BY <1>2, <1>13, <1>15, AppliedIs
  <2>3. channel'[b] = channel[b]  BY <1>1, <2>1, TellIs
  <2>4. BT!Untold(b)' <=> BT!Untold(b)  BY <2>3 DEF BT!Untold
  <2>5. \A t \in Held(b)' : home[t] = w
    <3> SUFFICES ASSUME NEW t \in Held(b)' PROVE home[t] = w
      OBVIOUS
    <3>1. t \in ToldOf(channel[b]) \/ t = f.token  BY <1>3, <2>2, <2>3, HeldNext
    <3>2. t \in ToldOf(channel[b]) => home[t] = w  BY <1>5, TabOfIs, HeldIs
    <3> QED  BY <1>6, <1>15, <3>1, <3>2
  <2>6. tabs'[b].screen \in Workspaces /\ ~tabs'[b].leaving /\ ~BT!Untold(b)'
          => home[tabs'[b].token] = tabs'[b].screen
    BY <1>5, <1>6, <1>15, <2>2, <2>4, ShownIs
  <2>7. \A c \in Tabs : c # b =>
          /\ BT!Untold(c)' <=> BT!Untold(c)
          /\ \A t \in Held(c)' : t \in Held(c) \/ t = f.token
    BY <1>1, <1>3, <2>1, TellHeld
  <2>8. \A c \in Tabs : c # b =>
          /\ \A t \in Held(c)' : home[t] = w
          /\ LET g == fetches'[c].user IN g.pc = "await" /\ ~g.told /\ ~BT!Untold(c)'
             => g.to = w
          /\ tabs'[c].screen \in Workspaces /\ ~tabs'[c].leaving /\ ~BT!Untold(c)' =>
               home[tabs'[c].token] = tabs'[c].screen
    BY <1>1, <1>5, <1>6, <1>9, <1>15, <2>7, TabOfIs
  <2>9. \A c \in Tabs :
          /\ \A t \in Held(c)' : home[t] = w
          /\ LET g == fetches'[c].user IN g.pc = "await" /\ ~g.told /\ ~BT!Untold(c)'
             => g.to = w
          /\ tabs'[c].screen \in Workspaces /\ ~tabs'[c].leaving /\ ~BT!Untold(c)' =>
               home[tabs'[c].token] = tabs'[c].screen
    BY <1>14, <2>5, <2>6, <2>8
  <2>10. cookie # None => home[cookie] = w  BY <1>4, <1>6, <1>15
  <2>11. "out" \notin past'  BY <1>4, <1>10, <1>15
  <2> HIDE DEF f, u
  <2>12. fetches[b]["refresh"].pc = "arrived" /\ fetches'[b]["refresh"] = BT!Idle
    BY <1>1, <1>9 DEF f
  <2>13. Sound'  BY <1>1, <1>3, <1>11, <1>12, <2>9, <2>10, <2>11, <2>12, EndedIsSound
  <2> QED  BY <1>9, <2>13
<1>16. CASE f.answer # "ok"
  <2> DEFINE m == BT!Message("SESSION_ENDED", None)
  <2>1. m \in Messages /\ BT!Tell(b, m) /\ m.type = "SESSION_ENDED"
    BY <1>2, <1>4, <1>16 DEF BT!Message
  <2> HIDE DEF m
  <2>2. tabs'[b].token = None /\ tabs'[b].screen \notin Workspaces
    BY <1>2, <1>13, <1>16, ClearedIs DEF TabsFit
  <2>3. channel'[b] = channel[b]  BY <1>1, <2>1, TellIs
  <2>4. BT!Untold(b)' <=> BT!Untold(b)  BY <2>3 DEF BT!Untold
  <2>5. \A t \in Held(b)' : home[t] = w
    <3> SUFFICES ASSUME NEW t \in Held(b)' PROVE home[t] = w
      OBVIOUS
    <3>1. t \in ToldOf(channel[b])  BY <1>3, <2>2, <2>3, HeldNext
    <3> QED  BY <1>5, <3>1, TabOfIs, HeldIs
  <2>7. \A c \in Tabs : c # b =>
          /\ BT!Untold(c)' <=> BT!Untold(c)
          /\ \A t \in Held(c)' : t \in Held(c)
          /\ tabs[c].state # "closed" =>
             channel'[c] # << >> /\ channel'[c][Len(channel'[c])].type = "SESSION_ENDED"
          /\ tabs[c].state = "closed" => channel'[c] = channel[c]
    BY <1>1, <1>3, <2>1, TellHeld
  <2>8. \A c \in Tabs : c # b =>
          /\ \A t \in Held(c)' : home[t] = w
          /\ LET g == fetches'[c].user IN g.pc = "await" /\ ~g.told /\ ~BT!Untold(c)'
             => g.to = w
          /\ tabs'[c].screen \in Workspaces /\ ~tabs'[c].leaving /\ ~BT!Untold(c)' =>
               home[tabs'[c].token] = tabs'[c].screen
    BY <1>1, <1>5, <1>9, <2>7, TabOfIs
  <2>9. \A c \in Tabs :
          /\ \A t \in Held(c)' : home[t] = w
          /\ LET g == fetches'[c].user IN g.pc = "await" /\ ~g.told /\ ~BT!Untold(c)'
             => g.to = w
          /\ tabs'[c].screen \in Workspaces /\ ~tabs'[c].leaving /\ ~BT!Untold(c)' =>
               home[tabs'[c].token] = tabs'[c].screen
    BY <1>14, <2>2, <2>5, <2>8
  <2>10. cookie = None  BY <1>4, <1>16
  <2>11. "out" \in past' =>
           /\ cookie = None
           /\ \A c \in Tabs :
                \/ channel'[c] = << >> /\ tabs'[c].token = None
                \/ channel'[c] # << >> /\ channel'[c][Len(channel'[c])].type = "SESSION_ENDED"
    <3> SUFFICES ASSUME "out" \in past', NEW c \in Tabs
                 PROVE  \/ channel'[c] = << >> /\ tabs'[c].token = None
                        \/ channel'[c] # << >>
                           /\ channel'[c][Len(channel'[c])].type = "SESSION_ENDED"
      BY <2>10
    <3>1. \/ channel[c] = << >> /\ tabs[c].token = None
          \/ channel[c] # << >> /\ channel[c][Len(channel[c])].type = "SESSION_ENDED"
      BY <1>10, SoundIs DEF IsOut
    <3>2. CASE c = b  BY <2>2, <2>3, <3>1, <3>2
    <3>3. CASE c # b  BY <1>1, <2>7, <3>1, <3>3
    <3> QED  BY <3>2, <3>3
  <2> HIDE DEF f, u
  <2>12. fetches[b]["refresh"].pc = "arrived" /\ fetches'[b]["refresh"] = BT!Idle
    BY <1>1, <1>9 DEF f
  <2>13. Sound'  BY <1>1, <1>3, <1>11, <1>12, <2>9, <2>10, <2>11, <2>12, EndedIsSound
  <2> QED  BY <1>9, <2>13
<1> QED  BY <1>15, <1>16

\* A call of a user ends, and crosses nothing.
LEMMA UserEnds ==
  ASSUME TabsFit, SessionTyped, Sound, NEW b \in Tabs, BT!Put(b, "user", BT!Idle),
         NEW what \in SUBSET BT!Notes,
         BT!Note(what \cup BT!Crossing(b, "user")), what \cap BT!Upsets = {}, ~BT!Upset'
  PROVE  /\ ~BT!Upset /\ past' = past \cup what
         /\ fetches'[b]["user"] = BT!Idle
         /\ \A c \in Tabs : \A l \in BT!Who :
              c # b \/ l # "user" => fetches'[c][l] = fetches[c][l] \/ fetches'[c][l] = BT!Idle
         /\ \A c \in Tabs : c # b => fetches'[c].user = fetches[c].user
<1>1. "user" \in BT!Who /\ BT!Crossing(b, "user") \in SUBSET BT!Notes  BY WhoIs, CrossingIs
<1>2. past \subseteq BT!Notes /\ fetches \in [Tabs -> [BT!Who -> CallsOfSession]]
        /\ BT!Idle \in CallsOfSession
  BY TypesAre, IdleIs
<1>3. what \cup BT!Crossing(b, "user") \in SUBSET BT!Notes  BY <1>1
<1>4. /\ ~BT!Upset /\ (what \cup BT!Crossing(b, "user")) \cap BT!Upsets = {}
      /\ past' = past \cup (what \cup BT!Crossing(b, "user"))
  BY <1>2, <1>3, NoteIs
<1>5. BT!Crossing(b, "user") \cap BT!Upsets = {}  BY <1>4
<1>6. BT!Crossing(b, "user") = {}  BY <1>1, <1>5, CrossingIs
<1>7. past' = past \cup what  BY <1>4, <1>6
<1>8. /\ fetches'[b]["user"] = BT!Idle
      /\ \A c \in Tabs : \A l \in BT!Who : c # b \/ l # "user" => fetches'[c][l] = fetches[c][l]
  BY <1>1, <1>2, PutIs
<1> QED  BY <1>1, <1>4, <1>7, <1>8

LEMMA SwitchIsSound ==
  ASSUME TabsFit, SessionTyped, Sound, NEW b \in Tabs, BT!FinishSwitch(b), ~BT!Upset'
  PROVE  ~BT!Upset /\ Sound'
<1> DEFINE f == fetches[b].user
<1>1. /\ f.pc = "arrived" /\ Way(b, "user") /\ tabs[b].state # "closed"
      /\ UNCHANGED <<cookie, home, live, queue>> /\ BT!Put(b, "user", BT!Idle)
         /\ BT!Note(BT!Crossing(b, "user"))
      /\ tabs' \in [Tabs -> BT!Tab] /\ \A c \in Tabs : c # b => tabs'[c] = tabs[c]
      /\ f.answer # "ok" => UNCHANGED <<tabs, channel>>
  BY SwitchIs
<1>2. f.answer = "ok" =>
        /\ f.token \in Minted /\ tabs'[b].state = "AUTHENTICATED" /\ tabs'[b].token = f.token
        /\ tabs'[b].screen \in Workspaces => tabs'[b].leaving
        /\ BT!Message("WORKSPACE_SWITCHED", f.token) \in Messages
        /\ BT!Tell(b, BT!Message("WORKSPACE_SWITCHED", f.token))
  BY SwitchIs
<1>3. SessionTyped' /\ "user" \in BT!Who  BY SwitchIsTyped, WhoIs
<1>4. BT!Note({} \cup BT!Crossing(b, "user"))
  <2>1. {} \cup BT!Crossing(b, "user") = BT!Crossing(b, "user")  OBVIOUS
  <2> QED  BY <1>1, <2>1
<1>5. /\ ~BT!Upset /\ past' = past
      /\ fetches'[b]["user"] = BT!Idle
      /\ \A c \in Tabs : \A l \in BT!Who :
           c # b \/ l # "user" => fetches'[c][l] = fetches[c][l] \/ fetches'[c][l] = BT!Idle
      /\ \A c \in Tabs : c # b => fetches'[c].user = fetches[c].user
  <2>1. {} \in SUBSET BT!Notes /\ {} \cap BT!Upsets = {}  OBVIOUS
  <2>2. /\ ~BT!Upset /\ past' = past \cup {}
        /\ fetches'[b]["user"] = BT!Idle
        /\ \A c \in Tabs : \A l \in BT!Who :
             c # b \/ l # "user" => fetches'[c][l] = fetches[c][l] \/ fetches'[c][l] = BT!Idle
        /\ \A c \in Tabs : c # b => fetches'[c].user = fetches[c].user
    BY <1>1, <1>4, <2>1, UserEnds
  <2> QED  BY <2>2
<1>6. /\ cookie = IF f.answer = "ok" THEN f.token ELSE None
      /\ f.answer = "ok" => f.token \in Minted /\ "out" \notin past
  BY <1>1, <1>3, BackIs
<1>7. "alarm" \notin past' /\ "strayed" \notin past'  BY <1>5, SoundIs
<1>8. fetches'[b].user.pc # "await" /\ channel[b] = << >> /\ fetches[b]["user"].pc = "arrived"
  BY <1>1, <1>3, <1>5, IdleIs, SoleIs
<1>9. CASE f.answer # "ok"
  <2>1. PICK w \in Workspaces : IsOf(w)
    BY SoundIs DEF OneWorkspace
  <2>2. cookie = None /\ tabs' = tabs /\ channel' = channel  BY <1>1, <1>6, <1>9
  <2>3. \A c \in Tabs : Held(c)' = Held(c) /\ (BT!Untold(c)' <=> BT!Untold(c))
    BY <1>1, <1>3, <2>2, HeldStays
  <2>4. \A c \in Tabs :
          /\ \A t \in Held(c)' : home[t] = w
          /\ LET g == fetches'[c].user IN g.pc = "await" /\ ~g.told /\ ~BT!Untold(c)'
             => g.to = w
          /\ tabs'[c].screen \in Workspaces /\ ~tabs'[c].leaving /\ ~BT!Untold(c)' =>
               home[tabs'[c].token] = tabs'[c].screen
    <3> SUFFICES ASSUME NEW c \in Tabs
                 PROVE  /\ \A t \in Held(c)' : home[t] = w
                        /\ LET g == fetches'[c].user IN g.pc = "await" /\ ~g.told
                           /\ ~BT!Untold(c)' => g.to = w
                        /\ tabs'[c].screen \in Workspaces /\ ~tabs'[c].leaving
                                /\ ~BT!Untold(c)' =>
                             home[tabs'[c].token] = tabs'[c].screen
      OBVIOUS
    <3>1. /\ \A t \in Held(c) : home[t] = w
          /\ LET g == fetches[c].user IN g.pc = "await" /\ ~g.told /\ ~BT!Untold(c) => g.to = w
          /\ tabs[c].screen \in Workspaces /\ ~tabs[c].leaving /\ ~BT!Untold(c) =>
               home[tabs[c].token] = tabs[c].screen
      BY <2>1, TabOfIs
    <3>2. fetches'[c].user.pc = "await" => fetches'[c].user = fetches[c].user  BY <1>5, <1>8
    <3> QED  BY <2>2, <2>3, <3>1, <3>2
  <2>5. "out" \in past' =>
           /\ cookie = None
           /\ \A c \in Tabs :
                \/ channel'[c] = << >> /\ tabs'[c].token = None
                \/ channel'[c] # << >> /\ channel'[c][Len(channel'[c])].type = "SESSION_ENDED"
    BY <1>5, <2>2, SoundIs DEF IsOut
  <2> HIDE DEF f
  <2>6. Sound'  BY <1>1, <1>3, <1>5, <1>7, <1>8, <2>2, <2>4, <2>5, EndedIsSound
  <2> QED  BY <1>5, <2>6
<1>10. CASE f.answer = "ok"
  <2> DEFINE m == BT!Message("WORKSPACE_SWITCHED", f.token)
             w == home[f.token]
  <2>1. m \in Messages /\ BT!Tell(b, m) /\ m.type = "WORKSPACE_SWITCHED" /\ m.token = f.token
        /\ f.token \in Minted /\ w \in Workspaces
    BY <1>2, <1>10, TokensAre DEF BT!Message
  <2> HIDE DEF m
  <2>2. tabs'[b].token = f.token /\ (tabs'[b].screen \in Workspaces => tabs'[b].leaving)
    BY <1>2, <1>10
  <2>3. channel'[b] = << >>  BY <1>1, <1>8, <2>1, TellIs
  <2>4. \A t \in Held(b)' : home[t] = w
    <3> SUFFICES ASSUME NEW t \in Held(b)' PROVE home[t] = w
      OBVIOUS
    <3>1. t \in ToldOf(channel'[b]) \/ t = f.token  BY <1>3, <2>2, HeldNext
    <3>2. ToldOf(channel'[b]) = {}  BY <2>3 DEF ToldOf
    <3> QED  BY <3>1, <3>2
  <2>5. \A c \in Tabs : c # b =>
          /\ \A t \in Held(c)' : t = f.token
          /\ tabs[c].state # "closed" => BT!Untold(c)'
          /\ tabs[c].state = "closed" => tabs[c] = BT!Closed
    BY <1>1, <1>3, <2>1, TellHeld
  <2>6. \A c \in Tabs : c # b =>
          /\ \A t \in Held(c)' : home[t] = w
          /\ LET g == fetches'[c].user IN g.pc = "await" /\ ~g.told /\ ~BT!Untold(c)'
             => g.to = w
          /\ tabs'[c].screen \in Workspaces /\ ~tabs'[c].leaving /\ ~BT!Untold(c)' =>
               home[tabs'[c].token] = tabs'[c].screen
    <3> SUFFICES ASSUME NEW c \in Tabs, c # b
                 PROVE  /\ \A t \in Held(c)' : home[t] = w
                        /\ LET g == fetches'[c].user IN g.pc = "await" /\ ~g.told
                           /\ ~BT!Untold(c)' => g.to = w
                        /\ tabs'[c].screen \in Workspaces /\ ~tabs'[c].leaving
                                /\ ~BT!Untold(c)' =>
                             home[tabs'[c].token] = tabs'[c].screen
      OBVIOUS
    <3>1. \A t \in Held(c)' : home[t] = w  BY <2>5
    <3>2. CASE tabs[c].state # "closed"  BY <2>5, <3>1, <3>2
    <3>3. CASE tabs[c].state = "closed"
      <4>1. tabs'[c].screen = None /\ None \notin Workspaces
        BY <1>1, <2>5, <3>3 DEF BT!Closed, TabsFit
      <4>2. fetches[c].user.pc = "idle"  BY <1>3, <3>3, TypesAre DEF TabOK, BT!At
      <4> QED  BY <1>5, <3>1, <4>1, <4>2
    <3> QED  BY <3>2, <3>3
  <2>7. \A c \in Tabs :
          /\ \A t \in Held(c)' : home[t] = w
          /\ LET g == fetches'[c].user IN g.pc = "await" /\ ~g.told /\ ~BT!Untold(c)'
             => g.to = w
          /\ tabs'[c].screen \in Workspaces /\ ~tabs'[c].leaving /\ ~BT!Untold(c)' =>
               home[tabs'[c].token] = tabs'[c].screen
    BY <1>8, <2>2, <2>4, <2>6
  <2>8. (cookie # None => home[cookie] = w) /\ "out" \notin past'  BY <1>5, <1>6, <1>10
  <2> HIDE DEF f, w
  <2>9. Sound'  BY <1>1, <1>3, <1>5, <1>7, <1>8, <2>1, <2>7, <2>8, EndedIsSound
  <2> QED  BY <1>5, <2>9
<1> QED  BY <1>9, <1>10

LEMMA OutIsSound ==
  ASSUME TabsFit, SessionTyped, Sound, NEW b \in Tabs, BT!FinishLogout(b), ~BT!Upset'
  PROVE  ~BT!Upset /\ Sound'
<1> DEFINE f == fetches[b].user
           m == BT!Message("SESSION_ENDED", None)
<1>1. /\ f.pc = "arrived" /\ Way(b, "user") /\ f.op = "logout" /\ tabs[b].state # "closed"
      /\ UNCHANGED <<cookie, home, live, queue>> /\ BT!Put(b, "user", BT!Idle)
      /\ BT!Note({"out"} \cup BT!Crossing(b, "user"))
      /\ tabs' \in [Tabs -> BT!Tab] /\ (\A c \in Tabs : c # b => tabs'[c] = tabs[c])
      /\ tabs'[b] = BT!Cleared(tabs[b]) /\ m \in Messages /\ BT!Tell(b, m)
  BY OutIs
<1>2. SessionTyped' /\ "user" \in BT!Who /\ tabs[b] \in BT!Tab  BY OutIsTyped, WhoIs, TypesAre
<1>3. /\ ~BT!Upset /\ past' = past \cup {"out"}
      /\ fetches'[b]["user"] = BT!Idle
      /\ \A c \in Tabs : \A l \in BT!Who :
           c # b \/ l # "user" => fetches'[c][l] = fetches[c][l] \/ fetches'[c][l] = BT!Idle
      /\ \A c \in Tabs : c # b => fetches'[c].user = fetches[c].user
  <2>1. {"out"} \in SUBSET BT!Notes /\ {"out"} \cap BT!Upsets = {}  BY DEF BT!Notes, BT!Upsets
  <2> QED  BY <1>1, <2>1, UserEnds
<1>4. cookie = None  BY <1>1, <1>2, BackIs DEF BT!Minting
<1>5. "alarm" \notin past' /\ "strayed" \notin past'  BY <1>3, SoundIs
<1>6. fetches'[b].user.pc # "await" /\ channel[b] = << >> /\ fetches[b]["user"].pc = "arrived"
  BY <1>1, <1>2, <1>3, IdleIs, SoleIs
<1>7. PICK w \in Workspaces : IsOf(w)
  BY SoundIs DEF OneWorkspace
<1>8. m.type = "SESSION_ENDED"  BY DEF BT!Message
<1> HIDE DEF m
<1>9. tabs'[b].token = None /\ tabs'[b].screen \notin Workspaces
  BY <1>1, <1>2, ClearedIs DEF TabsFit
<1>10. channel'[b] = << >>  BY <1>1, <1>6, <1>8, TellIs
<1>11. \A t : t \notin Held(b)'  BY <1>2, <1>9, <1>10, HeldOfNone
<1>12. \A c \in Tabs : c # b =>
         /\ BT!Untold(c)' <=> BT!Untold(c)
         /\ \A t \in Held(c)' : t \in Held(c)
         /\ tabs[c].state # "closed" =>
            channel'[c] # << >> /\ channel'[c][Len(channel'[c])].type = "SESSION_ENDED"
         /\ tabs[c].state = "closed" => channel'[c] = channel[c] /\ tabs[c] = BT!Closed
  BY <1>1, <1>2, <1>8, TellHeld
<1>13. \A c \in Tabs : c # b =>
         /\ \A t \in Held(c)' : home[t] = w
         /\ LET g == fetches'[c].user IN g.pc = "await" /\ ~g.told /\ ~BT!Untold(c)' => g.to = w
         /\ tabs'[c].screen \in Workspaces /\ ~tabs'[c].leaving /\ ~BT!Untold(c)' =>
              home[tabs'[c].token] = tabs'[c].screen
  BY <1>1, <1>3, <1>7, <1>12, TabOfIs
<1>14. \A c \in Tabs :
         /\ \A t \in Held(c)' : home[t] = w
         /\ LET g == fetches'[c].user IN g.pc = "await" /\ ~g.told /\ ~BT!Untold(c)' => g.to = w
         /\ tabs'[c].screen \in Workspaces /\ ~tabs'[c].leaving /\ ~BT!Untold(c)' =>
              home[tabs'[c].token] = tabs'[c].screen
  BY <1>6, <1>9, <1>11, <1>13
<1>15. \A c \in Tabs :
         \/ channel'[c] = << >> /\ tabs'[c].token = None
         \/ channel'[c] # << >> /\ channel'[c][Len(channel'[c])].type = "SESSION_ENDED"
  <2> SUFFICES ASSUME NEW c \in Tabs, c # b, tabs[c].state = "closed"
               PROVE  channel'[c] = << >> /\ tabs'[c].token = None
    BY <1>9, <1>10, <1>12
  <2>1. channel[c] = << >> /\ tabs[c] = BT!Closed  BY TypesAre DEF TabOK
  <2> QED  BY <1>1, <1>12, <2>1 DEF BT!Closed
<1> HIDE DEF f
<1>16. Sound'  BY <1>1, <1>2, <1>3, <1>4, <1>5, <1>6, <1>14, <1>15, EndedIsSound
<1> QED  BY <1>3, <1>16

-----------------------------------------------------------------------------
(* The invariant holds.                                                    *)

LEMMA InitIsSound ==
  ASSUME TabsFit, BT!Init
  PROVE  SessionInvariant
<1>1. PICK w \in Workspaces, n \in {None, 1}, max \in {ManyTokens, FewTokens} :
        /\ cookie = n /\ live = {n} \ {None}
        /\ home = [t \in 1 .. max |-> IF t = n THEN w ELSE None]
  BY DEF BT!Init
<1>2. /\ queue = << >> /\ channel = [b \in Tabs |-> << >>] /\ tabs = [b \in Tabs |-> BT!Closed]
      /\ fetches = [b \in Tabs |-> [k \in BT!Who |-> BT!Idle]] /\ past = {}
  BY DEF BT!Init
<1>3. max \in Nat \ {0} /\ None \notin Nat /\ None \notin Workspaces  BY DEF TabsFit
<1>4. /\ DOMAIN home = 1 .. max /\ 1 \in 1 .. max /\ HomeTyped
      /\ \A t \in 1 .. max : home[t] # None <=> t = n
  <2>1. DOMAIN home = 1 .. max /\ 1 \in 1 .. max  BY <1>1, <1>3
  <2>2. home \in [1 .. max -> Workspaces \cup {None}]  BY <1>1
  <2>3. \A t \in 1 .. max : home[t] # None <=> t = n  BY <1>1, <1>3
  <2> QED  BY <2>1, <2>2, <2>3 DEF HomeTyped
<1>5. Minted = {n} \ {None}  BY <1>3, <1>4 DEF Minted, BT!Fresh, BT!Tokens
<1>6. \A b \in Tabs : /\ channel[b] = << >> /\ tabs[b] = BT!Closed
                      /\ \A k \in BT!Who : fetches[b][k] = BT!Idle /\ fetches[b][k].pc = "idle"
  BY <1>2, IdleIs
<1>7. BT!Closed \in BT!Tab /\ BT!Idle \in CallsOfSession
  BY IdleIs DEF BT!Closed, BT!Tab, BT!States
<1>8. \A b \in Tabs : TabOK(b) /\ ChannelOK(b)
  <2> SUFFICES ASSUME NEW b \in Tabs PROVE TabOK(b) /\ ChannelOK(b)
    OBVIOUS
  <2>1. /\ BT!Closed.token = None /\ BT!Closed.screen = None /\ BT!Closed.state = "closed"
        /\ tabs[b] = BT!Closed /\ channel[b] = << >> /\ \A k \in BT!Who : BT!At(b, k, "idle")
    BY <1>6 DEF BT!Closed, BT!At
  <2>2. TabOK(b)  BY <1>3, <2>1 DEF TabOK
  <2>3. ChannelOK(b)  BY <2>1 DEF ChannelOK
  <2> QED  BY <2>2, <2>3
<1>9. \A b \in Tabs : \A k \in BT!Who : FetchOK(b, k)
  BY <1>6 DEF FetchOK, BT!Idle, BT!OnTheWay, TabsFit, BT!States, BT!Reasons, BT!SessionOps
<1>10. QueueOK
  <2>1. DOMAIN queue = {}  BY <1>2
  <2> QED  BY <1>6, <2>1, WhoIs DEF QueueOK, BT!At, BT!OnTheWay
<1>11. SessionTyped
  <2>1. cookie \in Minted \cup {None} /\ live \subseteq Minted  BY <1>1, <1>5
  <2>2. queue \in Seq(Tabs) /\ channel \in [Tabs -> Seq(Messages)] /\ past \subseteq BT!Notes
    BY <1>2
  <2>3. tabs \in [Tabs -> BT!Tab] /\ fetches \in [Tabs -> [BT!Who -> CallsOfSession]]
    BY <1>2, <1>7
  <2> QED  BY <1>4, <1>8, <1>9, <1>10, <2>1, <2>2, <2>3 DEF SessionTyped
<1>12. OneCall /\ CallAgrees /\ CookieIsLive
  <2>1. OneCall  BY <1>6 DEF OneCall, Way, BT!OnTheWay
  <2>2. CallAgrees  BY <1>6 DEF CallAgrees
  <2>3. CookieIsLive  BY <1>1 DEF CookieIsLive
  <2> QED  BY <2>1, <2>2, <2>3
<1>13. OneWorkspace
  <2>1. \A b \in Tabs : Held(b) = {}
    <3> SUFFICES ASSUME NEW b \in Tabs PROVE Held(b) = {}
      OBVIOUS
    <3>1. BT!Closed.token = None /\ None \notin Minted  BY <1>5 DEF BT!Closed
    <3>2. tabs[b].token \notin Minted /\ DOMAIN channel[b] = {}  BY <1>6, <3>1
    <3> QED  BY <3>2 DEF Held
  <2>2. cookie # None => home[cookie] = w  BY <1>1, <1>3, <1>4
  <2>3. IsOf(w)  BY <1>6, <2>1, <2>2, WhoIs DEF IsOf
  <2> QED  BY <2>3 DEF OneWorkspace
<1>14. ScreensAgree  BY <1>3, <1>6 DEF ScreensAgree, BT!Closed
<1>15. IsOut /\ "alarm" \notin past /\ "strayed" \notin past  BY <1>2 DEF IsOut
<1> QED  BY <1>11, <1>12, <1>13, <1>14, <1>15 DEF SessionInvariant, Sound

\* What has upset a session has done so for good.
LEMMA UpsetStays ==
  ASSUME BT!Upset, BT!Next
  PROVE  BT!Upset'
<1>1. ASSUME NEW what, past' = BT!Noted(what) \/ past' = BT!Noted(what) \ {"out"}
               \/ past' = BT!Noted(what) \ {}
      PROVE  BT!Upset'
  <2>1. BT!Noted(what) = past  BY DEF BT!Noted
  <2> QED  BY <1>1, <2>1 DEF BT!Upset, BT!Upsets
<1>2. past' = past => BT!Upset'  BY DEF BT!Upset
<1>3. \A what : BT!Note(what) => BT!Upset'  BY <1>1 DEF BT!Note
<1>4. PICK b \in Tabs : BT!Step(b)
  BY DEF BT!Next
<1>5. ASSUME NEW k \in BT!Who, BT!HandleSelect(b, k) \/ BT!HandleLogout(b, k)
                                  \/ BT!ReadToken(b, k)
                               \/ BT!ClaimToken(b, k) \/ BT!Arrive(b, k) \/ BT!Lose(b, k)
      PROVE  BT!Upset'
  <2>1. CASE BT!HandleSelect(b, k)  BY <1>2, <2>1 DEF BT!HandleSelect
  <2>2. CASE BT!HandleLogout(b, k)  BY <1>2, <2>2 DEF BT!HandleLogout
  <2>3. CASE BT!ReadToken(b, k)  BY <1>2, <1>3, <2>3 DEF BT!ReadToken
  <2>4. CASE BT!ClaimToken(b, k)  BY <1>2, <2>4 DEF BT!ClaimToken
  <2>5. CASE BT!Arrive(b, k)  BY <1>2, <2>5 DEF BT!Arrive
  <2>6. CASE BT!Lose(b, k)  BY <1>3, <2>6 DEF BT!Lose
  <2> QED  BY <1>5, <2>1, <2>2, <2>3, <2>4, <2>5, <2>6
<1>6. ASSUME BT!AdoptToken(b) \/ BT!PostRefresh(b) \/ BT!FinishRefresh(b) \/ BT!FinishSwitch(b)
             \/ BT!FinishLogout(b) \/ BT!Hear(b)
      PROVE  BT!Upset'
  <2>1. CASE BT!AdoptToken(b)  BY <1>2, <1>3, <2>1 DEF BT!AdoptToken, BT!EndRefresh
  <2>2. CASE BT!PostRefresh(b)  BY <1>3, <2>2 DEF BT!PostRefresh
  <2>3. CASE BT!FinishRefresh(b)  BY <1>2, <1>3, <2>3 DEF BT!FinishRefresh, BT!EndRefresh
  <2>4. CASE BT!FinishSwitch(b)  BY <1>3, <2>4 DEF BT!FinishSwitch
  <2>5. CASE BT!FinishLogout(b)  BY <1>3, <2>5 DEF BT!FinishLogout
  <2>6. CASE BT!Hear(b)  BY <1>2, <2>6 DEF BT!Hear
  <2> QED  BY <1>6, <2>1, <2>2, <2>3, <2>4, <2>5, <2>6
<1>7. ASSUME BT!Act(b)
      PROVE  BT!Upset'
  <2>1. CASE BT!Bootstrap(b) \/ BT!Close(b)
    BY <1>3, <2>1 DEF BT!Bootstrap, BT!Close, BT!Abandon
  <2>2. CASE BT!Navigate(b) \/ BT!ProactiveRefresh(b) \/ BT!BeginLogin(b)
               \/ BT!BeginWorkspaceSwitch(b)
             \/ BT!CancelSelection(b) \/ BT!RetryRequest(b)
    BY <1>2, <2>2 DEF BT!Navigate, BT!ProactiveRefresh, BT!BeginLogin, BT!BeginWorkspaceSwitch,
         BT!CancelSelection, BT!RetryRequest
  <2>3. ASSUME NEW w \in Workspaces, BT!SwitchWorkspace(b, w)
        PROVE  BT!Upset'
    BY <1>1, <2>3 DEF BT!SwitchWorkspace
  <2>4. ASSUME NEW w \in Workspaces, BT!AcceptInvitation(b, w)
        PROVE  BT!Upset'
    BY <1>1, <2>4 DEF BT!AcceptInvitation
  <2>5. CASE BT!Logout(b)  BY <1>3, <2>5 DEF BT!Logout
  <2> QED  BY <1>7, <2>1, <2>2, <2>3, <2>4, <2>5 DEF BT!Act
<1> QED  BY <1>4, <1>5, <1>6, <1>7 DEF BT!Step, BT!Proceed

\* Every step keeps the types, and what is sound unless it upsets the session.
LEMMA StepIsSound ==
  ASSUME TabsFit, SessionTyped, BT!Next
  PROVE  SessionTyped' /\ (Sound => Sound' \/ BT!Upset')
<1> PICK b \in Tabs : BT!Step(b)
  BY DEF BT!Next
<1>1. ASSUME NEW k \in BT!Who, BT!HandleSelect(b, k) \/ BT!HandleLogout(b, k)
                                  \/ BT!ReadToken(b, k)
                               \/ BT!ClaimToken(b, k) \/ BT!Arrive(b, k) \/ BT!Lose(b, k)
      PROVE  SessionTyped' /\ (Sound => Sound' \/ BT!Upset')
  <2>1. CASE BT!HandleSelect(b, k)  BY <2>1, SelectIsTyped, SelectIsSound
  <2>2. CASE BT!HandleLogout(b, k)  BY <2>2, LogoutIsTyped, LogoutIsSound
  <2>3. CASE BT!ReadToken(b, k)  BY <2>3, ReadIsTyped, ReadIsSound
  <2>4. CASE BT!ClaimToken(b, k)  BY <2>4, ClaimIsTyped, ClaimIsSound
  <2>5. CASE BT!Arrive(b, k)  BY <2>5, ArriveIsTyped, ArriveIsSound
  <2>6. CASE BT!Lose(b, k)  BY <2>6, LoseIsTyped
  <2> QED  BY <1>1, <2>1, <2>2, <2>3, <2>4, <2>5, <2>6
<1>2. ASSUME BT!AdoptToken(b) \/ BT!PostRefresh(b) \/ BT!FinishRefresh(b) \/ BT!FinishSwitch(b)
             \/ BT!FinishLogout(b) \/ BT!Hear(b)
      PROVE  SessionTyped' /\ (Sound => Sound' \/ BT!Upset')
  <2>1. CASE BT!AdoptToken(b)  BY <2>1, AdoptIsTyped, AdoptIsSound
  <2>2. CASE BT!PostRefresh(b)  BY <2>2, PostIs, PostIsSound
  <2>3. CASE BT!FinishRefresh(b)  BY <2>3, FinishIsTyped, RefreshIsSound
  <2>4. CASE BT!FinishSwitch(b)  BY <2>4, SwitchIsTyped, SwitchIsSound
  <2>5. CASE BT!FinishLogout(b)  BY <2>5, OutIsTyped, OutIsSound
  <2>6. CASE BT!Hear(b)  BY <2>6, HearIsTyped, HearIsSound
  <2> QED  BY <1>2, <2>1, <2>2, <2>3, <2>4, <2>5, <2>6
<1>3. ASSUME BT!Act(b)
      PROVE  SessionTyped' /\ (Sound => Sound' \/ BT!Upset')
  <2>1. CASE BT!Bootstrap(b) \/ BT!Close(b)  BY <2>1, BootIs, CloseIs, BootIsSound
  <2>2. CASE BT!Navigate(b) \/ BT!BeginLogin(b) \/ BT!BeginWorkspaceSwitch(b)
               \/ BT!CancelSelection(b)
    BY <2>2, ShowingIsTyped, ShowingIsSound
  <2>3. CASE BT!ProactiveRefresh(b)  BY <2>3, ProactiveIs, ProactiveIsSound
  <2>4. CASE BT!RetryRequest(b)  BY <2>4, RetryIs, RetryIsSound
  <2>5. ASSUME NEW w \in Workspaces, BT!SwitchWorkspace(b, w)
        PROVE  SessionTyped' /\ (Sound => Sound' \/ BT!Upset')
    BY <2>5, SessionChooseIsTyped, ChooseIsSound
  <2>6. ASSUME NEW w \in Workspaces, BT!AcceptInvitation(b, w)
        PROVE  SessionTyped' /\ (Sound => Sound' \/ BT!Upset')
    BY <2>6, AcceptIsTyped, AcceptIsSound
  <2>7. CASE BT!Logout(b)  BY <2>7, LeaveIsTyped, LeaveIsSound
  <2> QED  BY <1>3, <2>1, <2>2, <2>3, <2>4, <2>5, <2>6, <2>7 DEF BT!Act
<1> QED  BY <1>1, <1>2, <1>3 DEF BT!Step, BT!Proceed

LEMMA SessionStays ==
  ASSUME TabsFit, SessionInvariant, [BT!Next]_(BT!vars)
  PROVE  SessionInvariant'
<1>1. CASE BT!Next  BY <1>1, StepIsSound, UpsetStays DEF SessionInvariant
<1>2. CASE UNCHANGED BT!vars
  <2>1. SessionTyped'
    BY <1>2 DEF SessionInvariant, SessionTyped, BT!vars, HomeTyped, Minted, BT!Fresh,
                BT!Tokens, BT!Tab, TabOK, BT!At,
         ChannelOK, FetchOK, QueueOK
  <2>2. BT!Upset' <=> BT!Upset  BY <1>2 DEF BT!vars, BT!Upset
  <2>3. \A b \in Tabs : Held(b)' = Held(b) /\ (BT!Untold(b)' <=> BT!Untold(b))
    BY <1>2, <2>1, HeldStays DEF SessionInvariant, BT!vars
  <2>4. OneWorkspace => OneWorkspace'  BY <1>2, <2>3 DEF OneWorkspace, IsOf, BT!vars, Turning
  <2>5. ScreensAgree => ScreensAgree'  BY <1>2, <2>3 DEF ScreensAgree, BT!vars
  <2>6. /\ OneCall => OneCall'
        /\ CallAgrees => CallAgrees'
        /\ CookieIsLive => CookieIsLive'
        /\ IsOut => IsOut'
    BY <1>2 DEF OneCall, CallAgrees, CookieIsLive, IsOut, Way, BT!vars
  <2>7. Sound => Sound'  BY <1>2, <2>4, <2>5, <2>6, SoundIs, SoundNext DEF BT!vars
  <2> QED  BY <2>1, <2>2, <2>7 DEF SessionInvariant
<1> QED  BY <1>1, <1>2

LEMMA SessionImplies ==
  ASSUME TabsFit, SessionInvariant
  PROVE  BT!TypesHold /\ BT!TabsFollowTheSwitch /\ BT!HonestTabsRaiseNoAlarm
           /\ BT!LogoutEndsTheSession
<1>1. SessionTyped /\ (BT!Upset \/ Sound)  BY DEF SessionInvariant
<1>2. BT!TypesHold
  <2>1. cookie \in BT!Tokens \cup {None} /\ live \subseteq BT!Tokens \ BT!Fresh
    BY <1>1, TypesAre DEF Minted
  <2>2. \E max \in {ManyTokens, FewTokens} : home \in [1 .. max -> Workspaces \cup {None}]
    BY <1>1, TypesAre DEF HomeTyped
  <2>3. tabs \in [Tabs -> BT!Tab] /\ \A b \in Tabs : tabs[b].screen \in Workspaces
          => tabs[b].token # None
    BY <1>1, TypesAre DEF TabOK
  <2>4. \A i, j \in DOMAIN queue : queue[i] = queue[j] => i = j  BY <1>1, QueueIs
  <2>5. past \subseteq BT!Notes  BY <1>1, TypesAre
  <2> QED  BY <2>1, <2>2, <2>3, <2>4, <2>5 DEF BT!TypesHold
<1>3. BT!TabsFollowTheSwitch
  <2>1. Sound => "strayed" \notin past /\ ScreensAgree  BY SoundIs
  <2> QED  BY <1>1, <2>1 DEF BT!TabsFollowTheSwitch, ScreensAgree, BT!Open
<1>4. BT!HonestTabsRaiseNoAlarm
  <2> SUFFICES ASSUME Sound, BT!Under = {}, cookie # None
               PROVE  cookie \in live
    BY <1>1, SoundIs DEF BT!HonestTabsRaiseNoAlarm
  <2>1. \A b \in Tabs : \A k \in BT!Who : fetches[b][k].pc # "answered"
    <3> SUFFICES ASSUME NEW b \in Tabs, NEW k \in BT!Who, fetches[b][k].pc = "answered"
                 PROVE  FALSE
      OBVIOUS
    <3>1. fetches[b][k].pc \in BT!OnTheWay  BY DEF BT!OnTheWay
    <3>2. fetches[b][k].op \in BT!SessionOps  BY <1>1, <3>1, TypesAre DEF FetchOK
    <3>3. <<b, k>> \in BT!Under  BY <3>1, <3>2 DEF BT!Under
    <3> QED  BY <3>3
  <2> QED  BY <2>1, SoundIs DEF CookieIsLive
<1>5. BT!LogoutEndsTheSession
  <2> SUFFICES ASSUME "out" \in past, Sound
               PROVE  cookie = None /\ \A b \in BT!Open : tabs[b].token = None \/ BT!WillEnd(b)
    BY <1>1 DEF BT!LogoutEndsTheSession
  <2>1. /\ cookie = None
        /\ \A b \in Tabs :
             \/ channel[b] = << >> /\ tabs[b].token = None
             \/ channel[b] # << >> /\ channel[b][Len(channel[b])].type = "SESSION_ENDED"
    BY SoundIs DEF IsOut
  <2>2. ASSUME NEW b \in Tabs, channel[b] # << >>,
                 channel[b][Len(channel[b])].type = "SESSION_ENDED"
        PROVE  BT!WillEnd(b)
    <3>1. channel[b] \in Seq(Messages)  BY <1>1, TypesAre
    <3>2. Len(channel[b]) \in DOMAIN channel[b]  BY <2>2, <3>1
    <3> QED  BY <2>2, <3>2 DEF BT!WillEnd
  <2> QED  BY <2>1, <2>2 DEF BT!Open
<1> QED  BY <1>2, <1>3, <1>4, <1>5

-----------------------------------------------------------------------------
(* A page at rest tells the truth, and sends what was meant (Pages).       *)

-----------------------------------------------------------------------------
(* Sequences of requests.                                                  *)

LEMMA PartsAre == PG!Parts = {"list", "leads", "contacts", "items", "work", "detail", "billing",
                    "health", "client"}
BY DEF PG!Parts, PG!Lists, PG!Forms

\* Short sequences that are joined.
LEMMA Joined ==
  ASSUME NEW x, NEW y, NEW z, NEW w
  PROVE  /\ << >> \o << >> = << >>
         /\ <<x>> \o << >> = <<x>>
         /\ << >> \o <<x>> = <<x>>
         /\ <<x>> \o <<y>> = <<x, y>>
         /\ <<x, y>> \o << >> = <<x, y>>
         /\ <<x>> \o <<y, z>> = <<x, y, z>>
         /\ <<x, y>> \o <<z, w>> = <<x, y, z, w>>
<1> DEFINE S == {x, y, z, w}
<1>1. /\ << >> \in Seq(S) /\ <<x>> \in Seq(S) /\ <<y>> \in Seq(S) /\ <<x, y>> \in Seq(S)
      /\ <<y, z>> \in Seq(S) /\ <<z, w>> \in Seq(S)
  OBVIOUS
<1>2. << >> \o << >> = << >> /\ <<x>> \o << >> = <<x>> /\ << >> \o <<x>> = <<x>>
      /\ <<x, y>> \o << >> = <<x, y>>
  BY <1>1, ConcatEmptySeq
<1>3. <<x>> \o <<y>> = <<x, y>>
  <2>1. <<x>> \o <<y>> \in Seq(S) /\ <<x, y>> \in Seq(S) /\ Len(<<x>> \o <<y>>) = 2
          /\ Len(<<x, y>>) = 2
    BY <1>1, ConcatProperties
  <2>2. \A i \in 1 .. 2 : (<<x>> \o <<y>>)[i] = <<x, y>>[i]  BY <1>1, ConcatProperties
  <2> QED  BY <2>1, <2>2, SeqEqual
<1>4. <<x>> \o <<y, z>> = <<x, y, z>>
  <2>1. /\ <<x>> \o <<y, z>> \in Seq(S) /\ <<x, y, z>> \in Seq(S)
        /\ Len(<<x>> \o <<y, z>>) = 3 /\ Len(<<x, y, z>>) = 3
    BY <1>1, ConcatProperties
  <2>2. \A i \in 1 .. 3 : (<<x>> \o <<y, z>>)[i] = <<x, y, z>>[i]  BY <1>1, ConcatProperties
  <2> QED  BY <2>1, <2>2, SeqEqual
<1>5. <<x, y>> \o <<z, w>> = <<x, y, z, w>>
  <2>1. /\ <<x, y>> \o <<z, w>> \in Seq(S) /\ <<x, y, z, w>> \in Seq(S)
        /\ Len(<<x, y>> \o <<z, w>>) = 4 /\ Len(<<x, y, z, w>>) = 4
    BY <1>1, ConcatProperties
  <2>2. \A i \in 1 .. 4 : (<<x, y>> \o <<z, w>>)[i] = <<x, y, z, w>>[i]
    BY <1>1, ConcatProperties
  <2> QED  BY <2>1, <2>2, SeqEqual
<1> QED  BY <1>2, <1>3, <1>4, <1>5

LEMMA Unions == ASSUME NEW x, NEW y, NEW z PROVE
  /\ UNION {<< >>[k] : k \in DOMAIN << >>} = {}
  /\ UNION {<<x>>[k] : k \in DOMAIN <<x>>} = x
  /\ UNION {<<x, y, z>>[k] : k \in DOMAIN <<x, y, z>>} = x \cup y \cup z
OBVIOUS

-----------------------------------------------------------------------------
(* The scripts of the pages.                                               *)

\* Parts that any script of a page without a panel of a client may read, and that its
\* last request may.
Plain == SUBSET (PG!Parts \ {"client", "work"})
Final == IF page = "work" THEN SUBSET (PG!Parts \ {"client"}) ELSE Plain

LEMMA PlainRequests ==
  /\ {"act"} \in Requests
  /\ \A p \in Plain : p \in Requests /\ p # {"act"} /\ "client" \notin p /\ "work" \notin p
                      /\ p \in SUBSET PG!Parts /\ p \in Final
  /\ \A p \in Final : p \in Requests /\ p # {"act"} /\ "client" \notin p
                      /\ ("work" \in p => page = "work") /\ p \in SUBSET PG!Parts
BY PartsAre DEF Plain, Final, Requests

LEMMA ScriptOfOne ==
  ASSUME page # "contacts", NEW p \in Final
  PROVE  Script(<<p>>) /\ <<p>>[1] # {"act"}
BY PlainRequests DEF Script

LEMMA ScriptOfTwo ==
  ASSUME page # "contacts", NEW p \in Plain, NEW q \in Final
  PROVE  Script(<<p, q>>) /\ <<p, q>>[1] # {"act"}
BY PlainRequests DEF Script

LEMMA ScriptOfThree ==
  ASSUME page # "contacts", NEW p \in Plain, NEW q \in Plain, NEW r \in Final
  PROVE  Script(<<p, q, r>>) /\ <<p, q, r>>[1] # {"act"}
BY PlainRequests DEF Script

LEMMA ScriptOfAct ==
  ASSUME page # "contacts"
  PROVE  Script(<<{"act"}>>)
BY PlainRequests DEF Script

LEMMA ScriptOfActAndOne ==
  ASSUME page # "contacts", NEW p \in Final
  PROVE  Script(<<{"act"}, p>>)
BY PlainRequests DEF Script

\* Those of the page of contacts.
LEMMA ScriptsOfContacts ==
  ASSUME page = "contacts"
  PROVE  /\ Script(<<{"client"}>>)
         /\ Script(<<{"detail"}, {"client"}>>)
         /\ Script(<<{"list"}, {"detail"}, {"client"}>>)
         /\ Script(<<{"act"}, {"list"}, {"detail"}, {"client"}>>)
<1>1. {"act"} \in Requests /\ {"list"} \in Requests /\ {"detail"} \in Requests
        /\ {"client"} \in Requests
  BY PartsAre DEF Requests
<1>2. Script(<<{"client"}>>)  BY <1>1 DEF Script
<1>3. Script(<<{"detail"}, {"client"}>>)  BY <1>1 DEF Script
<1>4. Script(<<{"list"}, {"detail"}, {"client"}>>)  BY <1>1 DEF Script
<1>5. Script(<<{"act"}, {"list"}, {"detail"}, {"client"}>>)  BY <1>1 DEF Script
<1> QED  BY <1>2, <1>3, <1>4, <1>5

\* What a control has its handler ask for, and what is read again.
Asks(a, p) ==
  /\ a.then \in Seq(SUBSET PG!Parts) /\ a.tail \in Seq(SUBSET PG!Parts)
  /\ Script(Order(a)) /\ Len(Order(a)) > Len(a.tail)
  /\ PG!ReadAgain(a) = p
  /\ (\E k \in DOMAIN Order(a) : "detail" \in Order(a)[k]) => "detail" \in p
  /\ \A q \in PG!ReadAgain(a) : \E k \in DOMAIN Order(a) : k > 1 /\ q \in Order(a)[k]

LEMMA NoReading ==
  ASSUME page # "contacts", NEW a, a.then = << >>, a.tail = << >>
  PROVE  Asks(a, {})
<1>1. Order(a) = <<{"act"}>> /\ a.then \o a.tail = << >>  BY Joined DEF Order
<1>2. PG!ReadAgain(a) = {}  BY <1>1, Unions DEF PG!ReadAgain
<1>3. a.then \in Seq(SUBSET PG!Parts) /\ a.tail \in Seq(SUBSET PG!Parts) /\ Len(a.tail) = 0
        /\ Len(<<{"act"}>>) = 1
  OBVIOUS
<1>4. \A k \in DOMAIN <<{"act"}>> : "detail" \notin <<{"act"}>>[k]  OBVIOUS
<1> QED  BY <1>1, <1>2, <1>3, <1>4, ScriptOfAct DEF Asks

LEMMA ReadingOnce ==
  ASSUME page # "contacts", NEW p \in Final, NEW a,
         \/ a.then = <<p>> /\ a.tail = << >>
         \/ a.then = << >> /\ a.tail = <<p>>
  PROVE  Asks(a, p)
<1>1. Order(a) = <<{"act"}, p>> /\ a.then \o a.tail = <<p>>  BY Joined DEF Order
<1>2. PG!ReadAgain(a) = p
  <2>1. UNION {<<p>>[k] : k \in DOMAIN <<p>>} = p  BY Unions
  <2> QED  BY <1>1, <2>1 DEF PG!ReadAgain
<1>3. p \in SUBSET PG!Parts  BY PlainRequests
<1>4. a.then \in Seq(SUBSET PG!Parts) /\ a.tail \in Seq(SUBSET PG!Parts) /\ Len(a.tail) < 2
      /\ Len(<<{"act"}, p>>) = 2
  <2>1. <<p>> \in Seq(SUBSET PG!Parts) /\ << >> \in Seq(SUBSET PG!Parts) /\ Len(<<p>>) = 1
          /\ Len(<< >>) = 0
        /\ Len(<<{"act"}, p>>) = 2
    BY <1>3
  <2>2. CASE a.then = <<p>> /\ a.tail = << >>  BY <2>1, <2>2
  <2>3. CASE a.then = << >> /\ a.tail = <<p>>  BY <2>1, <2>3
  <2> QED  BY <2>2, <2>3
<1>5. \A k \in DOMAIN <<{"act"}, p>> : "detail" \in <<{"act"}, p>>[k] => "detail" \in p  OBVIOUS
<1>6. \A q \in p : 2 \in DOMAIN <<{"act"}, p>> /\ q \in <<{"act"}, p>>[2]  OBVIOUS
<1>7. Script(Order(a)) /\ Len(Order(a)) > Len(a.tail)
  <2>1. Script(<<{"act"}, p>>)  BY ScriptOfActAndOne
  <2> QED  BY <1>1, <1>4, <2>1
<1>8. \A q \in PG!ReadAgain(a) : \E k \in DOMAIN Order(a) : k > 1 /\ q \in Order(a)[k]
  BY <1>1, <1>2, <1>6
<1> QED  BY <1>1, <1>2, <1>4, <1>5, <1>7, <1>8 DEF Asks

\* A page of one part, which each of its controls reads again.
Ordinary(a, p) ==
  /\ a.name \in ControlNames /\ a.flag \in {"none", "own", "row", "one"}
  /\ a.on \in PG!Parts \cup {"page", None}
  /\ a.then = <<p>> /\ a.tail = << >>
  /\ a.flag = "row" => page \in {"client", "work"} /\ a.name = "update" /\ a.on \in PG!Forms
  /\ page \in {"client", "work"} => a.flag # "one" /\ (a.flag = "row" \/ a.on = "detail")

LEMMA PageOfOnePart ==
  ASSUME page \notin {"contacts", "leads", "pipelines", "reports"}, NEW p \in Final,
         PG!P.opens = <<p>>, PG!P.picks = << >>, PG!P.tells = TRUE,
         page \in PG!OneState => p = {"list"},
         \A a \in PG!P.controls : Ordinary(a, p)
  PROVE  PageOK
<1>1. Script(PG!P.opens) /\ PG!P.opens[1] # {"act"}  BY ScriptOfOne
<1>2. \A a \in PG!P.controls : Asks(a, p)  BY ReadingOnce DEF Ordinary
<1>3. \A a \in PG!P.controls : ControlOK(a)  BY <1>2 DEF Ordinary, ControlOK, Asks
<1>4. \A a \in PG!P.controls : PG!ReadAgain(a) = p  BY <1>2 DEF Asks
<1>5. 1 \in DOMAIN <<p>> /\ <<p>>[1] = p  OBVIOUS
<1> QED  BY <1>1, <1>3, <1>4, <1>5 DEF PageOK

LEMMA PagesAreOK ==
  ASSUME PagesFit, page \in PG!Names
  PROVE  PageOK
<1>1. CASE page = "client"
  <2>1. /\ PG!P.opens = <<{"detail", "items"}>> /\ PG!P.picks = << >> /\ PG!P.tells = TRUE
        /\ \A a \in PG!P.controls : Ordinary(a, {"detail", "items"})
    BY <1>1, PartsAre DEF PG!P, PG!Page, PG!Control, Ordinary, ControlNames, PG!Forms,
                          PG!ClientDetailPage, PG!ClientLoad,
                PG!RowForm, PG!ActivateForm, PG!PaymentForm, PG!ScopeForm
  <2>2. {"detail", "items"} \in Final  BY <1>1, PartsAre DEF Plain, Final
  <2> QED  BY <1>1, <2>1, <2>2, PageOfOnePart DEF PG!OneState
<1>2. CASE page = "work"
  <2>1. /\ PG!P.opens = <<{"detail", "work"}>> /\ PG!P.picks = << >> /\ PG!P.tells = TRUE
        /\ \A a \in PG!P.controls : Ordinary(a, {"detail", "work"})
    BY <1>2, PartsAre DEF PG!P, PG!Page, PG!Control, Ordinary, ControlNames, PG!Forms,
                          PG!ClientDetailPage, PG!ClientLoad,
                PG!RowForm, PG!ActivateForm, PG!PaymentForm, PG!ScopeForm
  <2>2. {"detail", "work"} \in Final  BY <1>2, PartsAre DEF Plain, Final
  <2> QED  BY <1>2, <2>1, <2>2, PageOfOnePart DEF PG!OneState
<1>3. CASE page = "billing"
  <2>1. /\ PG!P.opens = <<{"billing"}>> /\ PG!P.picks = << >> /\ PG!P.tells = TRUE
        /\ \A a \in PG!P.controls : Ordinary(a, {"billing"})
    BY <1>3, PartsAre DEF PG!P, PG!Page, PG!Control, Ordinary, ControlNames, PG!Forms,
                          PG!BillingCard
  <2>2. {"billing"} \in Final  BY <1>3, PartsAre DEF Plain, Final
  <2> QED  BY <1>3, <2>1, <2>2, PageOfOnePart DEF PG!OneState
<1>4. CASE page = "health"
  <2>1. /\ PG!P.opens = <<{"health"}>> /\ PG!P.picks = << >> /\ PG!P.tells = TRUE
        /\ \A a \in PG!P.controls : Ordinary(a, {"health"})
    BY <1>4, PartsAre DEF PG!P, PG!Page, PG!Control, Ordinary, ControlNames, PG!Forms,
                          PG!ClientHealthTab, PG!HealthForms
  <2>2. {"health"} \in Final  BY <1>4, PartsAre DEF Plain, Final
  <2> QED  BY <1>4, <2>1, <2>2, PageOfOnePart DEF PG!OneState
<1>5. CASE page = "contacts"
  <2> DEFINE L == <<{"list"}>>
             D == <<{"detail"}, {"client"}>>
             O == <<{"act"}, {"list"}, {"detail"}, {"client"}>>
  <2>1. PG!P = PG!Page(L \o D, D, {}, FALSE, {PG!CreateContactForm, PG!ConvertForm})
    BY <1>5 DEF PG!P, PG!ContactsPage, PG!ContactSelect
  <2>2. L \o D = <<{"list"}, {"detail"}, {"client"}>> /\ <<{"act"}>> \o L \o D = O
    <3>1. <<{"list"}>> \o <<{"detail"}, {"client"}>> = <<{"list"}, {"detail"}, {"client"}>>
      BY Joined
    <3>2. <<{"act"}>> \o <<{"list"}>> = <<{"act"}, {"list"}>>  BY Joined
    <3>3. <<{"act"}, {"list"}>> \o <<{"detail"}, {"client"}>> = <<{"act"}, {"list"}, {"detail"},
            {"client"}>>
      <4> DEFINE x == {"act"}  y == {"list"}  z == {"detail"}  w == {"client"}
      <4> HIDE DEF x, y, z, w
      <4>1. <<x, y>> \o <<z, w>> = <<x, y, z, w>>  BY Joined
      <4> QED  BY <4>1 DEF x, y, z, w
    <3> QED  BY <3>1, <3>2, <3>3
  <2>3. PG!P.opens = <<{"list"}, {"detail"}, {"client"}>> /\ PG!P.picks = D
          /\ PG!P.tells = FALSE
        /\ PG!P.controls = {PG!CreateContactForm, PG!ConvertForm}
    BY <2>1, <2>2 DEF PG!Page
  <2>4. Script(<<{"list"}, {"detail"}, {"client"}>>) /\ Script(D) /\ Script(O)
    BY <1>5, ScriptsOfContacts
  <2>5. /\ <<{"list"}, {"detail"}, {"client"}>>[1] # {"act"} /\ D[1] # {"act"} /\ D # << >>
        /\ 2 \in DOMAIN <<{"list"}, {"detail"}, {"client"}>>
        /\ "detail" \in <<{"list"}, {"detail"}, {"client"}>>[2]
        /\ 1 \in DOMAIN D /\ "detail" \in D[1]
    OBVIOUS
  <2>6. \A a \in PG!P.controls :
          /\ a.name \in {"create", "convert"} /\ a.flag \in {"none", "own"} /\ a.then = L
             /\ a.tail = D
          /\ a.on = "detail" \/ (a.on = None /\ a.name = "create")
    BY <2>3 DEF PG!CreateContactForm, PG!ConvertForm, PG!Control, PG!ContactSelect
  <2>7. \A a \in PG!P.controls : Order(a) = O  BY <2>2, <2>6 DEF Order
  <2>8. L \o D = <<{"list"}, {"detail"}, {"client"}>>
        /\ UNION {(L \o D)[k] : k \in DOMAIN (L \o D)} = {"list", "detail", "client"}
    <3>1. UNION {<<{"list"}, {"detail"}, {"client"}>>[k] : k \in DOMAIN <<{"list"}, {"detail"},
            {"client"}>>}
          = {"list"} \cup {"detail"} \cup {"client"}
      BY Unions
    <3> QED  BY <2>2, <3>1
  <2>9. \A a \in PG!P.controls : PG!ReadAgain(a) = {"list", "detail", "client"}
    BY <2>6, <2>8 DEF PG!ReadAgain
  <2>10. L \in Seq(SUBSET PG!Parts) /\ D \in Seq(SUBSET PG!Parts) /\ Len(D) = 2 /\ Len(O) = 4
    BY PartsAre
  <2>11. \A p \in {"list", "detail", "client"} : \E k \in DOMAIN O : k > 1 /\ p \in O[k]
    <3>1. 2 \in DOMAIN O /\ 3 \in DOMAIN O /\ 4 \in DOMAIN O /\ "list" \in O[2]
            /\ "detail" \in O[3]
          /\ "client" \in O[4]
      OBVIOUS
    <3> QED  BY <3>1
  <2> HIDE DEF L, D, O
  <2>12. ASSUME NEW a \in PG!P.controls PROVE ControlOK(a)
    <3>1. Order(a) = O /\ PG!ReadAgain(a) = {"list", "detail", "client"} /\ a.then = L
            /\ a.tail = D
      BY <2>6, <2>7, <2>9
    <3>2. a.name \in ControlNames /\ a.flag \in {"none", "own"}  BY <2>6 DEF ControlNames
    <3>3. a.on = "detail" \/ (a.on = None /\ a.name = "create")  BY <2>6
    <3>4. a.on \in PG!Parts \cup {"page", None}  BY <3>3, PartsAre
    <3>5. Script(Order(a)) /\ Len(Order(a)) > Len(a.tail)
      <4>1. Script(Order(a))  BY <2>4, <3>1
      <4>2. Len(Order(a)) = 4 /\ Len(a.tail) = 2  BY <2>10, <3>1
      <4> QED  BY <4>1, <4>2
    <3>6. \A p \in PG!ReadAgain(a) : \E k \in DOMAIN Order(a) : k > 1 /\ p \in Order(a)[k]
      BY <2>11, <3>1
    <3> QED  BY <1>5, <2>10, <3>1, <3>2, <3>3, <3>4, <3>5, <3>6 DEF ControlOK
  <2> QED
    BY <1>5, <2>3, <2>4, <2>5, <2>9, <2>12 DEF PageOK, PG!Cards, PG!Dismissible, PG!OneState
<1>6. CASE page = "leads"
  <2>1. /\ PG!P.opens = <<{"leads"}, {"list"}, {"detail"}>> /\ PG!P.picks = <<{"detail"}>>
           /\ PG!P.tells = TRUE
        /\ PG!P.controls =
         {PG!Control("create", "own", "list", <<{"leads"}>>, << >>)}
    BY <1>6 DEF PG!P, PG!Page, PG!LeadsPage, PG!LeadForm
  <2>2. {"detail"} \in Plain /\ {"detail"} \in Final /\ {"leads"} \in Plain
          /\ {"leads"} \in Final /\ {"list"} \in Plain /\ {"list"} \in Final
    BY <1>6, PartsAre DEF Plain, Final
  <2>3. Script(<<{"leads"}, {"list"}, {"detail"}>>) /\ <<{"leads"}, {"list"},
          {"detail"}>>[1] # {"act"}
    BY <1>6, <2>2, ScriptOfThree
  <2>4. Script(<<{"detail"}>>) /\ <<{"detail"}>>[1] # {"act"}  BY <1>6, <2>2, ScriptOfOne
  <2>5. /\ 3 \in DOMAIN <<{"leads"}, {"list"}, {"detail"}>> /\ "detail" \in <<{"leads"},
           {"list"}, {"detail"}>>[3]
        /\ 1 \in DOMAIN <<{"detail"}>> /\ "detail" \in <<{"detail"}>>[1]
    OBVIOUS
  <2>6. \A a \in PG!P.controls :
          /\ a.name \in ControlNames /\ a.flag \in {"own"}
          /\ a.on \in {"list"}
          /\ a.then = <<{"leads"}>> /\ a.tail = << >>
    BY <2>1 DEF PG!Control, ControlNames, PG!Forms
  <2>7. \A a \in PG!P.controls : Asks(a, {"leads"})  BY <1>6, <2>2, <2>6, ReadingOnce
  <2>8. \A a \in PG!P.controls : ControlOK(a)
    BY <1>6, <2>1, <2>6, <2>7, PartsAre DEF ControlOK, Asks
  <2>9. \A a, b \in PG!P.controls : PG!ReadAgain(a) = PG!ReadAgain(b)  BY <2>7 DEF Asks
  <2> QED
    BY <1>6, <2>1, <2>3, <2>4, <2>5, <2>8, <2>9 DEF PageOK, PG!Cards, PG!Dismissible,
                                                    PG!OneState
<1>7. CASE page = "offers"
  <2>1. /\ PG!P.opens = <<{"list"}>> /\ PG!P.picks = << >> /\ PG!P.tells = TRUE
        /\ \A a \in PG!P.controls : Ordinary(a, {"list"})
    BY <1>7, PartsAre DEF PG!P, PG!Page, PG!Control, Ordinary, ControlNames, PG!Forms,
                          PG!OffersPage, PG!OfferForm, PG!LifecycleForm
  <2>2. {"list"} \in Final  BY <1>7, PartsAre DEF Plain, Final
  <2> QED  BY <1>7, <2>1, <2>2, PageOfOnePart DEF PG!OneState
<1>8. CASE page = "team"
  <2>1. /\ PG!P.opens = <<{"list"}>> /\ PG!P.picks = << >> /\ PG!P.tells = TRUE
        /\ \A a \in PG!P.controls : Ordinary(a, {"list"})
    BY <1>8, PartsAre DEF PG!P, PG!Page, PG!Control, Ordinary, ControlNames, PG!Forms,
                          PG!TeamPage, PG!InviteForm, PG!MemberForm
  <2>2. {"list"} \in Final  BY <1>8, PartsAre DEF Plain, Final
  <2> QED  BY <1>8, <2>1, <2>2, PageOfOnePart DEF PG!OneState
<1>9. CASE page = "approvals"
  <2>1. /\ PG!P.opens = <<{"list"}>> /\ PG!P.picks = << >> /\ PG!P.tells = TRUE
        /\ \A a \in PG!P.controls : Ordinary(a, {"list"})
    BY <1>9, PartsAre DEF PG!P, PG!Page, PG!Control, Ordinary, ControlNames, PG!Forms,
                          PG!ApprovalsPage, PG!ResolveForm
  <2>2. {"list"} \in Final  BY <1>9, PartsAre DEF Plain, Final
  <2> QED  BY <1>9, <2>1, <2>2, PageOfOnePart DEF PG!OneState
<1>10. CASE page = "agent"
  <2>1. /\ PG!P.opens = <<{"list"}>> /\ PG!P.picks = << >> /\ PG!P.tells = TRUE
        /\ PG!P.controls =
         {PG!Control("run", "own", "list", << >>, << >>)}
    BY <1>10 DEF PG!P, PG!Page, PG!AgentConsole, PG!RunForm
  <2>2. {"list"} \in Plain /\ {"list"} \in Final  BY <1>10, PartsAre DEF Plain, Final
  <2>3. Script(<<{"list"}>>) /\ <<{"list"}>>[1] # {"act"}  BY <1>10, <2>2, ScriptOfOne
  <2>6. \A a \in PG!P.controls :
          /\ a.name \in ControlNames /\ a.flag \in {"own"}
          /\ a.on \in {"list"}
          /\ a.then = << >> /\ a.tail = << >>
    BY <2>1 DEF PG!Control, ControlNames, PG!Forms
  <2>7. \A a \in PG!P.controls : Asks(a, {})  BY <1>10, <2>6, NoReading
  <2>8. \A a \in PG!P.controls : ControlOK(a)
    BY <1>10, <2>1, <2>6, <2>7, PartsAre DEF ControlOK, Asks
  <2>9. \A a, b \in PG!P.controls : PG!ReadAgain(a) = PG!ReadAgain(b)  BY <2>7 DEF Asks
  <2> QED
    BY <1>10, <2>1, <2>3, <2>7, <2>8, <2>9 DEF PageOK, PG!Cards, PG!Dismissible, PG!OneState,
                                               Asks
<1>11. CASE page = "pipelines"
  <2>1. /\ PG!P.opens = <<{"list"}, {"detail"}, {"contacts"}>> /\ PG!P.picks = <<{"detail"}>>
           /\ PG!P.tells = FALSE
        /\ PG!P.controls =
         {PG!Control("create", "none", "detail", << >>, <<{"detail"}>>),
          PG!Control("move", "none", "detail", << >>, <<{"detail"}>>)}
    BY <1>11 DEF PG!P, PG!Page, PG!PipelinesPage, PG!CreateOppForm, PG!MoveOppForm
  <2>2. {"contacts"} \in Plain /\ {"contacts"} \in Final /\ {"detail"} \in Plain
          /\ {"detail"} \in Final /\ {"list"} \in Plain /\ {"list"} \in Final
    BY <1>11, PartsAre DEF Plain, Final
  <2>3. Script(<<{"list"}, {"detail"}, {"contacts"}>>) /\ <<{"list"}, {"detail"},
          {"contacts"}>>[1] # {"act"}
    BY <1>11, <2>2, ScriptOfThree
  <2>4. Script(<<{"detail"}>>) /\ <<{"detail"}>>[1] # {"act"}  BY <1>11, <2>2, ScriptOfOne
  <2>5. /\ 2 \in DOMAIN <<{"list"}, {"detail"}, {"contacts"}>> /\ "detail" \in <<{"list"},
           {"detail"}, {"contacts"}>>[2]
        /\ 1 \in DOMAIN <<{"detail"}>> /\ "detail" \in <<{"detail"}>>[1]
    OBVIOUS
  <2>6. \A a \in PG!P.controls :
          /\ a.name \in ControlNames /\ a.flag \in {"none"}
          /\ a.on \in {"detail"}
          /\ a.then = << >> /\ a.tail = <<{"detail"}>>
    BY <2>1 DEF PG!Control, ControlNames, PG!Forms
  <2>7. \A a \in PG!P.controls : Asks(a, {"detail"})  BY <1>11, <2>2, <2>6, ReadingOnce
  <2>8. \A a \in PG!P.controls : ControlOK(a)
    BY <1>11, <2>1, <2>6, <2>7, PartsAre DEF ControlOK, Asks
  <2>9. \A a, b \in PG!P.controls : PG!ReadAgain(a) = PG!ReadAgain(b)  BY <2>7 DEF Asks
  <2> QED
    BY <1>11, <2>1, <2>3, <2>4, <2>5, <2>8, <2>9 DEF PageOK, PG!Cards, PG!Dismissible,
                                                     PG!OneState
<1>12. CASE page = "reports"
  <2>1. /\ PG!P.opens = <<{"list"}, {"detail"}>> /\ PG!P.picks = <<{"detail"}, {"list"},
           {"detail"}>> /\ PG!P.tells = TRUE
        /\ PG!P.controls =
         {}
    BY <1>12, Joined DEF PG!P, PG!Page, PG!ReportsPage
  <2>2. {"detail"} \in Plain /\ {"detail"} \in Final /\ {"list"} \in Plain /\ {"list"} \in Final
    BY <1>12, PartsAre DEF Plain, Final
  <2>3. Script(<<{"list"}, {"detail"}>>) /\ <<{"list"}, {"detail"}>>[1] # {"act"}
    BY <1>12, <2>2, ScriptOfTwo
  <2>4. Script(<<{"detail"}, {"list"}, {"detail"}>>) /\ <<{"detail"}, {"list"},
          {"detail"}>>[1] # {"act"}
    BY <1>12, <2>2, ScriptOfThree
  <2>5. /\ 2 \in DOMAIN <<{"list"}, {"detail"}>> /\ "detail" \in <<{"list"}, {"detail"}>>[2]
        /\ 1 \in DOMAIN <<{"detail"}, {"list"}, {"detail"}>> /\ "detail" \in <<{"detail"},
           {"list"}, {"detail"}>>[1]
    OBVIOUS
  <2> QED  BY <1>12, <2>1, <2>3, <2>4, <2>5 DEF PageOK, PG!Cards, PG!Dismissible, PG!OneState
<1>13. CASE page = "dashboard"
  <2>1. /\ PG!P.opens = <<{"list"}>> /\ PG!P.picks = << >> /\ PG!P.tells = TRUE
        /\ \A a \in PG!P.controls : Ordinary(a, {"list"})
    BY <1>13, PartsAre DEF PG!P, PG!Page, PG!Control, Ordinary, ControlNames, PG!Forms,
                           PG!Dashboard
  <2>2. {"list"} \in Final  BY <1>13, PartsAre DEF Plain, Final
  <2> QED  BY <1>13, <2>1, <2>2, PageOfOnePart DEF PG!OneState
<1>14. CASE page = "marketing"
  <2>1. /\ PG!P.opens = <<{"list"}>> /\ PG!P.picks = << >> /\ PG!P.tells = TRUE
        /\ \A a \in PG!P.controls : Ordinary(a, {"list"})
    BY <1>14, PartsAre DEF PG!P, PG!Page, PG!Control, Ordinary, ControlNames, PG!Forms,
                           PG!MarketingDashboardPage
  <2>2. {"list"} \in Final  BY <1>14, PartsAre DEF Plain, Final
  <2> QED  BY <1>14, <2>1, <2>2, PageOfOnePart DEF PG!OneState
<1> QED
  BY <1>1, <1>2, <1>3, <1>4, <1>5, <1>6, <1>7, <1>8, <1>9, <1>10, <1>11, <1>12, <1>13,
     <1>14 DEF PG!Names

-----------------------------------------------------------------------------
(* What is left of a script.                                               *)

LEMMA TailOf ==
  ASSUME NEW t \in Seq(Requests), t # << >>
  PROVE  /\ Tail(t) \in Seq(Requests) /\ Len(Tail(t)) = Len(t) - 1 /\ Head(t) = t[1]
         /\ Len(t) \in Nat /\ Len(t) >= 1 /\ 1 \in DOMAIN t
         /\ DOMAIN t = 1 .. Len(t) /\ DOMAIN Tail(t) = 1 .. Len(Tail(t))
         /\ \A k \in DOMAIN Tail(t) : k + 1 \in DOMAIN t /\ Tail(t)[k] = t[k + 1]
OBVIOUS

LEMMA ScriptIs ==
  ASSUME NEW t, Script(t)
  PROVE  /\ t \in Seq(Requests) /\ t # << >>
         /\ \A k \in DOMAIN t : k \in Nat /\ k >= 1 /\ t[k] \in Requests
         /\ \A k \in DOMAIN t : t[k] # {"act"} => t[k] \in SUBSET PG!Parts
BY DEF Script, Requests

LEMMA ScriptTail ==
  ASSUME NEW t, Script(t), Tail(t) # << >>
  PROVE  Script(Tail(t))
<1>1. t \in Seq(Requests) /\ t # << >>  BY DEF Script
<1>2. /\ Tail(t) \in Seq(Requests) /\ Len(Tail(t)) = Len(t) - 1
      /\ Len(t) \in Nat /\ DOMAIN t = 1 .. Len(t) /\ DOMAIN Tail(t) = 1 .. Len(Tail(t))
      /\ \A k \in DOMAIN Tail(t) : k + 1 \in DOMAIN t /\ Tail(t)[k] = t[k + 1]
  BY <1>1, TailOf
<1> DEFINE u == Tail(t)
<1>4. DOMAIN u = 1 .. Len(u) /\ Len(u) \in Nat  BY <1>2
<1> HIDE DEF u
<1>3. ASSUME NEW k \in DOMAIN u
      PROVE  /\ u[k] = {"act"} => k = 1
             /\ "work" \in u[k] => page = "work" /\ k = Len(u)
             /\ page # "contacts" => "client" \notin u[k]
             /\ page = "contacts" =>
                  /\ "detail" \in u[k] =>
                     u[k] = {"detail"} /\ k + 1 = Len(u) /\ u[k + 1] = {"client"}
                  /\ "client" \in u[k] =>
                     u[k] = {"client"} /\ k = Len(u) /\ (k > 1 => u[k - 1] = {"detail"})
                  /\ "list" \in u[k] =>
                     u[k] = {"list"} /\ k + 2 = Len(u) /\ u[k + 1] = {"detail"}
  <2>1. k \in Nat /\ k >= 1 /\ k <= Len(u) /\ k + 1 \in DOMAIN t /\ u[k] = t[k + 1]
          /\ Len(u) = Len(t) - 1
        /\ Len(t) \in Nat
    BY <1>2 DEF u
  <2>2. k + 1 = Len(u) \/ k + 2 = Len(u) => u[k + 1] = t[(k + 1) + 1]
    <3>1. k + 1 = Len(u) \/ k + 2 = Len(u) => k + 1 \in DOMAIN u  BY <1>4, <2>1
    <3>2. k + 1 \in DOMAIN u => u[k + 1] = t[(k + 1) + 1]  BY <1>2 DEF u
    <3> QED  BY <3>1, <3>2
  <2>3. k > 1 => u[k - 1] = t[(k + 1) - 1]  BY <1>2, <2>1 DEF u
  <2>4. /\ t[k + 1] = {"act"} => k + 1 = 1
        /\ "work" \in t[k + 1] => page = "work" /\ k + 1 = Len(t)
        /\ page # "contacts" => "client" \notin t[k + 1]
        /\ page = "contacts" =>
             /\ "detail" \in t[k + 1] =>
                t[k + 1] = {"detail"} /\ (k + 1) + 1 = Len(t) /\ t[(k + 1) + 1] = {"client"}
             /\ "client" \in t[k + 1] => t[k + 1] = {"client"} /\ k + 1 = Len(t)
                                         /\ (k + 1 > 1 => t[(k + 1) - 1] = {"detail"})
             /\ "list" \in t[k + 1] =>
                t[k + 1] = {"list"} /\ (k + 1) + 2 = Len(t) /\ t[(k + 1) + 1] = {"detail"}
    BY <2>1 DEF Script
  <2> QED  BY <2>1, <2>2, <2>3, <2>4
<1> QED  BY <1>2, <1>3 DEF Script, u

LEMMA PageStays ==
  ASSUME page' = page
  PROVE  /\ PG!P' = PG!P /\ \A t : Script(t)' <=> Script(t)
         /\ \A p, r : PG!Seen(p, r)' = PG!Seen(p, r)
BY DEF PG!P, Script, PG!Seen

\* What a handler goes on with.
Remains(c, rest) ==
  /\ rest \in Seq(Requests) /\ (rest # << >> => Script(rest))
  /\ Len(rest) <= Len(calls[c].todo)
  /\ \A k \in DOMAIN rest : rest[k] # {"act"}
  /\ calls[c].name = "left" => rest = << >>

LEMMA TailRemains ==
  ASSUME NEW c, HandlerOK(c)
  PROVE  Remains(c, Tail(calls[c].todo))
<1> DEFINE t == calls[c].todo
<1>1. Script(t)  BY DEF HandlerOK
<1> HIDE DEF t
<1>2. t \in Seq(Requests) /\ t # << >> /\ \A k \in DOMAIN t : t[k] = {"act"} => k = 1
  BY <1>1 DEF Script
<1>3. /\ Tail(t) \in Seq(Requests) /\ Len(Tail(t)) = Len(t) - 1 /\ Len(t) \in Nat
      /\ DOMAIN Tail(t) = 1 .. Len(Tail(t))
      /\ \A k \in DOMAIN Tail(t) : k + 1 \in DOMAIN t /\ Tail(t)[k] = t[k + 1]
  BY <1>2, TailOf
<1>4. \A k \in DOMAIN Tail(t) : Tail(t)[k] # {"act"}  BY <1>2, <1>3
<1>5. Tail(t) # << >> => Script(Tail(t))  BY <1>1, ScriptTail
<1>6. Len(Tail(t)) <= Len(t)  BY <1>3
<1>7. calls[c].name = "left" => Tail(t) = << >>
  <2>1. calls[c].name = "left" => t = <<{"act"}>>  BY DEF HandlerOK, Left, t
  <2>2. Tail(<<{"act"}>>) = << >>  OBVIOUS
  <2> QED  BY <2>1, <2>2
<1> QED  BY <1>3, <1>4, <1>5, <1>6, <1>7 DEF Remains, t

LEMMA AfterIs ==
  ASSUME NEW c, HandlerOK(c)
  PROVE  \/ PG!After(c) = Tail(calls[c].todo)
         \/ /\ PG!After(c) = << >> /\ page = "contacts"
            /\ Head(calls[c].todo) = {"detail"} /\ Tail(calls[c].todo) = <<{"client"}>>
<1> DEFINE t == calls[c].todo
<1>1. Script(t)  BY DEF HandlerOK
<1>2. PG!After(c) = Tail(t) \/ (PG!After(c) = Tail(Tail(t)) /\ Head(t) = {"detail"}
        /\ page = "contacts")
  BY DEF PG!After
<1> HIDE DEF t
<1>3. ASSUME Head(t) = {"detail"}, page = "contacts"
      PROVE  Tail(t) = <<{"client"}>> /\ Tail(Tail(t)) = << >>
  <2>1. t \in Seq(Requests) /\ t # << >>  BY <1>1 DEF Script
  <2>2. /\ Tail(t) \in Seq(Requests) /\ Len(Tail(t)) = Len(t) - 1 /\ Head(t) = t[1]
           /\ 1 \in DOMAIN t
        /\ Len(t) \in Nat /\ DOMAIN Tail(t) = 1 .. Len(Tail(t))
        /\ \A k \in DOMAIN Tail(t) : k + 1 \in DOMAIN t /\ Tail(t)[k] = t[k + 1]
    BY <2>1, TailOf
  <2>3. "detail" \in t[1]  BY <1>3, <2>2
  <2>4. 1 + 1 = Len(t) /\ t[1 + 1] = {"client"}  BY <1>1, <1>3, <2>2, <2>3 DEF Script
  <2> DEFINE u == Tail(t)
  <2>5. /\ u \in Seq(Requests) /\ Len(u) = Len(t) - 1 /\ DOMAIN u = 1 .. Len(u)
        /\ \A k \in DOMAIN u : u[k] = t[k + 1]
    BY <2>2
  <2> HIDE DEF u
  <2>6. Len(u) = 1 /\ u[1] = {"client"}
    <3>1. Len(u) = 1  BY <2>2, <2>4, <2>5
    <3>2. 1 \in DOMAIN u  BY <2>5, <3>1
    <3> QED  BY <2>4, <2>5, <3>1, <3>2
  <2>7. u = <<{"client"}>>
    <3>1. {"client"} \in Requests  BY PartsAre DEF Requests
    <3>2. <<{"client"}>> \in Seq(Requests) /\ Len(<<{"client"}>>) = 1
            /\ <<{"client"}>>[1] = {"client"}
      BY <3>1
    <3> DEFINE v == <<{"client"}>>
    <3> HIDE DEF v
    <3>3. \A i \in 1 .. Len(u) : u[i] = v[i]  BY <2>6, <3>2 DEF v
    <3> QED  BY <2>5, <2>6, <3>2, <3>3, SeqEqual DEF v
  <2>8. Tail(u) = << >>  BY <2>7
  <2> QED  BY <2>7, <2>8 DEF u
<1> QED  BY <1>2, <1>3 DEF t

LEMMA RemainsOf ==
  ASSUME NEW c, HandlerOK(c)
  PROVE  Remains(c, << >>) /\ Remains(c, PG!After(c)) /\ Remains(c, PG!AfterFailure(c))
<1> DEFINE t == calls[c].todo
<1>1. Script(t)  BY DEF HandlerOK
<1> HIDE DEF t
<1>2. t \in Seq(Requests) /\ t # << >>  BY <1>1 DEF Script
<1>3. Len(t) \in Nat /\ Len(t) >= 1 /\ Head(t) = t[1] /\ 1 \in DOMAIN t  BY <1>2, TailOf
<1>4. Remains(c, << >>)  BY <1>3 DEF Remains, t
<1>5. Remains(c, Tail(t))  BY TailRemains DEF t
<1>6. Remains(c, PG!After(c))  BY <1>4, <1>5, AfterIs DEF t
<1>7. Remains(c, PG!AfterFailure(c))
  <2>1. \/ PG!AfterFailure(c) = << >> \/ PG!AfterFailure(c) = Tail(t)
        \/ page = "contacts" /\ Head(t) = {"list"} /\ PG!AfterFailure(c) = <<{"detail"},
           {"client"}>>
        \/ page = "pipelines" /\ PG!AfterFailure(c) = <<{"contacts"}>>
    BY DEF PG!AfterFailure, PG!ContactSelect, t
  <2>2. ASSUME page = "contacts", Head(t) = {"list"}
        PROVE  Remains(c, <<{"detail"}, {"client"}>>)
    <3>1. Script(<<{"detail"}, {"client"}>>)  BY <2>2, ScriptsOfContacts
    <3>2. "list" \in t[1]  BY <1>3, <2>2
    <3>3. 1 + 2 = Len(t)  BY <1>1, <1>3, <2>2, <3>2 DEF Script
    <3>4. \A k \in DOMAIN <<{"detail"}, {"client"}>> : <<{"detail"}, {"client"}>>[k] # {"act"}
      OBVIOUS
    <3>5. Len(<<{"detail"}, {"client"}>>) = 2 /\ <<{"detail"}, {"client"}>> \in Seq(Requests)
      BY <3>1 DEF Script
    <3>6. calls[c].name # "left"  BY <2>2 DEF HandlerOK, Left, PG!Cards
    <3> QED  BY <3>1, <3>3, <3>4, <3>5, <3>6 DEF Remains, t
  <2>3. ASSUME page = "pipelines" PROVE Remains(c, <<{"contacts"}>>)
    <3>1. {"contacts"} \in Final  BY <2>3, PartsAre DEF Final, Plain
    <3>2. Script(<<{"contacts"}>>)  BY <2>3, <3>1, ScriptOfOne
    <3>3. \A k \in DOMAIN <<{"contacts"}>> : <<{"contacts"}>>[k] # {"act"}  OBVIOUS
    <3>4. Len(<<{"contacts"}>>) = 1 /\ <<{"contacts"}>> \in Seq(Requests)  BY <3>2 DEF Script
    <3>5. calls[c].name # "left"  BY <2>3 DEF HandlerOK, Left, PG!Cards
    <3> QED  BY <1>3, <3>2, <3>3, <3>4, <3>5 DEF Remains, t
  <2> QED  BY <1>4, <1>5, <2>1, <2>2, <2>3
<1> QED  BY <1>4, <1>6, <1>7

-----------------------------------------------------------------------------
(* What the steps do to the handlers.                                      *)

LEMMA IdleIsTyped == PG!Idle \in Handlers
BY DEF PG!Idle, Handlers

LEMMA HandlerStays ==
  ASSUME page' = page, NEW d, calls'[d] = calls[d], HandlerOK(d)
  PROVE  HandlerOK(d)'
BY PageStays DEF HandlerOK, Acts, Submits, Left

LEMMA AtWorkIs == ASSUME NEW c \in PG!AtWork PROVE c \in Pair /\ calls[c].pc # "idle"
BY DEF PG!AtWork

\* A handler that goes on, or is over.
LEMMA GoOnStep ==
  ASSUME ScreensTyped, page' = page, NEW c \in PG!AtWork, NEW rest, Remains(c, rest),
         PG!GoOn(c, rest)
  PROVE  /\ calls' \in [Pair -> Handlers] /\ busy' \subseteq Flags /\ loading' \in BOOLEAN
         /\ \A d \in Pair : d # c => calls'[d] = calls[d]
         /\ rest = << >> => PG!AtWork' = PG!AtWork \ {c}
         /\ rest # << >> =>
              /\ PG!AtWork' = PG!AtWork
              /\ calls'[c].pc = "sent" /\ calls'[c].todo = rest
                 /\ calls'[c].name = calls[c].name
              /\ calls'[c].row = calls[c].row /\ calls'[c].flag = calls[c].flag
              /\ calls'[c].tail = calls[c].tail
         /\ \A d \in PG!AtWork' : HandlerOK(d)'
<1> DEFINE f == calls[c]
           new == IF rest = << >> THEN PG!Idle ELSE [f EXCEPT !.pc = "sent", !.todo = rest,
             !.got = None]
<1>1. c \in Pair /\ f \in Handlers /\ calls \in [Pair -> Handlers] /\ f.pc # "idle"
        /\ HandlerOK(c)
  BY AtWorkIs DEF ScreensTyped
<1>2. new \in Handlers
  <2>1. rest \in Seq(Requests)  BY DEF Remains
  <2>2. [f EXCEPT !.pc = "sent", !.todo = rest, !.got = None] \in Handlers
    BY <1>1, <2>1 DEF Handlers
  <2> QED  BY <2>2, IdleIsTyped
<1>3. /\ rest = << >> => new.pc = "idle"
      /\ rest # << >> => new.pc = "sent" /\ new.todo = rest /\ new.name = f.name
                            /\ new.row = f.row
                         /\ new.flag = f.flag /\ new.tail = f.tail
  BY <1>1 DEF PG!Idle, Handlers
<1>4. calls' = [calls EXCEPT ![c] = new]  BY DEF PG!GoOn, PG!Turn
<1> HIDE DEF new
<1>5. calls' \in [Pair -> Handlers] /\ calls'[c] = new /\ \A d \in Pair : d # c
        => calls'[d] = calls[d]
  BY <1>1, <1>2, <1>4
<1>6. PG!AtWork' = {d \in Pair : calls'[d].pc # "idle"}  BY DEF PG!AtWork
<1>7. /\ rest = << >> => PG!AtWork' = PG!AtWork \ {c}
      /\ rest # << >> => PG!AtWork' = PG!AtWork
  BY <1>1, <1>3, <1>5, <1>6 DEF PG!AtWork
<1>8. busy' \subseteq Flags /\ loading' \in BOOLEAN  BY DEF PG!GoOn, PG!Lowered, ScreensTyped
<1>9. ASSUME NEW d \in PG!AtWork' PROVE HandlerOK(d)'
  <2>1. CASE d # c
    <3>1. d \in PG!AtWork /\ calls'[d] = calls[d]  BY <1>5, <1>7, <2>1, AtWorkIs
    <3>2. HandlerOK(d)  BY <3>1 DEF ScreensTyped
    <3> QED  BY <3>1, <3>2, HandlerStays
  <2>2. CASE d = c
    <3>1. rest # << >>  BY <1>7, <2>2
    <3>2. calls'[c].pc = "sent" /\ calls'[c].todo = rest /\ calls'[c].row = f.row
            /\ calls'[c].name = f.name
          /\ calls'[c].flag = f.flag
      BY <1>3, <1>5, <3>1
    <3>3. Script(rest) /\ \A k \in DOMAIN rest : rest[k] # {"act"}  BY <3>1 DEF Remains
    <3>4. Head(rest) # {"act"}  BY <3>1, <3>3, TailOf, ScriptIs
    <3>5. f.row \in Rows /\ (f.name \in {"open", "pick"} => f.flag = None)
          /\ f.flag \in FlagsFor(f.row) \cup {None}
      BY <1>1 DEF HandlerOK
    <3>6. f.name # "left"  BY <3>1 DEF Remains
    <3> QED  BY <2>2, <3>2, <3>3, <3>4, <3>5, <3>6, PageStays DEF HandlerOK, Acts
  <2> QED  BY <2>1, <2>2
<1> QED  BY <1>3, <1>5, <1>7, <1>8, <1>9

\* A handler that starts.
LEMMA StartStep ==
  ASSUME ScreensTyped, page' = page, NEW c \in Pair, PG!Free(c), NEW f \in Handlers,
         PG!Turn(c, f),
         f.pc = "sent", f.row \in Rows, Script(f.todo), f.name \in {"open", "pick"}
           => f.flag = None,
         f.flag \in FlagsFor(f.row) \cup {None}, f.name # "left",
         Head(f.todo) = {"act"} =>
           \E a \in PG!P.controls :
             /\ f.name = a.name /\ f.flag = PG!Flag(a, f.row)
             /\ f.todo = Order(a) /\ f.tail = Len(a.tail)
  PROVE  /\ calls' \in [Pair -> Handlers] /\ calls'[c] = f /\ c \notin PG!AtWork
         /\ \A d \in Pair : d # c => calls'[d] = calls[d]
         /\ PG!AtWork' = PG!AtWork \cup {c}
         /\ \A d \in PG!AtWork' : HandlerOK(d)'
<1>1. calls \in [Pair -> Handlers] /\ calls' = [calls EXCEPT ![c] = f] /\ calls[c].pc = "idle"
  BY DEF ScreensTyped, PG!Turn, PG!Free
<1>2. calls' \in [Pair -> Handlers] /\ calls'[c] = f /\ \A d \in Pair : d # c
        => calls'[d] = calls[d]
  BY <1>1
<1>3. PG!AtWork' = {d \in Pair : calls'[d].pc # "idle"}  BY DEF PG!AtWork
<1>4. PG!AtWork' = PG!AtWork \cup {c} /\ c \notin PG!AtWork  BY <1>1, <1>2, <1>3 DEF PG!AtWork
<1>5. ASSUME NEW d \in PG!AtWork' PROVE HandlerOK(d)'
  <2>1. CASE d # c
    <3>1. d \in PG!AtWork /\ calls'[d] = calls[d]  BY <1>2, <1>4, <2>1, AtWorkIs
    <3> QED  BY <3>1, HandlerStays DEF ScreensTyped
  <2>2. CASE d = c  BY <1>2, <2>2, PageStays DEF HandlerOK, Acts, Submits
  <2> QED  BY <2>1, <2>2
<1> QED  BY <1>2, <1>4, <1>5

\* A request that is carried out.
LEMMA ServeStep ==
  ASSUME PagesFit, ScreensTyped, page' = page, NEW c \in Pair, PG!Serve(c)
  PROVE  /\ calls' \in [Pair -> Handlers] /\ c \in PG!AtWork /\ PG!AtWork' = PG!AtWork
         /\ \A d \in Pair : d # c => calls'[d] = calls[d]
         /\ calls[c].pc = "sent" /\ calls'[c].pc = "served" /\ calls'[c].todo = calls[c].todo
         /\ calls'[c].name = calls[c].name /\ calls'[c].row = calls[c].row
         /\ calls'[c].flag = calls[c].flag /\ calls'[c].tail = calls[c].tail
         /\ ~Acts(c) => calls'[c].got = PG!Reading(c)
         /\ \A d \in PG!AtWork' : HandlerOK(d)'
<1> DEFINE f == calls[c]
           r == [f EXCEPT !.pc = "served", !.got = PG!Reading(c)]
           w == [f EXCEPT !.pc = "served"]
<1>1. calls \in [Pair -> Handlers] /\ f \in Handlers /\ f.pc = "sent"
      /\ calls' = [calls EXCEPT ![c] = IF Acts(c) THEN w ELSE r]
  BY DEF ScreensTyped, PG!Serve, PG!Turn, Acts
<1>2. c \in PG!AtWork /\ HandlerOK(c)  BY <1>1 DEF PG!AtWork, ScreensTyped
<1>3. Script(f.todo) /\ f.row \in Rows  BY <1>2 DEF HandlerOK
<1>4. ~Acts(c) =>
        /\ PG!Reading(c) \in [Head(f.todo) -> Views] /\ PG!Reading(c) \in Results
        /\ \A p \in Head(f.todo) : DOMAIN PG!Reading(c)[p] = PG!Seen(p, f.row)
  <2>1. ~Acts(c) => Head(f.todo) \in SUBSET PG!Parts  BY <1>3, ScriptIs, TailOf DEF Acts
  <2>2. \A p \in PG!Parts : PG!Seen(p, f.row) \in SUBSET Rows  BY <1>3 DEF PG!Seen, PagesFit
  <2>3. server \in [Rows -> Version]  BY DEF ScreensTyped
  <2>4. \A p \in PG!Parts : [x \in PG!Seen(p, f.row) |-> server[x]] \in Views
    <3> SUFFICES ASSUME NEW S \in SUBSET Rows PROVE [x \in S |-> server[x]] \in [S -> Version]
      BY <2>2 DEF Views
    <3> QED  BY <2>3
  <2>5. PG!Reading(c) = [p \in Head(f.todo) |-> [x \in PG!Seen(p, f.row) |-> server[x]]]
    BY DEF PG!Reading
  <2> HIDE DEF f
  <2>6. ASSUME ~Acts(c) PROVE PG!Reading(c) \in [Head(f.todo) -> Views]
    BY <2>1, <2>4, <2>5, <2>6
  <2> QED  BY <2>1, <2>5, <2>6 DEF Results
<1>5. r \in Handlers \/ Acts(c)  BY <1>1, <1>4 DEF Handlers
<1>6. w \in Handlers  BY <1>1 DEF Handlers
<1>7. /\ ~Acts(c) => r.got = PG!Reading(c)
      /\ r.pc = "served" /\ r.todo = f.todo /\ r.name = f.name /\ r.row = f.row
         /\ r.flag = f.flag /\ r.tail = f.tail
      /\ w.pc = "served" /\ w.todo = f.todo /\ w.name = f.name /\ w.row = f.row
         /\ w.flag = f.flag /\ w.tail = f.tail
  BY <1>1 DEF Handlers
<1> DEFINE new == IF Acts(c) THEN w ELSE r
<1>8. /\ new \in Handlers /\ calls' = [calls EXCEPT ![c] = new]
      /\ new.pc = "served" /\ new.todo = f.todo /\ new.name = f.name /\ new.row = f.row
      /\ new.flag = f.flag /\ new.tail = f.tail /\ (~Acts(c) => new.got = PG!Reading(c))
  BY <1>1, <1>5, <1>6, <1>7
<1> HIDE DEF new, r, w
<1>9. calls' \in [Pair -> Handlers] /\ calls'[c] = new /\ \A d \in Pair : d # c
        => calls'[d] = calls[d]
  BY <1>1, <1>8
<1>10. PG!AtWork' = PG!AtWork
  <2>1. PG!AtWork' = {d \in Pair : calls'[d].pc # "idle"}  BY DEF PG!AtWork
  <2> QED  BY <1>1, <1>8, <1>9, <2>1 DEF PG!AtWork
<1>11. ASSUME NEW d \in PG!AtWork' PROVE HandlerOK(d)'
  <2>1. CASE d # c
    <3>1. d \in PG!AtWork /\ calls'[d] = calls[d]  BY <1>9, <1>10, <2>1, AtWorkIs
    <3> QED  BY <3>1, HandlerStays DEF ScreensTyped
  <2>2. CASE d = c
    <3>1. /\ calls'[c].pc = "served" /\ calls'[c].todo = f.todo /\ calls'[c].name = f.name
          /\ calls'[c].row = f.row /\ calls'[c].flag = f.flag /\ calls'[c].tail = f.tail
          /\ ~Acts(c) => calls'[c].got = PG!Reading(c)
      BY <1>8, <1>9
    <3>2. /\ Acts(c) => Left(c) \/ \E a \in PG!P.controls : Submits(c, a)
          /\ f.name = "left" => Left(c)
          /\ f.name \in {"open", "pick"} => f.flag = None
          /\ f.flag \in FlagsFor(f.row) \cup {None}
      BY <1>2 DEF HandlerOK
    <3>3. /\ Acts(c)' <=> Acts(c)
          /\ Left(c)' <=> Left(c)
          /\ \A a : Submits(c, a)' <=> Submits(c, a)
      BY <3>1 DEF Acts, Submits, Left
    <3> QED  BY <1>3, <1>4, <2>2, <3>1, <3>2, <3>3, PageStays DEF HandlerOK, Acts
  <2> QED  BY <2>1, <2>2
<1> QED  BY <1>1, <1>2, <1>8, <1>9, <1>10, <1>11

-----------------------------------------------------------------------------
(* Types.                                                                  *)

LEMMA ViewsAre ==
  /\ PG!Nothing \in Views /\ DOMAIN PG!Nothing = {}
  /\ \A v \in Views : DOMAIN v \subseteq Rows /\ \A r \in DOMAIN v : v[r] \in Version
     /\ v[r].n \in 0 .. MaxVersion
<1>1. PG!Nothing \in [{} -> Version] /\ DOMAIN PG!Nothing = {}  BY DEF PG!Nothing
<1>2. PG!Nothing \in Views  BY <1>1 DEF Views
<1>3. ASSUME NEW v \in Views
      PROVE  DOMAIN v \subseteq Rows /\ \A r \in DOMAIN v : v[r] \in Version
               /\ v[r].n \in 0 .. MaxVersion
  <2>1. PICK S \in SUBSET Rows : v \in [S -> Version]
    BY DEF Views
  <2> QED  BY <2>1 DEF Version
<1> QED  BY <1>1, <1>2, <1>3

LEMMA PlacesAre ==
  ASSUME ScreensTyped
  PROVE  /\ \A c, parts : PG!Crossing(c, parts) \subseteq parts
         /\ PG!Upset \subseteq {"pick"}
BY DEF PG!Crossing, PG!Upset

LEMMA ServerIs ==
  ASSUME ScreensTyped, NEW r \in Rows
  PROVE  server[r].n \in 0 .. MaxVersion /\ server[r].client \in BOOLEAN
           /\ server[r] \in Version
BY DEF ScreensTyped, Version

\* The history, with some of its parts replaced.
LEMMA HistoryWith ==
  ASSUME NEW h \in Histories, NEW e \in Nat, NEW x \in SUBSET (PG!Parts \cup {"pick"})
  PROVE  LET g == [h EXCEPT !.events = e, !.crossed = x] IN
         /\ g \in Histories
         /\ g.events = e /\ g.crossed = x /\ g.mine = h.mine /\ g.others = h.others
         /\ g.reverted = h.reverted /\ g.gone = h.gone /\ g.muddled = h.muddled
            /\ g.failed = h.failed /\ g.told = h.told /\ g.left = h.left
BY DEF Histories

LEMMA HistoryOfSubmit ==
  ASSUME NEW h \in Histories, NEW e \in Nat, NEW x \in SUBSET (PG!Parts \cup {"pick"}),
         NEW v \in SUBSET Rows, NEW m \in BOOLEAN
  PROVE  LET g == [h EXCEPT !.events = e, !.told = FALSE, !.crossed = x, !.reverted = v,
           !.muddled = m] IN
         /\ g \in Histories
         /\ g.events = e /\ g.crossed = x /\ g.mine = h.mine /\ g.others = h.others
         /\ g.reverted = v /\ g.gone = h.gone /\ g.muddled = m /\ g.failed = h.failed
            /\ g.left = h.left
BY DEF Histories

\* What Answer shows, as far as types go.
LEMMA DisplayedIsTyped ==
  ASSUME ScreensTyped, NEW c \in PG!AtWork, calls[c].pc = "served"
  PROVE  /\ PG!Displayed(c) \in [PG!Parts -> Views]
         /\ ~Acts(c) => \A p \in Head(calls[c].todo) :
              p \in PG!Parts /\ calls[c].got[p] \in Views
              /\ DOMAIN calls[c].got[p] = PG!Seen(p, calls[c].row)
<1> DEFINE f == calls[c]
<1>1. HandlerOK(c) /\ shown \in [PG!Parts -> Views]  BY DEF ScreensTyped
<1>2. Script(f.todo)  BY <1>1 DEF HandlerOK
<1>3. ~Acts(c) => f.got \in [Head(f.todo) -> Views]
                  /\ \A p \in Head(f.todo) : DOMAIN f.got[p] = PG!Seen(p, f.row)
  BY <1>1 DEF HandlerOK
<1>4. ~Acts(c) => Head(f.todo) \in SUBSET PG!Parts  BY <1>2, ScriptIs, TailOf DEF Acts
<1>5. PG!Displayed(c) \in [PG!Parts -> Views]  BY <1>1, <1>3, ViewsAre DEF PG!Displayed, Acts
<1> QED  BY <1>3, <1>4, <1>5

LEMMA MountedIsTyped ==
  ASSUME ScreensTyped, NEW new \in [PG!Parts -> Views]
  PROVE  /\ PG!Mounted(new) \in [Rows -> {None, PG!Chosen, PG!Sent} \cup 0 .. MaxVersion]
         /\ \A r \in Rows :
              /\ (\A p \in PG!Forms : r \notin DOMAIN new[p]) => PG!Mounted(new)[r] = None
              /\ (\E p \in PG!Forms : r \in DOMAIN new[p]) /\ drafts[r] # None
                 => PG!Mounted(new)[r] = drafts[r]
              /\ (\E p \in PG!Forms : r \in DOMAIN new[p]) /\ drafts[r] = None =>
                   \E p \in PG!Forms : r \in DOMAIN new[p] /\ PG!Mounted(new)[r] = new[p][r].n
<1>1. PG!Forms \subseteq PG!Parts  BY DEF PG!Parts
<1>2. drafts \in [Rows -> {None, PG!Chosen, PG!Sent} \cup 0 .. MaxVersion]  BY DEF ScreensTyped
<1> SUFFICES ASSUME NEW r \in Rows
             PROVE  /\ PG!Mounted(new)[r] \in {None, PG!Chosen, PG!Sent} \cup 0 .. MaxVersion
                    /\ (\A p \in PG!Forms : r \notin DOMAIN new[p]) => PG!Mounted(new)[r] = None
                    /\ (\E p \in PG!Forms : r \in DOMAIN new[p]) /\ drafts[r] # None
                       => PG!Mounted(new)[r] = drafts[r]
                    /\ (\E p \in PG!Forms : r \in DOMAIN new[p]) /\ drafts[r] = None =>
                         \E p \in PG!Forms : r \in DOMAIN new[p]
                           /\ PG!Mounted(new)[r] = new[p][r].n
  <2>1. DOMAIN PG!Mounted(new) = Rows /\ PG!Mounted(new) = [r \in Rows |-> PG!Mounted(new)[r]]
    BY DEF PG!Mounted
  <2> QED  BY <2>1
<1> DEFINE in == {p \in PG!Forms : r \in DOMAIN new[p]}
           one == CHOOSE p \in in : TRUE
<1>3. PG!Mounted(new)[r] = IF in = {} THEN None ELSE IF drafts[r] = None THEN new[one][r].n
        ELSE drafts[r]
  BY DEF PG!Mounted, PG!Showing, PG!Status
<1>4. in # {} => one \in PG!Forms /\ r \in DOMAIN new[one]  OBVIOUS
<1> HIDE DEF one
<1>5. in # {} => new[one][r].n \in 0 .. MaxVersion  BY <1>1, <1>4, ViewsAre
<1>6. in = {} <=> \A p \in PG!Forms : r \notin DOMAIN new[p]  OBVIOUS
<1> HIDE DEF in
<1>7. (\E p \in PG!Forms : r \in DOMAIN new[p]) => in # {}  BY <1>6
<1> QED  BY <1>2, <1>3, <1>4, <1>5, <1>6, <1>7

LEMMA PickIsTyped ==
  ASSUME PagesFit, ScreensTyped, PageOK, NEW c \in Pair, NEW r \in Rows, PG!Pick(c, r)
  PROVE  ScreensTyped'
<1> DEFINE f == PG!Handler("pick", r, None, PG!P.picks, 0)
<1>1. page' = page /\ PG!Free(c) /\ PG!Turn(c, f) /\ PG!P.picks # << >>
  BY DEF PG!Pick, PG!MayAct
<1>2. Script(PG!P.picks) /\ PG!P.picks[1] # {"act"}  BY <1>1 DEF PageOK
<1>3. PG!P.picks \in Seq(Requests) /\ Head(PG!P.picks) # {"act"}
        /\ Head(PG!P.picks) \in SUBSET PG!Parts
  BY <1>2, ScriptIs, TailOf
<1>4. f \in Handlers /\ f.pc = "sent" /\ f.name = "pick" /\ f.row = r /\ f.flag = None
        /\ f.todo = PG!P.picks
  BY <1>3 DEF PG!Handler, Handlers
<1> HIDE DEF f
<1>5. calls' \in [Pair -> Handlers] /\ \A d \in PG!AtWork' : HandlerOK(d)'
  BY <1>1, <1>2, <1>3, <1>4, StartStep
<1>6. past' \in Histories
  <2>1. past \in Histories  BY DEF ScreensTyped
  <2> DEFINE x == past.crossed \cup PG!Crossing(c, Head(PG!P.picks)) \cup PG!Upset
  <2>2. x \in SUBSET (PG!Parts \cup {"pick"})  BY <1>3, <2>1, PlacesAre DEF Histories
  <2>3. past' = [past EXCEPT !.events = @ + 1, !.crossed = x]  BY DEF PG!Pick
  <2>4. past.events + 1 \in Nat  BY <2>1 DEF Histories
  <2> HIDE DEF x
  <2> QED  BY <2>1, <2>2, <2>3, <2>4, HistoryWith
<1>7. loading' \in BOOLEAN /\ error' \in BOOLEAN
  <2>1. loading' = ("pick" \in PG!P.hidden)  BY DEF PG!Pick
  <2>2. ("pick" \in PG!P.hidden) \in BOOLEAN  OBVIOUS
  <2>3. error' \in BOOLEAN  BY DEF PG!Pick, ScreensTyped
  <2> QED  BY <2>1, <2>2, <2>3
<1>8. UNCHANGED <<server, shown, busy, drafts>> /\ choice' \in Rows  BY DEF PG!Pick
<1> QED  BY <1>1, <1>5, <1>6, <1>7, <1>8 DEF ScreensTyped

LEMMA OrderIs ==
  ASSUME PageOK, NEW a \in PG!P.controls
  PROVE  /\ ControlOK(a)
         /\ <<{"act"}>> \o PG!Follows(a).then \o PG!Follows(a).tail = Order(a)
         /\ Len(PG!Follows(a).tail) = Len(a.tail) /\ Len(a.tail) \in Nat
         /\ Order(a) \in Seq(Requests) /\ Order(a) # << >> /\ Order(a)[1] = {"act"}
            /\ Head(Order(a)) = {"act"}
<1>1. ControlOK(a)  BY DEF PageOK
<1>2. PG!Follows(a).then = a.then /\ PG!Follows(a).tail = a.tail  BY DEF PG!Follows
<1>3. a.then \in Seq(SUBSET PG!Parts) /\ a.tail \in Seq(SUBSET PG!Parts) /\ Script(Order(a))
  BY <1>1 DEF ControlOK
<1>4. Order(a) \in Seq(Requests) /\ Order(a) # << >>  BY <1>3, ScriptIs
<1>5. Order(a)[1] = {"act"}
  <2> DEFINE x == <<{"act"}>>
             S == (SUBSET PG!Parts) \cup {{"act"}}
  <2>1. x \in Seq(S) /\ a.then \in Seq(S) /\ a.tail \in Seq(S) /\ Len(x) = 1 /\ x[1] = {"act"}
    BY <1>3
  <2> HIDE DEF x, S
  <2>2. x \o a.then \in Seq(S) /\ (x \o a.then)[1] = x[1] /\ Len(x \o a.then) >= 1
    BY <2>1, ConcatProperties
  <2>3. ((x \o a.then) \o a.tail)[1] = (x \o a.then)[1]
    <3> DEFINE y == x \o a.then
    <3>1. y \in Seq(S) /\ 1 \in 1 .. Len(y)  BY <2>2
    <3> HIDE DEF y
    <3>2. (y \o a.tail)[1] = y[1]  BY <2>1, <3>1, ConcatProperties
    <3> QED  BY <3>2 DEF y
  <2> QED  BY <2>1, <2>2, <2>3 DEF Order, x
<1>6. Head(Order(a)) = {"act"}  BY <1>4, <1>5, TailOf
<1>7. <<{"act"}>> \o PG!Follows(a).then \o PG!Follows(a).tail = Order(a)
        /\ Len(PG!Follows(a).tail) = Len(a.tail)
  BY <1>2 DEF Order
<1>8. Len(a.tail) \in Nat  BY <1>3
<1> QED  BY <1>1, <1>4, <1>5, <1>6, <1>7, <1>8

LEMMA FlagIsTyped ==
  ASSUME PageOK, NEW a \in PG!P.controls, NEW r \in Rows
  PROVE  /\ PG!Flag(a, r) \in Flags \cup {None} /\ PG!Flag(a, r) \in FlagsFor(r) \cup {None}
         /\ a.flag # "none" => PG!Flag(a, r) \in Flags
         /\ a.name \notin {"open", "pick", "busyId", "left"}
<1>1. a.name \in ControlNames /\ a.flag \in {"none", "own", "row", "one"}
  BY DEF PageOK, ControlOK
<1>2. /\ <<a.name>> \in Flags /\ <<a.name, r>> \in Flags /\ <<"busyId", r>> \in Flags
      /\ <<a.name>> \in FlagsFor(r) /\ <<a.name, r>> \in FlagsFor(r) /\ <<"busyId",
         r>> \in FlagsFor(r)
  BY <1>1 DEF Flags, FlagsFor
<1>3. a.name \notin {"open", "pick", "busyId", "left"}  BY <1>1 DEF ControlNames
<1> QED  BY <1>1, <1>2, <1>3 DEF PG!Flag

\* The handler that Submit starts.
Starts(c, a, r) == PG!Handler(a.name, r, PG!Flag(a, r), Order(a), Len(a.tail))

LEMMA StartsIs ==
  ASSUME PagesFit, PageOK, NEW c, NEW a \in PG!P.controls, NEW r \in Rows
  PROVE  LET f == Starts(c, a, r) IN
         /\ f \in Handlers /\ f.pc = "sent" /\ f.name = a.name /\ f.row = r
            /\ f.flag = PG!Flag(a, r)
         /\ f.todo = Order(a) /\ f.tail = Len(a.tail)
<1>1. Order(a) \in Seq(Requests) /\ Len(a.tail) \in Nat  BY OrderIs
<1>2. PG!Flag(a, r) \in Flags \cup {None} /\ a.name \in ControlNames
  BY FlagIsTyped DEF PageOK, ControlOK
<1> QED  BY <1>1, <1>2 DEF Starts, PG!Handler, Handlers

LEMMA SubmitStarts ==
  ASSUME PagesFit, ScreensTyped, PageOK, NEW c \in Pair, NEW a \in PG!P.controls,
         NEW r \in Rows, PG!Submit(c, a, r)
  PROVE  /\ page' = page /\ PG!Free(c)
         /\ calls' \in [Pair -> Handlers] /\ c \notin PG!AtWork
         /\ \A d \in Pair : d # c => calls'[d] = calls[d]
         /\ PG!AtWork' = PG!AtWork \cup {c}
         /\ calls'[c].pc = "sent" /\ calls'[c].name = a.name /\ calls'[c].row = r
         /\ calls'[c].flag = PG!Flag(a, r) /\ calls'[c].todo = Order(a)
            /\ calls'[c].tail = Len(a.tail)
         /\ \A d \in PG!AtWork' : HandlerOK(d)'
<1> DEFINE f == Starts(c, a, r)
<1>1. /\ f \in Handlers /\ f.pc = "sent" /\ f.name = a.name /\ f.row = r
         /\ f.flag = PG!Flag(a, r)
      /\ f.todo = Order(a) /\ f.tail = Len(a.tail)
  BY StartsIs
<1>2. page' = page /\ PG!Free(c)  BY DEF PG!Submit, PG!MayAct
<1>3. PG!Turn(c, f)  BY OrderIs DEF PG!Submit, Starts
<1> HIDE DEF f
<1>4. Script(f.todo) /\ f.name \notin {"open", "pick", "left"} /\ f.flag \in FlagsFor(f.row)
        \cup {None}
  BY <1>1, OrderIs, FlagIsTyped DEF ControlOK
<1>5. /\ calls' \in [Pair -> Handlers] /\ calls'[c] = f /\ c \notin PG!AtWork
      /\ \A d \in Pair : d # c => calls'[d] = calls[d]
      /\ PG!AtWork' = PG!AtWork \cup {c}
      /\ \A d \in PG!AtWork' : HandlerOK(d)'
  BY <1>1, <1>2, <1>3, <1>4, StartStep
<1> QED  BY <1>1, <1>2, <1>5

LEMMA SubmitIsTyped ==
  ASSUME PagesFit, ScreensTyped, PageOK, NEW c \in Pair, NEW a \in PG!P.controls,
         NEW r \in Rows, PG!Submit(c, a, r)
  PROVE  ScreensTyped'
<1>1. page' = page /\ calls' \in [Pair -> Handlers] /\ \A d \in PG!AtWork' : HandlerOK(d)'
  BY SubmitStarts
<1>2. busy' \subseteq Flags
  <2>1. a.flag # "none" => PG!Flag(a, r) \in Flags  BY FlagIsTyped
  <2>2. busy' = PG!Raised(a, r) /\ busy \subseteq Flags  BY DEF PG!Submit, ScreensTyped
  <2> QED  BY <2>1, <2>2 DEF PG!Raised
<1>3. past' \in Histories
  <2>1. past \in Histories  BY DEF ScreensTyped
  <2> DEFINE x == past.crossed \cup PG!Upset
             v == IF a.flag = "row" /\ drafts[r] \in 0 .. shown[a.on][r].n - 1
                  THEN past.reverted \cup {r} ELSE past.reverted
             m == past.muddled \/ (a.flag = "one" /\ \E d \in PG!AtWork : calls[d].row # r)
  <2>2. x \in SUBSET (PG!Parts \cup {"pick"})  BY <2>1, PlacesAre DEF Histories
  <2>3. v \in SUBSET Rows  BY <2>1 DEF Histories
  <2>4. m \in BOOLEAN  BY <2>1 DEF Histories
  <2>5. past' = [past EXCEPT !.events = @ + 1, !.told = FALSE, !.crossed = x, !.reverted = v,
                          !.muddled = m]
    BY DEF PG!Submit
  <2>6. past.events + 1 \in Nat  BY <2>1 DEF Histories
  <2> HIDE DEF x, v, m
  <2> QED  BY <2>1, <2>2, <2>3, <2>4, <2>5, <2>6, HistoryOfSubmit
<1>4. drafts' \in [Rows -> {None, PG!Chosen, PG!Sent} \cup 0 .. MaxVersion]
  BY DEF PG!Submit, ScreensTyped
<1> QED  BY <1>1, <1>2, <1>3, <1>4 DEF PG!Submit, ScreensTyped

LEMMA PageChooseIsTyped ==
  ASSUME PagesFit, ScreensTyped, NEW r \in Rows, PG!Choose(r)
  PROVE  ScreensTyped' /\ PG!AtWork' = PG!AtWork
<1>1. /\ UNCHANGED <<page, server, shown, calls, busy, loading, error, choice>>
      /\ drafts' = [drafts EXCEPT ![r] = PG!Chosen] /\ past' = [past EXCEPT !.events = @ + 1]
  BY DEF PG!Choose
<1>2. past' \in Histories  BY <1>1 DEF ScreensTyped, Histories
<1>3. drafts' \in [Rows -> {None, PG!Chosen, PG!Sent} \cup 0 .. MaxVersion]
  BY <1>1 DEF ScreensTyped
<1>4. PG!AtWork' = PG!AtWork  BY <1>1 DEF PG!AtWork
<1>5. \A d \in PG!AtWork' : HandlerOK(d)'  BY <1>1, <1>4, HandlerStays DEF ScreensTyped
<1> QED  BY <1>1, <1>2, <1>3, <1>4, <1>5 DEF ScreensTyped

LEMMA OthersIsTyped ==
  ASSUME PagesFit, ScreensTyped, NEW r \in Rows, PG!Others(r)
  PROVE  ScreensTyped' /\ PG!AtWork' = PG!AtWork
<1>1. /\ UNCHANGED <<page, shown, calls, busy, loading, error, choice, drafts>>
      /\ server' = [server EXCEPT ![r].n = @ + 1] /\ past' = [past EXCEPT !.others = @ \cup {r}]
      /\ server[r].n < MaxVersion
  BY DEF PG!Others
<1>2. past' \in Histories  BY <1>1 DEF ScreensTyped, Histories
<1>3. server' \in [Rows -> Version]  BY <1>1 DEF ScreensTyped, Version, PagesFit
<1>4. PG!AtWork' = PG!AtWork  BY <1>1 DEF PG!AtWork
<1>5. \A d \in PG!AtWork' : HandlerOK(d)'  BY <1>1, <1>4, HandlerStays DEF ScreensTyped
<1> QED  BY <1>1, <1>2, <1>3, <1>4, <1>5 DEF ScreensTyped

\* What a change of the user does to the rows.
LEMMA WrittenIs ==
  ASSUME PagesFit, ScreensTyped, NEW c \in Pair, PG!Serve(c), Acts(c)
  PROVE  LET r == calls[c].row IN
         /\ r \in Rows /\ server' \in [Rows -> Version]
         /\ server'[r].n = server[r].n + 1 /\ server'[r].n \in 0 .. MaxVersion
         /\ \A q \in Rows : q # r => server'[q] = server[q]
         /\ \A q \in Rows : server'[q].n >= server[q].n
         /\ drafts' = IF drafts[r] = PG!Sent THEN [drafts EXCEPT ![r] = server'[r].n]
            ELSE drafts
         /\ past' \in Histories
         /\ past'.mine = [past.mine EXCEPT ![r] = server'[r].n]
         /\ past'.others = past.others /\ past'.reverted = past.reverted
            /\ past'.gone = past.gone
         /\ past'.crossed = past.crossed /\ past'.muddled = past.muddled
            /\ past'.failed = past.failed /\ past'.told = past.told /\ past'.left = past.left
<1> DEFINE r == calls[c].row
<1>1. /\ server[r].n < MaxVersion /\ server' = PG!Written(c)
      /\ drafts' = IF drafts[r] = PG!Sent THEN [drafts EXCEPT ![r] = server'[r].n] ELSE drafts
      /\ past' = [past EXCEPT !.mine[r] = server'[r].n]
      /\ calls[c].pc = "sent"
  BY DEF PG!Serve, Acts
<1>2. r \in Rows  BY <1>1 DEF ScreensTyped, PG!AtWork, HandlerOK
<1> DEFINE b == server[r].client \/ calls[c].name = "convert"
           v == [n |-> server[r].n + 1, client |-> b]
<1>3. server' = [server EXCEPT ![r] = v]  BY <1>1 DEF PG!Written
<1>4. b \in BOOLEAN /\ server[r].n \in 0 .. MaxVersion  BY <1>2, ServerIs
<1> HIDE DEF b
<1>5. v \in Version /\ v.n = server[r].n + 1 /\ v.n \in 0 .. MaxVersion
  BY <1>1, <1>4 DEF Version, PagesFit
<1> HIDE DEF v, r
<1>6. server \in [Rows -> Version]  BY DEF ScreensTyped
<1>7. server' \in [Rows -> Version] /\ server'[r] = v /\ \A q \in Rows : q # r
        => server'[q] = server[q]
  BY <1>2, <1>3, <1>5, <1>6
<1>8. \A q \in Rows : server'[q].n >= server[q].n
  <2> TAKE q \in Rows
  <2>1. server[q].n \in 0 .. MaxVersion  BY ServerIs
  <2> QED  BY <1>5, <1>7, <2>1 DEF PagesFit
<1>9. /\ past' \in Histories
      /\ past'.mine = [past.mine EXCEPT ![r] = server'[r].n]
      /\ past'.others = past.others /\ past'.reverted = past.reverted /\ past'.gone = past.gone
      /\ past'.crossed = past.crossed /\ past'.muddled = past.muddled
         /\ past'.failed = past.failed /\ past'.told = past.told /\ past'.left = past.left
  <2> DEFINE m == [past.mine EXCEPT ![r] = server'[r].n]
  <2>1. past \in Histories  BY DEF ScreensTyped
  <2>2. m \in [Rows -> 0 .. MaxVersion]  BY <1>2, <1>5, <1>7, <2>1 DEF Histories
  <2>3. past' = [past EXCEPT !.mine = m]  BY <1>1, <1>2, <2>1 DEF Histories, r
  <2> HIDE DEF m
  <2>4. /\ past' \in Histories /\ past'.mine = m
        /\ past'.others = past.others /\ past'.reverted = past.reverted
           /\ past'.gone = past.gone
        /\ past'.crossed = past.crossed /\ past'.muddled = past.muddled
           /\ past'.failed = past.failed /\ past'.told = past.told /\ past'.left = past.left
    BY <2>1, <2>2, <2>3 DEF Histories
  <2> QED  BY <2>4 DEF m
<1> QED  BY <1>1, <1>2, <1>5, <1>7, <1>8, <1>9 DEF r

LEMMA ServeIsTyped ==
  ASSUME PagesFit, ScreensTyped, NEW c \in Pair, PG!Serve(c)
  PROVE  ScreensTyped'
<1>1. UNCHANGED <<page, shown, busy, loading, error, choice>>  BY DEF PG!Serve
<1>2. calls' \in [Pair -> Handlers] /\ \A d \in PG!AtWork' : HandlerOK(d)'  BY <1>1, ServeStep
<1>3. /\ server' \in [Rows -> Version] /\ past' \in Histories
      /\ drafts' \in [Rows -> {None, PG!Chosen, PG!Sent} \cup 0 .. MaxVersion]
  <2>1. CASE Acts(c)
    <3>1. /\ calls[c].row \in Rows /\ server' \in [Rows -> Version] /\ past' \in Histories
          /\ server'[calls[c].row].n \in 0 .. MaxVersion
          /\ drafts' = IF drafts[calls[c].row] = PG!Sent
                       THEN [drafts EXCEPT ![calls[c].row] = server'[calls[c].row].n]
                         ELSE drafts
      BY <2>1, WrittenIs
    <3>2. drafts \in [Rows -> {None, PG!Chosen, PG!Sent} \cup 0 .. MaxVersion]
      BY DEF ScreensTyped
    <3> QED  BY <3>1, <3>2
  <2>2. CASE ~Acts(c)
    <3>1. UNCHANGED <<server, drafts, past>>  BY <2>2 DEF PG!Serve, Acts
    <3> QED  BY <3>1 DEF ScreensTyped
  <2> QED  BY <2>1, <2>2
<1> QED  BY <1>1, <1>2, <1>3 DEF ScreensTyped

\* The parts that are read next.
LEMMA NextReading ==
  ASSUME NEW c, NEW rest, Remains(c, rest), rest # << >>
  PROVE  /\ Head(rest) \in SUBSET PG!Parts /\ Head(rest) = rest[1] /\ 1 \in DOMAIN rest
         /\ Head(rest) # {"act"} /\ Script(rest)
<1>1. Script(rest) /\ \A k \in DOMAIN rest : rest[k] # {"act"}  BY DEF Remains
<1>2. Head(rest) = rest[1] /\ 1 \in DOMAIN rest  BY <1>1, ScriptIs, TailOf
<1> QED  BY <1>1, <1>2, ScriptIs

LEMMA PageAnswerIsTyped ==
  ASSUME PagesFit, ScreensTyped, NEW c \in Pair, PG!Answer(c)
  PROVE  ScreensTyped'
<1>1. /\ UNCHANGED <<page, server, error>> /\ calls[c].pc = "served" /\ c \in PG!AtWork
      /\ shown' = PG!Displayed(c) /\ drafts' = PG!Mounted(shown') /\ PG!GoOn(c, PG!After(c))
  BY DEF PG!Answer, PG!AtWork
<1>2. HandlerOK(c)  BY <1>1 DEF ScreensTyped
<1>3. Remains(c, PG!After(c))  BY <1>2, RemainsOf
<1>4. calls' \in [Pair -> Handlers] /\ busy' \subseteq Flags /\ loading' \in BOOLEAN
        /\ \A d \in PG!AtWork' : HandlerOK(d)'
  BY <1>1, <1>3, GoOnStep
<1>5. shown' \in [PG!Parts -> Views]  BY <1>1, DisplayedIsTyped
<1>6. drafts' \in [Rows -> {None, PG!Chosen, PG!Sent} \cup 0 .. MaxVersion]
  BY <1>1, <1>5, MountedIsTyped
<1>7. choice' \in Rows  BY <1>2 DEF PG!Answer, HandlerOK, ScreensTyped
<1>8. past' \in Histories
  <2> DEFINE p == IF choice' # choice /\ PG!AtWork # {c} THEN {"pick"} ELSE {}
             x == IF PG!After(c) = << >> THEN past.crossed ELSE past.crossed
               \cup PG!Crossing(c, Head(PG!After(c))) \cup p
  <2>1. past \in Histories  BY DEF ScreensTyped
  <2>2. x \in SUBSET (PG!Parts \cup {"pick"})
    <3>1. past.crossed \in SUBSET (PG!Parts \cup {"pick"})  BY <2>1 DEF Histories
    <3>2. p \subseteq {"pick"}  OBVIOUS
    <3> HIDE DEF p
    <3>3. PG!After(c) # << >> => PG!Crossing(c, Head(PG!After(c))) \subseteq PG!Parts
      BY <1>3, NextReading, PlacesAre
    <3> QED  BY <3>1, <3>2, <3>3
  <2>3. past' = [past EXCEPT !.crossed = x]  BY DEF PG!Answer
  <2> HIDE DEF x
  <2> QED  BY <2>1, <2>2, <2>3 DEF Histories
<1> QED  BY <1>1, <1>4, <1>5, <1>6, <1>7, <1>8 DEF ScreensTyped

\* What Fail shows.
LEMMA FailShows ==
  ASSUME ScreensTyped, NEW c \in Pair, PG!Fail(c)
  PROVE  /\ shown' \in [PG!Parts -> Views]
         /\ ~PG!Unread(c) => shown' = shown
         /\ PG!Unread(c) => shown'["list"] = PG!Nothing
         /\ \A p \in PG!Parts : shown'[p] = shown[p] \/ shown'[p] = PG!Nothing
         /\ \A p \in PG!Parts : p # "list" => shown'[p] = shown[p]
<1>1. shown \in [PG!Parts -> Views] /\ PG!Nothing \in Views /\ "list" \in PG!Parts
  BY ViewsAre, PartsAre DEF ScreensTyped
<1>2. shown' = IF PG!Unread(c) THEN [shown EXCEPT !["list"] = PG!Nothing] ELSE shown
  BY DEF PG!Fail
<1>3. CASE PG!Unread(c)  BY <1>1, <1>2, <1>3
<1>4. CASE ~PG!Unread(c)  BY <1>1, <1>2, <1>4
<1> QED  BY <1>3, <1>4

LEMMA FailIsTyped ==
  ASSUME PagesFit, ScreensTyped, PageOK, NEW c \in Pair, PG!Fail(c)
  PROVE  ScreensTyped'
<1>1. /\ UNCHANGED <<page, server, choice, drafts>> /\ c \in PG!AtWork
         /\ PG!GoOn(c, PG!AfterFailure(c))
      /\ error' = IF calls[c].name = "left" \/ PG!Unread(c) THEN error ELSE PG!P.tells
  BY DEF PG!Fail, PG!AtWork
<1>2. HandlerOK(c)  BY <1>1 DEF ScreensTyped
<1>3. Remains(c, PG!AfterFailure(c))  BY <1>2, RemainsOf
<1>4. calls' \in [Pair -> Handlers] /\ busy' \subseteq Flags /\ loading' \in BOOLEAN
        /\ \A d \in PG!AtWork' : HandlerOK(d)'
  BY <1>1, <1>3, GoOnStep
<1>5. error' \in BOOLEAN  BY <1>1 DEF PageOK, ScreensTyped
<1>6. past' \in Histories
  <2> DEFINE x == past.crossed \cup (IF PG!AfterFailure(c) = << >> THEN {}
               ELSE PG!Crossing(c, Head(PG!AfterFailure(c))))
  <2>1. past \in Histories  BY DEF ScreensTyped
  <2>2. x \in SUBSET (PG!Parts \cup {"pick"})
    <3>1. past.crossed \in SUBSET (PG!Parts \cup {"pick"})  BY <2>1 DEF Histories
    <3>2. PG!AfterFailure(c) # << >> => PG!Crossing(c, Head(PG!AfterFailure(c)))
            \subseteq PG!Parts
      BY <1>3, NextReading, PlacesAre
    <3> QED  BY <3>1, <3>2
  <2>3. past' = [past EXCEPT !.failed = TRUE, !.crossed = x]  BY DEF PG!Fail
  <2> HIDE DEF x
  <2> QED  BY <2>1, <2>2, <2>3 DEF Histories
<1>7. shown' \in [PG!Parts -> Views]  BY FailShows
<1> QED  BY <1>1, <1>4, <1>5, <1>6, <1>7 DEF ScreensTyped

\* What FailLeniently shows.
LEMMA LenientIs ==
  ASSUME PagesFit, ScreensTyped, NEW c \in Pair, PG!FailLeniently(c)
  PROVE  /\ UNCHANGED <<page, server, error, choice>> /\ c \in PG!AtWork
            /\ PG!GoOn(c, Tail(calls[c].todo))
         /\ calls[c].pc = "served" /\ ~Acts(c) /\ HandlerOK(c) /\ "work" \in Head(calls[c].todo)
         /\ Remains(c, Tail(calls[c].todo))
         /\ shown' \in [PG!Parts -> Views] /\ drafts' = PG!Mounted(shown')
         /\ shown'["work"] = PG!Nothing
         /\ \A p \in PG!Parts \ {"work"} :
              shown'[p] = IF p \in Head(calls[c].todo) THEN calls[c].got[p] ELSE shown[p]
         /\ past' = [past EXCEPT !.gone = past.gone \cup {r \in Rows : drafts[r] # None
            /\ drafts'[r] = None}]
<1> DEFINE f == calls[c]
<1>1. /\ UNCHANGED <<page, server, error, choice>> /\ c \in PG!AtWork
         /\ PG!GoOn(c, Tail(f.todo))
      /\ f.pc = "served" /\ "work" \in Head(f.todo) /\ drafts' = PG!Mounted(shown')
      /\ shown' = [p \in PG!Parts |-> IF p \in PG!Lenient THEN PG!Nothing
                                      ELSE IF p \in Head(f.todo) THEN f.got[p] ELSE shown[p]]
  BY DEF PG!FailLeniently, PG!AtWork, PG!Lenient
<1>2. HandlerOK(c)  BY <1>1 DEF ScreensTyped
<1>3. Head(f.todo) # {"act"}  BY <1>1
<1>4. Remains(c, Tail(f.todo))  BY <1>2, TailRemains
<1>5. \A p \in Head(f.todo) : f.got[p] \in Views  BY <1>1, <1>3, DisplayedIsTyped DEF Acts
<1>6. shown \in [PG!Parts -> Views]  BY DEF ScreensTyped
<1> HIDE DEF f
<1>7. shown' \in [PG!Parts -> Views]  BY <1>1, <1>5, <1>6, ViewsAre
<1>8. shown'["work"] = PG!Nothing
      /\ \A p \in PG!Parts \ {"work"} : shown'[p] = IF p \in Head(f.todo) THEN f.got[p]
         ELSE shown[p]
  BY <1>1, PartsAre DEF PG!Lenient
<1>9. past' = [past EXCEPT !.gone = past.gone \cup {r \in Rows : drafts[r] # None
        /\ drafts'[r] = None}]
  BY DEF PG!FailLeniently
<1> QED  BY <1>1, <1>2, <1>3, <1>4, <1>7, <1>8, <1>9 DEF Acts, f

LEMMA FailLenientlyIsTyped ==
  ASSUME PagesFit, ScreensTyped, NEW c \in Pair, PG!FailLeniently(c)
  PROVE  ScreensTyped'
<1>1. /\ UNCHANGED <<page, server, error, choice>> /\ c \in PG!AtWork
         /\ PG!GoOn(c, Tail(calls[c].todo))
      /\ Remains(c, Tail(calls[c].todo)) /\ shown' \in [PG!Parts -> Views]
         /\ drafts' = PG!Mounted(shown')
      /\ past' = [past EXCEPT !.gone = past.gone \cup {r \in Rows : drafts[r] # None
         /\ drafts'[r] = None}]
  BY LenientIs
<1>2. calls' \in [Pair -> Handlers] /\ busy' \subseteq Flags /\ loading' \in BOOLEAN
        /\ \A d \in PG!AtWork' : HandlerOK(d)'
  BY <1>1, GoOnStep
<1>3. drafts' \in [Rows -> {None, PG!Chosen, PG!Sent} \cup 0 .. MaxVersion]
  BY <1>1, MountedIsTyped
<1>4. past' \in Histories  BY <1>1 DEF ScreensTyped, Histories
<1> QED  BY <1>1, <1>2, <1>3, <1>4 DEF ScreensTyped

-----------------------------------------------------------------------------
(* What the steps do to the history.                                       *)

\* What most steps leave of it as it was.
Untold(h, g) ==
  /\ g.mine = h.mine /\ g.others = h.others /\ g.left = h.left
  /\ h.gone \subseteq g.gone /\ h.crossed \subseteq g.crossed

LEMMA PickHistory ==
  ASSUME ScreensTyped, PageOK, NEW c \in Pair, NEW r \in Rows, PG!Pick(c, r)
  PROVE  /\ page' = page /\ UNCHANGED <<server, shown, busy, drafts>> /\ choice' = r
            /\ PG!P.picks # << >>
         /\ calls' \in [Pair -> Handlers] /\ c \notin PG!AtWork
         /\ \A d \in Pair : d # c => calls'[d] = calls[d]
         /\ PG!AtWork' = PG!AtWork \cup {c}
         /\ calls'[c].pc = "sent" /\ calls'[c].name = "pick" /\ calls'[c].row = r
         /\ calls'[c].flag = None /\ calls'[c].todo = PG!P.picks /\ calls'[c].tail = 0
         /\ Head(PG!P.picks) # {"act"}
         /\ Untold(past, past') /\ past'.crossed = past.crossed
            \cup PG!Crossing(c, Head(PG!P.picks)) \cup PG!Upset
         /\ past'.reverted = past.reverted /\ past'.muddled = past.muddled
            /\ past'.failed = past.failed /\ past'.told = past.told /\ past'.left = past.left
<1> DEFINE f == PG!Handler("pick", r, None, PG!P.picks, 0)
<1>1. page' = page /\ PG!Free(c) /\ PG!Turn(c, f) /\ PG!P.picks # << >> /\ UNCHANGED <<server,
        shown, busy, drafts>> /\ choice' = r
  BY DEF PG!Pick, PG!MayAct
<1>2. Script(PG!P.picks) /\ PG!P.picks[1] # {"act"}  BY <1>1 DEF PageOK
<1>3. PG!P.picks \in Seq(Requests) /\ Head(PG!P.picks) # {"act"}
        /\ Head(PG!P.picks) \in SUBSET PG!Parts
  BY <1>2, ScriptIs, TailOf
<1>4. f \in Handlers /\ f.pc = "sent" /\ f.name = "pick" /\ f.row = r /\ f.flag = None
        /\ f.todo = PG!P.picks /\ f.tail = 0
  BY <1>3 DEF PG!Handler, Handlers
<1> HIDE DEF f
<1>5. /\ calls' \in [Pair -> Handlers] /\ calls'[c] = f /\ c \notin PG!AtWork
      /\ \A d \in Pair : d # c => calls'[d] = calls[d]
      /\ PG!AtWork' = PG!AtWork \cup {c}
  BY <1>1, <1>2, <1>3, <1>4, StartStep
<1>6. /\ Untold(past, past') /\ past'.crossed = past.crossed
         \cup PG!Crossing(c, Head(PG!P.picks)) \cup PG!Upset
      /\ past'.reverted = past.reverted /\ past'.muddled = past.muddled
         /\ past'.failed = past.failed /\ past'.told = past.told /\ past'.left = past.left
  <2>1. past \in Histories  BY DEF ScreensTyped
  <2> DEFINE x == past.crossed \cup PG!Crossing(c, Head(PG!P.picks)) \cup PG!Upset
  <2>2. x \in SUBSET (PG!Parts \cup {"pick"}) /\ past.crossed \subseteq x
    BY <1>3, <2>1, PlacesAre DEF Histories
  <2>3. past' = [past EXCEPT !.events = @ + 1, !.crossed = x]  BY DEF PG!Pick
  <2>4. past.events + 1 \in Nat  BY <2>1 DEF Histories
  <2> HIDE DEF x
  <2>5. /\ past'.crossed = x /\ past'.mine = past.mine /\ past'.others = past.others
        /\ past'.reverted = past.reverted /\ past'.gone = past.gone
           /\ past'.muddled = past.muddled
        /\ past'.failed = past.failed /\ past'.told = past.told /\ past'.left = past.left
    BY <2>1, <2>3 DEF Histories
  <2> QED  BY <2>2, <2>5 DEF Untold, x
<1> QED  BY <1>1, <1>3, <1>4, <1>5, <1>6

LEMMA SubmitHistory ==
  ASSUME ScreensTyped, NEW c \in Pair, NEW a \in PG!P.controls, NEW r \in Rows,
         PG!Submit(c, a, r)
  PROVE  /\ UNCHANGED <<page, server, shown, choice>> /\ busy' = PG!Raised(a, r)
            /\ error' = FALSE
         /\ drafts' = IF a.flag = "row" THEN [drafts EXCEPT ![r] = PG!Sent] ELSE drafts
         /\ PG!Offered(a, r) /\ PG!Flag(a, r) \notin busy
         /\ Untold(past, past') /\ past'.crossed = past.crossed \cup PG!Upset
            /\ past'.gone = past.gone
         /\ past'.failed = past.failed /\ past'.left = past.left
         /\ past'.muddled = (past.muddled \/ (a.flag = "one"
            /\ \E d \in PG!AtWork : calls[d].row # r))
         /\ past'.reverted = IF a.flag = "row" /\ drafts[r] \in 0 .. shown[a.on][r].n - 1
                             THEN past.reverted \cup {r} ELSE past.reverted
<1>1. /\ UNCHANGED <<page, server, shown, choice>> /\ busy' = PG!Raised(a, r) /\ error' = FALSE
      /\ drafts' = IF a.flag = "row" THEN [drafts EXCEPT ![r] = PG!Sent] ELSE drafts
      /\ PG!Offered(a, r) /\ PG!Flag(a, r) \notin busy
  BY DEF PG!Submit, PG!Disabled
<1> DEFINE x == past.crossed \cup PG!Upset
           v == IF a.flag = "row" /\ drafts[r] \in 0 .. shown[a.on][r].n - 1
                THEN past.reverted \cup {r} ELSE past.reverted
           m == past.muddled \/ (a.flag = "one" /\ \E d \in PG!AtWork : calls[d].row # r)
<1>2. past \in Histories  BY DEF ScreensTyped
<1>3. x \in SUBSET (PG!Parts \cup {"pick"}) /\ v \in SUBSET Rows /\ m \in BOOLEAN
        /\ past.crossed \subseteq x
  BY <1>2, PlacesAre DEF Histories
<1>4. past' = [past EXCEPT !.events = @ + 1, !.told = FALSE, !.crossed = x, !.reverted = v,
                          !.muddled = m]
  BY DEF PG!Submit
<1>5. past.events + 1 \in Nat  BY <1>2 DEF Histories
<1> HIDE DEF x, v, m
<1>6. /\ past'.crossed = x /\ past'.reverted = v /\ past'.muddled = m
      /\ past'.mine = past.mine /\ past'.others = past.others /\ past'.gone = past.gone
      /\ past'.failed = past.failed /\ past'.left = past.left
  BY <1>2, <1>4 DEF Histories
<1>7. Untold(past, past')  BY <1>3, <1>6 DEF Untold
<1> QED  BY <1>1, <1>6, <1>7 DEF x, v, m

LEMMA AnswerHistory ==
  ASSUME ScreensTyped, NEW c \in Pair, PG!Answer(c)
  PROVE  /\ UNCHANGED <<page, server, error>> /\ calls[c].pc = "served" /\ c \in PG!AtWork
         /\ shown' = PG!Displayed(c) /\ drafts' = PG!Mounted(shown') /\ PG!GoOn(c, PG!After(c))
         /\ HandlerOK(c) /\ Remains(c, PG!After(c)) /\ shown' \in [PG!Parts -> Views]
         /\ Untold(past, past') /\ past'.reverted = past.reverted /\ past'.gone = past.gone
         /\ past'.muddled = past.muddled /\ past'.failed = past.failed /\ past'.told = past.told
            /\ past'.left = past.left
         /\ PG!After(c) # << >> => PG!Crossing(c, Head(PG!After(c))) \subseteq past'.crossed
         /\ choice' = IF calls[c].name = "create" /\ page = "contacts" /\ PG!After(c) # << >>
                         /\ Head(PG!After(c)) = {"detail"} THEN calls[c].row ELSE choice
<1>1. /\ UNCHANGED <<page, server, error>> /\ calls[c].pc = "served" /\ c \in PG!AtWork
      /\ shown' = PG!Displayed(c) /\ drafts' = PG!Mounted(shown') /\ PG!GoOn(c, PG!After(c))
  BY DEF PG!Answer, PG!AtWork
<1>2. HandlerOK(c)  BY <1>1 DEF ScreensTyped
<1>3. Remains(c, PG!After(c))  BY <1>2, RemainsOf
<1>4. choice' = IF calls[c].name = "create" /\ page = "contacts" /\ PG!After(c) # << >>
                   /\ Head(PG!After(c)) = {"detail"} THEN calls[c].row ELSE choice
  BY DEF PG!Answer
<1>5. shown' \in [PG!Parts -> Views]  BY <1>1, DisplayedIsTyped
<1> DEFINE p == IF choice' # choice /\ PG!AtWork # {c} THEN {"pick"} ELSE {}
           x == IF PG!After(c) = << >> THEN past.crossed ELSE past.crossed
             \cup PG!Crossing(c, Head(PG!After(c))) \cup p
<1>6. past' = [past EXCEPT !.crossed = x] /\ past \in Histories  BY DEF PG!Answer, ScreensTyped
<1>7. past.crossed \subseteq x /\ (PG!After(c) # << >> => PG!Crossing(c, Head(PG!After(c)))
        \subseteq x)
  OBVIOUS
<1> HIDE DEF x
<1>8. /\ past'.crossed = x /\ past'.reverted = past.reverted /\ past'.muddled = past.muddled
      /\ past'.mine = past.mine /\ past'.others = past.others /\ past'.gone = past.gone
      /\ past'.failed = past.failed /\ past'.told = past.told /\ past'.left = past.left
  BY <1>6 DEF Histories
<1>9. Untold(past, past')  BY <1>7, <1>8 DEF Untold
<1> QED  BY <1>1, <1>2, <1>3, <1>4, <1>5, <1>7, <1>8, <1>9

LEMMA FailHistory ==
  ASSUME ScreensTyped, NEW c \in Pair, PG!Fail(c)
  PROVE  /\ UNCHANGED <<page, server, choice, drafts>> /\ c \in PG!AtWork
            /\ PG!GoOn(c, PG!AfterFailure(c))
         /\ error' = IF calls[c].name = "left" \/ PG!Unread(c) THEN error ELSE PG!P.tells
         /\ HandlerOK(c) /\ Remains(c, PG!AfterFailure(c))
         /\ Untold(past, past') /\ past'.reverted = past.reverted /\ past'.gone = past.gone
         /\ past'.muddled = past.muddled /\ past'.failed = TRUE /\ past'.told = past.told
            /\ past'.left = past.left
         /\ PG!AfterFailure(c) # << >> => PG!Crossing(c, Head(PG!AfterFailure(c)))
            \subseteq past'.crossed
<1>1. /\ UNCHANGED <<page, server, choice, drafts>> /\ c \in PG!AtWork
         /\ PG!GoOn(c, PG!AfterFailure(c))
      /\ error' = IF calls[c].name = "left" \/ PG!Unread(c) THEN error ELSE PG!P.tells
  BY DEF PG!Fail, PG!AtWork
<1>2. HandlerOK(c)  BY <1>1 DEF ScreensTyped
<1>3. Remains(c, PG!AfterFailure(c))  BY <1>2, RemainsOf
<1> DEFINE x == past.crossed \cup (IF PG!AfterFailure(c) = << >> THEN {}
             ELSE PG!Crossing(c, Head(PG!AfterFailure(c))))
<1>4. past' = [past EXCEPT !.failed = TRUE, !.crossed = x] /\ past \in Histories
  BY DEF PG!Fail, ScreensTyped
<1>5. past.crossed \subseteq x /\ (PG!AfterFailure(c) # << >>
        => PG!Crossing(c, Head(PG!AfterFailure(c))) \subseteq x)
  OBVIOUS
<1> HIDE DEF x
<1>6. /\ past'.crossed = x /\ past'.reverted = past.reverted /\ past'.muddled = past.muddled
      /\ past'.mine = past.mine /\ past'.others = past.others /\ past'.gone = past.gone
      /\ past'.failed = TRUE /\ past'.told = past.told /\ past'.left = past.left
  BY <1>4 DEF Histories
<1>7. Untold(past, past')  BY <1>5, <1>6 DEF Untold
<1> QED  BY <1>1, <1>2, <1>3, <1>5, <1>6, <1>7

LEMMA LenientHistory ==
  ASSUME PagesFit, ScreensTyped, NEW c \in Pair, PG!FailLeniently(c)
  PROVE  /\ page = "work" /\ Tail(calls[c].todo) = << >>
         /\ Untold(past, past') /\ past'.reverted = past.reverted
            /\ past'.crossed = past.crossed
         /\ past'.muddled = past.muddled /\ past'.failed = past.failed /\ past'.told = past.told
            /\ past'.left = past.left
         /\ \A r \in Rows : drafts[r] # None /\ drafts'[r] = None => r \in past'.gone
<1>1. /\ HandlerOK(c) /\ "work" \in Head(calls[c].todo)
      /\ past' = [past EXCEPT !.gone = past.gone \cup {r \in Rows : drafts[r] # None
         /\ drafts'[r] = None}]
  BY LenientIs
<1> DEFINE t == calls[c].todo
<1>2. Script(t)  BY <1>1 DEF HandlerOK
<1>3. "work" \in Head(t)  BY <1>1
<1> HIDE DEF t
<1>4. t \in Seq(Requests) /\ t # << >>  BY <1>2, ScriptIs
<1>5. /\ Tail(t) \in Seq(Requests) /\ Len(Tail(t)) = Len(t) - 1 /\ Head(t) = t[1]
         /\ 1 \in DOMAIN t
  BY <1>4, TailOf
<1>6. page = "work" /\ 1 = Len(t)  BY <1>2, <1>3, <1>5 DEF Script
<1>7. Tail(t) = << >>
  <2> DEFINE u == Tail(t)
  <2>1. u \in Seq(Requests) /\ Len(u) = Len(t) - 1  BY <1>5
  <2> HIDE DEF u
  <2>2. Len(u) = 0  BY <1>6, <2>1
  <2>3. u = << >>  BY <2>1, <2>2, EmptySeq
  <2> QED  BY <2>3 DEF u
<1> DEFINE g == past.gone \cup {r \in Rows : drafts[r] # None /\ drafts'[r] = None}
<1>8. past.gone \subseteq g /\ \A r \in Rows : drafts[r] # None /\ drafts'[r] = None => r \in g
  OBVIOUS
<1>9. past \in Histories /\ past' = [past EXCEPT !.gone = g]  BY <1>1 DEF ScreensTyped
<1> HIDE DEF g
<1>10. /\ past'.crossed = past.crossed /\ past'.reverted = past.reverted
          /\ past'.muddled = past.muddled
      /\ past'.mine = past.mine /\ past'.others = past.others /\ past'.gone = g
      /\ past'.failed = past.failed /\ past'.told = past.told /\ past'.left = past.left
  BY <1>9 DEF Histories
<1> QED  BY <1>6, <1>7, <1>8, <1>10 DEF Untold, t

LEMMA ChooseHistory ==
  ASSUME ScreensTyped, NEW r \in Rows, PG!Choose(r)
  PROVE  /\ UNCHANGED <<page, server, shown, calls, busy, error, choice>>
            /\ PG!AtWork' = PG!AtWork
         /\ drafts' = [drafts EXCEPT ![r] = PG!Chosen]
            /\ \E p \in PG!Forms : r \in DOMAIN shown[p]
         /\ Untold(past, past') /\ past'.reverted = past.reverted /\ past'.gone = past.gone
         /\ past'.crossed = past.crossed /\ past'.muddled = past.muddled
            /\ past'.failed = past.failed /\ past'.told = past.told /\ past'.left = past.left
<1>1. /\ UNCHANGED <<page, server, shown, calls, busy, error, choice>>
      /\ drafts' = [drafts EXCEPT ![r] = PG!Chosen] /\ past' = [past EXCEPT !.events = @ + 1]
      /\ \E p \in PG!Forms : r \in DOMAIN shown[p]
  BY DEF PG!Choose
<1>2. PG!AtWork' = PG!AtWork  BY <1>1 DEF PG!AtWork
<1>3. /\ past'.crossed = past.crossed /\ past'.reverted = past.reverted
         /\ past'.muddled = past.muddled
      /\ past'.mine = past.mine /\ past'.others = past.others /\ past'.gone = past.gone
      /\ past'.failed = past.failed /\ past'.told = past.told /\ past'.left = past.left
  BY <1>1 DEF ScreensTyped, Histories
<1> QED  BY <1>1, <1>2, <1>3 DEF Untold

LEMMA OthersHistory ==
  ASSUME PagesFit, ScreensTyped, NEW r \in Rows, PG!Others(r)
  PROVE  /\ UNCHANGED <<page, shown, calls, busy, error, choice, drafts>>
            /\ PG!AtWork' = PG!AtWork
         /\ past'.mine = past.mine /\ past'.others = past.others \cup {r}
         /\ past'.reverted = past.reverted /\ past'.gone = past.gone
         /\ past'.crossed = past.crossed /\ past'.muddled = past.muddled
            /\ past'.failed = past.failed /\ past'.told = past.told /\ past'.left = past.left
         /\ \A q \in Rows : server'[q].n >= server[q].n /\ (q # r => server'[q] = server[q])
<1>1. /\ UNCHANGED <<page, shown, calls, busy, error, choice, drafts>>
      /\ server' = [server EXCEPT ![r].n = @ + 1] /\ past' = [past EXCEPT !.others = @ \cup {r}]
  BY DEF PG!Others
<1>2. PG!AtWork' = PG!AtWork  BY <1>1 DEF PG!AtWork
<1>3. /\ past'.crossed = past.crossed /\ past'.reverted = past.reverted
         /\ past'.muddled = past.muddled
      /\ past'.mine = past.mine /\ past'.others = past.others \cup {r} /\ past'.gone = past.gone
      /\ past'.failed = past.failed /\ past'.told = past.told /\ past'.left = past.left
  BY <1>1 DEF ScreensTyped, Histories
<1>4. ASSUME NEW q \in Rows
      PROVE  server'[q].n >= server[q].n /\ (q # r => server'[q] = server[q])
  <2>1. server \in [Rows -> Version]  BY DEF ScreensTyped
  <2>2. server[q].n \in 0 .. MaxVersion /\ server[r] \in Version  BY ServerIs
  <2> QED  BY <1>1, <2>1, <2>2 DEF Version, PagesFit
<1> QED  BY <1>1, <1>2, <1>3, <1>4

\* A request that is carried out and is not a change.
LEMMA ReadHistory ==
  ASSUME NEW c, PG!Serve(c), ~Acts(c)
  PROVE  UNCHANGED <<server, drafts, past>>
BY DEF PG!Serve, Acts

-----------------------------------------------------------------------------
(* Flags.                                                                  *)

LEMMA SameHandler ==
  ASSUME NEW d, calls'[d] = calls[d]
  PROVE  /\ Holds(d)' <=> Holds(d)
         /\ Acts(d)' <=> Acts(d)
         /\ \A p : (Reads(d, p)' <=> Reads(d, p)) /\ (HasRead(d, p)' <=> HasRead(d, p))
                   /\ (WillRead(d, p)' <=> WillRead(d, p))
BY DEF Holds, Acts, Reads, HasRead, WillRead

LEMMA HandlerTypes ==
  ASSUME ScreensTyped, NEW c \in PG!AtWork
  PROVE  /\ c \in Pair /\ calls[c] \in Handlers /\ HandlerOK(c) /\ calls[c].row \in Rows
         /\ calls[c].tail \in Nat /\ calls[c].todo \in Seq(Requests)
            /\ Len(calls[c].todo) \in Nat
         /\ calls[c].todo # << >> /\ Script(calls[c].todo) /\ calls[c].pc \in {"sent", "served"}
         /\ 1 \in DOMAIN calls[c].todo /\ Head(calls[c].todo) = calls[c].todo[1]
<1>1. c \in Pair /\ calls[c].pc # "idle" /\ HandlerOK(c) /\ calls[c] \in Handlers
  BY AtWorkIs DEF ScreensTyped
<1>2. Script(calls[c].todo) /\ calls[c].row \in Rows  BY <1>1 DEF HandlerOK
<1>3. calls[c].todo \in Seq(Requests) /\ calls[c].todo # << >>  BY <1>2 DEF Script
<1>4. Len(calls[c].todo) \in Nat /\ 1 \in DOMAIN calls[c].todo
        /\ Head(calls[c].todo) = calls[c].todo[1]
  BY <1>3, TailOf
<1>5. calls[c].tail \in Nat /\ calls[c].pc \in {"idle", "sent", "served"}  BY <1>1 DEF Handlers
<1> QED  BY <1>1, <1>2, <1>3, <1>4, <1>5

\* The handlers that do not move keep their flags, the one that goes on has its own.
LEMMA FlagsOfGoOn ==
  ASSUME ScreensTyped, FlagsAreHeld, page' = page, past'.muddled = past.muddled,
         NEW c \in PG!AtWork, NEW rest, Remains(c, rest), PG!GoOn(c, rest)
  PROVE  FlagsAreHeld'
<1> DEFINE f == calls[c]
           over == Len(f.todo) > f.tail /\ Len(rest) <= f.tail
<1>1. /\ \A d \in Pair : d # c => calls'[d] = calls[d]
      /\ rest = << >> => PG!AtWork' = PG!AtWork \ {c}
      /\ rest # << >> =>
           /\ PG!AtWork' = PG!AtWork
           /\ calls'[c].todo = rest /\ calls'[c].flag = f.flag /\ calls'[c].tail = f.tail
  BY GoOnStep
<1>2. Len(rest) \in Nat /\ Len(rest) <= Len(f.todo) /\ Len(f.todo) \in Nat /\ f.tail \in Nat
  BY HandlerTypes DEF Remains
<1>3. busy' = IF over THEN PG!Lowered(f.flag) ELSE busy  BY DEF PG!GoOn
<1>4. over <=> Len(f.todo) > f.tail /\ Len(rest) <= f.tail  OBVIOUS
<1> HIDE DEF f, over
<1>5. c \in PG!AtWork' =>
        (Holds(c)' <=> f.flag # None /\ Len(rest) > f.tail) /\ calls'[c].flag = f.flag
  BY <1>1 DEF Holds
<1>6. Holds(c) <=> f.flag # None /\ Len(f.todo) > f.tail  BY DEF Holds, f
<1>7. c \in PG!AtWork' /\ Holds(c)' => Holds(c) /\ ~over  BY <1>2, <1>4, <1>5, <1>6
<1>8. \A d \in PG!AtWork' : d \in PG!AtWork /\ (Holds(d)' => Holds(d))
                               /\ calls'[d].flag = calls[d].flag
                            /\ (d # c => (Holds(d)' <=> Holds(d)))
  <2> TAKE d \in PG!AtWork'
  <2>1. d \in PG!AtWork  BY <1>1
  <2>2. CASE d = c  BY <1>1, <1>5, <1>7, <2>1, <2>2 DEF f
  <2>3. CASE d # c  BY <1>1, <2>1, <2>3, AtWorkIs, SameHandler
  <2> QED  BY <2>2, <2>3
<1> SUFFICES ASSUME ~past'.muddled PROVE
      /\ \A d \in PG!AtWork' : Holds(d)' => calls'[d].flag \in busy'
      /\ \A d, e \in PG!AtWork' :
           d # e /\ Holds(d)' /\ Holds(e)' =>
             /\ calls'[d].flag # calls'[e].flag
             /\ ~(calls'[d].flag[1] = "busyId" /\ calls'[e].flag[1] = "busyId")
  BY DEF FlagsAreHeld
<1>9. /\ \A d \in PG!AtWork : Holds(d) => calls[d].flag \in busy
      /\ \A d, e \in PG!AtWork :
           d # e /\ Holds(d) /\ Holds(e) =>
             /\ calls[d].flag # calls[e].flag
             /\ ~(calls[d].flag[1] = "busyId" /\ calls[e].flag[1] = "busyId")
  BY DEF FlagsAreHeld
<1>10. ASSUME NEW d \in PG!AtWork', Holds(d)' PROVE calls'[d].flag \in busy'
  <2>1. d \in PG!AtWork /\ Holds(d) /\ calls[d].flag \in busy /\ calls'[d].flag = calls[d].flag
    BY <1>8, <1>9, <1>10
  <2>2. CASE d = c  BY <1>3, <1>7, <1>10, <2>1, <2>2
  <2>3. CASE d # c /\ ~over  BY <1>3, <2>1, <2>3
  <2>4. CASE d # c /\ over /\ f.flag # None
    <3>1. Holds(c)  BY <1>4, <1>6, <2>4
    <3>2. calls[d].flag # f.flag /\ ~(calls[d].flag[1] = "busyId" /\ f.flag[1] = "busyId")
      BY <1>9, <2>1, <2>4, <3>1 DEF f
    <3> QED  BY <1>3, <2>1, <2>4, <3>2 DEF PG!Lowered
  <2>5. CASE over /\ f.flag = None  BY <1>3, <2>1, <2>5 DEF PG!Lowered
  <2> QED  BY <2>2, <2>3, <2>4, <2>5
<1> QED  BY <1>8, <1>9, <1>10

LEMMA FlagsOfPick ==
  ASSUME ScreensTyped, PageOK, FlagsAreHeld, NEW c \in Pair, NEW r \in Rows, PG!Pick(c, r)
  PROVE  FlagsAreHeld'
<1>1. /\ busy' = busy /\ past'.muddled = past.muddled /\ c \notin PG!AtWork
      /\ \A d \in Pair : d # c => calls'[d] = calls[d]
      /\ PG!AtWork' = PG!AtWork \cup {c} /\ calls'[c].flag = None
  BY PickHistory
<1>2. ~Holds(c)'  BY <1>1 DEF Holds
<1>3. \A d \in PG!AtWork' : Holds(d)' => d \in PG!AtWork /\ Holds(d) /\ calls'[d] = calls[d]
  <2> TAKE d \in PG!AtWork'
  <2>1. CASE d = c  BY <1>2, <2>1
  <2>2. CASE d # c  BY <1>1, <2>2, AtWorkIs, SameHandler
  <2> QED  BY <2>1, <2>2
<1> QED  BY <1>1, <1>3 DEF FlagsAreHeld

LEMMA FlagsOfSubmit ==
  ASSUME PagesFit, ScreensTyped, PageOK, FlagsAreHeld,
         NEW c \in Pair, NEW a \in PG!P.controls, NEW r \in Rows, PG!Submit(c, a, r)
  PROVE  FlagsAreHeld'
<1>1. /\ c \notin PG!AtWork /\ \A d \in Pair : d # c => calls'[d] = calls[d]
      /\ PG!AtWork' = PG!AtWork \cup {c} /\ calls'[c].flag = PG!Flag(a, r)
  BY SubmitStarts
<1>2. /\ busy' = PG!Raised(a, r) /\ PG!Flag(a, r) \notin busy
      /\ past'.muddled = (past.muddled \/ (a.flag = "one"
         /\ \E d \in PG!AtWork : calls[d].row # r))
  BY SubmitHistory
<1>3. \A d \in PG!AtWork : d \in PG!AtWork' /\ (Holds(d)' <=> Holds(d)) /\ calls'[d] = calls[d]
  BY <1>1, AtWorkIs, SameHandler
<1>4. a.name \in ControlNames /\ a.flag \in {"none", "own", "row", "one"} /\ a.name # "busyId"
  BY FlagIsTyped DEF PageOK, ControlOK
<1> SUFFICES ASSUME ~past'.muddled PROVE
      /\ \A d \in PG!AtWork' : Holds(d)' => calls'[d].flag \in busy'
      /\ \A d, e \in PG!AtWork' :
           d # e /\ Holds(d)' /\ Holds(e)' =>
             /\ calls'[d].flag # calls'[e].flag
             /\ ~(calls'[d].flag[1] = "busyId" /\ calls'[e].flag[1] = "busyId")
  BY DEF FlagsAreHeld
<1>5. ~past.muddled /\ (a.flag = "one" => \A d \in PG!AtWork : calls[d].row = r)  BY <1>2
<1>6. /\ \A d \in PG!AtWork : Holds(d) => calls[d].flag \in busy
      /\ \A d, e \in PG!AtWork :
           d # e /\ Holds(d) /\ Holds(e) =>
             /\ calls[d].flag # calls[e].flag
             /\ ~(calls[d].flag[1] = "busyId" /\ calls[e].flag[1] = "busyId")
  BY <1>5 DEF FlagsAreHeld
<1>7. CASE a.flag = "none"
  <2>1. calls'[c].flag = None /\ busy' = busy  BY <1>1, <1>2, <1>7 DEF PG!Flag, PG!Raised
  <2>2. ~Holds(c)'  BY <2>1 DEF Holds
  <2> QED  BY <1>1, <1>3, <1>6, <2>1, <2>2
<1>8. CASE a.flag \in {"own", "row"}
  <2>1. busy' = busy \cup {PG!Flag(a, r)}  BY <1>2, <1>8 DEF PG!Raised
  <2>2. PG!Flag(a, r)[1] # "busyId"  BY <1>4, <1>8 DEF PG!Flag
  <2>3. \A d \in PG!AtWork : Holds(d)' =>
          calls'[d].flag \in busy /\ calls'[d].flag # PG!Flag(a, r)
    BY <1>2, <1>3, <1>6
  <2> QED  BY <1>1, <1>3, <1>6, <2>1, <2>2, <2>3
<1>9. CASE a.flag = "one"
  <2>1. busy' = {f \in busy : f[1] # "busyId"} \cup {PG!Flag(a, r)}
          /\ PG!Flag(a, r) = <<"busyId", r>>
    BY <1>2, <1>9 DEF PG!Raised, PG!Flag
  <2>2. ASSUME NEW d \in PG!AtWork, Holds(d)
        PROVE  calls[d].flag[1] # "busyId" /\ calls[d].flag # PG!Flag(a, r)
    <3>1. calls[d].flag \in FlagsFor(r) /\ calls[d].flag \in busy
      <4>1. HandlerOK(d) /\ calls[d].row = r /\ calls[d].flag # None
        BY <1>5, <1>9, <2>2, HandlerTypes DEF Holds
      <4> QED  BY <1>6, <2>2, <4>1 DEF HandlerOK
    <3>2. calls[d].flag # <<"busyId", r>>  BY <1>2, <2>1, <3>1
    <3>3. \A n \in ControlNames : n # "busyId"  BY DEF ControlNames
    <3>4. calls[d].flag[1] # "busyId"  BY <3>1, <3>2, <3>3 DEF FlagsFor
    <3> QED  BY <2>1, <3>2, <3>4
  <2>3. \A d \in PG!AtWork : Holds(d)' =>
          calls'[d].flag \in busy /\ calls'[d].flag # PG!Flag(a, r)
            /\ calls'[d].flag[1] # "busyId"
    BY <1>3, <1>6, <2>2
  <2>4. \A d \in PG!AtWork : Holds(d)' => calls'[d].flag \in busy'  BY <2>1, <2>3
  <2>5. calls'[c].flag \in busy'  BY <1>1, <2>1
  <2> HIDE DEF Holds
  <2> QED  BY <1>1, <1>3, <1>6, <2>3, <2>4, <2>5
<1> QED  BY <1>4, <1>7, <1>8, <1>9

LEMMA FlagsOfServe ==
  ASSUME PagesFit, ScreensTyped, FlagsAreHeld, NEW c \in Pair, PG!Serve(c)
  PROVE  FlagsAreHeld'
<1>1. page' = page /\ busy' = busy  BY DEF PG!Serve
<1>2. /\ c \in PG!AtWork /\ PG!AtWork' = PG!AtWork
      /\ \A d \in Pair : d # c => calls'[d] = calls[d]
      /\ calls'[c].todo = calls[c].todo /\ calls'[c].flag = calls[c].flag
         /\ calls'[c].tail = calls[c].tail
  BY <1>1, ServeStep
<1>3. \A d \in PG!AtWork : (Holds(d)' <=> Holds(d)) /\ calls'[d].flag = calls[d].flag
  <2> TAKE d \in PG!AtWork
  <2>1. CASE d = c  BY <1>2, <2>1 DEF Holds
  <2>2. CASE d # c  BY <1>2, <2>2, AtWorkIs, SameHandler
  <2> QED  BY <2>1, <2>2
<1>4. past'.muddled = past.muddled  BY WrittenIs, ReadHistory
<1> QED  BY <1>1, <1>2, <1>3, <1>4 DEF FlagsAreHeld

-----------------------------------------------------------------------------
(* Handlers that overlap.                                                  *)

LEMMA OneStarts ==
  ASSUME ScreensTyped, NEW c, PG!AtWork' = PG!AtWork \cup {c}, PG!Upset \subseteq past'.crossed,
         "pick" \notin past'.crossed
  PROVE  PG!AtWork = {} /\ PG!AtWork' = {c}
BY DEF PG!Upset

LEMMA OneGoesOn ==
  ASSUME OneIsAtWork, PG!AtWork' \subseteq PG!AtWork, past.crossed \subseteq past'.crossed
  PROVE  OneIsAtWork'
BY DEF OneIsAtWork

LEMMA ReaderStarts ==
  ASSUME ScreensTyped, OneReader, NEW c \in Pair, c \notin PG!AtWork,
         PG!AtWork' = PG!AtWork \cup {c},
         \A d \in Pair : d # c => calls'[d] = calls[d],
         past.crossed \subseteq past'.crossed,
         PG!Crossing(c, Head(calls'[c].todo)) \subseteq past'.crossed
  PROVE  OneReader'
<1> SUFFICES ASSUME NEW p \in PG!Parts \ past'.crossed, NEW d \in PG!AtWork',
                      NEW e \in PG!AtWork',
                    Reads(d, p)', Reads(e, p)'
             PROVE  d = e
  BY DEF OneReader
<1>1. \A h \in PG!AtWork : (Reads(h, p)' <=> Reads(h, p)) /\ h # c  BY AtWorkIs, SameHandler
<1>2. Reads(c, p)' => \A h \in PG!AtWork : ~Reads(h, p)
  <2> SUFFICES ASSUME Reads(c, p)', NEW h \in PG!AtWork, Reads(h, p) PROVE FALSE
    OBVIOUS
  <2>1. p \in Head(calls'[c].todo) /\ p \in Head(calls[h].todo) /\ h \in PG!AtWork \ {c}
    BY <1>1 DEF Reads
  <2>2. p \in PG!Crossing(c, Head(calls'[c].todo))  BY <2>1 DEF PG!Crossing
  <2> QED  BY <2>2
<1>3. \A h, k \in PG!AtWork : Reads(h, p) /\ Reads(k, p) => h = k  BY DEF OneReader
<1> HIDE DEF Reads
<1> QED  BY <1>1, <1>2, <1>3

LEMMA ReaderGoesOn ==
  ASSUME ScreensTyped, OneReader, page' = page, NEW c \in PG!AtWork, NEW rest, Remains(c, rest),
         PG!GoOn(c, rest),
         past.crossed \subseteq past'.crossed,
         rest # << >> => PG!Crossing(c, Head(rest)) \subseteq past'.crossed
  PROVE  OneReader'
<1>1. /\ \A d \in Pair : d # c => calls'[d] = calls[d]
      /\ rest = << >> => PG!AtWork' = PG!AtWork \ {c}
      /\ rest # << >> => PG!AtWork' = PG!AtWork /\ calls'[c].todo = rest
  BY GoOnStep
<1> SUFFICES ASSUME NEW p \in PG!Parts \ past'.crossed, NEW d \in PG!AtWork',
                      NEW e \in PG!AtWork',
                    Reads(d, p)', Reads(e, p)'
             PROVE  d = e
  BY DEF OneReader
<1>2. \A h \in PG!AtWork : h # c => (Reads(h, p)' <=> Reads(h, p))
  BY <1>1, AtWorkIs, SameHandler
<1>3. rest # << >> /\ Reads(c, p)' => \A h \in PG!AtWork : h # c => ~Reads(h, p)
  <2> SUFFICES ASSUME rest # << >>, Reads(c, p)', NEW h \in PG!AtWork, h # c, Reads(h, p)
               PROVE  FALSE
    OBVIOUS
  <2>1. p \in Head(rest) /\ p \in Head(calls[h].todo) /\ h \in PG!AtWork \ {c}
    BY <1>1 DEF Reads
  <2>2. p \in PG!Crossing(c, Head(rest))  BY <2>1 DEF PG!Crossing
  <2> QED  BY <2>2
<1>4. \A h, k \in PG!AtWork : Reads(h, p) /\ Reads(k, p) => h = k  BY DEF OneReader
<1>5. d \in PG!AtWork /\ e \in PG!AtWork /\ (rest = << >> => d # c /\ e # c)  BY <1>1
<1> HIDE DEF Reads
<1> QED  BY <1>1, <1>2, <1>3, <1>4, <1>5

LEMMA ReaderIsServed ==
  ASSUME PagesFit, ScreensTyped, OneReader, NEW c \in Pair, PG!Serve(c),
         past'.crossed = past.crossed
  PROVE  OneReader'
<1>1. page' = page  BY DEF PG!Serve
<1>2. /\ c \in PG!AtWork /\ PG!AtWork' = PG!AtWork
      /\ \A d \in Pair : d # c => calls'[d] = calls[d]
      /\ calls'[c].todo = calls[c].todo
  BY <1>1, ServeStep
<1>3. \A d \in PG!AtWork : \A p : Reads(d, p)' <=> Reads(d, p)
  <2> TAKE d \in PG!AtWork
  <2>1. CASE d = c  BY <1>2, <2>1 DEF Reads
  <2>2. CASE d # c  BY <1>2, <2>2, AtWorkIs, SameHandler
  <2> QED  BY <2>1, <2>2
<1> QED  BY <1>2, <1>3 DEF OneReader

-----------------------------------------------------------------------------
(* The row that is shown.                                                  *)

\* What Answer shows of a part that was read, and of one that was not.
LEMMA DisplayedIs ==
  ASSUME ScreensTyped, NEW c \in PG!AtWork, calls[c].pc = "served"
  PROVE  /\ \A p \in PG!Parts : Reads(c, p) =>
              /\ PG!Displayed(c)[p] = calls[c].got[p] /\ calls[c].got[p] \in Views
              /\ DOMAIN PG!Displayed(c)[p] = PG!Seen(p, calls[c].row)
         /\ \A p \in PG!Parts : ~Reads(c, p) /\ p # "client" => PG!Displayed(c)[p] = shown[p]
         /\ ~Reads(c, "client") =>
              \/ PG!Displayed(c)["client"] = PG!Nothing
              \/ /\ PG!Displayed(c)["client"] = shown["client"]
                 /\ page = "contacts" /\ Head(calls[c].todo) = {"detail"} =>
                      DOMAIN shown["detail"] = {calls[c].row}
         /\ page # "contacts" =>
            ~Reads(c, "client") /\ PG!Displayed(c)["client"] = shown["client"]
<1> DEFINE f == calls[c]
<1>1. "act" \notin PG!Parts /\ "client" \in PG!Parts  BY PartsAre
<1>2. shown \in [PG!Parts -> Views]  BY DEF ScreensTyped
<1>3. ~Acts(c) =>
        \A p \in Head(f.todo) : f.got[p] \in Views /\ DOMAIN f.got[p] = PG!Seen(p, f.row)
  BY DisplayedIsTyped
<1>4. Acts(c) => \A p \in PG!Parts : ~Reads(c, p)  BY <1>1 DEF Acts, Reads
<1>5. CASE Acts(c)
  <2>1. PG!Displayed(c) = shown  BY <1>5 DEF PG!Displayed, Acts
  <2>2. Head(f.todo) = {"act"} /\ {"act"} # {"detail"}  BY <1>5 DEF Acts
  <2> QED  BY <1>1, <1>4, <1>5, <2>1, <2>2
<1>6. CASE ~Acts(c)
  <2> DEFINE new == PG!Renewed(f.row, shown["detail"], f.got["detail"])
  <2>1. PG!Displayed(c) = [p \in PG!Parts |->
                             IF p \in Head(f.todo) THEN f.got[p]
                             ELSE IF p = "client" /\ Head(f.todo) = {"detail"} /\ new
                               THEN PG!Nothing ELSE shown[p]]
    BY <1>6 DEF PG!Displayed, Acts
  <2>2. /\ page # "contacts" => ~new
        /\ page = "contacts" /\ ~new => DOMAIN shown["detail"] = {f.row}
    BY DEF PG!Renewed
  <2>3. page # "contacts" => ~Reads(c, "client")
    <3>1. Script(f.todo) /\ Head(f.todo) = f.todo[1] /\ 1 \in DOMAIN f.todo  BY HandlerTypes
    <3> QED  BY <3>1 DEF Script, Reads
  <2>4. \A p \in PG!Parts : Reads(c, p) <=> p \in Head(f.todo)  BY DEF Reads
  <2> HIDE DEF f, new
  <2>5. \A p \in PG!Parts : PG!Displayed(c)[p] = IF p \in Head(f.todo) THEN f.got[p]
                          ELSE IF p = "client" /\ Head(f.todo) = {"detail"} /\ new
                            THEN PG!Nothing ELSE shown[p]
    BY <2>1
  <2>6. \A p \in PG!Parts : Reads(c, p) =>
              /\ PG!Displayed(c)[p] = f.got[p] /\ f.got[p] \in Views
              /\ DOMAIN PG!Displayed(c)[p] = PG!Seen(p, f.row)
    BY <1>3, <1>6, <2>4, <2>5
  <2>7. \A p \in PG!Parts : ~Reads(c, p) /\ p # "client" => PG!Displayed(c)[p] = shown[p]
    BY <2>4, <2>5
  <2>8. ~Reads(c, "client") =>
              \/ PG!Displayed(c)["client"] = PG!Nothing
              \/ /\ PG!Displayed(c)["client"] = shown["client"]
                 /\ page = "contacts" /\ Head(f.todo) = {"detail"}
                    => DOMAIN shown["detail"] = {f.row}
    BY <1>1, <2>2, <2>4, <2>5
  <2>9. page # "contacts" => PG!Displayed(c)["client"] = shown["client"]
    BY <1>1, <2>2, <2>3, <2>4, <2>5
  <2> QED  BY <2>3, <2>6, <2>7, <2>8, <2>9 DEF f
<1> QED  BY <1>5, <1>6

\* What is left after an answer, as requests of what was left before it.
LEMMA RestIs ==
  ASSUME ScreensTyped, NEW c \in PG!AtWork
  PROVE  LET t == calls[c].todo
             rest == PG!After(c)
         IN  /\ rest # << >> => rest = Tail(t) /\ \A k \in DOMAIN rest : k + 1 \in DOMAIN t
                /\ rest[k] = t[k + 1]
             /\ \A k \in DOMAIN t : k > 1 /\ t[k] # {"client"} =>
                  rest # << >> /\ k - 1 \in DOMAIN rest /\ rest[k - 1] = t[k]
<1> DEFINE t == calls[c].todo
<1>1. HandlerOK(c) /\ t \in Seq(Requests) /\ t # << >>  BY HandlerTypes
<1>2. \/ PG!After(c) = Tail(t)
      \/ PG!After(c) = << >> /\ Tail(t) = <<{"client"}>>
  BY <1>1, AfterIs
<1> HIDE DEF t
<1>3. /\ Len(Tail(t)) = Len(t) - 1 /\ DOMAIN t = 1 .. Len(t)
         /\ DOMAIN Tail(t) = 1 .. Len(Tail(t))
      /\ Len(t) \in Nat
      /\ \A k \in DOMAIN Tail(t) : k + 1 \in DOMAIN t /\ Tail(t)[k] = t[k + 1]
  BY <1>1, TailOf
<1> DEFINE u == Tail(t)
<1>4. /\ Len(u) = Len(t) - 1 /\ DOMAIN u = 1 .. Len(u)
      /\ \A k \in DOMAIN u : k + 1 \in DOMAIN t /\ u[k] = t[k + 1]
  BY <1>3
<1>5. DOMAIN << >> = {}  OBVIOUS
<1>6. Tail(t) = <<{"client"}>> => u = <<{"client"}>>  OBVIOUS
<1>7. PG!After(c) = u \/ (PG!After(c) = << >> /\ u = <<{"client"}>>)  BY <1>2
<1> HIDE DEF u
<1>8. ASSUME NEW k \in DOMAIN t, k > 1 PROVE k - 1 \in DOMAIN u /\ u[k - 1] = t[k]
  <2>1. k - 1 \in DOMAIN u  BY <1>3, <1>4, <1>8
  <2>2. u[k - 1] = t[(k - 1) + 1]  BY <1>4, <2>1
  <2>3. (k - 1) + 1 = k  BY <1>3
  <2> QED  BY <2>1, <2>2, <2>3
<1>9. u = <<{"client"}>> => \A k \in DOMAIN u : u[k] = {"client"}  OBVIOUS
<1>10. ASSUME NEW k \in DOMAIN t, k > 1, t[k] # {"client"}
       PROVE  PG!After(c) # << >> /\ k - 1 \in DOMAIN PG!After(c) /\ PG!After(c)[k - 1] = t[k]
  <2>1. k - 1 \in DOMAIN u /\ u[k - 1] = t[k]  BY <1>8, <1>10
  <2>2. u # << >> /\ u # <<{"client"}>>  BY <1>5, <1>9, <1>10, <2>1
  <2> QED  BY <1>7, <2>1, <2>2
<1>11. PG!After(c) # << >> =>
         PG!After(c) = u /\ \A k \in DOMAIN PG!After(c) : k + 1 \in DOMAIN t
           /\ PG!After(c)[k] = t[k + 1]
  BY <1>4, <1>7
<1> QED  BY <1>10, <1>11 DEF t, u


LEMMA ChoiceOfPick ==
  ASSUME ScreensTyped, PageOK, NEW c \in Pair, NEW r \in Rows, PG!Pick(c, r)
  PROVE  ChoiceIsShown'
<1>1. /\ page' = page /\ choice' = r /\ PG!AtWork' = PG!AtWork \cup {c} /\ PG!P.picks # << >>
      /\ calls'[c].row = r /\ calls'[c].todo = PG!P.picks /\ PG!Upset \subseteq past'.crossed
  BY PickHistory
<1>2. \E k \in DOMAIN PG!P.picks : "detail" \in PG!P.picks[k]  BY <1>1 DEF PageOK
<1>3. "pick" \notin past'.crossed => PG!AtWork' = {c}  BY <1>1, OneStarts
<1> QED  BY <1>1, <1>2, <1>3 DEF ChoiceIsShown

LEMMA ChoiceOfSubmit ==
  ASSUME PagesFit, ScreensTyped, PageOK, ChoiceIsShown,
         NEW c \in Pair, NEW a \in PG!P.controls, NEW r \in Rows, PG!Submit(c, a, r)
  PROVE  ChoiceIsShown'
<1>1. /\ PG!AtWork' = PG!AtWork \cup {c} /\ calls'[c].row = r /\ calls'[c].todo = Order(a)
      /\ calls'[c].name = a.name
  BY SubmitStarts
<1>2. /\ UNCHANGED <<page, shown, choice>> /\ PG!Offered(a, r) /\ PG!Upset
         \subseteq past'.crossed
      /\ past'.failed = past.failed /\ past.crossed \subseteq past'.crossed
  BY SubmitHistory
<1>3. PG!P' = PG!P  BY <1>2, PageStays
<1> SUFFICES ASSUME PG!P.picks # << >>, "pick" \notin past'.crossed, ~past'.failed
             PROVE  /\ \A k \in DOMAIN Order(a) :
                         "detail" \in Order(a)[k] =>
                           r = choice \/ (page = "contacts" /\ a.name = "create" /\ k > 1)
                    /\ (\A k \in DOMAIN Order(a) : "detail" \notin Order(a)[k]) =>
                         DOMAIN shown["detail"] = {choice}
  <2>1. "pick" \notin past'.crossed => PG!AtWork' = {c}  BY <1>1, <1>2, OneStarts
  <2> QED  BY <1>1, <1>2, <1>3, <2>1 DEF ChoiceIsShown
<1>4. PG!AtWork = {}  BY <1>1, <1>2, OneStarts
<1>5. DOMAIN shown["detail"] = {choice}  BY <1>2, <1>4 DEF ChoiceIsShown
<1>6. ASSUME NEW k \in DOMAIN Order(a), "detail" \in Order(a)[k]
      PROVE  r = choice \/ (page = "contacts" /\ a.name = "create" /\ k > 1)
  <2>1. a.on = "detail" \/ (page = "contacts" /\ a.name = "create")
    BY <1>6 DEF PageOK, ControlOK
  <2>2. a.on = "detail" => r = choice
    <3>1. a.on = "detail" => a.on # None /\ a.on # "page"  BY PartsAre DEF PagesFit
    <3> QED  BY <1>2, <1>5, <3>1 DEF PG!Offered
  <2>3. k > 1
    <3>1. Order(a)[1] = {"act"} /\ Order(a) \in Seq(Requests)  BY OrderIs
    <3>2. k # 1  BY <1>6, <3>1
    <3> QED  BY <1>6, <3>1, <3>2
  <2> QED  BY <2>1, <2>2, <2>3
<1> QED  BY <1>5, <1>6

LEMMA ChoiceOfServe ==
  ASSUME PagesFit, ScreensTyped, ChoiceIsShown, NEW c \in Pair, PG!Serve(c)
  PROVE  ChoiceIsShown'
<1>1. UNCHANGED <<page, shown, choice>>  BY DEF PG!Serve
<1>2. /\ PG!AtWork' = PG!AtWork /\ \A d \in Pair : d # c => calls'[d] = calls[d]
      /\ calls'[c].todo = calls[c].todo /\ calls'[c].name = calls[c].name
         /\ calls'[c].row = calls[c].row
  BY <1>1, ServeStep
<1>3. past'.crossed = past.crossed /\ past'.failed = past.failed /\ past'.told = past.told
        /\ past'.left = past.left
  BY WrittenIs, ReadHistory
<1>4. \A d \in PG!AtWork : calls'[d].todo = calls[d].todo /\ calls'[d].name = calls[d].name
                           /\ calls'[d].row = calls[d].row
  BY <1>2, AtWorkIs
<1>5. PG!P' = PG!P  BY <1>1, PageStays
<1> QED  BY <1>1, <1>2, <1>3, <1>4, <1>5 DEF ChoiceIsShown

LEMMA ChoiceOfAnswer ==
  ASSUME PagesFit, ScreensTyped, PageOK, OneIsAtWork, ChoiceIsShown, NEW c \in Pair,
         PG!Answer(c)
  PROVE  ChoiceIsShown'
<1> DEFINE t == calls[c].todo
           rest == PG!After(c)
           r == calls[c].row
           new == calls[c].name = "create" /\ page = "contacts"
<1>1. /\ page' = page /\ calls[c].pc = "served" /\ c \in PG!AtWork
      /\ shown' = PG!Displayed(c) /\ PG!GoOn(c, rest) /\ Remains(c, rest)
      /\ past'.failed = past.failed /\ past'.told = past.told /\ past'.left = past.left
         /\ past.crossed \subseteq past'.crossed
      /\ choice' = IF new /\ rest # << >> /\ Head(rest) = {"detail"} THEN r ELSE choice
  BY AnswerHistory DEF Untold
<1>2. PG!P' = PG!P  BY <1>1, PageStays
<1> SUFFICES ASSUME PG!P.picks # << >>, "pick" \notin past'.crossed, ~past'.failed
             PROVE  /\ \A d \in PG!AtWork' : \A k \in DOMAIN calls'[d].todo :
                         "detail" \in calls'[d].todo[k] =>
                           \/ calls'[d].row = choice'
                           \/ page = "contacts" /\ calls'[d].name = "create" /\ k > 1
                    /\ (\A d \in PG!AtWork' : \A k \in DOMAIN calls'[d].todo :
                          "detail" \notin calls'[d].todo[k]) =>
                         DOMAIN shown'["detail"] = {choice'}
  BY <1>1, <1>2 DEF ChoiceIsShown
<1>3. PG!AtWork = {c}  BY <1>1 DEF OneIsAtWork
<1>4. /\ \A k \in DOMAIN t : "detail" \in t[k] => r = choice \/ (new /\ k > 1)
      /\ (\A k \in DOMAIN t : "detail" \notin t[k]) => DOMAIN shown["detail"] = {choice}
  BY <1>1, <1>3 DEF ChoiceIsShown
<1>5. /\ rest = << >> => PG!AtWork' = {}
      /\ rest # << >> => /\ PG!AtWork' = {c} /\ calls'[c].todo = rest
                            /\ calls'[c].name = calls[c].name
                         /\ calls'[c].row = r
  BY <1>1, <1>3, GoOnStep
<1>6. /\ rest # << >> => \A k \in DOMAIN rest : k + 1 \in DOMAIN t /\ rest[k] = t[k + 1]
      /\ \A k \in DOMAIN t : k > 1 /\ t[k] # {"client"} =>
           rest # << >> /\ k - 1 \in DOMAIN rest /\ rest[k - 1] = t[k]
  BY <1>1, RestIs
<1>7. rest # << >> => /\ Head(rest) = rest[1] /\ Script(rest)
        /\ \A k \in DOMAIN rest : k \in Nat /\ k >= 1
  BY <1>1, NextReading, ScriptIs
<1>8. /\ Head(t) = t[1] /\ 1 \in DOMAIN t /\ Script(t)
      /\ \A k \in DOMAIN t : k \in Nat /\ k >= 1
  BY <1>1, HandlerTypes, ScriptIs
<1>9. /\ "detail" \in t[1] => DOMAIN shown'["detail"] = {r}
      /\ "detail" \notin t[1] => shown'["detail"] = shown["detail"]
  <2>1. "detail" \in PG!Parts /\ PG!Seen("detail", r) = {r}
    BY PartsAre DEF PG!Seen, PG!Lists, PG!Forms
  <2>2. Reads(c, "detail") <=> "detail" \in t[1]  BY <1>8 DEF Reads
  <2> QED  BY <1>1, <2>1, <2>2, DisplayedIs
<1> HIDE DEF t, rest, r, new
<1>10. ASSUME rest # << >>, NEW k \in DOMAIN rest, "detail" \in rest[k]
       PROVE  r = choice' \/ (new /\ k > 1)
  <2>1. k + 1 \in DOMAIN t /\ "detail" \in t[k + 1] /\ k \in Nat /\ k >= 1  BY <1>6, <1>7, <1>10
  <2>2. r = choice \/ new  BY <1>4, <2>1
  <2>3. CASE new /\ k = 1
    <3>1. rest[1] = {"detail"}  BY <1>7, <1>10, <2>3 DEF Script, new
    <3> QED  BY <1>1, <1>7, <1>10, <2>3, <3>1
  <2>4. CASE ~new  BY <1>1, <2>2, <2>4
  <2> QED  BY <2>1, <2>3, <2>4
<1>11. ASSUME rest # << >> => \A k \in DOMAIN rest : "detail" \notin rest[k]
       PROVE  DOMAIN shown'["detail"] = {choice'}
  <2>1. choice' = choice
    <3>1. rest # << >> => "detail" \notin rest[1]  BY <1>1, <1>11, NextReading
    <3> QED  BY <1>1, <1>7, <3>1
  <2>2. \A k \in DOMAIN t : k > 1 => "detail" \notin t[k]
    <3> SUFFICES ASSUME NEW k \in DOMAIN t, k > 1, "detail" \in t[k] PROVE FALSE
      OBVIOUS
    <3>1. t[k] # {"client"}  OBVIOUS
    <3> QED  BY <1>6, <1>11, <3>1
  <2>3. CASE "detail" \in t[1]
    <3>1. r = choice  BY <1>4, <1>8, <2>3
    <3> QED  BY <1>9, <2>1, <2>3, <3>1
  <2>4. CASE "detail" \notin t[1]
    <3>1. \A k \in DOMAIN t : "detail" \notin t[k]  BY <1>8, <2>2, <2>4
    <3> QED  BY <1>4, <1>9, <2>1, <2>4, <3>1
  <2> QED  BY <2>3, <2>4
<1>12. \A d \in PG!AtWork' : d = c /\ rest # << >> /\ calls'[d].todo = rest /\ calls'[d].row = r
                             /\ (new <=> page = "contacts" /\ calls'[d].name = "create")
  BY <1>5 DEF new
<1>13. rest # << >> => c \in PG!AtWork'  BY <1>5
<1> QED  BY <1>10, <1>11, <1>12, <1>13

LEMMA ChoiceOfFail ==
  ASSUME ScreensTyped, NEW c \in Pair, PG!Fail(c)
  PROVE  ChoiceIsShown'
BY FailHistory DEF ChoiceIsShown

LEMMA ChoiceOfFailLeniently ==
  ASSUME PagesFit, ScreensTyped, PageOK, NEW c \in Pair, PG!FailLeniently(c)
  PROVE  ChoiceIsShown'
<1>1. page = "work" /\ page' = page  BY LenientHistory, LenientIs
<1>2. PG!P.picks = << >> /\ PG!P' = PG!P  BY <1>1, PageStays DEF PageOK
<1> QED  BY <1>2 DEF ChoiceIsShown

-----------------------------------------------------------------------------
(* The panel of the client beside a contact.                               *)

\* A handler that has just started does not read the panel.
LEMMA StartsElsewhere ==
  ASSUME NEW t, Script(t), (\E k \in DOMAIN t : "detail" \in t[k]) \/ page # "contacts"
  PROVE  Head(t) # {"client"}
<1>1. t \in Seq(Requests) /\ t # << >>  BY ScriptIs
<1>2. Head(t) = t[1] /\ 1 \in DOMAIN t /\ DOMAIN t = 1 .. Len(t) /\ Len(t) \in Nat
  BY <1>1, TailOf
<1>3. CASE page # "contacts"  BY <1>2, <1>3 DEF Script
<1>4. CASE page = "contacts"
  <2> SUFFICES ASSUME Head(t) = {"client"} PROVE FALSE
    OBVIOUS
  <2>1. 1 = Len(t) /\ t[1] = {"client"}  BY <1>2, <1>4 DEF Script
  <2>2. PICK k \in DOMAIN t : "detail" \in t[k]
    BY <1>4
  <2>3. k = 1
    <3>1. DOMAIN t = 1 .. 1  BY <1>2, <2>1
    <3> QED  BY <3>1
  <2> QED  BY <2>1, <2>2, <2>3
<1> QED  BY <1>3, <1>4

LEMMA PanelOfStart ==
  ASSUME ScreensTyped, PanelBelongs, page' = page, shown' = shown, NEW c,
         PG!AtWork' = PG!AtWork \cup {c},
         past.crossed \subseteq past'.crossed, PG!Upset \subseteq past'.crossed,
         Head(calls'[c].todo) # {"client"}
  PROVE  PanelBelongs'
<1>1. "pick" \notin past'.crossed => PG!AtWork' = {c}  BY OneStarts
<1> QED  BY <1>1 DEF PanelBelongs

LEMMA PanelOfPick ==
  ASSUME ScreensTyped, PageOK, PanelBelongs, NEW c \in Pair, NEW r \in Rows, PG!Pick(c, r)
  PROVE  PanelBelongs'
<1>1. /\ page' = page /\ shown' = shown /\ PG!AtWork' = PG!AtWork \cup {c} /\ PG!P.picks # << >>
      /\ calls'[c].todo = PG!P.picks /\ PG!Upset \subseteq past'.crossed /\ past.crossed
         \subseteq past'.crossed
  BY PickHistory
<1>2. Head(PG!P.picks) # {"client"}  BY <1>1, StartsElsewhere DEF PageOK
<1> QED  BY <1>1, <1>2, PanelOfStart

LEMMA PanelOfSubmit ==
  ASSUME PagesFit, ScreensTyped, PageOK, PanelBelongs,
         NEW c \in Pair, NEW a \in PG!P.controls, NEW r \in Rows, PG!Submit(c, a, r)
  PROVE  PanelBelongs'
<1>1. PG!AtWork' = PG!AtWork \cup {c} /\ calls'[c].todo = Order(a)  BY SubmitStarts
<1>2. UNCHANGED <<page, shown>> /\ PG!Upset \subseteq past'.crossed /\ past.crossed
        \subseteq past'.crossed
  BY SubmitHistory
<1>3. Head(Order(a)) # {"client"}
  <2>1. Head(Order(a)) = {"act"}  BY OrderIs
  <2> QED  BY <2>1
<1> QED  BY <1>1, <1>2, <1>3, PanelOfStart

LEMMA PanelOfServe ==
  ASSUME PagesFit, ScreensTyped, PanelBelongs, NEW c \in Pair, PG!Serve(c)
  PROVE  PanelBelongs'
<1>1. UNCHANGED <<page, shown>>  BY DEF PG!Serve
<1>2. /\ PG!AtWork' = PG!AtWork /\ \A d \in Pair : d # c => calls'[d] = calls[d]
      /\ calls'[c].todo = calls[c].todo /\ calls'[c].row = calls[c].row
  BY <1>1, ServeStep
<1>3. past'.crossed = past.crossed  BY WrittenIs, ReadHistory
<1>4. \A d \in PG!AtWork : calls'[d].todo = calls[d].todo /\ calls'[d].row = calls[d].row
  BY <1>2, AtWorkIs
<1> QED  BY <1>1, <1>2, <1>3, <1>4 DEF PanelBelongs

LEMMA PanelOfAnswer ==
  ASSUME PagesFit, ScreensTyped, PageOK, OneIsAtWork, PanelBelongs, NEW c \in Pair, PG!Answer(c)
  PROVE  PanelBelongs'
<1> DEFINE t == calls[c].todo
           rest == PG!After(c)
           r == calls[c].row
<1>1. /\ page' = page /\ calls[c].pc = "served" /\ c \in PG!AtWork
      /\ shown' = PG!Displayed(c) /\ PG!GoOn(c, rest) /\ Remains(c, rest)
      /\ past.crossed \subseteq past'.crossed
  BY AnswerHistory DEF Untold
<1>2. /\ \A d \in Pair : d # c => calls'[d] = calls[d]
      /\ rest = << >> => PG!AtWork' = PG!AtWork \ {c}
      /\ rest # << >> => /\ PG!AtWork' = PG!AtWork /\ calls'[c].todo = rest /\ calls'[c].row = r
  BY <1>1, GoOnStep
<1>3. /\ Head(t) = t[1] /\ 1 \in DOMAIN t /\ Script(t)  BY <1>1, HandlerTypes
<1>4. \A p : Reads(c, p) <=> p \in t[1]  BY <1>3 DEF Reads
<1>5. "detail" \in PG!Parts /\ "client" \in PG!Parts
      /\ (PG!P.picks # << >> => PG!Seen("detail", r) = {r} /\ PG!Seen("client", r) = {r})
  BY PartsAre DEF PG!Seen, PG!Lists, PG!Forms
<1>6. CASE page # "contacts"
  <2>1. DOMAIN shown'["client"] = {}  BY <1>1, <1>6, DisplayedIs DEF PanelBelongs
  <2>2. \A d \in PG!AtWork' : Head(calls'[d].todo) # {"client"}
    <3> TAKE d \in PG!AtWork'
    <3>1. d \in PG!AtWork /\ (rest = << >> => d # c)  BY <1>2
    <3>2. CASE d = c
      <4>1. Script(rest) /\ calls'[d].todo = rest  BY <1>1, <1>2, <3>1, <3>2, NextReading
      <4> QED  BY <1>6, <4>1, StartsElsewhere
    <3>3. CASE d # c
      <4>1. Script(calls[d].todo) /\ calls'[d] = calls[d]
        BY <1>1, <1>2, <3>1, <3>3, HandlerTypes, AtWorkIs
      <4> QED  BY <1>6, <4>1, StartsElsewhere
    <3> QED  BY <3>2, <3>3
  <2> QED  BY <1>1, <1>6, <2>1, <2>2 DEF PanelBelongs
<1>7. CASE page = "contacts"
  <2> SUFFICES ASSUME "pick" \notin past'.crossed
               PROVE  /\ DOMAIN shown'["client"] \subseteq DOMAIN shown'["detail"]
                      /\ \A d \in PG!AtWork' :
                           Head(calls'[d].todo) = {"client"}
                             => DOMAIN shown'["detail"] = {calls'[d].row}
    BY <1>1, <1>7 DEF PanelBelongs
  <2>1. PG!AtWork = {c}  BY <1>1 DEF OneIsAtWork
  <2>2. /\ DOMAIN shown["client"] \subseteq DOMAIN shown["detail"]
        /\ Head(t) = {"client"} => DOMAIN shown["detail"] = {r}
    BY <1>1, <2>1 DEF PanelBelongs
  <2>3. PG!P.picks # << >>  BY <1>7 DEF PageOK
  <2>4. /\ "client" \in t[1] => t[1] = {"client"}
        /\ "detail" \in t[1] => t[1] = {"detail"}
    BY <1>3, <1>7 DEF Script
  <2>5. /\ "detail" \in t[1] => DOMAIN shown'["detail"] = {r}
        /\ "detail" \notin t[1] => shown'["detail"] = shown["detail"]
        /\ "client" \in t[1] => DOMAIN shown'["client"] = {r}
        /\ "client" \notin t[1] =>
             \/ shown'["client"] = PG!Nothing
             \/ /\ shown'["client"] = shown["client"]
                /\ t[1] = {"detail"} => DOMAIN shown["detail"] = {r}
    <3>1. /\ "detail" \in t[1] => DOMAIN shown'["detail"] = {r}
          /\ "client" \in t[1] => DOMAIN shown'["client"] = {r}
      BY <1>1, <1>4, <1>5, <2>3, DisplayedIs
    <3>2. "detail" \notin t[1] => shown'["detail"] = shown["detail"]
      BY <1>1, <1>4, <1>5, DisplayedIs
    <3>3. "client" \notin t[1] =>
             \/ shown'["client"] = PG!Nothing
             \/ /\ shown'["client"] = shown["client"]
                /\ t[1] = {"detail"} => DOMAIN shown["detail"] = {r}
      BY <1>1, <1>3, <1>4, <1>7, DisplayedIs
    <3> QED  BY <3>1, <3>2, <3>3
  <2>6. DOMAIN PG!Nothing = {}  BY ViewsAre
  <2>7. ASSUME rest # << >>, Head(rest) = {"client"} PROVE DOMAIN shown'["detail"] = {r}
    <3>1. Head(rest) = rest[1] /\ 1 \in DOMAIN rest  BY <1>1, <2>7, NextReading
    <3>2. 1 + 1 \in DOMAIN t /\ rest[1] = t[1 + 1]  BY <1>1, <2>7, <3>1, RestIs
    <3>3. t[(1 + 1) - 1] = {"detail"}  BY <1>3, <1>7, <2>7, <3>1, <3>2 DEF Script
    <3>4. (1 + 1) - 1 = 1  OBVIOUS
    <3>5. "detail" \in t[1]  BY <3>3, <3>4
    <3> QED  BY <2>5, <3>5
  <2> HIDE DEF t, rest, r
  <2>8. DOMAIN shown'["client"] \subseteq DOMAIN shown'["detail"]
    <3>1. CASE "client" \in t[1]  BY <1>3, <2>2, <2>4, <2>5, <3>1
    <3>2. CASE "client" \notin t[1] /\ "detail" \in t[1]  BY <2>2, <2>4, <2>5, <2>6, <3>2
    <3>3. CASE "client" \notin t[1] /\ "detail" \notin t[1]  BY <2>2, <2>5, <2>6, <3>3
    <3> QED  BY <3>1, <3>2, <3>3
  <2>9. \A d \in PG!AtWork' : d = c /\ rest # << >> /\ calls'[d].todo = rest
          /\ calls'[d].row = r
    BY <1>2, <2>1
  <2> QED  BY <2>7, <2>8, <2>9
<1> QED  BY <1>6, <1>7

LEMMA PanelOfFail ==
  ASSUME ScreensTyped, PanelBelongs, NEW c \in Pair, PG!Fail(c)
  PROVE  PanelBelongs'
<1> DEFINE rest == PG!AfterFailure(c)
<1>1. /\ page' = page /\ c \in PG!AtWork /\ PG!GoOn(c, rest) /\ Remains(c, rest)
      /\ past.crossed \subseteq past'.crossed
  BY FailHistory DEF Untold
<1>2. /\ \A d \in Pair : d # c => calls'[d] = calls[d]
      /\ rest = << >> => PG!AtWork' = PG!AtWork \ {c}
      /\ rest # << >> => PG!AtWork' = PG!AtWork /\ calls'[c].todo = rest
  BY <1>1, GoOnStep
<1>3. rest # << >> => Head(rest) # {"client"}
  <2>1. CASE rest = PG!ContactSelect  BY <2>1 DEF PG!ContactSelect
  <2>2. CASE rest = <<{"contacts"}>>  BY <2>2
  <2>3. CASE page = "leads" /\ rest # << >>
    <3>1. Script(rest)  BY <1>1, <2>3 DEF Remains
    <3> QED  BY <2>3, <3>1, StartsElsewhere
  <2>4. rest = PG!ContactSelect \/ rest = <<{"contacts"}>> \/ page = "leads" \/ rest = << >>
    BY DEF PG!AfterFailure
  <2> QED  BY <2>1, <2>2, <2>3, <2>4
<1> HIDE DEF rest
<1>4. \A d \in PG!AtWork' : d \in PG!AtWork /\ (calls'[d] = calls[d]
        \/ Head(calls'[d].todo) # {"client"})
  BY <1>2, <1>3, AtWorkIs
<1>5. shown'["detail"] = shown["detail"] /\ shown'["client"] = shown["client"]
  BY FailShows, PartsAre
<1> QED  BY <1>1, <1>4, <1>5 DEF PanelBelongs

LEMMA PanelOfFailLeniently ==
  ASSUME PagesFit, ScreensTyped, PanelBelongs, NEW c \in Pair, PG!FailLeniently(c)
  PROVE  PanelBelongs'
<1>1. page = "work" /\ Tail(calls[c].todo) = << >>  BY LenientHistory
<1>2. /\ page' = page /\ c \in PG!AtWork /\ PG!GoOn(c, Tail(calls[c].todo)) /\ HandlerOK(c)
      /\ Remains(c, Tail(calls[c].todo)) /\ "work" \in Head(calls[c].todo)
      /\ \A p \in PG!Parts \ {"work"} :
              shown'[p] = IF p \in Head(calls[c].todo) THEN calls[c].got[p] ELSE shown[p]
  BY LenientIs
<1>3. PG!AtWork' \subseteq PG!AtWork /\ \A d \in Pair : d # c => calls'[d] = calls[d]
  BY <1>1, <1>2, GoOnStep
<1>4. PG!AtWork' = PG!AtWork \ {c}  BY <1>1, <1>2, GoOnStep
<1>5. \A d \in PG!AtWork : Script(calls[d].todo) /\ Head(calls[d].todo) = calls[d].todo[1]
        /\ 1 \in DOMAIN calls[d].todo
  BY HandlerTypes
<1>6. \A d \in PG!AtWork : "client" \notin Head(calls[d].todo)  BY <1>1, <1>5 DEF Script
<1>7. shown'["client"] = shown["client"]
  <2>1. "client" \in PG!Parts \ {"work"}  BY PartsAre
  <2> QED  BY <1>2, <1>6, <2>1
<1>8. \A d \in PG!AtWork' : calls'[d] = calls[d] /\ d \in PG!AtWork  BY <1>3, <1>4, AtWorkIs
<1> QED  BY <1>1, <1>2, <1>6, <1>7, <1>8 DEF PanelBelongs

-----------------------------------------------------------------------------
(* Nothing is ahead of the server.                                         *)

LEMMA NumbersAre ==
  ASSUME ScreensTyped
  PROVE  /\ \A r \in Rows : past.mine[r] \in 0 .. MaxVersion /\ server[r].n \in 0 .. MaxVersion
         /\ \A p \in PG!Parts : \A r \in DOMAIN shown[p] : r \in Rows
            /\ shown[p][r].n \in 0 .. MaxVersion
         /\ \A c \in PG!AtWork : calls[c].pc = "served" /\ ~Acts(c)
                 => \A p \in Head(calls[c].todo) :
              p \in PG!Parts /\ \A r \in DOMAIN calls[c].got[p] : r \in Rows
                /\ calls[c].got[p][r].n \in 0 .. MaxVersion
<1>1. \A r \in Rows : past.mine[r] \in 0 .. MaxVersion /\ server[r].n \in 0 .. MaxVersion
  BY DEF ScreensTyped, Histories, Version
<1>2. \A p \in PG!Parts : \A r \in DOMAIN shown[p] : r \in Rows
        /\ shown[p][r].n \in 0 .. MaxVersion
  BY ViewsAre DEF ScreensTyped
<1>3. ASSUME NEW c \in PG!AtWork, calls[c].pc = "served", ~Acts(c),
               NEW p \in Head(calls[c].todo)
      PROVE  p \in PG!Parts /\ \A r \in DOMAIN calls[c].got[p] : r \in Rows
               /\ calls[c].got[p][r].n \in 0 .. MaxVersion
  <2>1. p \in PG!Parts /\ calls[c].got[p] \in Views  BY <1>3, DisplayedIsTyped
  <2> QED  BY <2>1, ViewsAre
<1> QED  BY <1>1, <1>2, <1>3

\* The server moves, or nothing does: what was not ahead is not.
LEMMA AheadStays ==
  ASSUME ScreensTyped, ScreensTyped', NothingIsAhead, shown' = shown, past'.mine = past.mine,
         \A r \in Rows : server'[r].n >= server[r].n,
         \A d \in PG!AtWork' : calls'[d].pc = "served" /\ ~Acts(d)' =>
           d \in PG!AtWork /\ calls'[d] = calls[d]
  PROVE  NothingIsAhead'
<1>1. \A r \in Rows : past'.mine[r] <= server'[r].n
  <2> TAKE r \in Rows
  <2>1. past.mine[r] \in Int /\ server[r].n \in Int /\ server'[r].n \in Int
          /\ past.mine[r] <= server[r].n
    BY NumbersAre DEF NothingIsAhead, ScreensTyped, Version
  <2> QED  BY <2>1
<1>2. \A p \in PG!Parts : \A r \in DOMAIN shown[p] : shown[p][r].n <= server'[r].n
  <2> TAKE p \in PG!Parts
  <2> TAKE r \in DOMAIN shown[p]
  <2>1. r \in Rows /\ shown[p][r].n \in Int /\ shown[p][r].n <= server[r].n
    BY NumbersAre DEF NothingIsAhead
  <2>2. server[r].n \in Int /\ server'[r].n \in Int  BY <2>1 DEF ScreensTyped, Version
  <2> QED  BY <2>1, <2>2
<1>3. ASSUME NEW d \in PG!AtWork', calls'[d].pc = "served", ~Acts(d)',
               NEW p \in Head(calls'[d].todo),
             NEW r \in DOMAIN calls'[d].got[p]
      PROVE  calls'[d].got[p][r].n <= server'[r].n
  <2>1. d \in PG!AtWork /\ calls'[d] = calls[d]  BY <1>3
  <2>2. calls[d].pc = "served" /\ ~Acts(d)  BY <1>3, <2>1, SameHandler
  <2>3. r \in Rows /\ calls[d].got[p][r].n \in Int /\ calls[d].got[p][r].n <= server[r].n
    BY <1>3, <2>1, <2>2, NumbersAre DEF NothingIsAhead
  <2>4. server[r].n \in Int /\ server'[r].n \in Int  BY <2>3 DEF ScreensTyped, Version
  <2> QED  BY <2>1, <2>3, <2>4
<1> QED  BY <1>1, <1>2, <1>3 DEF NothingIsAhead

\* The server stays, and what is shown is what was shown or on its way.
LEMMA AheadShown ==
  ASSUME ScreensTyped, NothingIsAhead, NEW c \in PG!AtWork, calls[c].pc = "served",
         server' = server, past'.mine = past.mine,
         \A p \in PG!Parts : \/ shown'[p] = shown[p] \/ shown'[p] = PG!Nothing
                             \/ ~Acts(c) /\ Reads(c, p) /\ shown'[p] = calls[c].got[p],
         \A d \in PG!AtWork' : calls'[d].pc = "served" /\ ~Acts(d)' =>
           d \in PG!AtWork /\ calls'[d] = calls[d]
  PROVE  NothingIsAhead'
<1>1. ASSUME NEW p \in PG!Parts, NEW r \in DOMAIN shown'[p] PROVE shown'[p][r].n <= server[r].n
  <2>1. CASE shown'[p] = shown[p]  BY <1>1, <2>1 DEF NothingIsAhead
  <2>2. CASE shown'[p] = PG!Nothing  BY <1>1, <2>2, ViewsAre
  <2>3. CASE ~Acts(c) /\ Reads(c, p) /\ shown'[p] = calls[c].got[p]
    BY <1>1, <2>3 DEF NothingIsAhead, Reads
  <2> QED  BY <2>1, <2>2, <2>3
<1>2. ASSUME NEW d \in PG!AtWork', calls'[d].pc = "served", ~Acts(d)',
               NEW p \in Head(calls'[d].todo),
             NEW r \in DOMAIN calls'[d].got[p]
      PROVE  calls'[d].got[p][r].n <= server[r].n
  <2>1. d \in PG!AtWork /\ calls'[d] = calls[d]  BY <1>2
  <2>2. calls[d].pc = "served" /\ ~Acts(d)  BY <1>2, <2>1, SameHandler
  <2> QED  BY <1>2, <2>1, <2>2 DEF NothingIsAhead
<1> QED  BY <1>1, <1>2 DEF NothingIsAhead

LEMMA AheadOfStart ==
  ASSUME ScreensTyped, ScreensTyped', NothingIsAhead, UNCHANGED <<server, shown>>,
         past'.mine = past.mine,
         NEW c, PG!AtWork' = PG!AtWork \cup {c}, calls'[c].pc = "sent",
         \A d \in Pair : d # c => calls'[d] = calls[d]
  PROVE  NothingIsAhead'
<1>1. \A r \in Rows : server'[r].n >= server[r].n  BY NumbersAre
<1>2. \A d \in PG!AtWork' : calls'[d].pc = "served" => d \in PG!AtWork /\ calls'[d] = calls[d]
  BY AtWorkIs
<1> QED  BY <1>1, <1>2, AheadStays

LEMMA AheadOfServe ==
  ASSUME PagesFit, ScreensTyped, ScreensTyped', NothingIsAhead, NEW c \in Pair, PG!Serve(c)
  PROVE  NothingIsAhead'
<1>1. UNCHANGED <<page, shown>>  BY DEF PG!Serve
<1>2. /\ c \in PG!AtWork /\ PG!AtWork' = PG!AtWork /\ \A d \in Pair : d # c
         => calls'[d] = calls[d]
      /\ calls'[c].pc = "served" /\ calls'[c].todo = calls[c].todo
      /\ ~Acts(c) => calls'[c].got = PG!Reading(c)
  BY <1>1, ServeStep
<1>3. Acts(c)' <=> Acts(c)  BY <1>2 DEF Acts
<1>4. \A d \in PG!AtWork' : d # c => d \in PG!AtWork /\ calls'[d] = calls[d]  BY <1>2, AtWorkIs
<1>5. CASE Acts(c)
  <2> DEFINE r == calls[c].row
  <2>1. /\ r \in Rows /\ server'[r].n = server[r].n + 1
        /\ \A q \in Rows : server'[q].n >= server[q].n
        /\ past'.mine = [past.mine EXCEPT ![r] = server'[r].n]
    BY <1>5, WrittenIs
  <2> HIDE DEF r
  <2>2. \A q \in Rows : past'.mine[q] <= server'[q].n
    <3> TAKE q \in Rows
    <3>1. past.mine[q] \in Int /\ server[q].n \in Int /\ server'[q].n \in Int
            /\ past.mine[q] <= server[q].n
      BY NumbersAre DEF NothingIsAhead, ScreensTyped, Version
    <3>2. past'.mine[q] = IF q = r THEN server'[r].n ELSE past.mine[q]
      BY <2>1 DEF ScreensTyped, Histories
    <3>3. server'[q].n >= server[q].n  BY <2>1
    <3> QED  BY <3>1, <3>2, <3>3
  <2>3. \A p \in PG!Parts : \A q \in DOMAIN shown[p] : shown[p][q].n <= server'[q].n
    <3> TAKE p \in PG!Parts
    <3> TAKE q \in DOMAIN shown[p]
    <3>1. q \in Rows /\ shown[p][q].n \in Int /\ shown[p][q].n <= server[q].n
      BY NumbersAre DEF NothingIsAhead
    <3>2. server[q].n \in Int /\ server'[q].n \in Int /\ server'[q].n >= server[q].n
      BY <2>1, <3>1 DEF ScreensTyped, Version
    <3> QED  BY <3>1, <3>2
  <2>4. ASSUME NEW d \in PG!AtWork', calls'[d].pc = "served", ~Acts(d)',
                 NEW p \in Head(calls'[d].todo),
               NEW q \in DOMAIN calls'[d].got[p]
        PROVE  calls'[d].got[p][q].n <= server'[q].n
    <3>1. d \in PG!AtWork /\ calls'[d] = calls[d]  BY <1>3, <1>4, <1>5, <2>4
    <3>2. calls[d].pc = "served" /\ ~Acts(d)  BY <2>4, <3>1, SameHandler
    <3>3. q \in Rows /\ calls[d].got[p][q].n \in Int /\ calls[d].got[p][q].n <= server[q].n
      BY <2>4, <3>1, <3>2, NumbersAre DEF NothingIsAhead
    <3>4. server[q].n \in Int /\ server'[q].n \in Int /\ server'[q].n >= server[q].n
      BY <2>1, <3>3 DEF ScreensTyped, Version
    <3> QED  BY <3>1, <3>3, <3>4
  <2> QED  BY <1>1, <2>2, <2>3, <2>4 DEF NothingIsAhead
<1>6. CASE ~Acts(c)
  <2>1. UNCHANGED <<server, drafts, past>>  BY <1>6, ReadHistory
  <2>2. ASSUME NEW d \in PG!AtWork', calls'[d].pc = "served", ~Acts(d)',
                 NEW p \in Head(calls'[d].todo),
               NEW q \in DOMAIN calls'[d].got[p]
        PROVE  calls'[d].got[p][q].n <= server[q].n
    <3>1. CASE d = c
      <4>1. calls'[c].got[p] = [x \in PG!Seen(p, calls[c].row) |-> server[x]]
        BY <1>2, <1>6, <2>2, <3>1 DEF PG!Reading
      <4>2. q \in PG!Seen(p, calls[c].row) /\ calls'[c].got[p][q] = server[q]
        BY <2>2, <3>1, <4>1
      <4>3. q \in Rows
        <5>1. p \in PG!Parts  BY <1>2, <1>6, <2>2, <3>1, HandlerTypes, ScriptIs DEF Acts
        <5>2. calls[c].row \in Rows  BY <1>2, HandlerTypes
        <5> QED  BY <4>2, <5>1, <5>2 DEF PG!Seen, PagesFit
      <4>4. server[q].n \in Int  BY <4>3, NumbersAre
      <4> QED  BY <3>1, <4>2, <4>4
    <3>2. CASE d # c
      <4>1. d \in PG!AtWork /\ calls'[d] = calls[d]  BY <1>4, <3>2
      <4>2. calls[d].pc = "served" /\ ~Acts(d)  BY <2>2, <4>1, SameHandler
      <4> QED  BY <2>2, <4>1, <4>2 DEF NothingIsAhead
    <3> QED  BY <3>1, <3>2
  <2> QED  BY <1>1, <2>1, <2>2 DEF NothingIsAhead
<1> QED  BY <1>5, <1>6

\* The handlers that are served after one has gone on are those that were.
LEMMA ServedAfter ==
  ASSUME ScreensTyped, page' = page, NEW c \in PG!AtWork, NEW rest, Remains(c, rest),
         PG!GoOn(c, rest)
  PROVE  \A d \in PG!AtWork' : calls'[d].pc = "served" =>
           d \in PG!AtWork /\ d # c /\ calls'[d] = calls[d]
<1>1. /\ \A d \in Pair : d # c => calls'[d] = calls[d]
      /\ rest = << >> => PG!AtWork' = PG!AtWork \ {c}
      /\ rest # << >> => PG!AtWork' = PG!AtWork /\ calls'[c].pc = "sent"
  BY GoOnStep
<1> QED  BY <1>1, AtWorkIs

LEMMA AheadOfAnswer ==
  ASSUME ScreensTyped, NothingIsAhead, NEW c \in Pair, PG!Answer(c)
  PROVE  NothingIsAhead'
<1>1. /\ UNCHANGED <<page, server>> /\ calls[c].pc = "served" /\ c \in PG!AtWork
      /\ shown' = PG!Displayed(c) /\ PG!GoOn(c, PG!After(c)) /\ Remains(c, PG!After(c))
         /\ past'.mine = past.mine
  BY AnswerHistory DEF Untold
<1>2. \A d \in PG!AtWork' : calls'[d].pc = "served" => d \in PG!AtWork /\ calls'[d] = calls[d]
  BY <1>1, ServedAfter
<1>3. \A p \in PG!Parts : Reads(c, p) => ~Acts(c)  BY PartsAre DEF Reads, Acts
<1>4. \A p \in PG!Parts : \/ shown'[p] = shown[p] \/ shown'[p] = PG!Nothing
                          \/ ~Acts(c) /\ Reads(c, p) /\ shown'[p] = calls[c].got[p]
  <2> TAKE p \in PG!Parts
  <2>1. CASE Reads(c, p)  BY <1>1, <1>3, <2>1, DisplayedIs
  <2>2. CASE ~Reads(c, p) /\ p # "client"  BY <1>1, <2>2, DisplayedIs
  <2>3. CASE ~Reads(c, p) /\ p = "client"  BY <1>1, <2>3, DisplayedIs
  <2> QED  BY <2>1, <2>2, <2>3
<1> QED  BY <1>1, <1>2, <1>4, AheadShown

LEMMA AheadOfFail ==
  ASSUME ScreensTyped, ScreensTyped', NothingIsAhead, NEW c \in Pair, PG!Fail(c)
  PROVE  NothingIsAhead'
<1>1. /\ UNCHANGED <<page, server>> /\ c \in PG!AtWork /\ PG!GoOn(c, PG!AfterFailure(c))
      /\ Remains(c, PG!AfterFailure(c)) /\ past'.mine = past.mine
  BY FailHistory DEF Untold
<1>2. \A d \in PG!AtWork' : calls'[d].pc = "served" => d \in PG!AtWork /\ calls'[d] = calls[d]
  BY <1>1, ServedAfter
<1>3. \A p \in PG!Parts : \A r \in DOMAIN shown'[p] : shown'[p] = shown[p]
        /\ r \in DOMAIN shown[p]
  BY FailShows, ViewsAre
<1>4. \A d \in PG!AtWork' : calls'[d].pc = "served" /\ ~Acts(d)' =>
        calls[d].pc = "served" /\ ~Acts(d)
  BY <1>2, SameHandler
<1> QED  BY <1>1, <1>2, <1>3, <1>4 DEF NothingIsAhead

LEMMA AheadOfFailLeniently ==
  ASSUME PagesFit, ScreensTyped, NothingIsAhead, NEW c \in Pair, PG!FailLeniently(c)
  PROVE  NothingIsAhead'
<1>1. /\ UNCHANGED <<page, server>> /\ c \in PG!AtWork /\ PG!GoOn(c, Tail(calls[c].todo))
      /\ calls[c].pc = "served" /\ ~Acts(c) /\ Remains(c, Tail(calls[c].todo))
      /\ shown'["work"] = PG!Nothing
      /\ \A p \in PG!Parts \ {"work"} :
              shown'[p] = IF p \in Head(calls[c].todo) THEN calls[c].got[p] ELSE shown[p]
  BY LenientIs
<1>2. past'.mine = past.mine  BY LenientHistory DEF Untold
<1>3. \A d \in PG!AtWork' : calls'[d].pc = "served" => d \in PG!AtWork /\ calls'[d] = calls[d]
  BY <1>1, ServedAfter
<1>4. \A p \in PG!Parts : \/ shown'[p] = shown[p] \/ shown'[p] = PG!Nothing
                          \/ ~Acts(c) /\ Reads(c, p) /\ shown'[p] = calls[c].got[p]
  BY <1>1 DEF Reads
<1> QED  BY <1>1, <1>2, <1>3, <1>4, AheadShown

-----------------------------------------------------------------------------
(* The user's own changes arrive.                                          *)

\* What the user has changed is on its way to the part p, or there.
Arrives(p) ==
  \/ \E c \in PG!AtWork : WillRead(c, p)
  \/ \E c \in PG!AtWork : HasRead(c, p) /\ Recent(calls[c].got[p])
  \/ (\A c \in PG!AtWork : ~HasRead(c, p)) /\ Recent(shown[p])

LEMMA WritesArriveIs ==
  WritesArrive <=>
    (~Broken => \A a \in PG!P.controls : \A p \in PG!ReadAgain(a) \ (past.crossed
      \cup {"client"}) : Arrives(p))
BY DEF WritesArrive, Arrives

LEMMA WritesArriveNext ==
  ASSUME PG!P' = PG!P,
         ~Broken' => \A a \in PG!P.controls : \A p \in PG!ReadAgain(a) \ (past'.crossed
           \cup {"client"}) : Arrives(p)'
  PROVE  WritesArrive'
BY DEF WritesArrive, Arrives

LEMMA ReadAgainIs ==
  ASSUME PageOK, NEW a \in PG!P.controls, NEW p \in PG!ReadAgain(a)
  PROVE  p \in PG!Parts
<1>1. ControlOK(a)  BY DEF PageOK
<1>2. PICK k \in DOMAIN Order(a) : k > 1 /\ p \in Order(a)[k]
  BY <1>1 DEF ControlOK
<1>3. Script(Order(a))  BY <1>1 DEF ControlOK
<1>4. Order(a)[k] # {"act"} /\ Order(a)[k] \in Requests  BY <1>2, <1>3, ScriptIs DEF Script
<1> QED  BY <1>2, <1>4 DEF Requests

\* What one handler does leaves what the others have read and will read.
LEMMA OthersArrive ==
  ASSUME NEW c, NEW p, NEW d \in PG!AtWork, d \in PG!AtWork', calls'[d] = calls[d],
         past'.mine = past.mine
  PROVE  /\ WillRead(d, p) => Arrives(p)'
         /\ HasRead(d, p) /\ Recent(calls[d].got[p]) => Arrives(p)'
<1>1. (HasRead(d, p)' <=> HasRead(d, p)) /\ (WillRead(d, p)' <=> WillRead(d, p))  BY SameHandler
<1>2. Recent(calls[d].got[p]) => Recent(calls[d].got[p])'  BY DEF Recent
<1>3. calls'[d].got[p] = calls[d].got[p]  OBVIOUS
<1> QED  BY <1>1, <1>2, <1>3 DEF Arrives

LEMMA RecentStays ==
  ASSUME past'.mine = past.mine, NEW p, shown'[p] = shown[p] \/ shown'[p] = PG!Nothing
  PROVE  Recent(shown[p]) => Recent(shown[p])'
BY ViewsAre DEF Recent

LEMMA WritesOfPick ==
  ASSUME PagesFit, ScreensTyped, PageOK, WritesArrive, NEW c \in Pair, NEW r \in Rows,
         PG!Pick(c, r)
  PROVE  WritesArrive'
<1>1. /\ page' = page /\ shown' = shown /\ c \notin PG!AtWork
      /\ \A d \in Pair : d # c => calls'[d] = calls[d]
      /\ PG!AtWork' = PG!AtWork \cup {c} /\ calls'[c].pc = "sent"
      /\ past.crossed \subseteq past'.crossed /\ past'.mine = past.mine
         /\ past'.failed = past.failed /\ past'.told = past.told /\ past'.left = past.left
  BY PickHistory DEF Untold
<1>2. PG!P' = PG!P  BY <1>1, PageStays
<1>3. error' = IF page = "reports" THEN FALSE ELSE error  BY DEF PG!Pick
<1>4. PG!P.controls # {} => page # "reports"  BY DEF PageOK
<1> SUFFICES ASSUME ~Broken', NEW a \in PG!P.controls,
                    NEW p \in PG!ReadAgain(a) \ (past'.crossed \cup {"client"})
             PROVE  Arrives(p)'
  BY <1>2, WritesArriveNext
<1>5. Arrives(p)  BY <1>1, <1>2, <1>3, <1>4, WritesArriveIs DEF Broken
<1>6. \A d \in PG!AtWork : d \in PG!AtWork' /\ calls'[d] = calls[d]  BY <1>1, AtWorkIs
<1>7. ASSUME \A d \in PG!AtWork : ~HasRead(d, p), Recent(shown[p]) PROVE Arrives(p)'
  <2>1. ~HasRead(c, p)'  BY <1>1 DEF HasRead
  <2>2. \A d \in PG!AtWork' : ~HasRead(d, p)'  BY <1>1, <1>6, <1>7, <2>1, SameHandler
  <2>3. Recent(shown[p])'  BY <1>1, <1>7, RecentStays
  <2> QED  BY <2>2, <2>3 DEF Arrives
<1> QED  BY <1>1, <1>5, <1>6, <1>7, OthersArrive DEF Arrives

LEMMA WritesOfSubmit ==
  ASSUME PagesFit, ScreensTyped, PageOK,
         NEW c \in Pair, NEW a \in PG!P.controls, NEW r \in Rows, PG!Submit(c, a, r)
  PROVE  WritesArrive'
<1>1. /\ page' = page /\ PG!AtWork' = PG!AtWork \cup {c} /\ calls'[c].todo = Order(a)
  BY SubmitStarts
<1>2. PG!P' = PG!P  BY <1>1, PageStays
<1> SUFFICES ASSUME NEW b \in PG!P.controls, NEW p \in PG!ReadAgain(b) PROVE Arrives(p)'
  BY <1>2, WritesArriveNext
<1>3. p \in PG!ReadAgain(a)  BY DEF PageOK
<1>4. PICK k \in DOMAIN Order(a) : k > 1 /\ p \in Order(a)[k]
  BY <1>3 DEF PageOK, ControlOK
<1>5. WillRead(c, p)'  BY <1>1, <1>4 DEF WillRead
<1> QED  BY <1>1, <1>5 DEF Arrives

LEMMA WritesOfServe ==
  ASSUME PagesFit, ScreensTyped, PageOK, NothingIsAhead, WritesArrive, StrandedAreKnown,
         NEW c \in Pair, PG!Serve(c)
  PROVE  WritesArrive'
<1>1. UNCHANGED <<page, shown, error>>  BY DEF PG!Serve
<1>2. /\ c \in PG!AtWork /\ PG!AtWork' = PG!AtWork /\ \A d \in Pair : d # c
         => calls'[d] = calls[d]
      /\ calls[c].pc = "sent" /\ calls'[c].pc = "served" /\ calls'[c].todo = calls[c].todo
      /\ ~Acts(c) => calls'[c].got = PG!Reading(c)
  BY <1>1, ServeStep
<1>3. PG!P' = PG!P  BY <1>1, PageStays
<1>4. past'.crossed = past.crossed /\ past'.failed = past.failed /\ past'.told = past.told
        /\ past'.left = past.left
  BY WrittenIs, ReadHistory
<1> SUFFICES ASSUME ~Broken', NEW a \in PG!P.controls,
                    NEW p \in PG!ReadAgain(a) \ (past'.crossed \cup {"client"})
             PROVE  Arrives(p)'
  BY <1>3, WritesArriveNext
<1>5. Arrives(p)  BY <1>1, <1>3, <1>4, WritesArriveIs DEF Broken
<1>6. CASE Acts(c)
  <2>5. ~Left(c)  BY <1>2, <1>4 DEF StrandedAreKnown, Left, Broken
  <2>1. PICK b \in PG!P.controls : calls[c].todo = Order(b)
    BY <1>2, <1>6, <2>5 DEF ScreensTyped, HandlerOK, Submits
  <2>2. p \in PG!ReadAgain(b)  BY DEF PageOK
  <2>3. PICK k \in DOMAIN Order(b) : k > 1 /\ p \in Order(b)[k]
    BY <2>2 DEF PageOK, ControlOK
  <2>4. WillRead(c, p)'  BY <1>2, <2>1, <2>3 DEF WillRead
  <2> QED  BY <1>2, <2>4 DEF Arrives
<1>7. CASE ~Acts(c)
  <2>1. UNCHANGED <<server, past>>  BY <1>7, ReadHistory
  <2>2. \A d \in PG!AtWork : d # c => d \in PG!AtWork' /\ calls'[d] = calls[d]
    BY <1>2, AtWorkIs
  <2>3. calls[c].todo \in Seq(Requests) /\ Head(calls[c].todo) = calls[c].todo[1]
        /\ \A k \in DOMAIN calls[c].todo : k \in Nat /\ k >= 1
    BY <1>2, HandlerTypes, ScriptIs
  <2>4. Reads(c, p) => HasRead(c, p)' /\ Recent(calls[c].got[p])'
    <3> SUFFICES ASSUME Reads(c, p) PROVE HasRead(c, p)' /\ Recent(calls[c].got[p])'
      OBVIOUS
    <3>1. HasRead(c, p)'  BY <1>2 DEF HasRead, Reads
    <3>2. calls'[c].got[p] = [x \in PG!Seen(p, calls[c].row) |-> server[x]]
      BY <1>2, <1>7 DEF PG!Reading, Reads
    <3>3. PG!Seen(p, calls[c].row) \subseteq Rows
      <4>1. p \in PG!Parts /\ calls[c].row \in Rows  BY <1>2, HandlerTypes, ReadAgainIs
      <4> QED  BY <4>1 DEF PG!Seen, PagesFit
    <3> DEFINE view == calls'[c].got[p]
    <3>4. \A x \in DOMAIN view : view[x] = server[x] /\ x \in Rows  BY <3>2, <3>3
    <3> HIDE DEF view
    <3>5. \A x \in DOMAIN view : view[x].n >= past'.mine[x]
      <4> TAKE x \in DOMAIN view
      <4>1. past.mine[x] \in Int /\ server[x].n \in Int /\ past.mine[x] <= server[x].n
        BY <3>4, NumbersAre DEF NothingIsAhead
      <4> QED  BY <2>1, <3>4, <4>1
    <3>6. \A x \in DOMAIN calls'[c].got[p] : calls'[c].got[p][x].n >= past'.mine[x]
      BY <3>5 DEF view
    <3>7. Recent(calls[c].got[p])'  BY <3>6 DEF Recent
    <3> QED  BY <3>1, <3>7
  <2>5. ASSUME NEW d \in PG!AtWork, WillRead(d, p) PROVE Arrives(p)'
    <3>1. CASE d # c  BY <2>1, <2>2, <2>5, <3>1, OthersArrive
    <3>2. CASE d = c
      <4>1. PICK k \in DOMAIN calls[c].todo : p \in calls[c].todo[k]
        BY <2>5, <3>2 DEF WillRead
      <4>2. CASE k > 1
        <5>1. WillRead(c, p)'  BY <1>2, <4>1, <4>2 DEF WillRead
        <5> QED  BY <1>2, <5>1 DEF Arrives
      <4>3. CASE k = 1
        <5>1. Reads(c, p)  BY <2>3, <4>1, <4>3 DEF Reads
        <5> QED  BY <1>2, <2>4, <5>1 DEF Arrives
      <4> QED  BY <2>3, <4>2, <4>3
    <3> QED  BY <3>1, <3>2
  <2>6. ASSUME NEW d \in PG!AtWork, HasRead(d, p), Recent(calls[d].got[p]) PROVE Arrives(p)'
    <3>1. d # c  BY <1>2, <2>6 DEF HasRead
    <3> QED  BY <2>1, <2>2, <2>6, <3>1, OthersArrive
  <2>7. ASSUME \A d \in PG!AtWork : ~HasRead(d, p), Recent(shown[p]) PROVE Arrives(p)'
    <3>1. CASE Reads(c, p)  BY <1>2, <2>4, <3>1 DEF Arrives
    <3>2. CASE ~Reads(c, p)
      <4>1. ~HasRead(c, p)'  BY <1>2, <3>2 DEF HasRead, Reads
      <4>2. \A d \in PG!AtWork' : ~HasRead(d, p)'  BY <1>2, <2>2, <2>7, <4>1, SameHandler
      <4>3. Recent(shown[p])'  BY <1>1, <2>1, <2>7, RecentStays
      <4> QED  BY <4>2, <4>3 DEF Arrives
    <3> QED  BY <3>1, <3>2
  <2> QED  BY <1>5, <2>5, <2>6, <2>7 DEF Arrives
<1> QED  BY <1>6, <1>7

\* A handler has been answered: what it has read is shown, the rest is still to come.
LEMMA WritesGoOn ==
  ASSUME ScreensTyped, OneReader, page' = page, NEW c \in PG!AtWork, calls[c].pc = "served",
         past'.mine = past.mine,
         NEW rest, Remains(c, rest), PG!GoOn(c, rest), NEW p \in PG!Parts \ past.crossed,
         Arrives(p),
         \A k \in DOMAIN calls[c].todo : k > 1 /\ p \in calls[c].todo[k] =>
            rest # << >> /\ \E i \in DOMAIN rest : p \in rest[i],
         shown'[p] = PG!Nothing \/ shown'[p] = IF Reads(c, p) THEN calls[c].got[p] ELSE shown[p]
  PROVE  Arrives(p)'
<1>1. /\ \A d \in Pair : d # c => calls'[d] = calls[d]
      /\ rest = << >> => PG!AtWork' = PG!AtWork \ {c}
      /\ rest # << >> =>
         PG!AtWork' = PG!AtWork /\ calls'[c].todo = rest /\ calls'[c].pc = "sent"
  BY GoOnStep
<1>2. \A d \in PG!AtWork : d # c => d \in PG!AtWork' /\ calls'[d] = calls[d]  BY <1>1, AtWorkIs
<1>3. c \in PG!AtWork' => ~HasRead(c, p)'  BY <1>1 DEF HasRead
<1>4. ASSUME NEW d \in PG!AtWork, WillRead(d, p) PROVE Arrives(p)'
  <2>1. CASE d # c  BY <1>2, <1>4, <2>1, OthersArrive
  <2>2. CASE d = c
    <3>1. PICK k \in DOMAIN calls[c].todo : k > 1 /\ p \in calls[c].todo[k]
      BY <1>4, <2>2 DEF WillRead
    <3>2. rest # << >> /\ \E i \in DOMAIN rest : p \in rest[i]  BY <3>1
    <3>3. WillRead(c, p)' /\ c \in PG!AtWork'  BY <1>1, <3>2 DEF WillRead
    <3> QED  BY <3>3 DEF Arrives
  <2> QED  BY <2>1, <2>2
<1>5. ASSUME \A d \in PG!AtWork : d # c => ~HasRead(d, p), Recent(shown'[p]) PROVE Arrives(p)'
  <2>1. \A d \in PG!AtWork' : ~HasRead(d, p)'
    <3> TAKE d \in PG!AtWork'
    <3>1. d \in PG!AtWork  BY <1>1
    <3>2. CASE d = c  BY <1>3, <3>2
    <3>3. CASE d # c  BY <1>2, <1>5, <3>1, <3>3, SameHandler
    <3> QED  BY <3>2, <3>3
  <2>2. Recent(shown[p])'  BY <1>5 DEF Recent
  <2> QED  BY <2>1, <2>2 DEF Arrives
<1>6. Recent(PG!Nothing)  BY ViewsAre DEF Recent
<1>7. ASSUME NEW d \in PG!AtWork, HasRead(d, p), Recent(calls[d].got[p]) PROVE Arrives(p)'
  <2>1. CASE d # c  BY <1>2, <1>7, <2>1, OthersArrive
  <2>2. CASE d = c
    <3>1. Reads(c, p) /\ \A e \in PG!AtWork : e # c => ~HasRead(e, p)
      BY <1>7, <2>2 DEF HasRead, OneReader
    <3>2. Recent(shown'[p])  BY <1>6, <1>7, <2>2, <3>1
    <3> QED  BY <1>5, <3>1, <3>2
  <2> QED  BY <2>1, <2>2
<1>8. ASSUME \A d \in PG!AtWork : ~HasRead(d, p), Recent(shown[p]) PROVE Arrives(p)'
  <2>1. ~Reads(c, p)  BY <1>8 DEF HasRead
  <2> QED  BY <1>5, <1>6, <1>8, <2>1
<1> QED  BY <1>4, <1>7, <1>8 DEF Arrives

LEMMA WritesOfAnswer ==
  ASSUME PagesFit, ScreensTyped, PageOK, OneReader, WritesArrive, NEW c \in Pair, PG!Answer(c)
  PROVE  WritesArrive'
<1> DEFINE t == calls[c].todo
           rest == PG!After(c)
<1>1. /\ UNCHANGED <<page, error>> /\ calls[c].pc = "served" /\ c \in PG!AtWork
      /\ shown' = PG!Displayed(c) /\ PG!GoOn(c, rest) /\ Remains(c, rest)
      /\ past'.mine = past.mine /\ past.crossed \subseteq past'.crossed
         /\ past'.failed = past.failed /\ past'.told = past.told /\ past'.left = past.left
  BY AnswerHistory DEF Untold
<1>2. PG!P' = PG!P  BY <1>1, PageStays
<1> SUFFICES ASSUME ~Broken', NEW a \in PG!P.controls,
                    NEW p \in PG!ReadAgain(a) \ (past'.crossed \cup {"client"})
             PROVE  Arrives(p)'
  BY <1>2, WritesArriveNext
<1>3. Arrives(p) /\ p \in PG!Parts /\ p # "client" /\ p \notin past.crossed
  BY <1>1, <1>2, WritesArriveIs, ReadAgainIs DEF Broken
<1>4. \A k \in DOMAIN t : k > 1 /\ p \in t[k] =>
        rest # << >> /\ \E i \in DOMAIN rest : p \in rest[i]
  <2> SUFFICES ASSUME NEW k \in DOMAIN t, k > 1, p \in t[k]
               PROVE  rest # << >> /\ \E i \in DOMAIN rest : p \in rest[i]
    OBVIOUS
  <2>1. t[k] # {"client"}  BY <1>3
  <2>2. rest # << >> /\ k - 1 \in DOMAIN rest /\ rest[k - 1] = t[k]  BY <1>1, <2>1, RestIs
  <2> QED  BY <2>2
<1>5. shown'[p] = IF Reads(c, p) THEN calls[c].got[p] ELSE shown[p]  BY <1>1, <1>3, DisplayedIs
<1> HIDE DEF rest
<1> QED  BY <1>1, <1>3, <1>4, <1>5, WritesGoOn

LEMMA WritesOfFail ==
  ASSUME ScreensTyped, PageOK, OneReader, WritesArrive, StrandedAreKnown, NEW c \in Pair,
         PG!Fail(c)
  PROVE  WritesArrive'
<1>1. /\ page' = page /\ c \in PG!AtWork /\ PG!GoOn(c, PG!AfterFailure(c))
         /\ Remains(c, PG!AfterFailure(c))
      /\ error' = IF calls[c].name = "left" \/ PG!Unread(c) THEN error ELSE PG!P.tells
      /\ past'.failed = TRUE /\ past'.told = past.told /\ past'.left = past.left
      /\ past'.mine = past.mine /\ past.crossed \subseteq past'.crossed /\ HandlerOK(c)
  BY FailHistory DEF Untold
<1>2. PG!P' = PG!P  BY <1>1, PageStays
<1>3. CASE calls[c].name # "left" /\ ~PG!Unread(c)
  <2>1. Broken'  BY <1>1, <1>2, <1>3 DEF Broken, PageOK
  <2> QED  BY <2>1 DEF WritesArrive
<1>4. CASE calls[c].name = "left" /\ ~PG!Unread(c)
  <2>1. /\ calls[c].todo = <<{"act"}>> /\ page \in PG!Cards /\ PG!AfterFailure(c) = << >>
        /\ (past.left \/ calls[c].pc = "served")
    BY <1>1, <1>4, HandlerTypes DEF HandlerOK, Left, StrandedAreKnown, Remains
  <2> SUFFICES ASSUME ~Broken', NEW a \in PG!P.controls,
                      NEW p \in PG!ReadAgain(a) \ (past'.crossed \cup {"client"})
               PROVE  Arrives(p)'
    BY <1>2, WritesArriveNext
  <2>2. ~Broken /\ ~past.left /\ PG!P.tells  BY <1>1, <1>2, <1>4, <2>1 DEF Broken, PageOK
  <2>3. Arrives(p) /\ p \in PG!Parts /\ p \notin past.crossed
    BY <1>1, <2>2, WritesArriveIs, ReadAgainIs
  <2>4. ~Reads(c, p) /\ \A k \in DOMAIN calls[c].todo : ~(k > 1)
    <3>1. Head(<<{"act"}>>) = {"act"} /\ DOMAIN <<{"act"}>> = 1 .. 1  OBVIOUS
    <3> QED  BY <2>1, <2>3, <3>1, PartsAre DEF Reads
  <2> DEFINE rest == << >>
  <2>5. /\ Remains(c, rest) /\ PG!GoOn(c, rest)
        /\ \A k \in DOMAIN calls[c].todo : k > 1 /\ p \in calls[c].todo[k] =>
             rest # << >> /\ \E i \in DOMAIN rest : p \in rest[i]
        /\ shown'[p] = IF Reads(c, p) THEN calls[c].got[p] ELSE shown[p]
    BY <1>1, <1>4, <2>1, <2>4, FailShows
  <2> HIDE DEF rest
  <2> QED  BY <1>1, <2>1, <2>2, <2>3, <2>5, WritesGoOn
<1>5. CASE PG!Unread(c)
  <2>1. Reads(c, "list") /\ page \in PG!OneState /\ shown'["list"] = PG!Nothing
          /\ "list" \in PG!Parts
    BY <1>5, FailShows, PartsAre DEF PG!Unread, Reads
  <2>2. PG!AfterFailure(c) = << >>  BY <2>1 DEF PG!AfterFailure, PG!OneState
  <2>3. PG!AtWork' = PG!AtWork \ {c} /\ \A d \in Pair : d # c => calls'[d] = calls[d]
    BY <1>1, <2>2, GoOnStep
  <2> SUFFICES ASSUME ~Broken', NEW a \in PG!P.controls,
                      NEW p \in PG!ReadAgain(a) \ (past'.crossed \cup {"client"})
               PROVE  Arrives(p)'
    BY <1>2, WritesArriveNext
  <2>4. p = "list" /\ p \notin past.crossed  BY <1>1, <2>1 DEF PageOK
  <2>5. \A d \in PG!AtWork' : ~HasRead(d, p)'
    <3> SUFFICES ASSUME NEW d \in PG!AtWork', HasRead(d, p)' PROVE FALSE
      OBVIOUS
    <3>1. d \in PG!AtWork /\ d # c /\ calls'[d] = calls[d]  BY <2>3, AtWorkIs
    <3>2. Reads(d, p)  BY <3>1, SameHandler DEF HasRead
    <3> QED  BY <1>1, <2>1, <2>4, <3>1, <3>2 DEF OneReader
  <2>6. Recent(shown[p])'  BY <2>1, <2>4, ViewsAre DEF Recent
  <2> QED  BY <2>5, <2>6 DEF Arrives
<1> QED  BY <1>3, <1>4, <1>5

LEMMA WritesOfFailLeniently ==
  ASSUME PagesFit, ScreensTyped, PageOK, OneReader, WritesArrive, NEW c \in Pair,
         PG!FailLeniently(c)
  PROVE  WritesArrive'
<1> DEFINE t == calls[c].todo
           rest == Tail(calls[c].todo)
<1>1. /\ UNCHANGED <<page, error>> /\ calls[c].pc = "served" /\ c \in PG!AtWork
      /\ PG!GoOn(c, rest) /\ Remains(c, rest) /\ "work" \in Head(t)
      /\ shown'["work"] = PG!Nothing
      /\ \A p \in PG!Parts \ {"work"} :
              shown'[p] = IF p \in Head(calls[c].todo) THEN calls[c].got[p] ELSE shown[p]
  BY LenientIs
<1>2. /\ past'.mine = past.mine /\ past'.crossed = past.crossed /\ past'.failed = past.failed
         /\ past'.told = past.told /\ past'.left = past.left
      /\ rest = << >> /\ Tail(t) = << >>
  BY LenientHistory DEF Untold
<1>3. PG!P' = PG!P  BY <1>1, PageStays
<1> SUFFICES ASSUME ~Broken', NEW a \in PG!P.controls,
                    NEW p \in PG!ReadAgain(a) \ (past'.crossed \cup {"client"})
             PROVE  Arrives(p)'
  BY <1>3, WritesArriveNext
<1>4. Arrives(p) /\ p \in PG!Parts /\ p \notin past.crossed
  BY <1>1, <1>2, <1>3, WritesArriveIs, ReadAgainIs DEF Broken
<1>5. \A k \in DOMAIN t : k > 1 => FALSE
  <2>1. t \in Seq(Requests) /\ t # << >>  BY <1>1, HandlerTypes
  <2>6. Tail(t) = << >>  BY <1>2
  <2> HIDE DEF t
  <2>2. /\ Len(Tail(t)) = Len(t) - 1 /\ DOMAIN t = 1 .. Len(t) /\ Len(t) \in Nat
    BY <2>1, TailOf
  <2> DEFINE u == Tail(t)
  <2>3. u = << >> /\ Len(u) = Len(t) - 1 /\ Len(t) \in Nat  BY <2>2, <2>6
  <2> HIDE DEF u
  <2>7. Len(u) = 0  BY <2>3
  <2>4. Len(t) = 1  BY <2>3, <2>7
  <2>5. DOMAIN t = 1 .. 1  BY <2>2, <2>4
  <2> QED  BY <2>5
<1>6. shown'[p] = PG!Nothing \/ shown'[p] = IF Reads(c, p) THEN calls[c].got[p] ELSE shown[p]
  BY <1>1, <1>4 DEF Reads
<1> HIDE DEF rest
<1>7. \A k \in DOMAIN calls[c].todo : k > 1 /\ p \in calls[c].todo[k] =>
            rest # << >> /\ \E i \in DOMAIN rest : p \in rest[i]
  BY <1>5
<1> QED  BY <1>1, <1>2, <1>4, <1>6, <1>7, WritesGoOn

LEMMA WritesStay ==
  ASSUME ScreensTyped, WritesArrive, UNCHANGED <<page, shown, calls, error>>,
         PG!AtWork' = PG!AtWork,
         past'.mine = past.mine, past'.crossed = past.crossed, past'.failed = past.failed
           /\ past'.told = past.told /\ past'.left = past.left
  PROVE  WritesArrive'
<1>1. PG!P' = PG!P  BY PageStays
<1> SUFFICES ASSUME ~Broken', NEW a \in PG!P.controls,
                    NEW p \in PG!ReadAgain(a) \ (past'.crossed \cup {"client"})
             PROVE  Arrives(p)'
  BY <1>1, WritesArriveNext
<1>2. Arrives(p)  BY <1>1, WritesArriveIs DEF Broken
<1>3. \A d \in PG!AtWork : d \in PG!AtWork' /\ calls'[d] = calls[d]  OBVIOUS
<1>4. ASSUME \A d \in PG!AtWork : ~HasRead(d, p), Recent(shown[p]) PROVE Arrives(p)'
  <2>1. \A d \in PG!AtWork' : ~HasRead(d, p)'  BY <1>3, <1>4, SameHandler
  <2>2. Recent(shown[p])'  BY <1>4, RecentStays
  <2> QED  BY <2>1, <2>2 DEF Arrives
<1> QED  BY <1>2, <1>3, <1>4, OthersArrive DEF Arrives

-----------------------------------------------------------------------------
(* The forms in the rows of a client.                                      *)

OnClient == page \in {"client", "work"}

LEMMA ClientPages ==
  ASSUME PageOK, OnClient
  PROVE  /\ PG!P.picks = << >>
         /\ \A r : PG!Seen("detail", r) = {FirstRow}
         /\ \A p \in PG!Forms : \A r : PG!Seen(p, r) = Rows \ {FirstRow}
         /\ \A a \in PG!P.controls : a.flag # "one" /\ (a.flag = "row" \/ a.on = "detail")
<1>1. PG!P.picks = << >>  BY DEF PageOK, OnClient
<1>2. /\ \A r : PG!Seen("detail", r) = {FirstRow}
      /\ \A p \in PG!Forms : \A r : PG!Seen(p, r) = Rows \ {FirstRow}
  <2>1. "detail" \notin PG!Lists /\ "detail" \notin PG!Forms
          /\ \A p \in PG!Forms : p \notin PG!Lists
    BY DEF PG!Lists, PG!Forms
  <2>2. \A r : PG!Seen("detail", r) = {FirstRow}  BY <1>1, <2>1 DEF PG!Seen
  <2>3. ASSUME NEW p \in PG!Forms, NEW r PROVE PG!Seen(p, r) = Rows \ {FirstRow}
    BY <2>1 DEF PG!Seen
  <2> QED  BY <2>2, <2>3
<1>3. \A a \in PG!P.controls : a.flag # "one" /\ (a.flag = "row" \/ a.on = "detail")
  BY DEF PageOK, ControlOK, OnClient
<1> QED  BY <1>1, <1>2, <1>3

LEMMA DraftsAre ==
  ASSUME PagesFit, ScreensTyped
  PROVE  /\ \A r \in Rows : drafts[r] \in {None, PG!Chosen, PG!Sent} \cup 0 .. MaxVersion
         /\ PG!Chosen # None /\ PG!Sent # None /\ PG!Chosen \notin Nat /\ PG!Sent \notin Nat
            /\ PG!Chosen # PG!Sent /\ None \notin Nat
         /\ \A n \in 0 .. MaxVersion : n # None /\ n \in Nat
BY DEF ScreensTyped, PagesFit, PG!Chosen, PG!Sent

LEMMA KeptShrinks ==
  ASSUME past.others \subseteq past'.others, past.gone \subseteq past'.gone
  PROVE  Kept' \subseteq Kept
BY DEF Kept

LEMMA KeptIs ==
  ASSUME NEW r \in Kept
  PROVE  r \in Rows /\ r # FirstRow /\ r \notin past.others \cup past.gone
BY DEF Kept

\* Nothing about the forms changes, and no handler has started to submit.
LEMMA FormsStay ==
  ASSUME FormsAreCurrent, UNCHANGED <<page, server, shown, drafts>>,
         past'.muddled = past.muddled,
         past'.mine = past.mine,
         past.others \subseteq past'.others, past.gone \subseteq past'.gone,
         \A d \in PG!AtWork' : Acts(d)' => d \in PG!AtWork /\ Acts(d)
                                              /\ calls'[d].row = calls[d].row
                                           /\ calls'[d].flag = calls[d].flag
                                              /\ (calls'[d].pc = "sent" => calls[d].pc = "sent")
  PROVE  FormsAreCurrent'
<1> SUFFICES ASSUME OnClient PROVE FormsAreCurrent'
  BY DEF FormsAreCurrent, OnClient
<1>1. ASSUME NEW r \in Kept' PROVE FormIsCurrent(r)'
  <2>1. FormIsCurrent(r)  BY <1>1, KeptShrinks DEF FormsAreCurrent, OnClient
  <2> QED  BY <2>1 DEF FormIsCurrent
<1> QED  BY <1>1 DEF FormsAreCurrent, OnClient

\* The handlers that submit after one has gone on are those that did.
LEMMA ActsAfter ==
  ASSUME ScreensTyped, page' = page, NEW c \in PG!AtWork, NEW rest, Remains(c, rest),
         PG!GoOn(c, rest)
  PROVE  \A d \in PG!AtWork' : Acts(d)' =>
           d \in PG!AtWork /\ d # c /\ calls'[d] = calls[d] /\ Acts(d)
<1>1. /\ \A d \in Pair : d # c => calls'[d] = calls[d]
      /\ rest = << >> => PG!AtWork' = PG!AtWork \ {c}
      /\ rest # << >> => PG!AtWork' = PG!AtWork /\ calls'[c].todo = rest
  BY GoOnStep
<1>2. c \in PG!AtWork' => ~Acts(c)'
  <2>1. c \in PG!AtWork' => rest # << >> /\ calls'[c].todo = rest  BY <1>1
  <2>2. rest # << >> => Head(rest) # {"act"}  BY NextReading
  <2> QED  BY <2>1, <2>2 DEF Acts
<1> QED  BY <1>1, <1>2, AtWorkIs, SameHandler

LEMMA FormsOfPick ==
  ASSUME ScreensTyped, PageOK, NEW c \in Pair, NEW r \in Rows, PG!Pick(c, r)
  PROVE  FormsAreCurrent'
<1>1. page' = page /\ PG!P.picks # << >>  BY PickHistory
<1>2. ~OnClient  BY <1>1, ClientPages
<1> QED  BY <1>1, <1>2 DEF FormsAreCurrent, OnClient

LEMMA FormsOfSubmit ==
  ASSUME PagesFit, ScreensTyped, PageOK, FormsAreCurrent,
         NEW c \in Pair, NEW a \in PG!P.controls, NEW r \in Rows, PG!Submit(c, a, r)
  PROVE  FormsAreCurrent'
<1>1. /\ c \notin PG!AtWork /\ \A d \in Pair : d # c => calls'[d] = calls[d]
      /\ PG!AtWork' = PG!AtWork \cup {c}
      /\ calls'[c].pc = "sent" /\ calls'[c].row = r /\ calls'[c].flag = PG!Flag(a, r)
         /\ calls'[c].todo = Order(a)
  BY SubmitStarts
<1>2. /\ UNCHANGED <<page, server, shown>> /\ PG!Offered(a, r)
      /\ drafts' = IF a.flag = "row" THEN [drafts EXCEPT ![r] = PG!Sent] ELSE drafts
      /\ past'.others = past.others /\ past'.gone = past.gone /\ past'.mine = past.mine
      /\ past'.muddled = (past.muddled \/ (a.flag = "one"
         /\ \E d \in PG!AtWork : calls[d].row # r))
  BY SubmitHistory DEF Untold
<1> SUFFICES ASSUME OnClient PROVE FormsAreCurrent'
  BY <1>2 DEF FormsAreCurrent, OnClient
<1>3. /\ ~past.muddled /\ DOMAIN shown["detail"] \subseteq {FirstRow}
      /\ \A p \in PG!Forms : FirstRow \notin DOMAIN shown[p]
      /\ \A q \in Rows : drafts[q] = None <=> \A p \in PG!Forms : q \notin DOMAIN shown[p]
      /\ \A q \in Kept : FormIsCurrent(q)
  BY DEF FormsAreCurrent, OnClient
<1>4. a.flag # "one" /\ (a.flag = "row" \/ a.on = "detail")
      /\ (a.flag = "row" => a.name = "update" /\ a.on \in PG!Forms)
  BY ClientPages DEF PageOK, ControlOK
<1>5. a.flag = "row" => drafts[r] # None
  <2>1. a.flag = "row" => a.on # None /\ a.on # "page"  BY <1>4, PartsAre DEF PagesFit, PG!Forms
  <2> QED  BY <1>2, <1>3, <1>4, <2>1 DEF PG!Offered
<1>6. \A q \in Rows : drafts'[q] = IF a.flag = "row" /\ q = r THEN PG!Sent ELSE drafts[q]
  BY <1>2 DEF ScreensTyped
<1>7. \A q \in Rows : drafts'[q] = None <=> drafts[q] = None  BY <1>5, <1>6, DraftsAre
<1>8. Kept' = Kept  BY <1>2 DEF Kept
<1>9. r \in Kept => a.flag = "row"
  <2>1. a.on = "detail" => r \in DOMAIN shown["detail"]
    BY <1>2, PartsAre DEF PG!Offered, PagesFit
  <2> QED  BY <1>3, <1>4, <2>1, KeptIs
<1>10. ASSUME NEW q \in Kept PROVE FormIsCurrent(q)'
  <2>1. FormIsCurrent(q) /\ q \in Rows  BY <1>3, KeptIs
  <2>2. /\ drafts'[q] \in Nat => drafts'[q] = server'[q].n
        /\ drafts'[q] = None => server'[q].n = 0
        /\ past'.mine[q] = server'[q].n
    BY <1>2, <1>6, <1>7, <2>1, DraftsAre DEF FormIsCurrent
  <2>3. ASSUME NEW d \in PG!AtWork', Acts(d)', calls'[d].row = q
        PROVE  /\ calls'[d].flag = <<"update", q>> /\ drafts'[q] # None
               /\ calls'[d].pc = "sent" => drafts'[q] \notin Nat
    <3>1. CASE d = c
      <4>1. q = r /\ a.flag = "row"  BY <1>1, <1>9, <2>3, <3>1
      <4>2. calls'[d].flag = <<"update", q>>  BY <1>1, <1>4, <3>1, <4>1 DEF PG!Flag
      <4> QED  BY <1>6, <4>1, <4>2, DraftsAre
    <3>2. CASE d # c
      <4>1. d \in PG!AtWork /\ calls'[d] = calls[d] /\ Acts(d)
        BY <1>1, <2>3, <3>2, AtWorkIs, SameHandler
      <4>2. calls[d].flag = <<"update", q>> /\ drafts[q] # None
              /\ (calls[d].pc = "sent" => drafts[q] \notin Nat)
        BY <2>1, <2>3, <4>1 DEF FormIsCurrent
      <4> QED  BY <1>6, <2>1, <4>1, <4>2, DraftsAre
    <3> QED  BY <3>1, <3>2
  <2> QED  BY <2>2, <2>3 DEF FormIsCurrent
<1>11. ~past'.muddled  BY <1>2, <1>3, <1>4
<1> QED  BY <1>2, <1>3, <1>7, <1>8, <1>10, <1>11 DEF FormsAreCurrent, OnClient

LEMMA FormsOfServe ==
  ASSUME PagesFit, ScreensTyped, PageOK, FlagsAreHeld, FormsAreCurrent, NEW c \in Pair,
         PG!Serve(c)
  PROVE  FormsAreCurrent'
<1>1. UNCHANGED <<page, shown>>  BY DEF PG!Serve
<1>2. /\ c \in PG!AtWork /\ PG!AtWork' = PG!AtWork /\ \A d \in Pair : d # c
         => calls'[d] = calls[d]
      /\ calls[c].pc = "sent" /\ calls'[c].pc = "served" /\ calls'[c].todo = calls[c].todo
      /\ calls'[c].row = calls[c].row /\ calls'[c].flag = calls[c].flag
  BY <1>1, ServeStep
<1>3. \A d \in PG!AtWork : /\ Acts(d)' <=> Acts(d)
                           /\ calls'[d].row = calls[d].row /\ calls'[d].flag = calls[d].flag
                           /\ calls'[d].pc = "sent" => d # c /\ calls[d].pc = "sent"
  <2> TAKE d \in PG!AtWork
  <2>1. CASE d = c  BY <1>2, <2>1 DEF Acts
  <2>2. CASE d # c  BY <1>2, <2>2, AtWorkIs, SameHandler
  <2> QED  BY <2>1, <2>2
<1>4. CASE ~Acts(c)
  <2>1. UNCHANGED <<server, drafts, past>>  BY <1>4, ReadHistory
  <2> QED  BY <1>1, <1>2, <1>3, <2>1, FormsStay
<1>5. CASE Acts(c)
  <2> DEFINE r == calls[c].row
  <2>1. /\ r \in Rows /\ server'[r].n = server[r].n + 1 /\ server'[r].n \in 0 .. MaxVersion
        /\ \A q \in Rows : q # r => server'[q] = server[q]
        /\ drafts' = IF drafts[r] = PG!Sent THEN [drafts EXCEPT ![r] = server'[r].n] ELSE drafts
        /\ past'.others = past.others /\ past'.gone = past.gone /\ past'.muddled = past.muddled
        /\ past'.mine = [past.mine EXCEPT ![r] = server'[r].n]
    BY <1>5, WrittenIs
  <2> SUFFICES ASSUME OnClient PROVE FormsAreCurrent'
    BY <1>1 DEF FormsAreCurrent, OnClient
  <2>2. /\ ~past.muddled /\ DOMAIN shown["detail"] \subseteq {FirstRow}
        /\ \A p \in PG!Forms : FirstRow \notin DOMAIN shown[p]
        /\ \A q \in Rows : drafts[q] = None <=> \A p \in PG!Forms : q \notin DOMAIN shown[p]
        /\ \A q \in Kept : FormIsCurrent(q)
    BY DEF FormsAreCurrent, OnClient
  <2>3. \A q \in Rows : drafts'[q] = IF drafts[r] = PG!Sent /\ q = r THEN server'[r].n
          ELSE drafts[q]
    BY <2>1 DEF ScreensTyped
  <2>8. \A q \in Rows : past'.mine[q] = IF q = r THEN server'[r].n ELSE past.mine[q]
    BY <2>1 DEF ScreensTyped, Histories
  <2>4. \A q \in Rows : drafts'[q] = None <=> drafts[q] = None  BY <2>1, <2>3, DraftsAre
  <2>5. Kept' = Kept  BY <2>1 DEF Kept
  <2>6. ASSUME NEW d \in PG!AtWork, Acts(d), calls[d].row = r, r \in Kept PROVE d = c
    <3>1. FormIsCurrent(r)  BY <2>2, <2>6
    <3>2. calls[d].flag = <<"update", r>> /\ calls[c].flag = <<"update", r>>
      BY <1>2, <1>5, <2>6, <3>1 DEF FormIsCurrent
    <3>3. \A e \in PG!AtWork : Acts(e) => Len(calls[e].todo) > calls[e].tail
      <4> TAKE e \in PG!AtWork
      <4> SUFFICES ASSUME Acts(e) PROVE Len(calls[e].todo) > calls[e].tail
        OBVIOUS
      <4>1. PICK a \in PG!P.controls : calls[e].todo = Order(a) /\ calls[e].tail = Len(a.tail)
        BY DEF ScreensTyped, HandlerOK, Submits, Left, PG!Cards, OnClient
      <4> QED  BY <4>1 DEF PageOK, ControlOK
    <3>4. Holds(d) /\ Holds(c)  BY <1>2, <1>5, <2>1, <2>6, <3>2, <3>3 DEF Holds, PagesFit
    <3> QED  BY <1>2, <2>2, <2>6, <3>2, <3>4 DEF FlagsAreHeld
  <2>7. ASSUME NEW q \in Kept PROVE FormIsCurrent(q)'
    <3>1. FormIsCurrent(q) /\ q \in Rows  BY <2>2, <2>7, KeptIs
    <3>2. CASE q # r
      <4>1. drafts'[q] = drafts[q] /\ server'[q] = server[q] /\ past'.mine[q] = past.mine[q]
        BY <2>1, <2>3, <2>8, <3>1, <3>2
      <4> HIDE DEF r
      <4>2. \A d \in PG!AtWork' : Acts(d)' /\ calls'[d].row = q =>
              d \in PG!AtWork /\ Acts(d) /\ calls[d].row = q
        BY <1>2, <1>3
      <4> QED  BY <1>2, <1>3, <3>1, <4>1, <4>2 DEF FormIsCurrent
    <3>3. CASE q = r
      <4>1. calls[c].flag = <<"update", r>> /\ drafts[r] # None /\ drafts[r] \notin Nat
        BY <1>2, <1>5, <3>1, <3>3 DEF FormIsCurrent
      <4>2. drafts[r] \in {PG!Chosen, PG!Sent}  BY <2>1, <4>1, DraftsAre
      <4>3. /\ drafts'[r] \in Nat => drafts'[r] = server'[r].n
            /\ drafts'[r] # None /\ past'.mine[r] = server'[r].n
        BY <2>1, <2>3, <2>4, <2>8, <4>1, <4>2, DraftsAre
      <4>4. \A d \in PG!AtWork' : Acts(d)' /\ calls'[d].row = r => d = c
        BY <1>2, <1>3, <2>6, <2>7, <3>3
      <4>5. calls'[c].flag = <<"update", r>> /\ calls'[c].pc # "sent"  BY <1>2, <4>1
      <4> HIDE DEF r
      <4> QED  BY <3>3, <4>3, <4>4, <4>5 DEF FormIsCurrent
    <3> QED  BY <3>2, <3>3
  <2> QED  BY <1>1, <2>1, <2>2, <2>4, <2>5, <2>7 DEF FormsAreCurrent, OnClient
<1> QED  BY <1>4, <1>5

\* The rows of a part are shown as before, or anew.
LEMMA FormsOfShown ==
  ASSUME PagesFit, ScreensTyped, ScreensTyped', PageOK, FormsAreCurrent, NothingIsAhead',
         OnClient,
         UNCHANGED <<page, server>>, drafts' = PG!Mounted(shown'), past'.muddled = past.muddled,
           past'.mine = past.mine,
         past.others \subseteq past'.others, past.gone \subseteq past'.gone,
         NEW c \in PG!AtWork,
         \A d \in PG!AtWork' : Acts(d)' =>
           d \in PG!AtWork /\ d # c /\ calls'[d] = calls[d] /\ Acts(d),
         \A p \in {"detail"} \cup PG!Forms :
            \/ DOMAIN shown'[p] = DOMAIN shown[p]
            \/ DOMAIN shown'[p] = PG!Seen(p, calls[c].row)
            \/ p \in PG!Forms /\ DOMAIN shown'[p] = {},
         \A r \in Rows : drafts[r] # None /\ drafts'[r] = None => r \notin Kept'
  PROVE  FormsAreCurrent'
<1>1. /\ ~past.muddled /\ DOMAIN shown["detail"] \subseteq {FirstRow}
      /\ \A p \in PG!Forms : FirstRow \notin DOMAIN shown[p]
      /\ \A q \in Rows : drafts[q] = None <=> \A p \in PG!Forms : q \notin DOMAIN shown[p]
      /\ \A q \in Kept : FormIsCurrent(q)
  BY DEF FormsAreCurrent, OnClient
<1>2. /\ \A r : PG!Seen("detail", r) = {FirstRow}
      /\ \A p \in PG!Forms : \A r : PG!Seen(p, r) = Rows \ {FirstRow}
  BY ClientPages
<1>3. DOMAIN shown'["detail"] \subseteq {FirstRow}
        /\ \A p \in PG!Forms : FirstRow \notin DOMAIN shown'[p]
  <2>1. "detail" \notin PG!Forms  BY DEF PG!Forms
  <2> QED  BY <1>1, <1>2, <2>1
<1>4. shown' \in [PG!Parts -> Views] /\ PG!Forms \subseteq PG!Parts
  BY DEF ScreensTyped, PG!Parts
<1>5. ASSUME NEW r \in Rows
      PROVE  /\ (\A p \in PG!Forms : r \notin DOMAIN shown'[p]) => drafts'[r] = None
             /\ (\E p \in PG!Forms : r \in DOMAIN shown'[p]) /\ drafts[r] # None
                => drafts'[r] = drafts[r]
             /\ (\E p \in PG!Forms : r \in DOMAIN shown'[p]) /\ drafts[r] = None =>
                  \E p \in PG!Forms : r \in DOMAIN shown'[p] /\ drafts'[r] = shown'[p][r].n
  <2> DEFINE new == shown'
  <2>1. new \in [PG!Parts -> Views] /\ drafts' = PG!Mounted(new)  BY <1>4
  <2> HIDE DEF new
  <2>2. /\ (\A p \in PG!Forms : r \notin DOMAIN new[p]) => drafts'[r] = None
        /\ (\E p \in PG!Forms : r \in DOMAIN new[p]) /\ drafts[r] # None
           => drafts'[r] = drafts[r]
        /\ (\E p \in PG!Forms : r \in DOMAIN new[p]) /\ drafts[r] = None =>
                  \E p \in PG!Forms : r \in DOMAIN new[p] /\ drafts'[r] = new[p][r].n
    BY <2>1, MountedIsTyped
  <2> QED  BY <2>2 DEF new
<1>6. \A r \in Rows : \A p \in PG!Forms : r \in DOMAIN shown'[p] =>
        shown'[p][r].n \in 0 .. MaxVersion /\ shown'[p][r].n <= server[r].n
  <2> TAKE r \in Rows
  <2> TAKE p \in PG!Forms
  <2> SUFFICES ASSUME r \in DOMAIN shown'[p]
               PROVE  shown'[p][r].n \in 0 .. MaxVersion /\ shown'[p][r].n <= server[r].n
    OBVIOUS
  <2>1. p \in PG!Parts /\ shown'[p] \in Views  BY <1>4
  <2>2. shown'[p][r].n \in 0 .. MaxVersion
    <3> DEFINE view == shown'[p]
    <3>1. view \in Views /\ r \in DOMAIN view  BY <2>1
    <3> HIDE DEF view
    <3>2. view[r].n \in 0 .. MaxVersion  BY <3>1, ViewsAre
    <3> QED  BY <3>2 DEF view
  <2>3. shown'[p][r].n <= server'[r].n  BY <2>1 DEF NothingIsAhead
  <2> QED  BY <2>2, <2>3
<1>7. \A r \in Rows : drafts'[r] = None <=> \A p \in PG!Forms : r \notin DOMAIN shown'[p]
  <2> TAKE r \in Rows
  <2> SUFFICES ASSUME NEW p \in PG!Forms, r \in DOMAIN shown'[p] PROVE drafts'[r] # None
    BY <1>5
  <2>1. CASE drafts[r] # None  BY <1>5, <2>1
  <2>2. CASE drafts[r] = None
    <3>1. PICK q \in PG!Forms : r \in DOMAIN shown'[q] /\ drafts'[r] = shown'[q][r].n
      BY <1>5, <2>2
    <3> QED  BY <1>6, <3>1, DraftsAre
  <2> QED  BY <2>1, <2>2
<1>8. Kept' \subseteq Kept  BY KeptShrinks
<1>9. ASSUME NEW r \in Kept' PROVE FormIsCurrent(r)'
  <2>1. FormIsCurrent(r) /\ r \in Rows /\ r \in Kept  BY <1>1, <1>8, KeptIs
  <2>2. CASE drafts[r] # None
    <3>1. drafts'[r] = drafts[r]  BY <1>5, <1>7, <1>9, <2>1, <2>2
    <3> QED  BY <2>1, <3>1 DEF FormIsCurrent
  <2>3. CASE drafts[r] = None
    <3>1. server[r].n = 0 /\ \A d \in PG!AtWork : ~(Acts(d) /\ calls[d].row = r)
      BY <2>1, <2>3 DEF FormIsCurrent
    <3>2. drafts'[r] \in Nat => drafts'[r] = 0
      <4>1. CASE \A p \in PG!Forms : r \notin DOMAIN shown'[p]  BY <1>5, <2>1, <4>1, DraftsAre
      <4>2. CASE \E p \in PG!Forms : r \in DOMAIN shown'[p]
        <5>1. PICK p \in PG!Forms : r \in DOMAIN shown'[p] /\ drafts'[r] = shown'[p][r].n
          BY <1>5, <2>1, <2>3, <4>2
        <5>2. drafts'[r] \in 0 .. MaxVersion /\ drafts'[r] <= 0  BY <1>6, <2>1, <3>1, <5>1
        <5> QED  BY <5>2
      <4> QED  BY <4>1, <4>2
    <3>3. \A d \in PG!AtWork' : ~(Acts(d)' /\ calls'[d].row = r)  BY <3>1
    <3>4. past'.mine[r] = server'[r].n /\ server'[r].n = 0  BY <2>1, <3>1 DEF FormIsCurrent
    <3> QED  BY <3>2, <3>3, <3>4 DEF FormIsCurrent
  <2> QED  BY <2>2, <2>3
<1> QED  BY <1>1, <1>3, <1>7, <1>9 DEF FormsAreCurrent, OnClient

LEMMA FormsOfAnswer ==
  ASSUME PagesFit, ScreensTyped, ScreensTyped', PageOK, FormsAreCurrent, NothingIsAhead',
         NEW c \in Pair, PG!Answer(c)
  PROVE  FormsAreCurrent'
<1>1. /\ UNCHANGED <<page, server>> /\ calls[c].pc = "served" /\ c \in PG!AtWork
      /\ shown' = PG!Displayed(c) /\ drafts' = PG!Mounted(shown') /\ PG!GoOn(c, PG!After(c))
         /\ Remains(c, PG!After(c))
      /\ past'.mine = past.mine /\ past'.others = past.others /\ past'.gone = past.gone
         /\ past'.muddled = past.muddled
  BY AnswerHistory DEF Untold
<1> SUFFICES ASSUME OnClient PROVE FormsAreCurrent'
  BY <1>1 DEF FormsAreCurrent, OnClient
<1>2. \A d \in PG!AtWork' : Acts(d)' =>
        d \in PG!AtWork /\ d # c /\ calls'[d] = calls[d] /\ Acts(d)
  BY <1>1, ActsAfter
<1>3. \A p \in {"detail"} \cup PG!Forms : p \in PG!Parts /\ p # "client"
  BY PartsAre DEF PG!Forms
<1>4. \A p \in {"detail"} \cup PG!Forms :
            \/ DOMAIN shown'[p] = DOMAIN shown[p]
            \/ DOMAIN shown'[p] = PG!Seen(p, calls[c].row)
  BY <1>1, <1>3, DisplayedIs
<1>5. \A r \in Rows : drafts[r] # None /\ drafts'[r] = None => r \notin Kept'
  <2> SUFFICES ASSUME NEW r \in Rows, drafts[r] # None, r # FirstRow PROVE drafts'[r] # None
    BY KeptIs DEF Kept
  <2>1. PICK p \in PG!Forms : r \in DOMAIN shown[p]
    BY DEF FormsAreCurrent, OnClient
  <2>2. r \in DOMAIN shown'[p]  BY <1>4, <2>1, ClientPages
  <2>3. shown' \in [PG!Parts -> Views]  BY DEF ScreensTyped
  <2> DEFINE new == shown'
  <2>4. new \in [PG!Parts -> Views] /\ r \in DOMAIN new[p] /\ drafts' = PG!Mounted(new)
    BY <1>1, <2>2, <2>3
  <2> HIDE DEF new
  <2>5. drafts'[r] = drafts[r]  BY <2>4, MountedIsTyped
  <2> QED  BY <2>5
<1> QED  BY <1>1, <1>2, <1>4, <1>5, FormsOfShown

LEMMA FormsOfFail ==
  ASSUME ScreensTyped, FormsAreCurrent, NEW c \in Pair, PG!Fail(c)
  PROVE  FormsAreCurrent'
<1>1. /\ UNCHANGED <<page, server, drafts>> /\ c \in PG!AtWork /\ PG!GoOn(c, PG!AfterFailure(c))
      /\ Remains(c, PG!AfterFailure(c))
      /\ past'.mine = past.mine /\ past'.others = past.others /\ past'.gone = past.gone
         /\ past'.muddled = past.muddled
  BY FailHistory DEF Untold
<1>2. \A d \in PG!AtWork' : Acts(d)' =>
        d \in PG!AtWork /\ d # c /\ calls'[d] = calls[d] /\ Acts(d)
  BY <1>1, ActsAfter
<1>3. CASE PG!Unread(c)
  <2>1. ~OnClient  BY <1>3 DEF PG!Unread, PG!OneState, OnClient
  <2> QED  BY <1>1, <2>1 DEF FormsAreCurrent, OnClient
<1>4. CASE ~PG!Unread(c)
  <2>1. shown' = shown  BY <1>4, FailShows
  <2> QED  BY <1>1, <1>2, <2>1, FormsStay
<1> QED  BY <1>3, <1>4

LEMMA FormsOfFailLeniently ==
  ASSUME PagesFit, ScreensTyped, ScreensTyped', PageOK, FormsAreCurrent, NothingIsAhead',
         NEW c \in Pair, PG!FailLeniently(c)
  PROVE  FormsAreCurrent'
<1>1. /\ UNCHANGED <<page, server>> /\ calls[c].pc = "served" /\ c \in PG!AtWork /\ ~Acts(c)
      /\ drafts' = PG!Mounted(shown') /\ PG!GoOn(c, Tail(calls[c].todo))
         /\ Remains(c, Tail(calls[c].todo))
      /\ shown'["work"] = PG!Nothing
      /\ \A p \in PG!Parts \ {"work"} :
              shown'[p] = IF p \in Head(calls[c].todo) THEN calls[c].got[p] ELSE shown[p]
  BY LenientIs
<1>2. /\ OnClient /\ past'.mine = past.mine /\ past'.others = past.others /\ past.gone
         \subseteq past'.gone /\ past'.muddled = past.muddled
      /\ \A r \in Rows : drafts[r] # None /\ drafts'[r] = None => r \in past'.gone
  BY LenientHistory DEF OnClient, Untold
<1>3. \A d \in PG!AtWork' : Acts(d)' =>
        d \in PG!AtWork /\ d # c /\ calls'[d] = calls[d] /\ Acts(d)
  BY <1>1, ActsAfter
<1>4. \A p \in {"detail"} \cup PG!Forms :
            \/ DOMAIN shown'[p] = DOMAIN shown[p]
            \/ DOMAIN shown'[p] = PG!Seen(p, calls[c].row)
            \/ p \in PG!Forms /\ DOMAIN shown'[p] = {}
  <2> TAKE p \in {"detail"} \cup PG!Forms
  <2>1. CASE p = "work"  BY <1>1, <2>1, ViewsAre DEF PG!Forms
  <2>2. CASE p # "work"
    <3>1. p \in PG!Parts \ {"work"}  BY <2>2, PartsAre DEF PG!Forms
    <3>2. p \in Head(calls[c].todo) => DOMAIN calls[c].got[p] = PG!Seen(p, calls[c].row)
      BY <1>1, DisplayedIsTyped
    <3> QED  BY <1>1, <3>1, <3>2
  <2> QED  BY <2>1, <2>2
<1>5. \A r \in Rows : drafts[r] # None /\ drafts'[r] = None => r \notin Kept'  BY <1>2 DEF Kept
<1> QED  BY <1>1, <1>2, <1>3, <1>4, <1>5, FormsOfShown

LEMMA FormsOfChoose ==
  ASSUME PagesFit, ScreensTyped, FormsAreCurrent, NEW r \in Rows, PG!Choose(r)
  PROVE  FormsAreCurrent'
<1>1. /\ UNCHANGED <<page, server, shown, calls>> /\ PG!AtWork' = PG!AtWork
      /\ drafts' = [drafts EXCEPT ![r] = PG!Chosen] /\ \E p \in PG!Forms : r \in DOMAIN shown[p]
      /\ past'.mine = past.mine /\ past'.others = past.others /\ past'.gone = past.gone
         /\ past'.muddled = past.muddled
  BY ChooseHistory DEF Untold
<1> SUFFICES ASSUME OnClient PROVE FormsAreCurrent'
  BY <1>1 DEF FormsAreCurrent, OnClient
<1>2. \A q \in Rows : drafts'[q] = IF q = r THEN PG!Chosen ELSE drafts[q]
  BY <1>1 DEF ScreensTyped
<1>3. \A q \in Rows : drafts'[q] = None <=> drafts[q] = None
  <2>1. drafts[r] # None  BY <1>1 DEF FormsAreCurrent, OnClient
  <2> QED  BY <1>2, <2>1, DraftsAre
<1>4. Kept' = Kept  BY <1>1 DEF Kept
<1>5. ASSUME NEW q \in Kept PROVE FormIsCurrent(q)'
  <2>1. FormIsCurrent(q) /\ q \in Rows  BY <1>5, KeptIs DEF FormsAreCurrent, OnClient
  <2>2. drafts'[q] = drafts[q] \/ drafts'[q] = PG!Chosen  BY <1>2, <2>1
  <2>3. \A d \in PG!AtWork : (Acts(d)' <=> Acts(d)) /\ calls'[d] = calls[d]
    BY <1>1, SameHandler
  <2> QED  BY <1>1, <1>3, <2>1, <2>2, <2>3, DraftsAre DEF FormIsCurrent
<1> QED  BY <1>1, <1>3, <1>4, <1>5 DEF FormsAreCurrent, OnClient

LEMMA FormsOfOthers ==
  ASSUME PagesFit, ScreensTyped, FormsAreCurrent, NEW r \in Rows, PG!Others(r)
  PROVE  FormsAreCurrent'
<1>1. /\ UNCHANGED <<page, shown, calls, drafts>> /\ PG!AtWork' = PG!AtWork
      /\ past'.mine = past.mine /\ past'.others = past.others \cup {r} /\ past'.gone = past.gone
         /\ past'.muddled = past.muddled
      /\ \A q \in Rows : q # r => server'[q] = server[q]
  BY OthersHistory
<1> SUFFICES ASSUME OnClient PROVE FormsAreCurrent'
  BY <1>1 DEF FormsAreCurrent, OnClient
<1>2. ASSUME NEW q \in Kept' PROVE FormIsCurrent(q)'
  <2>1. q \in Kept /\ q # r /\ q \in Rows  BY <1>1, <1>2 DEF Kept
  <2>2. FormIsCurrent(q)  BY <2>1 DEF FormsAreCurrent, OnClient
  <2>3. \A d \in PG!AtWork : (Acts(d)' <=> Acts(d)) /\ calls'[d] = calls[d]
    BY <1>1, SameHandler
  <2> QED  BY <1>1, <2>1, <2>2, <2>3 DEF FormIsCurrent
<1> QED  BY <1>1, <1>2 DEF FormsAreCurrent, OnClient

-----------------------------------------------------------------------------
(* Saves.                                                                  *)

LEMMA SavesOfSubmit ==
  ASSUME PagesFit, ScreensTyped, PageOK, NothingIsAhead, FormsAreCurrent, PG!SavesAreChosen,
         NEW c \in Pair, NEW a \in PG!P.controls, NEW r \in Rows, PG!Submit(c, a, r)
  PROVE  PG!SavesAreChosen'
<1>1. /\ PG!Offered(a, r) /\ past'.others = past.others /\ past'.gone = past.gone
      /\ past'.reverted = IF a.flag = "row" /\ drafts[r] \in 0 .. shown[a.on][r].n - 1
                          THEN past.reverted \cup {r} ELSE past.reverted
  BY SubmitHistory DEF Untold
<1> SUFFICES ASSUME a.flag = "row", drafts[r] \in 0 .. shown[a.on][r].n - 1,
                      r \notin past.others \cup past.gone
             PROVE  FALSE
  BY <1>1 DEF PG!SavesAreChosen
<1>2. OnClient /\ a.on \in PG!Forms  BY DEF PageOK, ControlOK, OnClient
<1>3. r \in DOMAIN shown[a.on] /\ a.on \in PG!Parts
  BY <1>1, <1>2, PartsAre DEF PG!Offered, PagesFit, PG!Forms
<1>4. r # FirstRow  BY <1>2, <1>3 DEF FormsAreCurrent, OnClient
<1>5. FormIsCurrent(r)  BY <1>2, <1>4 DEF FormsAreCurrent, OnClient, Kept
<1>6. shown[a.on][r].n \in 0 .. MaxVersion /\ shown[a.on][r].n <= server[r].n
        /\ server[r].n \in Nat
  BY <1>3, NumbersAre DEF NothingIsAhead, PagesFit
<1> DEFINE n == shown[a.on][r].n
<1>7. drafts[r] \in Nat /\ drafts[r] <= n - 1 /\ n \in Nat /\ n <= server[r].n  BY <1>6
<1>8. drafts[r] = server[r].n  BY <1>5, <1>7 DEF FormIsCurrent
<1> HIDE DEF n
<1> QED  BY <1>6, <1>7, <1>8
-----------------------------------------------------------------------------
(* Every step keeps the invariant.                                         *)

LEMMA SavesStay ==
  ASSUME PG!SavesAreChosen, past'.reverted = past.reverted, past.others \subseteq past'.others,
         past.gone \subseteq past'.gone
  PROVE  PG!SavesAreChosen'
BY DEF PG!SavesAreChosen

LEMMA StrandedStay ==
  ASSUME StrandedAreKnown, past'.left = past.left,
         \A d \in PG!AtWork' : calls'[d].name = "left" /\ calls'[d].pc = "sent" =>
           d \in PG!AtWork /\ calls[d].name = "left" /\ calls[d].pc = "sent"
  PROVE  StrandedAreKnown'
BY DEF StrandedAreKnown

\* Those that are left after one has gone on were left.
LEMMA StrandedGoOn ==
  ASSUME ScreensTyped, StrandedAreKnown, page' = page, past'.left = past.left,
         NEW c \in PG!AtWork, NEW rest, Remains(c, rest), PG!GoOn(c, rest)
  PROVE  StrandedAreKnown'
<1>1. /\ \A d \in Pair : d # c => calls'[d] = calls[d]
      /\ rest = << >> => PG!AtWork' = PG!AtWork \ {c}
      /\ rest # << >> => PG!AtWork' = PG!AtWork /\ calls'[c].name = calls[c].name
  BY GoOnStep
<1>2. \A d \in PG!AtWork' : d \in PG!AtWork /\ (d = c => rest # << >>)  BY <1>1
<1>3. calls[c].name = "left" => rest = << >>  BY DEF Remains
<1>4. \A d \in PG!AtWork' : calls'[d].name = "left" => d # c /\ calls'[d] = calls[d]
  BY <1>1, <1>2, <1>3, AtWorkIs
<1> QED  BY <1>2, <1>4, StrandedStay

\* What only changes the server or a draft leaves the handlers as they are.
LEMMA HandlersStay ==
  ASSUME ScreensTyped, ScreensTyped', PagesInvariant, UNCHANGED <<page, shown, calls, busy,
         error, choice>>,
         PG!AtWork' = PG!AtWork, past'.mine = past.mine, past'.crossed = past.crossed,
         past'.muddled = past.muddled, past'.failed = past.failed /\ past'.told = past.told
           /\ past'.left = past.left,
         \A r \in Rows : server'[r].n >= server[r].n
  PROVE  /\ FlagsAreHeld' /\ OneIsAtWork' /\ ChoiceIsShown' /\ PanelBelongs'
         /\ NothingIsAhead' /\ OneReader' /\ WritesArrive' /\ StrandedAreKnown'
<1> USE DEF PagesInvariant
<1>1. FlagsAreHeld'  BY DEF FlagsAreHeld, Holds
<1>2. OneIsAtWork'  BY DEF OneIsAtWork
<1>3. ChoiceIsShown'
  <2>1. PG!P' = PG!P  BY PageStays
  <2> QED  BY <2>1 DEF ChoiceIsShown
<1>4. PanelBelongs'  BY DEF PanelBelongs
<1>5. NothingIsAhead'  BY AheadStays
<1>6. OneReader'  BY DEF OneReader, Reads
<1>7. WritesArrive'  BY WritesStay
<1>8. StrandedAreKnown'  BY StrandedStay
<1> QED  BY <1>1, <1>2, <1>3, <1>4, <1>5, <1>6, <1>7, <1>8

LEMMA PagesStart ==
  ASSUME PagesFit, PageOK, PagesInvariant, NEW c \in Pair, NEW r \in Rows, PG!Pick(c, r)
  PROVE  PagesInvariant'
<1> USE DEF PagesInvariant
<1>1. ScreensTyped'  BY PickIsTyped
<1>2. /\ page' = page /\ UNCHANGED <<server, shown>> /\ c \notin PG!AtWork
      /\ \A d \in Pair : d # c => calls'[d] = calls[d]
      /\ PG!AtWork' = PG!AtWork \cup {c} /\ calls'[c].pc = "sent" /\ calls'[c].todo = PG!P.picks
      /\ past'.crossed = past.crossed \cup PG!Crossing(c, Head(PG!P.picks)) \cup PG!Upset
      /\ past'.reverted = past.reverted /\ calls'[c].name = "pick"
  BY PickHistory
<1>3. /\ past'.mine = past.mine /\ past'.others = past.others /\ past'.left = past.left
         /\ past.gone \subseteq past'.gone
      /\ past.crossed \subseteq past'.crossed
  BY PickHistory DEF Untold
<1>4. FlagsAreHeld'  BY FlagsOfPick
<1>5. OneIsAtWork'  BY <1>2, OneStarts DEF OneIsAtWork
<1>6. ChoiceIsShown'  BY ChoiceOfPick
<1>7. PanelBelongs'  BY PanelOfPick
<1>8. NothingIsAhead'  BY <1>1, <1>2, <1>3, AheadOfStart
<1>9. OneReader'  BY <1>2, <1>3, ReaderStarts
<1>10. WritesArrive'  BY WritesOfPick
<1>11. FormsAreCurrent'  BY FormsOfPick
<1>12. PG!SavesAreChosen'  BY <1>2, <1>3, SavesStay
<1>13. StrandedAreKnown'  BY <1>2, <1>3, AtWorkIs, StrandedStay
<1> QED  BY <1>13, <1>1, <1>4, <1>5, <1>6, <1>7, <1>8, <1>9, <1>10, <1>11, <1>12

\* The approvals are read again.
LEMMA PagesTryAgain ==
  ASSUME PagesFit, PageOK, PagesInvariant, NEW c \in Pair, PG!TryAgain(c)
  PROVE  PagesInvariant'
<1> USE DEF PagesInvariant
<1> DEFINE f == PG!Handler("open", FirstRow, None, PG!P.opens, 0)
           x == past.crossed \cup PG!Crossing(c, Head(PG!P.opens)) \cup PG!Upset
           e == past.events + 1
<1>1. /\ UNCHANGED <<page, server, shown, busy, loading, error, choice, drafts>>
      /\ page = "approvals" /\ PG!Free(c) /\ PG!Turn(c, f)
      /\ past' = [past EXCEPT !.events = e, !.crossed = x] /\ past \in Histories
  BY DEF PG!TryAgain, PG!MayAct, ScreensTyped
<1>2. Script(PG!P.opens) /\ PG!P.opens[1] # {"act"}  BY DEF PageOK
<1>3. PG!P.opens \in Seq(Requests) /\ Head(PG!P.opens) # {"act"}
        /\ Head(PG!P.opens) \in SUBSET PG!Parts
  BY <1>2, ScriptIs, TailOf
<1>4. /\ f \in Handlers /\ f.pc = "sent" /\ f.name = "open" /\ f.row = FirstRow /\ f.flag = None
      /\ f.todo = PG!P.opens /\ FirstRow \in Rows
  BY <1>3 DEF PG!Handler, Handlers, PagesFit
<1>5. e \in Nat /\ x \in SUBSET (PG!Parts \cup {"pick"})  BY <1>1, <1>3, PlacesAre DEF Histories
<1>6. past.crossed \subseteq x /\ PG!Upset \subseteq x /\ PG!Crossing(c, Head(PG!P.opens))
        \subseteq x
  OBVIOUS
<1> HIDE DEF f, x, e
<1>7. /\ calls' \in [Pair -> Handlers] /\ calls'[c] = f /\ c \notin PG!AtWork
      /\ \A d \in Pair : d # c => calls'[d] = calls[d]
      /\ PG!AtWork' = PG!AtWork \cup {c} /\ \A d \in PG!AtWork' : HandlerOK(d)'
  BY <1>1, <1>2, <1>3, <1>4, StartStep
<1>8. /\ past' \in Histories /\ past'.crossed = x /\ past'.mine = past.mine
         /\ past'.others = past.others
      /\ past'.reverted = past.reverted /\ past'.gone = past.gone
         /\ past'.muddled = past.muddled
      /\ past'.failed = past.failed /\ past'.told = past.told /\ past'.left = past.left
  <2> DEFINE g == [past EXCEPT !.events = e, !.crossed = x]
  <2>1. /\ g \in Histories
        /\ g.events = e /\ g.crossed = x /\ g.mine = past.mine /\ g.others = past.others
        /\ g.reverted = past.reverted /\ g.gone = past.gone /\ g.muddled = past.muddled
        /\ g.failed = past.failed /\ g.told = past.told /\ g.left = past.left
    <3>1. past \in Histories  BY <1>1
    <3> HIDE DEF PagesInvariant
    <3> QED  BY <1>5, <3>1 DEF Histories
  <2>2. past' = g  BY <1>1
  <2> QED  BY <2>1, <2>2
<1>9. ScreensTyped'  BY <1>1, <1>7, <1>8 DEF ScreensTyped
<1>10. PG!P' = PG!P /\ PG!P.picks = << >>  BY <1>1, PageStays DEF PageOK, PG!OneState
<1>11. FlagsAreHeld'
  <2>1. ~Holds(c)'  BY <1>4, <1>7 DEF Holds
  <2>2. \A d \in PG!AtWork' : Holds(d)' => d \in PG!AtWork /\ Holds(d) /\ calls'[d] = calls[d]
    <3> TAKE d \in PG!AtWork'
    <3>1. CASE d = c  BY <2>1, <3>1
    <3>2. CASE d # c  BY <1>7, <3>2, AtWorkIs, SameHandler
    <3> QED  BY <3>1, <3>2
  <2> QED  BY <1>1, <1>8, <2>2 DEF FlagsAreHeld
<1>12. OneIsAtWork'  BY <1>6, <1>7, <1>8, OneStarts DEF OneIsAtWork
<1>13. ChoiceIsShown'  BY <1>10 DEF ChoiceIsShown
<1>14. PanelBelongs'
  <2>1. Head(PG!P.opens) # {"client"}  BY <1>1, <1>2, StartsElsewhere
  <2> QED  BY <1>1, <1>4, <1>6, <1>7, <1>8, <2>1, PanelOfStart
<1>15. NothingIsAhead'  BY <1>1, <1>4, <1>7, <1>8, <1>9, AheadOfStart
<1>16. OneReader'  BY <1>4, <1>6, <1>7, <1>8, ReaderStarts
<1>17. WritesArrive'
  <2> SUFFICES ASSUME ~Broken', NEW a \in PG!P.controls,
                      NEW p \in PG!ReadAgain(a) \ (past'.crossed \cup {"client"})
               PROVE  Arrives(p)'
    BY <1>10, WritesArriveNext
  <2>1. \A k \in DOMAIN PG!P.opens : p \in PG!P.opens[k] => Arrives(p)'
    <3>1. calls'[c].todo = PG!P.opens /\ calls'[c].pc = "sent" /\ c \in PG!AtWork'
      BY <1>4, <1>7
    <3> QED  BY <3>1 DEF Arrives, WillRead
  <2>2. p = "list" /\ PG!P.opens = <<{"list"}>>
    BY <1>1 DEF PageOK, PG!OneState, PG!P, PG!ApprovalsPage, PG!Page
  <2>3. 1 \in DOMAIN <<{"list"}>> /\ "list" \in <<{"list"}>>[1]  OBVIOUS
  <2> QED  BY <2>1, <2>2, <2>3
<1>18. FormsAreCurrent'  BY <1>1 DEF FormsAreCurrent
<1>19. PG!SavesAreChosen'  BY <1>8, SavesStay
<1>20. StrandedAreKnown'
  <2>1. \A d \in PG!AtWork' : calls'[d].name = "left" => d \in PG!AtWork /\ calls'[d] = calls[d]
    BY <1>4, <1>7, AtWorkIs
  <2> QED  BY <1>8, <2>1, StrandedStay
<1> QED  BY <1>9, <1>11, <1>12, <1>13, <1>14, <1>15, <1>16, <1>17, <1>18, <1>19, <1>20

LEMMA PagesSubmit ==
  ASSUME PagesFit, PageOK, PagesInvariant, NEW c \in Pair, NEW a \in PG!P.controls,
         NEW r \in Rows, PG!Submit(c, a, r)
  PROVE  PagesInvariant'
<1> USE DEF PagesInvariant
<1>1. ScreensTyped'  BY SubmitIsTyped
<1>2. /\ c \notin PG!AtWork /\ \A d \in Pair : d # c => calls'[d] = calls[d]
      /\ PG!AtWork' = PG!AtWork \cup {c} /\ calls'[c].pc = "sent" /\ calls'[c].todo = Order(a)
      /\ calls'[c].name = a.name /\ a.name # "left"
  BY SubmitStarts, FlagIsTyped
<1>3. UNCHANGED <<server, shown>> /\ past'.crossed = past.crossed \cup PG!Upset
  BY SubmitHistory
<1>4. past'.mine = past.mine /\ past'.left = past.left /\ past.crossed \subseteq past'.crossed
  BY SubmitHistory DEF Untold
<1>5. FlagsAreHeld'  BY FlagsOfSubmit
<1>6. OneIsAtWork'  BY <1>2, <1>3, OneStarts DEF OneIsAtWork
<1>7. ChoiceIsShown'  BY ChoiceOfSubmit
<1>8. PanelBelongs'  BY PanelOfSubmit
<1>9. NothingIsAhead'  BY <1>1, <1>2, <1>3, <1>4, AheadOfStart
<1>10. OneReader'
  <2>1. Head(Order(a)) = {"act"}  BY OrderIs
  <2>2. \A p \in PG!Parts : ~Reads(c, p)'  BY <1>2, <2>1, PartsAre DEF Reads
  <2>3. \A h \in PG!AtWork : \A p : (Reads(h, p)' <=> Reads(h, p)) /\ h # c
    BY <1>2, AtWorkIs, SameHandler
  <2>4. \A p \in PG!Parts \ past'.crossed : \A h, k \in PG!AtWork : Reads(h, p) /\ Reads(k, p)
          => h = k
    BY <1>4 DEF OneReader
  <2> SUFFICES ASSUME NEW p \in PG!Parts \ past'.crossed, NEW d \in PG!AtWork',
                        NEW e \in PG!AtWork',
                      Reads(d, p)', Reads(e, p)'
               PROVE  d = e
    BY DEF OneReader
  <2>5. d # c /\ e # c /\ d \in PG!AtWork /\ e \in PG!AtWork  BY <1>2, <2>2
  <2> QED  BY <2>3, <2>4, <2>5
<1>11. WritesArrive'  BY WritesOfSubmit
<1>12. FormsAreCurrent'  BY FormsOfSubmit
<1>13. PG!SavesAreChosen'  BY SavesOfSubmit
<1>14. StrandedAreKnown'  BY <1>2, <1>4, AtWorkIs, StrandedStay
<1> QED  BY <1>14, <1>1, <1>5, <1>6, <1>7, <1>8, <1>9, <1>10, <1>11, <1>12, <1>13

LEMMA PagesServe ==
  ASSUME PagesFit, PageOK, PagesInvariant, NEW c \in Pair, PG!Serve(c)
  PROVE  PagesInvariant'
<1> USE DEF PagesInvariant
<1>1. ScreensTyped'  BY ServeIsTyped
<1>2. /\ c \in PG!AtWork /\ PG!AtWork' = PG!AtWork /\ calls'[c].pc = "served"
      /\ \A d \in Pair : d # c => calls'[d] = calls[d]
  <2>1. page' = page  BY DEF PG!Serve
  <2> QED  BY <2>1, ServeStep
<1>3. /\ past'.crossed = past.crossed /\ past'.reverted = past.reverted
      /\ past'.others = past.others /\ past'.gone = past.gone
      /\ past'.left = past.left
  <2>1. CASE Acts(c)  BY <2>1, WrittenIs
  <2>2. CASE ~Acts(c)  BY <2>2, ReadHistory
  <2> QED  BY <2>1, <2>2
<1>4. FlagsAreHeld' /\ OneReader'  BY <1>3, FlagsOfServe, ReaderIsServed
<1>5. OneIsAtWork'  BY <1>2, <1>3, OneGoesOn
<1>6. ChoiceIsShown' /\ PanelBelongs'  BY ChoiceOfServe, PanelOfServe
<1>7. NothingIsAhead'  BY <1>1, AheadOfServe
<1>8. WritesArrive' /\ FormsAreCurrent'  BY WritesOfServe, FormsOfServe
<1>9. PG!SavesAreChosen'  BY <1>3, SavesStay
<1>10. StrandedAreKnown'
  <2>1. \A d \in PG!AtWork' : calls'[d].pc = "sent" =>
          d # c /\ d \in PG!AtWork /\ calls'[d] = calls[d]
    BY <1>2, AtWorkIs
  <2> QED  BY <1>3, <2>1, StrandedStay
<1> QED  BY <1>10, <1>1, <1>4, <1>5, <1>6, <1>7, <1>8, <1>9

LEMMA PagesAnswer ==
  ASSUME PagesFit, PageOK, PagesInvariant, NEW c \in Pair, PG!Answer(c)
  PROVE  PagesInvariant'
<1> USE DEF PagesInvariant
<1>1. ScreensTyped'  BY PageAnswerIsTyped
<1>2. /\ page' = page /\ c \in PG!AtWork /\ PG!GoOn(c, PG!After(c)) /\ Remains(c, PG!After(c))
      /\ past'.reverted = past.reverted /\ past'.muddled = past.muddled
      /\ PG!After(c) # << >> => PG!Crossing(c, Head(PG!After(c))) \subseteq past'.crossed
  BY AnswerHistory
<1>3. past'.left = past.left /\ past'.others = past.others /\ past.gone \subseteq past'.gone
        /\ past.crossed \subseteq past'.crossed
  BY AnswerHistory DEF Untold
<1>4. PG!AtWork' \subseteq PG!AtWork  BY <1>2, GoOnStep
<1>5. FlagsAreHeld' /\ OneReader'  BY <1>2, <1>3, FlagsOfGoOn, ReaderGoesOn
<1>6. OneIsAtWork'  BY <1>3, <1>4, OneGoesOn
<1>7. ChoiceIsShown' /\ PanelBelongs'  BY ChoiceOfAnswer, PanelOfAnswer
<1>8. NothingIsAhead'  BY AheadOfAnswer
<1>9. WritesArrive' /\ FormsAreCurrent'  BY <1>1, <1>8, WritesOfAnswer, FormsOfAnswer
<1>10. PG!SavesAreChosen'  BY <1>2, <1>3, SavesStay
<1>11. StrandedAreKnown'  BY <1>2, <1>3, StrandedGoOn
<1> QED  BY <1>11, <1>1, <1>5, <1>6, <1>7, <1>8, <1>9, <1>10

LEMMA PagesFail ==
  ASSUME PagesFit, PageOK, PagesInvariant, NEW c \in Pair, PG!Fail(c)
  PROVE  PagesInvariant'
<1> USE DEF PagesInvariant
<1>1. ScreensTyped'  BY FailIsTyped
<1>2. /\ page' = page /\ c \in PG!AtWork /\ PG!GoOn(c, PG!AfterFailure(c))
         /\ Remains(c, PG!AfterFailure(c))
      /\ past'.reverted = past.reverted /\ past'.muddled = past.muddled
      /\ PG!AfterFailure(c) # << >> => PG!Crossing(c, Head(PG!AfterFailure(c)))
         \subseteq past'.crossed
  BY FailHistory
<1>3. past'.left = past.left /\ past'.others = past.others /\ past.gone \subseteq past'.gone
        /\ past.crossed \subseteq past'.crossed
  BY FailHistory DEF Untold
<1>4. PG!AtWork' \subseteq PG!AtWork  BY <1>2, GoOnStep
<1>5. FlagsAreHeld' /\ OneReader'  BY <1>2, <1>3, FlagsOfGoOn, ReaderGoesOn
<1>6. OneIsAtWork'  BY <1>3, <1>4, OneGoesOn
<1>7. ChoiceIsShown' /\ PanelBelongs'  BY ChoiceOfFail, PanelOfFail
<1>8. NothingIsAhead'  BY <1>1, AheadOfFail
<1>9. WritesArrive' /\ FormsAreCurrent'  BY WritesOfFail, FormsOfFail
<1>10. PG!SavesAreChosen'  BY <1>2, <1>3, SavesStay
<1>11. StrandedAreKnown'  BY <1>2, <1>3, StrandedGoOn
<1> QED  BY <1>11, <1>1, <1>5, <1>6, <1>7, <1>8, <1>9, <1>10

LEMMA PagesFailLeniently ==
  ASSUME PagesFit, PageOK, PagesInvariant, NEW c \in Pair, PG!FailLeniently(c)
  PROVE  PagesInvariant'
<1> USE DEF PagesInvariant
<1>1. ScreensTyped'  BY FailLenientlyIsTyped
<1>2. /\ page' = page /\ c \in PG!AtWork /\ PG!GoOn(c, << >>) /\ Remains(c, << >>)
  <2>1. UNCHANGED <<page, server, error, choice>> /\ c \in PG!AtWork
          /\ PG!GoOn(c, Tail(calls[c].todo))
        /\ Remains(c, Tail(calls[c].todo))
    BY LenientIs
  <2>2. Tail(calls[c].todo) = << >>  BY LenientHistory
  <2> QED  BY <2>1, <2>2
<1>3. /\ past'.left = past.left /\ past'.others = past.others /\ past.gone \subseteq past'.gone
         /\ past'.crossed = past.crossed
      /\ past'.reverted = past.reverted /\ past'.muddled = past.muddled
  BY LenientHistory DEF Untold
<1>4. PG!AtWork' \subseteq PG!AtWork  BY <1>2, GoOnStep
<1>5. FlagsAreHeld' /\ OneReader'  BY <1>2, <1>3, FlagsOfGoOn, ReaderGoesOn
<1>6. OneIsAtWork'  BY <1>3, <1>4, OneGoesOn
<1>7. ChoiceIsShown' /\ PanelBelongs'  BY ChoiceOfFailLeniently, PanelOfFailLeniently
<1>8. NothingIsAhead'  BY AheadOfFailLeniently
<1>9. WritesArrive' /\ FormsAreCurrent'
  BY <1>1, <1>8, WritesOfFailLeniently, FormsOfFailLeniently
<1>10. PG!SavesAreChosen'  BY <1>3, SavesStay
<1>11. StrandedAreKnown'  BY <1>2, <1>3, StrandedGoOn
<1> QED  BY <1>11, <1>1, <1>5, <1>6, <1>7, <1>8, <1>9, <1>10

LEMMA PagesChoose ==
  ASSUME PagesFit, PagesInvariant, NEW r \in Rows, PG!Choose(r)
  PROVE  PagesInvariant'
<1> USE DEF PagesInvariant
<1>1. ScreensTyped'  BY PageChooseIsTyped
<1>2. /\ UNCHANGED <<page, server, shown, calls, busy, error, choice>> /\ PG!AtWork' = PG!AtWork
      /\ past'.reverted = past.reverted /\ past'.gone = past.gone
      /\ past'.crossed = past.crossed /\ past'.muddled = past.muddled
         /\ past'.failed = past.failed /\ past'.told = past.told /\ past'.left = past.left
  BY ChooseHistory
<1>3. past'.mine = past.mine /\ past'.others = past.others  BY ChooseHistory DEF Untold
<1>4. \A q \in Rows : server'[q].n >= server[q].n  BY <1>2, NumbersAre
<1>5. /\ FlagsAreHeld' /\ OneIsAtWork' /\ ChoiceIsShown' /\ PanelBelongs'
      /\ NothingIsAhead' /\ OneReader' /\ WritesArrive' /\ StrandedAreKnown'
  BY <1>1, <1>2, <1>3, <1>4, HandlersStay
<1>6. FormsAreCurrent'  BY FormsOfChoose
<1>7. PG!SavesAreChosen'  BY <1>2, <1>3, SavesStay
<1> QED  BY <1>1, <1>5, <1>6, <1>7

LEMMA PagesOthers ==
  ASSUME PagesFit, PagesInvariant, NEW r \in Rows, PG!Others(r)
  PROVE  PagesInvariant'
<1> USE DEF PagesInvariant
<1>1. ScreensTyped'  BY OthersIsTyped
<1>2. /\ UNCHANGED <<page, shown, calls, busy, error, choice, drafts>> /\ PG!AtWork' = PG!AtWork
      /\ past'.mine = past.mine /\ past'.others = past.others \cup {r}
      /\ past'.reverted = past.reverted /\ past'.gone = past.gone
      /\ past'.crossed = past.crossed /\ past'.muddled = past.muddled
         /\ past'.failed = past.failed /\ past'.told = past.told /\ past'.left = past.left
      /\ \A q \in Rows : server'[q].n >= server[q].n
  BY OthersHistory
<1>3. /\ FlagsAreHeld' /\ OneIsAtWork' /\ ChoiceIsShown' /\ PanelBelongs'
      /\ NothingIsAhead' /\ OneReader' /\ WritesArrive' /\ StrandedAreKnown'
  BY <1>1, <1>2, HandlersStay
<1>4. FormsAreCurrent'  BY FormsOfOthers
<1>5. PG!SavesAreChosen'  BY <1>2, SavesStay
<1> QED  BY <1>1, <1>3, <1>4, <1>5

LEMMA PagesRest ==
  ASSUME PagesInvariant, UNCHANGED PG!vars
  PROVE  PagesInvariant'
<1> USE DEF PagesInvariant, PG!vars
<1>1. PG!AtWork' = PG!AtWork /\ PG!P' = PG!P  BY PageStays DEF PG!AtWork
<1>2. ScreensTyped'
  <2>1. \A d \in PG!AtWork' : HandlerOK(d)'
    <3> SUFFICES ASSUME NEW d \in PG!AtWork' PROVE HandlerOK(d)'
      OBVIOUS
    <3>1. HandlerOK(d)  BY <1>1 DEF ScreensTyped
    <3> QED  BY <3>1, HandlerStays
  <2> QED  BY <2>1 DEF ScreensTyped
<1>3. \A q \in Rows : server'[q].n >= server[q].n  BY NumbersAre
<1>4. /\ FlagsAreHeld' /\ OneIsAtWork' /\ ChoiceIsShown' /\ PanelBelongs'
      /\ NothingIsAhead' /\ OneReader' /\ WritesArrive' /\ StrandedAreKnown'
  BY <1>1, <1>2, <1>3, HandlersStay
<1>5. FormsAreCurrent'  BY <1>1, FormsStay DEF Acts
<1>6. PG!SavesAreChosen'  BY SavesStay
<1> QED  BY <1>2, <1>4, <1>5, <1>6

-----------------------------------------------------------------------------
(* The message that is taken away.                                         *)

LEMMA PagesDismiss ==
  ASSUME PagesFit, PageOK, PagesInvariant, PG!Dismiss
  PROVE  PagesInvariant'
<1> USE DEF PagesInvariant
<1>1. /\ UNCHANGED <<page, server, shown, calls, busy, loading, choice, drafts>>
         /\ error' = FALSE
      /\ page \in PG!Dismissible /\ past' = [past EXCEPT !.told = TRUE]
  BY DEF PG!Dismiss
<1>2. /\ past' \in Histories /\ past'.told = TRUE /\ past'.mine = past.mine
      /\ past'.others = past.others /\ past'.reverted = past.reverted /\ past'.gone = past.gone
      /\ past'.crossed = past.crossed /\ past'.muddled = past.muddled
         /\ past'.failed = past.failed
      /\ past'.left = past.left
  BY <1>1 DEF ScreensTyped, Histories
<1>3. PG!AtWork' = PG!AtWork /\ PG!P' = PG!P  BY <1>1, PageStays DEF PG!AtWork
<1>4. ScreensTyped'
  <2>1. \A d \in PG!AtWork' : HandlerOK(d)'  BY <1>1, <1>3, HandlerStays DEF ScreensTyped
  <2> QED  BY <1>1, <1>2, <2>1 DEF ScreensTyped
<1>5. FlagsAreHeld' /\ OneIsAtWork' /\ OneReader'
  BY <1>1, <1>2, <1>3 DEF FlagsAreHeld, Holds, OneIsAtWork, OneReader, Reads
<1>6. ChoiceIsShown' /\ PanelBelongs'  BY <1>1, <1>2, <1>3 DEF ChoiceIsShown, PanelBelongs
<1>7. NothingIsAhead'
  <2>1. \A r \in Rows : server'[r].n >= server[r].n  BY <1>1, NumbersAre
  <2> QED  BY <1>1, <1>2, <1>3, <1>4, <2>1, AheadStays
<1>8. WritesArrive'  BY <1>1, <1>2, <1>3 DEF WritesArrive, Broken, PageOK
<1>9. FormsAreCurrent'  BY <1>1, <1>2, <1>3, FormsStay DEF Acts
<1>10. PG!SavesAreChosen' /\ StrandedAreKnown'  BY <1>1, <1>2, <1>3, SavesStay, StrandedStay
<1> QED  BY <1>4, <1>5, <1>6, <1>7, <1>8, <1>9, <1>10

-----------------------------------------------------------------------------
(* The tabs of a client.                                                   *)

LEMMA RemountedIs ==
  ASSUME ScreensTyped, NEW r \in Rows
  PROVE  /\ (\A p \in PG!Forms : r \notin DOMAIN shown[p]) => PG!Remounted[r] = None
         /\ (\E p \in PG!Forms : r \in DOMAIN shown[p]) =>
              \E p \in PG!Forms : r \in DOMAIN shown[p] /\ PG!Remounted[r] = shown[p][r].n
                                  /\ PG!Remounted[r] \in 0 .. MaxVersion
<1> DEFINE in == PG!Showing(shown, r)
           one == CHOOSE p \in in : TRUE
<1>1. PG!Forms \subseteq PG!Parts  BY DEF PG!Parts
<1>2. PG!Remounted[r] = IF in = {} THEN None ELSE shown[one][r].n
  BY DEF PG!Remounted, PG!Status
<1>3. in = {p \in PG!Forms : r \in DOMAIN shown[p]}  BY DEF PG!Showing
<1> HIDE DEF in
<1>4. in # {} => one \in PG!Forms /\ r \in DOMAIN shown[one]  BY <1>3
<1> HIDE DEF one
<1>5. in # {} => shown[one][r].n \in 0 .. MaxVersion  BY <1>1, <1>4, NumbersAre
<1>6. CASE in = {}  BY <1>2, <1>3, <1>6
<1>7. CASE in # {}  BY <1>2, <1>3, <1>4, <1>5, <1>7
<1> QED  BY <1>6, <1>7

\* The handlers keep what they ask for and lose the flags of the rows.
LEMMA RowsStep ==
  ASSUME ScreensTyped, PG!RemountRows
  PROVE  /\ UNCHANGED <<page, server, shown, loading, error, choice>> /\ drafts' = PG!Remounted
         /\ busy' = {f \in busy : ~PG!OfARow(f)} /\ page \in PG!RowsTabs
         /\ calls' \in [Pair -> Handlers] /\ PG!AtWork' = PG!AtWork
         /\ \A d \in Pair :
              /\ calls'[d].pc = calls[d].pc /\ calls'[d].name = calls[d].name
              /\ calls'[d].row = calls[d].row /\ calls'[d].todo = calls[d].todo
              /\ calls'[d].tail = calls[d].tail /\ calls'[d].got = calls[d].got
              /\ calls'[d].flag = IF PG!OfARow(calls[d].flag) THEN None ELSE calls[d].flag
         /\ \A d \in PG!AtWork' : HandlerOK(d)'
<1>1. /\ UNCHANGED <<page, server, shown, loading, error, choice>> /\ drafts' = PG!Remounted
      /\ busy' = {f \in busy : ~PG!OfARow(f)} /\ page \in PG!RowsTabs
      /\ calls' = [c \in Pair |-> IF PG!OfARow(calls[c].flag)
                                     THEN [calls[c] EXCEPT !.flag = None]
                                  ELSE calls[c]]
  BY DEF PG!RemountRows
<1>2. ASSUME NEW d \in Pair
      PROVE  /\ calls'[d] \in Handlers
             /\ calls'[d].pc = calls[d].pc /\ calls'[d].name = calls[d].name
             /\ calls'[d].row = calls[d].row /\ calls'[d].todo = calls[d].todo
             /\ calls'[d].tail = calls[d].tail /\ calls'[d].got = calls[d].got
             /\ calls'[d].flag = IF PG!OfARow(calls[d].flag) THEN None ELSE calls[d].flag
  <2>1. calls[d] \in Handlers /\ calls'[d] = IF PG!OfARow(calls[d].flag)
          THEN [calls[d] EXCEPT !.flag = None] ELSE calls[d]
    BY <1>1, <1>2 DEF ScreensTyped
  <2>2. CASE PG!OfARow(calls[d].flag)  BY <2>1, <2>2 DEF Handlers
  <2>3. CASE ~PG!OfARow(calls[d].flag)  BY <2>1, <2>3
  <2> QED  BY <2>2, <2>3
<1>3. calls' \in [Pair -> Handlers]
  <2> DEFINE new == [c \in Pair |-> IF PG!OfARow(calls[c].flag)
                                       THEN [calls[c] EXCEPT !.flag = None]
                                    ELSE calls[c]]
  <2>1. calls' = new /\ DOMAIN new = Pair /\ new = [c \in Pair |-> new[c]]  BY <1>1
  <2> HIDE DEF new
  <2> QED  BY <1>2, <2>1
<1>4. PG!AtWork' = PG!AtWork  BY <1>2 DEF PG!AtWork
<1>5. ASSUME NEW d \in PG!AtWork PROVE HandlerOK(d)'
  <2>1. d \in Pair /\ HandlerOK(d)  BY <1>5, HandlerTypes
  <2>2. (Acts(d)' <=> Acts(d)) /\ (Left(d) => Left(d)')
    BY <1>1, <1>2, <2>1 DEF Acts, Left, PG!OfARow
  <2>3. \A a : Submits(d, a) => Submits(d, a)'  BY <1>2, <2>1 DEF Submits
  <2> QED  BY <1>1, <1>2, <2>1, <2>2, <2>3, PageStays DEF HandlerOK
<1> QED  BY <1>1, <1>2, <1>3, <1>4, <1>5

LEMMA RowsHistory ==
  ASSUME ScreensTyped, PG!RemountRows
  PROVE  /\ past' \in Histories /\ Untold(past, past') /\ past'.reverted = past.reverted
         /\ past'.crossed = past.crossed /\ past'.muddled = past.muddled
         /\ past'.failed = past.failed /\ past'.told = past.told
         /\ \A r \in Rows : \/ \E c \in Pair : PG!Changes(c) /\ calls[c].row = r
                            \/ PG!Remounted[r] \in 0 .. past.mine[r] - 1
                            => r \in past'.gone
<1> DEFINE g == past.gone \cup {r \in Rows : \/ \E c \in Pair : PG!Changes(c)
                                                /\ calls[c].row = r
                                             \/ PG!Remounted[r] \in 0 .. past.mine[r] - 1}
<1> DEFINE m == past.moves + 1
<1>1. past' = [past EXCEPT !.moves = m, !.gone = g] /\ past \in Histories
  BY DEF PG!RemountRows, ScreensTyped
<1>2. /\ past.gone \subseteq g
      /\ \A r \in Rows : \/ \E c \in Pair : PG!Changes(c) /\ calls[c].row = r
                         \/ PG!Remounted[r] \in 0 .. past.mine[r] - 1
                         => r \in g
  OBVIOUS
<1>3. g \in SUBSET Rows /\ m \in Nat  BY <1>1 DEF Histories
<1> HIDE DEF g, m
<1>4. past' \in Histories  BY <1>1, <1>3 DEF Histories
<1>5. /\ past'.gone = g /\ past'.mine = past.mine /\ past'.others = past.others
      /\ past'.left = past.left /\ past'.reverted = past.reverted
      /\ past'.crossed = past.crossed /\ past'.muddled = past.muddled
      /\ past'.failed = past.failed /\ past'.told = past.told
  BY <1>1 DEF Histories
<1> QED  BY <1>2, <1>4, <1>5 DEF Untold

LEMMA FormsOfRows ==
  ASSUME PagesFit, ScreensTyped, PageOK, NothingIsAhead, FormsAreCurrent, PG!RemountRows
  PROVE  FormsAreCurrent'
<1>1. /\ UNCHANGED <<page, server, shown>> /\ drafts' = PG!Remounted /\ OnClient
         /\ PG!AtWork' = PG!AtWork
      /\ \A d \in Pair : calls'[d].row = calls[d].row /\ calls'[d].todo = calls[d].todo
  BY RowsStep DEF PG!RowsTabs, OnClient
<1>2. /\ past'.mine = past.mine /\ past'.others = past.others /\ past.gone \subseteq past'.gone
      /\ past'.muddled = past.muddled
      /\ \A r \in Rows : \/ \E c \in Pair : PG!Changes(c) /\ calls[c].row = r
                         \/ PG!Remounted[r] \in 0 .. past.mine[r] - 1
                         => r \in past'.gone
  BY RowsHistory DEF Untold
<1>3. /\ ~past.muddled /\ DOMAIN shown["detail"] \subseteq {FirstRow}
      /\ \A p \in PG!Forms : FirstRow \notin DOMAIN shown[p]
      /\ \A q \in Rows : drafts[q] = None <=> \A p \in PG!Forms : q \notin DOMAIN shown[p]
      /\ \A q \in Kept : FormIsCurrent(q)
  BY <1>1 DEF FormsAreCurrent, OnClient
<1>4. \A q \in Rows : drafts'[q] = None <=> \A p \in PG!Forms : q \notin DOMAIN shown[p]
  <2> TAKE q \in Rows
  <2>1. CASE \A p \in PG!Forms : q \notin DOMAIN shown[p]  BY <1>1, <2>1, RemountedIs
  <2>2. CASE \E p \in PG!Forms : q \in DOMAIN shown[p]  BY <1>1, <2>2, RemountedIs, DraftsAre
  <2> QED  BY <2>1, <2>2
<1>5. ASSUME NEW r \in Kept' PROVE FormIsCurrent(r)'
  <2>1. r \in Kept /\ r \in Rows /\ r \notin past'.gone  BY <1>2, <1>5, KeptShrinks DEF Kept
  <2>2. FormIsCurrent(r)  BY <1>3, <2>1
  <2>3. past.mine[r] = server[r].n /\ server[r].n \in 0 .. MaxVersion /\ MaxVersion \in Nat
    BY <2>1, <2>2, NumbersAre DEF FormIsCurrent, PagesFit
  <2>4. drafts'[r] \in Nat => drafts'[r] = server[r].n
    <3> SUFFICES ASSUME drafts'[r] \in Nat PROVE drafts'[r] = server[r].n
      OBVIOUS
    <3>1. \E p \in PG!Forms : r \in DOMAIN shown[p]  BY <1>1, <2>1, RemountedIs, DraftsAre
    <3>2. PICK p \in PG!Forms : r \in DOMAIN shown[p] /\ PG!Remounted[r] = shown[p][r].n
                                /\ PG!Remounted[r] \in 0 .. MaxVersion
      BY <2>1, <3>1, RemountedIs
    <3>3. shown[p][r].n <= server[r].n  BY <3>2 DEF NothingIsAhead, PG!Parts
    <3>4. PG!Remounted[r] \notin 0 .. past.mine[r] - 1  BY <1>2, <2>1
    <3> DEFINE n == PG!Remounted[r]
               m == server[r].n
    <3>5. n \in 0 .. MaxVersion /\ n <= m /\ n \notin 0 .. m - 1 /\ m \in 0 .. MaxVersion
      BY <2>3, <3>2, <3>3, <3>4
    <3>6. drafts'[r] = n  BY <1>1
    <3> HIDE DEF n, m
    <3>7. n = m  BY <2>3, <3>5
    <3> QED  BY <3>6, <3>7 DEF m
  <2>5. drafts'[r] = None => server[r].n = 0  BY <1>3, <1>4, <2>1, <2>2 DEF FormIsCurrent
  <2>6. \A d \in PG!AtWork' : ~(Acts(d)' /\ calls'[d].row = r)
    <3> SUFFICES ASSUME NEW d \in PG!AtWork, Acts(d)', calls'[d].row = r PROVE FALSE
      BY <1>1
    <3>1. d \in Pair /\ calls'[d].row = calls[d].row /\ calls'[d].todo = calls[d].todo
      BY <1>1, AtWorkIs
    <3>2. PG!Changes(d) /\ calls[d].row = r  BY <3>1 DEF PG!Changes, Acts
    <3> QED  BY <1>2, <2>1, <3>1, <3>2
  <2> QED  BY <1>1, <1>2, <2>3, <2>4, <2>5, <2>6 DEF FormIsCurrent
<1> QED  BY <1>1, <1>2, <1>3, <1>4, <1>5 DEF FormsAreCurrent, OnClient

LEMMA PagesRemountRows ==
  ASSUME PagesFit, PageOK, PagesInvariant, PG!RemountRows
  PROVE  PagesInvariant'
<1> USE DEF PagesInvariant
<1>1. /\ UNCHANGED <<page, server, shown, loading, error, choice>> /\ drafts' = PG!Remounted
      /\ busy' = {f \in busy : ~PG!OfARow(f)} /\ page \in PG!RowsTabs
      /\ calls' \in [Pair -> Handlers] /\ PG!AtWork' = PG!AtWork
      /\ \A d \in PG!AtWork' : HandlerOK(d)'
  BY RowsStep
<1>2. \A d \in PG!AtWork :
        /\ calls'[d].pc = calls[d].pc /\ calls'[d].name = calls[d].name
        /\ calls'[d].row = calls[d].row /\ calls'[d].todo = calls[d].todo
        /\ calls'[d].tail = calls[d].tail /\ calls'[d].got = calls[d].got
        /\ calls'[d].flag = IF PG!OfARow(calls[d].flag) THEN None ELSE calls[d].flag
  BY RowsStep, AtWorkIs
<1>3. /\ past' \in Histories /\ past'.reverted = past.reverted
      /\ past'.crossed = past.crossed /\ past'.muddled = past.muddled
      /\ past'.failed = past.failed /\ past'.told = past.told
      /\ past'.mine = past.mine /\ past'.others = past.others /\ past.gone \subseteq past'.gone
      /\ past'.left = past.left
  BY RowsHistory DEF Untold
<1>4. PG!P' = PG!P  BY <1>1, PageStays
<1>5. ScreensTyped'
  <2>1. drafts' \in [Rows -> {None, PG!Chosen, PG!Sent} \cup 0 .. MaxVersion]
    <3>1. \A r \in Rows : PG!Remounted[r] \in {None} \cup 0 .. MaxVersion  BY RemountedIs
    <3>2. PG!Remounted = [r \in Rows |-> PG!Remounted[r]]  BY DEF PG!Remounted
    <3> QED  BY <1>1, <3>1, <3>2
  <2>2. busy' \subseteq Flags  BY <1>1 DEF ScreensTyped
  <2> QED  BY <1>1, <1>3, <2>1, <2>2 DEF ScreensTyped
<1>6. FlagsAreHeld'
  <2>1. \A d \in PG!AtWork : Holds(d)' =>
          Holds(d) /\ calls'[d].flag = calls[d].flag /\ ~PG!OfARow(calls[d].flag)
    BY <1>2 DEF Holds
  <2> QED  BY <1>1, <1>3, <2>1 DEF FlagsAreHeld
<1>7. OneIsAtWork' /\ OneReader'  BY <1>1, <1>2, <1>3 DEF OneIsAtWork, OneReader, Reads
<1>8. ChoiceIsShown'  BY <1>1, <1>4 DEF ChoiceIsShown, PageOK, PG!RowsTabs
<1>9. PanelBelongs'  BY <1>1, <1>2, <1>3 DEF PanelBelongs
<1>10. NothingIsAhead'  BY <1>1, <1>2, <1>3 DEF NothingIsAhead, Acts
<1>11. WritesArrive'
  <2>1. \A d \in PG!AtWork : \A p : (HasRead(d, p)' <=> HasRead(d, p))
                                       /\ (WillRead(d, p)' <=> WillRead(d, p))
                                    /\ calls'[d].got[p] = calls[d].got[p]
    BY <1>2 DEF HasRead, WillRead, Reads
  <2>2. \A view : Recent(view)' <=> \A r \in DOMAIN view' : view'[r].n >= past.mine[r]
    BY <1>3 DEF Recent
  <2> SUFFICES ASSUME ~Broken', NEW a \in PG!P.controls,
                      NEW p \in PG!ReadAgain(a) \ (past'.crossed \cup {"client"})
               PROVE  Arrives(p)'
    BY <1>4, WritesArriveNext
  <2>3. Arrives(p)  BY <1>1, <1>3, <1>4, WritesArriveIs DEF Broken
  <2>4. \A d \in PG!AtWork : HasRead(d, p) /\ Recent(calls[d].got[p]) =>
          HasRead(d, p)' /\ Recent(calls[d].got[p])'
    BY <1>3, <2>1 DEF Recent
  <2>5. Recent(shown[p]) => Recent(shown[p])'  BY <1>1, <1>3 DEF Recent
  <2> QED  BY <1>1, <2>1, <2>3, <2>4, <2>5 DEF Arrives
<1>12. FormsAreCurrent'  BY FormsOfRows
<1>13. PG!SavesAreChosen' /\ StrandedAreKnown'  BY <1>1, <1>2, <1>3, SavesStay, StrandedStay
<1> QED  BY <1>5, <1>6, <1>7, <1>8, <1>9, <1>10, <1>11, <1>12, <1>13

\* A card starts anew; what is left of its handlers are changes.
LEMMA CardStep ==
  ASSUME PagesFit, ScreensTyped, PageOK, NEW c \in Pair, PG!RemountCard(c)
  PROVE  /\ UNCHANGED <<page, server, choice, drafts>> /\ page \in PG!Cards
         /\ shown' = [p \in PG!Parts |-> PG!Nothing] /\ busy' = {} /\ loading' = TRUE
            /\ error' = FALSE
         /\ calls' \in [Pair -> Handlers] /\ c \notin PG!AtWork
         /\ PG!AtWork' = {c} \cup {d \in Pair : PG!Changes(d)}
         /\ calls'[c].pc = "sent" /\ calls'[c].name = "open" /\ calls'[c].flag = None
         /\ calls'[c].todo = PG!P.opens
         /\ \A d \in PG!AtWork' : d # c =>
              /\ d \in PG!AtWork /\ PG!Changes(d) /\ calls'[d].pc = calls[d].pc
                 /\ calls'[d].row = calls[d].row
              /\ calls'[d].name = "left" /\ calls'[d].flag = None
                 /\ calls'[d].todo = <<{"act"}>>
         /\ \A d \in PG!AtWork' : HandlerOK(d)'
<1> DEFINE f == PG!Handler("open", FirstRow, None, PG!P.opens, 0)
           new(d) == IF d = c THEN f ELSE PG!Stranded(d)
<1>1. /\ UNCHANGED <<page, server, choice, drafts>> /\ page \in PG!Cards /\ calls[c].pc = "idle"
      /\ shown' = [p \in PG!Parts |-> PG!Nothing] /\ busy' = {} /\ loading' = TRUE
         /\ error' = FALSE
      /\ calls' = [d \in Pair |-> new(d)]
  BY DEF PG!RemountCard, PG!Free
<1>2. Script(PG!P.opens) /\ PG!P.opens[1] # {"act"}  BY DEF PageOK
<1>3. PG!P.opens \in Seq(Requests) /\ Head(PG!P.opens) # {"act"}  BY <1>2, ScriptIs, TailOf
<1>4. /\ f \in Handlers /\ f.pc = "sent" /\ f.name = "open" /\ f.row = FirstRow /\ f.flag = None
      /\ f.todo = PG!P.opens
  BY <1>3 DEF PG!Handler, Handlers, PagesFit
<1>5. <<{"act"}>> \in Seq(Requests) /\ Script(<<{"act"}>>) /\ Head(<<{"act"}>>) = {"act"}
  BY <1>1, ScriptOfAct, PlainRequests DEF PG!Cards
<1>6. ASSUME NEW d \in Pair, PG!Changes(d)
      PROVE  LET g == PG!Stranded(d) IN
             /\ g \in Handlers /\ g.pc = calls[d].pc /\ g.row = calls[d].row /\ g.name = "left"
             /\ g.flag = None /\ g.todo = <<{"act"}>>
  <2>1. calls[d] \in Handlers  BY DEF ScreensTyped
  <2>2. PG!Stranded(d) = [calls[d] EXCEPT !.name = "left", !.flag = None, !.todo = <<{"act"}>>,
          !.tail = 0]
    BY <1>6 DEF PG!Stranded
  <2>3. 0 \in Nat  OBVIOUS
  <2>4. PG!Stranded(d) \in Handlers  BY <1>5, <2>1, <2>2, <2>3 DEF Handlers
  <2>5. LET g == PG!Stranded(d) IN
          /\ g.pc = calls[d].pc /\ g.row = calls[d].row /\ g.name = "left"
          /\ g.flag = None /\ g.todo = <<{"act"}>>
    BY <2>1, <2>2 DEF Handlers
  <2> QED  BY <2>4, <2>5
<1>7. \A d \in Pair : ~PG!Changes(d) => PG!Stranded(d) = PG!Idle /\ PG!Idle.pc = "idle"
  BY DEF PG!Stranded, PG!Idle
<1> HIDE DEF f
<1>8. \A d \in Pair : calls'[d] = new(d)  BY <1>1
<1>9. \A d \in Pair : new(d) \in Handlers  BY <1>4, <1>6, <1>7, IdleIsTyped
<1>10. calls' \in [Pair -> Handlers]  BY <1>1, <1>9
<1>11. c \notin PG!AtWork  BY <1>1 DEF PG!AtWork
<1>12. \A d \in Pair : PG!Changes(d) => d \in PG!AtWork /\ d # c /\ calls[d].pc # "idle"
  BY <1>11 DEF PG!Changes, PG!AtWork
<1>13. \A d \in Pair : calls'[d].pc # "idle" <=> d = c \/ PG!Changes(d)
  BY <1>4, <1>6, <1>7, <1>8, <1>12
<1>14. PG!AtWork' = {c} \cup {d \in Pair : PG!Changes(d)}  BY <1>13 DEF PG!AtWork
<1>15. \A d \in PG!AtWork' : d # c =>
         /\ d \in PG!AtWork /\ PG!Changes(d) /\ calls'[d].pc = calls[d].pc
            /\ calls'[d].row = calls[d].row
         /\ calls'[d].name = "left" /\ calls'[d].flag = None /\ calls'[d].todo = <<{"act"}>>
  BY <1>6, <1>8, <1>12, <1>14
<1>16. ASSUME NEW d \in PG!AtWork' PROVE HandlerOK(d)'
  <2>1. CASE d = c
    <3>1. calls'[d] = f  BY <1>8, <2>1
    <3> QED  BY <1>1, <1>2, <1>3, <1>4, <3>1, PageStays DEF HandlerOK, Acts, PagesFit
  <2>2. CASE d # c
    <3>1. /\ d \in PG!AtWork /\ calls'[d].row = calls[d].row
          /\ calls'[d].name = "left" /\ calls'[d].flag = None /\ calls'[d].todo = <<{"act"}>>
      BY <1>15, <1>16, <2>2
    <3>2. calls[d].row \in Rows  BY <3>1, HandlerTypes
    <3>3. Left(d)' /\ Acts(d)'  BY <1>1, <1>5, <3>1 DEF Left, Acts
    <3>4. Script(<<{"act"}>>)'  BY <1>1, <1>5, PageStays
    <3>5. Script(calls[d].todo)'  BY <3>1, <3>4
    <3> QED  BY <3>1, <3>2, <3>3, <3>5 DEF HandlerOK
  <2> QED  BY <2>1, <2>2
<1> QED  BY <1>1, <1>4, <1>8, <1>10, <1>11, <1>14, <1>15, <1>16

LEMMA CardHistory ==
  ASSUME ScreensTyped, NEW c \in Pair, PG!RemountCard(c)
  PROVE  /\ past' \in Histories /\ past'.mine = past.mine /\ past'.others = past.others
         /\ past'.gone = past.gone /\ past'.reverted = past.reverted
         /\ past'.crossed = past.crossed \cup PG!Upset
         /\ past'.left = (past.left \/ \E d \in Pair : PG!Changes(d) /\ calls[d].pc = "sent")
<1> DEFINE x == past.crossed \cup PG!Upset
           l == past.left \/ \E d \in Pair : PG!Changes(d) /\ calls[d].pc = "sent"
           m == past.moves + 1
<1>1. past' = [past EXCEPT !.moves = m, !.told = FALSE, !.left = l, !.crossed = x]
        /\ past \in Histories
  BY DEF PG!RemountCard, ScreensTyped
<1>2. x \in SUBSET (PG!Parts \cup {"pick"}) /\ l \in BOOLEAN /\ m \in Nat
  BY <1>1, PlacesAre DEF Histories
<1> HIDE DEF x, l, m
<1>3. past' \in Histories  BY <1>1, <1>2 DEF Histories
<1>4. /\ past'.mine = past.mine /\ past'.others = past.others
      /\ past'.gone = past.gone /\ past'.reverted = past.reverted /\ past'.crossed = x
         /\ past'.left = l
  BY <1>1 DEF Histories
<1> QED  BY <1>3, <1>4 DEF x, l

LEMMA PagesRemountCard ==
  ASSUME PagesFit, PageOK, PagesInvariant, NEW c \in Pair, PG!RemountCard(c)
  PROVE  PagesInvariant'
<1> USE DEF PagesInvariant
<1>1. /\ UNCHANGED <<page, server, choice, drafts>> /\ page \in PG!Cards
      /\ shown' = [p \in PG!Parts |-> PG!Nothing] /\ busy' = {} /\ loading' = TRUE
         /\ error' = FALSE
      /\ calls' \in [Pair -> Handlers] /\ c \notin PG!AtWork
      /\ PG!AtWork' = {c} \cup {d \in Pair : PG!Changes(d)}
      /\ calls'[c].pc = "sent" /\ calls'[c].name = "open" /\ calls'[c].flag = None
      /\ calls'[c].todo = PG!P.opens
      /\ \A d \in PG!AtWork' : HandlerOK(d)'
  BY CardStep
<1>2. \A d \in PG!AtWork' : d # c =>
        /\ d \in PG!AtWork /\ PG!Changes(d) /\ calls'[d].pc = calls[d].pc
        /\ calls'[d].name = "left" /\ calls'[d].flag = None /\ calls'[d].todo = <<{"act"}>>
  BY CardStep
<1>3. /\ past' \in Histories /\ past'.mine = past.mine /\ past'.others = past.others
      /\ past'.gone = past.gone /\ past'.reverted = past.reverted
      /\ past'.crossed = past.crossed \cup PG!Upset
      /\ past'.left = (past.left \/ \E d \in Pair : PG!Changes(d) /\ calls[d].pc = "sent")
  BY CardHistory
<1>4. PG!P' = PG!P  BY <1>1, PageStays
<1>5. /\ Head(<<{"act"}>>) = {"act"}
      /\ \A p \in PG!Parts : p # "act" /\ p \notin {"act"}
  BY PartsAre
<1>6. \A d \in PG!AtWork' : d # c => Acts(d)' /\ \A p \in PG!Parts : ~Reads(d, p)'
  BY <1>2, <1>5 DEF Acts, Reads
<1>7. \A p \in PG!Parts : DOMAIN shown'[p] = {}  BY <1>1, ViewsAre
<1>8. ScreensTyped'
  <2>1. shown' \in [PG!Parts -> Views]  BY <1>1, ViewsAre
  <2> QED  BY <1>1, <1>3, <2>1 DEF ScreensTyped
<1>9. FlagsAreHeld'  BY <1>1, <1>2 DEF FlagsAreHeld, Holds
<1>10. OneIsAtWork'  BY <1>1, <1>2, <1>3 DEF OneIsAtWork, PG!Upset
<1>11. ChoiceIsShown'  BY <1>1, <1>4 DEF ChoiceIsShown, PageOK
<1>12. PanelBelongs'
  <2>1. page # "contacts"  BY <1>1 DEF PG!Cards
  <2>2. Head(PG!P.opens) # {"client"}  BY <2>1, StartsElsewhere DEF PageOK
  <2>3. \A d \in PG!AtWork' : Head(calls'[d].todo) # {"client"}  BY <1>1, <1>2, <1>5, <2>2
  <2> QED  BY <1>1, <1>7, <2>1, <2>3, PartsAre DEF PanelBelongs
<1>13. NothingIsAhead'
  <2>1. \A d \in PG!AtWork' : calls'[d].pc = "served" => Acts(d)'  BY <1>1, <1>6
  <2> QED  BY <1>1, <1>3, <1>7, <2>1 DEF NothingIsAhead
<1>14. OneReader'  BY <1>6 DEF OneReader
<1>15. WritesArrive'
  <2> SUFFICES ASSUME NEW a \in PG!P.controls, NEW p \in PG!ReadAgain(a) PROVE Arrives(p)'
    BY <1>4, WritesArriveNext
  <2>1. PICK k \in DOMAIN PG!P.opens : p \in PG!P.opens[k]
    BY <1>1 DEF PageOK
  <2>2. WillRead(c, p)'  BY <1>1, <2>1 DEF WillRead
  <2> QED  BY <1>1, <2>2 DEF Arrives
<1>16. FormsAreCurrent'  BY <1>1 DEF FormsAreCurrent, PG!Cards
<1>17. PG!SavesAreChosen'  BY <1>3, SavesStay
<1>18. StrandedAreKnown'
  <2> SUFFICES ASSUME NEW d \in PG!AtWork', calls'[d].name = "left", calls'[d].pc = "sent"
               PROVE  past'.left
    BY DEF StrandedAreKnown
  <2>1. d # c  BY <1>1
  <2>2. d \in Pair /\ PG!Changes(d) /\ calls[d].pc = "sent"  BY <1>2, <2>1, AtWorkIs
  <2> QED  BY <1>3, <2>2
<1> QED  BY <1>8, <1>9, <1>10, <1>11, <1>12, <1>13, <1>14, <1>15, <1>16, <1>17, <1>18

LEMMA PagesStep ==
  ASSUME PagesFit, PagesInvariant, [PG!Next]_(PG!vars)
  PROVE  PagesInvariant'
<1>1. PageOK  BY PagesAreOK DEF PagesInvariant, ScreensTyped
<1>2. CASE UNCHANGED PG!vars  BY <1>2, PagesRest
<1>3. ASSUME NEW c \in Pair, NEW r \in Rows, PG!Pick(c, r) PROVE PagesInvariant'
  BY <1>1, <1>3, PagesStart
<1>4. ASSUME NEW c \in Pair, NEW a \in PG!P.controls, NEW r \in Rows, PG!Submit(c, a, r)
      PROVE  PagesInvariant'
  BY <1>1, <1>4, PagesSubmit
<1>5. ASSUME NEW c \in Pair, PG!Serve(c) PROVE PagesInvariant'
  BY <1>1, <1>5, PagesServe
<1>6. ASSUME NEW c \in Pair, PG!Answer(c) PROVE PagesInvariant'
  BY <1>1, <1>6, PagesAnswer
<1>7. ASSUME NEW c \in Pair, PG!Fail(c) PROVE PagesInvariant'
  BY <1>1, <1>7, PagesFail
<1>8. ASSUME NEW c \in Pair, PG!FailLeniently(c) PROVE PagesInvariant'
  BY <1>1, <1>8, PagesFailLeniently
<1>9. ASSUME NEW r \in Rows, PG!Choose(r) PROVE PagesInvariant'
  BY <1>9, PagesChoose
<1>10. ASSUME NEW r \in Rows, PG!Others(r) PROVE PagesInvariant'
  BY <1>10, PagesOthers
<1>11. ASSUME PG!Dismiss PROVE PagesInvariant'
  BY <1>1, <1>11, PagesDismiss
<1>12. ASSUME PG!RemountRows PROVE PagesInvariant'
  BY <1>1, <1>12, PagesRemountRows
<1>13. ASSUME NEW c \in Pair, PG!RemountCard(c) PROVE PagesInvariant'
  BY <1>1, <1>13, PagesRemountCard
<1>14. ASSUME NEW c \in Pair, PG!TryAgain(c) PROVE PagesInvariant'
  BY <1>1, <1>14, PagesTryAgain
<1> QED
  BY <1>2, <1>3, <1>4, <1>5, <1>6, <1>7, <1>8, <1>9, <1>10, <1>11, <1>12, <1>13, <1>14
     DEF PG!Next
-----------------------------------------------------------------------------
(* The first state, and what the invariant says.                           *)

LEMMA NothingAtFirst ==
  ASSUME PagesFit, PG!Init
  PROVE  PagesInvariant
<1>1. page \in PG!Names /\ PageOK  BY PagesAreOK DEF PG!Init
<1>2. PICK c \in Pair :
        calls = [d \in Pair |-> IF d = c THEN PG!Handler("open", FirstRow, None, PG!P.opens, 0)
          ELSE PG!Idle]
  BY DEF PG!Init
<1>3. FirstRow \in Rows /\ MaxVersion \in Nat /\ 0 \in 0 .. MaxVersion  BY DEF PagesFit
<1>4. Script(PG!P.opens) /\ PG!P.opens[1] # {"act"}  BY <1>1 DEF PageOK
<1>5. PG!AtWork = {c}  BY <1>2 DEF PG!AtWork, PG!Handler, PG!Idle
<1>6. /\ calls[c].pc = "sent" /\ calls[c].name = "open" /\ calls[c].row = FirstRow
      /\ calls[c].flag = None /\ calls[c].todo = PG!P.opens /\ calls[c].tail = 0
  BY <1>2 DEF PG!Handler
<1>7. /\ PG!P.opens \in Seq(Requests) /\ PG!P.opens # << >> /\ Head(PG!P.opens) = PG!P.opens[1]
      /\ 1 \in DOMAIN PG!P.opens
  <2>1. PG!P.opens \in Seq(Requests) /\ PG!P.opens # << >>  BY <1>4 DEF Script
  <2> QED  BY <2>1, TailOf
<1>8. ~Acts(c)  BY <1>4, <1>6, <1>7 DEF Acts
<1>9. /\ past.events = 0 /\ past.mine = [r \in Rows |-> 0] /\ past.others = {}
         /\ past.reverted = {}
      /\ past.gone = {} /\ past.crossed = {} /\ past.muddled = FALSE /\ past.failed = FALSE
      /\ past.told = FALSE /\ past.left = FALSE /\ past \in Histories
  BY <1>3 DEF PG!Init, Histories
<1>10. /\ server \in [Rows -> Version] /\ \A r \in Rows : server[r].n = 0
  BY <1>3 DEF PG!Init, Version
<1>11. /\ shown \in [PG!Parts -> Views] /\ \A p \in PG!Parts : shown[p] = PG!Nothing
          /\ DOMAIN shown[p] = {}
  BY ViewsAre DEF PG!Init
<1>12. ScreensTyped
  <2>1. calls \in [Pair -> Handlers]
    <3>1. PG!Handler("open", FirstRow, None, PG!P.opens, 0) \in Handlers
      BY <1>3, <1>7 DEF PG!Handler, Handlers
    <3> QED  BY <1>2, <3>1, IdleIsTyped
  <2>2. loading \in BOOLEAN /\ error \in BOOLEAN
    <3>1. ("open" \in PG!P.hidden) \in BOOLEAN  OBVIOUS
    <3> QED  BY <3>1 DEF PG!Init
  <2>3. HandlerOK(c)  BY <1>3, <1>4, <1>6, <1>8 DEF HandlerOK
  <2>4. busy \subseteq Flags /\ choice \in Rows  BY <1>3 DEF PG!Init
  <2>5. drafts \in [Rows -> {None, PG!Chosen, PG!Sent} \cup 0 .. MaxVersion]  BY DEF PG!Init
  <2> QED  BY <1>1, <1>5, <1>9, <1>10, <1>11, <2>1, <2>2, <2>3, <2>4, <2>5 DEF ScreensTyped
<1>13. FlagsAreHeld  BY <1>5, <1>6 DEF FlagsAreHeld, Holds
<1>14. OneIsAtWork  BY <1>5 DEF OneIsAtWork
<1>15. ChoiceIsShown
  <2>1. choice = FirstRow  BY DEF PG!Init
  <2>2. PG!P.picks # << >> => \E k \in DOMAIN PG!P.opens : "detail" \in PG!P.opens[k]
    BY <1>1 DEF PageOK
  <2> QED  BY <1>5, <1>6, <2>1, <2>2 DEF ChoiceIsShown
<1>16. PanelBelongs
  <2>1. page = "contacts" => \E k \in DOMAIN PG!P.opens : "detail" \in PG!P.opens[k]
    BY <1>1 DEF PageOK
  <2>2. Head(PG!P.opens) # {"client"}  BY <1>4, <2>1, StartsElsewhere
  <2>3. DOMAIN shown["client"] = {}  BY <1>11, PartsAre
  <2> QED  BY <1>5, <1>6, <2>2, <2>3 DEF PanelBelongs
<1>17. NothingIsAhead
  <2>1. \A r \in Rows : past.mine[r] <= server[r].n  BY <1>9, <1>10
  <2>2. \A d \in PG!AtWork : calls[d].pc # "served"  BY <1>5, <1>6
  <2> QED  BY <1>11, <2>1, <2>2 DEF NothingIsAhead
<1>18. OneReader  BY <1>5 DEF OneReader
<1>19. WritesArrive
  <2>1. \A p \in PG!Parts : Arrives(p)
    <3>1. \A d \in PG!AtWork : \A p : ~HasRead(d, p)  BY <1>5, <1>6 DEF HasRead
    <3> QED  BY <1>11, <3>1 DEF Arrives, Recent
  <2>2. \A a \in PG!P.controls : \A p \in PG!ReadAgain(a) : p \in PG!Parts  BY <1>1, ReadAgainIs
  <2> QED  BY <2>1, <2>2, WritesArriveIs
<1>20. FormsAreCurrent
  <2>1. \A r \in Rows : drafts[r] = None  BY DEF PG!Init
  <2>2. \A p \in {"detail"} \cup PG!Forms : DOMAIN shown[p] = {}
    BY <1>11, PartsAre DEF PG!Parts
  <2>3. \A r \in Rows : FormIsCurrent(r)
    <3>1. None \notin Nat  BY DEF PagesFit
    <3> QED  BY <1>5, <1>8, <1>9, <1>10, <2>1, <3>1 DEF FormIsCurrent
  <2>4. Kept \subseteq Rows  BY DEF Kept
  <2> QED  BY <1>9, <2>1, <2>2, <2>3, <2>4 DEF FormsAreCurrent
<1>21. PG!SavesAreChosen  BY <1>9 DEF PG!SavesAreChosen
<1>22. StrandedAreKnown  BY <1>5, <1>6 DEF StrandedAreKnown
<1> QED
  BY <1>12, <1>13, <1>14, <1>15, <1>16, <1>17, <1>18, <1>19, <1>20, <1>21, <1>22
     DEF PagesInvariant

LEMMA InvariantTells ==
  ASSUME PagesFit, PagesInvariant
  PROVE  PG!TypesHold /\ PG!PagesTellTheTruth /\ PG!SubmissionsAreDeliberate
<1> USE DEF PagesInvariant
<1>1. PageOK  BY PagesAreOK DEF ScreensTyped
<1>2. PG!TypesHold
  <2>1. DOMAIN shown = PG!Parts /\ \A p \in PG!Parts : shown[p] \in Views  BY DEF ScreensTyped
  <2>2. \A p \in PG!Parts : DOMAIN shown[p] \subseteq Rows  BY <2>1, ViewsAre
  <2>3. \A c \in Pair : calls[c].pc \in {"idle", "sent", "served"}
    BY DEF ScreensTyped, Handlers
  <2> QED  BY <2>1, <2>2, <2>3 DEF ScreensTyped, PG!TypesHold, Version
<1>3. PG!ShowsTheChoice  BY DEF PG!ShowsTheChoice, ChoiceIsShown, PanelBelongs
<1>4. PG!OwnWritesShow
  <2> SUFFICES ASSUME PG!AtWork = {}, ~Broken, NEW a \in PG!P.controls,
                      NEW p \in PG!ReadAgain(a) \ (past.crossed \cup {"client"}),
                      NEW r \in DOMAIN shown[p]
               PROVE  shown[p][r].n >= past.mine[r]
    BY DEF PG!OwnWritesShow, Broken, PG!Admits, PG!Visible
  <2>1. Arrives(p)  BY WritesArriveIs
  <2> QED  BY <2>1 DEF Arrives, Recent
<1>5. PG!OneAtATime  BY HandlerTypes DEF PG!OneAtATime, FlagsAreHeld, Holds
<1> QED  BY <1>2, <1>3, <1>4, <1>5 DEF PG!PagesTellTheTruth, PG!SubmissionsAreDeliberate

-----------------------------------------------------------------------------
(* The whole: a behaviour is of one part, which takes the steps of its     *)
(* component.                                                              *)

\* A step of the whole is one of its part, or none.
LEMMA StepsAreOfThePart ==
  ASSUME [Next]_vars
  PROVE  /\ part' = part
         /\ part = "page" => [PG!Next]_(PG!vars)
         /\ part # "page" => [BT!Next]_(BT!vars)
<1>1. CASE Next  BY <1>1 DEF Next
<1>2. CASE UNCHANGED vars
  BY <1>2 DEF vars, tabsOnly, pageOnly, PG!vars, BT!vars
<1> QED  BY <1>1, <1>2

\* The inductive invariant of the whole is that of the part.
BrowserInductive ==
  /\ part = "page" => PagesInvariant
  /\ part # "page" => SessionInvariant

LEMMA BrowserStays == Spec => []BrowserInductive
<1>1. Init => BrowserInductive
  <2>1. Init /\ part = "page" => PagesInvariant
    BY ConstantsAssumption, NothingAtFirst DEF Init
  <2>2. Init /\ part # "page" => SessionInvariant
    BY ConstantsAssumption, InitIsSound DEF Init, Begins
  <2> QED  BY <2>1, <2>2 DEF BrowserInductive
<1>2. BrowserInductive /\ [Next]_vars => BrowserInductive'
  BY StepsAreOfThePart, ConstantsAssumption, PagesStep, SessionStays DEF BrowserInductive
<1> QED  BY <1>1, <1>2, PTL DEF Spec

\* No tab that has heard of a switch shows one workspace and holds the token of another,
\* and no request strays, for any number of tabs, workspaces and tokens, unless a session
\* is upset (switchWorkspace, bootstrapSession, request of api.ts).
THEOREM TabsKeepToOneWorkspace == Spec => []TabsFollowTheSwitch
<1>1. BrowserInductive => TabsFollowTheSwitch
  BY ConstantsAssumption, SessionImplies DEF BrowserInductive, TabsFollowTheSwitch
<1> QED  BY <1>1, BrowserStays, PTL

\* However many tabs refresh, switch and log out, none presents a spent token unless a
\* session is upset, and a cookie at rest is live (refreshSession, withRefreshLock).
THEOREM HonestTabsStayUnsuspected == Spec => []HonestTabsRaiseNoAlarm
<1>1. BrowserInductive => HonestTabsRaiseNoAlarm
  BY ConstantsAssumption, SessionImplies DEF BrowserInductive, HonestTabsRaiseNoAlarm
<1> QED  BY <1>1, BrowserStays, PTL

\* After a logout no cookie is left, and every tab has no token or is yet to be told, for
\* any number of tabs, unless a session is upset (logout).
THEOREM LogoutIsForEveryTab == Spec => []LogoutEndsTheSession
<1>1. BrowserInductive => LogoutEndsTheSession
  BY ConstantsAssumption, SessionImplies DEF BrowserInductive, LogoutEndsTheSession
<1> QED  BY <1>1, BrowserStays, PTL

\* A page at rest shows what its user has picked and changed, or says, or has said since
\* the last submission, that something failed, for any number of handlers and rows; the
\* readings that overlapped, and a change whose tab was left before it was carried out,
\* are excepted (the pages of the application).
THEOREM PagesStayTruthful == Spec => []PagesTellTheTruth
<1>1. BrowserInductive => PagesTellTheTruth
  BY ConstantsAssumption, InvariantTells DEF BrowserInductive, PagesTellTheTruth
<1> QED  BY <1>1, BrowserStays, PTL

\* A control sends one request at a time as long as its tab stays and one row is worked on,
\* and a row's form undoes a change by itself only where another user made it or the form
\* came back with an older status, for any number of handlers, rows and changes of tab
\* (busy flags, ChecklistItemRow, DeliverableRow, setTab).
THEOREM SubmissionsStayDeliberate == Spec => []SubmissionsAreDeliberate
<1>1. BrowserInductive => SubmissionsAreDeliberate
  BY ConstantsAssumption, InvariantTells DEF BrowserInductive, SubmissionsAreDeliberate
<1> QED  BY <1>1, BrowserStays, PTL
=============================================================================
