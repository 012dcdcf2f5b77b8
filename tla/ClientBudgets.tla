---------------------------- MODULE ClientBudgets ----------------------------
(***************************************************************************)
(* Rate limits per client (proxy-aware-throttler.guard.ts and              *)
(* bff-client-identity.ts of the API, client-identity.ts of the web        *)
(* server).  The web server stands between the browsers and the API; for   *)
(* two paths it says, and signs, which client a request is from.           *)
(*                                                                         *)
(* The limiter itself is a library: it counts the requests of a tracker to *)
(* a path, and refuses what is over the limit until the minute is over.    *)
(* Keys and signatures are taken as the client and the path they are for;  *)
(* nobody signs but the web server.                                        *)
(***************************************************************************)
EXTENDS Integers, FiniteSets

CONSTANTS
  Calls,       \* requests made; each is one process
  Clients,     \* each stands for its own address
  Limits,      \* path -> the requests it takes in a minute
  MaxMinutes,  \* a bound
  None         \* null

VARIABLES
  settings,    \* how the two servers are deployed
  calls,       \* the local state of every request
  budgets,     \* the requests counted in this minute: what they were counted for
  minute

vars == <<settings, calls, budgets, minute>>

Paths == {"register", "registerInvited", "capability"}

\* The calls of callBackendAuth with forwardClientIdentityFrom.
Forwarded == {"register", "registerInvited"}

\* Web and Balancer are the addresses from which the API sees what comes through the
\* web server, or through its own proxies.
Web      == "web"
Balancer == "balancer"

\* BFF_RATE_LIMIT_SIGNING_SECRET at the web server ("missing" in production is an
\* error), at the API, and the hop counts of both.
Settings ==
  [secret : {"set", "none", "missing"}, verifies : BOOLEAN,
   webHops : BOOLEAN, apiHops : BOOLEAN]

Idle == [pc |-> "idle", client |-> None, path |-> None, via |-> None, claim |-> None,
         minute |-> 0, answer |-> None]

Init ==
  /\ settings \in Settings
  /\ calls = [c \in Calls |-> Idle]
  /\ budgets = {}
  /\ minute = 0

-----------------------------------------------------------------------------
(* The web server.                                                         *)

\* buildInternalClientIdentity: a claim is true or is not made.
Identity(client) ==
  IF settings.secret = "set" /\ settings.webHops
  THEN [key |-> client, whole |-> TRUE, fresh |-> TRUE] ELSE None

\* callBackendAuth, or a request past the web server.  Without its secret, in
\* production, it fails before anything is sent.
Request(c, client, path, via) ==
  LET forward == via = "web" /\ path \in Forwarded
      stuck   == forward /\ settings.secret = "missing"
  IN  /\ calls[c].pc = "idle"
      /\ calls' = [calls EXCEPT ![c] =
           [pc |-> IF stuck THEN "done" ELSE "sent", client |-> client, path |-> path,
            via |-> via, claim |-> IF forward THEN Identity(client) ELSE None,
            minute |-> 0, answer |-> IF stuck THEN 502 ELSE None]]
      /\ UNCHANGED <<settings, budgets, minute>>

Spoil(c, flaw) ==
  /\ calls[c].pc = "sent" /\ calls[c].claim # None
  /\ calls[c].claim[flaw]
  /\ calls' = [calls EXCEPT ![c].claim[flaw] = FALSE]
  /\ UNCHANGED <<settings, budgets, minute>>

\* On the way a header of the claim is lost or doubled.
Damage(c) == Spoil(c, "whole")

\* The request takes longer than the signature holds.
Delay(c) == Spoil(c, "fresh")

-----------------------------------------------------------------------------
(* The API.                                                                *)

\* verifyInternalClientIdentity: no claim, a good one, or one that is refused.
Claimed(call)  == call.claim # None
Verified(call) ==
  Claimed(call) /\ settings.verifies /\ call.claim.whole /\ call.claim.fresh

\* mutant of Tracker: the guard of the library
TrackerByPeer(call) ==
  <<"ip", IF ~settings.apiHops THEN Balancer ELSE IF call.via = "web" THEN Web ELSE call.client>>

\* getTracker: whom the request is counted for.
Tracker(call) ==
  IF Verified(call) THEN <<"bff", call.claim.key>>
  ELSE <<"ip", IF ~settings.apiHops THEN Balancer
               ELSE IF call.via = "web" THEN Web ELSE call.client>>

CountedFor(tracker, path) == {b \in budgets : b.tracker = tracker /\ b.path = path}

Counted(c, call) ==
  budgets \cup {[tracker |-> Tracker(call), path |-> call.path, call |-> c]}

\* canActivate: counts first, rejects second; the limiter's answer wins.
CanActivate(c) ==
  LET call == calls[c]
      over == Cardinality(CountedFor(Tracker(call), call.path)) >= Limits[call.path]
  IN  /\ call.pc = "sent"
      /\ budgets' = Counted(c, call)
      /\ calls' = [calls EXCEPT ![c].pc = "done", ![c].minute = minute,
                     ![c].answer = IF over THEN 429
                                   ELSE IF Claimed(call) /\ ~Verified(call) THEN 400
                                   ELSE 200]
      /\ UNCHANGED <<settings, minute>>

\* A minute is over: the counts with it, and what was signed in it.
Minute ==
  /\ minute < MaxMinutes
  /\ minute' = minute + 1
  /\ budgets' = {}
  /\ calls' = [c \in Calls |->
       IF calls[c].pc = "sent" /\ calls[c].claim # None
       THEN [calls[c] EXCEPT !.claim.fresh = FALSE] ELSE calls[c]]
  /\ UNCHANGED settings

Next ==
  \/ \E c \in Calls :
       \/ \E u \in Clients, p \in Paths, v \in {"web", "direct"} : Request(c, u, p, v)
       \/ Damage(c)
       \/ Delay(c)
       \/ CanActivate(c)
  \/ Minute

Spec == Init /\ [][Next]_vars

-----------------------------------------------------------------------------
(* Properties.                                                             *)

\* Types.
TypesHold ==
  /\ settings \in Settings
  /\ \A c \in Calls :
       /\ calls[c].pc \in {"idle", "sent", "done"}
       /\ calls[c].answer \in {None, 200, 400, 429, 502}
  /\ minute \in 0 .. MaxMinutes

\* The others of the same client in the same minute.
Alike(c) ==
  {d \in Calls \ {c} : /\ calls[d].pc = "done" /\ calls[d].answer # 502
                       /\ calls[d].minute = calls[c].minute
                       /\ calls[d].client = calls[c].client
                       /\ calls[d].path = calls[c].path}

\* Where the two servers know their clients, a client whose claim arrives in time and
\* whole is refused only for what it has itself sent in that minute, whatever others
\* send beside it, with good claims, spoilt ones or none.
OwnBudgets ==
  \A c \in Calls :
    /\ calls[c].answer = 429
    /\ Verified(calls[c]) \/ (calls[c].via = "direct" /\ settings.apiHops)
    => Cardinality(Alike(c)) >= Limits[calls[c].path]

\* Nothing that reaches the API goes uncounted, a refused claim as little as any.
NothingUncounted ==
  \A c \in Calls :
    calls[c].answer \in {200, 400, 429} /\ calls[c].minute = minute
    => \E b \in budgets : b.call = c

\* A client is refused for its own requests (the two parts above).
BudgetsAreTheirOwn == OwnBudgets /\ NothingUncounted

-----------------------------------------------------------------------------
(* A statement of a comment in the code.                                   *)

\* backend.ts of the web server: "Login and the invitation hops are not per-client
\* throttled at the backend, so they do not claim an identity."  The first such request
\* of a client in a minute is not refused, where the two servers know their clients.
InvitationHopsAreNotThrottled ==
  \A c \in Calls :
    /\ settings.secret = "set" /\ settings.verifies /\ settings.webHops /\ settings.apiHops
    /\ calls[c].path = "capability" /\ calls[c].via = "web" /\ Alike(c) = {}
    => calls[c].answer # 429
=============================================================================
