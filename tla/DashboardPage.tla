---------------------------- MODULE DashboardPage ----------------------------
(***************************************************************************)
(* The dashboard in the operator's browser: a refresh every five seconds   *)
(* that fetches every panel and renders when all have come, however many   *)
(* earlier refreshes are still waiting; and the drawer with one whale's    *)
(* detail, fetched when its row is clicked.  Answers come in any order.    *)
(*                                                                         *)
(* What the API would answer now is a version, which grows as the bot      *)
(* trades, and the provider of its feed; the bot may be restarted.         *)
(***************************************************************************)
EXTENDS Naturals, FiniteSets

CONSTANTS
  Panels,      \* the paths a refresh fetches; "overview" is one
  Refreshes,   \* bound: refreshes waiting at a time
  Whales,      \* rows that can be clicked
  MaxVersion,  \* bound: changes of what the API answers
  MaxFailures, \* bound: times the bot goes down, and answers with an error
  None

ASSUME DashboardPageAssumption == "overview" \in Panels

VARIABLES
  up,       \* the API can answer
  version,  \* of the repositories, the counters and the event log
  source,   \* the provider in metrics.feed: None until it has connected
  failures,
  waiting,  \* [Refreshes -> None, or [Panels -> [version, source], or None]]
  shown,    \* [Panels -> [version, source, linked] as rendered, None at first]
  linked,   \* feedIsReal
  pill,     \* "polling" or "disconnected"
  content,  \* of the drawer, closed or not: "", "loading", "failed" or a whale
  asked     \* whales whose detail is on its way

api == <<up, version, source, failures>>
page == <<waiting, shown, linked, pill>>
drawer == <<content, asked>>
vars == <<api, page, drawer>>

\* init() calls refresh before it sets the interval
Init ==
  /\ up = TRUE /\ version = 0 /\ source = None /\ failures = 0
  /\ waiting = [r \in Refreshes |-> None]
  /\ shown = [p \in Panels |-> None] /\ linked = FALSE /\ pill = ""
  /\ content = "" /\ asked = {}
-----------------------------------------------------------------------------
(* The bot, from outside.                                                  *)

Change ==
  /\ up /\ version < MaxVersion /\ version' = version + 1
  /\ UNCHANGED <<up, source, failures, page, drawer>>

\* feed.health; a feed that fails to connect is never in the metrics
FeedConnects ==
  /\ up /\ source = None /\ source' \in {"mock", "helius"}
  /\ UNCHANGED <<up, version, failures, page, drawer>>

GoesDown ==
  /\ up /\ failures < MaxFailures /\ up' = FALSE /\ failures' = failures + 1
  /\ UNCHANGED <<version, source, page, drawer>>

\* a restart resets the metrics
ComesBack ==
  /\ ~up /\ up' = TRUE /\ source' = None
  /\ UNCHANGED <<version, failures, page, drawer>>
-----------------------------------------------------------------------------
(* refresh(), every POLL_MS.                                               *)

\* Mutant: the interval is cleared when a refresh fails.
Refresh_StopsOnFailure(r) ==
  /\ pill # "disconnected" /\ waiting[r] = None
  /\ waiting' = [waiting EXCEPT ![r] = [p \in Panels |-> None]]
  /\ UNCHANGED <<api, shown, linked, pill, drawer>>

Refresh(r) ==
  /\ waiting[r] = None
  /\ waiting' = [waiting EXCEPT ![r] = [p \in Panels |-> None]]
  /\ UNCHANGED <<api, shown, linked, pill, drawer>>

Arrives(r, p) ==
  /\ up /\ waiting[r] # None /\ waiting[r][p] = None
  /\ waiting' = [waiting EXCEPT ![r][p] = [version |-> version, source |-> source]]
  /\ UNCHANGED <<api, shown, linked, pill, drawer>>

Complete(r) == waiting[r] # None /\ \A p \in Panels : waiting[r][p] # None

\* renderSourceBanner: links lead somewhere only when a real feed has connected
FeedIsReal(overview) == overview.source \notin {None, "mock"}

\* the render functions empty their panel and fill it from the answer alone, with
\* addresses as links or as text
Rendered(answer, links) ==
  [version |-> answer.version, source |-> answer.source, linked |-> links]

\* Promise.all has every answer: the banner decides on links, then each panel
\* is replaced, whatever a later refresh has rendered before
Renders(r) ==
  /\ Complete(r)
  /\ linked' = FeedIsReal(waiting[r]["overview"])
  /\ shown' = [p \in Panels |-> Rendered(waiting[r][p], linked')]
  /\ pill' = "polling"
  /\ waiting' = [waiting EXCEPT ![r] = None]
  /\ UNCHANGED <<api, drawer>>

\* getJson throws: the bot is gone, or it answers with an error
Refused == up /\ failures < MaxFailures /\ failures' = failures + 1
Gone == ~up /\ UNCHANGED failures

\* for one panel is enough: the others' answers are dropped with it
Drops(r) ==
  /\ waiting[r] # None /\ ~Complete(r)
  /\ pill' = "disconnected"
  /\ waiting' = [waiting EXCEPT ![r] = None]
  /\ UNCHANGED <<up, version, source, shown, linked, drawer>>

Fails(r) == Gone /\ Drops(r)
Errs(r) == Refused /\ Drops(r)
-----------------------------------------------------------------------------
(* The drawer.                                                             *)

\* bound: one request per whale at a time
Click(w) ==
  /\ w \notin asked /\ asked' = asked \cup {w}
  /\ content' = "loading"
  /\ UNCHANGED <<api, page>>

DetailArrives(w) ==
  /\ up /\ w \in asked /\ asked' = asked \ {w}
  /\ content' = w
  /\ UNCHANGED <<api, page>>

\* Mutant: nobody catches the failure.
DetailDrops_Uncaught(w) ==
  /\ w \in asked /\ asked' = asked \ {w}
  /\ UNCHANGED <<up, version, source, page, content>>

DetailDrops(w) ==
  /\ w \in asked /\ asked' = asked \ {w}
  /\ content' = "failed"
  /\ UNCHANGED <<up, version, source, page>>

DetailFails(w) == Gone /\ DetailDrops(w)
DetailErrs(w) == Refused /\ DetailDrops(w)
-----------------------------------------------------------------------------
Polls(r) == Refresh(r) \/ Renders(r) \/ Fails(r) \/ Errs(r)

Next ==
  \/ Change \/ FeedConnects \/ GoesDown \/ ComesBack
  \/ \E r \in Refreshes : Polls(r) \/ \E p \in Panels : Arrives(r, p)
  \/ \E w \in Whales : Click(w) \/ DetailArrives(w) \/ DetailFails(w) \/ DetailErrs(w)

\* The interval keeps firing, and every fetch is answered, or refused by a bot
\* that is gone.
FairSpec ==
  /\ Init /\ [][Next]_vars
  /\ \A r \in Refreshes : /\ WF_vars(Refresh(r)) /\ WF_vars(Renders(r)) /\ WF_vars(Fails(r))
                          /\ \A p \in Panels : WF_vars(Arrives(r, p))
  /\ \A w \in Whales : WF_vars(DetailArrives(w)) /\ WF_vars(DetailFails(w))
-----------------------------------------------------------------------------
Current ==
  /\ \A p \in Panels : shown[p] = [version |-> version, source |-> source,
                                   linked |-> source = "helius"]
  /\ pill = "polling"

(* However late and however disordered the answers are, and though an      *)
(* older refresh may overwrite a newer one, the page settles: when the bot *)
(* stays up and quiet, every panel, the links and the pill come to show    *)
(* what the API says and stay so; when it stays down, the pill says that.  *)
PageSettles ==
  /\ <>[]up => <>[]Current
  /\ <>[]~up => <>[](pill = "disconnected")

(* A drawer does not stay at "Loading": the answer for a whale that was    *)
(* clicked, or the failure, replaces it.                                   *)
DrawerSettles == (content = "loading") ~> (content # "loading")
=============================================================================
