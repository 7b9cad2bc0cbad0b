------------------------------- MODULE Dashboard ------------------------------
(***************************************************************************)
(* The merchant's dashboard, in several tabs of one browser: the session   *)
(* of frontend/src/lib/auth.ts, the polls of lib/relayer.ts, the shell and *)
(* the login page around them, and the session routes of the backend.      *)
(*                                                                         *)
(* The tabs share two cookies, the HttpOnly one with the session's token   *)
(* and the marker.  A tab that signed in also has the token in memory: its *)
(* polls present that one, or else the cookie; its other requests here     *)
(* present the cookie.  A request is served when it is sent and answered   *)
(* any time later.  What is on display is what the polls brought; the name *)
(* in the sidebar, which the check or a login sets, is left out.           *)
(***************************************************************************)
EXTENDS Naturals

CONSTANTS
    Tabs,
    Sessions,     \* the tokens of sessions: random, one for each sign-in
    Holder,       \* the merchant who signs in for each of them
    Nobody,
    MaxUpsets     \* bound: requests that fail, pages loaded, sessions ended by themselves

ASSUME DashboardAssumption ==
    /\ DOMAIN Holder = Sessions
    /\ Nobody \notin Sessions
    /\ MaxUpsets \in Nat

VARIABLES
    jar,        \* qmsession, the HttpOnly cookie
    marker,     \* qm.signedin
    tabs,       \* of each tab the page, the token in memory and the account on display
    entered,    \* the sessions signed in for
    alive,      \* those on file that have not expired
    answers,    \* the answers on their way to the tabs
    upsets      \* how many failures, loads and expiries there were

dashboardVars == <<jar, marker, tabs, entered, alive, answers, upsets>>

DashboardInit ==
    /\ jar = Nobody
    /\ marker = FALSE
    /\ tabs = [t \in Tabs |-> [page |-> "login", memory |-> Nobody, shown |-> "none"]]
    /\ entered = {}
    /\ alive = {}
    /\ answers = {}
    /\ upsets = 0

LoggedIn(t) == tabs[t].memory # Nobody \/ marker

\* The token a poll presents.
Credential(t) == IF tabs[t].memory # Nobody THEN tabs[t].memory ELSE jar

Waits(t, call) == \E a \in answers : a.tab = t /\ a.call = call

Says(t, call, says) == [tab |-> t, call |-> call, says |-> says]

\* requireSession and GET /v1/me: a merchant of its own, or 401.
Me(t, call, token) ==
    Says(t, call, IF token \in alive THEN Holder[token] ELSE "401")

\* checkSession, of the shell when it is mounted where the marker is set.
Check(t, token) == {Me(t, "check", token)}

\* What is left of the answers when the tab leaves its page: what a poll brings is not shown any
\* more, a 401 still counts.
Unmounted(t, as) == {a \in as : a.tab = t /\ a.call = "poll" => a.says = "401"}

Upset ==
    /\ upsets < MaxUpsets
    /\ upsets' = upsets + 1

\* The answer to a logout, when it has an effect.
LogoutSays(t, page, says) ==
    {a \in {Says(t, "logout", says)} : says = "204" \/ page = "leaving"}

\* The tab drops its session and the marker; POST /v1/auth/logout ends that of the cookie, or
\* does not get there: that is swallowed.  rest are the answers still on their way.
Logout(t, page, rest) ==
    /\ tabs' = [tabs EXCEPT ![t] =
           [page |-> page, memory |-> Nobody, shown |-> IF page = "login" THEN "none" ELSE @.shown]]
    /\ marker' = FALSE
    /\ \/ /\ alive' = alive \ {jar}
          /\ answers' = rest \cup LogoutSays(t, page, IF jar \in alive THEN "204" ELSE "401")
          /\ UNCHANGED upsets
       \/ /\ Upset
          /\ answers' = rest \cup LogoutSays(t, page, "error")
          /\ UNCHANGED alive
    /\ UNCHANGED <<jar, entered>>

-----------------------------------------------------------------------------
(* Signing in, from the login page or as another account from the dashboard *)

Entrance(t) == IF tabs[t].page = "login" THEN "login" ELSE "switch"

\* The challenge is signed and the login served.
LoginCall(t, s) ==
    /\ s \notin entered
    /\ tabs[t].page # "leaving"
    /\ ~Waits(t, Entrance(t))
    /\ entered' = entered \cup {s}
    /\ alive' = alive \cup {s}
    /\ answers' = answers \cup {Says(t, Entrance(t), s)}
    /\ UNCHANGED <<jar, marker, tabs, upsets>>

\* The cookie comes with the answer, the token with its body.  The login page goes on to the
\* dashboard, whose shell asks whose session it is; the dialog stays where the tab is by now.
LoginDone(a) ==
    /\ a.call \in {"login", "switch"}
    /\ jar' = a.says
    /\ marker' = TRUE
    /\ IF a.call = "login"
       THEN /\ tabs' = [tabs EXCEPT ![a.tab] =
                   [page |-> "dashboard", memory |-> a.says, shown |-> "none"]]
            /\ answers' = (answers \ {a}) \cup Check(a.tab, a.says)
       ELSE /\ tabs' = [tabs EXCEPT ![a.tab].memory = a.says]
            /\ answers' = answers \ {a}
    /\ UNCHANGED <<entered, alive, upsets>>

-----------------------------------------------------------------------------
(* The dashboard.                                                          *)

\* useRelayerData, every few seconds, whether or not the last answer has come; without a
\* session it shows the demo.
Poll(t) ==
    /\ tabs[t].page = "dashboard"
    /\ IF LoggedIn(t)
       THEN answers' = answers \cup {Me(t, "poll", Credential(t))} /\ UNCHANGED tabs
       ELSE tabs' = [tabs EXCEPT ![t].shown = "demo"] /\ UNCHANGED answers
    /\ UNCHANGED <<jar, marker, entered, alive, upsets>>

\* Mutant of SessionOver: what is refused is taken for an error like others.
SessionStays(a) ==
    /\ answers' = answers \ {a}
    /\ UNCHANGED <<jar, marker, tabs, entered, alive, upsets>>

\* A refusal ends the session of the tab, whichever page it is on by now.
SessionOver(a) == Logout(a.tab, "login", Unmounted(a.tab, answers \ {a}))

\* A 401 is a refusal; to the check, whichever answer that is not in order is one.  A poll puts
\* on display what it brings, a check has no other effect.
MeDone(a) ==
    /\ a.call \in {"poll", "check"}
    /\ IF a.says \in {"401", "error"} THEN SessionOver(a)
       ELSE /\ answers' = answers \ {a}
            /\ tabs' = IF a.call = "check" THEN tabs ELSE [tabs EXCEPT ![a.tab].shown = a.says]
            /\ UNCHANGED <<jar, marker, entered, alive, upsets>>

\* The sign-out button.  The page is left when the call has ended; what it shows meanwhile is
\* left out.
SignOut(t) ==
    /\ tabs[t].page = "dashboard"
    /\ LoggedIn(t)
    /\ Logout(t, "leaving", answers)

\* What answers a logout clears the cookie, whatever it holds by now, if it is the route's 204.
\* The login page sends whoever is signed in back to the dashboard, where the shell is mounted.
LogoutDone(a) ==
    /\ a.call = "logout"
    /\ jar' = IF a.says = "204" THEN Nobody ELSE jar
    /\ LET left == answers \ {a}
       IN  IF tabs[a.tab].page # "leaving" THEN answers' = left /\ UNCHANGED tabs
           ELSE IF marker
           THEN /\ tabs' = [tabs EXCEPT ![a.tab].page = "dashboard", ![a.tab].shown = "none"]
                /\ answers' = Unmounted(a.tab, left) \cup Check(a.tab, jar')
           ELSE /\ tabs' = [tabs EXCEPT ![a.tab].page = "login", ![a.tab].shown = "none"]
                /\ answers' = Unmounted(a.tab, left)
    /\ UNCHANGED <<marker, entered, alive, upsets>>

\* Another page of the dashboard: its shell checks the session anew.  Where another tab has
\* removed the marker, the request for the page is sent to the login page.
Visit(t) ==
    /\ tabs[t].page = "dashboard"
    /\ Upset
    /\ tabs' = [tabs EXCEPT ![t].shown = "none",
                             ![t].page = IF marker THEN "dashboard" ELSE "login"]
    /\ answers' = Unmounted(t, answers) \cup IF marker THEN Check(t, jar) ELSE {}
    /\ UNCHANGED <<jar, marker, entered, alive>>

\* Or the browser has the page already: its shell takes the lack of a marker for a session that
\* is over, without asking.
VisitKept(t) ==
    /\ tabs[t].page = "dashboard"
    /\ tabs[t].memory # Nobody
    /\ ~marker
    /\ Logout(t, "login", Unmounted(t, answers))

-----------------------------------------------------------------------------
(* What happens to them.                                                   *)

\* The session's time is up, or another one of the merchant took its place.
Expire(s) ==
    /\ s \in alive
    /\ Upset
    /\ alive' = alive \ {s}
    /\ UNCHANGED <<jar, marker, tabs, entered, answers>>

\* No answer comes, or none in time: a poll and a check leave the tab as it is; so does a poll's
\* answer that is an error other than 401.  Of a login the cookie may have come without the
\* body: then it fails, with the new cookie in place.
Lose(a) ==
    /\ a.call # "logout"
    /\ Upset
    /\ answers' = answers \ {a}
    /\ jar' \in {jar} \cup IF a.call \in {"login", "switch"} THEN {a.says} ELSE {}
    /\ UNCHANGED <<marker, tabs, entered, alive>>

\* The answer to a check is an error other than 401: the rate limit's 429, a 500, or the 502 by
\* which the proxy says that no backend is reachable.  A logout's is such an error or lost.
Fail(a) ==
    /\ a.call \in {"check", "logout"}
    /\ Upset
    /\ answers' = (answers \ {a}) \cup {Says(a.tab, a.call, "error")}
    /\ UNCHANGED <<jar, marker, tabs, entered, alive>>

\* What was in memory is gone, and so are the answers to what the page had asked: only a cookie
\* still arrives.  The marker decides which page is loaded; the shell checks the session.
Reload(t) ==
    /\ Upset
    /\ tabs' = [tabs EXCEPT ![t] =
           [page |-> IF marker THEN "dashboard" ELSE "login", memory |-> Nobody, shown |-> "none"]]
    /\ answers' = {a \in answers : a.tab # t} \cup
           IF marker THEN Check(t, jar) ELSE {}
    /\ UNCHANGED <<jar, marker, entered, alive>>

PollGoesOn(t) == Poll(t) \/ \E a \in answers : a.tab = t /\ a.call = "poll" /\ MeDone(a)

DashboardNext ==
    \/ \E t \in Tabs :
          \/ Poll(t)
          \/ SignOut(t)
          \/ Visit(t)
          \/ VisitKept(t)
          \/ Reload(t)
          \/ \E s \in Sessions : LoginCall(t, s)
    \/ \E a \in answers : LoginDone(a) \/ MeDone(a) \/ LogoutDone(a) \/ Lose(a) \/ Fail(a)
    \/ \E s \in Sessions : Expire(s)

-----------------------------------------------------------------------------
(* Properties.                                                             *)

\* Only sessions that were entered are anywhere: on file, in the cookie or in a tab's memory.
DashboardTypeOK ==
    /\ alive \subseteq entered
    /\ jar \in entered \cup {Nobody}
    /\ marker \in BOOLEAN
    /\ \A t \in Tabs :
          /\ tabs[t].page \in {"login", "dashboard", "leaving"}
          /\ tabs[t].memory \in entered \cup {Nobody}
          /\ tabs[t].shown \in {Holder[s] : s \in entered} \cup {"none", "demo"}

\* However sign-ins, sign-outs, switches of account and expiries of several tabs overlap with
\* the answers under way, whichever of their requests fail (polls go on), and whatever pages
\* are visited meanwhile, every tab that keeps its dashboard and takes itself for signed in ends
\* up with a session that is alive, showing the account that session belongs to.
EveryTabSettles ==
    <>[] \A t \in Tabs :
        tabs[t].page = "dashboard" /\ LoggedIn(t) =>
            Credential(t) \in alive /\ tabs[t].shown = Holder[Credential(t)]

=============================================================================
