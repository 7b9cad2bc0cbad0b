-------------------------------- MODULE Profiles ------------------------------
(***************************************************************************)
(* The record of one merchant: its onboarding (POST /v1/merchants, called  *)
(* by the onboarding page through the server-side proxy of                 *)
(* frontend/src/app/api/admin), the changes of its profile (PATCH /v1/me,  *)
(* and PATCH /v1/merchants/:address for the operator), and the form of the *)
(* settings page.                                                          *)
(*                                                                         *)
(* Every request reads the whole record and later writes the whole record. *)
(* Its fields here are the secret, the URL and whether the merchant is    *)
(* active; the name, the markup and the currencies are handled like the    *)
(* URL.  Requests that fail validation stop before the first step below.   *)
(***************************************************************************)
EXTENDS Naturals, FiniteSets, Functions

CONSTANTS
    Boarders,     \* onboarding pages open for the merchant's wallet
    MaxCalls,     \* bound: how often one page's registration reaches a backend
    Edits,        \* profile requests that run at the same time
    Days,         \* what happens together: how many calls a page makes, and which requests run
    Urls,         \* webhook URLs
    Blank,        \* no URL, no record, no secret
    Asks          \* the bodies of profile requests: the fields, with their new values

Records ==
    [secret : Boarders \X (1..MaxCalls), url : Urls \cup {Blank}, active : BOOLEAN]

\* PatchMerchantSchema takes the fields it knows, each with a value of its type.
ASSUME ProfilesAssumption ==
    /\ IsFiniteSet(Boarders)
    /\ MaxCalls \in Nat \ {0}
    /\ \A day \in Days : day.calls \in 1..MaxCalls /\ day.edits \subseteq Edits
    /\ Blank \notin Urls \cup Records
    /\ \A b \in Boarders, n \in 1..MaxCalls : <<b, n>> # Blank
    /\ \A body \in Asks :
          /\ DOMAIN body \subseteq {"url", "active"}
          /\ "url" \in DOMAIN body => body.url \in Urls \cup {Blank}
          /\ "active" \in DOMAIN body => body.active \in BOOLEAN

VARIABLES
    day,        \* one of Days
    profile,    \* the record in the store
    boarders,   \* the onboarding pages: the call under way, and the secret they show
    calls,      \* the requests of each page that reached a backend
    edits,      \* the profile requests: the record they read, then what they were given
    form        \* the URL field of the settings page

profileVars == <<day, profile, boarders, calls, edits, form>>

Still == [step |-> "rest"]

ProfilesInit(d) ==
    /\ day = d
    /\ profile = Blank
    /\ boarders = [b \in Boarders |-> [step |-> "form", call |-> 0, secret |-> Blank]]
    /\ calls = [b \in Boarders |-> [n \in 1..MaxCalls |-> "none"]]
    /\ edits = [e \in Edits |-> Still]
    /\ form = [polled |-> Blank, draft |-> Blank, dirty |-> FALSE, saving |-> {}]

Exists == profile # Blank

-----------------------------------------------------------------------------
(* The onboarding page.  The proxy passes the request to the backends in   *)
(* turn, when one is not reached or does not answer in time; and the user  *)
(* presses again after an error.                                           *)

Register(b) ==
    LET n == boarders[b].call + 1
    IN  /\ boarders[b].step \in {"form", "sent", "error"}
        /\ n <= day.calls
        /\ boarders' = [boarders EXCEPT ![b].step = "sent", ![b].call = n]
        /\ calls' = [calls EXCEPT ![b][n] = "arrived"]
        /\ UNCHANGED <<day, profile, edits, form>>

\* POST /v1/merchants: a merchant that exists is refused.
LookUp(b, n) ==
    /\ calls[b][n] = "arrived"
    /\ calls' = [calls EXCEPT ![b][n] = IF Exists THEN "taken" ELSE "free"]
    /\ UNCHANGED <<day, profile, boarders, edits, form>>

\* newWebhookSecret is new in every request.
NewProfile(b, n, url) ==
    [secret |-> <<b, n>>, url |-> url, active |-> TRUE]

Create(b, n) ==
    \E url \in Urls \cup {Blank} :
        /\ calls[b][n] = "free"
        /\ calls' = [calls EXCEPT ![b][n] = "made"]
        /\ profile' = NewProfile(b, n, url)
        /\ UNCHANGED <<day, boarders, edits, form>>

\* The answer to the page's latest request.
Registered(b) ==
    LET n == boarders[b].call
    IN  /\ boarders[b].step = "sent"
        /\ \/ /\ calls[b][n] = "made"
              /\ boarders' = [boarders EXCEPT ![b].step = "done", ![b].secret = <<b, n>>]
           \/ /\ calls[b][n] = "taken"
              /\ boarders' = [boarders EXCEPT ![b].step = "error"]
        /\ UNCHANGED <<day, profile, calls, edits, form>>

\* No backend answered, or one failed: before, while, or after it wrote the record.
Unregistered(b) ==
    /\ boarders[b].step = "sent"
    /\ boarders' = [boarders EXCEPT ![b].step = "error"]
    /\ UNCHANGED <<day, profile, calls, edits, form>>

-----------------------------------------------------------------------------
(* Profile requests.                                                       *)

\* draft: the URL of the settings page, or Blank for another client's body.
Starts(e, by, draft) ==
    /\ e \in day.edits
    /\ edits[e] = Still
    /\ Exists
    /\ edits' = [edits EXCEPT ![e] =
                    [step |-> "read", by |-> by, draft |-> draft, copy |-> profile]]
    /\ UNCHANGED <<day, profile, boarders, calls>>

Edit(e, by) == Starts(e, by, Blank) /\ UNCHANGED form

\* Mutant of Patched: a body without a URL clears it.
PatchedOrBlank(copy, given) ==
    [f \in DOMAIN copy |-> IF f \in DOMAIN given THEN given[f]
                           ELSE IF f = "url" THEN Blank ELSE copy[f]]

Patched(copy, given) ==
    [f \in DOMAIN copy |-> IF f \in DOMAIN given THEN given[f] ELSE copy[f]]

\* PATCH /v1/me leaves active to the operator.
Given(by, body) ==
    Restrict(body, DOMAIN body \ (IF by = "me" THEN {"active"} ELSE {}))

Bodies(e) == IF edits[e].draft = Blank THEN Asks ELSE {[url |-> edits[e].draft]}

Save(e) ==
    /\ edits[e].step = "read"
    /\ \E body \in Bodies(e) :
          LET given == Given(edits[e].by, body)
          IN  /\ profile' = Patched(edits[e].copy, given)
              /\ edits' = [edits EXCEPT ![e] =
                              [step |-> "saved", by |-> edits[e].by, given |-> given]]
    /\ UNCHANGED <<day, boarders, calls, form>>

\* The store fails, or the request does not arrive at all.
Unsaved(e) ==
    /\ edits[e].step = "read"
    /\ edits' = [edits EXCEPT ![e] = Still]
    /\ form' = [form EXCEPT !.saving = @ \ {e}]
    /\ UNCHANGED <<day, profile, boarders, calls>>

\* The answer; on the settings page it ends the saving, or is lost on its way.
Saved(e) ==
    /\ edits[e].step = "saved"
    /\ edits' = [edits EXCEPT ![e] = Still]
    /\ IF e \in form.saving
       THEN \/ form' = [form EXCEPT !.draft = edits[e].given.url, !.dirty = FALSE,
                                       !.saving = {}]
            \/ form' = [form EXCEPT !.saving = {}]
       ELSE form' = form
    /\ UNCHANGED <<day, profile, boarders, calls>>

-----------------------------------------------------------------------------
(* The settings page.                                                      *)

\* useRelayerData reads the merchant anew.
PollProfile ==
    /\ Exists
    /\ form' = [form EXCEPT !.polled = profile.url]
    /\ UNCHANGED <<day, profile, boarders, calls, edits>>

\* What was read is shown, unless the field is being edited.
ShowUrl ==
    /\ ~form.dirty
    /\ form' = [form EXCEPT !.draft = form.polled]
    /\ UNCHANGED <<day, profile, boarders, calls, edits>>

TypeUrl ==
    /\ \E url \in Urls \cup {Blank} : form' = [form EXCEPT !.draft = url, !.dirty = TRUE]
    /\ UNCHANGED <<day, profile, boarders, calls, edits>>

\* With a session the merchant's own endpoint, without one the operator's through the proxy.
SaveUrl(e) ==
    /\ form.dirty
    /\ form.draft # Blank
    /\ form.saving = {}
    /\ \E by \in {"me", "admin"} : Starts(e, by, form.draft)
    /\ form' = [form EXCEPT !.saving = {e}]

ProfilesNext ==
    \/ \E b \in Boarders :
          \/ Register(b)
          \/ Registered(b)
          \/ Unregistered(b)
          \/ \E n \in 1..MaxCalls : LookUp(b, n) \/ Create(b, n)
    \/ \E e \in Edits :
          \/ \E by \in {"me", "admin"} : Edit(e, by)
          \/ Save(e)
          \/ Unsaved(e)
          \/ Saved(e)
          \/ SaveUrl(e)
    \/ PollProfile
    \/ ShowUrl
    \/ TypeUrl

-----------------------------------------------------------------------------
(* Properties.                                                             *)

ProfilesTypeOK ==
    /\ day \in Days
    /\ profile \in Records \cup {Blank}
    /\ {form.polled, form.draft} \subseteq Urls \cup {Blank}
    /\ form.saving \subseteq {e \in Edits : edits[e] # Still}
    /\ \A b \in Boarders : boarders[b].step = "done" <=> boarders[b].secret # Blank

\* Creations of the record.
Made == {call \in Boarders \X (1..MaxCalls) : calls[call[1]][call[2]] = "made"}

\* A profile request changes the fields it was given, and only the operator's changes whether
\* the merchant is active; any other field it changes had been changed after it read the record.
\* A secret that was shown stays the merchant's, unless requests that overlapped created the
\* record twice.
ProfileKept ==
    /\ [][\A e \in Edits : edits[e].step = "read" /\ edits'[e].step = "saved" =>
            LET given == edits'[e].given
            IN  \A f \in DOMAIN profile : profile'[f] # profile[f] =>
                   \/ f \in DOMAIN given /\ profile'[f] = given[f]
                      /\ (f = "active" => edits[e].by = "admin")
                   \/ f \notin DOMAIN given /\ edits[e].copy[f] # profile[f]]_profileVars
    /\ [](\A b \in Boarders : boarders[b].step = "done" /\ Cardinality(Made) = 1
                                  => profile.secret = boarders[b].secret)

=============================================================================
