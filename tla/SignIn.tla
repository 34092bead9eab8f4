------------------------------- MODULE SignIn -------------------------------
(***************************************************************************)
(* internal/auth: the sign-in flow and the sealed cookies it lives in.     *)
(*                                                                         *)
(* The portal keeps nothing between two requests.  A sign-in in progress   *)
(* and a session are each a cookie, sealed with a session key; one browser *)
(* holds ONE cookie of each kind for all its tabs.  A request may be       *)
(* served by any portal pod, and during a deployment the pods differ in    *)
(* their list of session keys.  A request is served with the cookies the   *)
(* browser has when it is sent; the cookies of the response replace them   *)
(* when it arrives, if it arrives, in whatever order responses do.         *)
(*                                                                         *)
(* Microsoft Entra (external) authenticates somebody in the tab and sends  *)
(* it back with a code, which can be redeemed once.                        *)
(***************************************************************************)
EXTENDS Naturals, Sequences

CONSTANTS
    Tab,        \* tabs of the browser
    Pod,        \* portal processes
    Person,     \* accounts Entra may authenticate
    Accepted,   \* those with a tid and oid, in an accepted tenant
    Flow,       \* random tokens (state and nonce of one sign-in) in use at a time
    Path,       \* return addresses, "" (the account page) included
    KeyLists,   \* the SESSION_KEY lists, in the order they are deployed
    None        \* no cookie, no code, no person

ASSUME KeyListsAssumption ==
    /\ KeyLists \in Seq(Seq(STRING)) /\ KeyLists # <<>>
    /\ \A n \in 1..Len(KeyLists) : KeyLists[n] # <<>>
ASSUME AcceptedAssumption == Accepted \subseteq Person

\* What is sealed in a cookie, and the key it is sealed with.
FlowCookies == [key: STRING, flow: Flow, path: Path]
SessionCookies == [key: STRING, flow: Flow, person: Person]
ASSUME NoneAssumption == None \notin Person \cup FlowCookies \cup SessionCookies

VARIABLES
    version,        \* per pod: which list of KeyLists it runs with
    sessionCookie,  \* the browser's session cookie
    flowCookie,     \* the browser's sign-in cookie
    tab,            \* per tab: where it is in a sign-in
    reply,          \* per tab: the response under way to it
    drawn,          \* tokens drawn
    used,           \* codes redeemed
    old,            \* sign-ins begun more than authFlowTTL ago
    expired,        \* sessions (by their sign-in) older than SessionTTL
    disturbed       \* history, per tab: another response replaced the sign-in
                    \* cookie since the tab was sent to Entra

cookieVars == <<sessionCookie, flowCookie>>
clockVars == <<old, expired>>
vars == <<version, cookieVars, tab, reply, drawn, used, clockVars, disturbed>>

\* A tab that is not signing in.
Page == [at |-> "page", flow |-> None, path |-> None, code |-> None]
NoReply == [kind |-> "none"]
\* One that is, on its way to Entra, there, on its way back, or being answered.
Signing == [at: {"sent", "entra", "back", "answered"}, flow: Flow, path: Path,
            code: Person \cup {None}]

Keys(s) == {s[n] : n \in 1..Len(s)}

-----------------------------------------------------------------------------
\* The sealer: a pod seals with its first key and opens with any of them.

\* A plausible bug: the last key of the list seals.
PrimaryLast(p) == KeyLists[version[p]][Len(KeyLists[version[p]])]

Primary(p) == Head(KeyLists[version[p]])

\* A plausible bug: only the first key opens.
OpensWithFirst(p, cookie) == cookie # None /\ cookie.key = Primary(p)

Opens(p, cookie) == cookie # None /\ cookie.key \in Keys(KeyLists[version[p]])

\* Read: a session that can be opened and has not expired.
SignedIn(p) == Opens(p, sessionCookie) /\ sessionCookie.flow \notin expired

-----------------------------------------------------------------------------
Init ==
    /\ version = [p \in Pod |-> 1]
    /\ sessionCookie = None /\ flowCookie = None
    /\ tab = [t \in Tab |-> Page]
    /\ reply = [t \in Tab |-> NoReply]
    /\ drawn = {} /\ used = {} /\ old = {} /\ expired = {}
    /\ disturbed = [t \in Tab |-> FALSE]

\* A plausible bug: a sign-in in progress is continued, with the new address.
LoginShares(t, p, f, r) ==
    LET g == IF Opens(p, flowCookie) THEN flowCookie.flow ELSE f
    IN  /\ tab[t].at = "page" /\ ~SignedIn(p)
        /\ f \notin drawn
        /\ drawn' = drawn \cup {f}
        /\ tab' = [tab EXCEPT ![t] =
               [at |-> "sent", flow |-> g, path |-> r, code |-> None]]
        /\ reply' = [reply EXCEPT ![t] =
               [kind |-> "flow", cookie |-> [key |-> Primary(p), flow |-> g, path |-> r]]]
        /\ UNCHANGED <<version, cookieVars, used, clockVars, disturbed>>

\* handleLogin, Start: a fresh state and nonce, sealed with the return address.
\* Somebody already signed in is sent to the account page instead.
Login(t, p, f, r) ==
    /\ tab[t].at = "page" /\ ~SignedIn(p)
    /\ f \notin drawn
    /\ drawn' = drawn \cup {f}
    /\ tab' = [tab EXCEPT ![t] =
           [at |-> "sent", flow |-> f, path |-> r, code |-> None]]
    /\ reply' = [reply EXCEPT ![t] =
           [kind |-> "flow", cookie |-> [key |-> Primary(p), flow |-> f, path |-> r]]]
    /\ UNCHANGED <<version, cookieVars, used, clockVars, disturbed>>

\* The redirect arrives: the cookie is stored and the tab goes to Entra.
LoginArrives(t) ==
    /\ tab[t].at = "sent"
    /\ flowCookie' = reply[t].cookie
    /\ tab' = [tab EXCEPT ![t].at = "entra"]
    /\ reply' = [reply EXCEPT ![t] = NoReply]
    /\ disturbed' = [u \in Tab |-> u # t]
    /\ UNCHANGED <<version, sessionCookie, drawn, used, clockVars>>

\* Entra authenticates u, or sends the tab back with an error (external).
Authenticate(t, u) ==
    /\ tab[t].at = "entra"
    /\ tab' = [tab EXCEPT ![t].at = "back", ![t].code = u]
    /\ UNCHANGED <<version, cookieVars, reply, drawn, used, clockVars, disturbed>>

\* Complete, up to the exchange: the cookie opens, is young enough, and names
\* the state in the URL; there is a code and no error.
Recognised(t, p) ==
    /\ Opens(p, flowCookie)
    /\ flowCookie.flow \notin old
    /\ tab[t].code # None
    /\ flowCookie.flow = tab[t].flow

\* ... and from the exchange on: Entra redeems the code and the token is for
\* the nonce of the cookie and for somebody accepted.
Completes(t, p) ==
    /\ Recognised(t, p)
    /\ <<tab[t].flow, tab[t].code>> \notin used
    /\ tab[t].code \in Accepted

\* handleCallback, Complete.
Callback(t, p) ==
    /\ tab[t].at = "back"
    /\ tab' = [tab EXCEPT ![t].at = "answered"]
    /\ used' = IF Recognised(t, p) THEN used \cup {<<tab[t].flow, tab[t].code>>} ELSE used
    /\ reply' = [reply EXCEPT ![t] =
           IF Completes(t, p)
             THEN [kind |-> "in", to |-> flowCookie.path,
                   cookie |-> [key |-> Primary(p), flow |-> flowCookie.flow,
                               person |-> tab[t].code]]
             ELSE [kind |-> "failed"]]
    /\ UNCHANGED <<version, cookieVars, drawn, clockVars, disturbed>>

\* The exchange fails all the same, before or after Entra has redeemed the code, or
\* the session cannot be sealed: Entra or its keys cannot be reached, no random bytes.
ExchangeFails(t, p) ==
    /\ tab[t].at = "back" /\ Recognised(t, p)
    /\ tab' = [tab EXCEPT ![t].at = "answered"]
    /\ used' \in {used, used \cup {<<tab[t].flow, tab[t].code>>}}
    /\ reply' = [reply EXCEPT ![t] = [kind |-> "failed"]]
    /\ UNCHANGED <<version, cookieVars, drawn, clockVars, disturbed>>

\* The answer arrives.  It always removes the sign-in cookie, by its name: the
\* one of this sign-in, or the one another tab has put there since.
CallbackArrives(t) ==
    /\ tab[t].at = "answered"
    /\ flowCookie' = None
    /\ sessionCookie' = IF reply[t].kind = "in" THEN reply[t].cookie ELSE sessionCookie
    /\ tab' = [tab EXCEPT ![t] = Page]
    /\ reply' = [reply EXCEPT ![t] = NoReply]
    /\ disturbed' = [u \in Tab |-> TRUE]
    /\ UNCHANGED <<version, drawn, used, clockVars>>

\* The response is lost and the browser sends the callback again.
CallbackLost(t) ==
    /\ tab[t].at = "answered"
    /\ tab' = [tab EXCEPT ![t].at = "back"]
    /\ reply' = [reply EXCEPT ![t] = NoReply]
    /\ UNCHANGED <<version, cookieVars, drawn, used, clockVars, disturbed>>

\* The sign-in is abandoned: the tab is closed, or the response never comes.
Leave(t) ==
    /\ tab[t].at # "page"
    /\ tab' = [tab EXCEPT ![t] = Page]
    /\ reply' = [reply EXCEPT ![t] = NoReply]
    /\ UNCHANGED <<version, cookieVars, drawn, used, clockVars, disturbed>>

\* handleLogout, behind RequireUser.
Logout(p) ==
    /\ SignedIn(p)
    /\ sessionCookie' = None
    /\ UNCHANGED <<version, flowCookie, tab, reply, drawn, used, clockVars, disturbed>>

\* Time passes.
FlowAges(f) ==
    /\ f \in drawn \ old
    /\ old' = old \cup {f}
    /\ UNCHANGED <<version, cookieVars, tab, reply, drawn, used, expired, disturbed>>

SessionExpires(f) ==
    /\ f \in old \ expired
    /\ expired' = expired \cup {f}
    /\ UNCHANGED <<version, cookieVars, tab, reply, drawn, used, old, disturbed>>

\* The browser honours Max-Age, sooner or later (external).
CookieDropped ==
    /\ \/ /\ flowCookie # None /\ flowCookie.flow \in old
          /\ flowCookie' = None /\ UNCHANGED sessionCookie
       \/ /\ sessionCookie # None /\ sessionCookie.flow \in expired
          /\ sessionCookie' = None /\ UNCHANGED flowCookie
    /\ UNCHANGED <<version, tab, reply, drawn, used, clockVars, disturbed>>

\* A token that nothing holds any more stands for one not drawn yet: tokens do
\* not run out, and only so many are in use at a time.
Recycle(f) ==
    /\ f \in expired
    /\ \A c \in {flowCookie, sessionCookie} : c # None => c.flow # f
    /\ \A t \in Tab : tab[t].flow # f
    /\ drawn' = drawn \ {f} /\ old' = old \ {f} /\ expired' = expired \ {f}
    /\ used' = {code \in used : code[1] # f}
    /\ UNCHANGED <<version, cookieVars, tab, reply, disturbed>>

-----------------------------------------------------------------------------
\* Deployments (external).  The cookies that still count:
Living ==
    {c \in {flowCookie} \cup {reply[t].cookie : t \in {u \in Tab : reply[u].kind = "flow"}} :
        c # None /\ c.flow \notin old}
    \cup
    {c \in {sessionCookie} \cup {reply[t].cookie : t \in {u \in Tab : reply[u].kind = "in"}} :
        c # None /\ c.flow \notin expired}

\* A pod is replaced by one with the next list, when the last deployment is
\* complete and what was sealed with a dropped key has expired.
Deploy(p) ==
    /\ version[p] < Len(KeyLists)
    /\ \A q \in Pod : version[q] >= version[p]
    /\ \A c \in Living : c.key \in Keys(KeyLists[version[p] + 1])
    /\ version' = [version EXCEPT ![p] = @ + 1]
    /\ UNCHANGED <<cookieVars, tab, reply, drawn, used, clockVars, disturbed>>

Next ==
    \/ \E t \in Tab :
         \/ \E p \in Pod : \/ \E f \in Flow, r \in Path : Login(t, p, f, r)
                           \/ Callback(t, p) \/ ExchangeFails(t, p)
         \/ \E u \in Person \cup {None} : Authenticate(t, u)
         \/ LoginArrives(t) \/ CallbackArrives(t) \/ CallbackLost(t) \/ Leave(t)
    \/ \E p \in Pod : Logout(p) \/ Deploy(p)
    \/ \E f \in Flow : FlowAges(f) \/ SessionExpires(f) \/ Recycle(f)
    \/ CookieDropped

Spec == Init /\ [][Next]_vars

-----------------------------------------------------------------------------
(* Properties.                                                             *)

\* A person lands where the tab asked to go and as who signed in there, however
\* many tabs sign in at once: no tab completes with another tab's sign-in.
ReturnsWhereAsked ==
    \A t \in Tab : reply[t].kind = "in" =>
        /\ reply[t].to = tab[t].path
        /\ reply[t].cookie.person = tab[t].code
        /\ reply[t].cookie.flow = tab[t].flow

\* oidc.go: the portal is stateless, and a sign-in survives a restart half-way.
\* Whichever pod gets the callback has all it takes to complete it, once Entra is
\* reached: unless it was overtaken by another tab, took too long, was sent twice, or
\* Entra did not vouch for somebody accepted.
Undisturbed(t) ==
    /\ tab[t].at = "back" /\ ~disturbed[t]
    /\ tab[t].flow \notin old
    /\ tab[t].code \in Accepted /\ <<tab[t].flow, tab[t].code>> \notin used
SignInSurvives == \A t \in Tab : Undisturbed(t) => \A p \in Pod : Completes(t, p)

\* session.go: nobody is signed out by a rotation.  A session that has not
\* expired is accepted by every pod.
SessionSurvives ==
    sessionCookie # None /\ sessionCookie.flow \notin expired => \A p \in Pod : SignedIn(p)

-----------------------------------------------------------------------------
(* The inductive invariants behind those properties.                       *)

Replies ==
    {NoReply, [kind |-> "failed"]}
        \cup [kind: {"flow"}, cookie: FlowCookies]
        \cup [kind: {"in"}, to: Path, cookie: SessionCookies]

TypeOK ==
    /\ version \in [Pod -> 1..Len(KeyLists)]
    /\ sessionCookie \in SessionCookies \cup {None}
    /\ flowCookie \in FlowCookies \cup {None}
    /\ tab \in [Tab -> {Page} \cup Signing]
    /\ reply \in [Tab -> Replies]
    /\ drawn \in SUBSET Flow /\ used \in SUBSET (Flow \X Person)
    /\ old \in SUBSET drawn /\ expired \in SUBSET old
    /\ disturbed \in [Tab -> BOOLEAN]

\* A response is on its way to the tab that waits for it.
ReplyInv ==
    \A t \in Tab :
      /\ tab[t].at = "sent" => /\ reply[t].kind = "flow"
                               /\ reply[t].cookie.flow = tab[t].flow
                               /\ reply[t].cookie.path = tab[t].path
      /\ reply[t].kind = "flow" => tab[t].at = "sent"
      /\ reply[t].kind = "in" => tab[t].at = "answered"

\* No two tabs are in one sign-in, and its cookie has the address of its tab.
FlowInv ==
    /\ \A t \in Tab : tab[t].at # "page" => tab[t].flow \in drawn
    /\ \A t, u \in Tab :
         t # u /\ tab[t].at # "page" /\ tab[u].at # "page" => tab[t].flow # tab[u].flow
    /\ flowCookie # None =>
         /\ flowCookie.flow \in drawn
         /\ \A t \in Tab : tab[t].at # "page" /\ tab[t].flow = flowCookie.flow =>
              flowCookie.path = tab[t].path
    /\ sessionCookie # None => sessionCookie.flow \in drawn

\* The cookie of a sign-in nobody has disturbed is in the browser.
PlaceInv ==
    \A t \in Tab :
      /\ tab[t].at \in {"entra", "back", "answered"}
      /\ ~disturbed[t] /\ tab[t].flow \notin old
      => flowCookie # None /\ flowCookie.flow = tab[t].flow

IInv == TypeOK /\ ReplyInv /\ FlowInv /\ PlaceInv /\ ReturnsWhereAsked

\* Each list accepts what the pods of the deployments before and after it seal.
SafeRollout ==
    \A n \in 1..(Len(KeyLists) - 1) :
        /\ Head(KeyLists[n]) \in Keys(KeyLists[n + 1])
        /\ Head(KeyLists[n + 1]) \in Keys(KeyLists[n])

\* No two pods are more than one deployment apart, and all of them accept what
\* is still alive.
KeyInv ==
    /\ \A p, q \in Pod : version[p] <= version[q] + 1
    /\ \A c \in Living, p \in Pod : c.key \in Keys(KeyLists[version[p]])
=============================================================================
