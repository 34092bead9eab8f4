------------------------------- MODULE Portal -------------------------------
(***************************************************************************)
(* internal/httpapp: the pages about keys, over a keystore.                *)
(*                                                                         *)
(* One browser whose tabs share a session cookie.  A tab has at most one   *)
(* request under way, which carries the session the browser had when it    *)
(* was sent.  A handler checks the session, makes one call to the keystore *)
(* (KeyStore stands for either of them) and answers; a tab shows, or       *)
(* follows, an answer when it arrives.  Several people may use the         *)
(* browser, one after another.  The tabs also share the flash cookie of    *)
(* internal/auth/flash.go: one message, for the next page that is shown.   *)
(***************************************************************************)

CONSTANTS
    Person,     \* who may sign in
    Key,        \* the identifiers of keys
    Tab,        \* the tabs of the browser
    None,       \* no person, no key
    SignedOut   \* the message "You're signed out."

ASSUME NoneAssumption == None \notin Person \cup Key
ASSUME SignedOutAssumption == SignedOut \notin Key \cup {None}

VARIABLES
    live, issued, phase, req, reply, late,      \* the keystore
    session,    \* the session cookie: who is signed in
    flash,      \* the flash cookie: the key it calls revoked, SignedOut, or None
    request,    \* per tab: the request under way
    answer,     \* per tab: the response to it
    created,    \* history: <<p, k>>, p has seen the page that k was created
    asked,      \* history: <<p, k>>, p has asked to revoke k, or it was wiped
    gone,       \* history: the keys that a response said were revoked
    shown       \* history: a page has shown the message the cookie holds

storeVars == <<live, issued, phase, req, reply, late>>
seen == <<created, asked, gone, shown>>
cookies == <<session, flash>>
vars == <<storeVars, cookies, request, answer, seen>>

Store == INSTANCE KeyStore WITH Owner <- Person, KeyID <- Key, Call <- Tab

\* The routes that call the keystore, and what they call.  The others are signing
\* out and the pages that call nobody: landing page, form of a new key, explanations.
Calling == {"account", "confirm", "create", "revoke"}
Route == Calling \cup {"page", "logout"}
Message == Key \cup {SignedOut}
Op == [account |-> "list", confirm |-> "get", create |-> "create", revoke |-> "revoke"]

\* The keys p has seen created and not asked to revoke since.
Owed(p) == {k \in Key : <<p, k>> \in created \ asked}

Idle == [at |-> "none"]
NoAnswer == [shows |-> "none", keys |-> {}, says |-> None]

\* A request as s sends it, with the message m in its cookie: it remembers what
\* has been shown by then.
Request(route, k, s, m, g, again) ==
    [at |-> "sent", route |-> route, key |-> k, as |-> s, flash |-> m,
     owed |-> IF route \in Calling \ {"create"} THEN Owed(s) ELSE {},
     gone |-> IF route \in {"account", "confirm"} THEN g ELSE {}, again |-> again]

Init ==
    /\ Store!Init
    /\ session = None /\ flash = None
    /\ request = [t \in Tab |-> Idle]
    /\ answer = [t \in Tab |-> NoAnswer]
    /\ created = {} /\ asked = {} /\ gone = {} /\ shown = FALSE

-----------------------------------------------------------------------------
\* The tab opens a page or submits a form.  What needs no call ends at once:
\* RequireUser turns away who is not signed in, and a bad name is refused.
Ask(t, route, k) ==
    /\ request[t].at = "none" /\ phase[t] = "idle"
    /\ session # None \/ route = "page"
    /\ (k # None) = (route \in {"confirm", "revoke"})
    /\ request' = [request EXCEPT ![t] = Request(route, k, session, flash, gone, shown)]
    /\ asked' = IF route = "revoke" THEN asked \cup {<<session, k>>} ELSE asked
    /\ UNCHANGED <<storeVars, cookies, answer, created, gone, shown>>

\* The handler calls the keystore, for whoever the session in the request names.
Call(t) ==
    /\ request[t].at = "sent" /\ request[t].route \in Calling
    /\ \E k \in IF request[t].route = "create" THEN Key ELSE {request[t].key} :
         Store!Begin(t, Op[request[t].route], request[t].as, k)
    /\ request' = [request EXCEPT ![t].at = "called"]
    /\ UNCHANGED <<cookies, answer, seen>>

\* A plausible bug: the page after a create is shown whether or not it failed.
ShowsAnyway(t) ==
    IF reply[t].kind = "ok" \/ request[t].route = "create" THEN request[t].route
    ELSE reply[t].kind

\* A plausible bug: a key that is not there counts as revoked.
ShowsRevoked(t) ==
    IF reply[t].kind = "ok" \/ (request[t].route = "revoke" /\ reply[t].kind # "error")
      THEN request[t].route ELSE reply[t].kind

\* What the tab gets: the page of its route (after a revoke, a redirect to the
\* account page); an error page when the call failed or there is no such key.
Shows(t) == IF reply[t].kind = "ok" THEN request[t].route ELSE reply[t].kind

\* Every page takes the message along, a redirect does not.
Page(t) ==
    [shows |-> Shows(t),
     keys |-> IF Shows(t) = "account" THEN reply[t].keys
              ELSE IF Shows(t) = "create" THEN {req[t].key}
              ELSE IF Shows(t) \in {"confirm", "revoke"} THEN {request[t].key} ELSE {},
     says |-> IF Shows(t) = "revoke" THEN None ELSE request[t].flash]

Answer(t) ==
    /\ request[t].at = "called"
    /\ Store!Return(t)
    /\ request' = [request EXCEPT ![t].at = "answered"]
    /\ answer' = [answer EXCEPT ![t] = Page(t)]
    /\ UNCHANGED <<cookies, seen>>

\* A handler that needs no call answers at once.
Serve(t) ==
    /\ request[t].at = "sent" /\ request[t].route \notin Calling
    /\ request' = [request EXCEPT ![t].at = "answered"]
    /\ answer' = [answer EXCEPT ![t] =
           [shows |-> request[t].route, keys |-> {},
            says |-> IF request[t].route = "logout" THEN None ELSE request[t].flash]]
    /\ UNCHANGED <<storeVars, cookies, seen>>

\* A plausible bug: the message is read and left in the browser.
FlashAfterKeeps(t) ==
    IF answer[t].shows = "revoke" THEN request[t].key
    ELSE IF answer[t].shows = "logout" THEN SignedOut ELSE flash

\* A plausible bug: the message is set before the result of the call is known.
FlashAfterEarly(t) ==
    IF request[t].route = "revoke" THEN request[t].key
    ELSE IF answer[t].shows = "logout" THEN SignedOut
    ELSE IF request[t].flash # None THEN None ELSE flash

\* What an answer makes of the flash cookie: a revoke and signing out set it; a page
\* that was sent one removes it, whatever the cookie holds by now.
FlashAfter(t) ==
    IF answer[t].shows = "revoke" THEN request[t].key
    ELSE IF answer[t].shows = "logout" THEN SignedOut
    ELSE IF request[t].flash # None THEN None ELSE flash

\* Where a redirect leads: after a revoke to the account page, which sends whoever is
\* no longer signed in to Entra, and after signing out to the landing page.
Followed(t, s, m, g, again) ==
    CASE answer[t].shows = "revoke" /\ s # None -> Request("account", None, s, m, g, again)
      [] answer[t].shows = "logout" -> Request("page", None, s, m, g, again)
      [] OTHER -> Idle

\* The answer arrives, and a redirect is followed.
Arrive(t) ==
    /\ request[t].at = "answered"
    /\ gone' = IF answer[t].shows = "revoke" THEN gone \cup answer[t].keys ELSE gone
    /\ created' = IF answer[t].shows = "create"
                    THEN created \cup {<<request[t].as, k>> : k \in answer[t].keys}
                    ELSE created
    /\ session' = IF answer[t].shows = "logout" THEN None ELSE session
    /\ flash' = FlashAfter(t)
    /\ shown' = (flash' = flash /\ (shown \/ answer[t].says \in {flash} \ {None}))
    /\ request' = [request EXCEPT ![t] = Followed(t, session', flash', gone', shown')]
    /\ answer' = [answer EXCEPT ![t] = NoAnswer]
    /\ UNCHANGED <<storeVars, asked>>

\* The tab stops waiting: it is closed, the connection breaks, or the pod is
\* killed when shutdownGrace is over.  A call under way goes on,
Abandon(t) ==
    /\ request[t].at # "none"
    /\ request' = [request EXCEPT ![t] = Idle]
    /\ answer' = [answer EXCEPT ![t] = NoAnswer]
    /\ UNCHANGED <<storeVars, cookies, seen>>

\* ... and ends with nobody to answer.
Discard(t) ==
    /\ request[t].at = "none"
    /\ Store!Return(t)
    /\ UNCHANGED <<cookies, request, answer, seen>>

\* Somebody completes a sign-in in the browser (module SignIn), or the session
\* expires.
Session(p) ==
    /\ session # p
    /\ session' = p
    /\ UNCHANGED <<storeVars, flash, request, answer, seen>>

-----------------------------------------------------------------------------
\* The keystore at work.
StoreStep ==
    /\ \/ \E t \in Tab : \/ Store!List(t) \/ Store!Get(t) \/ Store!Missing(t)
                         \/ Store!Create(t) \/ Store!Authorise(t) \/ Store!Revoke(t)
                         \/ Store!RevokeTooLate(t) \/ Store!Fail(t)
       \/ \E e \in late : Store!LateEffect(e) \/ Store!LateNever(e)
    /\ UNCHANGED <<cookies, request, answer, seen>>

\* The Secret is deleted: nobody is owed any of its keys.
Wipe ==
    /\ Store!Wipe
    /\ asked' = asked \cup {<<live[k], k>> : k \in {i \in Key : live[i] # None}}
    /\ UNCHANGED <<cookies, request, answer, created, gone, shown>>

Next ==
    \/ \E t \in Tab : \/ \E route \in Route, k \in Key \cup {None} : Ask(t, route, k)
                      \/ Call(t) \/ Answer(t) \/ Serve(t) \/ Arrive(t) \/ Abandon(t) \/ Discard(t)
    \/ \E p \in Person \cup {None} : Session(p)
    \/ StoreStep \/ Wipe

Spec == Init /\ [][Next]_vars

-----------------------------------------------------------------------------
(* Properties.                                                             *)

\* A key that somebody has been shown stays theirs until they ask to revoke
\* it: the account page lists it and no page calls it missing, whatever other
\* tabs and other people's sessions do meanwhile.
KeyStays ==
    \A t \in Tab : request[t].at = "answered" =>
      LET owed == request[t].owed \cap Owed(request[t].as)
      IN  /\ answer[t].shows = "account" => owed \subseteq answer[t].keys
          /\ answer[t].shows = "notfound" => request[t].key \notin owed

\* "Key revoked": no page asked for afterwards shows the key again.
GoneStays ==
    \A t \in Tab : answer[t].shows \in {"account", "confirm"} =>
      answer[t].keys \cap request[t].gone = {}

\* handlers.go: "Key revoked. Anything using it stops working now.": while a page
\* says so the key it is about is gone from the store, whoever sees the page,
\* and whatever else the browser's tabs and late writes do.
AnnouncedIsGone ==
    \A t \in Tab : answer[t].says \in Key => live[answer[t].says] = None

\* flash.go: "a one-shot message": a page asked for after a message was shown does
\* not show it again, unless it was set again.
OneShot ==
    \A t \in Tab : answer[t].says # None => ~request[t].again
=============================================================================
