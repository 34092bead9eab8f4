------------------------------- MODULE Pages -------------------------------
(***************************************************************************)
(* What a person sees: the account page (internal/httpapp, app.js) with    *)
(* their keys in order, one of them open, and the picker of setup guides;  *)
(* the page of a new key; and the public page of models.                   *)
(*                                                                         *)
(* The portal renders a page from a list as it was read, put in order by   *)
(* ListOrder, and from the models the deployment offers.  The browser      *)
(* remembers what was picked (localStorage); a page stays as it is while   *)
(* the portal is deployed again with other models.                         *)
(***************************************************************************)
EXTENDS ListOrder, Onboarding, FiniteSets

CONSTANTS
    Offers,     \* what a deployment may offer: Params without a credential
    Picks,      \* the models, clients and shells a person picks
    Secret      \* the credential of a key that is created

Kinds == {"", "coding", "reasoning"}
Paths == {""} \cup UNION {{p.models[n].path : n \in DOMAIN p.models} : p \in Offers}

\* A model as parseOnboardingModels lets it pass, or the default one, which may have
\* no id; and the parameters that hold such models and a credential.
ConfiguredModel == [id : Nat, label : Nat, kind : Kinds, path : Paths]
Parameters(key) == [model : Nat, models : Seq(ConfiguredModel), key : {key}]

\* What a deployment offers has no credential (main.go).
ASSUME OffersAssumption == Offers \subseteq Parameters(None)

\* None is neither a credential nor an address.
ASSUME NoneAssumption ==
    None \notin {Secret, PlaceholderKey} \cup Paths \X {"/v1", "/anthropic"}

VARIABLES
    offered,    \* a.onboarding, of the pods that serve
    stored,     \* localStorage: the model, client and shell last picked
    page        \* the page the browser shows

pageVars == <<offered, stored, page>>
pagesVars == <<vars, pageVars>>

Blank == [kind |-> "none"]
Forgotten == [model |-> None, client |-> None, shell |-> None]

PagesInit ==
    /\ Init
    /\ offered \in Offers
    /\ stored = Forgotten
    /\ page = Blank

-----------------------------------------------------------------------------
\* A plausible bug: the first key is the first one that was read.
selectedKeyAsRead(want) ==
    IF \E n \in DOMAIN list : list[n][2] = want THEN want
    ELSE IF given = <<>> THEN 0 ELSE given[1][2]

\* The pane that is open: the key asked for, if it is in the list, or the first.
selectedKey(want) ==
    IF \E n \in DOMAIN list : list[n][2] = want THEN want
    ELSE IF list = <<>> THEN 0 ELSE list[1][2]

\* The friendly label of a routing name, 0 without one; the last model of that
\* name has it.
modelLabels(p) ==
    LET c == Catalog(p)
        Last(id) == CHOOSE n \in DOMAIN c : c[n].ID = id /\ \A m \in DOMAIN c : c[m].ID = id => m <= n
    IN  [id \in {c[n].ID : n \in DOMAIN c} |-> c[Last(id)].Label]

\* A plausible bug: the cluster's display name wins.
displayClusterFirst(m, labels) ==
    IF m[1] # 0 THEN m[1] ELSE IF m[2] \in DOMAIN labels THEN labels[m[2]] ELSE m[2]

display(m, labels) ==
    IF m[2] \in DOMAIN labels /\ labels[m[2]] # 0 THEN labels[m[2]]
    ELSE IF m[1] # 0 THEN m[1] ELSE m[2]

toModelViews(in, labels) ==
    [n \in DOMAIN in |-> [Name |-> in[n][2], DisplayName |-> display(in[n], labels)]]

\* The panels of a page with guides, as indices of its model and of its client.
Panels(setups) == {<<n, c>> : n \in DOMAIN setups, c \in DOMAIN setups[1].Guides}
ModelOf(setups, panel) == setups[panel[1]].ID
GuideOf(setups, panel) == setups[panel[1]].Guides[panel[2]]

\* The values with a panel or a tab: the only ones that may be picked or restored.
Offered(setups, axis) ==
    CASE axis = "model" -> {setups[n].ID : n \in DOMAIN setups}
      [] axis = "client" -> {setups[1].Guides[c].id : c \in DOMAIN setups[1].Guides}
      [] axis = "shell" -> Shells

\* A plausible bug: what is remembered is taken as it is.
RestoredAsIs(setups, axis, default) == IF stored[axis] = None THEN default ELSE stored[axis]

\* A remembered choice, if it is still there, or the default.
Restored(setups, axis, default) ==
    IF stored[axis] \in Offered(setups, axis) THEN stored[axis] ELSE default

\* What the picker starts with; the shell is a guess from the platform.
Current(setups, shell) ==
    [model |-> Restored(setups, "model", setups[1].ID),
     client |-> Restored(setups, "client", "claude-code"),
     shell |-> Restored(setups, "shell", shell)]

WithGuides(kind, params, shell, want, selected) ==
    [kind |-> kind, params |-> params, wanted |-> want, selected |-> selected,
     current |-> Current(Setups(params), shell)]

-----------------------------------------------------------------------------
\* The list is put in order, step by step (ListOrder),
Sort == page = Blank /\ Next /\ UNCHANGED pageVars

\* ... and shown: the account page with ?key=want,
ShowAccount(want, shell) ==
    /\ page = Blank /\ ~Sorting /\ by = "created"
    /\ page' = WithGuides("account", offered, shell, want, selectedKey(want))
    /\ UNCHANGED <<vars, offered, stored>>

\* ... or the page of models.
ShowModels ==
    /\ page = Blank /\ ~Sorting /\ by = "name"
    /\ page' = [kind |-> "models", params |-> offered,
                models |-> toModelViews(list, modelLabels(offered))]
    /\ UNCHANGED <<vars, offered, stored>>

\* A plausible bug: the credential is put into the parameters of the App.
CreateKeyShares(shell) ==
    /\ page.kind = "account"
    /\ offered' = [offered EXCEPT !.key = Secret]
    /\ page' = WithGuides("created", offered', shell, 0, 0)
    /\ UNCHANGED <<vars, stored>>

\* The page of a new key: its guides carry the credential, in a copy of the
\* parameters.
CreateKey(shell) ==
    /\ page.kind = "account"
    /\ page' = WithGuides("created", [offered EXCEPT !.key = Secret], shell, 0, 0)
    /\ UNCHANGED <<vars, offered, stored>>

\* A choice in the picker: a click, or an arrow key.  There are tabs for models
\* only if there are several.
Pick(axis, value) ==
    /\ page.kind \in {"account", "created"}
    /\ value \in Offered(Setups(page.params), axis)
    /\ axis = "model" => Len(models(page.params)) > 1
    /\ page' = [page EXCEPT !.current[axis] = value]
    /\ stored' = [stored EXCEPT ![axis] = value]
    /\ UNCHANGED <<vars, offered>>

\* The person goes back, or reloads: the list is read and put in order anew.
Reload ==
    /\ page # Blank
    /\ page' = Blank
    /\ list' = given /\ i' = 2 /\ j' = 2
    /\ UNCHANGED <<by, given, offered, stored>>

\* The operator deploys other models; the page in the browser stays.
Redeploy ==
    /\ page # Blank
    /\ offered' \in Offers \ {offered}
    /\ UNCHANGED <<vars, stored, page>>

\* ?key= is absent, or names a key that may be the person's, or not.
Wanted == {0, 1}

PagesNext ==
    \/ Sort \/ ShowModels \/ Reload \/ Redeploy
    \/ \E shell \in Shells : \/ \E want \in Wanted : ShowAccount(want, shell)
                             \/ CreateKey(shell)
    \/ \E axis \in {"model", "client", "shell"} : \E value \in Picks : Pick(axis, value)

PagesSpec == PagesInit /\ [][PagesNext]_pagesVars

-----------------------------------------------------------------------------
(* Properties.                                                             *)

HasGuides == page.kind \in {"account", "created"}

\* The panels app.js makes active: all whose model and client are the current ones.
Active ==
    LET setups == Setups(page.params)
    IN  {panel \in Panels(setups) :
           /\ ModelOf(setups, panel) = page.current.model
           /\ GuideOf(setups, panel).id = page.current.client}

\* Two configured models have the same token.
Collision ==
    LET setups == Setups(page.params)
    IN  \E m, n \in DOMAIN setups : m # n /\ setups[m].ID = setups[n].ID

\* guides.html: "shows only the selected panel": one guide, whatever the browser
\* remembers of pages with other models, unless two models have one token.
OneGuideShown == HasGuides /\ ~Collision => Cardinality(Active) = 1

\* The blocks of a guide, and those that the shell toggle leaves visible.
Blocks(guide) ==
    {guide.files[n] : n \in DOMAIN guide.files} \cup
    {guide.commands[n] : n \in DOMAIN guide.commands}
Visible(guide, shell) == {b \in Blocks(guide) : b.shell \in {"", shell}}

\* snippets.go: "the credential lives in exactly one place per client", and every
\* model is reached under its own address but from Claude Code: whichever model,
\* client and shell are picked, what is visible names the credential once, and
\* every address in it is that of the model.
ShownIsComplete ==
    HasGuides =>
      LET setups == Setups(page.params)
      IN  \A panel \in Panels(setups) : \A shell \in Shells :
            LET guide == GuideOf(setups, panel)
                model == models(page.params)[panel[1]]
                visible == Visible(guide, shell)
                address == IF guide.id = "claude-code" THEN <<"", "/anthropic">>
                           ELSE <<model.path, "/v1">>
            IN  /\ Cardinality({b \in visible : b.key # None}) = 1
                /\ {b.url : b \in visible} \ {None} = {address}

\* viewmodels.go: "the only place ... where a cleartext credential reaches a
\* template": the page of a new key; no page after it shows it again.
KeyShownOnce ==
    HasGuides =>
      LET setups == Setups(page.params)
      IN  \A panel \in Panels(setups) : \A b \in Blocks(GuideOf(setups, panel)) :
            b.key \in {None, IF page.kind = "created" THEN Secret ELSE PlaceholderKey}

\* viewmodels.go: "so the two pages agree": the page of models and the picker of
\* the same deployment call a model by one name, if it is configured once.
TwoPagesAgree ==
    page.kind = "models" =>
      LET setups == Setups(page.params)
      IN  \A n \in DOMAIN page.models : \A m \in DOMAIN setups :
            /\ page.models[n].Name = setups[m].ModelID
            /\ \A o \in DOMAIN setups : setups[o].ModelID = setups[m].ModelID => o = m
            => page.models[n].DisplayName = setups[m].Label

\* handlers.go: "falls back to the first key": the pane that is open without
\* being asked for is the newest key's, in whatever order the keys were read.
NewestIsOpen ==
    page.kind = "account" /\ list # <<>> =>
      \E n \in DOMAIN list :
        /\ list[n][2] = page.selected
        /\ IF \E m \in DOMAIN list : list[m][2] = page.wanted
             THEN page.selected = page.wanted
             ELSE \A m \in DOMAIN list : m # n => Before(by, list[n], list[m])
=============================================================================
