# Formal model of the API-key portal

TLA+ specifications of the portal in this repository, the TLC configurations that
check them on small instances, and TLAPS proofs of their main properties for every
value of the constants. Line numbers refer to the Go sources.

    tlc -workers 2 -config MCKubernetesStore.cfg MCKubernetesStore     # one run
    tlapm KubernetesStoreProofs.tla                                    # one proof module

`PROJECT.json` lists the components, the runs with their properties, for each property
a plausible bug that breaks it, the source lines of each definition, the hazards and
the theorems.

## 1. The system

The portal lets a person sign in with Microsoft Entra and list, create and revoke API
keys for an inference gateway. Its design is to be stateless: whatever must last is in
one Kubernetes Secret or in sealed cookies. That moves the hard parts to the edges,
where this project looks.

| component | state it keeps | operations | what makes it hard | what makes it correct |
|---|---|---|---|---|
| Kubernetes keystore `internal/keystore/kubernetes` | none; ONE Secret with a data entry and an annotation for each key | `ListKeys`, `GetKey`, `CreateKey`, `RevokeKey`, `Ready` | every call is several API requests that interleave with other calls, other replicas, GitOps reconciliation and deletion of the Secret; a write whose answer is lost may still happen | keys of others are never touched, a key handed out stays, a revoked key never returns |
| memory keystore `internal/keystore/memory` | a map under a mutex | the same | concurrent calls | the same contract, exactly one of two revokes succeeds |
| sessions and sign-in `internal/auth` | cookies: session, sign-in in progress; sealer with a list of keys | `Start`, `Complete`, `Read`, `Issue`, `Clear` | several tabs share one cookie of a kind, pods differ in their keys during a rollout, responses are lost or reordered, cookies age | a tab completes its own sign-in only; neither a sign-in nor a session is lost to a deployment |
| flash message `internal/auth/flash.go` | one cookie for all tabs | `SetFlash`, `TakeFlash` | a page carries what the cookie held when it was asked for, and removes what it holds when it arrives | what a page announces is true, and announced once |
| photo cache `internal/avatar` | `entries`, `order` under a mutex | `Capture`, `Get`, `Forget`, `put` | the fetch is outside the lock; `order` keeps stale places; expiry in `Get` | never above its limit, every entry can be evicted, one photo costs at most one |
| pages about keys `internal/httpapp` | none | one handler for each route | requests of several tabs with old sessions, answers that arrive late or never | a page never loses a key somebody was shown, nor shows one announced as revoked |
| list order | a slice | the insertion sorts `sortByCreatedDesc`, `sortByDisplayName` | ties, random map order | ordered, nothing lost, one result for any input order |
| setup guides `internal/onboarding`, `web/static/app.js` | what was picked, in the browser | `Setups`, `Catalog`, the picker | the browser remembers choices of an earlier deployment; a credential is rendered into every guide of one page | one complete guide shown, the credential on one page only |
| model catalog `internal/models` | none | `List` | two readings at different moments, one may fail | a status is never a false Ready |
| configuration and start `internal/config`, `cmd/ai-account` | the environment; what has been built | `config.Load`, the steps of `run` | guards that look at several settings, interfaces that may hold a typed nil, a cluster resolved twice, what fails late | what serves was put together from one accepted environment |
| server and shutdown `cmd/ai-account` | requests under way | `serve`: accept, drain, exit | SIGTERM while requests wait for the API server; the end of the grace | what ends by timeouts shorter than the grace is never cut off |

They interact so: a request passes `LoadSession` (sealer) and `RequireUser`, and its
handler makes one keystore call; `Complete` calls `Capture`; `page` calls `Get` of the
photo cache and `TakeFlash`; `handleLogout` calls `Forget`; the account page sorts what
it read and renders the guides of `Setups`. The gateway reads the same
Secret through a watch of its own. There are no queues and no background goroutines:
concurrency is that of requests and of replicas.

## 2. The modules

    KeyStore  <-- refined by --  KubernetesStore, MemoryStore
       ^
       +-- used by --  Portal (with the flash message)

    ListOrder, Onboarding  <-- extended by --  Pages
    Config                 <-- extended by --  Startup
    SignIn      AvatarCache      ModelCatalog

`KeyStore` is the abstract specification: what the interface in `keystore.go` promises.
Calls overlap; a list or a get answers with what held at one moment inside the call; a
create adds one fresh key and a revoke removes one key of its caller at one moment; an
error promises nothing, and the effect may still happen later, once. A revoke may be
authorised first and take effect later, which the production store needs.

`KubernetesStore` has one action for each answer of the API server a call waits for.
`pc` says which request that is: the reading (`get`), the merge patch (`patch`), the
creation of the Secret after NotFound (`create`), the second patch after AlreadyExists
(`repatch`). `exists`, `data` and `annot` are the Secret. `GiveUp` ends a call whose
write is still under way (caller gone, connection broken, pod killed): the write joins
`orphans` and is carried out once (`OrphanWritten`) or never. `Reconcile` is the
GitOps controller, `DeleteSecret` an operator. Names, times and the bytes of a
credential are data and left out; an annotation is its owner.

`MemoryStore` has one action for the critical section of each call; `wins` counts the revokes
of each key that succeeded.

`ListOrder` is the loop both sort functions share, one action for a swap and one for
the next item. An item is a triple of numbers: creation time or display name, id or
routing name, and which object it is. `by` picks the comparison.

`Onboarding` is `Setups`: for each configured model and each client a guide, of which
there is what a user needs from it: where the credential stands, which address and which
model is named, in which shell's blocks. `Pages` extends `ListOrder` (`Sort` is its
loop) with the page that is then shown: the account page and its open pane
(`selectedKey`), the page of a new key, the page of models, and the picker of `app.js`
with the choices `localStorage` remembers. `Redeploy` changes the models on offer while a
page stays in the browser.

`Config` says of each environment which settings `Load` reports (`Errors`) and what it
makes of the others (`Cfg`). `Startup` is `run`: one action for each step, in order; the
first that fails ends the process. `made` is what the steps have built, `live` the app
that serves, which stays while a successor starts (a rollout). `Edit` changes a setting,
`UseContext` the kubeconfig, `Crash` and `PredecessorDies` end a process.

`AvatarCache` has `cached` (the entries), `age` (of each), `order`, and for each
sign-in in progress where its `Capture` is. `Put` is `put` with its eviction loop as
one step, as it runs under the lock.

`SignIn` models one browser (the cookies of different browsers never meet), its tabs,
and the pods. `Login` and `Callback` are the requests as the server handles them, with
the cookies the browser has; `LoginArrives` and `CallbackArrives` apply the cookies of
the response. `ExchangeFails` is a code exchange or a verification that
fails for reasons of Entra or the network. `Deploy` replaces a pod by one with the next list of session keys.
`Recycle` lets a random token stand for a new one once nothing holds it, so that a run
of any length needs few.

`ModelCatalog` is `List` with its readings of the services and of the engines, in the
handler of `GET /models`, in a pod that takes requests until SIGTERM and then drains
them. `Scale` and `Install` change the cluster at any moment. The other requests are told
apart by what they wait for: `CallKeystore` for the API server, `Complete`
(`GET /auth/callback`) for Entra and Graph, neither with a timeout that ends it within the
grace for sure, and `OtherPage` for nobody. `Written` is the browser taking the answer, which
may last until `writeTimeout`. `clock` counts from the beginning of the header, then from
that of the handler; `Due` says when a timeout has come, and no `Tick` passes before it has
fired. What waits when the grace ends is cut off (`GraceOver`); what a keystore call leaves
behind then is `Abandon` in `Portal` and `GiveUp` in `KubernetesStore`.

`Portal` composes the handlers with `KeyStore` (`INSTANCE KeyStore WITH Call <- Tab`):
a tab's request carries the session at the time it was sent, `Call` starts the store's
call, `Answer` turns its result into a page, `Serve` answers where no call is needed
(signing out, and pages such as the landing page), `Arrive` shows the answer or follows the
redirect.
Because both stores refine `KeyStore`, what it shows holds over either. `flash` is the
cookie, with "Key revoked" for some key or "You're signed out": a request carries what it held when sent, the page says that, and `FlashAfter` is
what the response makes of the cookie when it arrives, whatever came in between.

Operators with a name like `MergePutOverwrites` or `LoginShares`, under a comment "A
plausible bug", are variants no specification uses; PROJECT.json names them as the
mutations each property must detect.

## 3. The runs

| run | question | instance | distinct states |
|---|---|---|---|
| `kubernetes_store` | Do overlapping calls, lost answers and late writes keep the invariants and refine `KeyStore`? | 2 people, 2 calls, 2 keys, 1 bootstrap entry | 532,180 |
| `kubernetes_store_live` | Does every call end if the API server answers or refuses? | 1 person, 2 calls, 1 key, no symmetry | 15,503 |
| `memory_store` | Does the memory store refine `KeyStore`, and does one of two revokes succeed? | 2 people, 3 calls, 2 keys | 24,240 |
| `pages` | Is every list sorted, whole and decided, and does each page show one pane, one complete guide, and a credential only where it may? | all lists of up to 3 keys and 3 models with 2 values of each field; 3 deployments; 2 shells, 4 picks | 85,491 |
| `avatar_cache` | Limit, evictability and price of a photo | 4 people, 2 sign-ins at once, limit 2 | 65,240 |
| `sign_in` | Own sign-in only; nothing lost in a rollout in two phases | 2 tabs, 2 pods, 3 tokens, 2 people of whom 1 is accepted, 2 addresses, 4 key lists | 916,033 |
| `portal` | Do pages keep what earlier pages said? | 2 people, 2 tabs, 1 key | 2,019,050 |
| `model_catalog` | No false Ready, every page of models ends, only what waits for others is cut off at shutdown? | 2 requests, 1 model, up to 1 replica; ticks of some 6 s: header 1, list 1, writing 4, grace 3 | 297,170 |
| `startup` | What may serve, for any environment, and does a sound one serve in the end? | environments up to two settings from a deployment's or a developer's; 2 clusters in the kubeconfig | 36,554 |

Why these bounds: a conflict in the Secret needs two calls, of two people, and two keys
(one written while the other is removed); the path NotFound, AlreadyExists, NotFound
needs a second creator and a deletion. The photo cache needs one person more than it has
room for, and another to leave a stale place. In `model_catalog` each row of the page
depends on its own service and Deployment only, two requests let a pod drain while one
waits and another ends, one replica tells idle, loading and ready apart, and the timeouts are
in the order they have in the code (header and list together under the grace, writing over it). Two tabs can
disturb each other's cookie and three tokens let a third sign-in
start while both are under way. In `portal` every request is about one key and a list
answers key by key, so one key shows what can happen to each; two tabs are what it takes
for a message to be set while another page carries the one before. In `pages` three items
let an item pass two others and two tie; the deployments are two models with different
labels, kinds and paths, two with the same token, and none at all (the default). In
`startup` each guard looks at three settings at most, two of them away from one of the two
bases; the settings that decide together (`Joint`) are varied in pairs, the others alone.
Bounds named in the configurations: `MaxOrder` (length of `order`, which nothing bounds
in the code), `TTL` (age in ticks), `MaxKeys`, `MaxModels`, `MaxMain` (lists), `Offers`
(deployments), `Picks`, `Env` (environments), `MaxReplicas`, `Longest` (clocks of requests). The
finite sets `KeyID` and `Flow` bound identifiers; 64 and 256 random bits are taken as
never repeating while in use.

Invariants and action properties of the passing runs:

* `Paired`: a credential the gateway accepts has an owner who can see and revoke it, and
  no annotation is left without a credential.
* `RevokeHitsOwnKey`: although ownership is checked on one reading and the removal is a
  later request, the removal can only hit a key of the person who asked.
* `Durable`: a key a create returned stays until a revoke by its owner was authorised or
  the Secret was deleted. `NeverBack`: an authorised key never appears again.
* `RefinesKeyStore`: each store implements `KeyStore` under the mapping `Live`, `Phase`,
  `Late`. `OneRevokeSucceeds`: in the memory store a key that was created is gone exactly
  if one revoke of it has succeeded, and never has a second one.
* `SortedWhenDone`, `SameItems`, `OrderDecided` (the result depends on the set of keys
  only).
* `OneGuideShown`: whatever the browser remembers of another deployment, the picker shows
  one panel (unless two models share a token, see below). `ShownIsComplete`: for every
  model, client and shell the visible blocks name the credential once and no address but
  the model's. `KeyShownOnce`: a credential is on the page of its creation only, in all its
  guides and in no later page. `TwoPagesAgree`: the page of models and the picker call a
  model by one name. `NewestIsOpen`: the open pane is the key asked for, else the newest.
* `Bounded`, `PutEvictsOne`, and `Covered` inside `IInv`: every photo has a place in
  `order`, else it could never be evicted.
* `ReturnsWhereAsked`: no tab completes with another tab's sign-in. `SignInSurvives`:
  whichever pod gets the callback can complete it once Entra is reached, unless another tab replaced the cookie,
  it is too late, the code is spent, or the person is not accepted. `SessionSurvives`:
  every pod accepts an unexpired session.
* `KeyStays`, `GoneStays`: the pages' promises, over requests of several tabs and people.
  `AnnouncedIsGone`: while a page says "Key revoked" the store does not hold the key,
  though the message may be shown late and to somebody else. `OneShot`: no page asked for
  after a message was shown repeats it.
* `DevStaysLocal`, `RightCluster`, `OffIsOff`, `SignInWorks`: of what serves, whichever
  edits, failures and restarts led there. `NamesTheHopeless`: a start that fails names each
  setting without whose change no start succeeds. `StartsAtLast` (liveness).
* `NeverFalseReady`: a page says Ready only of a model that was being served at some
  moment since its engine was asked for, whichever reading failed. `DrainsInTime`: a pod
  is through with headers and with `List` as soon as the slowest of each can take together.
  `OnlyStalledAreCut`: what is cut off waits for the API server, Entra or a browser, and its
  handler has had the grace but for the time its header took. `ListEnds` (liveness).

Liveness: `ListEnds` assumes nothing of the API server, Entra or the browser: timeouts
fire, the grace ends, and time goes on (weak fairness of `TimedOut`, `Drained`, `GraceOver`
and `Tick`).
`CallsAnswer` assumes weak fairness of "the API server answers or refuses this
call's request" and of the return of a finished call. The code justifies the second (a
handler takes no lock and waits for nothing else). The first is an assumption about the
server; the run shows that the portal adds no endless loop of its own. `StartsAtLast`
assumes that the process runs and is started again (weak fairness of `Start` and
`Restart`: nothing in `run` waits but for the network, with a timeout; a kubelet restarts),
and that the discovery document, the port and the keystore, which may fail any number of
times, do not fail for ever (strong fairness of `Discover`, `Listen` and `BecomeReady`).

### Where the code and its documentation disagree

* `kubernetes_store_nothing_changed`: a failed create says "Nothing changed"
  (`handlers.go:290`), but a patch whose answer was lost has been, or will be, written.
* `avatar_eviction`: `avatar.go:111` and `:214` describe `order` as oldest first with
  stale places skipped. After sign-out and sign-in the stale place names the new entry,
  and the put that stored a photo evicts it.
* `sign_in_rotation`: the documented rotation (prepend, deploy, drop) loses sign-ins and
  sessions while the first deployment rolls out, as old pods lack the new sealing key.

Seen while modelling, without a run of its own: `RevokeKey` succeeds for a key that went
away between its reading and its patch, where `keystore.go:93` says `ErrNotFound` (this
is why `KeyStore` lets two overlapping revokes succeed); two models with the same display
and routing name keep the API server's order (`models/kubernetes.go:89`), so
`OrderDecided` is stated for keys; a page may offer a photo that is gone when the browser
asks (`handlers.go:33`); draining is said to avoid cutting off a key creation
(`main.go:328`), which holds only while the API server answers within the grace; a sign-in
whose code exchange has no timeout (`oidc.go:215`), and an answer a browser is slow to take
(`writeTimeout`, 30 s, is longer than the grace of 20 s), may be cut off as well.

Of the same kind:

* `client.go:57` promises to fail fast on a slow API server, but sets no timeout, and no
  keystore call but `Ready` has a deadline; hence the assumption of `CallsAnswer`.
* `README.md:197` and `config.go:149` report "every problem at once". A list of session keys
  or of models ends at its first bad entry; a bad `KEYSTORE_MODE` hides a missing
  `KUBERNETES_NAMESPACE` and a bad base URL the guard of the development sign-in; errors
  of the branding come one at a time, on a later start. `NamesTheHopeless` is what holds.
* Two models whose routing names give one token (`clients.go:376`) make two panels active,
  with the same element ids, where `guides.html:14` shows "only the selected panel";
  `OneGuideShown` leaves such a catalog out, `MCPages` has one.
* The prompts for cursor, pi, opencode, codex and crush name the address without `/v1`
  (`snippets.go:400`), the settings beside them with it; `ShownIsComplete` is about the
  latter. `models.html:13` gives one address for all models, whatever their paths.
* `/models` is sorted by the cluster's display names before labels replace them
  (`models/kubernetes.go:89`, `viewmodels.go:112`), so the page may be out of order.
* The keystore and the catalog each resolve the kubeconfig (`main.go:271`): on a laptop
  whose context changes in between they use different clusters; in a pod they cannot
  (`RightCluster`).
* Two pages asked for at once both show one message, a late page may remove a newer one,
  and a message may be shown to the next person who signs in (`flash.go:43`, `:49`).

## 4. What is proved

All theorems hold for any finite or infinite sets of people, keys, calls, tabs, pods, and
for lists and catalogs of any length. Assumptions on constants are named in the modules and
evaluated by the runs: `None` is none of the values, `Bootstrap` is a set of keys, each list
of session keys has a key, the keys of a list have different ids, what a deployment offers is
a list of models as `config.Load` lets it pass and no credential (`OffersAssumption`), and the
settings of an environment can be chosen one by one (`ChoiceAssumption`). Every safety
property of the passing runs is a theorem.

**KubernetesStoreProofs.** `Inductive`: `IInv` is inductive. `Paired` and `Durable` are
not inductive alone: a write under way could break them. `IInv` adds what each request
in flight was sent for (`CallInv`), that everything written was drawn first and an
authorised key is its requester's or gone (`IssuedInv`), and that each key drawn has at
most one write that could still put it there (`PutInv`). From it follow `TypeCorrect`,
`AlwaysPaired`, `AlwaysHitsOwnKey`, `AlwaysDurable`, the action property `RevokedForGood`
(a put of an authorised key contradicts `Unwritten`), and `Refinement`: every step maps
to a step of `KeyStore` or to a stutter. `CallsGoOn` is the part of `CallsAnswer` a proof can
give: a call never goes back to a request it has sent, so it ends as soon as its requests
are answered or refused.

**PagesProofs.** The list first: `LoopInvariant` (the items before `j` and from `j` to `i` are
in order, each of the former precedes the items after `j`, and each swap makes a permutation
of the one before), hence `Sorts`, `KeepsItems` and, as keys have different ids, `Decides`.
`LoopsEnd`: each step adds to `Work`, which a square of the length bounds, so the loops end.
`ListsOnPages` carries the invariant to a portal that reads, shows and reads again.

Then what is shown. A guide has one of three shapes, a command for each shell, the values of a
form, or a file with the commands that set its variable (`Shapes`); each is `Fine`: what a shell
leaves visible names the credential once and one address (`PairFine`, `FormFine`, `FileFine`).
The properties are about a page that outlives the deployment it came from, so none follows
from the current offer: `IInv` says that a page has the models it was made with and a choice
among them, that only the page of a new key has a credential (`PageInv`), and that the
account page shows a list the loops have left (`AccountInv`; without it a page could show a
list half in order, whose first key is not the newest). `PagesInductive`; from it
`GuidesAreComplete`, `ShownOnlyOnce`, `OneIsShown` (a choice among models whose tokens differ
names one of them), `PagesAgree` (of two models of one routing name the label of the last
wins, so the property asks for a model alone in its name) and `OpensTheNewest`.

**AvatarCacheProofs.** `Inductive` (types, `Covered`, `Bounded`), `AlwaysBounded`,
`CostsOne`. Eviction is defined by the number of places taken from the front, and the
proof is about the smallest such number.

**SignInProofs.** `Inductive`: the invariant says that a response is on its way to the
tab that waits for it (`ReplyInv`), that no two tabs share a sign-in and the sign-in
cookie has its tab's address (`FlowInv`), and where the cookie of an undisturbed sign-in
is (`PlaceInv`). `AlwaysReturns` follows. `RolloutInductive`, under `SafeRollout` (each
list accepts what its neighbours seal): pods are at most one deployment apart, and all
accept every cookie that still counts. `RolloutKeepsSignIns` and `RolloutKeepsSessions`
follow: for any number of pods and any sequence of lists, a rotation that satisfies
`SafeRollout` loses nothing. The documented one does not satisfy it.

**StartupProofs.** `SpecIInv`: the invariant says, for each step `pc` may be at, what the
steps before it have checked and left in `made` (`StageInv`), and that what serves has the
four properties (`LiveInv`); the latter do not depend on `env`, which may have been edited
since. `SpecDevStaysLocal`, `SpecRightCluster`, `SpecOffIsOff` and `SpecSignInWorks` follow, for
any set of environments. `SpecNamesTheHopeless` needs `ReportInv` (the report is about the
environment of the process) and an environment to compare with: a setting `s` that `Load` did
not report is put into `Production`, or into `Development` where the setting is one the
development sign-in or the memory keystore excuses, and `Load` accepts the result
(`ProductionAccepted`, `DevelopmentAccepted`); so a start could succeed without changing `s`.
These two must be among the environments, hence `ChoiceAssumption`; `AllAllowed` proves that
the set of all environments satisfies it.

**MemoryStoreProofs.** `OneSucceeds` and `Refinement` (it implements `KeyStore`). The invariant
says that every key with a record, or that a waiting create will record, has been drawn, so a
fresh key has no record; that no two waiting creates record one key; and which keys have been
created (`Created`): of those, one revoke has succeeded (`wins`) exactly if there is no record.

**PortalProofs.** Over any store that implements `KeyStore`, for any people, keys and tabs:
`ShownKeyStays`, `RevokedStaysGone`, `MessageIsTrue`, `MessageOnce`. None is inductive alone,
as a page is the end of a chain: key, call, reply, answer, page, cookie, next request. The
argument rests on keys that are `Settled` (nothing under way can still write them for the
first time): `StepSteady` shows that every step leaves such a key alone, unless its owner
asked. So `Gone`, `Kept` and `Removable` are stable facts, and the rest of `IInv` (`CallInv`,
`ReplyInv`, `RequestInv`, `FitInv`, `AnswerInv`, `SeenInv`) says for which keys each link
of the chain stands for one of them. Signing out replaces the message by one about no key.

**ModelCatalogProofs.** `Inductive`: no clock has run past its timeout, a pod has not drained
longer than any request under way has taken (`ClockInv`), and what serves while an engine is
asked for has been noted (`PageInv`). `AlwaysHonest`, `AlwaysDrains` and `CutsOffTheStalled`
follow, for any timeouts of which those of the header and of `List` fit into the grace
(`TimeAssumption`; in the code 5 s and 5 s fit into 20 s).

Model-checked only: `CallsAnswer`, `ListEnds` and `StartsAtLast` (liveness under fairness is
beyond the prover; `CallsGoOn`, `LoopsEnd` and `AlwaysDrains` are what it can prove of "does it end"), and
the three violations.

## 5. Plan

1. Done: `KeyStore`, `KubernetesStore`, `MemoryStore`, `ListOrder`, `AvatarCache`, `SignIn`,
   `ModelCatalog`, `Portal` with the flash message, `Config` and `Startup`, `Onboarding` and
   `Pages`; proofs about each of them, so that each safety property of the runs is a theorem.
2. Left: what a keystore call cut off at the end of the grace leaves behind, in one model
   (`ModelCatalog` composed with `Portal`; now each has its side); the second look-up of a
   photo a page offered (`AvatarCache` composed with `Portal`).
3. Proofs left: none of a safety property the runs check.

## 6. What is not modelled

Cryptography, JSON, the shape of tokens and the checks of image bytes are data. Of the
branding there is only whether a part is wrong; colours, markup, the templates and the wording
of guides are not modelled, nor the parts of `app.js` that copy, reveal and move the focus.
Request ids, headers, logging and the recovery of panics keep no state. `seedDevKeys` fills
the memory store with data before it serves. The development sign-in issues one fixed
session without a flow, that of `Session` in `Portal`. `Ready` only reads. The gateway's watch
is outside the repository. The environment is abstracted to the values `Load` tells apart.
