------------------------------- MODULE Config -------------------------------
(***************************************************************************)
(* internal/config/config.go: what Load makes of the environment of the    *)
(* process, and which settings it reports.                                 *)
(*                                                                         *)
(* A setting has the values Load tells apart.  A list of session keys or   *)
(* of onboarding models has one such value for each of its entries; text   *)
(* that is not JSON is a list with an entry "broken".                      *)
(***************************************************************************)
EXTENDS Naturals, Sequences

Switch == {"unset", "true", "false", "typo"}
Checked == {"unset", "good", "bad"}
\* No scheme or host, http to another machine, loopback, https to a public host.
Address == {"unset", "broken", "plain", "loopback", "public"}
SessionKey == {"blank", "broken", "short", "good"}
Entry == {"broken", "no id", "bad path", "bad kind", "good"}
BrandPart == {"text", "logo", "favicon", "accent", "accent dark"}

\* The settings of a process.
Environment ==
    [port : Checked, base : Address, inference : Address, models : Seq(Entry),
     grafana : Checked,
     mode : {"unset", "memory", "kubernetes", "other"}, namespace : BOOLEAN,
     allow : Switch, kubeconfig : {"good", "bad"},   \* KUBERNETES_ALLOW_KUBECONFIG
     catalog : BOOLEAN,                              \* MODELS_NAMESPACE
     tenant : {"unset", "wrong", "right"}, client : BOOLEAN, secret : BOOLEAN,
     avatars : Switch, fake : Switch, keys : Seq(SessionKey),
     brand : SUBSET BrandPart,                       \* the parts that are wrong
     assets : Checked]

-----------------------------------------------------------------------------
\* A switch that is off unless it is set to something true,
boolEnv(raw) == raw = "true"

\* ... and one that is on unless it is set to something false.
boolEnvDefaultTrue(raw) == raw # "false"

\* The address, if it can be used: http only to this machine.
parseBaseURL(raw) == IF raw \in {"loopback", "public"} THEN raw ELSE "none"
isLoopback(address) == address = "loopback"

\* Blank entries are skipped; one bad entry, or no entry, fails the list.
parseSessionKeys(raw) ==
    IF \E i \in DOMAIN raw : raw[i] \in {"broken", "short"} THEN "none"
    ELSE IF \A i \in DOMAIN raw : raw[i] = "blank" THEN "none" ELSE "keys"

parseOnboardingModels(raw) ==
    IF \A i \in DOMAIN raw : raw[i] = "good" THEN "models" ELSE "none"

keystoreMode(raw) ==
    IF raw = "unset" THEN "memory" ELSE IF raw = "other" THEN "none" ELSE raw

\* The Config that Load fills in; "none" is what a refused setting leaves.
Cfg(e) ==
    [base |-> parseBaseURL(e.base),
     inference |-> parseBaseURL(IF e.inference = "unset" THEN e.base ELSE e.inference),
     mode |-> keystoreMode(e.mode), namespace |-> e.namespace, catalog |-> e.catalog,
     allow |-> boolEnv(e.allow), kubeconfig |-> e.kubeconfig,
     tenant |-> e.tenant, keys |-> parseSessionKeys(e.keys),
     fake |-> boolEnv(e.fake), avatars |-> boolEnvDefaultTrue(e.avatars)]

\* A plausible bug: the guard asks for the address only.
checkDevGuardsAddress(c) == c.fake /\ c.base # "none" /\ ~isLoopback(c.base)

\* The development sign-in is refused beside the production keystore and under
\* an address others can reach.
checkDevGuards(c) ==
    /\ c.fake
    /\ c.mode = "kubernetes" \/ (c.base # "none" /\ ~isLoopback(c.base))

\* A plausible bug: Load returns at the first problem.
ErrorsFirst(e) ==
    IF e.port = "bad" THEN {"port"}
    ELSE IF Cfg(e).base = "none" THEN {"base"}
    ELSE IF e.grafana = "bad" THEN {"grafana"}
    ELSE IF Cfg(e).mode = "none" THEN {"mode"}
    ELSE IF Cfg(e).keys = "none" THEN {"keys"} ELSE {}

\* Whether a setting is a problem, in the order Load looks.
IsWrong(e) ==
    LET c == Cfg(e)
    IN  [port |-> e.port = "bad",
         base |-> c.base = "none",
         inference |-> e.inference # "unset" /\ c.inference = "none",
         models |-> parseOnboardingModels(e.models) = "none",
         grafana |-> e.grafana = "bad",
         mode |-> c.mode = "none",
         namespace |-> c.mode = "kubernetes" /\ ~c.namespace,
         tenant |-> ~c.fake /\ c.tenant = "unset",
         client |-> ~c.fake /\ ~e.client,
         secret |-> ~c.fake /\ ~e.secret,
         keys |-> c.keys = "none",
         fake |-> checkDevGuards(c)]

\* The settings Load reports.
Errors(e) == {s \in DOMAIN IsWrong(e) : IsWrong(e)[s]}
=============================================================================
