----------------------------- MODULE Onboarding -----------------------------
(***************************************************************************)
(* internal/onboarding: what the setup guides of each model and each       *)
(* client say, as the account page and the page of a new key render them.  *)
(*                                                                         *)
(* Of a snippet there is what a user needs from it: the credential, the    *)
(* address and the model it names, None when it does not.  Names are       *)
(* numbers, 0 the empty one.  An address is <<path, suffix>> under the     *)
(* origin, where path is that of the model, "" for the origin itself.      *)
(***************************************************************************)
EXTENDS Naturals, Sequences

CONSTANTS
    slug,       \* the token the elements of a model's panels are named with
    None        \* nothing is said; no credential

\* What takes the place of an empty name, and of the credential.
ModelName == 99
PlaceholderKey == "YOUR_API_KEY"

Shells == {"sh", "powershell"}

resolveLabel(m) == IF m.label # 0 THEN m.label ELSE IF m.id # 0 THEN m.id ELSE ModelName

\* The configured models, or the one default model.
models(p) ==
    IF p.models # <<>> THEN p.models
    ELSE <<[id |-> p.model, label |-> 0, kind |-> "", path |-> ""]>>

resolve(p, m) ==
    [BaseURL |-> <<m.path, "">>, APIBase |-> <<m.path, "/v1">>,
     AnthropicBase |-> <<"", "/anthropic">>,
     Model |-> IF m.id = 0 THEN ModelName ELSE m.id,
     Label |-> resolveLabel(m), Kind |-> m.kind,
     Key |-> IF p.key = None THEN PlaceholderKey ELSE p.key]

\* A block belongs to a shell, or to none ("").
Block(shell, key, url, model) == [shell |-> shell, key |-> key, url |-> url, model |-> model]
shBlock(key, url, model) == Block("sh", key, url, model)
psBlock(key, url, model) == Block("powershell", key, url, model)

Guide(id, files, commands, prompt) ==
    [id |-> id, files |-> files, commands |-> commands, prompt |-> prompt, advice |-> FALSE]

\* A plausible bug: only one of the shells sets the credential.
launchBlocksOfSh(r) == <<shBlock(r.Key, None, None), psBlock(None, None, None)>>

\* The commands of a client with a configuration file only set the credential.
launchBlocks(r) == <<shBlock(r.Key, None, None), psBlock(r.Key, None, None)>>

claudeCode(r) ==
    Guide("claude-code", <<>>,
          <<shBlock(r.Key, r.AnthropicBase, r.Model), psBlock(r.Key, r.AnthropicBase, r.Model)>>,
          r.AnthropicBase)

\* The model is in the notes only: it is a field of each request.
openaiCompatible(r) ==
    Guide("openai", <<>>, <<shBlock(r.Key, r.APIBase, None), psBlock(r.Key, r.APIBase, None)>>,
          r.BaseURL)

\* Its "file" is the values to type into the settings.
cursor(r) == Guide("cursor", <<Block("", r.Key, r.APIBase, r.Model)>>, <<>>, r.BaseURL)

curlGuide(r) ==
    Guide("curl", <<>>,
          <<shBlock(r.Key, r.APIBase, r.Model), psBlock(r.Key, r.APIBase, r.Model)>>, r.BaseURL)

\* A file that names the variable with the credential, and the commands that set it.
FileGuide(id, r) ==
    Guide(id, <<Block("", None, r.APIBase, r.Model)>>, launchBlocks(r), r.BaseURL)

pi(r) == FileGuide("pi", r)
opencode(r) == FileGuide("opencode", r)
codex(r) == FileGuide("codex", r)
crush(r) == FileGuide("crush", r)

guidesFor(r) ==
    LET guides == <<claudeCode(r), openaiCompatible(r), cursor(r), curlGuide(r),
                    pi(r), opencode(r), codex(r), crush(r)>>
    IN  [n \in DOMAIN guides |-> [guides[n] EXCEPT !.advice = r.Kind = "reasoning"]]

\* The matrix of the picker: each model with each client's guide.
Setups(p) ==
    LET Setup(m) ==
            LET r == resolve(p, m)
            IN  [ID |-> slug[r.Model], ModelID |-> r.Model, Label |-> resolveLabel(m),
                 Kind |-> m.kind, APIBase |-> r.APIBase, Guides |-> guidesFor(r)]
    IN  [n \in DOMAIN models(p) |-> Setup(models(p)[n])]

\* The same models for the pages without the picker.
Catalog(p) ==
    [n \in DOMAIN models(p) |->
        LET r == resolve(p, models(p)[n]) IN [ID |-> r.Model, Label |-> r.Label]]
=============================================================================
