---------------------------- MODULE PagesProofs ----------------------------
(***************************************************************************)
(* First the insertion sort of ListOrder, for lists of every length:       *)
(* PrefixOrdered is the loop invariant, and at the end it is sortedness;   *)
(* what came is what there is, in another order.  Then the guides, for     *)
(* every model and client, and the pages made of both, for any models a    *)
(* deployment may offer and whatever the browser remembers.                *)
(***************************************************************************)
EXTENDS Pages, FiniteSetTheorems, TLAPS

\* The order is transitive, and two items are in order when one is in front.
LEMMA InOrderTransitive ==
    ASSUME NEW o, NEW a \in Item, NEW b \in Item, NEW c \in Item, InOrder(o, a, b), InOrder(o, b, c)
    PROVE  InOrder(o, a, c)
BY DEF Item, Before, InOrder

LEMMA BeforeInOrder ==
    ASSUME NEW o, NEW a \in Item, NEW b \in Item, Before(o, a, b)
    PROVE  InOrder(o, a, b)
BY DEF Item, Before, InOrder

LEMMA InitInv == Init => TypeOK /\ PrefixOrdered
BY InputsAssumption DEF Init, TypeOK, PrefixOrdered

LEMMA SwapInv == TypeOK /\ PrefixOrdered /\ Swap => TypeOK' /\ PrefixOrdered'
<1> SUFFICES ASSUME TypeOK, PrefixOrdered, Swap PROVE TypeOK' /\ PrefixOrdered'
  OBVIOUS
<1>1. /\ j \in 2..i /\ i \in 1..Len(list) /\ Len(list) \in Nat
      /\ Before(by, list[j], list[j - 1])
      /\ j' = j - 1 /\ i' = i /\ by' = by
  BY DEF TypeOK, Swap, Sorting, Unordered
<1>2. /\ list' \in Seq(Item) /\ Len(list') = Len(list)
      /\ list'[j] = list[j - 1] /\ list'[j - 1] = list[j]
      /\ \A a \in 1..Len(list) : a # j /\ a # j - 1 => list'[a] = list[a]
  BY <1>1 DEF TypeOK, Swap
<1>3. InOrder(by, list[j], list[j - 1])
  BY <1>1, BeforeInOrder DEF TypeOK
<1>4. TypeOK'
  BY <1>1, <1>2 DEF TypeOK
<1>5. ASSUME NEW a \in 1..Len(list'), NEW b \in 1..Len(list'), a < b, b <= i, b # j - 1
      PROVE  InOrder(by, list'[a], list'[b])
  \* Only b = j with a = j - 1 is a new pair: it is the one just swapped.
  <2>1. CASE b = j /\ a = j - 1
    BY <1>1, <1>2, <1>3, <2>1
  <2>2. CASE b = j /\ a # j - 1
    <3>1. a < j - 1 /\ list'[a] = list[a] /\ list'[b] = list[j - 1]
      BY <1>1, <1>2, <1>5, <2>2
    <3>. QED  BY <1>1, <1>2, <1>5, <2>2, <3>1 DEF PrefixOrdered
  <2>3. CASE b # j /\ a = j
    <3>1. list'[a] = list[j - 1] /\ list'[b] = list[b] /\ j - 1 < b
      BY <1>1, <1>2, <1>5, <2>3
    <3>. QED  BY <1>1, <1>2, <1>5, <2>3, <3>1 DEF PrefixOrdered
  <2>4. CASE b # j /\ a = j - 1
    <3>1. list'[a] = list[j] /\ list'[b] = list[b] /\ j < b
      BY <1>1, <1>2, <1>5, <2>4
    <3>. QED  BY <1>1, <1>2, <1>5, <2>4, <3>1 DEF PrefixOrdered
  <2>5. CASE b # j /\ a # j /\ a # j - 1
    <3>1. list'[a] = list[a] /\ list'[b] = list[b]
      BY <1>1, <1>2, <1>5, <2>5
    <3>. QED  BY <1>1, <1>2, <1>5, <2>5, <3>1 DEF PrefixOrdered
  <2>. QED  BY <2>1, <2>2, <2>3, <2>4, <2>5
<1>6. Sorting'
  BY <1>1, <1>2 DEF Sorting
<1>7. PrefixOrdered'
  BY <1>1, <1>5, <1>6 DEF PrefixOrdered
<1>. QED  BY <1>4, <1>7

LEMMA NextItemInv == TypeOK /\ PrefixOrdered /\ NextItem => TypeOK' /\ PrefixOrdered'
<1> SUFFICES ASSUME TypeOK, PrefixOrdered, NextItem PROVE TypeOK' /\ PrefixOrdered'
  OBVIOUS
<1>1. /\ j \in 1..i /\ i \in 2..Len(list) /\ Len(list) \in Nat /\ list \in Seq(Item)
      /\ list' = list /\ i' = i + 1 /\ j' = i + 1 /\ by' = by
      /\ j > 1 => ~Before(by, list[j], list[j - 1])
  BY DEF TypeOK, NextItem, Sorting, Unordered
<1>2. TypeOK'
  BY <1>1 DEF TypeOK
\* The item that stopped is behind everything in front of it.
<1>3. ASSUME NEW a \in 1..Len(list), a < j PROVE InOrder(by, list[a], list[j])
  <2>1. list[j - 1] \in Item /\ list[j] \in Item /\ list[a] \in Item
    BY <1>1, <1>3
  <2>2. InOrder(by, list[j - 1], list[j])
    BY <1>1, <1>3 DEF InOrder
  <2>3. CASE a = j - 1
    BY <2>2, <2>3
  <2>4. CASE a < j - 1
    <3>1. InOrder(by, list[a], list[j - 1])
      BY <1>1, <2>4 DEF PrefixOrdered
    <3>. QED  BY <2>1, <2>2, <3>1, InOrderTransitive
  <2>. QED  BY <1>1, <1>3, <2>3, <2>4
<1>4. ASSUME NEW a \in 1..Len(list), NEW b \in 1..Len(list), a < b, b <= i + 1, b # i + 1
      PROVE  InOrder(by, list[a], list[b])
  <2>1. CASE b = j
    BY <1>3, <1>4, <2>1
  <2>2. CASE b # j
    BY <1>1, <1>4, <2>2 DEF PrefixOrdered
  <2>. QED  BY <2>1, <2>2
<1>5. PrefixOrdered'
  BY <1>1, <1>4 DEF PrefixOrdered, Sorting
<1>. QED  BY <1>2, <1>5

GivenInv == given \in Seq(Item) /\ (by = "created" => given \in KeyLists)

\* A swap swaps where two items came from.
LEMMA SwapSame == TypeOK /\ GivenInv /\ SameItems /\ Swap => SameItems'
<1> SUFFICES ASSUME TypeOK, GivenInv, SameItems, Swap PROVE SameItems'
  OBVIOUS
<1>1. /\ j \in 2..i /\ i \in 1..Len(list) /\ Len(list) \in Nat /\ given' = given
  BY DEF TypeOK, Swap, Sorting, Unordered
<1>2. /\ Len(list') = Len(list)
      /\ list'[j] = list[j - 1] /\ list'[j - 1] = list[j]
      /\ \A a \in 1..Len(list) : a # j /\ a # j - 1 => list'[a] = list[a]
  BY <1>1 DEF TypeOK, Swap
<1>3. PICK p \in [1..Len(list) -> 1..Len(given)] : CameFrom(p)
  BY DEF SameItems
<1>4. PICK q : q = [p EXCEPT ![j] = p[j - 1], ![j - 1] = p[j]]
  OBVIOUS
<1>5. /\ q \in [1..Len(list) -> 1..Len(given)]
      /\ q[j] = p[j - 1] /\ q[j - 1] = p[j]
      /\ \A a \in 1..Len(list) : a # j /\ a # j - 1 => q[a] = p[a]
  BY <1>1, <1>3, <1>4
<1>6. \A a, b \in 1..Len(list) : q[a] = q[b] => a = b
  BY <1>1, <1>3, <1>5 DEF CameFrom
<1>7. \A a \in 1..Len(list) : list'[a] = given[q[a]]
  BY <1>1, <1>2, <1>3, <1>5 DEF CameFrom
<1>8. CameFrom(q)'
  BY <1>1, <1>2, <1>5, <1>6, <1>7 DEF CameFrom
<1>. QED  BY <1>1, <1>2, <1>5, <1>8 DEF SameItems

LEMMA InitSame == Init => GivenInv /\ SameItems
<1> SUFFICES ASSUME Init PROVE GivenInv /\ SameItems
  OBVIOUS
<1>1. GivenInv
  BY InputsAssumption DEF Init, GivenInv
<1>2. PICK p : p = [a \in 1..Len(list) |-> a]
  OBVIOUS
<1>3. p \in [1..Len(list) -> 1..Len(given)] /\ CameFrom(p)
  BY <1>2 DEF Init, CameFrom
<1>. QED  BY <1>1, <1>3 DEF Init, SameItems

\* What holds of the list at any moment.
ListInv == TypeOK /\ PrefixOrdered /\ GivenInv /\ SameItems

LEMMA ListStep == ListInv /\ [Next]_vars => ListInv'
<1>1. ListInv /\ Next => ListInv'
  <2>1. GivenInv /\ Next => GivenInv'
    BY DEF GivenInv, Next, Swap, NextItem
  <2>2. SameItems /\ NextItem => SameItems'
    BY DEF SameItems, CameFrom, NextItem
  <2>. QED  BY <2>1, <2>2, SwapInv, NextItemInv, SwapSame DEF ListInv, Next
<1>2. ListInv /\ UNCHANGED vars => ListInv'
  <2>1. TypeOK /\ UNCHANGED vars => TypeOK'
    BY DEF TypeOK, vars
  <2>2. PrefixOrdered /\ UNCHANGED vars => PrefixOrdered'
    BY DEF PrefixOrdered, Sorting, vars
  <2>3. GivenInv /\ SameItems /\ UNCHANGED vars => GivenInv' /\ SameItems'
    BY DEF GivenInv, SameItems, CameFrom, vars
  <2>. QED  BY <2>1, <2>2, <2>3 DEF ListInv
<1>. QED  BY <1>1, <1>2

\* A list that was read again is as it came.
LEMMA ListAgain ==
    ASSUME ListInv, list' = given, i' = 2, j' = 2, UNCHANGED <<by, given>>
    PROVE  ListInv'
<1>1. TypeOK' /\ PrefixOrdered' /\ GivenInv'
  BY DEF ListInv, TypeOK, GivenInv, PrefixOrdered, Sorting
<1>2. PICK p : p = [a \in 1..Len(given) |-> a]
  OBVIOUS
<1>3. p \in [1..Len(list) -> 1..Len(given)]' /\ CameFrom(p)'
  BY <1>2 DEF CameFrom
<1>4. SameItems'
  BY <1>3 DEF SameItems
<1>. QED  BY <1>1, <1>4 DEF ListInv

LEMMA ListSorted == ListInv => SortedWhenDone
<1> SUFFICES ASSUME ListInv, i > Len(list),
                    NEW a \in 1..Len(list), NEW b \in 1..Len(list), a < b
             PROVE  InOrder(by, list[a], list[b])
  BY DEF SortedWhenDone, Sorting, ListInv, TypeOK
<1>1. b # j
  BY DEF ListInv, PrefixOrdered, Sorting, TypeOK
<1>. QED  BY <1>1 DEF ListInv, PrefixOrdered, TypeOK

LEMMA ListDecided == ListInv => OrderDecided
<1> SUFFICES ASSUME ListInv, by = "created", ~Sorting,
                    NEW a \in 1..Len(list), NEW b \in 1..Len(list), a < b
             PROVE  Before(by, list[a], list[b])
  BY DEF OrderDecided
<1>1. list[a] \in Item /\ list[b] \in Item /\ InOrder(by, list[a], list[b])
  BY ListSorted DEF ListInv, TypeOK, SortedWhenDone
<1>2. PICK p \in [1..Len(list) -> 1..Len(given)] : CameFrom(p)
  BY DEF ListInv, SameItems
<1>3. p[a] # p[b] /\ list[a] = given[p[a]] /\ list[b] = given[p[b]]
  BY <1>2 DEF CameFrom
<1>4. list[a][2] # list[b][2]
  BY <1>2, <1>3, IdsAssumption DEF ListInv, GivenInv
<1>. QED  BY <1>1, <1>4 DEF InOrder, Before, Item

LEMMA InitListInv == Init => ListInv
BY InitInv, InitSame DEF ListInv

\* What holds of the list holds throughout, for any input.
THEOREM LoopInvariant == Spec => []ListInv
BY InitListInv, ListStep, PTL DEF Spec

\* When the loops are done, everything is in order (kubernetes.go 368-380,
\* models/kubernetes.go 183-195), whatever the order of the input.
THEOREM Sorts == Spec => []SortedWhenDone
BY LoopInvariant, ListSorted, PTL

\* No item is lost or doubled while the list is sorted (kubernetes.go 368-380,
\* models/kubernetes.go 183-195).
THEOREM KeepsItems == Spec => []SameItems
<1>1. ListInv => SameItems
  BY DEF ListInv
<1>. QED  BY <1>1, LoopInvariant, PTL

\* The order of the keys is decided by the comparison alone: between any two
\* there is one that comes first (kubernetes.go 366).
THEOREM Decides == Spec => []OrderDecided
BY LoopInvariant, ListDecided, PTL

\* How far the loops have come: each round of the outer loop counts for as many
\* steps as the inner one may take in it.
Work == i * (i + 1) - 2 * j

LEMMA WorkGrows ==
    ASSUME ListInv, Next
    PROVE  Work' > Work
<1>1. i \in Nat /\ j \in Nat /\ j >= 1
  BY DEF ListInv, TypeOK
<1>2. CASE Swap
  BY <1>1, <1>2 DEF Swap, Work
<1>3. CASE NextItem
  <2>1. i' = i + 1 /\ j' = i + 1
    BY <1>3 DEF NextItem
  <2>2. (i + 1) * ((i + 1) + 1) = i * (i + 1) + 2 * (i + 1)
    BY <1>1
  <2>3. PICK w \in Int : w = i * (i + 1)
    BY <1>1
  <2>4. Work' = w /\ Work = w - 2 * j
    BY <1>1, <2>1, <2>2, <2>3 DEF Work
  <2>. QED  BY <1>1, <2>3, <2>4
<1>. QED  BY <1>2, <1>3 DEF Next

\* The outer loop ends with the list.
WithinList == i <= Len(given) + 2

LEMMA WorkBounded ==
    ASSUME ListInv, WithinList
    PROVE  Work < (Len(given) + 2) * (Len(given) + 3)
<1>1. PICK n \in Nat : n = Len(given) + 2
  BY DEF ListInv, GivenInv
<1>2. i \in Nat /\ j \in Nat /\ j >= 1 /\ i <= n
  BY <1>1 DEF ListInv, TypeOK, WithinList
<1>3. i * (i + 1) <= n * (n + 1)
  BY <1>2
<1>4. Len(given) + 3 = n + 1
  BY <1>1 DEF ListInv, GivenInv
<1>5. PICK v \in Int, w \in Int : v = i * (i + 1) /\ w = n * (n + 1)
  BY <1>2
<1>. QED  BY <1>1, <1>2, <1>3, <1>4, <1>5 DEF Work

\* Both loops end (kubernetes.go 368-380, models/kubernetes.go 183-195): every step
\* adds to Work, which a square of the length bounds.
THEOREM LoopsEnd ==
    Spec => /\ [][Work' > Work]_vars
            /\ [](Work < (Len(given) + 2) * (Len(given) + 3))
<1>1. Init => WithinList
  BY InputsAssumption DEF Init, WithinList
<1>2. ListInv /\ WithinList /\ [Next]_vars => WithinList'
  <2>1. ListInv => i \in Nat /\ Len(given) \in Nat /\ Len(list) = Len(given)
    BY DEF ListInv, TypeOK, GivenInv, SameItems
  <2>. QED  BY <2>1 DEF WithinList, Next, Swap, NextItem, Sorting, vars
<1>3. Spec => [](ListInv /\ WithinList)
  BY <1>1, <1>2, LoopInvariant, PTL DEF Spec
<1>4. ListInv /\ [Next]_vars => [Work' > Work]_vars
  BY WorkGrows
<1>5. Spec => [][Work' > Work]_vars
  BY <1>4, LoopInvariant, PTL DEF Spec
<1>6. Spec => [](Work < (Len(given) + 2) * (Len(given) + 3))
  BY <1>3, WorkBounded, PTL
<1>. QED  BY <1>5, <1>6

-----------------------------------------------------------------------------
(* The guides.                                                             *)

\* Two guides that differ in their advice at most.
SameGuide(g, h) == g.id = h.id /\ g.files = h.files /\ g.commands = h.commands

LEMMA Advised ==
    ASSUME NEW id, NEW files, NEW commands, NEW prompt, NEW advice
    PROVE  SameGuide([Guide(id, files, commands, prompt) EXCEPT !.advice = advice],
                     Guide(id, files, commands, prompt))
BY DEF SameGuide, Guide

ClientNames == <<"claude-code", "openai", "cursor", "curl", "pi", "opencode", "codex", "crush">>

\* The order of the clients is that of ClientNames, whatever the model.
LEMMA GuideOfEach ==
    ASSUME NEW r
    PROVE  /\ DOMAIN guidesFor(r) = 1..8
           /\ SameGuide(guidesFor(r)[1], claudeCode(r))
           /\ SameGuide(guidesFor(r)[2], openaiCompatible(r))
           /\ SameGuide(guidesFor(r)[3], cursor(r))
           /\ SameGuide(guidesFor(r)[4], curlGuide(r))
           /\ SameGuide(guidesFor(r)[5], pi(r))
           /\ SameGuide(guidesFor(r)[6], opencode(r))
           /\ SameGuide(guidesFor(r)[7], codex(r))
           /\ SameGuide(guidesFor(r)[8], crush(r))
<1>. DEFINE all == <<claudeCode(r), openaiCompatible(r), cursor(r), curlGuide(r),
                     pi(r), opencode(r), codex(r), crush(r)>>
            advice == r.Kind = "reasoning"
<1>1. DOMAIN all = 1..8
  OBVIOUS
<1>2. /\ all[1] = claudeCode(r) /\ all[2] = openaiCompatible(r) /\ all[3] = cursor(r)
      /\ all[4] = curlGuide(r) /\ all[5] = pi(r) /\ all[6] = opencode(r)
      /\ all[7] = codex(r) /\ all[8] = crush(r)
  OBVIOUS
<1>3. guidesFor(r) = [n \in DOMAIN all |-> [all[n] EXCEPT !.advice = advice]]
  BY DEF guidesFor
<1>4. /\ SameGuide([claudeCode(r) EXCEPT !.advice = advice], claudeCode(r))
      /\ SameGuide([openaiCompatible(r) EXCEPT !.advice = advice], openaiCompatible(r))
      /\ SameGuide([cursor(r) EXCEPT !.advice = advice], cursor(r))
      /\ SameGuide([curlGuide(r) EXCEPT !.advice = advice], curlGuide(r))
  BY Advised DEF claudeCode, openaiCompatible, cursor, curlGuide
<1>5. /\ SameGuide([pi(r) EXCEPT !.advice = advice], pi(r))
      /\ SameGuide([opencode(r) EXCEPT !.advice = advice], opencode(r))
      /\ SameGuide([codex(r) EXCEPT !.advice = advice], codex(r))
      /\ SameGuide([crush(r) EXCEPT !.advice = advice], crush(r))
  BY Advised DEF pi, opencode, codex, crush, FileGuide
<1>6. \A n \in 1..8 : guidesFor(r)[n] = [all[n] EXCEPT !.advice = advice]
  BY <1>1, <1>3, Zenon
<1>. HIDE DEF all, advice
<1>7. /\ 1 \in 1..8 /\ 2 \in 1..8 /\ 3 \in 1..8 /\ 4 \in 1..8
      /\ 5 \in 1..8 /\ 6 \in 1..8 /\ 7 \in 1..8 /\ 8 \in 1..8
  OBVIOUS
<1>8. DOMAIN guidesFor(r) = 1..8
  BY <1>1, <1>3
<1>. QED  BY <1>2, <1>4, <1>5, <1>6, <1>7, <1>8, Zenon

\* No two clients have one name.
LEMMA NamesDiffer == \A c, d \in 1..8 : ClientNames[c] = ClientNames[d] => c = d
<1>1. /\ ClientNames[1] = "claude-code" /\ ClientNames[2] = "openai"
      /\ ClientNames[3] = "cursor" /\ ClientNames[4] = "curl" /\ ClientNames[5] = "pi"
      /\ ClientNames[6] = "opencode" /\ ClientNames[7] = "codex" /\ ClientNames[8] = "crush"
  BY DEF ClientNames
<1>. QED  BY <1>1

LEMMA GuidesNamed ==
    ASSUME NEW r
    PROVE  \A c \in 1..8 : guidesFor(r)[c].id = ClientNames[c]
<1>1. /\ claudeCode(r).id = "claude-code" /\ openaiCompatible(r).id = "openai"
      /\ cursor(r).id = "cursor" /\ curlGuide(r).id = "curl" /\ pi(r).id = "pi"
      /\ opencode(r).id = "opencode" /\ codex(r).id = "codex" /\ crush(r).id = "crush"
  BY DEF claudeCode, openaiCompatible, cursor, curlGuide, pi, opencode, codex, crush,
         FileGuide, Guide
<1>2. /\ guidesFor(r)[1].id = "claude-code" /\ guidesFor(r)[2].id = "openai"
      /\ guidesFor(r)[3].id = "cursor" /\ guidesFor(r)[4].id = "curl"
      /\ guidesFor(r)[5].id = "pi" /\ guidesFor(r)[6].id = "opencode"
      /\ guidesFor(r)[7].id = "codex" /\ guidesFor(r)[8].id = "crush"
  BY <1>1, GuideOfEach, Zenon DEF SameGuide
<1>. QED  BY <1>2 DEF ClientNames

\* What a guide needs to be complete: the blocks a shell leaves name the
\* credential once, and no address but this one.
Complete(g, address) ==
    \A shell \in Shells :
      /\ \E b : {x \in Visible(g, shell) : x.key # None} = {b}
      /\ {x.url : x \in Visible(g, shell)} \ {None} = {address}

\* What a block says of the credential and the address.
Says(b, shell, key, url) == b.shell = shell /\ b.key = key /\ b.url = url

LEMMA BlockSays ==
    ASSUME NEW key, NEW url, NEW model
    PROVE  /\ Says(Block("", key, url, model), "", key, url)
           /\ Says(shBlock(key, url, model), "sh", key, url)
           /\ Says(psBlock(key, url, model), "powershell", key, url)
BY DEF Says, shBlock, psBlock, Block

\* The three shapes of a guide: a command for each shell, the values of a form,
\* and a file with a command for each shell.
IsPair(g, key, url) ==
    \E sh, ps : /\ g.files = <<>> /\ g.commands = <<sh, ps>>
                /\ Says(sh, "sh", key, url) /\ Says(ps, "powershell", key, url)
IsForm(g, key, url) ==
    \E form : g.files = <<form>> /\ g.commands = <<>> /\ Says(form, "", key, url)
IsFile(g, key, url) ==
    \E file, sh, ps :
      /\ g.files = <<file>> /\ g.commands = <<sh, ps>> /\ Says(file, "", None, url)
      /\ Says(sh, "sh", key, None) /\ Says(ps, "powershell", key, None)

\* The items of short sequences.
LEMMA NoItem ==
    ASSUME NEW s, s = <<>>
    PROVE  {s[n] : n \in DOMAIN s} = {}
OBVIOUS

LEMMA OneItem ==
    ASSUME NEW s, NEW a, s = <<a>>
    PROVE  {s[n] : n \in DOMAIN s} = {a}
<1>1. DOMAIN s = {1} /\ s[1] = a
  OBVIOUS
<1>. QED  BY <1>1

LEMMA TwoItems ==
    ASSUME NEW s, NEW a, NEW b, s = <<a, b>>
    PROVE  {s[n] : n \in DOMAIN s} = {a, b}
<1>1. DOMAIN s = {1, 2} /\ s[1] = a /\ s[2] = b
  OBVIOUS
<1>. QED  BY <1>1

\* A guide that is as it should be, for a credential and an address.
Fine(g, key, url) == Complete(g, url) /\ \A b \in Blocks(g) : b.key \in {None, key}

LEMMA PairFine ==
    ASSUME NEW g, NEW key, key # None, NEW url, url # None, IsPair(g, key, url)
    PROVE  Fine(g, key, url)
<1>1. PICK sh, ps : /\ g.files = <<>> /\ g.commands = <<sh, ps>>
                    /\ Says(sh, "sh", key, url) /\ Says(ps, "powershell", key, url)
  BY DEF IsPair
<1>2. Blocks(g) = {sh, ps}
  <2>1. {g.files[n] : n \in DOMAIN g.files} = {}
    BY <1>1, NoItem
  <2>2. {g.commands[n] : n \in DOMAIN g.commands} = {sh, ps}
    <3>1. g.commands = <<sh, ps>>
      BY <1>1
    <3>. QED  BY <3>1, TwoItems
  <2>. QED  BY <2>1, <2>2 DEF Blocks
<1>3. Visible(g, "sh") = {sh} /\ Visible(g, "powershell") = {ps}
  BY <1>1, <1>2 DEF Visible, Says
<1>4. ASSUME NEW b, b.key = key, b.url = url
      PROVE  {x \in {b} : x.key # None} = {b} /\ {x.url : x \in {b}} \ {None} = {url}
  BY <1>4
<1>5. /\ \E b : {x \in {sh} : x.key # None} = {b}
      /\ \E b : {x \in {ps} : x.key # None} = {b}
      /\ {x.url : x \in {sh}} \ {None} = {url} /\ {x.url : x \in {ps}} \ {None} = {url}
  BY <1>1, <1>4 DEF Says
<1>6. Complete(g, url)
  BY <1>3, <1>5 DEF Complete, Shells
<1>. QED  BY <1>1, <1>2, <1>6 DEF Fine, Says

LEMMA FormFine ==
    ASSUME NEW g, NEW key, key # None, NEW url, url # None, IsForm(g, key, url)
    PROVE  Fine(g, key, url)
<1>1. PICK form : g.files = <<form>> /\ g.commands = <<>> /\ Says(form, "", key, url)
  BY DEF IsForm
<1>2. Blocks(g) = {form}
  <2>1. {g.files[n] : n \in DOMAIN g.files} = {form}
    BY <1>1, OneItem
  <2>2. {g.commands[n] : n \in DOMAIN g.commands} = {}
    BY <1>1, NoItem
  <2>. QED  BY <2>1, <2>2 DEF Blocks
<1>3. \A shell \in Shells : Visible(g, shell) = {form}
  BY <1>1, <1>2 DEF Visible, Says
<1>4. {x \in {form} : x.key # None} = {form} /\ {x.url : x \in {form}} \ {None} = {url}
  BY <1>1 DEF Says
<1>5. Complete(g, url)
  BY <1>3, <1>4 DEF Complete
<1>. QED  BY <1>1, <1>2, <1>5 DEF Fine, Says

LEMMA FileFine ==
    ASSUME NEW g, NEW key, key # None, NEW url, url # None, IsFile(g, key, url)
    PROVE  Fine(g, key, url)
<1>1. PICK file, sh, ps :
        /\ g.files = <<file>> /\ g.commands = <<sh, ps>> /\ Says(file, "", None, url)
        /\ Says(sh, "sh", key, None) /\ Says(ps, "powershell", key, None)
  BY DEF IsFile
<1>2. Blocks(g) = {file, sh, ps}
  <2>1. {g.files[n] : n \in DOMAIN g.files} = {file}
    BY <1>1, OneItem
  <2>2. {g.commands[n] : n \in DOMAIN g.commands} = {sh, ps}
    <3>1. g.commands = <<sh, ps>>
      BY <1>1
    <3>. QED  BY <3>1, TwoItems
  <2>. QED  BY <2>1, <2>2 DEF Blocks
<1>3. Visible(g, "sh") = {file, sh} /\ Visible(g, "powershell") = {file, ps}
  BY <1>1, <1>2 DEF Visible, Says
<1>4. ASSUME NEW b, b.key = key, b.url = None
      PROVE  /\ {x \in {file, b} : x.key # None} = {b}
             /\ {x.url : x \in {file, b}} \ {None} = {url}
  BY <1>1, <1>4 DEF Says
<1>5. /\ \E b : {x \in {file, sh} : x.key # None} = {b}
      /\ \E b : {x \in {file, ps} : x.key # None} = {b}
      /\ {x.url : x \in {file, sh}} \ {None} = {url}
      /\ {x.url : x \in {file, ps}} \ {None} = {url}
  BY <1>1, <1>4 DEF Says
<1>6. Complete(g, url)
  BY <1>3, <1>5 DEF Complete, Shells
<1>. QED  BY <1>1, <1>2, <1>6 DEF Fine, Says

\* The shape of each client's guide.
LEMMA Shapes ==
    ASSUME NEW r
    PROVE  /\ IsPair(guidesFor(r)[1], r.Key, r.AnthropicBase)
           /\ IsPair(guidesFor(r)[2], r.Key, r.APIBase)
           /\ IsForm(guidesFor(r)[3], r.Key, r.APIBase)
           /\ IsPair(guidesFor(r)[4], r.Key, r.APIBase)
           /\ \A c \in 5..8 : IsFile(guidesFor(r)[c], r.Key, r.APIBase)
<1>1. ASSUME NEW id, NEW sh, NEW ps, NEW prompt, NEW g, NEW url,
             SameGuide(g, Guide(id, <<>>, <<sh, ps>>, prompt)),
             Says(sh, "sh", r.Key, url), Says(ps, "powershell", r.Key, url)
      PROVE  IsPair(g, r.Key, url)
  BY <1>1 DEF IsPair, SameGuide, Guide
<1>2. IsPair(guidesFor(r)[1], r.Key, r.AnthropicBase)
  BY <1>1, GuideOfEach, BlockSays DEF claudeCode
<1>3. IsPair(guidesFor(r)[2], r.Key, r.APIBase)
  BY <1>1, GuideOfEach, BlockSays DEF openaiCompatible
<1>4. IsPair(guidesFor(r)[4], r.Key, r.APIBase)
  BY <1>1, GuideOfEach, BlockSays DEF curlGuide
<1>5. IsForm(guidesFor(r)[3], r.Key, r.APIBase)
  <2>1. cursor(r).files = <<Block("", r.Key, r.APIBase, r.Model)>> /\ cursor(r).commands = <<>>
    BY DEF cursor, Guide
  <2>2. /\ guidesFor(r)[3].files = <<Block("", r.Key, r.APIBase, r.Model)>>
        /\ guidesFor(r)[3].commands = <<>>
    BY <2>1, GuideOfEach DEF SameGuide
  <2>. QED  BY <2>2, BlockSays, Zenon DEF IsForm
<1>6. ASSUME NEW id, NEW g, SameGuide(g, FileGuide(id, r))
      PROVE  IsFile(g, r.Key, r.APIBase)
  <2>1. /\ FileGuide(id, r).files = <<Block("", None, r.APIBase, r.Model)>>
        /\ FileGuide(id, r).commands = <<shBlock(r.Key, None, None), psBlock(r.Key, None, None)>>
    BY DEF FileGuide, Guide, launchBlocks
  <2>2. /\ g.files = <<Block("", None, r.APIBase, r.Model)>>
        /\ g.commands = <<shBlock(r.Key, None, None), psBlock(r.Key, None, None)>>
    BY <1>6, <2>1 DEF SameGuide
  <2>. QED  BY <2>2, BlockSays, Zenon DEF IsFile
<1>7. \A c \in 5..8 : c = 5 \/ c = 6 \/ c = 7 \/ c = 8
  OBVIOUS
<1>8. \A c \in 5..8 : IsFile(guidesFor(r)[c], r.Key, r.APIBase)
  BY <1>6, <1>7, GuideOfEach, Zenon DEF pi, opencode, codex, crush
<1>. QED  BY <1>2, <1>3, <1>4, <1>5, <1>8

\* Every guide of a model is complete: under the address of the model, but for
\* Claude Code (snippets.go, clients.go).
LEMMA GuidesFine ==
    ASSUME NEW r, r.Key # None, r.APIBase # None, r.AnthropicBase # None
    PROVE  /\ Fine(guidesFor(r)[1], r.Key, r.AnthropicBase)
           /\ \A c \in 2..8 : Fine(guidesFor(r)[c], r.Key, r.APIBase)
BY Shapes, PairFine, FormFine, FileFine

-----------------------------------------------------------------------------
(* The models a page is made of.                                           *)

\* The name of a model is not empty.
LEMMA LabelNotEmpty ==
    ASSUME NEW m \in ConfiguredModel
    PROVE  resolveLabel(m) \in Nat \ {0}
BY DEF ConfiguredModel, resolveLabel, ModelName

\* There is a model, if only the default one.
LEMMA ModelsOf ==
    ASSUME NEW key, NEW p \in Parameters(key)
    PROVE  models(p) \in Seq(ConfiguredModel) /\ models(p) # <<>>
<1>1. p.model \in Nat /\ p.models \in Seq(ConfiguredModel)
  BY DEF Parameters
<1>2. "" \in Kinds /\ "" \in Paths
  BY DEF Kinds, Paths
<1>3. [id |-> p.model, label |-> 0, kind |-> "", path |-> ""] \in ConfiguredModel
  BY <1>1, <1>2 DEF ConfiguredModel
<1>4. CASE p.models # <<>>
  BY <1>1, <1>4 DEF models
<1>5. CASE p.models = <<>>
  <2>1. models(p) = <<[id |-> p.model, label |-> 0, kind |-> "", path |-> ""]>>
    BY <1>5 DEF models
  <2>2. \A m \in ConfiguredModel : <<m>> \in Seq(ConfiguredModel) /\ <<m>> # <<>>
    OBVIOUS
  <2>. QED  BY <1>3, <2>1, <2>2, Zenon
<1>. QED  BY <1>4, <1>5

\* What a model's guides say of credential and address is said.
LEMMA Resolved ==
    ASSUME NEW key \in {None, Secret}, NEW p \in Parameters(key), NEW m \in ConfiguredModel
    PROVE  LET r == resolve(p, m)
           IN  /\ r.Key = IF key = None THEN PlaceholderKey ELSE key
               /\ r.APIBase = <<m.path, "/v1">> /\ r.AnthropicBase = <<"", "/anthropic">>
               /\ r.Key # None /\ r.APIBase # None /\ r.AnthropicBase # None
<1>1. p.key = key /\ m.path \in Paths /\ "" \in Paths
  BY DEF Parameters, ConfiguredModel, Paths
<1>2. /\ None # PlaceholderKey /\ None # Secret /\ None # <<m.path, "/v1">>
      /\ None # <<"", "/anthropic">>
  <2>1. \A s \in {"/v1", "/anthropic"}, x \in Paths : None # <<x, s>>
    BY NoneAssumption
  <2>. QED  BY <1>1, <2>1, NoneAssumption
<1>3. LET r == resolve(p, m)
      IN  /\ r.Key = IF p.key = None THEN PlaceholderKey ELSE p.key
          /\ r.APIBase = <<m.path, "/v1">> /\ r.AnthropicBase = <<"", "/anthropic">>
  BY DEF resolve
<1>. QED  BY <1>1, <1>2, <1>3

\* The matrix of the picker has a row for each model; the catalog has the same.
LEMMA SetupsOf ==
    ASSUME NEW p, NEW n \in DOMAIN models(p)
    PROVE  LET m == models(p)[n]
               r == resolve(p, m)
           IN  /\ Setups(p)[n].ModelID = r.Model /\ Setups(p)[n].Label = resolveLabel(m)
               /\ Setups(p)[n].Guides = guidesFor(r)
               /\ Catalog(p)[n].ID = r.Model /\ Catalog(p)[n].Label = resolveLabel(m)
BY DEF Setups, Catalog, resolve

LEMMA SetupsDomain ==
    ASSUME NEW p
    PROVE  DOMAIN Setups(p) = DOMAIN models(p) /\ DOMAIN Catalog(p) = DOMAIN models(p)
BY DEF Setups, Catalog

\* Every row has a guide for each client.
LEMMA GuidesOf ==
    ASSUME NEW p, NEW n \in DOMAIN Setups(p)
    PROVE  /\ DOMAIN Setups(p)[n].Guides = 1..8
           /\ \A c \in 1..8 : Setups(p)[n].Guides[c].id = ClientNames[c]
<1>1. PICK r : Setups(p)[n].Guides = guidesFor(r)
  BY SetupsOf, SetupsDomain
<1>. QED  BY <1>1, GuideOfEach, GuidesNamed

LEMMA FirstSetup ==
    ASSUME NEW key, NEW p \in Parameters(key)
    PROVE  1 \in DOMAIN Setups(p)
<1>1. models(p) \in Seq(ConfiguredModel) /\ models(p) # <<>>
  BY ModelsOf
<1>2. 1 \in DOMAIN models(p)
  BY <1>1
<1>. QED  BY <1>2, SetupsDomain

-----------------------------------------------------------------------------
(* What is inductive about the page a browser shows.                       *)

\* What may be picked on a page of these models.
Choice(params) ==
    [model : Offered(Setups(params), "model"), client : Offered(Setups(params), "client"),
     shell : Shells]

GuidePage(kind, params) ==
    [kind : {kind}, params : {params}, wanted : Nat, selected : Nat, current : Choice(params)]

\* A page has the models it was made with, and a choice among them; only the page
\* of a new key has a credential.
PageInv ==
    /\ page.kind \in {"none", "account", "created", "models"}
    /\ HasGuides =>
         /\ page.params \in Parameters(IF page.kind = "created" THEN Secret ELSE None)
         /\ page \in GuidePage(page.kind, page.params)
    /\ page.kind = "models" =>
         /\ page.params \in Parameters(None)
         /\ page.models = toModelViews(list, modelLabels(page.params))

\* The account page shows a list that is in order, and was when it was made.
AccountInv ==
    page.kind = "account" =>
      by = "created" /\ ~Sorting /\ page.selected = selectedKey(page.wanted)

IInv == ListInv /\ offered \in Offers /\ PageInv /\ AccountInv

\* What is remembered is taken only if it is offered.
LEMMA CurrentOffered ==
    ASSUME NEW key, NEW p \in Parameters(key), NEW shell \in Shells
    PROVE  Current(Setups(p), shell) \in Choice(p)
<1>1. Setups(p)[1].ID \in Offered(Setups(p), "model")
  BY FirstSetup DEF Offered
<1>2. "claude-code" \in Offered(Setups(p), "client")
  <2>1. /\ 1 \in DOMAIN Setups(p)[1].Guides
        /\ Setups(p)[1].Guides[1].id = "claude-code"
    BY FirstSetup, GuidesOf DEF ClientNames
  <2>. QED  BY <2>1 DEF Offered
<1>3. shell \in Offered(Setups(p), "shell") /\ Offered(Setups(p), "shell") = Shells
  BY DEF Offered
<1>4. ASSUME NEW axis, NEW default \in Offered(Setups(p), axis)
      PROVE  Restored(Setups(p), axis, default) \in Offered(Setups(p), axis)
  BY <1>4 DEF Restored
<1>. QED  BY <1>1, <1>2, <1>3, <1>4 DEF Current, Choice

LEMMA SelectedNat ==
    ASSUME ListInv, NEW want \in Wanted
    PROVE  selectedKey(want) \in Nat
<1>1. list \in Seq(Item)
  BY DEF ListInv, TypeOK
<1>2. list # <<>> => list[1] \in Item
  BY <1>1
<1>. QED  BY <1>2 DEF selectedKey, Wanted, Item

LEMMA WithGuidesPage ==
    ASSUME NEW kind, NEW key, NEW p \in Parameters(key), NEW shell \in Shells,
           NEW want \in Nat, NEW selected \in Nat
    PROVE  WithGuides(kind, p, shell, want, selected) \in GuidePage(kind, p)
BY CurrentOffered DEF WithGuides, GuidePage

LEMMA PickedPage ==
    ASSUME NEW kind, NEW p, NEW x \in GuidePage(kind, p),
           NEW axis \in {"model", "client", "shell"}, NEW value \in Offered(Setups(p), axis)
    PROVE  [x EXCEPT !.current[axis] = value] \in GuidePage(kind, p)
<1>1. x.current \in Choice(p)
  BY DEF GuidePage
<1>2. [x.current EXCEPT ![axis] = value] \in Choice(p)
  <2>1. Offered(Setups(p), "shell") = Shells
    BY DEF Offered
  <2>. QED  BY <1>1, <2>1 DEF Choice
<1>3. [x EXCEPT !.current[axis] = value] = [x EXCEPT !.current = [x.current EXCEPT ![axis] = value]]
  BY DEF GuidePage
<1>. QED  BY <1>2, <1>3 DEF GuidePage

-----------------------------------------------------------------------------
LEMMA PagesInitIInv == PagesInit => IInv
<1> SUFFICES ASSUME PagesInit PROVE IInv
  OBVIOUS
<1>1. ListInv /\ offered \in Offers
  BY InitListInv DEF PagesInit
<1>2. page.kind = "none"
  BY DEF PagesInit, Blank
<1>. QED  BY <1>1, <1>2 DEF IInv, PageInv, AccountInv, HasGuides

\* The page and the list it was made of stay.
LEMMA PageKept ==
    ASSUME PageInv, AccountInv, UNCHANGED <<page, list, by, i>>
    PROVE  PageInv' /\ AccountInv'
BY DEF PageInv, AccountInv, HasGuides, Choice, GuidePage, toModelViews, display, selectedKey,
       Sorting

LEMMA ListKept ==
    ASSUME ListInv, UNCHANGED vars
    PROVE  ListInv'
BY ListStep

\* While the list is put in order, there is no page.
LEMMA StepSort ==
    ASSUME IInv, Sort
    PROVE  IInv'
<1>1. ListInv' /\ offered' \in Offers
  BY ListStep DEF IInv, Sort, pageVars
<1>2. page'.kind = "none"
  BY DEF Sort, pageVars, Blank
<1>. QED  BY <1>1, <1>2 DEF IInv, PageInv, AccountInv, HasGuides

LEMMA StepShowAccount ==
    ASSUME IInv, NEW want \in Wanted, NEW shell \in Shells, ShowAccount(want, shell)
    PROVE  IInv'
<1>1. ListInv' /\ offered' \in Offers
  BY ListKept DEF IInv, ShowAccount
<1>2. offered \in Parameters(None)
  BY OffersAssumption DEF IInv
<1>3. page' \in GuidePage("account", offered)
  BY <1>2, SelectedNat, WithGuidesPage DEF IInv, ShowAccount, Wanted
<1>4. page'.kind = "account" /\ page'.params = offered
  BY <1>3 DEF GuidePage
<1>5. PageInv'
  BY <1>2, <1>3, <1>4 DEF PageInv, HasGuides
<1>6. page'.wanted = want /\ page'.selected = selectedKey(want)
  BY DEF ShowAccount, WithGuides
<1>7. AccountInv'
  BY <1>6 DEF AccountInv, ShowAccount, Sorting, selectedKey, vars
<1>. QED  BY <1>1, <1>5, <1>7 DEF IInv

LEMMA StepShowModels ==
    ASSUME IInv, ShowModels
    PROVE  IInv'
<1>1. ListInv' /\ offered' \in Offers
  BY ListKept DEF IInv, ShowModels
<1>2. offered \in Parameters(None)
  BY OffersAssumption DEF IInv
<1>3. /\ page'.kind = "models" /\ page'.params = offered
      /\ page'.models = toModelViews(list, modelLabels(offered)) /\ list' = list
  BY DEF ShowModels, vars
<1>4. PageInv'
  BY <1>2, <1>3 DEF PageInv, HasGuides
<1>. QED  BY <1>1, <1>3, <1>4 DEF IInv, AccountInv

LEMMA StepCreateKey ==
    ASSUME IInv, NEW shell \in Shells, CreateKey(shell)
    PROVE  IInv'
<1>1. ListInv' /\ offered' \in Offers
  BY ListKept DEF IInv, CreateKey
<1>2. [offered EXCEPT !.key = Secret] \in Parameters(Secret)
  BY OffersAssumption DEF IInv, Parameters
<1>3. PICK p \in Parameters(Secret) : page' = WithGuides("created", p, shell, 0, 0)
  BY <1>2 DEF CreateKey
<1>4. page' \in GuidePage("created", p)
  BY <1>3, WithGuidesPage
<1>5. page'.kind = "created" /\ page'.params = p
  BY <1>4 DEF GuidePage
<1>6. PageInv'
  BY <1>4, <1>5 DEF PageInv, HasGuides
<1>. QED  BY <1>1, <1>5, <1>6 DEF IInv, AccountInv

LEMMA StepPick ==
    ASSUME IInv, NEW axis \in {"model", "client", "shell"}, NEW value, Pick(axis, value)
    PROVE  IInv'
<1>1. ListInv' /\ offered' \in Offers
  BY ListKept DEF IInv, Pick
<1>2. PICK kind, p : kind = page.kind /\ p = page.params
  OBVIOUS
<1>3. page \in GuidePage(kind, p) /\ kind \in {"account", "created"}
  BY <1>2 DEF IInv, PageInv, HasGuides, Pick
<1>4. page' \in GuidePage(kind, p)
  BY <1>2, <1>3, PickedPage DEF Pick
<1>5. page'.kind = kind /\ page'.params = p
  BY <1>4 DEF GuidePage
<1>6. PageInv'
  BY <1>2, <1>3, <1>4, <1>5 DEF IInv, PageInv, HasGuides
<1>7. page'.wanted = page.wanted /\ page'.selected = page.selected
  BY <1>3 DEF Pick, GuidePage
<1>8. AccountInv'
  BY <1>2, <1>5, <1>7 DEF IInv, AccountInv, Pick, Sorting, selectedKey, vars
<1>. QED  BY <1>1, <1>6, <1>8 DEF IInv

LEMMA StepReload ==
    ASSUME IInv, Reload
    PROVE  IInv'
<1>1. ListInv' /\ offered' \in Offers
  BY ListAgain DEF IInv, Reload
<1>2. page'.kind = "none"
  BY DEF Reload, Blank
<1>. QED  BY <1>1, <1>2 DEF IInv, PageInv, AccountInv, HasGuides

LEMMA StepRedeploy ==
    ASSUME IInv, Redeploy
    PROVE  IInv'
<1>1. ListInv' /\ offered' \in Offers
  BY ListKept DEF IInv, Redeploy
<1>2. PageInv' /\ AccountInv'
  BY PageKept DEF IInv, Redeploy, vars
<1>. QED  BY <1>1, <1>2 DEF IInv

\* What holds of every page, in every reachable state.
THEOREM PagesInductive == PagesSpec => []IInv
<1>1. IInv /\ [PagesNext]_pagesVars => IInv'
  <2> SUFFICES ASSUME IInv, [PagesNext]_pagesVars PROVE IInv'
    OBVIOUS
  <2>1. CASE Sort
    BY <2>1, StepSort
  <2>2. CASE ShowModels
    BY <2>2, StepShowModels
  <2>3. CASE Reload
    BY <2>3, StepReload
  <2>4. CASE Redeploy
    BY <2>4, StepRedeploy
  <2>5. ASSUME NEW shell \in Shells, NEW want \in Wanted, ShowAccount(want, shell)
        PROVE  IInv'
    BY <2>5, StepShowAccount
  <2>6. ASSUME NEW shell \in Shells, CreateKey(shell) PROVE IInv'
    BY <2>6, StepCreateKey
  <2>7. ASSUME NEW axis \in {"model", "client", "shell"}, NEW value \in Picks, Pick(axis, value)
        PROVE  IInv'
    BY <2>7, StepPick
  <2>8. CASE UNCHANGED pagesVars
    <3>1. ListInv' /\ offered' \in Offers
      BY <2>8, ListKept DEF IInv, pagesVars, pageVars
    <3>2. PageInv' /\ AccountInv'
      BY <2>8, PageKept DEF IInv, pagesVars, pageVars, vars
    <3>. QED  BY <3>1, <3>2 DEF IInv
  <2>. QED  BY <2>1, <2>2, <2>3, <2>4, <2>5, <2>6, <2>7, <2>8 DEF PagesNext
<1>. QED  BY <1>1, PagesInitIInv, PTL DEF PagesSpec

-----------------------------------------------------------------------------
\* The lists of the pages, too, are in order, whole and decided, however often they
\* are read again.
THEOREM ListsOnPages == PagesSpec => [](SortedWhenDone /\ SameItems /\ OrderDecided)
<1>1. IInv => SortedWhenDone /\ SameItems /\ OrderDecided
  BY ListSorted, ListDecided DEF IInv, ListInv
<1>. QED  BY <1>1, PagesInductive, PTL

\* One guide of a page: of the model of its row, with what a page of this kind says.
LEMMA GuideOnPage ==
    ASSUME PageInv, HasGuides, NEW panel \in Panels(Setups(page.params))
    PROVE  LET m == models(page.params)[panel[1]]
               g == GuideOf(Setups(page.params), panel)
               key == IF page.kind = "created" THEN Secret ELSE PlaceholderKey
               url == IF g.id = "claude-code" THEN <<"", "/anthropic">> ELSE <<m.path, "/v1">>
           IN  Fine(g, key, url)
<1>1. PICK p, k : p = page.params /\ k = IF page.kind = "created" THEN Secret ELSE None
  OBVIOUS
<1>2. k \in {None, Secret} /\ p \in Parameters(k)
  BY <1>1 DEF PageInv
<1>3. panel[1] \in DOMAIN Setups(p) /\ panel[2] \in DOMAIN Setups(p)[1].Guides
  BY <1>1 DEF Panels
<1>4. PICK n, c : n = panel[1] /\ c = panel[2]
  OBVIOUS
<1>5. n \in DOMAIN models(p) /\ c \in 1..8
  BY <1>2, <1>3, <1>4, FirstSetup, GuidesOf, SetupsDomain
<1>6. models(p)[n] \in ConfiguredModel
  BY <1>2, <1>5, ModelsOf
<1>7. PICK m, r : m = models(p)[n] /\ r = resolve(p, m)
  OBVIOUS
<1>8. /\ r.Key = (IF k = None THEN PlaceholderKey ELSE k) /\ r.Key # None
      /\ r.APIBase = <<m.path, "/v1">> /\ r.APIBase # None
      /\ r.AnthropicBase = <<"", "/anthropic">> /\ r.AnthropicBase # None
  BY <1>2, <1>6, <1>7, Resolved
<1>9. r.Key = IF page.kind = "created" THEN Secret ELSE PlaceholderKey
  BY <1>1, <1>8, NoneAssumption
<1>10. PICK g : g = guidesFor(r)[c]
  OBVIOUS
<1>11. GuideOf(Setups(p), panel) = g
  BY <1>4, <1>5, <1>7, <1>10, SetupsOf DEF GuideOf
<1>12. (g.id = "claude-code") <=> c = 1
  BY <1>5, <1>10, GuidesNamed DEF ClientNames
<1>13. c = 1 => Fine(g, r.Key, r.AnthropicBase)
  BY <1>8, <1>10, GuidesFine
<1>14. c # 1 => Fine(g, r.Key, r.APIBase)
  <2>1. c # 1 => c \in 2..8
    BY <1>5
  <2>. QED  BY <1>8, <1>10, <2>1, GuidesFine
<1>. QED  BY <1>1, <1>4, <1>7, <1>8, <1>9, <1>11, <1>12, <1>13, <1>14

\* Whichever model, client and shell are picked, the guide that is visible can be
\* followed: one credential, one address (snippets.go, clients.go).
THEOREM GuidesAreComplete == PagesSpec => []ShownIsComplete
<1>1. IInv => ShownIsComplete
  <2> SUFFICES ASSUME IInv, HasGuides,
                      NEW panel \in Panels(Setups(page.params)), NEW shell \in Shells
               PROVE  LET guide == GuideOf(Setups(page.params), panel)
                          model == models(page.params)[panel[1]]
                          visible == Visible(guide, shell)
                          address == IF guide.id = "claude-code" THEN <<"", "/anthropic">>
                                     ELSE <<model.path, "/v1">>
                      IN  /\ Cardinality({b \in visible : b.key # None}) = 1
                          /\ {b.url : b \in visible} \ {None} = {address}
    BY DEF ShownIsComplete
  <2>. DEFINE guide == GuideOf(Setups(page.params), panel)
              model == models(page.params)[panel[1]]
              address == IF guide.id = "claude-code" THEN <<"", "/anthropic">>
                         ELSE <<model.path, "/v1">>
  <2>1. Complete(guide, address)
    BY GuideOnPage DEF IInv, Fine
  <2>. HIDE DEF guide, address
  <2>2. PICK b : {x \in Visible(guide, shell) : x.key # None} = {b}
    BY <2>1 DEF Complete
  <2>3. Cardinality({x \in Visible(guide, shell) : x.key # None}) = 1
    BY <2>2, FS_Singleton
  <2>4. {x.url : x \in Visible(guide, shell)} \ {None} = {address}
    BY <2>1 DEF Complete
  <2>. QED  BY <2>3, <2>4 DEF guide, address
<1>. QED  BY <1>1, PagesInductive, PTL

\* The credential of a new key is on the page of its creation and on no page after
\* it (viewmodels.go, handlers.go), though the pages are made of one App.
THEOREM ShownOnlyOnce == PagesSpec => []KeyShownOnce
<1>1. IInv => KeyShownOnce
  <2> SUFFICES ASSUME IInv, HasGuides, NEW panel \in Panels(Setups(page.params)),
                      NEW b \in Blocks(GuideOf(Setups(page.params), panel))
               PROVE  b.key \in {None, IF page.kind = "created" THEN Secret ELSE PlaceholderKey}
    BY DEF KeyShownOnce
  <2>. QED  BY GuideOnPage DEF IInv, Fine
<1>. QED  BY <1>1, PagesInductive, PTL

\* The picker shows one panel, whatever the browser remembers of a deployment with
\* other models, for any models with different tokens (app.js).
THEOREM OneIsShown == PagesSpec => []OneGuideShown
<1>1. IInv => OneGuideShown
  <2> SUFFICES ASSUME IInv, HasGuides, ~Collision PROVE Cardinality(Active) = 1
    BY DEF OneGuideShown
  <2>1. PICK S : S = Setups(page.params)
    OBVIOUS
  <2>2. PICK k : page.params \in Parameters(k)
    BY DEF IInv, PageInv
  <2>3. 1 \in DOMAIN S
    BY <2>1, <2>2, FirstSetup
  <2>4. \A n \in DOMAIN S : DOMAIN S[n].Guides = 1..8 /\ \A c \in 1..8 : S[n].Guides[c].id = ClientNames[c]
    BY <2>1, GuidesOf
  <2>5. page.current \in Choice(page.params)
    BY DEF IInv, PageInv, GuidePage
  <2>6. /\ page.current.model \in {S[n].ID : n \in DOMAIN S}
        /\ page.current.client \in {S[1].Guides[c].id : c \in DOMAIN S[1].Guides}
    BY <2>1, <2>5 DEF Choice, Offered
  <2>7. PICK n \in DOMAIN S : S[n].ID = page.current.model
    BY <2>6
  <2>8. PICK c \in 1..8 : ClientNames[c] = page.current.client
    BY <2>3, <2>4, <2>6
  <2>9. \A panel \in Panels(S) :
          ModelOf(S, panel) = page.current.model /\ GuideOf(S, panel).id = page.current.client
          <=> panel = <<n, c>>
    <3>1. Panels(S) = (DOMAIN S) \X (1..8)
      BY <2>3, <2>4 DEF Panels
    <3>2. \A m \in DOMAIN S : S[m].ID = page.current.model <=> m = n
      BY <2>1, <2>7 DEF Collision
    <3>3. \A m \in DOMAIN S, d \in 1..8 : S[m].Guides[d].id = page.current.client <=> d = c
      BY <2>4, <2>8, NamesDiffer
    <3>. QED  BY <3>1, <3>2, <3>3 DEF ModelOf, GuideOf
  <2>10. <<n, c>> \in Panels(S)
    BY <2>3, <2>4 DEF Panels
  <2>11. Active = {<<n, c>>}
    BY <2>1, <2>9, <2>10 DEF Active
  <2>. QED  BY <2>11, FS_Singleton
<1>. QED  BY <1>1, PagesInductive, PTL

\* The page of models and the picker have one label for a model that is configured
\* once (viewmodels.go).
THEOREM PagesAgree == PagesSpec => []TwoPagesAgree
<1>1. IInv => TwoPagesAgree
  <2> SUFFICES ASSUME IInv, page.kind = "models",
                      NEW n \in DOMAIN page.models, NEW m \in DOMAIN Setups(page.params),
                      page.models[n].Name = Setups(page.params)[m].ModelID,
                      \A o \in DOMAIN Setups(page.params) :
                        Setups(page.params)[o].ModelID = Setups(page.params)[m].ModelID => o = m
               PROVE  page.models[n].DisplayName = Setups(page.params)[m].Label
    BY DEF TwoPagesAgree
  <2>1. PICK p \in Parameters(None) : p = page.params
    BY DEF IInv, PageInv
  <2>2. PICK c, S, labels : c = Catalog(p) /\ S = Setups(p) /\ labels = modelLabels(p)
    OBVIOUS
  <2>3. DOMAIN c = DOMAIN S /\ DOMAIN S = DOMAIN models(p)
    BY <2>2, SetupsDomain
  <2>4. \A o \in DOMAIN S : c[o].ID = S[o].ModelID /\ c[o].Label = S[o].Label /\ S[o].Label # 0
    <3> SUFFICES ASSUME NEW o \in DOMAIN S
                 PROVE  c[o].ID = S[o].ModelID /\ c[o].Label = S[o].Label /\ S[o].Label # 0
      OBVIOUS
    <3>1. models(p)[o] \in ConfiguredModel
      BY <2>3, ModelsOf
    <3>2. resolveLabel(models(p)[o]) # 0
      BY <3>1, LabelNotEmpty
    <3>. QED  BY <2>2, <2>3, <3>2, SetupsOf
  <2>5. PICK id : id = S[m].ModelID
    OBVIOUS
  <2>6. id \in DOMAIN labels /\ labels[id] = c[m].Label
    <3>1. \A o \in DOMAIN c : c[o].ID = id <=> o = m
      BY <2>1, <2>2, <2>3, <2>4, <2>5
    <3>2. m \in DOMAIN c /\ m <= m
      BY <2>1, <2>2, <2>3, ModelsOf
    <3>3. (CHOOSE o \in DOMAIN c : c[o].ID = id /\ \A q \in DOMAIN c : c[q].ID = id => q <= o) = m
      BY <3>1, <3>2
    <3>. QED  BY <2>2, <3>1, <3>2, <3>3 DEF modelLabels
  <2>7. page.models = toModelViews(list, labels)
    BY <2>1, <2>2 DEF IInv, PageInv
  <2>8. n \in DOMAIN list /\ list[n][2] = id /\ page.models[n].DisplayName = display(list[n], labels)
    BY <2>1, <2>2, <2>5, <2>7 DEF toModelViews
  <2>. QED  BY <2>1, <2>2, <2>3, <2>4, <2>6, <2>8 DEF display
<1>. QED  BY <1>1, PagesInductive, PTL

\* Unless another key was asked for, the newest one is open, in whatever order the
\* keys were read (handlers.go).
THEOREM OpensTheNewest == PagesSpec => []NewestIsOpen
<1>1. IInv => NewestIsOpen
  <2> SUFFICES ASSUME IInv, page.kind = "account", list # <<>>
               PROVE  \E n \in DOMAIN list :
                        /\ list[n][2] = page.selected
                        /\ IF \E m \in DOMAIN list : list[m][2] = page.wanted
                             THEN page.selected = page.wanted
                             ELSE \A m \in DOMAIN list : m # n => Before(by, list[n], list[m])
    BY DEF NewestIsOpen
  <2>1. by = "created" /\ ~Sorting /\ page.selected = selectedKey(page.wanted)
    BY DEF IInv, AccountInv
  <2>2. DOMAIN list = 1..Len(list) /\ Len(list) \in Nat /\ 1 \in DOMAIN list
    BY DEF IInv, ListInv, TypeOK
  <2>3. CASE \E m \in DOMAIN list : list[m][2] = page.wanted
    BY <2>1, <2>3 DEF selectedKey
  <2>4. CASE ~\E m \in DOMAIN list : list[m][2] = page.wanted
    <3>1. list[1][2] = page.selected
      BY <2>1, <2>4 DEF selectedKey
    <3>2. \A m \in DOMAIN list : m # 1 => Before(by, list[1], list[m])
      BY <2>1, <2>2, ListDecided DEF IInv, OrderDecided
    <3>. QED  BY <2>2, <2>4, <3>1, <3>2
  <2>. QED  BY <2>3, <2>4
<1>. QED  BY <1>1, PagesInductive, PTL
=============================================================================
