------------------------ MODULE PricingEditorProofs ------------------------
(***************************************************************************)
(* The tiered pricing editor, for any number of models, tiers, rule groups *)
(* and steps of the user: what is saved is what is shown, and what nobody  *)
(* has touched charges what it did.  First what the conversions between a  *)
(* text and the two forms keep, then the steps.                            *)
(***************************************************************************)
EXTENDS PricingEditor, SequenceTheorems, WellFoundedInduction, TLAPS

\* A set of natural numbers that is not empty has a least one.
LEMMA Least ==
    ASSUME NEW S \in SUBSET Nat, S # {}
    PROVE  \E k \in S : \A j \in S : k <= j
  <1>1. PICK k \in S : \A j \in S : ~(<<j, k>> \in OpToRel(<, Nat))
    BY NatLessThanWellFounded, WFMin
  <1>2. \A j \in S : ~(j < k) BY <1>1 DEF OpToRel
  <1>3. \A j \in S : j \in Nat OBVIOUS
  <1> QED BY <1>2, <1>3

\* One step of FlattenSeq.
Joined(f, s, i) == IF i = 1 THEN s[i] ELSE f[i - 1] \o s[i]

\* There is the function FlattenSeq is defined by.
LEMMA FlattenExists ==
    ASSUME NEW s, NEW n \in Nat
    PROVE  \E f : f = [i \in 1..n |-> Joined(f, s, i)]
  <1> DEFINE Has(k) == \E f : f = [i \in 1..k |-> Joined(f, s, i)]
             Bad == { k \in Nat : ~Has(k) }
  <1>1. SUFFICES ASSUME Bad # {} PROVE FALSE OBVIOUS
  <1>2. PICK k \in Bad : \A j \in Bad : k <= j BY <1>1, Least
  <1>3. CASE k = 0
    <2> DEFINE f == [i \in 1..0 |-> <<>>]
    <2>1. f = [i \in 1..0 |-> Joined(f, s, i)] OBVIOUS
    <2> QED BY <1>2, <1>3, <2>1
  <1>4. CASE k # 0
    <2>1. k \in Nat /\ k - 1 \in Nat /\ ~(k <= k - 1) BY <1>4
    <2>2. PICK h : h = [i \in 1..(k - 1) |-> Joined(h, s, i)] BY <1>2, <2>1
    <2> DEFINE f == [i \in 1..k |-> IF i = k THEN Joined(h, s, i) ELSE h[i]]
    <2>3. ASSUME NEW i \in 1..k PROVE f[i] = Joined(f, s, i)
      <3>1. i # 1 => i - 1 \in 1..k /\ i - 1 # k BY <2>1
      <3>2. i # 1 => f[i - 1] = h[i - 1] BY <3>1
      <3>3. Joined(f, s, i) = Joined(h, s, i)
        <4> HIDE DEF f
        <4> QED BY <3>2 DEF Joined
      <3>4. CASE i = k BY <3>3, <3>4
      <3>5. CASE i # k
        <4>1. i \in 1..(k - 1) BY <2>1, <3>5
        <4>2. h[i] = Joined(h, s, i) BY <2>2, <4>1
        <4> QED BY <3>3, <3>5, <4>2
      <3> QED BY <3>4, <3>5
    <2>4. f = [i \in 1..k |-> Joined(f, s, i)]
      <3>1. f = [i \in 1..k |-> f[i]] OBVIOUS
      <3> HIDE DEF f
      <3> QED BY <2>3, <3>1
    <2> QED BY <1>2, <2>4
  <1> QED BY <1>3, <1>4

LEMMA FlattenIs ==
    ASSUME NEW s, NEW n \in Nat \ {0}, Len(s) = n
    PROVE  \E f : FlattenSeq(s) = f[n] /\ \A i \in 1..n : f[i] = Joined(f, s, i)
  <1> DEFINE f == CHOOSE g : g = [i \in 1..n |-> Joined(g, s, i)]
  <1>1. f = [i \in 1..n |-> Joined(f, s, i)] BY FlattenExists
  <1>2. FlattenSeq(s) = f[n] BY DEF FlattenSeq, Joined
  <1> HIDE DEF f
  <1> QED BY <1>1, <1>2

\* A sequence of sequences over X becomes one.
LEMMA FlattenTyped ==
    ASSUME NEW X, NEW s \in Seq(Seq(X))
    PROVE  FlattenSeq(s) \in Seq(X)
  <1> DEFINE n == Len(s)
  <1>0. n \in Nat OBVIOUS
  <1>1. CASE n = 0
    <2>1. s = <<>> BY <1>1
    <2> QED BY <2>1 DEF FlattenSeq
  <1>2. CASE n # 0
    <2>1. n \in Nat \ {0} BY <1>0, <1>2
    <2>2. \A i \in 1..n : s[i] \in Seq(X) OBVIOUS
    <2> HIDE DEF n
    <2>3. PICK f : FlattenSeq(s) = f[n] /\ \A i \in 1..n : f[i] = Joined(f, s, i)
      BY <2>1, FlattenIs DEF n
    <2> DEFINE Bad == { i \in 1..n : f[i] \notin Seq(X) }
    <2>4. Bad = {}
      <3> SUFFICES ASSUME Bad # {} PROVE FALSE OBVIOUS
      <3>1. PICK i \in Bad : \A j \in Bad : i <= j
        <4>1. Bad \in SUBSET Nat BY <2>1
        <4> QED BY <4>1, Least
      <3>2. i \in 1..n /\ i \in Nat /\ f[i] \notin Seq(X) /\ f[i] = Joined(f, s, i) BY <2>1, <2>3, <3>1
      <3>3. CASE i = 1 BY <2>2, <3>2, <3>3 DEF Joined
      <3>4. CASE i # 1
        <4>1. i - 1 \in 1..n /\ ~(i <= i - 1) BY <2>1, <3>2, <3>4
        <4>2. f[i - 1] \in Seq(X) BY <3>1, <4>1
        <4>3. f[i] = f[i - 1] \o s[i] BY <3>2, <3>4 DEF Joined
        <4>4. s[i] \in Seq(X) BY <2>2, <3>2
        <4>5. f[i - 1] \o s[i] \in Seq(X) BY <4>2, <4>4
        <4> QED BY <3>2, <4>3, <4>5
      <3> QED BY <3>3, <3>4
    <2>5. n \in 1..n BY <2>1
    <2> QED BY <2>3, <2>4, <2>5
  <1> QED BY <1>1, <1>2

\* Single elements are put together to the sequence they are of.
LEMMA FlattenSingles ==
    ASSUME NEW X, NEW s \in Seq(X)
    PROVE  FlattenSeq([i \in DOMAIN s |-> <<s[i]>>]) = s
  <1> DEFINE n == Len(s)
             t == [i \in DOMAIN s |-> <<s[i]>>]
  <1>0. n \in Nat /\ DOMAIN s = 1..n /\ t = [i \in 1..n |-> <<s[i]>>] OBVIOUS
  <1>t. Len(t) = n BY <1>0
  <1>x. \A i \in 1..n : t[i] = <<s[i]>> /\ s[i] \in X BY <1>0
  <1> SUFFICES FlattenSeq(t) = s OBVIOUS
  <1> HIDE DEF n, t
  <1>1. CASE n = 0
    <2>1. s = <<>> BY <1>1 DEF n
    <2>2. t = <<>> BY <2>1 DEF t
    <2> QED BY <2>1, <2>2 DEF FlattenSeq
  <1>2. CASE n # 0
    <2>1. n \in Nat \ {0} BY <1>0, <1>2
    <2>3. PICK f : FlattenSeq(t) = f[n] /\ \A i \in 1..n : f[i] = Joined(f, t, i)
      BY <2>1, <1>t, FlattenIs
    <2> DEFINE Bad == { i \in 1..n : f[i] # SubSeq(s, 1, i) }
    <2>4. Bad = {}
      <3> SUFFICES ASSUME Bad # {} PROVE FALSE OBVIOUS
      <3>1. PICK i \in Bad : \A j \in Bad : i <= j
        <4>1. Bad \in SUBSET Nat BY <2>1
        <4> QED BY <4>1, Least
      <3>2. i \in 1..n /\ i \in Nat /\ f[i] # SubSeq(s, 1, i) /\ f[i] = Joined(f, t, i)
        BY <2>1, <2>3, <3>1
      <3>3. SubSeq(s, 1, i) = SubSeq(s, 1, i - 1) \o <<s[i]>>
        <4>1. 1 \in 1..Len(s) /\ i \in 1..Len(s) BY <2>1, <3>2 DEF n
        <4> QED BY <4>1, SubSeqRecursiveSecond
      <3>4. CASE i = 1
        <4>1. f[i] = <<s[i]>> BY <1>x, <3>2, <3>4 DEF Joined
        <4>2. SubSeq(s, 1, i - 1) = <<>> BY <3>4, SubSeqEmpty
        <4>0. \A x \in X : <<x>> \in Seq(X) OBVIOUS
        <4>3. <<s[i]>> \in Seq(X) BY <1>x, <3>2, <4>0, Zenon
        <4>4. <<>> \o <<s[i]>> = <<s[i]>> BY <4>3, ConcatEmptySeq, Zenon
        <4> QED BY <3>2, <3>3, <4>1, <4>2, <4>4
      <3>5. CASE i # 1
        <4>1. i - 1 \in 1..n /\ ~(i <= i - 1) BY <2>1, <3>2, <3>5
        <4>2. f[i - 1] = SubSeq(s, 1, i - 1) BY <3>1, <4>1
        <4>3. f[i] = SubSeq(s, 1, i - 1) \o <<s[i]>> BY <1>x, <3>2, <3>5, <4>2 DEF Joined
        <4> QED BY <3>2, <3>3, <4>3
      <3> QED BY <3>4, <3>5
    <2>5. n \in 1..n BY <2>1
    <2>6. f[n] = SubSeq(s, 1, n) BY <2>4, <2>5
    <2> QED BY <2>3, <2>6, SubSeqFull DEF n
  <1> QED BY <1>1, <1>2

-----------------------------------------------------------------------------
\* Rules that can be read, and texts.

PlainRule == Seq({"plain"}) \ {<<>>}
PlainRules == Seq(PlainRule)
PlainGroups == Seq(Seq({"blank", "plain"}))

\* What is built of plain conditions can be read.
LEMMA FactorPlain ==
    ASSUME NEW group \in Seq({"blank", "plain"})
    PROVE  buildRuleGroupFactor(group) \in Seq({"plain"})
  <1> DEFINE t == [i \in DOMAIN group |-> Conjuncts(group[i])]
             P == Seq({"plain"})
  <1>1. DOMAIN group = 1..Len(group) /\ Len(group) \in Nat OBVIOUS
  <1>2. ASSUME NEW i \in DOMAIN group PROVE Conjuncts(group[i]) \in P
    <2>1. group[i] = "blank" \/ group[i] = "plain" BY <1>1
    <2>2. <<>> \in P /\ <<"plain">> \in P OBVIOUS
    <2>3. Conjuncts("blank") = <<>> /\ Conjuncts("plain") = <<"plain">> BY DEF Conjuncts
    <2> QED BY <2>1, <2>2, <2>3
  <1> HIDE DEF P
  <1>3. t \in Seq(P) BY <1>1, <1>2
  <1> HIDE DEF t
  <1>4. FlattenSeq(t) \in P BY <1>3, FlattenTyped DEF P
  <1> QED BY <1>4 DEF buildRuleGroupFactor, t, P

LEMMA BuildPlain ==
    ASSUME NEW groups \in PlainGroups
    PROVE  buildRequestRuleExpr(groups) \in PlainRules
  <1> DEFINE factor(i) == buildRuleGroupFactor(groups[i])
             t == [i \in DOMAIN groups |-> IF factor(i) = <<>> THEN <<>> ELSE <<factor(i)>>]
             P == PlainRule
  <1>1. DOMAIN groups = 1..Len(groups) /\ Len(groups) \in Nat BY DEF PlainGroups
  <1>2. ASSUME NEW i \in DOMAIN groups
        PROVE  (IF factor(i) = <<>> THEN <<>> ELSE <<factor(i)>>) \in Seq(P)
    <2>1. groups[i] \in Seq({"blank", "plain"}) BY <1>1 DEF PlainGroups
    <2>2. factor(i) \in Seq({"plain"}) BY <2>1, FactorPlain
    <2> HIDE DEF factor
    <2>3. factor(i) # <<>> => factor(i) \in P BY <2>2 DEF PlainRule
    <2> HIDE DEF P
    <2> QED BY <2>3
  <1> HIDE DEF P, factor
  <1>3. t \in Seq(Seq(P)) BY <1>1, <1>2
  <1>4. buildRequestRuleExpr(groups) = FlattenSeq(t) BY DEF buildRequestRuleExpr, factor
  <1> HIDE DEF t
  <1> QED BY <1>3, <1>4, FlattenTyped DEF PlainRules, P

\* What has been read is written again.
LEMMA BuildAgain ==
    ASSUME NEW rules \in PlainRules
    PROVE  /\ buildRequestRuleExpr(rules) = rules
           /\ rules \in PlainGroups
  <1>1. DOMAIN rules = 1..Len(rules) /\ Len(rules) \in Nat BY DEF PlainRules
  <1>2. ASSUME NEW i \in DOMAIN rules
        PROVE  /\ rules[i] \in PlainRule /\ rules[i] \in Seq({"blank", "plain"})
               /\ buildRuleGroupFactor(rules[i]) = rules[i]
    <2> DEFINE r == rules[i]
    <2>1. r \in PlainRule BY <1>1 DEF PlainRules
    <2> HIDE DEF r
    <2>2. r \in Seq({"plain"}) /\ DOMAIN r = 1..Len(r) /\ Len(r) \in Nat BY <2>1 DEF PlainRule
    <2>3. \A k \in DOMAIN r : r[k] = "plain" BY <2>2
    <2>4. \A k \in DOMAIN r : Conjuncts(r[k]) = <<r[k]>> BY <2>3 DEF Conjuncts
    <2>5. [k \in DOMAIN r |-> Conjuncts(r[k])] = [k \in DOMAIN r |-> <<r[k]>>] BY <2>4
    <2>6. buildRuleGroupFactor(r) = r BY <2>2, <2>5, FlattenSingles DEF buildRuleGroupFactor
    <2>7. r \in Seq({"blank", "plain"})
      <3>1. r = [k \in 1..Len(r) |-> r[k]] /\ \A k \in 1..Len(r) : r[k] \in {"blank", "plain"}
        BY <2>2, <2>3
      <3> QED BY <2>2, <3>1
    <2> QED BY <2>1, <2>6, <2>7 DEF r
  <1>3. \A i \in DOMAIN rules : rules[i] # <<>> BY <1>2 DEF PlainRule
  <1>4. [i \in DOMAIN rules |-> IF buildRuleGroupFactor(rules[i]) = <<>> THEN <<>>
                                ELSE <<buildRuleGroupFactor(rules[i])>>]
          = [i \in DOMAIN rules |-> <<rules[i]>>]
    BY <1>2, <1>3
  <1>5. buildRequestRuleExpr(rules) = rules
    BY <1>4, FlattenSingles DEF buildRequestRuleExpr, PlainRules
  <1>6. rules \in PlainGroups
    <2>1. rules = [k \in 1..Len(rules) |-> rules[k]] BY <1>1 DEF PlainRules
    <2>2. \A k \in 1..Len(rules) : rules[k] \in Seq({"blank", "plain"}) BY <1>1, <1>2
    <2> QED BY <1>1, <2>1, <2>2 DEF PlainGroups
  <1> QED BY <1>5, <1>6

-----------------------------------------------------------------------------
\* Texts.

Rules == Seq(Seq({"plain", "test"}) \ {<<>>})

\* A text has tiers if it is of a kind that does, and layers only on a base, and no empty ones.
WellFormed(text) ==
    /\ text = Text(text.base, text.layers)
    /\ text.base = Base(text.base.kind, text.base.tiers)
    /\ text.base.tiers # <<>> => text.base.kind \in {"tiers", "versioned", "spelled", "sum"}
    /\ text.layers \in Seq(Rules \ {<<>>})
    /\ text.base = NoText.base => text.layers = <<>>

\* No rule can be read off the text, and of a text at most one.
Bare(text) ==
    WellFormed(text) /\ (text.layers # <<>> => ~ParsesRules(Last(text.layers)))
OneRule(text) ==
    WellFormed(text) /\ Bare(splitBillingExprAndRequestRules(text).billingExpr)

RulesOf(text) == splitBillingExprAndRequestRules(text).requestRuleExpr
BaseOf(text) == splitBillingExprAndRequestRules(text).billingExpr

\* The instances the theorems are about: every rule the user chooses can be read again, no text
\* has two layers that can, and a row is opened only while the panel is closed.
PlainEditor ==
    /\ ~Reopens
    /\ Conditions \subseteq {"blank", "plain"} /\ Presets \subseteq PlainGroups
    /\ \A text \in Stored \cup Typed : OneRule(text)

-----------------------------------------------------------------------------
\* The inductive invariant.

Kinds ==
    /\ DOMAIN exprMap = Models /\ \A m \in Models : OneRule(exprMap[m])
    /\ Bare(billingExpr) /\ requestRuleExpr \in PlainRules
    /\ OneRule(rawExpr) /\ requestRuleGroups \in PlainGroups
    /\ model \in Models \cup {Closed} /\ pricingMode \in {"tiered_expr", "other"}
    /\ editorMode \in {"visual", "raw"}

\* Settled effects leave the panel with what the editor shows.
Synced ==
    Mounted /\ seen = Deps =>
        /\ billingExpr = effectiveExpr
        /\ editorMode = "visual" => requestRuleExpr = buildRequestRuleExpr(requestRuleGroups)

\* In expression mode the panel's rules are the text's, and in visual mode the groups', unless the
\* initialising effect is not due.
RulesKept ==
    /\ Mounted /\ editorMode = "raw" => rawExpr = NoText \/ requestRuleExpr = RulesOf(rawExpr)
    /\ Mounted /\ editorMode = "visual" =>
          \/ requestRuleExpr = buildRequestRuleExpr(requestRuleGroups)
          \/ seen # Unmounted /\ seen[2] = billingExpr /\ seen[3] = requestRuleExpr

EInv == Kinds /\ Synced /\ RulesKept

\* The expression as the visual editor writes it, and the two ways the panel may hold it.
Rewritten(expr) == generateExprFromVisualConfig(tryParseVisualConfig(expr))
Spellings(expr) == {expr, Rewritten(expr)}
Holds(expr, rules) ==
    /\ billingExpr \in Spellings(expr) /\ requestRuleExpr = rules
    /\ editorMode = "visual" =>
          /\ generateExprFromVisualConfig(visualConfig) = Rewritten(expr)
          /\ buildRequestRuleExpr(requestRuleGroups) = rules
    /\ editorMode = "raw" => BaseOf(rawExpr) \in Spellings(expr) /\ RulesOf(rawExpr) = rules

\* Before the first change a model without an expression has the other tab, and an expression the
\* editor can show is in the panel and in the editor as it is stored or as the editor writes it.
Unchanged ==
    model # Closed /\ ~touched =>
        /\ (exprMap[model] = NoText) = (pricingMode = "other")
        /\ Mounted => billingExpr # NoText
        /\ Mounted /\ editorMode = "raw" => rawExpr # NoText
        /\ Mounted /\ Readable(exprMap[model]) => Holds(BaseOf(exprMap[model]), RulesOf(exprMap[model]))

UInv == EInv /\ Unchanged

-----------------------------------------------------------------------------
\* What the conversions keep.

LEMMA TextParts ==
    ASSUME NEW b, NEW l
    PROVE  Text(b, l).base = b /\ Text(b, l).layers = l
  BY DEF Text

LEMMA Layered ==
    ASSUME NEW b, b = Text(b.base, b.layers), NEW r
    PROVE  [b EXCEPT !.layers = Append(@, r)] = Text(b.base, Append(b.layers, r))
  BY DEF Text

LEMMA LastLayer ==
    ASSUME NEW X, NEW s \in Seq(X), s # <<>>
    PROVE  Front(s) \in Seq(X) /\ Last(s) \in X /\ Append(Front(s), Last(s)) = s
  <1>1. Len(s) \in Nat \ {0} OBVIOUS
  <1>2. \A i \in 1..(Len(s) - 1) : s[i] \in X BY <1>1
  <1>3. SubSeq(s, 1, Len(s) - 1) \in Seq(X) BY <1>1, <1>2, SubSeqProperties
  <1>4. SubSeq(s, 1, Len(s)) = SubSeq(s, 1, Len(s) - 1) \o <<s[Len(s)]>>
    BY <1>1, SubSeqRecursiveSecond
  <1>5. SubSeq(s, 1, Len(s)) = s BY SubSeqFull
  <1>6. s[Len(s)] \in X BY <1>1
  <1>7. Append(SubSeq(s, 1, Len(s) - 1), s[Len(s)]) = SubSeq(s, 1, Len(s) - 1) \o <<s[Len(s)]>>
    BY <1>3, <1>6, AppendIsConcat
  <1> QED BY <1>3, <1>4, <1>5, <1>6, <1>7 DEF Front, Last

LEMMA AddedLayer ==
    ASSUME NEW X, NEW s \in Seq(X), NEW e \in X
    PROVE  /\ Append(s, e) \in Seq(X) /\ Append(s, e) # <<>>
           /\ Front(Append(s, e)) = s /\ Last(Append(s, e)) = e
  <1> DEFINE a == Append(s, e)
  <1>1. a \in Seq(X) /\ Len(a) = Len(s) + 1 /\ Len(s) \in Nat /\ a[Len(s) + 1] = e OBVIOUS
  <1>2. \A i \in 1..Len(s) : a[i] = s[i] /\ s[i] \in X OBVIOUS
  <1> HIDE DEF a
  <1>3. a # <<>> /\ Last(a) = e BY <1>1 DEF Last
  <1>4. Front(a) = SubSeq(a, 1, Len(s)) BY <1>1 DEF Front
  <1>5. /\ SubSeq(a, 1, Len(s)) \in Seq(X) /\ Len(SubSeq(a, 1, Len(s))) = Len(s)
        /\ \A i \in 1..Len(s) : SubSeq(a, 1, Len(s))[i] = a[i]
    BY <1>1, <1>2, SubSeqProperties
  <1>6. SubSeq(a, 1, Len(s)) = s BY <1>2, <1>5, SeqEqual
  <1> QED BY <1>1, <1>3, <1>4, <1>6 DEF a

\* Rules that can be read are plain, and plain rules can.
LEMMA ReadRules ==
    ASSUME NEW rules \in Rules, ParsesRules(rules)
    PROVE  rules \in PlainRules
  <1>1. rules = [i \in 1..Len(rules) |-> rules[i]] /\ Len(rules) \in Nat /\ DOMAIN rules = 1..Len(rules)
    BY DEF Rules
  <1>2. ASSUME NEW i \in 1..Len(rules) PROVE rules[i] \in PlainRule
    <2> DEFINE r == rules[i]
    <2>1. r \in Seq({"plain", "test"}) \ {<<>>} BY <1>2 DEF Rules
    <2>2. "test" \notin ToSet(r) BY <1>1 DEF ParsesRules
    <2> HIDE DEF r
    <2>3. r = [k \in 1..Len(r) |-> r[k]] /\ Len(r) \in Nat /\ DOMAIN r = 1..Len(r) BY <2>1
    <2>4. \A k \in 1..Len(r) : r[k] \in {"plain"} BY <2>1, <2>2, <2>3 DEF ToSet
    <2>5. r \in Seq({"plain"}) BY <2>3, <2>4
    <2> QED BY <2>1, <2>5 DEF PlainRule, r
  <1> QED BY <1>1, <1>2 DEF PlainRules

LEMMA PlainRead ==
    ASSUME NEW rules \in PlainRules
    PROVE  rules \in Rules /\ ParsesRules(rules) /\ RulesOrNone(rules) = rules
  <1>1. rules = [i \in 1..Len(rules) |-> rules[i]] /\ Len(rules) \in Nat /\ DOMAIN rules = 1..Len(rules)
    BY DEF PlainRules
  <1>2. ASSUME NEW i \in 1..Len(rules)
        PROVE  rules[i] \in Seq({"plain", "test"}) \ {<<>>} /\ "test" \notin ToSet(rules[i])
    <2> DEFINE r == rules[i]
    <2>1. r \in PlainRule BY <1>2 DEF PlainRules
    <2> HIDE DEF r
    <2>2. r # <<>> /\ r \in Seq({"plain"}) BY <2>1 DEF PlainRule
    <2>3. r = [k \in 1..Len(r) |-> r[k]] /\ Len(r) \in Nat /\ DOMAIN r = 1..Len(r) BY <2>2
    <2>4. \A k \in 1..Len(r) : r[k] = "plain" BY <2>2
    <2>5. r \in Seq({"plain", "test"}) BY <2>3, <2>4
    <2>6. "test" \notin ToSet(r) BY <2>3, <2>4 DEF ToSet
    <2> QED BY <2>2, <2>5, <2>6 DEF r
  <1>3. rules \in Rules BY <1>1, <1>2 DEF Rules
  <1>4. ParsesRules(rules) BY <1>1, <1>2 DEF ParsesRules
  <1> QED BY <1>3, <1>4 DEF RulesOrNone

LEMMA SplitParts ==
    ASSUME NEW text
    PROVE  /\ text.layers # <<>> /\ ParsesRules(Last(text.layers)) =>
                 BaseOf(text) = Text(text.base, Front(text.layers)) /\ RulesOf(text) = Last(text.layers)
           /\ ~(text.layers # <<>> /\ ParsesRules(Last(text.layers))) =>
                 BaseOf(text) = text /\ RulesOf(text) = <<>>
  BY DEF BaseOf, RulesOf, splitBillingExprAndRequestRules

LEMMA NoTextParts ==
    /\ WellFormed(NoText) /\ Bare(NoText) /\ OneRule(NoText)
    /\ BaseOf(NoText) = NoText /\ RulesOf(NoText) = <<>>
  <1>1. NoText = Text(NoText.base, NoText.layers) /\ NoText.layers = <<>> BY DEF NoText, Text
  <1>2. WellFormed(NoText)
    <2>1. NoText.base = Base("none", <<>>) /\ NoText.base.kind = "none" /\ NoText.base.tiers = <<>>
      BY DEF NoText, Text, Base
    <2>2. \A X : <<>> \in Seq(X) OBVIOUS
    <2> QED BY <1>1, <2>1, <2>2 DEF WellFormed
  <1>3. BaseOf(NoText) = NoText /\ RulesOf(NoText) = <<>> BY <1>1, SplitParts
  <1> QED BY <1>1, <1>2, <1>3 DEF Bare, OneRule, BaseOf

\* A text is put together again as it was.
LEMMA SplitOf ==
    ASSUME NEW text, WellFormed(text)
    PROVE  /\ RulesOf(text) \in PlainRules /\ WellFormed(BaseOf(text))
           /\ combineBillingExpr(BaseOf(text), RulesOf(text)) = text
           /\ text # NoText => BaseOf(text) # NoText
  <1> DEFINE L == Rules \ {<<>>}
  <1>w. text = Text(text.base, text.layers) /\ text.layers \in Seq(L)
    BY DEF WellFormed
  <1>p. <<>> \in PlainRules BY DEF PlainRules
  <1>1. CASE text.layers # <<>> /\ ParsesRules(Last(text.layers))
    <2> DEFINE f == Front(text.layers)
               e == Last(text.layers)
               b == Text(text.base, f)
    <2>1. f \in Seq(L) /\ e \in L /\ Append(f, e) = text.layers BY <1>w, <1>1, LastLayer
    <2>2. BaseOf(text) = b /\ RulesOf(text) = e BY <1>1, SplitParts
    <2>3. b.base = text.base /\ b.layers = f BY TextParts
    <2>4. text.base # NoText.base BY <1>1 DEF WellFormed
    <2>5. b # NoText BY <2>3, <2>4
    <2>6. b = Text(b.base, b.layers) BY <2>3
    <2>7. [b EXCEPT !.layers = Append(@, e)] = Text(b.base, Append(b.layers, e)) BY <2>6, Layered
    <2> HIDE DEF b
    <2>8. combineBillingExpr(b, e) = text
      BY <1>w, <2>1, <2>3, <2>5, <2>7 DEF combineBillingExpr
    <2>9. e \in PlainRules BY <1>1, <2>1, ReadRules
    <2>10. WellFormed(b) BY <2>1, <2>3, <2>4, <2>6 DEF WellFormed
    <2> QED BY <2>2, <2>5, <2>8, <2>9, <2>10
  <1>2. CASE ~(text.layers # <<>> /\ ParsesRules(Last(text.layers)))
    <2>1. BaseOf(text) = text /\ RulesOf(text) = <<>> BY <1>2, SplitParts
    <2>2. combineBillingExpr(text, <<>>) = text BY DEF combineBillingExpr
    <2> QED BY <1>p, <2>1, <2>2
  <1> QED BY <1>1, <1>2

\* And what has been put together is taken apart as it was.
LEMMA SplitAgain ==
    ASSUME NEW b, Bare(b), NEW r \in PlainRules
    PROVE  /\ OneRule(combineBillingExpr(b, r))
           /\ b # NoText => /\ combineBillingExpr(b, r) # NoText
                            /\ BaseOf(combineBillingExpr(b, r)) = b
                            /\ RulesOf(combineBillingExpr(b, r)) = r
  <1> DEFINE L == Rules \ {<<>>}
  <1>w. /\ b = Text(b.base, b.layers) /\ b.layers \in Seq(L) /\ WellFormed(b)
        /\ b.base = NoText.base => b.layers = <<>>
    BY DEF Bare, WellFormed
  <1>1. CASE b = NoText
    BY <1>1, NoTextParts DEF combineBillingExpr
  <1>2. CASE b # NoText /\ r = <<>>
    <2>1. combineBillingExpr(b, r) = b BY <1>2 DEF combineBillingExpr
    <2>2. BaseOf(b) = b /\ RulesOf(b) = <<>> BY SplitParts DEF Bare
    <2> QED BY <1>w, <1>2, <2>1, <2>2 DEF OneRule, BaseOf
  <1>3. CASE b # NoText /\ r # <<>>
    <2> DEFINE l == Append(b.layers, r)
               t == Text(b.base, l)
    <2>1. combineBillingExpr(b, r) = t
      <3>1. [b EXCEPT !.layers = Append(@, r)] = Text(b.base, Append(b.layers, r)) BY <1>w, Layered
      <3> QED BY <1>3, <3>1 DEF combineBillingExpr
    <2>2. r \in L /\ ParsesRules(r) BY <1>3, PlainRead
    <2>3. l \in Seq(L) /\ l # <<>> /\ Front(l) = b.layers /\ Last(l) = r BY <1>w, <2>2, AddedLayer
    <2>4. t.base = b.base /\ t.layers = l BY TextParts
    <2>5. b.base # NoText.base
      <3>1. NoText = Text(NoText.base, <<>>) BY DEF NoText, Text
      <3> QED BY <1>w, <1>3, <3>1
    <2> HIDE DEF t, l
    <2>6. BaseOf(t) = b /\ RulesOf(t) = r BY <1>w, <2>2, <2>3, <2>4, SplitParts
    <2>7. WellFormed(t) BY <1>w, <2>3, <2>4, <2>5 DEF WellFormed, t
    <2>8. t # NoText BY <2>4, <2>5
    <2> QED BY <2>1, <2>6, <2>7, <2>8 DEF OneRule, BaseOf
  <1> QED BY <1>1, <1>2, <1>3

\* A generated text is not empty and has no rules.
LEMMA Generated ==
    ASSUME NEW config
    PROVE  Bare(generateExprFromVisualConfig(config)) /\ generateExprFromVisualConfig(config) # NoText
  <1> DEFINE g == generateExprFromVisualConfig(config)
  <1>1. PICK kind \in {"zero", "tiers"} :
           \E ts : g = Text(Base(kind, ts), <<>>) /\ (kind = "zero" => ts = <<>>)
    <2> DEFINE last == [config EXCEPT ![Len(config)].cond = FALSE]
    <2>1. g = Zero \/ g = Tiers(config) \/ g = Tiers(last) BY DEF generateExprFromVisualConfig
    <2> HIDE DEF g, last
    <2> QED BY <2>1 DEF Zero, Tiers
  <1>t. PICK ts : g = Text(Base(kind, ts), <<>>) /\ (kind = "zero" => ts = <<>>) BY <1>1
  <1> HIDE DEF g
  <1>2. g.base = Base(kind, ts) /\ g.layers = <<>> BY <1>t, TextParts
  <1>3. Base(kind, ts).kind = kind /\ Base(kind, ts).tiers = ts /\ NoText.base.kind = "none"
    BY DEF Base, NoText, Text
  <1>4. g.base # NoText.base BY <1>2, <1>3
  <1>5. g # NoText BY <1>4
  <1>6. WellFormed(g)
    <2>1. g = Text(g.base, g.layers) BY <1>t, <1>2
    <2>2. \A X : <<>> \in Seq(X) OBVIOUS
    <2>3. /\ g.base = Base(g.base.kind, g.base.tiers)
          /\ g.base.tiers # <<>> => g.base.kind \in {"tiers", "versioned", "spelled", "sum"}
      BY <1>t, <1>2, <1>3
    <2>4. g.base = NoText.base => g.layers = <<>> BY <1>2
    <2> QED BY <1>2, <2>1, <2>2, <2>3, <2>4 DEF WellFormed
  <1>7. Bare(g) BY <1>2, <1>6 DEF Bare
  <1> QED BY <1>5, <1>7 DEF g

\* What several tiers generate, if it is their own text.
LEMMA GeneratedTiers ==
    ASSUME NEW ts, ts # <<>>
    PROVE  /\ Len(ts) = 1 => generateExprFromVisualConfig(ts) = Tiers(ts)
           /\ generateExprFromVisualConfig(ts).base.tiers = ts => generateExprFromVisualConfig(ts) = Tiers(ts)
           /\ generateExprFromVisualConfig(ts).base.kind = "tiers"
           /\ generateExprFromVisualConfig(ts).layers = <<>>
  <1> DEFINE last == [ts EXCEPT ![Len(ts)].cond = FALSE]
  <1>1. CASE Len(ts) = 1 BY <1>1 DEF generateExprFromVisualConfig, Tiers, Text, Base
  <1>2. CASE Len(ts) # 1
    <2>1. generateExprFromVisualConfig(ts) = Tiers(last) BY <1>2 DEF generateExprFromVisualConfig
    <2> HIDE DEF last
    <2>2. Tiers(last).base.tiers = last /\ Tiers(last).base.kind = "tiers" /\ Tiers(last).layers = <<>>
      BY DEF Tiers, Text, Base
    <2> QED BY <1>2, <2>1, <2>2
  <1> QED BY <1>1, <1>2

\* An expression the visual editor shows, with prices that are numbers, is written as its tiers,
\* charges what they do, and is read again: once rewritten it stays.
LEMMA Parsed ==
    ASSUME NEW b, WellFormed(b), b.base.kind # "sum", tryParseVisualConfig(b) # <<>>
    PROVE  /\ Rewritten(b) = Tiers(b.base.tiers)
           /\ \A x \in Spellings(b) : tryParseVisualConfig(x) # <<>> /\ Rewritten(x) = Rewritten(b)
           /\ \A x \in Spellings(b) : \A r :
                 Charge(combineBillingExpr(x, r)) = combineBillingExpr(Rewritten(b), r)
  <1> DEFINE ts == b.base.tiers
             t == Tiers(ts)
  <1>1. /\ b.layers = <<>> /\ ts # <<>> /\ tryParseVisualConfig(b) = ts
        /\ \/ Len(ts) = 1 /\ ~ts[1].cond
           \/ generateExprFromVisualConfig(ts).base.tiers = ts
    BY DEF tryParseVisualConfig
  <1>2. Rewritten(b) = t BY <1>1, GeneratedTiers DEF Rewritten
  <1>3. t.base.tiers = ts /\ t.base.kind = "tiers" /\ t.layers = <<>> /\ t = Text(Base("tiers", ts), <<>>)
    BY DEF Tiers, Text, Base
  <1>4. b = Text(Base(b.base.kind, ts), <<>>) /\ b.base.kind \in {"tiers", "versioned", "spelled"}
    BY <1>1 DEF WellFormed
  <1> HIDE DEF t, ts
  <1>5. tryParseVisualConfig(t) = ts BY <1>1, <1>3 DEF tryParseVisualConfig
  <1>6. Rewritten(t) = t BY <1>1, <1>2, <1>5 DEF Rewritten
  <1>7. ASSUME NEW kind \in {"tiers", "versioned", "spelled"}, NEW r
        PROVE  Charge(combineBillingExpr(Text(Base(kind, ts), <<>>), r)) = combineBillingExpr(t, r)
    <2> DEFINE x == Text(Base(kind, ts), <<>>)
    <2>1. x.base = Base(kind, ts) /\ x.base.kind = kind /\ x.base.tiers = ts /\ x.layers = <<>>
      BY DEF Text, Base
    <2>2. x # NoText /\ t # NoText
      <3>1. NoText.base.kind = "none" BY DEF NoText, Text, Base
      <3> QED BY <1>3, <2>1, <3>1
    <2>3. CASE r = <<>>
      <3>1. combineBillingExpr(x, r) = x /\ combineBillingExpr(t, r) = t
        BY <2>3 DEF combineBillingExpr
      <3>2. Charge(x) = t BY <1>3, <2>1 DEF Charge
      <3> QED BY <3>1, <3>2
    <2>4. CASE r # <<>>
      <3>1. /\ combineBillingExpr(x, r) = Text(Base(kind, ts), Append(<<>>, r))
            /\ combineBillingExpr(t, r) = Text(Base("tiers", ts), Append(<<>>, r))
        <4>1. x = Text(x.base, x.layers) /\ t = Text(t.base, t.layers) BY <1>3, <2>1, TextParts
        <4>2. /\ [x EXCEPT !.layers = Append(@, r)] = Text(x.base, Append(x.layers, r))
              /\ [t EXCEPT !.layers = Append(@, r)] = Text(t.base, Append(t.layers, r))
          BY <4>1, Layered
        <4>3. t.base = Base("tiers", ts) BY <1>3, TextParts
        <4> HIDE DEF x
        <4> QED BY <1>3, <2>1, <2>2, <2>4, <4>2, <4>3 DEF combineBillingExpr
      <3> DEFINE y == Text(Base(kind, ts), Append(<<>>, r))
      <3>2. y.base.kind = kind /\ y.base.tiers = ts /\ y.layers = Append(<<>>, r)
        BY DEF Text, Base
      <3> HIDE DEF y
      <3>3. Charge(y) = Text(Base("tiers", ts), Append(<<>>, r))
        <4>1. CASE kind = "tiers" BY <3>2, <4>1 DEF Charge, y
        <4>2. CASE kind # "tiers" BY <3>2, <4>2 DEF Charge
        <4> QED BY <4>1, <4>2
      <3> QED BY <3>1, <3>3 DEF y
    <2> QED BY <2>3, <2>4
  <1>8. \A r : Charge(combineBillingExpr(b, r)) = combineBillingExpr(t, r) BY <1>4, <1>7
  <1>9. \A r : Charge(combineBillingExpr(t, r)) = combineBillingExpr(t, r) BY <1>3, <1>7
  <1> QED BY <1>1, <1>2, <1>5, <1>6, <1>8, <1>9 DEF Spellings, t, ts

\* What the visual editor has written it writes again.
LEMMA GeneratedAgain ==
    ASSUME NEW config, tryParseVisualConfig(generateExprFromVisualConfig(config)) # <<>>
    PROVE  Rewritten(generateExprFromVisualConfig(config)) = generateExprFromVisualConfig(config)
  <1> DEFINE g == generateExprFromVisualConfig(config)
  <1>1. g.base.tiers # <<>> BY DEF tryParseVisualConfig
  <1>2. config # <<>>
    <2>1. Zero.base.tiers = <<>> BY DEF Zero, Text, Base
    <2> QED BY <1>1, <2>1 DEF generateExprFromVisualConfig
  <1>3. g.base.kind = "tiers" /\ g.layers = <<>> BY <1>2, GeneratedTiers
  <1>4. WellFormed(g) BY Generated DEF Bare
  <1>5. g = Tiers(g.base.tiers) BY <1>3, <1>4 DEF WellFormed, Tiers
  <1> HIDE DEF g
  <1>6. tryParseVisualConfig(g) # <<>> BY DEF g
  <1>7. Rewritten(g) = Tiers(g.base.tiers) BY <1>3, <1>4, <1>6, Parsed
  <1> QED BY <1>5, <1>7 DEF g

-----------------------------------------------------------------------------
\* The steps keep the invariant.

\* A step of the user finds the effects settled; as long as none is due again they have copied all.
LEMMA SyncedStep ==
    ASSUME Synced, Mounted, Settled, seen' = seen
    PROVE  Synced'
  <1>1. seen = Deps BY DEF Settled
  <1>2. SUFFICES ASSUME Mounted', seen' = Deps'
                 PROVE  /\ billingExpr' = effectiveExpr'
                        /\ editorMode' = "visual" =>
                              requestRuleExpr' = buildRequestRuleExpr(requestRuleGroups')
    BY DEF Synced
  <1>3. Deps' = Deps BY <1>1, <1>2
  <1>4. /\ billingExpr' = billingExpr /\ requestRuleExpr' = requestRuleExpr
        /\ editorMode' = editorMode /\ effectiveExpr' = effectiveExpr
        /\ requestRuleGroups' = requestRuleGroups
    BY <1>3 DEF Deps
  <1> QED BY <1>1, <1>4 DEF Synced

LEMMA SettledRules ==
    ASSUME Mounted, Settled
    PROVE  seen # Unmounted /\ seen[2] = billingExpr /\ seen[3] = requestRuleExpr
  BY DEF Settled, Deps, Unmounted

\* The editor's first state.
LEMMA MountKeeps ==
    ASSUME NEW expr, Bare(expr), NEW rules \in PlainRules, Mount(expr, rules),
           billingExpr' = expr, requestRuleExpr' = rules
    PROVE  /\ OneRule(rawExpr') /\ requestRuleGroups' \in PlainGroups /\ editorMode' = "visual"
           /\ buildRequestRuleExpr(requestRuleGroups') = requestRuleExpr'
           /\ Synced' /\ RulesKept'
  <1>1. /\ editorMode' = "visual" /\ rawExpr' = combineBillingExpr(expr, rules)
        /\ requestRuleGroups' = RulesOrNone(rules) /\ seen' = Unmounted
    BY DEF Mount
  <1>2. requestRuleGroups' = rules BY <1>1, PlainRead
  <1>3. requestRuleGroups' \in PlainGroups /\ buildRequestRuleExpr(requestRuleGroups') = requestRuleExpr'
    BY <1>2, BuildAgain
  <1>4. OneRule(rawExpr') BY <1>1, SplitAgain
  <1>5. seen' # Deps' BY <1>1 DEF Unmounted, Deps
  <1>6. Synced' BY <1>5 DEF Synced
  <1>7. RulesKept' BY <1>1, <1>3 DEF RulesKept
  <1> QED BY <1>1, <1>3, <1>4, <1>6, <1>7

\* What the initialising effect makes of the panel's strings.
LEMMA InitialiseKeeps ==
    ASSUME EInv, Initialise
    PROVE  /\ OneRule(rawExpr') /\ rawExpr' = combineBillingExpr(billingExpr, requestRuleExpr)
           /\ requestRuleGroups' = requestRuleExpr /\ requestRuleGroups' \in PlainGroups
           /\ buildRequestRuleExpr(requestRuleGroups') = requestRuleExpr
           /\ editorMode' \in {"visual", "raw"}
           /\ billingExpr = NoText => editorMode' = editorMode
           /\ billingExpr # NoText => RulesOf(rawExpr') = requestRuleExpr /\ rawExpr' # NoText
  <1>1. /\ rawExpr' = combineBillingExpr(billingExpr, requestRuleExpr)
        /\ requestRuleGroups' = RulesOrNone(requestRuleExpr)
        /\ billingExpr = NoText => editorMode' = editorMode
        /\ billingExpr # NoText => editorMode' \in {"visual", "raw"}
    <2>1. tryParseVisualConfig(NoText) = <<>>
      <3>1. NoText.base.tiers = <<>> BY DEF NoText, Text, Base
      <3> QED BY <3>1 DEF tryParseVisualConfig
    <2>2. editorMode' = CASE billingExpr = NoText -> editorMode
                          [] tryParseVisualConfig(billingExpr) # <<>> -> "visual"
                          [] OTHER -> "raw"
      BY DEF Initialise
    <2>3. billingExpr = NoText => editorMode' = editorMode BY <2>1, <2>2
    <2>4. billingExpr # NoText => editorMode' \in {"visual", "raw"} BY <2>2
    <2> QED BY <2>3, <2>4 DEF Initialise
  <1>2. Bare(billingExpr) /\ requestRuleExpr \in PlainRules /\ editorMode \in {"visual", "raw"}
    BY DEF EInv, Kinds
  <1>3. /\ OneRule(rawExpr')
        /\ billingExpr # NoText => RulesOf(rawExpr') = requestRuleExpr /\ rawExpr' # NoText
    BY <1>1, <1>2, SplitAgain
  <1>4. /\ requestRuleGroups' = requestRuleExpr /\ requestRuleGroups' \in PlainGroups
        /\ buildRequestRuleExpr(requestRuleGroups') = requestRuleExpr
    BY <1>1, <1>2, PlainRead, BuildAgain
  <1> QED BY <1>1, <1>2, <1>3, <1>4

LEMMA EffectiveBare ==
    ASSUME EInv
    PROVE  Bare(effectiveExpr) /\ (editorMode = "visual" => effectiveExpr # NoText)
  <1>1. OneRule(rawExpr) BY DEF EInv, Kinds
  <1>2. CASE editorMode = "visual" BY <1>2, Generated DEF effectiveExpr
  <1>3. CASE editorMode # "visual" BY <1>1, <1>3 DEF effectiveExpr, OneRule
  <1> QED BY <1>2, <1>3

\* One rendering with its four effects.
LEMMA CommitEInv ==
    ASSUME EInv, Commit
    PROVE  EInv'
  <1>1. /\ Mounted /\ billingExpr' = effectiveExpr /\ seen' = Deps
        /\ requestRuleExpr' = IF editorMode = "visual" THEN buildRequestRuleExpr(requestRuleGroups)
                              ELSE requestRuleExpr
        /\ UNCHANGED <<exprMap, model, pricingMode>>
        /\ InitDue => Initialise
        /\ ~InitDue => UNCHANGED <<editorMode, visualConfig, rawExpr, requestRuleGroups>>
    BY DEF Commit
  <1>k. /\ requestRuleExpr \in PlainRules /\ OneRule(rawExpr) /\ requestRuleGroups \in PlainGroups
        /\ editorMode \in {"visual", "raw"}
        /\ DOMAIN exprMap = Models /\ \A m \in Models : OneRule(exprMap[m])
        /\ model \in Models \cup {Closed} /\ pricingMode \in {"tiered_expr", "other"}
    BY DEF EInv, Kinds
  <1>2. Bare(billingExpr') BY <1>1, EffectiveBare
  <1>3. requestRuleExpr' \in PlainRules BY <1>1, <1>k, BuildPlain
  <1>4. InitDue /\ editorMode = "visual" => buildRequestRuleExpr(requestRuleGroups) = requestRuleExpr
    BY <1>1 DEF InitDue, EInv, RulesKept
  <1>5. /\ OneRule(rawExpr') /\ requestRuleGroups' \in PlainGroups /\ editorMode' \in {"visual", "raw"}
    BY <1>1, <1>k, InitialiseKeeps
  <1>6. Kinds' BY <1>1, <1>k, <1>2, <1>3, <1>5 DEF Kinds
  <1>7. Synced'
    <2> SUFFICES ASSUME Mounted', seen' = Deps'
                 PROVE  /\ billingExpr' = effectiveExpr'
                        /\ editorMode' = "visual" =>
                              requestRuleExpr' = buildRequestRuleExpr(requestRuleGroups')
      BY DEF Synced
    <2>1. Deps' = Deps BY <1>1
    <2>2. /\ editorMode' = editorMode /\ effectiveExpr' = effectiveExpr
          /\ requestRuleGroups' = requestRuleGroups
      BY <2>1 DEF Deps
    <2> QED BY <1>1, <2>2
  <1>8. ASSUME editorMode' = "raw" PROVE rawExpr' = NoText \/ requestRuleExpr' = RulesOf(rawExpr')
    <2>1. CASE ~InitDue
      <3>1. editorMode = "raw" /\ rawExpr' = rawExpr /\ requestRuleExpr' = requestRuleExpr
        BY <1>1, <1>8, <2>1
      <3> QED BY <1>1, <3>1 DEF EInv, RulesKept
    <2>2. CASE InitDue
      <3>1. requestRuleExpr' = requestRuleExpr BY <1>1, <1>4, <2>2
      <3>2. CASE billingExpr # NoText BY <1>1, <2>2, <3>1, <3>2, InitialiseKeeps
      <3>3. CASE billingExpr = NoText
        <4>1. rawExpr' = NoText BY <1>1, <2>2, <3>3, InitialiseKeeps DEF combineBillingExpr
        <4> QED BY <4>1
      <3> QED BY <3>2, <3>3
    <2> QED BY <2>1, <2>2
  <1>9. ASSUME editorMode' = "visual"
        PROVE  requestRuleExpr' = buildRequestRuleExpr(requestRuleGroups')
    <2>1. CASE ~InitDue BY <1>1, <1>9, <2>1
    <2>2. CASE InitDue
      <3>1. requestRuleExpr' = requestRuleExpr BY <1>1, <1>4, <2>2
      <3> QED BY <1>1, <2>2, <3>1, InitialiseKeeps
    <2> QED BY <2>1, <2>2
  <1>10. RulesKept' BY <1>8, <1>9 DEF RulesKept
  <1> QED BY <1>6, <1>7, <1>10 DEF EInv

LEMMA TiersEInv ==
    ASSUME EInv, NEW tiers, ChangeTiers(tiers)
    PROVE  EInv'
  <1>1. /\ Mounted /\ Settled
        /\ UNCHANGED <<exprMap, seen, model, pricingMode, billingExpr, requestRuleExpr, editorMode, rawExpr,
                       requestRuleGroups>>
    BY DEF ChangeTiers, EditsVisually, Edits, Acts
  <1>2. Kinds' BY <1>1 DEF EInv, Kinds
  <1>3. Synced' BY <1>1, SyncedStep DEF EInv
  <1>4. RulesKept' BY <1>1 DEF EInv, RulesKept, Mounted
  <1> QED BY <1>2, <1>3, <1>4 DEF EInv

LEMMA GroupsEInv ==
    ASSUME EInv, NEW groups \in PlainGroups, handleRuleGroupsChange(groups)
    PROVE  EInv'
  <1>1. /\ Mounted /\ Settled /\ editorMode = "visual" /\ requestRuleGroups' = groups
        /\ UNCHANGED <<exprMap, seen, model, pricingMode, billingExpr, requestRuleExpr, editorMode, rawExpr>>
    BY DEF handleRuleGroupsChange, EditsVisually, Edits, Acts
  <1>2. Kinds' BY <1>1 DEF EInv, Kinds
  <1>3. Synced' BY <1>1, SyncedStep DEF EInv
  <1>4. seen' # Unmounted /\ seen'[2] = billingExpr' /\ seen'[3] = requestRuleExpr' BY <1>1, SettledRules
  <1>5. RulesKept' BY <1>1, <1>4 DEF RulesKept
  <1> QED BY <1>2, <1>3, <1>5 DEF EInv

\* The groups the form can make of plain ones.
LEMMA GroupsPlain ==
    ASSUME NEW groups \in PlainGroups
    PROVE  /\ Append(groups, <<"blank">>) \in PlainGroups
           /\ \A i \in DOMAIN groups : RemoveAt(groups, i) \in PlainGroups
           /\ \A i \in DOMAIN groups, c \in {"blank", "plain"} :
                 [groups EXCEPT ![i] = <<c>>] \in PlainGroups
  <1> DEFINE G == Seq({"blank", "plain"})
  <1>1. \A c \in {"blank", "plain"} : <<c>> \in G OBVIOUS
  <1> HIDE DEF G
  <1>2. groups \in Seq(G) /\ DOMAIN groups = 1..Len(groups) /\ Len(groups) \in Nat BY DEF PlainGroups, G
  <1>3. Append(groups, <<"blank">>) \in Seq(G) BY <1>1, <1>2
  <1>4. ASSUME NEW i \in DOMAIN groups PROVE RemoveAt(groups, i) \in Seq(G)
    <2>1. SubSeq(groups, 1, i - 1) \in Seq(G)
      <3>1. \A j \in 1..(i - 1) : groups[j] \in G BY <1>2
      <3> QED BY <1>2, <3>1, SubSeqProperties
    <2>2. SubSeq(groups, i + 1, Len(groups)) \in Seq(G)
      <3>1. \A j \in (i + 1)..Len(groups) : groups[j] \in G BY <1>2
      <3> QED BY <1>2, <3>1, SubSeqProperties
    <2>3. SubSeq(groups, 1, i - 1) \o SubSeq(groups, i + 1, Len(groups)) \in Seq(G)
      BY <2>1, <2>2, ConcatProperties, Zenon
    <2> QED BY <2>3 DEF RemoveAt
  <1>5. \A i \in DOMAIN groups, c \in {"blank", "plain"} : [groups EXCEPT ![i] = <<c>>] \in Seq(G)
    BY <1>1, <1>2, ExceptSeq
  <1> QED BY <1>3, <1>4, <1>5 DEF PlainGroups, G

LEMMA RawEInv ==
    ASSUME EInv, NEW text, OneRule(text), handleRawChange(text)
    PROVE  EInv'
  <1>1. /\ Mounted /\ Settled /\ editorMode = "raw" /\ rawExpr' = text /\ requestRuleExpr' = RulesOf(text)
        /\ UNCHANGED <<exprMap, seen, model, pricingMode, billingExpr, editorMode, requestRuleGroups>>
    BY DEF handleRawChange, Edits, Acts, RulesOf
  <1>2. requestRuleExpr' \in PlainRules BY <1>1, SplitOf DEF OneRule
  <1>3. Kinds' BY <1>1, <1>2 DEF EInv, Kinds
  <1>4. Synced' BY <1>1, SyncedStep DEF EInv
  <1>5. RulesKept' BY <1>1 DEF RulesKept
  <1> QED BY <1>3, <1>4, <1>5 DEF EInv

LEMMA ModeEInv ==
    ASSUME EInv, handleModeChange
    PROVE  EInv'
  <1>1. /\ Mounted /\ Settled /\ UNCHANGED <<exprMap, seen, model, pricingMode, billingExpr>>
    BY DEF handleModeChange, Acts
  <1>k. /\ requestRuleExpr \in PlainRules /\ requestRuleGroups \in PlainGroups /\ OneRule(rawExpr)
    BY DEF EInv, Kinds
  <1>2. Synced' BY <1>1, SyncedStep DEF EInv
  <1>3. CASE ToRaw
    <2> DEFINE g == generateExprFromVisualConfig(visualConfig)
               r == buildRequestRuleExpr(requestRuleGroups)
    <2>1. /\ editorMode = "visual" /\ editorMode' = "raw" /\ rawExpr' = combineBillingExpr(g, r)
          /\ UNCHANGED <<requestRuleGroups, requestRuleExpr>>
      BY <1>3 DEF ToRaw
    <2>2. requestRuleExpr = r BY <1>1, <2>1 DEF EInv, Synced, Settled
    <2>3. Bare(g) /\ g # NoText BY Generated
    <2> HIDE DEF g, r
    <2>4. OneRule(rawExpr') /\ RulesOf(rawExpr') = r BY <1>k, <2>1, <2>2, <2>3, SplitAgain
    <2>5. Kinds' BY <1>1, <2>1, <2>4 DEF EInv, Kinds
    <2>6. RulesKept' BY <2>1, <2>2, <2>4 DEF RulesKept
    <2> QED BY <1>2, <2>5, <2>6 DEF EInv
  <1>4. CASE ToVisual
    <2> DEFINE r == RulesOf(rawExpr)
    <2>1. /\ editorMode' = "visual" /\ requestRuleExpr' = r /\ requestRuleGroups' = RulesOrNone(r)
          /\ UNCHANGED rawExpr
      BY <1>4 DEF ToVisual, RulesOf
    <2>2. r \in PlainRules BY <1>k, SplitOf DEF OneRule
    <2> HIDE DEF r
    <2>3. /\ requestRuleGroups' \in PlainGroups
          /\ requestRuleExpr' = buildRequestRuleExpr(requestRuleGroups')
      BY <2>1, <2>2, PlainRead, BuildAgain
    <2>4. Kinds' BY <1>1, <2>1, <2>2, <2>3 DEF EInv, Kinds
    <2>5. RulesKept' BY <2>1, <2>3 DEF RulesKept
    <2> QED BY <1>2, <2>4, <2>5 DEF EInv
  <1> QED BY <1>3, <1>4 DEF handleModeChange

LEMMA PresetEInv ==
    ASSUME EInv, NEW groups \in PlainGroups, applyPreset(groups)
    PROVE  EInv'
  <1> DEFINE config == <<Tier(TRUE, 1), Tier(FALSE, 1)>>
             r == buildRequestRuleExpr(groups)
  <1>1. /\ Mounted /\ Settled /\ UNCHANGED <<exprMap, seen, model, pricingMode, billingExpr>>
        /\ editorMode' = "visual" /\ requestRuleGroups' = groups /\ requestRuleExpr' = r
        /\ rawExpr' = combineBillingExpr(Tiers(config), r)
    BY DEF applyPreset, Edits, Acts
  <1>2. r \in PlainRules BY BuildPlain
  <1>3. Bare(Tiers(config))
    <2>1. Tiers(config).base # NoText.base
      <3>1. Tiers(config).base.kind = "tiers" /\ NoText.base.kind = "none"
        BY DEF Tiers, NoText, Text, Base
      <3> QED BY <3>1
    <2>2. Tiers(config) = Text(Tiers(config).base, <<>>) /\ Tiers(config).layers = <<>>
      BY DEF Tiers, Text
    <2>3. \A X : <<>> \in Seq(X) OBVIOUS
    <2> HIDE DEF config
    <2>4. /\ Tiers(config).base = Base(Tiers(config).base.kind, Tiers(config).base.tiers)
          /\ Tiers(config).base.kind = "tiers"
      BY DEF Tiers, Text, Base
    <2> QED BY <2>1, <2>2, <2>3, <2>4 DEF Bare, WellFormed
  <1> HIDE DEF config, r
  <1>4. OneRule(rawExpr') BY <1>1, <1>2, <1>3, SplitAgain
  <1>5. Kinds' BY <1>1, <1>2, <1>4 DEF EInv, Kinds
  <1>6. Synced' BY <1>1, SyncedStep DEF EInv
  <1>7. RulesKept' BY <1>1 DEF RulesKept, r
  <1> QED BY <1>5, <1>6, <1>7 DEF EInv

LEMMA OpenEInv ==
    ASSUME EInv, PlainEditor, NEW m \in Models, Open(m)
    PROVE  EInv'
  <1> DEFINE b == BaseOf(exprMap[m])
             r == RulesOf(exprMap[m])
  <1>1. model = Closed BY DEF Open, PlainEditor
  <1>2. /\ Mount(b, r) /\ billingExpr' = b /\ requestRuleExpr' = r /\ model' = m /\ UNCHANGED exprMap
        /\ pricingMode' \in {"tiered_expr", "other"}
    BY <1>1 DEF Open, Mounted, BaseOf, RulesOf
  <1>3. Bare(b) /\ r \in PlainRules
    <2>1. OneRule(exprMap[m]) BY DEF EInv, Kinds
    <2> QED BY <2>1, SplitOf DEF OneRule, BaseOf
  <1> HIDE DEF b, r
  <1>4. /\ OneRule(rawExpr') /\ requestRuleGroups' \in PlainGroups /\ editorMode' = "visual"
        /\ Synced' /\ RulesKept'
    BY <1>2, <1>3, MountKeeps
  <1>5. Kinds' BY <1>2, <1>3, <1>4 DEF EInv, Kinds
  <1> QED BY <1>4, <1>5 DEF EInv

LEMMA TabEInv ==
    ASSUME EInv, ChangeTab
    PROVE  EInv'
  <1> DEFINE expr == IF billingExpr = NoText THEN Tiers(DefaultConfig) ELSE billingExpr
  <1>k. requestRuleExpr \in PlainRules /\ Bare(billingExpr) BY DEF EInv, Kinds
  <1>1. UNCHANGED <<exprMap, model, requestRuleExpr>> BY DEF ChangeTab
  <1>2. CASE pricingMode = "other"
    <2>1. pricingMode' = "tiered_expr" /\ billingExpr' = expr /\ Mount(expr, requestRuleExpr)
      BY <1>2 DEF ChangeTab
    <2>2. Bare(expr)
      <3>1. Tiers(DefaultConfig) = generateExprFromVisualConfig(DefaultConfig)
        BY DEF generateExprFromVisualConfig, DefaultConfig
      <3>2. Bare(Tiers(DefaultConfig)) BY <3>1, Generated
      <3> QED BY <1>k, <3>2
    <2> HIDE DEF expr
    <2>3. /\ OneRule(rawExpr') /\ requestRuleGroups' \in PlainGroups /\ editorMode' = "visual"
          /\ Synced' /\ RulesKept'
      BY <1>k, <1>1, <2>1, <2>2, MountKeeps
    <2>4. Kinds' BY <1>1, <2>1, <2>2, <2>3 DEF EInv, Kinds
    <2> QED BY <2>3, <2>4 DEF EInv
  <1>3. CASE pricingMode # "other"
    <2>1. pricingMode' = "other" /\ UNCHANGED <<billingExpr, editor, seen>> BY <1>3 DEF ChangeTab
    <2>2. ~Mounted' BY <2>1 DEF Mounted
    <2>3. Kinds' BY <1>1, <2>1 DEF EInv, Kinds, editor
    <2> QED BY <2>2, <2>3 DEF EInv, Synced, RulesKept
  <1> QED BY <1>2, <1>3

LEMMA CloseEInv ==
    ASSUME EInv, Close
    PROVE  EInv'
  <1>1. model' = Closed /\ UNCHANGED <<exprMap, pricingMode, billingExpr, requestRuleExpr, editor, seen>>
    BY DEF Close
  <1>2. ~Mounted' BY <1>1 DEF Mounted
  <1>3. Kinds' BY <1>1 DEF EInv, Kinds, editor
  <1> QED BY <1>2, <1>3 DEF EInv, Synced, RulesKept

LEMMA SaveEInv ==
    ASSUME EInv, Save
    PROVE  EInv'
  <1> DEFINE text == IF pricingMode = "other" THEN NoText
                     ELSE combineBillingExpr(billingExpr, requestRuleExpr)
  <1>1. /\ exprMap' = [exprMap EXCEPT ![model] = text] /\ model # Closed
        /\ UNCHANGED <<model, pricingMode, editorMode, visualConfig, rawExpr, requestRuleGroups, seen>>
        /\ pricingMode # "other" => UNCHANGED <<billingExpr, requestRuleExpr>>
        /\ pricingMode = "other" => billingExpr' = NoText /\ requestRuleExpr' = <<>>
    BY DEF Save, editor
  <1>2. OneRule(text) BY SplitAgain, NoTextParts DEF EInv, Kinds
  <1> HIDE DEF text
  <1>k. Bare(billingExpr') /\ requestRuleExpr' \in PlainRules
    <2>1. <<>> \in PlainRules BY DEF PlainRules
    <2> QED BY <1>1, <2>1, NoTextParts DEF EInv, Kinds
  <1>3. Kinds' BY <1>1, <1>2, <1>k DEF EInv, Kinds
  <1>4. effectiveExpr' = effectiveExpr BY <1>1 DEF effectiveExpr
  <1>5. Synced' BY <1>1, <1>4 DEF EInv, Synced, Mounted, Deps
  <1>6. RulesKept' BY <1>1 DEF EInv, RulesKept, Mounted
  <1> QED BY <1>3, <1>5, <1>6 DEF EInv

LEMMA InitEInv ==
    ASSUME PlainEditor, Init
    PROVE  EInv
  <1>1. \A m \in Models : OneRule(exprMap[m]) BY DEF Init, PlainEditor
  <1>2. <<>> \in PlainRules /\ <<>> \in PlainGroups BY DEF PlainRules, PlainGroups
  <1>3. Kinds BY <1>1, <1>2, NoTextParts DEF Init, Kinds
  <1>4. ~Mounted BY DEF Init, Mounted
  <1> QED BY <1>3, <1>4 DEF EInv, Synced, RulesKept

\* A step that is no step.
LEMMA IdleEInv ==
    ASSUME EInv, UNCHANGED vars
    PROVE  EInv'
  <1>1. UNCHANGED <<exprMap, model, pricingMode, billingExpr, requestRuleExpr, editorMode, visualConfig,
                    rawExpr, requestRuleGroups, initRef, seen>>
    BY DEF vars, panel, editor
  <1>2. effectiveExpr' = effectiveExpr BY <1>1 DEF effectiveExpr
  <1>3. Kinds' BY <1>1 DEF EInv, Kinds
  <1>4. Synced' BY <1>1, <1>2 DEF EInv, Synced, Mounted, Deps
  <1>5. RulesKept' BY <1>1 DEF EInv, RulesKept, Mounted
  <1> QED BY <1>3, <1>4, <1>5 DEF EInv

LEMMA NextEInv ==
    ASSUME PlainEditor, EInv, [Next]_vars
    PROVE  EInv'
  <1>g. requestRuleGroups \in PlainGroups BY DEF EInv, Kinds
  <1>1. CASE UNCHANGED vars BY <1>1, IdleEInv
  <1>2. CASE Commit BY <1>2, CommitEInv
  <1>3. ASSUME NEW m \in Models, Open(m) PROVE EInv' BY <1>3, OpenEInv
  <1>4. CASE ChangeTab \/ Close \/ Save BY <1>4, TabEInv, CloseEInv, SaveEInv
  <1>5. ASSUME NEW i, NEW tier, handleTierChange(i, tier) PROVE EInv'
    BY <1>5, TiersEInv DEF handleTierChange
  <1>6. CASE handleAddTier BY <1>6, TiersEInv DEF handleAddTier
  <1>7. ASSUME NEW i, handleRemoveTier(i) PROVE EInv' BY <1>7, TiersEInv DEF handleRemoveTier
  <1>8. CASE AddRuleGroup BY <1>g, <1>8, GroupsPlain, GroupsEInv DEF AddRuleGroup
  <1>9. ASSUME NEW i, RemoveRuleGroup(i) PROVE EInv'
    BY <1>g, <1>9, GroupsPlain, GroupsEInv DEF RemoveRuleGroup
  <1>10. ASSUME NEW i, NEW c \in Conditions, ChangeCondition(i, c) PROVE EInv'
    <2>1. c \in {"blank", "plain"} BY DEF PlainEditor
    <2>2. i \in DOMAIN requestRuleGroups /\ handleRuleGroupsChange([requestRuleGroups EXCEPT ![i] = <<c>>])
      BY <1>10 DEF ChangeCondition
    <2> QED BY <1>g, <2>1, <2>2, GroupsPlain, GroupsEInv
  <1>11. ASSUME NEW text \in Typed, handleRawChange(text) PROVE EInv'
    BY <1>11, RawEInv DEF PlainEditor
  <1>12. CASE handleModeChange BY <1>12, ModeEInv
  <1>13. ASSUME NEW groups \in Presets, applyPreset(groups) PROVE EInv'
    BY <1>13, PresetEInv DEF PlainEditor
  <1> QED
    BY <1>1, <1>2, <1>3, <1>4, <1>5, <1>6, <1>7, <1>8, <1>9, <1>10, <1>11, <1>12, <1>13 DEF Next

\* What a save would store is what the editor shows, once its effects have settled, whatever the user
\* has typed, chosen, preset and switched between the two forms and the tabs before
\* (tiered-pricing-editor.tsx, model-pricing-sheet.tsx): for any number of models, tiers and rules.
THEOREM SavesWhatIsShown ==
    ASSUME PlainEditor
    PROVE  Spec => []SavedIsShown
  <1>1. ASSUME EInv PROVE SavedIsShown
    <2> SUFFICES ASSUME Mounted, Settled
                 PROVE  combineBillingExpr(billingExpr, requestRuleExpr) = Shown
      BY DEF SavedIsShown
    <2>1. /\ billingExpr = effectiveExpr
          /\ editorMode = "visual" => requestRuleExpr = buildRequestRuleExpr(requestRuleGroups)
      BY <1>1 DEF Settled, EInv, Synced
    <2>2. CASE editorMode = "visual" BY <2>1, <2>2 DEF Shown
    <2>3. CASE editorMode = "raw"
      <3>1. billingExpr = BaseOf(rawExpr) /\ Shown = rawExpr
        BY <2>1, <2>3 DEF effectiveExpr, BaseOf, Shown
      <3>2. combineBillingExpr(BaseOf(rawExpr), RulesOf(rawExpr)) = rawExpr
        BY <1>1, SplitOf DEF EInv, Kinds, OneRule
      <3>3. CASE rawExpr = NoText
        <4>1. billingExpr = NoText BY <3>1, <3>3, NoTextParts
        <4> QED BY <3>1, <3>3, <4>1 DEF combineBillingExpr
      <3>4. CASE rawExpr # NoText
        <4>1. requestRuleExpr = RulesOf(rawExpr) BY <1>1, <2>3, <3>4 DEF EInv, RulesKept
        <4> QED BY <3>1, <3>2, <4>1
      <3> QED BY <3>3, <3>4
    <2> QED BY <1>1, <2>2, <2>3 DEF EInv, Kinds
  <1>2. Init => EInv BY InitEInv
  <1>3. EInv /\ [Next]_vars => EInv' BY NextEInv
  <1>4. EInv => SavedIsShown BY <1>1
  <1> QED BY <1>2, <1>3, <1>4, PTL DEF Spec

-----------------------------------------------------------------------------
\* What nobody has touched.

LEMMA TouchedUnchanged ==
    ASSUME touched'
    PROVE  Unchanged'
  BY DEF Unchanged

LEMMA CommitUnchanged ==
    ASSUME EInv, Unchanged, Commit
    PROVE  Unchanged'
  <1>1. /\ Mounted /\ billingExpr' = effectiveExpr
        /\ requestRuleExpr' = IF editorMode = "visual" THEN buildRequestRuleExpr(requestRuleGroups)
                              ELSE requestRuleExpr
        /\ UNCHANGED <<exprMap, model, pricingMode, touched>>
        /\ InitDue => Initialise
        /\ ~InitDue => UNCHANGED <<editorMode, visualConfig, rawExpr, requestRuleGroups>>
    BY DEF Commit
  <1> SUFFICES ASSUME model # Closed, ~touched PROVE Unchanged'
    BY <1>1 DEF Unchanged
  <1>2. /\ (exprMap[model] = NoText) = (pricingMode = "other") /\ billingExpr # NoText
        /\ editorMode = "raw" => rawExpr # NoText
    BY <1>1 DEF Unchanged
  <1>k. /\ OneRule(rawExpr) /\ editorMode \in {"visual", "raw"} /\ Bare(billingExpr)
        /\ requestRuleExpr \in PlainRules
    BY DEF EInv, Kinds
  <1>3. billingExpr' # NoText
    <2>1. CASE editorMode = "visual" BY <1>1, <2>1, EffectiveBare
    <2>2. CASE editorMode = "raw"
      <3>1. effectiveExpr = BaseOf(rawExpr) BY <2>2 DEF effectiveExpr, BaseOf
      <3> QED BY <1>1, <1>2, <1>k, <2>2, <3>1, SplitOf DEF OneRule
    <2> QED BY <1>k, <2>1, <2>2
  <1>4. editorMode' = "raw" => rawExpr' # NoText BY <1>1, <1>2, InitialiseKeeps
  <1>b. PICK b : b = BaseOf(exprMap[model]) OBVIOUS
  <1>r. PICK r : r = RulesOf(exprMap[model]) OBVIOUS
  <1>5. ASSUME Readable(exprMap[model])
        PROVE  /\ billingExpr' \in Spellings(b) /\ requestRuleExpr' = r
               /\ editorMode' = "visual" =>
                     /\ generateExprFromVisualConfig(visualConfig') = Rewritten(b)
                     /\ buildRequestRuleExpr(requestRuleGroups') = r
               /\ editorMode' = "raw" => BaseOf(rawExpr') \in Spellings(b) /\ RulesOf(rawExpr') = r
    <2>1. /\ billingExpr \in Spellings(b) /\ requestRuleExpr = r
          /\ editorMode = "visual" =>
                /\ generateExprFromVisualConfig(visualConfig) = Rewritten(b)
                /\ buildRequestRuleExpr(requestRuleGroups) = r
          /\ editorMode = "raw" => BaseOf(rawExpr) \in Spellings(b) /\ RulesOf(rawExpr) = r
      BY <1>1, <1>5, <1>b, <1>r DEF Unchanged, Holds
    <2>2. effectiveExpr \in Spellings(b)
      BY <1>k, <2>1 DEF effectiveExpr, BaseOf, Spellings
    <2>3. billingExpr' \in Spellings(b) /\ requestRuleExpr' = r
      BY <1>1, <1>k, <2>1, <2>2
    <2>4. CASE ~InitDue BY <1>1, <2>1, <2>3, <2>4
    <2>5. CASE InitDue
      <3>1. exprMap[model] # NoText /\ model \in Models BY <1>1, <1>2 DEF Mounted, EInv, Kinds
      <3>2. b.base.kind # "sum" /\ tryParseVisualConfig(b) # <<>> /\ WellFormed(b)
        BY <1>5, <1>b, <3>1 DEF Readable, BaseOf, EInv, Kinds, OneRule, Bare
      <3>3. tryParseVisualConfig(billingExpr) # <<>> /\ Rewritten(billingExpr) = Rewritten(b)
        BY <2>1, <3>2, Parsed
      <3>4. visualConfig' = tryParseVisualConfig(billingExpr) /\ editorMode' = "visual"
        BY <1>1, <1>2, <2>5, <3>3 DEF Initialise
      <3>5. generateExprFromVisualConfig(visualConfig') = Rewritten(b) BY <3>3, <3>4 DEF Rewritten
      <3>6. buildRequestRuleExpr(requestRuleGroups') = r BY <1>1, <2>1, <2>5, InitialiseKeeps
      <3> QED BY <2>3, <3>4, <3>5, <3>6
    <2> QED BY <2>4, <2>5
  <1>6. exprMap'[model'] = exprMap[model] BY <1>1
  <1> QED BY <1>1, <1>2, <1>3, <1>4, <1>5, <1>6, <1>b, <1>r DEF Unchanged, Holds

LEMMA ModeUnchanged ==
    ASSUME EInv, Unchanged, handleModeChange
    PROVE  Unchanged'
  <1>1. /\ Mounted /\ Settled /\ UNCHANGED <<exprMap, model, pricingMode, billingExpr, touched>>
    BY DEF handleModeChange, Acts
  <1> SUFFICES ASSUME model # Closed, ~touched PROVE Unchanged'
    BY <1>1 DEF Unchanged
  <1>2. /\ (exprMap[model] = NoText) = (pricingMode = "other") /\ billingExpr # NoText
        /\ exprMap[model] # NoText
    BY <1>1 DEF Unchanged, Mounted
  <1>k. /\ OneRule(rawExpr) /\ Bare(billingExpr) /\ requestRuleExpr \in PlainRules
    BY DEF EInv, Kinds
  <1>b. PICK b : b = BaseOf(exprMap[model]) OBVIOUS
  <1>e. PICK e : e = RulesOf(exprMap[model]) OBVIOUS
  <1>r. Readable(exprMap[model]) =>
          /\ billingExpr \in Spellings(b) /\ requestRuleExpr = e
          /\ editorMode = "visual" =>
                /\ generateExprFromVisualConfig(visualConfig) = Rewritten(b)
                /\ buildRequestRuleExpr(requestRuleGroups) = e
          /\ editorMode = "raw" => BaseOf(rawExpr) \in Spellings(b) /\ RulesOf(rawExpr) = e
    BY <1>1, <1>b, <1>e DEF Unchanged, Holds
  <1>x. exprMap'[model'] = exprMap[model] BY <1>1
  <1>3. CASE ToRaw
    <2> DEFINE g == generateExprFromVisualConfig(visualConfig)
               r == buildRequestRuleExpr(requestRuleGroups)
    <2>1. /\ editorMode = "visual" /\ editorMode' = "raw" /\ rawExpr' = combineBillingExpr(g, r)
          /\ UNCHANGED requestRuleExpr
      BY <1>3 DEF ToRaw
    <2>2. requestRuleExpr = r BY <1>1, <2>1 DEF EInv, Synced, Settled
    <2>3. Bare(g) /\ g # NoText BY Generated
    <2>4. rawExpr' # NoText /\ BaseOf(rawExpr') = g /\ RulesOf(rawExpr') = r
      <3> HIDE DEF g, r
      <3> QED BY <1>k, <2>1, <2>2, <2>3, SplitAgain
    <2>5. BaseOf(rawExpr') = generateExprFromVisualConfig(visualConfig) BY <2>4
    <2>6. Readable(exprMap[model]) => BaseOf(rawExpr') \in Spellings(b) /\ RulesOf(rawExpr') = e
      BY <1>r, <2>1, <2>4, <2>5 DEF Spellings
    <2> HIDE DEF g, r
    <2> QED BY <1>1, <1>2, <1>b, <1>e, <1>r, <1>x, <2>1, <2>4, <2>6 DEF Unchanged, Holds
  <1>4. CASE ToVisual
    <2>1. /\ editorMode = "raw" /\ editorMode' = "visual" /\ requestRuleExpr' = RulesOf(rawExpr)
          /\ requestRuleGroups' = RulesOrNone(RulesOf(rawExpr))
          /\ visualConfig' = normalizeVisualConfig(tryParseVisualConfig(BaseOf(rawExpr)))
      BY <1>4 DEF ToVisual, RulesOf, BaseOf
    <2>2. RulesOf(rawExpr) \in PlainRules BY <1>k, SplitOf DEF OneRule
    <2>3. buildRequestRuleExpr(requestRuleGroups') = requestRuleExpr'
      BY <2>1, <2>2, PlainRead, BuildAgain
    <2>4. ASSUME Readable(exprMap[model])
          PROVE  requestRuleExpr' = e /\ generateExprFromVisualConfig(visualConfig') = Rewritten(b)
      <3>1. BaseOf(rawExpr) \in Spellings(b) /\ RulesOf(rawExpr) = e BY <1>r, <2>1, <2>4
      <3>2. b.base.kind # "sum" /\ tryParseVisualConfig(b) # <<>> /\ WellFormed(b)
        <4>1. model \in Models BY <1>1 DEF EInv, Kinds, Mounted
        <4> QED BY <1>2, <1>b, <2>4, <4>1 DEF Readable, BaseOf, EInv, Kinds, OneRule, Bare
      <3>3. /\ tryParseVisualConfig(BaseOf(rawExpr)) # <<>>
            /\ Rewritten(BaseOf(rawExpr)) = Rewritten(b)
        BY <3>1, <3>2, Parsed
      <3>4. visualConfig' = tryParseVisualConfig(BaseOf(rawExpr))
        BY <2>1, <3>3 DEF normalizeVisualConfig
      <3> QED BY <2>1, <3>1, <3>3, <3>4 DEF Rewritten
    <2> QED BY <1>1, <1>2, <1>b, <1>e, <1>r, <1>x, <2>1, <2>3, <2>4 DEF Unchanged, Holds
  <1> QED BY <1>3, <1>4 DEF handleModeChange

LEMMA OpenUnchanged ==
    ASSUME EInv, PlainEditor, NEW m \in Models, Open(m)
    PROVE  Unchanged'
  <1> DEFINE b == BaseOf(exprMap[m])
             r == RulesOf(exprMap[m])
  <1>1. model = Closed BY DEF Open, PlainEditor
  <1>2. /\ Mount(b, r) /\ billingExpr' = b /\ requestRuleExpr' = r /\ model' = m /\ UNCHANGED exprMap
        /\ pricingMode' = IF exprMap[m] = NoText THEN "other" ELSE "tiered_expr"
    BY <1>1 DEF Open, Mounted, BaseOf, RulesOf
  <1>3. Bare(b) /\ r \in PlainRules /\ (exprMap[m] # NoText => b # NoText)
    <2>1. OneRule(exprMap[m]) BY DEF EInv, Kinds
    <2> QED BY <2>1, SplitOf DEF OneRule, BaseOf
  <1>4. editorMode' = "visual" /\ buildRequestRuleExpr(requestRuleGroups') = requestRuleExpr'
    <2> HIDE DEF b, r
    <2> QED BY <1>2, <1>3, MountKeeps
  <1>5. generateExprFromVisualConfig(visualConfig') = Rewritten(b) BY <1>2 DEF Mount, Rewritten
  <1>6. Mounted' => exprMap[m] # NoText BY <1>2 DEF Mounted
  <1>7. (exprMap'[model'] = NoText) = (pricingMode' = "other") BY <1>2
  <1>8. exprMap'[model'] = exprMap[m] BY <1>2
  <1>9. Holds(BaseOf(exprMap[model]), RulesOf(exprMap[model]))'
    BY <1>2, <1>4, <1>5, <1>8 DEF Holds, Spellings
  <1> QED BY <1>2, <1>3, <1>4, <1>6, <1>7, <1>9 DEF Unchanged

LEMMA SaveUnchanged ==
    ASSUME EInv, Unchanged, Save
    PROVE  /\ Unchanged'
           /\ \A m \in Models : Charge(exprMap'[m]) # Charge(exprMap[m]) /\ Readable(exprMap[m])
                 => m = model /\ touched
  <1> DEFINE text == IF pricingMode = "other" THEN NoText
                     ELSE combineBillingExpr(billingExpr, requestRuleExpr)
  <1>1. /\ exprMap' = [exprMap EXCEPT ![model] = text] /\ model # Closed /\ Settled
        /\ UNCHANGED <<model, pricingMode, editorMode, visualConfig, rawExpr, requestRuleGroups, touched>>
        /\ pricingMode # "other" => UNCHANGED <<billingExpr, requestRuleExpr>>
    BY DEF Save, editor, Acts
  <1>k. /\ DOMAIN exprMap = Models /\ model \in Models /\ Bare(billingExpr) /\ requestRuleExpr \in PlainRules
        /\ pricingMode \in {"tiered_expr", "other"} /\ editorMode \in {"visual", "raw"}
        /\ OneRule(exprMap[model])
    BY <1>1 DEF EInv, Kinds
  <1>2. exprMap'[model] = text /\ \A m \in Models : m # model => exprMap'[m] = exprMap[m]
    BY <1>1, <1>k
  <1>3. CASE touched BY <1>1, <1>2, <1>3 DEF Unchanged
  <1>4. CASE ~touched
    <2>u. /\ (exprMap[model] = NoText) = (pricingMode = "other")
          /\ Mounted => billingExpr # NoText
          /\ Mounted /\ editorMode = "raw" => rawExpr # NoText
      BY <1>1, <1>4 DEF Unchanged
    <2>1. CASE pricingMode = "other"
      <3>1. exprMap'[model] = exprMap[model] BY <1>2, <2>u, <2>1
      <3>2. ~Mounted' BY <1>1, <2>1 DEF Mounted
      <3> QED BY <1>1, <1>2, <2>u, <3>1, <3>2 DEF Unchanged
    <2>2. CASE pricingMode # "other"
      <3>1. Mounted /\ text = combineBillingExpr(billingExpr, requestRuleExpr)
        BY <1>1, <1>k, <2>2 DEF Mounted
      <3> HIDE DEF text
      <3>2. text # NoText /\ BaseOf(text) = billingExpr /\ RulesOf(text) = requestRuleExpr
        BY <1>k, <2>u, <3>1, SplitAgain
      <3>3. ASSUME Readable(exprMap[model]) PROVE Charge(text) = Charge(exprMap[model])
        <4> DEFINE b == BaseOf(exprMap[model])
                   r == RulesOf(exprMap[model])
        <4>1. billingExpr \in Spellings(b) /\ requestRuleExpr = r
          BY <1>1, <1>4, <3>1, <3>3 DEF Unchanged, Holds
        <4>2. combineBillingExpr(b, r) = exprMap[model] BY <1>k, SplitOf DEF OneRule
        <4>3. b.base.kind # "sum" /\ tryParseVisualConfig(b) # <<>> /\ WellFormed(b)
          BY <1>k, <2>u, <2>2, <3>3 DEF Readable, BaseOf, OneRule, Bare
        <4> HIDE DEF b, r
        <4>4. b \in Spellings(b) BY DEF Spellings
        <4>5. /\ Charge(combineBillingExpr(billingExpr, r)) = combineBillingExpr(Rewritten(b), r)
              /\ Charge(combineBillingExpr(b, r)) = combineBillingExpr(Rewritten(b), r)
          BY <4>1, <4>3, <4>4, Parsed
        <4> QED BY <3>1, <4>1, <4>2, <4>5
      <3>4. ASSUME Readable(text) PROVE Holds(billingExpr, requestRuleExpr)
        <4>1. /\ billingExpr = effectiveExpr
              /\ editorMode = "visual" => requestRuleExpr = buildRequestRuleExpr(requestRuleGroups)
          BY <1>1, <3>1 DEF Settled, EInv, Synced
        <4>2. editorMode = "raw" => requestRuleExpr = RulesOf(rawExpr)
          BY <2>u, <3>1 DEF EInv, RulesKept
        <4>3. tryParseVisualConfig(billingExpr) # <<>> BY <3>2, <3>4 DEF Readable, BaseOf
        <4>4. editorMode = "visual" => generateExprFromVisualConfig(visualConfig) = Rewritten(billingExpr)
          <5>1. editorMode = "visual" => billingExpr = generateExprFromVisualConfig(visualConfig)
            BY <4>1 DEF effectiveExpr
          <5> QED BY <4>3, <5>1, GeneratedAgain
        <4>5. editorMode = "raw" => BaseOf(rawExpr) = billingExpr BY <4>1 DEF effectiveExpr, BaseOf
        <4> QED BY <4>1, <4>2, <4>4, <4>5 DEF Holds, Spellings
      <3>5. Unchanged'
        <4>1. /\ model' = model /\ exprMap'[model'] = text
              /\ (exprMap'[model'] = NoText) = (pricingMode' = "other")
          BY <1>1, <1>2, <2>2, <3>2
        <4>2. /\ UNCHANGED <<billingExpr, requestRuleExpr, editorMode, visualConfig, rawExpr,
                             requestRuleGroups, pricingMode>>
          BY <1>1, <2>2
        <4>3. Readable(text) => Holds(billingExpr, requestRuleExpr)' BY <3>4, <4>2 DEF Holds
        <4> QED BY <2>u, <3>1, <3>2, <4>1, <4>2, <4>3 DEF Unchanged, Mounted, Holds
      <3> QED BY <1>2, <3>3, <3>5
    <2> QED BY <2>1, <2>2
  <1> QED BY <1>3, <1>4

\* Every step but Save leaves what is stored.
LEMMA NextUInv ==
    ASSUME PlainEditor, UInv, [Next]_vars
    PROVE  /\ Unchanged'
           /\ \A m \in Models : Charge(exprMap'[m]) # Charge(exprMap[m]) /\ Readable(exprMap[m])
                 => m = model /\ touched
  <1>e. EInv /\ Unchanged BY DEF UInv
  <1>1. CASE UNCHANGED vars
    <2>1. UNCHANGED <<exprMap, model, pricingMode, billingExpr, requestRuleExpr, editorMode, visualConfig,
                      rawExpr, requestRuleGroups, touched>>
      BY <1>1 DEF vars, panel, editor
    <2>2. Unchanged' BY <1>e, <2>1 DEF Unchanged, Mounted, Holds
    <2> QED BY <2>1, <2>2
  <1>2. CASE Commit BY <1>e, <1>2, CommitUnchanged DEF Commit
  <1>3. ASSUME NEW m \in Models, Open(m) PROVE Unchanged' /\ UNCHANGED exprMap
    BY <1>e, <1>3, OpenUnchanged DEF Open
  <1>4. CASE ChangeTab BY <1>4, TouchedUnchanged DEF ChangeTab
  <1>5. CASE Close BY <1>5 DEF Close, Unchanged
  <1>6. CASE Save BY <1>e, <1>6, SaveUnchanged
  <1>7. ASSUME Edits PROVE Unchanged' /\ UNCHANGED exprMap BY <1>7, TouchedUnchanged DEF Edits
  <1>8. CASE handleModeChange BY <1>e, <1>8, ModeUnchanged DEF handleModeChange
  <1>9. ASSUME NEW i, NEW tier, handleTierChange(i, tier) PROVE Edits
    BY <1>9 DEF handleTierChange, ChangeTiers, EditsVisually
  <1>10. CASE handleAddTier BY <1>7, <1>10 DEF handleAddTier, ChangeTiers, EditsVisually
  <1>11. ASSUME NEW i, handleRemoveTier(i) PROVE Edits
    BY <1>11 DEF handleRemoveTier, ChangeTiers, EditsVisually
  <1>12. CASE AddRuleGroup BY <1>7, <1>12 DEF AddRuleGroup, handleRuleGroupsChange, EditsVisually
  <1>13. ASSUME NEW i, RemoveRuleGroup(i) PROVE Edits
    BY <1>13 DEF RemoveRuleGroup, handleRuleGroupsChange, EditsVisually
  <1>14. ASSUME NEW i, NEW c, ChangeCondition(i, c) PROVE Edits
    BY <1>14 DEF ChangeCondition, handleRuleGroupsChange, EditsVisually
  <1>15. ASSUME NEW text, handleRawChange(text) PROVE Edits BY <1>15 DEF handleRawChange
  <1>16. ASSUME NEW groups, applyPreset(groups) PROVE Edits BY <1>16 DEF applyPreset
  <1> QED
    BY <1>1, <1>2, <1>3, <1>4, <1>5, <1>6, <1>7, <1>8, <1>9, <1>10, <1>11, <1>12, <1>13, <1>14, <1>15,
       <1>16 DEF Next

\* A save changes what an expression charges that the visual editor can show, with prices that are
\* numbers, only if the user has changed something since opening its model: mounting the editor, its
\* effects in any of their renderings and switching its form write back the tiers and rules they have
\* read, however they were spelled (tiered-pricing-editor.tsx, tryParseVisualConfig).
THEOREM OnlyTouchedChanges ==
    ASSUME PlainEditor
    PROVE  Spec => UntouchedKept
  <1>1. Init => UInv BY InitEInv DEF UInv, Init, Unchanged
  <1>2. UInv /\ [Next]_vars => UInv' BY NextUInv, NextEInv DEF UInv
  <1>3. UInv /\ [Next]_vars =>
          [\A m \in Models : Charge(exprMap'[m]) # Charge(exprMap[m]) /\ Readable(exprMap[m])
                => m = model /\ touched]_vars
    BY NextUInv
  <1> QED BY <1>1, <1>2, <1>3, PTL DEF Spec, UntouchedKept
=============================================================================
