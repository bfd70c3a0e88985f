---------------------------- MODULE PricingEditor ----------------------------
(***************************************************************************)
(* The pricing panel of the web front end's model settings: the panel that *)
(* opens a model's billing expression                                      *)
(* (system-settings/models/model-pricing-sheet.tsx), the tiered-pricing    *)
(* editor inside it (tiered-pricing-editor.tsx) with its visual and its    *)
(* expression mode, and the conversions between an expression and the two  *)
(* forms (pricing/lib/tier-expr.ts, pricing/lib/billing-expr.ts).          *)
(*                                                                         *)
(* The editor keeps the expression three times (the parsed tiers and rule  *)
(* groups, the raw text, and the panel's two strings) and four React       *)
(* effects copy between them.  Commit is one rendering with its effects:   *)
(* each effect sees the values of that rendering, and what it sets is seen *)
(* by the next one.                                                        *)
(*                                                                         *)
(* A text is ((base) * rules) * rules ...: a base and the layers of        *)
(* request rules multiplied onto it.  A base of kind "tiers" is what       *)
(* generateExprFromVisualConfig writes; "versioned" is the same behind     *)
(* v1:; "spelled" is a single tier written otherwise (p * 2.0); "sum" is   *)
(* one whose price the pattern takes but Number does not (p * 2+1); "zero" *)
(* is p * 0 + c * 0, "free" any other expression and "none" the empty      *)
(* string.  Space is left out.  A rule is the sequence of the && conjuncts *)
(* of its condition: a "plain" conjunct is one that                        *)
(* tryParseRequestCondition reads, a "test" is the second half of          *)
(* param(x) != nil && param(x) > n, which it reads only with its first.    *)
(***************************************************************************)
EXTENDS Integers, Sequences, SequencesExt

CONSTANTS Models,      \* the models of the price table
          Stored,      \* the texts a model may have at first
          Typed,       \* the texts a user may type in expression mode
          Presets,     \* the request rules of the presets offered
          Conditions,  \* the kinds of request conditions a user may choose
          MaxTiers,    \* bound: tiers of a visual configuration
          MaxGroups,   \* bound: request rule groups
          MaxEdits,    \* bound: steps of the user, over all
          Reopens      \* a row may be opened while the panel shows a model

ASSUME PricingEditorAssumption ==
    /\ Conditions \subseteq {"blank", "plain", "test"}
    /\ MaxTiers \in Nat /\ MaxGroups \in Nat /\ MaxEdits \in Nat
    /\ Reopens \in BOOLEAN

VARIABLES exprMap,      \* billing_setting.billing_expr of the form, per model
          model,        \* the model of editData, or Closed
          pricingMode,  \* the panel's tab: "tiered_expr" or "other"
          billingExpr,  \* the panel's strings
          requestRuleExpr,
          editorMode,   \* the editor's state: "visual" or "raw"
          visualConfig, \* the tiers, or <<>> for null
          rawExpr,
          requestRuleGroups,
          initRef,      \* initRef.current
          seen,         \* the dependencies of the last rendering's effects
          touched,      \* the user has changed something since opening the model
          edits         \* steps of the user so far

panel == <<model, pricingMode, billingExpr, requestRuleExpr>>
editor == <<editorMode, visualConfig, rawExpr, requestRuleGroups, initRef>>
vars == <<exprMap, panel, editor, seen, touched, edits>>

Closed == "closed"
Unmounted == <<>>

-----------------------------------------------------------------------------
\* Texts, and what the conversions make of them.

Tier(cond, price) == [cond |-> cond, price |-> price]
Base(kind, tiers) == [kind |-> kind, tiers |-> tiers]
Text(base, layers) == [base |-> base, layers |-> layers]

NoText == Text(Base("none", <<>>), <<>>)
Zero == Text(Base("zero", <<>>), <<>>)
Free == Text(Base("free", <<>>), <<>>)
Tiers(ts) == Text(Base("tiers", ts), <<>>)

\* createDefaultVisualConfig.
DefaultConfig == <<Tier(FALSE, 0)>>

normalizeVisualConfig(config) == IF config = <<>> THEN DefaultConfig ELSE config

\* generateExprFromVisualConfig: of several tiers the last one's condition is
\* not written.
generateExprFromVisualConfig(config) ==
    CASE config = <<>> -> Zero
      [] Len(config) = 1 -> Tiers(config)
      [] OTHER -> Tiers([config EXCEPT ![Len(config)].cond = FALSE])

\* tryParseVisualConfig, <<>> for null.  A version prefix is dropped.  A single tier is taken
\* as the pattern finds it, NaN for a price that is no number, which is written as 0; several
\* tiers, or one with a condition, are taken only if they generate the text again.
tryParseVisualConfig(text) ==
    LET ts == text.base.tiers
    IN  IF text.layers # <<>> \/ ts = <<>> THEN <<>>
        ELSE IF Len(ts) = 1 /\ ~ts[1].cond
             THEN IF text.base.kind = "sum" THEN <<[ts[1] EXCEPT !.price = 0]>> ELSE ts
             ELSE IF /\ text.base.kind \in {"tiers", "versioned"}
                     /\ generateExprFromVisualConfig(ts).base.tiers = ts
                  THEN ts ELSE <<>>

\* buildRequestConditionExpr, as the conjuncts it writes.
Conjuncts(c) == CASE c = "blank" -> <<>>
                  [] c = "plain" -> <<"plain">>
                  [] c = "test"  -> <<"plain", "test">>

\* buildRuleGroupFactor and buildRequestRuleExpr: a group that writes no
\* condition is left out.
buildRuleGroupFactor(group) == FlattenSeq([i \in DOMAIN group |-> Conjuncts(group[i])])
buildRequestRuleExpr(groups) ==
    LET factor(i) == buildRuleGroupFactor(groups[i])
    IN FlattenSeq([i \in DOMAIN groups |-> IF factor(i) = <<>> THEN <<>> ELSE <<factor(i)>>])

\* tryParseRequestRuleExpr succeeds.  Its groups are then the rules themselves,
\* one condition a conjunct.
ParsesRules(rules) == \A i \in DOMAIN rules : "test" \notin ToSet(rules[i])
RulesOrNone(rules) == IF ParsesRules(rules) THEN rules ELSE <<>>

\* splitBillingExprAndRequestRules: one factor that is not a readable rule
\* besides the base, and the whole text is the billing expression.
splitBillingExprAndRequestRules(text) ==
    IF text.layers # <<>> /\ ParsesRules(Last(text.layers))
    THEN [billingExpr |-> Text(text.base, Front(text.layers)),
          requestRuleExpr |-> Last(text.layers)]
    ELSE [billingExpr |-> text, requestRuleExpr |-> <<>>]

combineBillingExpr(text, rules) ==
    IF text = NoText \/ rules = <<>> THEN text
    ELSE [text EXCEPT !.layers = Append(@, rules)]

-----------------------------------------------------------------------------
\* The editor's rendering and effects.

effectiveExpr ==
    IF editorMode = "visual" THEN generateExprFromVisualConfig(visualConfig)
    ELSE splitBillingExprAndRequestRules(rawExpr).billingExpr

\* What the editor shows the user, as one text.
Shown ==
    IF editorMode = "visual"
    THEN combineBillingExpr(effectiveExpr, buildRequestRuleExpr(requestRuleGroups))
    ELSE rawExpr

Deps == <<model, billingExpr, requestRuleExpr, editorMode, effectiveExpr, requestRuleGroups>>

Mounted == model # Closed /\ pricingMode = "tiered_expr"
Settled == Mounted => seen = Deps

\* The editor is mounted on the panel's strings: its useState initialisers.
Mount(expr, rules) ==
    /\ editorMode' = "visual"
    /\ visualConfig' = tryParseVisualConfig(expr)
    /\ rawExpr' = combineBillingExpr(expr, rules)
    /\ requestRuleGroups' = RulesOrNone(rules)
    /\ initRef' = FALSE
    /\ seen' = Unmounted

\* Variant: the effect initialises the tiers and forgets the rule groups.
InitialiseTiers ==
    LET parsed == tryParseVisualConfig(billingExpr)
    IN /\ visualConfig' = IF billingExpr = NoText THEN DefaultConfig ELSE parsed
       /\ editorMode' = IF parsed = <<>> /\ billingExpr # NoText THEN "raw" ELSE "visual"
       /\ rawExpr' = combineBillingExpr(billingExpr, requestRuleExpr)
       /\ requestRuleGroups' = <<>>

\* The initialising effect, past its early return.
Initialise ==
    LET parsed == tryParseVisualConfig(billingExpr)
    IN /\ visualConfig' = IF billingExpr = NoText THEN DefaultConfig ELSE parsed
       /\ editorMode' = CASE billingExpr = NoText -> editorMode
                          [] parsed # <<>> -> "visual"
                          [] OTHER -> "raw"
       /\ rawExpr' = combineBillingExpr(billingExpr, requestRuleExpr)
       /\ requestRuleGroups' = RulesOrNone(requestRuleExpr)

\* Variant: the initialising effect has no early return.
InitDueAlways ==
    seen = Unmounted \/ <<seen[2], seen[3]>> # <<billingExpr, requestRuleExpr>>

InitDue ==
    /\ ~initRef
    /\ seen = Unmounted \/ <<seen[2], seen[3]>> # <<billingExpr, requestRuleExpr>>

NameChanged == seen = Unmounted \/ seen[1] # model

\* One rendering and its four effects, in their order.
Commit ==
    /\ Mounted /\ seen # Deps
    /\ IF InitDue THEN Initialise
       ELSE UNCHANGED <<editorMode, visualConfig, rawExpr, requestRuleGroups>>
    /\ initRef' = ((initRef \/ InitDue) /\ ~NameChanged)
    /\ billingExpr' = effectiveExpr
    /\ requestRuleExpr' = IF editorMode = "visual" THEN buildRequestRuleExpr(requestRuleGroups)
                          ELSE requestRuleExpr
    /\ seen' = Deps
    /\ UNCHANGED <<exprMap, model, pricingMode, touched, edits>>

-----------------------------------------------------------------------------
\* The user.  A step of the user finds the editor settled: React renders what
\* effects set before it handles the next event.

Acts == edits < MaxEdits /\ Settled /\ edits' = edits + 1
Edits == Acts /\ Mounted /\ touched' = TRUE /\ UNCHANGED <<exprMap, seen, model, pricingMode, initRef>>
EditsVisually == Edits /\ editorMode = "visual" /\ UNCHANGED <<billingExpr, requestRuleExpr, editorMode, rawExpr>>

\* handleEdit on row m and the panel's effect on the new editData.  A tiered
\* editor that is shown already stays mounted.
Open(m) ==
    LET split == splitBillingExprAndRequestRules(exprMap[m])
    IN /\ Acts
       /\ model # Closed => Reopens
       /\ model' = m
       /\ pricingMode' = IF exprMap[m] = NoText THEN "other" ELSE "tiered_expr"
       /\ billingExpr' = split.billingExpr
       /\ requestRuleExpr' = split.requestRuleExpr
       /\ touched' = (touched /\ m = model)
       /\ IF Mounted /\ exprMap[m] # NoText THEN UNCHANGED <<editor, seen>>
          ELSE Mount(split.billingExpr, split.requestRuleExpr)
       /\ UNCHANGED exprMap

\* The panel's handleModeChange: the tab unmounts or mounts the editor.
ChangeTab ==
    LET expr == IF billingExpr = NoText THEN Tiers(DefaultConfig) ELSE billingExpr
    IN /\ Acts /\ model # Closed
       /\ IF pricingMode = "other"
          THEN pricingMode' = "tiered_expr" /\ billingExpr' = expr /\ Mount(expr, requestRuleExpr)
          ELSE pricingMode' = "other" /\ UNCHANGED <<billingExpr, editor, seen>>
       /\ touched' = TRUE
       /\ UNCHANGED <<exprMap, model, requestRuleExpr>>

\* handleGlobalFilterChange closes the panel.
Close ==
    /\ Acts /\ model # Closed
    /\ model' = Closed /\ touched' = FALSE
    /\ UNCHANGED <<exprMap, pricingMode, billingExpr, requestRuleExpr, editor, seen>>

\* commitOpenEditor: buildSubmitData, persistPricingData and setEditData, whose new editData the
\* panel's effect copies back: another tab is saved without strings, and clears them.
Save ==
    /\ Acts /\ model # Closed
    /\ exprMap' = [exprMap EXCEPT ![model] =
                      IF pricingMode = "other" THEN NoText
                      ELSE combineBillingExpr(billingExpr, requestRuleExpr)]
    /\ IF pricingMode = "other" THEN billingExpr' = NoText /\ requestRuleExpr' = <<>>
       ELSE UNCHANGED <<billingExpr, requestRuleExpr>>
    /\ UNCHANGED <<model, pricingMode, editor, seen, touched>>

\* The visual editor: handleTierChange (a price, a condition removed),
\* handleAddCondition, handleAddTier, handleRemoveTier.
ChangeTiers(tiers) == EditsVisually /\ visualConfig' = tiers /\ UNCHANGED requestRuleGroups

handleTierChange(i, tier) ==
    LET config == normalizeVisualConfig(visualConfig)
    IN i \in DOMAIN config /\ tier # config[i] /\ ChangeTiers([config EXCEPT ![i] = tier])

handleAddTier ==
    LET config == normalizeVisualConfig(visualConfig)
    IN /\ Len(config) < MaxTiers
       /\ ChangeTiers([config EXCEPT ![Len(config)].cond = TRUE] \o DefaultConfig)

handleRemoveTier(i) ==
    LET config == normalizeVisualConfig(visualConfig)
    IN i \in DOMAIN config /\ Len(config) > 1 /\ ChangeTiers(RemoveAt(config, i))

\* The rule groups, of one condition each: shown unless the panel's rules cannot be read.
handleRuleGroupsChange(groups) ==
    /\ ParsesRules(requestRuleExpr)
    /\ EditsVisually /\ requestRuleGroups' = groups /\ UNCHANGED visualConfig

AddRuleGroup ==
    /\ Len(requestRuleGroups) < MaxGroups
    /\ handleRuleGroupsChange(Append(requestRuleGroups, <<"blank">>))

RemoveRuleGroup(i) ==
    i \in DOMAIN requestRuleGroups /\ handleRuleGroupsChange(RemoveAt(requestRuleGroups, i))

ChangeCondition(i, c) ==
    /\ i \in DOMAIN requestRuleGroups /\ requestRuleGroups[i] # <<c>>
    /\ handleRuleGroupsChange([requestRuleGroups EXCEPT ![i] = <<c>>])

\* Variant: the rules are read from the text the editor held before.
RawChangeLate(text) ==
    /\ Edits /\ editorMode = "raw" /\ text # rawExpr
    /\ rawExpr' = text
    /\ requestRuleExpr' = splitBillingExprAndRequestRules(rawExpr).requestRuleExpr
    /\ UNCHANGED <<billingExpr, editorMode, visualConfig, requestRuleGroups>>

handleRawChange(text) ==
    /\ Edits /\ editorMode = "raw" /\ text # rawExpr
    /\ rawExpr' = text
    /\ requestRuleExpr' = splitBillingExprAndRequestRules(text).requestRuleExpr
    /\ UNCHANGED <<billingExpr, editorMode, visualConfig, requestRuleGroups>>

ToRaw ==
    /\ editorMode = "visual" /\ editorMode' = "raw"
    /\ rawExpr' = combineBillingExpr(generateExprFromVisualConfig(visualConfig),
                                     buildRequestRuleExpr(requestRuleGroups))
    /\ UNCHANGED <<visualConfig, requestRuleGroups, requestRuleExpr>>

ToVisual ==
    LET split == splitBillingExprAndRequestRules(rawExpr)
    IN /\ editorMode = "raw" /\ editorMode' = "visual"
       /\ visualConfig' = normalizeVisualConfig(tryParseVisualConfig(split.billingExpr))
       /\ requestRuleGroups' = RulesOrNone(split.requestRuleExpr)
       /\ requestRuleExpr' = split.requestRuleExpr
       /\ UNCHANGED rawExpr

\* The editor's handleModeChange.  It changes the form, not the expression.
handleModeChange ==
    /\ Acts /\ Mounted
    /\ ToRaw \/ ToVisual
    /\ UNCHANGED <<exprMap, seen, model, pricingMode, billingExpr, initRef, touched>>

\* applyPreset: every preset's expression parses; some have request rules.
applyPreset(groups) ==
    /\ Edits
    /\ visualConfig' = <<Tier(TRUE, 1), Tier(FALSE, 1)>>
    /\ editorMode' = "visual"
    /\ requestRuleGroups' = groups
    /\ requestRuleExpr' = buildRequestRuleExpr(groups)
    /\ rawExpr' = combineBillingExpr(Tiers(visualConfig'), requestRuleExpr')
    /\ UNCHANGED billingExpr

-----------------------------------------------------------------------------
Init ==
    /\ exprMap \in [Models -> Stored]
    /\ model = Closed /\ pricingMode = "other"
    /\ billingExpr = NoText /\ requestRuleExpr = <<>>
    /\ editorMode = "visual" /\ visualConfig = <<>> /\ rawExpr = NoText
    /\ requestRuleGroups = <<>> /\ initRef = FALSE
    /\ seen = Unmounted /\ touched = FALSE /\ edits = 0

Next ==
    \/ Commit
    \/ \E m \in Models : Open(m)
    \/ ChangeTab \/ Close \/ Save
    \/ \E i \in 1..MaxTiers, cond \in BOOLEAN, price \in 0..1 :
          handleTierChange(i, Tier(cond, price))
    \/ handleAddTier
    \/ \E i \in 1..MaxTiers : handleRemoveTier(i)
    \/ AddRuleGroup
    \/ \E i \in 1..MaxGroups : RemoveRuleGroup(i)
    \/ \E i \in 1..MaxGroups, c \in Conditions : ChangeCondition(i, c)
    \/ \E text \in Typed : handleRawChange(text)
    \/ handleModeChange
    \/ \E groups \in Presets : applyPreset(groups)

Spec == Init /\ [][Next]_vars

\* React runs the renderings and effects that are due.
FairSpec == Spec /\ WF_vars(Commit)

-----------------------------------------------------------------------------
\* Properties.

\* Every variable has its type: texts are a base with layers of rules, no
\* layer of which is empty, and a rule group has conditions of known kinds.
IsTiers(ts) == \A i \in DOMAIN ts : ts[i] \in [cond : BOOLEAN, price : 0..1]
IsRules(rs) == \A i \in DOMAIN rs : rs[i] # <<>> /\ ToSet(rs[i]) \subseteq {"plain", "test"}
IsText(t) == /\ t.base.kind \in {"tiers", "versioned", "spelled", "sum", "zero", "free", "none"}
             /\ (t.base.kind \in {"zero", "free", "none"}) = (t.base.tiers = <<>>)
             /\ IsTiers(t.base.tiers)
             /\ t.base.kind \in {"spelled", "sum"} => Len(t.base.tiers) = 1 /\ ~t.base.tiers[1].cond
             /\ \A i \in DOMAIN t.layers : t.layers[i] # <<>> /\ IsRules(t.layers[i])
             /\ t.base.kind = "none" => t = NoText

\* Every variable has its type: the panel's strings parse, and the editor holds
\* tiers and rule groups of the kinds its form can make.
TypeOK ==
    /\ \A m \in Models : IsText(exprMap[m])
    /\ model \in Models \cup {Closed}
    /\ pricingMode \in {"tiered_expr", "other"}
    /\ IsText(billingExpr) /\ IsRules(requestRuleExpr) /\ IsText(rawExpr)
    /\ editorMode \in {"visual", "raw"}
    /\ IsTiers(visualConfig)
    /\ \A i \in DOMAIN requestRuleGroups :
          ToSet(requestRuleGroups[i]) \subseteq {"blank", "plain", "test"}
    /\ initRef \in BOOLEAN /\ touched \in BOOLEAN /\ edits \in 0..MaxEdits

\* Once the editor has settled, what a save would store (the panel's two
\* strings combined) is what the editor shows.
SavedIsShown ==
    Mounted /\ Settled => combineBillingExpr(billingExpr, requestRuleExpr) = Shown

\* The effects settle on what the user sees: no rendering on the way changes
\* the expression shown, so an edit is never taken back.
ShownStays == [][Commit /\ seen # Unmounted => Shown' = Shown]_vars

\* The visual editor can show the text, and its prices are numbers.
Readable(text) ==
    LET base == splitBillingExprAndRequestRules(text).billingExpr
    IN  text = NoText \/ (base.base.kind # "sum" /\ tryParseVisualConfig(base) # <<>>)

\* What a text charges: a prefix, or how a price is written, makes no difference.
Charge(text) ==
    IF text.base.kind \in {"versioned", "spelled"}
    THEN Text(Base("tiers", text.base.tiers), text.layers) ELSE text

\* A save changes what an expression charges that the visual editor can show only if the user
\* has changed something since opening that model: mounting the editor, its effects in their
\* several renderings and its mode switches write back the prices, conditions and rules they
\* have read, however the text was spelled.
UntouchedKept ==
    [][\A m \in Models : Charge(exprMap'[m]) # Charge(exprMap[m]) /\ Readable(exprMap[m])
          => m = model /\ touched]_vars

\* Every stored expression is one the billing expression compiler accepts: of
\* several tiers all but the last have a condition.
StoredCompiles ==
    \A m \in Models : LET ts == exprMap[m].base.tiers
                      IN \A i \in DOMAIN ts : i < Len(ts) => ts[i].cond

\* The four effects stop setting state: the editor settles.
Settles == ~Settled ~> Settled
=============================================================================
