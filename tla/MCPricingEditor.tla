--------------------------- MODULE MCPricingEditor ---------------------------
(* Instances of the pricing editor for TLC. *)
EXTENDS PricingEditor

Rule == << <<"plain">> >>
Unread == << <<"plain", "test">> >>

\* Expressions the visual editor can show, as it would write them and written otherwise, and
\* all with two it cannot.
FlatText == Tiers(<<Tier(FALSE, 1)>>)
TieredText == Text(Base("tiers", <<Tier(TRUE, 1), Tier(FALSE, 0)>>), <<Rule>>)
VersionedText == Text(Base("versioned", <<Tier(TRUE, 1), Tier(FALSE, 0)>>), <<>>)
SpelledText == Text(Base("spelled", <<Tier(FALSE, 1)>>), <<Rule>>)
SumText == Text(Base("sum", <<Tier(FALSE, 1)>>), <<>>)
VisualTexts == {NoText, FlatText, TieredText, VersionedText, SpelledText, SumText}
AllTexts == VisualTexts \cup {Free, combineBillingExpr(FlatText, Unread)}

TypedTexts == AllTexts \cup {combineBillingExpr(Free, Rule)}
NoTyping == {}

\* Presets come with and without request rules.
SomePresets == {<<>>, Rule}
NoPresets == {}
=============================================================================
