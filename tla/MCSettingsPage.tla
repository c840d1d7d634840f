--------------------------- MODULE MCSettingsPage ---------------------------
(* An instance of SettingsPage: a vendor with a catalog and a custom one.  *)
EXTENDS SettingsPage, TLC

CONSTANTS m1, m2, e1, e2, k1, k2

MCProviders == {"anthropic", "custom"}
MCCatalog == [p \in MCProviders |-> IF p = "custom" THEN {} ELSE {m1}]
MCServed == {<<"anthropic", None, m1>>, <<"custom", e1, m2>>, <<"custom", e2, m1>>}
Sent(p, m, e, k, x) == [provider |-> p, model |-> m, endpoint |-> e, llmKey |-> k, exaKey |-> x]
MCElsewhere == {Sent(None, None, None, "keep", "clear"),
                Sent("anthropic", m1, None, "keep", "keep"),
                Sent("custom", m2, e1, k2, k2)}
Slots == Permutations(Saves) \cup Permutations(Tests)
=============================================================================
