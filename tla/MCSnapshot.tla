----------------------------- MODULE MCSnapshot -----------------------------
EXTENDS Snapshot, TLC

(* What 0.5^(age / half-life) comes to at the ages below, in half-days,    *)
(* for half-lives of 14 days and of one.                                   *)
MCDecay(age, half) ==
    CASE age = 0 -> 1000
      [] age = 2 -> IF half = 28 THEN 952 ELSE 500
      [] age = 56 -> IF half = 28 THEN 250 ELSE 0
      [] age = 62 -> IF half = 28 THEN 215 ELSE 0

Row(key, source, age) ==
    [key |-> <<"url", key>>, source |-> source, age |-> age,
     confidence |-> 700, restricted |-> FALSE, assertable |-> TRUE,
     valid |-> TRUE]

Acme == <<"news", "acme", "com">>
Wire == <<"wire", "com">>

(* An article; one in the last half-day of the limit; one of a host with a *)
(* bad name; and with the article a restricted copy of it, which           *)
(* ProviderAdapter's contract allows.                                      *)
MCExaAnswers ==
    {<<Row("launch", Acme, 2)>>,
     <<Row("round", Acme, 61), [Row("v6", <<"[::1]">>, 61) EXCEPT !.valid = FALSE]>>,
     <<Row("round", Acme, 61)>>,
     <<Row("launch", Acme, 2), [Row("launch", Acme, 2) EXCEPT !.restricted = TRUE]>>}

News(key, source, age) == [Row(key, source, age) EXCEPT !.confidence = 650]
(* The article again, with one of the wire's; one dated tomorrow; nothing. *)
MCNewsAnswers ==
    {<<News("launch", Acme, 2), News("fair", Wire, 0)>>,
     <<News("soon", Acme, -1)>>, <<>>}

Signal(id, type, age, topics) ==
    [id |-> id, target |-> "acme", type |-> type, age |-> age,
     topics |-> topics]
MCSignals ==
    {Signal(1, "T_Company_Hiring", 0, {}),
     Signal(2, "T_Company_Initiative", 2, {"crm"}),
     Signal(3, "T_Company_Jobs_Up", 56, {}),
     Signal(4, "T_Company_Hiring", 62, {})}

Defaults == [ranking |-> [k \in {} |-> 0], valid |-> TRUE, others |-> FALSE]
Fast == [halfLife |-> 2, floor |-> 0, derivedTypes |-> {"T_Company_Initiative"}]
Exa == [thresholds |-> DefaultThresholds, news |-> TRUE,
        lists |-> [allow |-> {<<>>}, block |-> {Wire, <<>>}]]
Trigify == [thresholds |-> [maxDays |-> 30, minConfidence |-> 100],
            lists |-> [allow |-> {<<"trigify">>, <<"acme", "com">>},
                       block |-> {}],
            settings |-> Defaults]
MCSetups ==
    {[llm |-> FALSE, exa |-> Exa, trigify |-> None],
     [llm |-> TRUE, exa |-> Exa, trigify |-> None],
     [llm |-> TRUE, exa |-> [Exa EXCEPT !.thresholds = None],
      trigify |-> Trigify],
     [llm |-> TRUE, exa |-> None,
      trigify |-> [Trigify EXCEPT !.thresholds = None,
                                  !.settings.ranking = Fast]],
     [llm |-> TRUE, exa |-> Exa,
      trigify |-> [Trigify EXCEPT !.settings.ranking = Fast,
                                  !.settings.others = TRUE]]}
=============================================================================
