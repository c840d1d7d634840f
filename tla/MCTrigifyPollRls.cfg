SPECIFICATION Spec
CONSTANTS
    Polls = {p1, p2}
    Tenants = {t1, t2}
    Enabled = {t1, t2}
    None = None
    Pages <- MCPages
    Companies <- MCCompanies
    Answers <- MCAnswers
    EnforcesRls = TRUE
SYMMETRY Schedulers
INVARIANT EnabledTenantsAreListed
