---------------------------- MODULE MCTrigifyPoll ----------------------------
EXTENDS TrigifyPoll, TLC

Url(p, f) == [page |-> p, form |-> f]

Blank == [type |-> "hiring", id |-> None, url |-> None, date |-> "d1",
          authorUrl |-> None, companyUrl |-> None, orgUrl |-> None,
          domain |-> None, companyId |-> None]

(* A role change at a company the item names by page and by domain.        *)
RoleChange == [Blank EXCEPT !.type = "changed_role", !.id = "e1",
                 !.url = "post", !.authorUrl = Url("ann", "long"),
                 !.companyUrl = Url("acme", "long"), !.domain = "acme.com"]

(* A company's signal without an id and in another spelling of the page.   *)
Expansion == [Blank EXCEPT !.type = "expansion",
                !.orgUrl = Url("acme", "short"), !.domain = "acme.io"]

(* The same event again: another spelling, and the company Trigify knows.  *)
Reissued == [Expansion EXCEPT !.orgUrl = Url("acme", "long"),
               !.domain = None, !.companyId = "c2"]

(* A signal that leads nowhere.                                            *)
Hiring == [Blank EXCEPT !.type = "company_hiring", !.url = "ad"]

MCPages == {<<RoleChange, Expansion>>, <<Blank, Reissued>>, <<Hiring>>}
MCCompanies == {"c1", "c2"}
MCAnswers(domain) ==
    CASE domain = "acme.com" -> MCCompanies
      [] domain = "acme.io" -> {"c1"}
      [] OTHER -> {}

(* The two schedulers call the same endpoint.                              *)
Schedulers == Permutations(Polls)
=============================================================================
