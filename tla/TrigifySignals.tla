--------------------------- MODULE TrigifySignals ---------------------------
(***************************************************************************)
(* What the poller makes of one item of Trigify's Social-Signals feed: the *)
(* taxonomy (packages/config/src/trigify-signal-types.ts), the spellings   *)
(* of signal types it accepts and the canonical record with its key in the *)
(* ledger (services/trigify/normalize.ts).                                 *)
(* The feed spells each field in several ways; an item here has one field  *)
(* for each set of spellings the code probes as a whole.  A LinkedIn URL   *)
(* is a record of the page it leads to and the form it is written in       *)
(* (scheme, "www.", case, query); text, claims and confidence are left out.*)
(***************************************************************************)
EXTENDS Naturals

CONSTANT None   \* a missing value

(* The names of the feed that TYPE_MAP knows, after lowercasing and with   *)
(* "_" for anything that is not a letter or a digit.                       *)
RawNames ==
    [T_Role_Change |-> {"changed_role", "role_change", "new_job_title",
                        "changed_job_title"},
     T_New_Role_Joined |-> {"changed_company", "newly_joined",
                            "new_role_joined", "joined_company"},
     T_Hiring_Surge |-> {"became_hiring", "started_hiring", "posted_job_ad",
                         "posted_a_job_ad", "hiring_surge"},
     T_Topic_Post |-> {"posted_about_tracked_topic", "posted_about_topic",
                       "topic_post"},
     T_Comment_On_Tracked |-> {"commented_on_tracked_content",
                               "commented_on_tracked", "comment_on_tracked"},
     T_Competitor_Engagement |-> {"liked_competitor_content",
                                  "competitor_engagement"},
     T_Topic_Engage |-> {"liked_tracked_company_content",
                         "liked_tracked_person_content",
                         "engaged_with_tracked_topic", "topic_engage"},
     T_Buying_Window |-> {"buying_window"},
     T_Influence |-> {"influence", "influence_surge"},
     T_Company_Hiring |-> {"company_started_hiring", "hiring_company",
                           "company_hiring"},
     T_Company_Jobs_Up |-> {"company_jobs_count_increased",
                            "jobs_count_increased", "company_jobs_up"},
     T_Company_Initiative |-> {"company_started_posting",
                               "company_initiative"},
     T_Expansion |-> {"expansion"}]

Codes == DOMAIN RawNames

(* TYPE_MAP's own level and class of each code.                            *)
MappedLevel(code) ==
    IF code \in {"T_Company_Hiring", "T_Company_Jobs_Up",
                 "T_Company_Initiative", "T_Expansion"}
    THEN "company" ELSE "person"
MappedClass(code) ==
    IF code \in {"T_Buying_Window", "T_Influence", "T_Company_Jobs_Up",
                 "T_Expansion"}
    THEN "derived" ELSE "observable"

(* TRIGIFY_SIGNAL_TYPES: the taxonomy proper.                              *)
Observable(level, tier) == [level |-> level, signalClass |-> "observable",
                            tier |-> tier, copyAssertable |-> TRUE]
Derived(level, tier) == [level |-> level, signalClass |-> "derived",
                         tier |-> tier, copyAssertable |-> FALSE]
SignalTypes ==
    [T_Role_Change |-> Observable("person", "A"),
     T_New_Role_Joined |-> Observable("person", "B"),
     T_Hiring_Surge |-> Observable("person", "B"),
     T_Topic_Post |-> Observable("person", "A"),
     T_Comment_On_Tracked |-> Observable("person", "B"),
     T_Competitor_Engagement |-> Observable("person", "C"),
     T_Topic_Engage |-> Observable("person", "C"),
     T_Buying_Window |-> Derived("person", "A"),
     T_Influence |-> Derived("person", "C"),
     T_Company_Hiring |-> Observable("company", "B"),
     T_Company_Jobs_Up |-> Derived("company", "C"),
     T_Company_Initiative |-> Observable("company", "A"),
     T_Expansion |-> Derived("company", "C")]

(* The trigger code of a name, None for a name TYPE_MAP does not have.     *)
ClassifySignalType(name) ==
    IF \E code \in Codes : name \in RawNames[code]
    THEN CHOOSE code \in Codes : name \in RawNames[code]
    ELSE None

IsKnown(item) == ClassifySignalType(item.type) # None

FirstOf(a, b) == IF a # None THEN a ELSE b

(* The page a LinkedIn URL leads to, whatever its form.                    *)
NormalizeTargetId(url) == IF url = None THEN None ELSE url.page

(* The spellings of the company's page that only the normalization probes  *)
(* (`organization_url` and the like) are the item's `orgUrl`.              *)
LinkedinUrl(item, level) ==
    IF level = "company"
    THEN FirstOf(FirstOf(item.companyUrl, item.orgUrl), item.authorUrl)
    ELSE item.authorUrl

LedgerKey(externalId, targetId, code, evidenceUrl, date) ==
    IF externalId # None
    THEN <<"ext", externalId>>
    ELSE <<"cmp", targetId, code, evidenceUrl, date>>

(* The canonical record of an item of a known type.                        *)
NormalizeFeedItem(item) ==
    LET code == ClassifySignalType(item.type)
        level == MappedLevel(code)
        observable == MappedClass(code) = "observable"
        url == LinkedinUrl(item, level)
        evidence == IF observable THEN item.url ELSE None
    IN  [signalType |-> code,
         signalClass |-> MappedClass(code),
         level |-> level,
         linkedinUrl |-> url,
         hsCompanyId |-> item.companyId,
         evidenceUrl |-> evidence,
         evidenceDate |-> item.date,
         copyAssertable |-> SignalTypes[code].copyAssertable,
         dedupeKey |-> LedgerKey(item.id, NormalizeTargetId(url), code,
                                 evidence, item.date)]
=============================================================================
