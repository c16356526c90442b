--------------------------- MODULE ScoutProfiles ---------------------------
(***************************************************************************)
(* Which candidates a scout may propose.  Four tables are maintained apart *)
(* from each other: the profiles (scouts/profiles.py), the tools a role    *)
(* may call (tools/builtin.py), the repairs of a draft                     *)
(* (harness/materialization.py) and the draft the runner makes up when a   *)
(* scout stops at its limit of iterations (agents/runner.py).  A draft     *)
(* that one of them yields and another refuses fails the run.              *)
(*                                                                         *)
(* The module has no state: Clustering is built on it.                     *)
(***************************************************************************)
EXTENDS Integers

Roles == {"social_scout", "code_model_scout", "research_scout", "official_scout", "finance_scout"}

Categories == {"early_signal", "confirmed_event", "tech_finance", "research", "code_model",
               "official_update", "watchlist_update", "other"}

EarlyStatuses == {"unconfirmed_leak", "gray_rollout_feedback", "code_anomaly", "researcher_hint",
                  "community_rumor", "single_source_signal", "manual_hypothesis"}

Statuses == EarlyStatuses \union {"official_confirmation", "confirmed_fact", "not_applicable", "none"}

Strengths == {"weak", "moderate", "strong", "official", "conflicting", "unknown"}

\* traded: the draft names a ticker or an impact.  A draft without follow-up
\* questions gets one of its role, so they do not matter.
Drafts == [category : Categories, status : Statuses, strength : Strengths, traded : BOOLEAN]

-----------------------------------------------------------------------------
(* The profiles *)

AcceptedSources(role) ==
  {"manual", "other"} \union
  CASE role = "social_scout" -> {"x", "reddit", "hacker_news", "bluesky", "product_hunt"}
    [] role = "code_model_scout" -> {"github", "hugging_face", "npm", "pypi", "docker_hub"}
    [] role = "research_scout" -> {"arxiv", "openreview", "papers_with_code", "hugging_face"}
    [] role = "official_scout" -> {"official_blog", "api_changelog", "docs"}
    [] role = "finance_scout" -> {"investor_relations", "sec_filing", "earnings_call", "semianalysis",
                                  "the_information", "reuters", "bloomberg", "wsj", "cnbc"}

AllowedCategories(role) ==
  CASE role = "social_scout" -> {"early_signal"}
    [] role = "code_model_scout" -> {"code_model", "early_signal"}
    [] role = "research_scout" -> {"research", "early_signal"}
    [] role = "official_scout" -> {"confirmed_event", "official_update"}
    [] role = "finance_scout" -> {"tech_finance"}

AllowedStatuses(role) ==
  CASE role = "social_scout" -> EarlyStatuses
    [] role = "code_model_scout" -> {"code_anomaly", "single_source_signal", "unconfirmed_leak",
                                     "gray_rollout_feedback", "manual_hypothesis"}
    [] role = "research_scout" -> {"researcher_hint", "single_source_signal", "not_applicable",
                                   "manual_hypothesis"}
    [] role = "official_scout" -> {"official_confirmation", "confirmed_fact", "not_applicable",
                                   "manual_hypothesis"}
    [] role = "finance_scout" -> {"not_applicable", "confirmed_fact", "single_source_signal",
                                  "manual_hypothesis"}

\* What a profile accepts, with evidence of these sources.
Fits(role, d, sources) ==
  /\ d.category \in AllowedCategories(role) /\ d.status \in AllowedStatuses(role)
  /\ role = "official_scout" /\ d.status # "manual_hypothesis" => d.strength \in {"strong", "official"}
  /\ role = "finance_scout" => d.traded
  /\ sources \subseteq AcceptedSources(role)

-----------------------------------------------------------------------------
(* What becomes of a draft *)

\* A draft whose evidence cannot be found becomes a hypothesis.
WithoutEvidence(d) ==
  [d EXCEPT !.status = "manual_hypothesis", !.strength = "unknown",
            !.category = IF @ = "confirmed_event" THEN "official_update" ELSE @]

\* The status a finance scout's draft has for one that its profile does not know.
FinanceStatus(status) ==
  CASE status = "official_confirmation" -> "confirmed_fact"
    [] status \in EarlyStatuses \ {"single_source_signal", "manual_hypothesis"} -> "single_source_signal"
    [] OTHER -> status

\* Two roles have a category of their own whatever their drafts say.
ForProfile(role, d) ==
  CASE role = "finance_scout" -> [d EXCEPT !.category = "tech_finance", !.status = FinanceStatus(@)]
    [] role = "official_scout" -> [d EXCEPT !.category = IF @ \in AllowedCategories(role) THEN @
                                                          ELSE "official_update"]
    [] OTHER -> d

\* The rules of the record itself.
IsCandidate(d, sources) ==
  /\ sources = {} => d.status = "manual_hypothesis"
  /\ d.category = "early_signal" => d.status \in EarlyStatuses
  /\ d.category = "confirmed_event" =>
       /\ d.strength \in {"strong", "official"}
       /\ d.status \in {"none", "official_confirmation", "confirmed_fact", "not_applicable"}

\* A draft is stored; otherwise it fails the run.
Admits(role, draft, sources) ==
  LET d == ForProfile(role, IF sources = {} THEN WithoutEvidence(draft) ELSE draft)
  IN  Fits(role, d, sources) /\ IsCandidate(d, sources)

-----------------------------------------------------------------------------
(* What becomes of a scout's tools at the limit of iterations *)

\* The sources a role can draw on (without the tools for development, as the command
\* line sets them up), and how strong their evidence is.
Tools(role) ==
  CASE role = "social_scout" -> [source : {"hacker_news", "reddit", "x"}, strength : {"weak"}]
    [] role = "code_model_scout" -> [source : {"github", "hugging_face"}, strength : {"moderate"}]
    [] role = "research_scout" -> [source : {"hugging_face", "arxiv", "openreview"}, strength : {"moderate"}]
    [] role = "official_scout" -> [source : {"official_blog", "api_changelog"}, strength : {"official"}]
    [] role = "finance_scout" -> {[source |-> "sec_filing", strength |-> "official"],
                                  [source |-> "investor_relations", strength |-> "strong"]}

Sources(role) == {t.source : t \in Tools(role)}

\* Faulty variant: the Official Scout has no status of its own.
FallbackStatusShared(role, strength) ==
  CASE role = "code_model_scout" -> "code_anomaly"
    [] role = "research_scout" -> "researcher_hint"
    [] role = "finance_scout" -> IF strength \in {"official", "strong"} THEN "confirmed_fact"
                                 ELSE "single_source_signal"
    [] OTHER -> "community_rumor"

FallbackStatus(role, strength) ==
  CASE role = "code_model_scout" -> "code_anomaly"
    [] role = "research_scout" -> "researcher_hint"
    [] role = "official_scout" -> "official_confirmation"
    [] role = "finance_scout" -> IF strength \in {"official", "strong"} THEN "confirmed_fact"
                                 ELSE "single_source_signal"
    [] OTHER -> "community_rumor"

FallbackCategory(role) ==
  CASE role = "code_model_scout" -> "code_model"
    [] role = "research_scout" -> "research"
    [] role = "official_scout" -> "official_update"
    [] role = "finance_scout" -> "tech_finance"
    [] OTHER -> "early_signal"

FallbackStrength(role, strength) ==
  CASE role = "official_scout" -> "official"
    [] role = "finance_scout" /\ strength = "unknown" -> "moderate"
    [] role \notin {"official_scout", "finance_scout"} /\ strength = "unknown" -> "weak"
    [] OTHER -> strength

\* The draft the runner makes up of the first item the tools have returned.
Fallback(role, strength) ==
  [category |-> FallbackCategory(role), status |-> FallbackStatus(role, strength),
   strength |-> FallbackStrength(role, strength), traded |-> TRUE]
=============================================================================
