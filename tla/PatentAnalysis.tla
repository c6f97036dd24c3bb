--------------------------- MODULE PatentAnalysis ---------------------------
(***************************************************************************)
(* The patent analyzer: extraction, the searches, the ranking, the patents *)
(* carried over from earlier results, documents and comparisons, and what  *)
(* the ledger makes of the result.  A search that does not bring a patent  *)
(* back says nothing about it, so a risk may be closed only by a result    *)
(* that compared its patent; every call on the way may fail.               *)
(*                                                                         *)
(* ONE document is analyzed again and again.  The provider and the model   *)
(* answer what they like each time.  Titles, priorities, evidence texts    *)
(* and the caches in front of the calls are left out, as are the cut-off   *)
(* date and the exclusions that only the evaluation scripts set.           *)
(***************************************************************************)
EXTENDS Naturals, FiniteSets

CONSTANTS
  Patent,      \* application numbers
  Query,       \* search queries the model may extract
  CompareCap,  \* SearchPlan.compare_cap
  CarryLimit   \* previously_matched_patents: limit

ASSUME PatentAssumption == CompareCap \in Nat /\ CarryLimit \in Nat

VARIABLES
  plan,        \* SearchPlan: "baseline", "relaxing" or "screening"
  stage,       \* the step of analyze that is under way
  again,       \* the run repeats the last job instead of having its own
  waiting,     \* queries without an answer yet
  answered,    \* queries with an answer
  hits,        \* SearchOutcome.hits_by_query of the answered queries
  failed,      \* where a provider failed: ResultBuilder.failures
  verdict,     \* each candidate: what is known of it so far
  lookup,      \* previously_matched_patents in this run
  patentRisk,  \* the ledger: lifecycle of the risk of each patent
  proven,      \* risks with evidence under their latest_analysis_job_id
  ofLast       \* risks whose latest_analysis_job_id is the last job

patentVars == <<plan, stage, again, waiting, answered, hits, failed, verdict,
                lookup, patentRisk, proven, ofLast>>
ledgerPart == <<patentRisk, proven, ofLast>>

Found == UNION {hits[q] : q \in answered}
Candidates == {p \in Patent : verdict[p] # "no"}
Open == {p \in Patent : patentRisk[p] = "open"}

PatentTypeOK ==
  /\ plan \in {"baseline", "relaxing", "screening"}
  /\ stage \in {"idle", "extract", "search", "relax", "carry", "screen",
                "fetch", "compare"}
  /\ again \in BOOLEAN
  /\ failed \subseteq {"search", "document", "comparison"}
  /\ waiting \subseteq Query /\ answered \subseteq Query
  /\ hits \in [Query -> SUBSET Patent]
  /\ verdict \in [Patent -> {"no", "wanted", "held", "retried", "missing",
                             "overlaps", "clear"}]
  /\ lookup \in {"none", "whole", "cut", "failed"}
  /\ patentRisk \in [Patent -> {"none", "open", "resolved"}]
  /\ proven \subseteq Patent /\ ofLast \subseteq Patent

PatentInit ==
  /\ plan \in {"baseline", "relaxing", "screening"}
  /\ stage = "idle" /\ again = FALSE /\ failed = {}
  /\ waiting = {} /\ answered = {} /\ hits = [q \in Query |-> {}]
  /\ verdict = [p \in Patent |-> "no"]
  /\ lookup = "none"
  /\ patentRisk = [p \in Patent |-> "none"]
  /\ proven = {} /\ ofLast = {}

Goes(place) ==
  /\ stage' = place
  /\ UNCHANGED <<plan, again>>

\* What a run leaves behind: nothing but the ledger.
Forgotten ==
  /\ stage' = "idle" /\ again' = FALSE /\ failed' = {}
  /\ waiting' = {} /\ answered' = {} /\ hits' = [q \in Query |-> {}]
  /\ verdict' = [p \in Patent |-> "no"]
  /\ lookup' = "none"
  /\ UNCHANGED plan

-----------------------------------------------------------------------------
(* Extraction.                                                             *)

\* A new job, or request_reanalysis of the last one, which keeps its id.
BeginAnalysis ==
  /\ stage = "idle"
  /\ stage' = "extract" /\ again' \in BOOLEAN
  /\ UNCHANGED <<plan, waiting, answered, hits, failed, verdict, lookup, ledgerPart>>

Extract(queries) ==
  /\ stage = "extract" /\ queries # {}
  /\ waiting' = queries
  /\ Goes("search")
  /\ UNCHANGED <<answered, hits, failed, verdict, lookup, ledgerPart>>

\* The model fails (FAILED), the document is not technical (SKIPPED) or gives
\* no query (INCONCLUSIVE): a result that records nothing.
ExtractNothing ==
  /\ stage = "extract"
  /\ Forgotten /\ UNCHANGED ledgerPart

-----------------------------------------------------------------------------
(* Searches, all at once.                                                  *)

\* 0 hits are an answer; a relaxed query's hits count for the original.
AnswerSearch(q, found) ==
  /\ stage \in {"search", "relax"} /\ q \in waiting
  /\ waiting' = waiting \ {q}
  /\ answered' = answered \cup {q}
  /\ hits' = [hits EXCEPT ![q] = found]
  /\ Goes(stage)
  /\ UNCHANGED <<failed, verdict, lookup, ledgerPart>>

FailSearch(q) ==
  /\ stage \in {"search", "relax"} /\ q \in waiting
  /\ waiting' = waiting \ {q}
  /\ failed' = failed \cup {"search"}
  /\ Goes(stage)
  /\ UNCHANGED <<answered, hits, verdict, lookup, ledgerPart>>

\* stage_deadline_seconds: what is still under way is cancelled.
SearchDeadline ==
  /\ plan # "baseline" /\ stage \in {"search", "relax"} /\ waiting # {}
  /\ waiting' = {}
  /\ failed' = failed \cup {"search"}
  /\ Goes(stage)
  /\ UNCHANGED <<answered, hits, verdict, lookup, ledgerPart>>

\* Not one answer: the analysis FAILED.
NoSearchAnswered ==
  /\ stage = "search" /\ waiting = {} /\ answered = {} /\ failed # {}
  /\ Forgotten /\ UNCHANGED ledgerPart

\* Three-word queries without a hit are asked once more with two words; two
\* that would become the same query, or one already asked, are not.
Relax(queries) ==
  /\ stage = "search" /\ waiting = {} /\ plan = "relaxing"
  /\ queries # {} /\ queries \subseteq answered /\ \A q \in queries : hits[q] = {}
  /\ waiting' = queries
  /\ Goes("relax")
  /\ UNCHANGED <<answered, hits, failed, verdict, lookup, ledgerPart>>

\* rank_candidates puts the hits of more queries first; the other rankings
\* score texts, and may let a tail beyond the cap through.
Ranked ==
  LET hitBy(p) == Cardinality({q \in answered : p \in hits[q]})
      size == IF Cardinality(Found) < CompareCap THEN Cardinality(Found) ELSE CompareCap
  IN  IF plan = "screening"
      THEN {S \in SUBSET Found : Cardinality(S) >= size}
      ELSE {S \in SUBSET Found :
              /\ Cardinality(S) = size
              /\ plan = "baseline" =>
                   \A in \in S, out \in Found \ S : hitBy(in) >= hitBy(out)}

Rank(chosen) ==
  /\ stage \in {"search", "relax"} /\ waiting = {}
  /\ stage = "relax" \/ answered # {}
  /\ chosen \in Ranked
  /\ verdict' = [p \in Patent |-> IF p \in chosen THEN "wanted" ELSE "no"]
  /\ Goes("carry")
  /\ UNCHANGED <<waiting, answered, hits, failed, lookup, ledgerPart>>

-----------------------------------------------------------------------------
(* Carrying over.                                                          *)

\* previously_matched_patents reads the numbers out of the evidence that the
\* latest job of each risk left.
Known == {p \in Patent : patentRisk[p] # "none" /\ p \in proven}

Wanted(numbers) ==
  [p \in Patent |-> IF verdict[p] = "no" /\ p \in numbers THEN "wanted" ELSE verdict[p]]

\* The first `limit` of them.
CarryForward(numbers) ==
  /\ stage = "carry"
  /\ numbers \subseteq Known
  /\ Cardinality(numbers) =
       IF Cardinality(Known) < CarryLimit THEN Cardinality(Known) ELSE CarryLimit
  /\ lookup' = IF numbers = Known THEN "whole" ELSE "cut"
  /\ verdict' = Wanted(numbers)
  /\ Goes("screen")
  /\ UNCHANGED <<waiting, answered, hits, failed, ledgerPart>>

\* Any exception of the lookup: the analysis goes on without.
CarryNothing ==
  /\ stage = "carry"
  /\ lookup' = "failed"
  /\ Goes("screen")
  /\ UNCHANGED <<waiting, answered, hits, failed, verdict, ledgerPart>>

\* The model picks from precise hits the ranking left out; when it fails, or
\* the plan does not screen, nothing is added and nothing recorded.
Screen(survivors) ==
  /\ stage = "screen"
  /\ survivors \subseteq Found \ Candidates
  /\ plan = "screening" \/ survivors = {}
  /\ verdict' = Wanted(survivors)
  /\ Goes("fetch")
  /\ UNCHANGED <<waiting, answered, hits, failed, lookup, ledgerPart>>

-----------------------------------------------------------------------------
(* Documents and comparisons.                                              *)

\* fetch_detail: a document, one without content, or a recorded failure.
FetchDocument(p, outcome) ==
  /\ stage = "fetch" /\ verdict[p] = "wanted"
  /\ verdict' = [verdict EXCEPT ![p] = IF outcome = "document" THEN "held" ELSE "missing"]
  /\ failed' = failed \cup IF outcome = "failure" THEN {"document"} ELSE {}
  /\ Goes(stage)
  /\ UNCHANGED <<waiting, answered, hits, lookup, ledgerPart>>

StartComparing ==
  /\ stage = "fetch" /\ \A p \in Patent : verdict[p] # "wanted"
  /\ Goes("compare")
  /\ UNCHANGED <<waiting, answered, hits, failed, verdict, lookup, ledgerPart>>

\* A comparison with invented evidence is asked for once more, then dropped.
AfterMalformed(p) == IF verdict[p] = "held" THEN "retried" ELSE "missing"

\* _compare, _compare_rag.  A document without usable evidence is not asked
\* about; the provider's failure is recorded and the patent stays unjudged.
Compare(p, answer) ==
  /\ stage = "compare" /\ verdict[p] \in {"held", "retried"}
  /\ answer \in {"overlaps", "clear", "empty", "malformed", "failure"}
  /\ answer = "empty" => verdict[p] = "held"
  /\ verdict' = [verdict EXCEPT ![p] =
       CASE answer \in {"overlaps", "clear"} -> answer
         [] answer = "malformed" -> AfterMalformed(p)
         [] OTHER -> "missing"]
  /\ failed' = IF \/ answer = "failure"
                  \/ (answer = "malformed" /\ verdict[p] = "retried")
               THEN failed \cup {"comparison"} ELSE failed
  /\ Goes(stage)
  /\ UNCHANGED <<waiting, answered, hits, lookup, ledgerPart>>

-----------------------------------------------------------------------------
(* The result.                                                             *)

Overlapping == {p \in Patent : verdict[p] = "overlaps"}

\* Mutant: one answered search is enough.
SearchCompleteOnceAnswered == answered # {}

\* SearchOutcome.is_complete
SearchComplete == "search" \notin failed

\* Mutant: a candidate left unjudged does not lower the coverage.
CompleteWhenSearched == SearchComplete

\* COMPLETE: every search answered and every candidate assessed.
Complete ==
  /\ SearchComplete
  /\ \A p \in Candidates : verdict[p] \in {"overlaps", "clear"}

\* The ledger: what overlaps is recorded under any coverage, the rest closed
\* by COMPLETE only.  Both point the risk at this job; only the first leaves
\* evidence under it, and a repeated job still has that of its first time.
AcceptPatents ==
  /\ stage = "compare"
  /\ \A p \in Patent : verdict[p] \notin {"held", "retried"}
  /\ LET closed == IF Complete THEN Open \ Overlapping ELSE {}
         had == IF again THEN proven \cap ofLast ELSE {}
     IN  /\ patentRisk' = [p \in Patent |->
              IF p \in Overlapping THEN "open"
              ELSE IF p \in closed THEN "resolved" ELSE patentRisk[p]]
         /\ proven' = (proven \ closed) \cup Overlapping \cup (closed \cap had)
         /\ ofLast' = Overlapping \cup closed \cup IF again THEN ofLast ELSE {}
  /\ Forgotten

\* The result is refused (superseded), or the execution dies.
DropAnalysis ==
  /\ stage \notin {"idle", "extract"}
  /\ Forgotten /\ UNCHANGED ledgerPart

PatentStep ==
  \/ BeginAnalysis \/ ExtractNothing \/ SearchDeadline \/ NoSearchAnswered
  \/ CarryNothing \/ StartComparing \/ AcceptPatents \/ DropAnalysis
  \/ \E queries \in SUBSET Query : Extract(queries) \/ Relax(queries)
  \/ \E q \in Query : FailSearch(q) \/ \E found \in SUBSET Patent : AnswerSearch(q, found)
  \/ \E chosen \in SUBSET Patent : Rank(chosen) \/ CarryForward(chosen) \/ Screen(chosen)
  \/ \E p \in Patent :
       \/ \E outcome \in {"document", "empty", "failure"} : FetchDocument(p, outcome)
       \/ \E answer \in {"overlaps", "clear", "empty", "malformed", "failure"} :
            Compare(p, answer)

PatentSpec == PatentInit /\ [][PatentStep]_patentVars

-----------------------------------------------------------------------------
(* Properties.                                                             *)

Closes(p) == patentRisk[p] = "open" /\ patentRisk'[p] = "resolved"

\* A risk is closed only by a run that compared its patent and found no
\* overlap, whatever the searches brought back: never because this time
\* nobody looked.  Except where the lookup of the earlier patents fails, or
\* there are more of them than its limit (PatentAnalyzer.analyze).
ClosedWasCompared ==
  [][\A p \in Patent : Closes(p) => verdict[p] = "clear" \/ lookup # "whole"]_patentVars

\* A run in which a search, a document or a comparison failed closes nothing
\* (common/analyzer.py: a provider's failure must not turn into "resolved").
FailureClosesNothing == [][failed # {} => \A p \in Patent : ~Closes(p)]_patentVars

\* previously_matched_patents: "closed risks too; when they overlap again
\* they must come back as REOPENED".  A complete run with a whole lookup has
\* looked at every patent that ever matched.
ClosedIsLookedAtAgain ==
  [][AcceptPatents /\ Complete /\ lookup = "whole" =>
       \A p \in Patent : patentRisk[p] = "resolved" => p \in Candidates]_patentVars
=============================================================================
