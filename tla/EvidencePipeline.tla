-------------------------- MODULE EvidencePipeline --------------------------
(***************************************************************************)
(* What create_task does between GATHERING and its verdict: retrieval with *)
(* the injection scan, one of the two analyzers, and the deterministic     *)
(* verification of what the analyzer returned.                             *)
(*                                                                         *)
(* A document is a set of lines.  Of a line the model keeps the terms the  *)
(* score counts, the facts the patterns of the analyzer extract, the       *)
(* signals the injection patterns raise, and those they raise on the       *)
(* excerpt, which is cut at 240 characters: a pattern that ends at a word  *)
(* boundary can match there although it does not match the line.  Of       *)
(* generated text it keeps the signals that a scan of it raises.           *)
(***************************************************************************)
EXTENDS Integers, FiniteSets

CONSTANTS
  Library,            \* rows that the table documents may hold
  Requests,           \* [tenant, project, query, required]: where to look,
                      \* terms of the goal, required_evidence of the contract
  Analyzers,          \* configured providers, among "mock" and "openai"
  ModelAnswers,       \* what the language model may return
  Compounds,          \* [parts, signal]: values and document ids that can
                      \* raise the signal when they stand in one line
  MarkerTerms,        \* terms of the text that replaces a removed line
  MaxDocuments,       \* max_documents
  FallbackDocuments,  \* how many are returned when nothing matches
  NoValue

VARIABLES
  documents,  \* the table documents
  request,    \* the request being processed
  provider,   \* settings.llm_provider
  stage,      \* "retrieve", "analyze", "verify", "done" or "raised"
  retrieved,  \* documents handed to the analyzer
  analysis,   \* AnalysisResult
  passed      \* VerificationResult.passed

vars == <<documents, request, provider, stage, retrieved, analysis, passed>>

Current(d) == d.status = "approved"

ASSUME PipelineAssumption ==
  /\ MaxDocuments \in Nat \ {0}
  /\ FallbackDocuments \in 0 .. MaxDocuments
  /\ Analyzers \subseteq {"mock", "openai"}
  \* uq_document_version
  /\ \A d, e \in Library :
       /\ d.id = e.id => d = e
       /\ d.project = e.project /\ d.type = e.type /\ d.version = e.version
            => d = e

\* Documents are finite, versions are integers, and a fact is a key with a
\* value (_extract_facts).
ASSUME DocumentAssumption ==
  /\ IsFiniteSet(Library)
  /\ \A d \in Library :
       /\ d.version \in Int
       /\ IsFiniteSet(d.lines)
       /\ \A l \in d.lines :
            /\ IsFiniteSet(l.facts)
            /\ \A f \in l.facts : f = [key |-> f.key, value |-> f.value]

-----------------------------------------------------------------------------
(* services/security.py and services/retrieval.py                          *)

Signals(d) == UNION {l.signals : l \in d.lines}

\* A scan that reports signals and removes nothing.
ReportOnly(d) == d.lines

\* scan_untrusted_content: a line that raises a signal is replaced.
Sanitized(d) ==
  {l \in d.lines : l.signals = {}} \cup
  {[terms |-> MarkerTerms, signals |-> {}, facts |-> {}, excerpt |-> {}] :
     l \in {x \in d.lines : x.signals # {}}}

Score(d, query) ==
  Cardinality(query \cap (d.titleTerms \cup {d.type}
                           \cup UNION {l.terms : l \in Sanitized(d)}))
    + 2 * Cardinality(query \cap d.titleTerms)

Belongs(d, r) == d.tenant = r.tenant /\ d.project = r.project

\* The highest version of each type, of any status.
LatestOfAnyStatus(rows, r) ==
  {d \in rows : /\ Belongs(d, r)
                /\ \A e \in rows : Belongs(e, r) /\ e.type = d.type
                                     => e.version <= d.version}

\* _latest_approved_documents: the highest approved version of each type.
LatestApproved(rows, r) ==
  {d \in rows : /\ Belongs(d, r)
                /\ Current(d)
                /\ \A e \in rows : Belongs(e, r) /\ Current(e) /\ e.type = d.type
                                     => e.version <= d.version}

RanksAbove(d, e, query) ==
  \/ Score(d, query) > Score(e, query)
  \/ Score(d, query) = Score(e, query) /\ d.version > e.version

\* The first n of `from` in the order of the sort; documents it leaves
\* equal may come in any order.
IsTop(S, from, n, query) ==
  /\ S \subseteq from
  /\ Cardinality(S) = IF Cardinality(from) < n THEN Cardinality(from) ELSE n
  /\ \A d \in S, e \in from \ S : ~RanksAbove(e, d, query)

\* retrieve_documents.
IsRetrieval(S, rows, r) ==
  LET candidates == LatestApproved(rows, r)
      matched == {d \in candidates : Score(d, r.query) > 0}
  IN IF matched # {} THEN IsTop(S, matched, MaxDocuments, r.query)
     ELSE IsTop(S, candidates, FallbackDocuments, r.query)

-----------------------------------------------------------------------------
(* services/analyzer.py                                                    *)

DetectedSignals(docs) == UNION {Signals(d) : d \in docs}

\* _extract_facts, from the sanitized text.
Facts(d) == UNION {l.facts : l \in Sanitized(d)}

Values(docs, key) == {f.value : f \in {g \in UNION {Facts(d) : d \in docs} : g.key = key}}
Sources(docs, key) == {d \in docs : \E f \in Facts(d) : f.key = key}

StatusOf(values) == IF Cardinality(values) > 1 THEN "conflicting" ELSE "supported"

ClaimFrom(docs, key, value) ==
  [key |-> key, values |-> {value}, status |-> "supported",
   sources |-> {d \in docs : [key |-> key, value |-> value] \in Facts(d)}]

\* One value of each key, chosen without saying so.
SilentlyMerged(docs) ==
  LET keys == {f.key : f \in UNION {Facts(d) : d \in docs}}
  IN {ClaimFrom(docs, k, CHOOSE v \in Values(docs, k) : TRUE) : k \in keys}

\* One claim for each key, with every value and every source.
ClaimsOf(docs) ==
  {[key |-> k, values |-> Values(docs, k), status |-> StatusOf(Values(docs, k)),
    sources |-> Sources(docs, k)] :
     k \in {f.key : f \in UNION {Facts(d) : d \in docs}}}

\* Titles of cited documents enter the generated text as they are,
CitedTitles(claims) ==
  UNION {UNION {d.titleSignals : d \in c.sources} : c \in claims}

\* sanitized lines that state a fact as excerpts,
CitedLines(docs) == UNION {{l \in Sanitized(d) : l.facts # {}} : d \in docs}
CutExcerpts(docs) == UNION {l.excerpt : l \in CitedLines(docs)}

\* and a conflict as a line with all values (its finding and its question) and,
\* for each value, one with the ids of the documents that state it (str(conflict)).
ConflictTexts(docs, key) ==
  IF StatusOf(Values(docs, key)) # "conflicting" THEN {}
  ELSE {Values(docs, key)} \cup
       {{v} \cup {d.id : d \in ClaimFrom(docs, key, v).sources} :
          v \in Values(docs, key)}

\* What such a line raises depends on the order of its parts too.
Suspicious(text) == {x \in Compounds : x.parts \subseteq text}
ConflictSignals(docs) ==
  {x.signal : x \in UNION {UNION {Suspicious(text) :
                                     text \in ConflictTexts(docs, c.key)} :
                             c \in ClaimsOf(docs)}}

\* An analysis that reports the signals of the documents it cites.
MockAnalysisOfCited(docs, raised) ==
  [claims |-> ClaimsOf(docs),
   echo |-> CitedTitles(ClaimsOf(docs)) \cup CutExcerpts(docs) \cup raised,
   detected |-> DetectedSignals(UNION {c.sources : c \in ClaimsOf(docs)})]

\* DeterministicAnalyzer.analyze; raised: the signals of the conflicts' texts.
MockAnalysis(docs, raised) ==
  [claims |-> ClaimsOf(docs),
   echo |-> CitedTitles(ClaimsOf(docs)) \cup CutExcerpts(docs) \cup raised,
   detected |-> DetectedSignals(docs)]

\* OpenAIAnalyzer.analyze: unknown document ids are dropped from a claim, the
\* signals are the scan's and not the model's, and the excerpt of a source is the
\* opening of its document, cut like the other excerpts.
ModelClaims(docs, answer) ==
  {[key |-> c.key, values |-> c.values, status |-> c.status,
    sources |-> {d \in docs : d.id \in c.cited}] : c \in answer.claims}

ModelAnalysis(docs, answer) ==
  [claims |-> ModelClaims(docs, answer),
   echo |-> answer.echo \cup CitedTitles(ModelClaims(docs, answer)) \cup
              UNION {UNION {d.opening : d \in c.sources} :
                       c \in ModelClaims(docs, answer)},
   detected |-> DetectedSignals(docs)]

-----------------------------------------------------------------------------
(* services/verifier.py                                                    *)

ClaimsHaveSources(claims) == \A c \in claims : c.sources # {}

ConflictLabelsMatchValues(claims) ==
  \A c \in claims : (c.status = "conflicting") <=> Cardinality(c.values) > 1

\* verify_analysis; write_policy_defined is in TaskContract.
Verdict(a, docs, required) ==
  /\ UNION {c.sources : c \in a.claims} \subseteq docs
  /\ ClaimsHaveSources(a.claims)
  /\ ConflictLabelsMatchValues(a.claims)
  /\ a.echo = {}
  /\ a.detected = DetectedSignals(docs)
  /\ required => a.claims # {}

-----------------------------------------------------------------------------
Init ==
  /\ documents \in SUBSET Library
  /\ request \in Requests
  /\ provider \in Analyzers
  /\ stage = "retrieve"
  /\ retrieved = {}
  /\ analysis = NoValue
  /\ passed = FALSE

Retrieve ==
  /\ stage = "retrieve"
  /\ \E S \in SUBSET documents :
       /\ IsRetrieval(S, documents, request)
       /\ retrieved' = S
  /\ stage' = "analyze"
  /\ UNCHANGED <<documents, request, provider, analysis, passed>>

AnalyzeWithRules ==
  /\ stage = "analyze"
  /\ provider = "mock"
  /\ \E raised \in SUBSET ConflictSignals(retrieved) :
       analysis' = MockAnalysis(retrieved, raised)
  /\ stage' = "verify"
  /\ UNCHANGED <<documents, request, provider, retrieved, passed>>

AnalyzeWithModel(answer) ==
  /\ stage = "analyze"
  /\ provider = "openai"
  /\ analysis' = ModelAnalysis(retrieved, answer)
  /\ stage' = "verify"
  /\ UNCHANGED <<documents, request, provider, retrieved, passed>>

\* The API call raises, or returns no structured analysis.
ModelRaises ==
  /\ stage = "analyze"
  /\ provider = "openai"
  /\ stage' = "raised"
  /\ UNCHANGED <<documents, request, provider, retrieved, analysis, passed>>

Verify ==
  /\ stage = "verify"
  /\ passed' = Verdict(analysis, retrieved, request.required)
  /\ stage' = "done"
  /\ UNCHANGED <<documents, request, provider, retrieved, analysis>>

Next ==
  \/ Retrieve
  \/ AnalyzeWithRules
  \/ \E answer \in ModelAnswers : AnalyzeWithModel(answer)
  \/ ModelRaises
  \/ Verify

Spec == Init /\ [][Next]_vars

-----------------------------------------------------------------------------
(* Properties.                                                             *)

Accepted == stage = "done" /\ passed

\* "Every successfully verified claim maps to retrieved, versioned project
\* documents": whatever the model cites, each accepted claim has a source,
\* and each source is an approved document of the request's tenant and project
\* that no approved document of its type supersedes.
AcceptedClaimsAreGrounded ==
  Accepted =>
    \A c \in analysis.claims :
      /\ c.sources # {}
      /\ \A d \in c.sources :
           /\ d \in documents
           /\ Belongs(d, request)
           /\ Current(d)
           /\ ~\E e \in documents :
                /\ Belongs(e, request) /\ e.type = d.type
                /\ Current(e) /\ e.version > d.version

\* No fact that stands in a line with an injection signal reaches an analysis
\* of the rule-based analyzer, unless a clean line of a retrieved document
\* states it too.
FlaggedLinesAreInert ==
  analysis # NoValue /\ provider = "mock" =>
    \A c \in analysis.claims : \A v \in c.values :
      \E d \in retrieved : \E l \in d.lines :
        /\ l.signals = {}
        /\ [key |-> c.key, value |-> v] \in l.facts

\* Incompatible values are surfaced rather than merged: when two retrieved
\* documents state different values in clean lines, an accepted rule-based
\* analysis has a conflicting claim that names both values and both documents,
\* and an accepted claim of any analyzer with two values is labelled so.
ConflictsAreSurfaced ==
  Accepted =>
    /\ \A c \in analysis.claims : Cardinality(c.values) > 1 => c.status = "conflicting"
    /\ provider = "mock" =>
         \A d, e \in retrieved : \A f \in Facts(d), g \in Facts(e) :
           f.key = g.key /\ f.value # g.value =>
             \E c \in analysis.claims :
               /\ c.key = f.key
               /\ c.status = "conflicting"
               /\ {f.value, g.value} \subseteq c.values
               /\ {d, e} \subseteq c.sources

\* The verifier finds no fault with the sources, the labels and the reported
\* signals of the rule-based analyzer, only with its texts.  It is rejected for
\* lack of required evidence, for the title of a document that it cites, for a
\* clean line whose excerpt is cut where a pattern begins to match, or for what
\* the values and the document ids of a conflict say side by side; the last three
\* can befall documents that raise no signal themselves.
RulesFailOnlyByText ==
  stage = "done" /\ provider = "mock" /\ ~passed =>
    \/ request.required /\ analysis.claims = {}
    \/ \E c \in analysis.claims : \E d \in c.sources : d.titleSignals # {}
    \/ \E d \in retrieved : \E l \in d.lines :
         l.signals = {} /\ l.facts # {} /\ l.excerpt # {}
    \/ \E c \in analysis.claims, x \in Compounds :
         /\ c.status = "conflicting"
         /\ x.parts \subseteq c.values \cup {d.id : d \in c.sources}
=============================================================================
