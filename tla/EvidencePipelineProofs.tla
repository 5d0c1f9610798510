----------------------- MODULE EvidencePipelineProofs -----------------------
(***************************************************************************)
(* Proofs about EvidencePipeline, for every library, request, answer of    *)
(* the language model and limit on the number of documents.                *)
(*                                                                         *)
(* What retrieval guarantees is kept in the invariant as a fact about the  *)
(* retrieved set, because the analyzers and the verifier see only that     *)
(* set; what the rule-based analyzer returns is determined by it, but for  *)
(* the signals that the texts of its conflicts raise.                      *)
(***************************************************************************)
EXTENDS EvidencePipeline, FiniteSetTheorems, Functions, TLAPS

PipelineInv ==
  /\ documents \subseteq Library
  /\ retrieved \subseteq LatestApproved(documents, request)
  /\ stage \in {"retrieve", "analyze", "raised"} => analysis = NoValue
  /\ stage \in {"retrieve", "analyze", "raised", "verify", "done"}
  /\ stage \in {"verify", "done"} /\ provider = "mock" =>
       \E raised \in SUBSET ConflictSignals(retrieved) :
         analysis = MockAnalysis(retrieved, raised)
  /\ stage = "done" => passed = Verdict(analysis, retrieved, request.required)

-----------------------------------------------------------------------------
(* Retrieval.                                                              *)

\* Whatever the query, only the current version of a type is retrieved.
LEMMA RetrievalIsCurrent ==
  ASSUME NEW rows, NEW r, NEW S, IsRetrieval(S, rows, r)
  PROVE  S \subseteq LatestApproved(rows, r)
<1> DEFINE candidates == LatestApproved(rows, r)
<1>1. \/ IsTop(S, {d \in candidates : Score(d, r.query) > 0}, MaxDocuments, r.query)
      \/ IsTop(S, candidates, FallbackDocuments, r.query)
  BY DEF IsRetrieval
<1> QED BY <1>1 DEF IsTop

-----------------------------------------------------------------------------
(* The invariant.                                                          *)

LEMMA InitPipeline == Init => PipelineInv
  BY DEF Init, PipelineInv

LEMMA NextPipeline == PipelineInv /\ [Next]_vars => PipelineInv'
<1> SUFFICES ASSUME PipelineInv, [Next]_vars PROVE PipelineInv'
  OBVIOUS
<1> USE DEF PipelineInv
<1>1. CASE Retrieve
  <2>1. PICK S \in SUBSET documents :
          /\ IsRetrieval(S, documents, request)
          /\ retrieved' = S
    BY <1>1 DEF Retrieve
  <2>2. retrieved' \subseteq LatestApproved(documents, request)
    BY <2>1, RetrievalIsCurrent
  <2> QED BY <1>1, <2>2 DEF Retrieve
<1>2. CASE AnalyzeWithRules
  BY <1>2 DEF AnalyzeWithRules
<1>3. ASSUME NEW answer \in ModelAnswers, AnalyzeWithModel(answer)
      PROVE  PipelineInv'
  BY <1>3 DEF AnalyzeWithModel
<1>4. CASE ModelRaises
  BY <1>4 DEF ModelRaises
<1>5. CASE Verify
  BY <1>5 DEF Verify
<1>6. CASE UNCHANGED vars
  BY <1>6 DEF vars
<1> QED BY <1>1, <1>2, <1>3, <1>4, <1>5, <1>6 DEF Next

\* The pipeline's inductive invariant.
THEOREM PipelineInvariant == Spec => []PipelineInv
<1> QED BY InitPipeline, NextPipeline, PTL DEF Spec

-----------------------------------------------------------------------------
(* What an accepted analysis shows.                                        *)

LEMMA AcceptedVerdict ==
  ASSUME PipelineInv, Accepted
  PROVE  /\ UNION {c.sources : c \in analysis.claims} \subseteq retrieved
         /\ \A c \in analysis.claims : c.sources # {}
         /\ \A c \in analysis.claims :
              c.status = "conflicting" <=> Cardinality(c.values) > 1
  BY DEF PipelineInv, Accepted, Verdict, ClaimsHaveSources,
         ConflictLabelsMatchValues

\* AcceptedClaimsAreGrounded: an accepted claim of either analyzer cites
\* current documents of the request's tenant and project and nothing else,
\* whatever the language model answered.
THEOREM ClaimsAreGrounded == Spec => []AcceptedClaimsAreGrounded
<1>1. PipelineInv => AcceptedClaimsAreGrounded
  <2> SUFFICES ASSUME PipelineInv, Accepted,
                      NEW c \in analysis.claims,
                      NEW d \in c.sources
               PROVE  /\ d \in documents
                      /\ Belongs(d, request)
                      /\ Current(d)
                      /\ ~\E e \in documents :
                           /\ Belongs(e, request) /\ e.type = d.type
                           /\ Current(e) /\ e.version > d.version
    BY AcceptedVerdict DEF AcceptedClaimsAreGrounded
  <2>1. d \in LatestApproved(documents, request)
    BY AcceptedVerdict DEF PipelineInv
  <2>2. ASSUME NEW e \in documents,
               Belongs(e, request), e.type = d.type,
               Current(e), e.version > d.version
        PROVE  FALSE
    <3>1. e.version <= d.version
      BY <2>1, <2>2 DEF LatestApproved
    <3>2. e.version \in Int /\ d.version \in Int
      BY <2>1, DocumentAssumption DEF LatestApproved, PipelineInv
    <3> QED BY <2>2, <3>1, <3>2
  <2> QED BY <2>1, <2>2 DEF LatestApproved
<1> QED BY <1>1, PipelineInvariant, PTL
-----------------------------------------------------------------------------
(* Facts and the claims of the rule-based analyzer.                        *)

LEMMA ImageIsFinite ==
  ASSUME NEW S, IsFiniteSet(S), NEW f
  PROVE  IsFiniteSet({f[x] : x \in S})
<1> DEFINE T == {f[x] : x \in S}
           g == [x \in S |-> f[x]]
<1>1. g \in Surjection(S, T)
  BY DEF Surjection
<1> QED BY <1>1, FS_Surjection

LEMMA TwoElements ==
  ASSUME NEW S, IsFiniteSet(S), NEW x \in S, NEW y \in S, x # y
  PROVE  Cardinality(S) > 1
<1>1. Cardinality(S) \in Nat
  BY FS_CardinalityType
<1>2. Cardinality(S) # 0
  BY FS_EmptySet
<1>3. Cardinality(S) # 1
  BY FS_Singleton
<1> QED BY <1>1, <1>2, <1>3

\* A fact is read from a line that raises no signal.
LEMMA FactsAreClean ==
  ASSUME NEW d \in Library, NEW f \in Facts(d)
  PROVE  /\ \E l \in d.lines : l.signals = {} /\ f \in l.facts
         /\ f = [key |-> f.key, value |-> f.value]
<1>1. PICK l \in Sanitized(d) : f \in l.facts
  BY DEF Facts
<1>2. l \in d.lines /\ l.signals = {}
  BY <1>1 DEF Sanitized
<1> QED BY <1>1, <1>2, DocumentAssumption

LEMMA FactsFinite ==
  ASSUME NEW d \in Library
  PROVE  IsFiniteSet(Facts(d))
<1> DEFINE f == [l \in d.lines |-> l.facts]
           all == {f[l] : l \in d.lines}
<1>1. IsFiniteSet(d.lines) /\ \A l \in d.lines : IsFiniteSet(l.facts)
  BY DocumentAssumption
<1>2. IsFiniteSet(all)
  BY <1>1, ImageIsFinite
<1>3. IsFiniteSet(UNION all)
  BY <1>1, <1>2, FS_UNION
<1>4. Facts(d) \subseteq UNION all
  <2> SUFFICES ASSUME NEW x \in Facts(d) PROVE \E l \in d.lines : x \in f[l]
    OBVIOUS
  <2> QED BY FactsAreClean
<1> QED BY <1>3, <1>4, FS_Subset

LEMMA ValuesFinite ==
  ASSUME NEW docs \in SUBSET Library, NEW key
  PROVE  IsFiniteSet(Values(docs, key))
<1> DEFINE ff == [d \in docs |-> Facts(d)]
           facts == UNION {ff[d] : d \in docs}
           vf == [f \in facts |-> f.value]
           values == {vf[f] : f \in facts}
<1>1. IsFiniteSet(docs) /\ \A d \in docs : IsFiniteSet(Facts(d))
  BY DocumentAssumption, FS_Subset, FactsFinite
<1>2. IsFiniteSet({ff[d] : d \in docs})
  BY <1>1, ImageIsFinite
<1>3. IsFiniteSet(facts)
  BY <1>1, <1>2, FS_UNION
<1> HIDE DEF facts
<1>4. IsFiniteSet(values)
  BY <1>3, ImageIsFinite
<1>5. Values(docs, key) \subseteq values
  BY DEF Values, facts
<1> QED BY <1>4, <1>5, FS_Subset

\* One claim for a key that some retrieved document states, with every value
\* and every document that states it.
LEMMA ClaimOfFact ==
  ASSUME NEW docs, NEW d \in docs, NEW f \in Facts(d)
  PROVE  \E c \in ClaimsOf(docs) :
           /\ c.key = f.key
           /\ c.values = Values(docs, f.key)
           /\ c.status = StatusOf(c.values)
           /\ c.sources = Sources(docs, f.key)
           /\ f.value \in c.values
           /\ d \in c.sources
<1> DEFINE c == [key |-> f.key, values |-> Values(docs, f.key),
                 status |-> StatusOf(Values(docs, f.key)),
                 sources |-> Sources(docs, f.key)]
<1>1. c \in ClaimsOf(docs)
  BY DEF ClaimsOf
<1>2. f.value \in Values(docs, f.key) /\ d \in Sources(docs, f.key)
  BY DEF Values, Sources
<1> QED BY <1>1, <1>2

LEMMA ClaimOfDocuments ==
  ASSUME NEW docs, NEW c \in ClaimsOf(docs)
  PROVE  /\ c.values = Values(docs, c.key)
         /\ c.status = StatusOf(c.values)
         /\ c.sources = Sources(docs, c.key)
         /\ \E d \in docs : d \in c.sources
<1>1. PICK k \in {f.key : f \in UNION {Facts(d) : d \in docs}} :
        c = [key |-> k, values |-> Values(docs, k),
             status |-> StatusOf(Values(docs, k)), sources |-> Sources(docs, k)]
  BY DEF ClaimsOf
<1>2. c.key = k /\ c.values = Values(docs, k) /\ c.sources = Sources(docs, k)
      /\ c.status = StatusOf(Values(docs, k))
  BY <1>1
<1>3. PICK d \in docs : \E f \in Facts(d) : f.key = k
  BY <1>1
<1>4. d \in Sources(docs, k)
  BY <1>3 DEF Sources
<1> HIDE <1>1
<1> QED BY <1>2, <1>4

LEMMA RetrievedInLibrary ==
  ASSUME PipelineInv
  PROVE  retrieved \in SUBSET Library
  BY DEF PipelineInv, LatestApproved

\* What the rule-based analyzer returned, until it is replaced.
LEMMA MockClaims ==
  ASSUME PipelineInv, provider = "mock", stage \in {"verify", "done"}
  PROVE  /\ analysis.claims = ClaimsOf(retrieved)
         /\ analysis.detected = DetectedSignals(retrieved)
         /\ \E raised \in SUBSET ConflictSignals(retrieved) :
              analysis.echo = CitedTitles(ClaimsOf(retrieved))
                                \cup CutExcerpts(retrieved) \cup raised
  BY DEF PipelineInv, MockAnalysis

\* FlaggedLinesAreInert: a value in a claim of the rule-based analyzer stands
\* in a line of a retrieved document that raises no signal
\* (scan_untrusted_content, _extract_facts).
THEOREM InstructionsAreInert == Spec => []FlaggedLinesAreInert
<1>1. PipelineInv => FlaggedLinesAreInert
  <2> SUFFICES ASSUME PipelineInv, analysis # NoValue, provider = "mock",
                      NEW c \in analysis.claims, NEW v \in c.values
               PROVE  \E d \in retrieved : \E l \in d.lines :
                        /\ l.signals = {}
                        /\ [key |-> c.key, value |-> v] \in l.facts
    BY DEF FlaggedLinesAreInert
  <2>1. c \in ClaimsOf(retrieved)
    BY MockClaims DEF PipelineInv
  <2>2. v \in Values(retrieved, c.key)
    BY <2>1, ClaimOfDocuments
  <2>3. PICK d \in retrieved : \E f \in Facts(d) : f.key = c.key /\ f.value = v
    BY <2>2 DEF Values
  <2>4. PICK f \in Facts(d) : f.key = c.key /\ f.value = v
    BY <2>3
  <2>5. /\ \E l \in d.lines : l.signals = {} /\ f \in l.facts
        /\ f = [key |-> f.key, value |-> f.value]
    BY <2>3, <2>4, RetrievedInLibrary, FactsAreClean
  <2> QED BY <2>3, <2>4, <2>5
<1> QED BY <1>1, PipelineInvariant, PTL

\* ConflictsAreSurfaced: two values that retrieved documents state for the
\* same key are one claim, labelled conflicting, with both values and both
\* documents; no accepted claim of either analyzer hides a second value.
THEOREM DisagreementIsShown == Spec => []ConflictsAreSurfaced
<1>1. PipelineInv => ConflictsAreSurfaced
  <2> SUFFICES ASSUME PipelineInv, Accepted PROVE ConflictsAreSurfaced
    BY DEF ConflictsAreSurfaced
  <2>1. ASSUME provider = "mock",
               NEW d \in retrieved, NEW e \in retrieved,
               NEW f \in Facts(d), NEW g \in Facts(e),
               f.key = g.key, f.value # g.value
        PROVE  \E c \in analysis.claims :
                 /\ c.key = f.key
                 /\ c.status = "conflicting"
                 /\ {f.value, g.value} \subseteq c.values
                 /\ {d, e} \subseteq c.sources
    <3>1. PICK c \in ClaimsOf(retrieved) :
            /\ c.key = f.key
            /\ c.values = Values(retrieved, f.key)
            /\ c.status = StatusOf(c.values)
            /\ c.sources = Sources(retrieved, f.key)
            /\ f.value \in c.values
            /\ d \in c.sources
      BY ClaimOfFact
    <3>2. g.value \in Values(retrieved, f.key) /\ e \in Sources(retrieved, f.key)
      BY <2>1 DEF Values, Sources
    <3>3. IsFiniteSet(c.values)
      BY <3>1, RetrievedInLibrary, ValuesFinite
    <3>4. c.status = "conflicting"
      BY <2>1, <3>1, <3>2, <3>3, TwoElements DEF StatusOf
    <3>5. c \in analysis.claims
      BY <2>1, <3>1, MockClaims DEF Accepted
    <3> QED BY <3>1, <3>2, <3>4, <3>5
  <2>2. \A c \in analysis.claims :
          Cardinality(c.values) > 1 => c.status = "conflicting"
    BY AcceptedVerdict
  <2> QED BY <2>1, <2>2 DEF ConflictsAreSurfaced
<1> QED BY <1>1, PipelineInvariant, PTL

\* What is said of a conflict is made of the values and sources of its claim.
LEMMA ConflictParts ==
  ASSUME NEW docs, NEW c \in ClaimsOf(docs), NEW text \in ConflictTexts(docs, c.key)
  PROVE  /\ c.status = "conflicting"
         /\ text \subseteq c.values \cup {d.id : d \in c.sources}
<1>1. /\ c.values = Values(docs, c.key)
      /\ c.status = StatusOf(c.values)
      /\ c.sources = Sources(docs, c.key)
  BY ClaimOfDocuments
<1>2. c.status = "conflicting"
  BY <1>1 DEF ConflictTexts
<1>3. CASE text = Values(docs, c.key)
  BY <1>1, <1>2, <1>3
<1>4. ASSUME NEW v \in Values(docs, c.key),
             text = {v} \cup {d.id : d \in ClaimFrom(docs, c.key, v).sources}
      PROVE  text \subseteq c.values \cup {d.id : d \in c.sources}
  <2>1. ASSUME NEW d \in ClaimFrom(docs, c.key, v).sources
        PROVE  d \in c.sources
    <3>1. d \in docs /\ [key |-> c.key, value |-> v] \in Facts(d)
      BY <2>1 DEF ClaimFrom
    <3> QED BY <1>1, <3>1 DEF Sources
  <2> QED BY <1>1, <1>4, <2>1
<1> QED BY <1>2, <1>3, <1>4 DEF ConflictTexts

\* RulesFailOnlyByText: whatever documents are retrieved, verify_analysis finds
\* fault with the rule-based analyzer only for missing evidence or for a text: a
\* title, a cut excerpt, or the values and ids of a conflict.
THEOREM RulesAgreeWithVerifier == Spec => []RulesFailOnlyByText
<1>1. PipelineInv => RulesFailOnlyByText
  <2> SUFFICES ASSUME PipelineInv, stage = "done", provider = "mock", ~passed,
                      ~(request.required /\ analysis.claims = {})
               PROVE  \/ \E c \in analysis.claims : \E d \in c.sources :
                           d.titleSignals # {}
                      \/ \E d \in retrieved : \E l \in d.lines :
                           l.signals = {} /\ l.facts # {} /\ l.excerpt # {}
                      \/ \E c \in analysis.claims, x \in Compounds :
                           /\ c.status = "conflicting"
                           /\ x.parts \subseteq c.values \cup {d.id : d \in c.sources}
    BY DEF RulesFailOnlyByText
  <2> DEFINE claims == ClaimsOf(retrieved)
  <2>1. PICK raised \in SUBSET ConflictSignals(retrieved) :
          analysis.echo = CitedTitles(claims) \cup CutExcerpts(retrieved) \cup raised
    BY MockClaims
  <2>2. /\ analysis.claims = claims
        /\ analysis.detected = DetectedSignals(retrieved)
    BY MockClaims
  <2>3. \A c \in claims : c.sources \subseteq retrieved /\ c.sources # {}
    BY ClaimOfDocuments DEF Sources
  <2>4. \A c \in claims : c.status = "conflicting" <=> Cardinality(c.values) > 1
    BY ClaimOfDocuments DEF StatusOf
  <2>5. analysis.echo # {}
    <3> HIDE DEF claims
    <3> QED BY <2>2, <2>3, <2>4
            DEF PipelineInv, Verdict, ClaimsHaveSources, ConflictLabelsMatchValues
  <2>6. CASE CitedTitles(claims) # {}
    BY <2>2, <2>6 DEF CitedTitles
  <2>7. CASE CutExcerpts(retrieved) # {}
    <3>1. PICK l \in CitedLines(retrieved) : l.excerpt # {}
      BY <2>7 DEF CutExcerpts
    <3>2. PICK d \in retrieved : l \in Sanitized(d) /\ l.facts # {}
      BY DEF CitedLines
    <3>3. l \in d.lines /\ l.signals = {}
      BY <3>2 DEF Sanitized
    <3> QED BY <3>1, <3>2, <3>3
  <2>8. CASE raised # {}
    <3>1. PICK c \in claims :
            \E text \in ConflictTexts(retrieved, c.key) : Suspicious(text) # {}
      BY <2>8 DEF ConflictSignals
    <3>2. PICK text \in ConflictTexts(retrieved, c.key) : Suspicious(text) # {}
      BY <3>1
    <3>3. PICK x \in Compounds : x.parts \subseteq text
      BY <3>2 DEF Suspicious
    <3> QED BY <2>2, <3>2, <3>3, ConflictParts
  <2> QED BY <2>1, <2>5, <2>6, <2>7, <2>8
<1> QED BY <1>1, PipelineInvariant, PTL
=============================================================================
