------------------------------- MODULE Complexity ------------------------------
(***************************************************************************)
(* How complex a request is: the local classifier (complexity/             *)
(* classifier.go), the service that asks it, a remote one, or both, and    *)
(* caches what it is told (complexity_service.go), and the feedback that   *)
(* is counted in Redis.  Scores, thresholds and confidences are            *)
(* hundredths; the features of a text are left out, but for the score and  *)
(* the confidence they make.                                               *)
(***************************************************************************)
EXTENDS Integers, FiniteSets

CONSTANTS
  Analyses,       \* calls of AnalyzeWithCache
  Questions,      \* requests to analyse
  KeyOf,          \* the hash of each: max_tokens and stream are left out of it
  ScoreOf,        \* the weighted score of its features
  ConfidenceOf,   \* and the confidence made of their variance
  Tiers,          \* cfg.ModelTiers, by name and threshold
  RemoteProfiles, \* what the remote service may answer
  MaxRetries,
  Feedbacks,      \* calls of RecordFeedback
  NoProfileYet    \* nothing cached, no result

ASSUME ComplexityAssumption ==
  /\ MaxRetries \in Nat
  /\ ScoreOf \in [Questions -> 0..100] /\ ConfidenceOf \in [Questions -> 30..100]
  /\ \A s, t \in Tiers : s # t => s.threshold # t.threshold
  /\ \A p \in RemoteProfiles : p.confidence \in Int
  /\ IsFiniteSet(Feedbacks)

VARIABLES
  mode,          \* cfg.Mode
  analysis,      \* where a call is
  profileCache,  \* complexity:analyze:<hash>, for each hash
  counts,        \* the three counters of feedback
  feedback       \* where a call of RecordFeedback is

complexityVars == <<mode, analysis, profileCache, counts, feedback>>

AnalysisPCs == {"idle", "analyzing", "remote", "waiting", "storing", "failed", "done"}
FeedbackPCs == {"idle", "judged", "done"}

Keys == {KeyOf[q] : q \in Questions}

Idling == [pc |-> "idle", question |-> NoProfileYet, attempt |-> 0, result |-> NoProfileYet]
-------------------------------------------------------------------------------
scoreToLevel(s) ==
  IF s < 25 THEN "simple" ELSE IF s < 50 THEN "medium" ELSE IF s < 75 THEN "complex" ELSE "expert"

Higher(s, t) == s.threshold > t.threshold

(* The least tier whose threshold the score does not pass, or the highest. *)
selectOptimalModel(s) ==
  LET enough == {t \in Tiers : s <= t.threshold}
  IN IF Tiers = {} THEN [name |-> "standard", threshold |-> 100]
     ELSE IF enough = {} THEN CHOOSE t \in Tiers : \A o \in Tiers : ~Higher(o, t)
     ELSE CHOOSE t \in enough : \A o \in enough : ~Higher(t, o)

(* From 80 and from 90 percent of the tier's threshold. *)
assessQualityRisk(s, t) ==
  IF t.threshold <= 0 THEN "low"
  ELSE IF 10 * s >= 9 * t.threshold THEN "high"
  ELSE IF 10 * s >= 8 * t.threshold THEN "medium" ELSE "low"

determineNeedsUpgrade(s, t) ==
  assessQualityRisk(s, t) = "high" /\ \E o \in Tiers : Higher(o, t)

Classify(q) ==
  LET s == ScoreOf[q]
      t == selectOptimalModel(s)
  IN [level |-> scoreToLevel(s), tier |-> t.name, risk |-> assessQualityRisk(s, t),
      confidence |-> ConfidenceOf[q], upgrade |-> determineNeedsUpgrade(s, t)]

defaultProfile ==
  [level |-> "medium", tier |-> "standard", risk |-> "low", confidence |-> 50, upgrade |-> FALSE]
-------------------------------------------------------------------------------
(* A definition named after a mistake is a mutant that PROJECT.json lists. *)
ComplexityInit ==
  /\ mode \in {"local", "remote", "hybrid"}
  /\ analysis = [c \in Analyses |-> Idling]
  /\ profileCache = [k \in Keys |-> NoProfileYet]
  /\ counts = [satisfied |-> 0, unsatisfied |-> 0, total |-> 0]
  /\ feedback = [f \in Feedbacks |-> [pc |-> "idle", satisfied |-> FALSE]]

Ends(c, pc, p) == analysis' = [analysis EXCEPT ![c].pc = pc, ![c].result = p]

(* AnalyzeWithCache; a GET that fails is a miss. *)
LookUp(c, q, ok) ==
  /\ analysis[c].pc = "idle"
  /\ LET hit == ok /\ profileCache[KeyOf[q]] # NoProfileYet
     IN analysis' = [analysis EXCEPT ![c] =
          [analysis[c] EXCEPT !.question = q, !.pc = IF hit THEN "done" ELSE "analyzing",
                              !.result = IF hit THEN profileCache[KeyOf[q]] ELSE @]]
  /\ UNCHANGED <<mode, profileCache, counts, feedback>>

(* Analyze: a local answer of little confidence is kept while the remote   *)
(* service is asked.                                                       *)
Analyze(c) ==
  /\ analysis[c].pc = "analyzing"
  /\ LET p == Classify(analysis[c].question)
     IN IF mode = "remote" THEN analysis' = [analysis EXCEPT ![c].pc = "remote"]
        ELSE Ends(c, IF mode = "local" \/ p.confidence >= 80 THEN "storing" ELSE "remote", p)
  /\ UNCHANGED <<mode, profileCache, counts, feedback>>

TakesRemote(c, p) ==
  /\ Ends(c, "storing", p)
  /\ UNCHANGED <<mode, profileCache, counts, feedback>>

(* In the hybrid mode the remote answer counts if it is the more confident *)
(* one.                                                                    *)
Compare(c, p) ==
  /\ Ends(c, "storing", IF mode = "hybrid" /\ p.confidence <= analysis[c].result.confidence
                        THEN analysis[c].result ELSE p)
  /\ UNCHANGED <<mode, profileCache, counts, feedback>>

RemoteAnswers(c, p) == analysis[c].pc = "remote" /\ Compare(c, p)

(* A status below 500 that is an error, or an answer that is not a profile. *)
RemoteRefuses(c) == analysis[c].pc = "remote" /\ Compare(c, defaultProfile)

(* A transport error, which a retry may meet because the first attempt has *)
(* read the body, or a status from 500: the next attempt waits, and after  *)
(* the last one the default is taken.                                      *)
RemoteFails(c) ==
  /\ analysis[c].pc = "remote"
  /\ IF analysis[c].attempt < MaxRetries
     THEN /\ analysis' = [analysis EXCEPT ![c].pc = "waiting", ![c].attempt = @ + 1]
          /\ UNCHANGED <<mode, profileCache, counts, feedback>>
     ELSE Compare(c, defaultProfile)

Waits(c) ==
  /\ analysis[c].pc = "waiting"
  /\ analysis' = [analysis EXCEPT ![c].pc = "remote"]
  /\ UNCHANGED <<mode, profileCache, counts, feedback>>

(* The caller's context ends: an error, which the hybrid mode answers with *)
(* the local profile.                                                      *)
Cancelled(c) ==
  /\ analysis[c].pc = "waiting"
  /\ Ends(c, IF mode = "hybrid" THEN "storing" ELSE "failed", analysis[c].result)
  /\ UNCHANGED <<mode, profileCache, counts, feedback>>

(* The default of a service that does not answer is cached like an answer. *)
StoreProfile(c, ok) ==
  /\ analysis[c].pc = "storing"
  /\ profileCache' = IF ok THEN [profileCache EXCEPT ![KeyOf[analysis[c].question]] = analysis[c].result]
                     ELSE profileCache
  /\ Ends(c, "done", analysis[c].result)
  /\ UNCHANGED <<mode, counts, feedback>>

ProfileExpires(k) ==
  /\ profileCache[k] # NoProfileYet
  /\ profileCache' = [profileCache EXCEPT ![k] = NoProfileYet]
  /\ UNCHANGED <<mode, analysis, counts, feedback>>

(* RecordFeedback stores the feedback, and ends there if that fails; then  *)
(* two counters are raised, and errors passed over.                        *)
RecordFeedback(f, satisfied, ok) ==
  /\ feedback[f].pc = "idle"
  /\ feedback' = [feedback EXCEPT ![f] = [pc |-> "judged", satisfied |-> satisfied]]
  /\ counts' = IF ~ok THEN counts
               ELSE IF satisfied THEN [counts EXCEPT !.satisfied = @ + 1]
               ELSE [counts EXCEPT !.unsatisfied = @ + 1]
  /\ UNCHANGED <<mode, analysis, profileCache>>

CountFeedback(f, ok) ==
  /\ feedback[f].pc = "judged"
  /\ feedback' = [feedback EXCEPT ![f].pc = "done"]
  /\ counts' = IF ok THEN [counts EXCEPT !.total = @ + 1] ELSE counts
  /\ UNCHANGED <<mode, analysis, profileCache>>

ComplexityNext ==
  \/ \E c \in Analyses :
       \/ \E q \in Questions, ok \in BOOLEAN : LookUp(c, q, ok)
       \/ Analyze(c) \/ RemoteRefuses(c) \/ RemoteFails(c) \/ Waits(c) \/ Cancelled(c)
       \/ \E p \in RemoteProfiles : RemoteAnswers(c, p)
       \/ \E ok \in BOOLEAN : StoreProfile(c, ok)
  \/ \E k \in Keys : ProfileExpires(k)
  \/ \E f \in Feedbacks, ok \in BOOLEAN : \/ \E satisfied \in BOOLEAN : RecordFeedback(f, satisfied, ok)
                                         \/ CountFeedback(f, ok)

ComplexitySpec == ComplexityInit /\ [][ComplexityNext]_complexityVars
-------------------------------------------------------------------------------
ComplexityTypeOK ==
  /\ mode \in {"local", "remote", "hybrid"}
  /\ \A c \in Analyses : analysis[c].pc \in AnalysisPCs /\ analysis[c].attempt \in 0..MaxRetries
  /\ \A n \in {counts.satisfied, counts.unsatisfied, counts.total} : n \in 0..Cardinality(Feedbacks)
  /\ \A f \in Feedbacks : feedback[f].pc \in FeedbackPCs

(* Where a local answer exists, no answer is less confident than it: not    *)
(* the default of a remote service that fails, is refused or runs out of    *)
(* attempts, not a cached one.  (Requests of one hash share their answers.) *)
NeverBelowLocal ==
  mode # "remote" =>
    \A c \in Analyses : analysis[c].pc = "done" =>
      \E q \in Questions : /\ KeyOf[q] = KeyOf[analysis[c].question]
                           /\ analysis[c].result.confidence >= ConfidenceOf[q]
===============================================================================
