--------------------------- MODULE SlashingProofs ---------------------------
(***************************************************************************)
(* Proofs about the reputation scores, the slashing notifications and the  *)
(* slashing executor, for any number of calls, processes and validators    *)
(* and any scores, deltas and limits.                                      *)
(***************************************************************************)
EXTENDS MCSlashing, FiniteSetTheorems, TLAPS

(***************************************************************************)
(* Reputation                                                              *)
(***************************************************************************)

\* Only the transaction that has locked the row is about to commit.
CommitHasLock ==
  \A c \in ScoreCalls : scoreCall[c].pc = "commit" => scoreLock = c

\* A call that has read the row finds it when it writes, and each strategy writes
\* with its own statements; a row that was never inserted counts no slashing.
ReadIsPresent ==
  /\ ~reputation.present => reputation.slash_version = 0
  /\ \A c \in ScoreCalls :
       /\ scoreCall[c].pc \in {"update", "commit"} => reputation.present
       /\ scoreCall[c].pc = "commit" => scoreCall[c].strategy \notin {"reward", "slash"}

\* Slashings that have ended: finitely many, since one step ends at most one.
EndedFinite == IsFiniteSet(SlashesIn({"done", "threw"}))

ScoreInv == ReputationSafe /\ CommitHasLock /\ ReadIsPresent /\ EndedFinite

CallRecord == [pc : {"idle", "done", "threw"} \cup ScoreOpen, strategy : Strategies,
               score : Score, slash_version : Nat]

\* Clamped scores are scores, whatever is added; a reward never lowers one.
LEMMA ClampInScore ==
  ASSUME NEW x \in Int
  PROVE  clamp(x) \in Score /\ \A y \in Score : x >= y => clamp(x) >= y
  BY ScoreAssumption DEF clamp, Score

\* The slashings that ended after call c is left as r.
LEMMA EndedStep ==
  ASSUME ScoreTypeOK, EndedFinite, NEW c \in ScoreCalls, NEW r \in CallRecord,
         scoreCall' = [scoreCall EXCEPT ![c] = r],
         scoreCall[c].pc \notin {"done", "threw"},
         NEW pcs \in {{"done"}, {"done", "threw"}}
  PROVE  /\ EndedFinite'
         /\ Cardinality(SlashesIn(pcs)) \in Nat
         /\ Cardinality(SlashesIn(pcs))' =
              IF r.pc \in pcs /\ r.strategy \in Slashings
              THEN Cardinality(SlashesIn(pcs)) + 1
              ELSE Cardinality(SlashesIn(pcs))
<1>1. scoreCall'[c] = r /\ \A d \in ScoreCalls : d # c => scoreCall'[d] = scoreCall[d]
  BY DEF ScoreTypeOK
<1>2. ASSUME NEW qcs \in {{"done"}, {"done", "threw"}}
      PROVE  /\ c \notin SlashesIn(qcs)
             /\ SlashesIn(qcs)' = IF r.pc \in qcs /\ r.strategy \in Slashings
                                  THEN SlashesIn(qcs) \cup {c} ELSE SlashesIn(qcs)
  BY <1>1 DEF SlashesIn
<1>3. IsFiniteSet(SlashesIn(pcs))
  <2>1. SlashesIn(pcs) \subseteq SlashesIn({"done", "threw"})
    BY DEF SlashesIn
  <2> QED BY <2>1, FS_Subset DEF EndedFinite
<1>4. EndedFinite'
  BY <1>2, FS_AddElement DEF EndedFinite
<1>5. Cardinality(SlashesIn(pcs)) \in Nat
  BY <1>3, FS_CardinalityType
<1>6. Cardinality(SlashesIn(pcs) \cup {c}) = Cardinality(SlashesIn(pcs)) + 1
  BY <1>2, <1>3, FS_AddElement
<1> QED BY <1>2, <1>4, <1>5, <1>6
\* A step of call c that leaves the row as it is.
ScoreKept(c, r) ==
  /\ UNCHANGED reputation
  /\ scoreCall' = [scoreCall EXCEPT ![c] = r] /\ r \in CallRecord
  /\ scoreCall[c].pc \notin {"done", "threw"} /\ r.pc # "done"
  /\ scoreLock' \in {scoreLock, NoScoreCall, c}
  /\ scoreLock' # scoreLock => scoreLock \in {NoScoreCall, c}
  /\ r.pc = "update" => reputation.present
  /\ r.pc = "commit" =>
       /\ scoreLock' = c /\ reputation.present /\ r.strategy \notin {"reward", "slash"}
       /\ r.slash_version = reputation.slash_version
       /\ r.strategy # "rewardCheck" => r.score = reputation.score

\* A step of call c that writes the row and ends the call.
ScoreWritten(c, r) ==
  /\ \E sc \in Score :
       reputation' = [present |-> TRUE, score |-> sc,
                      slash_version |-> IF r.strategy \in Slashings
                                        THEN reputation.slash_version + 1
                                        ELSE reputation.slash_version]
  /\ scoreCall' = [scoreCall EXCEPT ![c] = r] /\ r \in CallRecord
  /\ scoreCall[c].pc \notin {"done", "threw"} /\ r.pc \in {"done", "threw"}
  /\ \A d \in ScoreCalls : d # c => scoreCall[d].pc # "commit"
  /\ scoreLock' = NoScoreCall

\* Steps that do not write the row keep the invariant.
LEMMA KeptStep ==
  ASSUME ScoreInv, NEW c \in ScoreCalls, NEW r, ScoreKept(c, r)
  PROVE  ScoreInv'
<1> USE DEF ScoreKept
<1>1. ScoreTypeOK /\ scoreCall \in [ScoreCalls -> CallRecord]
  BY DEF ScoreInv, ReputationSafe, ScoreTypeOK, CallRecord
<1>2. scoreCall'[c] = r /\ \A d \in ScoreCalls : d # c => scoreCall'[d] = scoreCall[d]
  BY <1>1
<1>3. ScoreTypeOK'
  BY <1>1 DEF ScoreTypeOK, CallRecord
<1>4. SlashCounted' /\ EndedFinite'
  <2> DEFINE D == Cardinality(SlashesIn({"done"}))
             T == Cardinality(SlashesIn({"done", "threw"}))
  <2>1. EndedFinite' /\ D \in Nat /\ D' = D
    BY <1>1, EndedStep DEF ScoreInv
  <2>2. T \in Nat /\ (T' = T \/ T' = T + 1)
    BY <1>1, EndedStep DEF ScoreInv
  <2>3. reputation.slash_version \in D..T
    BY DEF ScoreInv, ReputationSafe, SlashCounted
  <2>4. SlashCounted' <=> reputation'.slash_version \in D'..T'
    BY DEF SlashCounted
  <2> HIDE DEF D, T
  <2> QED BY <2>1, <2>2, <2>3, <2>4
<1>5. SlashNotOverwritten'
  BY <1>2 DEF ScoreInv, ReputationSafe, SlashNotOverwritten
<1>6. CommitHasLock'
  BY <1>2, ScoreAssumption DEF ScoreInv, CommitHasLock
<1>7. ReadIsPresent'
  BY <1>2 DEF ScoreInv, ReadIsPresent
<1> QED BY <1>3, <1>4, <1>5, <1>6, <1>7 DEF ScoreInv, ReputationSafe

\* Steps that write the row keep the invariant.
LEMMA WrittenStep ==
  ASSUME ScoreInv, NEW c \in ScoreCalls, NEW r, ScoreWritten(c, r)
  PROVE  ScoreInv'
<1> USE DEF ScoreWritten
<1>1. ScoreTypeOK /\ scoreCall \in [ScoreCalls -> CallRecord]
      /\ reputation.slash_version \in Nat
  BY DEF ScoreInv, ReputationSafe, ScoreTypeOK, CallRecord
<1>2. scoreCall'[c] = r /\ \A d \in ScoreCalls : d # c => scoreCall'[d] = scoreCall[d]
  BY <1>1
<1>3. PICK sc \in Score :
        reputation' = [present |-> TRUE, score |-> sc,
                       slash_version |-> IF r.strategy \in Slashings
                                         THEN reputation.slash_version + 1
                                         ELSE reputation.slash_version]
  OBVIOUS
<1>4. ScoreTypeOK'
  BY <1>1, <1>3 DEF ScoreTypeOK, CallRecord
<1>5. SlashCounted' /\ EndedFinite'
  <2> DEFINE D == Cardinality(SlashesIn({"done"}))
             T == Cardinality(SlashesIn({"done", "threw"}))
             n == IF r.strategy \in Slashings THEN 1 ELSE 0
  <2>1. EndedFinite' /\ D \in Nat /\ (D' = D \/ D' = D + n)
    <3>1. EndedFinite' /\ D \in Nat
          /\ D' = IF r.pc \in {"done"} /\ r.strategy \in Slashings THEN D + 1 ELSE D
      BY <1>1, EndedStep DEF ScoreInv
    <3> HIDE DEF D
    <3> QED BY <3>1
  <2>2. T \in Nat /\ T' = T + n
    <3>1. /\ T \in Nat
          /\ T' = IF r.pc \in {"done", "threw"} /\ r.strategy \in Slashings
                  THEN T + 1 ELSE T
      BY <1>1, EndedStep DEF ScoreInv
    <3> HIDE DEF T
    <3> QED BY <3>1
  <2>3. reputation.slash_version \in D..T
    BY DEF ScoreInv, ReputationSafe, SlashCounted
  <2>4. SlashCounted' <=> reputation'.slash_version \in D'..T'
    BY DEF SlashCounted
  <2>5. reputation'.slash_version = reputation.slash_version + n
    BY <1>1, <1>3
  <2>6. n \in Nat
    OBVIOUS
  <2> HIDE DEF D, T, n
  <2> QED BY <2>1, <2>2, <2>3, <2>4, <2>5, <2>6
<1>6. \A d \in ScoreCalls : scoreCall'[d].pc # "commit"
  BY <1>2
<1>7. SlashNotOverwritten' /\ CommitHasLock'
  BY <1>6 DEF SlashNotOverwritten, CommitHasLock
<1>8. ReadIsPresent'
  BY <1>3, <1>6 DEF ReadIsPresent
<1> QED BY <1>4, <1>5, <1>7, <1>8 DEF ScoreInv, ReputationSafe

\* The table starts without a row and without calls.
LEMMA ScoreInitOK == ScoreInit => ScoreInv
<1> SUFFICES ASSUME ScoreInit PROVE ScoreInv
  OBVIOUS
<1>1. MIN_SCORE \in Score
  BY ScoreAssumption DEF Score
<1>2. ScoreTypeOK
  BY <1>1 DEF ScoreInit, ScoreTypeOK, Strategies, ScoreOpen
<1>3. \A c \in ScoreCalls : scoreCall[c].pc = "idle"
  BY DEF ScoreInit
<1>4. SlashesIn({"done"}) = {} /\ SlashesIn({"done", "threw"}) = {}
  BY <1>3 DEF SlashesIn
<1>5. SlashCounted /\ EndedFinite
  BY <1>4, FS_EmptySet DEF SlashCounted, EndedFinite, ScoreInit
<1>6. SlashNotOverwritten /\ CommitHasLock /\ ReadIsPresent
  BY <1>3 DEF SlashNotOverwritten, CommitHasLock, ReadIsPresent, ScoreInit
<1> QED BY <1>2, <1>5, <1>6 DEF ScoreInv, ReputationSafe
\* Every step of the service keeps the invariant.
LEMMA ScoreStepOK == ScoreInv /\ [ScoreNext]_scoreVars => ScoreInv'
<1> SUFFICES ASSUME ScoreInv, [ScoreNext]_scoreVars PROVE ScoreInv'
  OBVIOUS
<1>1. /\ scoreCall \in [ScoreCalls -> CallRecord]
      /\ reputation \in [present : BOOLEAN, score : Score, slash_version : Nat]
      /\ MIN_SCORE \in Score /\ REWARD_DELTA \in Nat /\ SLASHING_DELTA \in Nat
  BY ScoreAssumption DEF ScoreInv, ReputationSafe, ScoreTypeOK, CallRecord, Score
<1>2. \A st \in Strategies : delta(st) \in Int
  BY <1>1 DEF delta
<1>3. \A c \in ScoreCalls : scoreCall[c].pc = "commit" =>
        /\ scoreLock = c
        /\ scoreCall[c].slash_version = reputation.slash_version
        /\ scoreCall[c].strategy \notin {"reward", "slash"}
        /\ reputation.present
  BY DEF ScoreInv, ReputationSafe, SlashNotOverwritten, CommitHasLock, ReadIsPresent
<1> DEFINE Ended(c, result) == [pc |-> result, strategy |-> scoreCall[c].strategy,
                                score |-> MIN_SCORE, slash_version |-> 0]
<1>4. \A c \in ScoreCalls, result \in {"done", "threw"} :
        /\ Ended(c, result) \in CallRecord /\ Ended(c, result).pc = result
        /\ Ended(c, result).strategy = scoreCall[c].strategy
        /\ EndScore(c, result) => scoreCall' = [scoreCall EXCEPT ![c] = Ended(c, result)]
  BY <1>1 DEF CallRecord, EndScore
<1> HIDE DEF Ended
<1>5. CASE UNCHANGED scoreVars
  BY <1>5 DEF scoreVars, ScoreInv, ReputationSafe, ScoreTypeOK, SlashCounted, SlashesIn,
              SlashNotOverwritten, CommitHasLock, ReadIsPresent, EndedFinite
<1>6. ASSUME NEW sc \in Score, initializeNode(sc) PROVE ScoreInv'
  <2>1. /\ reputation' = [present |-> TRUE, score |-> sc, slash_version |-> 0]
        /\ reputation.slash_version = 0 /\ UNCHANGED <<scoreCall, scoreLock>>
        /\ \A c \in ScoreCalls : scoreCall[c].pc # "commit"
    BY <1>6 DEF initializeNode, ScoreInv, ReadIsPresent
  <2>2. ScoreTypeOK'
    BY <1>6, <2>1 DEF ScoreInv, ReputationSafe, ScoreTypeOK
  <2>3. SlashCounted' /\ EndedFinite'
    BY <2>1 DEF ScoreInv, ReputationSafe, SlashCounted, EndedFinite, SlashesIn
  <2>4. SlashNotOverwritten' /\ CommitHasLock' /\ ReadIsPresent'
    BY <2>1 DEF SlashNotOverwritten, CommitHasLock, ReadIsPresent
  <2> QED BY <2>2, <2>3, <2>4 DEF ScoreInv, ReputationSafe
<1>7. ASSUME NEW c \in ScoreCalls, NEW st \in Strategies, CallScore(c, st) PROVE ScoreInv'
  <2> DEFINE r == [scoreCall[c] EXCEPT !.pc = "read", !.strategy = st]
  <2>1. r \in CallRecord /\ r.pc = "read"
    BY <1>1, <1>7 DEF CallRecord, ScoreOpen
  <2>2. scoreCall' = [scoreCall EXCEPT ![c] = r] /\ scoreCall[c].pc = "idle"
        /\ UNCHANGED <<reputation, scoreLock>>
    BY <1>1, <1>7 DEF CallScore, CallRecord
  <2> HIDE DEF r
  <2>3. ScoreKept(c, r)
    BY <2>1, <2>2 DEF ScoreKept
  <2> QED BY <2>3, KeptStep
<1>8. ASSUME NEW c \in ScoreCalls, ScoreNotFound(c) \/ SlashRefused(c) \/ AbortScore(c)
      PROVE  ScoreInv'
  <2>1. /\ EndScore(c, "threw") /\ UNCHANGED reputation
        /\ scoreCall[c].pc \in ScoreOpen
        /\ scoreLock' = scoreLock \/ (scoreLock = c /\ scoreLock' = NoScoreCall)
    BY <1>8 DEF ScoreNotFound, SlashRefused, AbortScore, ScoreOpen
  <2>2. ScoreKept(c, Ended(c, "threw"))
    BY <1>4, <2>1 DEF ScoreKept, ScoreOpen
  <2> QED BY <2>2, KeptStep
<1>9. ASSUME NEW c \in ScoreCalls, NEW label \in {"update", "commit"},
             HasRead(c, label), UNCHANGED reputation,
             scoreCall[c].pc = "read", reputation.present,
             label = "update" => UNCHANGED scoreLock,
             label = "commit" => /\ scoreCall[c].strategy \in {"rewardTx", "slashTx"}
                                 /\ scoreLock = NoScoreCall /\ scoreLock' = c
      PROVE  ScoreInv'
  <2> DEFINE r == [scoreCall[c] EXCEPT !.pc = label, !.score = reputation.score,
                                       !.slash_version = reputation.slash_version]
  <2>1. /\ r \in CallRecord /\ r.pc = label /\ r.score = reputation.score
        /\ r.slash_version = reputation.slash_version
        /\ r.strategy = scoreCall[c].strategy
    BY <1>1, <1>9 DEF CallRecord, ScoreOpen
  <2>2. scoreCall' = [scoreCall EXCEPT ![c] = r]
    BY <1>1, <1>9 DEF HasRead, CallRecord
  <2> HIDE DEF r
  <2>3. ScoreKept(c, r)
    BY <1>9, <2>1, <2>2 DEF ScoreKept
  <2> QED BY <2>3, KeptStep
<1>10. ASSUME NEW c \in ScoreCalls, ReadScore(c) \/ LockScore(c) PROVE ScoreInv'
  BY <1>9, <1>10 DEF ReadScore, LockScore
<1>11. ASSUME NEW c \in ScoreCalls, UpdateChecked(c) PROVE ScoreInv'
  <2>1. CASE /\ scoreCall[c].slash_version = reputation.slash_version
             /\ scoreLock = NoScoreCall /\ scoreLock' = c
             /\ scoreCall' = [scoreCall EXCEPT ![c].pc = "commit"]
    <3> DEFINE r == [scoreCall[c] EXCEPT !.pc = "commit"]
    <3>1. /\ r \in CallRecord /\ r.pc = "commit" /\ r.strategy = "rewardCheck"
          /\ r.slash_version = reputation.slash_version
      BY <1>1, <1>11, <2>1 DEF UpdateChecked, CallRecord, ScoreOpen
    <3>2. scoreCall' = [scoreCall EXCEPT ![c] = r]
      BY <1>1, <2>1 DEF CallRecord
    <3>3. scoreCall[c].pc = "update" /\ reputation.present /\ UNCHANGED reputation
      BY <1>11 DEF UpdateChecked, ScoreInv, ReadIsPresent
    <3> HIDE DEF r
    <3>4. ScoreKept(c, r)
      BY <2>1, <3>1, <3>2, <3>3 DEF ScoreKept
    <3> QED BY <3>4, KeptStep
  <2>2. CASE EndScore(c, "threw") /\ UNCHANGED scoreLock
    <3>1. ScoreKept(c, Ended(c, "threw"))
      BY <1>4, <1>11, <2>2 DEF ScoreKept, UpdateChecked
    <3> QED BY <3>1, KeptStep
  <2> QED BY <1>11, <2>1, <2>2 DEF UpdateChecked
<1>12. ASSUME NEW c \in ScoreCalls, UpdateScore(c) PROVE ScoreInv'
  <2>1. PICK result \in {"done", "threw"} : EndScore(c, result)
    BY <1>12 DEF UpdateScore
  <2>2. /\ scoreCall[c].pc = "update" /\ scoreCall[c].strategy \in {"reward", "slash"}
        /\ scoreLock = NoScoreCall /\ scoreLock' = NoScoreCall /\ reputation.present
    BY <1>12 DEF UpdateScore, ScoreInv, ReadIsPresent
  <2>3. clamp(reputation.score + delta(scoreCall[c].strategy)) \in Score
    BY <1>1, <1>2, ClampInScore DEF Score, CallRecord
  <2>4. reputation' = [present |-> TRUE,
                       score |-> clamp(reputation.score + delta(scoreCall[c].strategy)),
                       slash_version |-> IF scoreCall[c].strategy \in Slashings
                                         THEN reputation.slash_version + 1
                                         ELSE reputation.slash_version]
    <3>1. reputation.slash_version + (IF scoreCall[c].strategy = "slash" THEN 1 ELSE 0)
            = IF scoreCall[c].strategy \in Slashings THEN reputation.slash_version + 1
              ELSE reputation.slash_version
      BY <1>1, <2>2 DEF Slashings
    <3> QED BY <1>1, <1>12, <2>2, <3>1 DEF UpdateScore
  <2>5. \A d \in ScoreCalls : scoreCall[d].pc # "commit"
    BY <1>3, <2>2, ScoreAssumption
  <2>6. ScoreWritten(c, Ended(c, result))
    BY <1>4, <2>1, <2>2, <2>3, <2>4, <2>5 DEF ScoreWritten
  <2> QED BY <2>6, WrittenStep
<1>13. ASSUME NEW c \in ScoreCalls, CommitScore(c) PROVE ScoreInv'
  <2>1. PICK result \in {"done", "threw"} : EndScore(c, result)
    BY <1>13 DEF CommitScore
  <2>2. /\ scoreCall[c].pc = "commit" /\ scoreLock = c /\ scoreLock' = NoScoreCall
        /\ reputation.present /\ scoreCall[c].slash_version = reputation.slash_version
        /\ scoreCall[c].strategy \notin {"reward", "slash"}
    BY <1>3, <1>13 DEF CommitScore
  <2>3. clamp(scoreCall[c].score + delta(scoreCall[c].strategy)) \in Score
    BY <1>1, <1>2, ClampInScore DEF Score, CallRecord
  <2>4. reputation' = [present |-> TRUE,
                       score |-> clamp(scoreCall[c].score + delta(scoreCall[c].strategy)),
                       slash_version |-> IF scoreCall[c].strategy \in Slashings
                                         THEN reputation.slash_version + 1
                                         ELSE reputation.slash_version]
    BY <1>1, <1>13, <2>2 DEF CommitScore, Slashings
  <2>5. \A d \in ScoreCalls : d # c => scoreCall[d].pc # "commit"
    BY <1>3, <2>2
  <2>6. ScoreWritten(c, Ended(c, result))
    BY <1>4, <2>1, <2>2, <2>3, <2>4, <2>5 DEF ScoreWritten
  <2> QED BY <2>6, WrittenStep
<1> QED BY <1>5, <1>6, <1>7, <1>8, <1>10, <1>11, <1>12, <1>13 DEF ScoreNext, ScoreStep

\* The invariant of the reputation service holds in every reachable state.
LEMMA ScoreInvariance == ScoreSpec => []ScoreInv
<1> QED BY ScoreInitOK, ScoreStepOK, PTL DEF ScoreSpec

\* However transactions, atomic updates and checked rewards interleave and lose
\* their answers, scores stay in their bounds, slash_version counts the committed
\* slashings, and nobody writes a score computed before a slashing.
THEOREM ReputationIsSafe == ScoreSpec => []ReputationSafe
<1>1. ScoreInv => ReputationSafe
  BY DEF ScoreInv
<1> QED BY <1>1, ScoreInvariance, PTL
\* A committed slashing takes SLASHING_DELTA from the score as it then is, and no
\* reward but a checked one ever lowers the score.
THEOREM SlashingIsExact == ScoreSpec => SlashIsExact
<1> DEFINE Exact ==
      reputation.present =>
        /\ reputation'.slash_version # reputation.slash_version =>
             /\ reputation'.slash_version = reputation.slash_version + 1
             /\ reputation'.score = clamp(reputation.score - SLASHING_DELTA)
        /\ reputation'.score < reputation.score =>
             \/ reputation'.slash_version # reputation.slash_version
             \/ \E c \in ScoreCalls : /\ scoreCall[c].strategy = "rewardCheck"
                                      /\ scoreCall[c].pc = "commit"
<1>1. ASSUME ScoreInv, ScoreNext PROVE Exact
  <2>1. /\ scoreCall \in [ScoreCalls -> CallRecord]
        /\ reputation \in [present : BOOLEAN, score : Score, slash_version : Nat]
        /\ REWARD_DELTA \in Nat /\ SLASHING_DELTA \in Nat
        /\ reputation.score \in Score /\ reputation.slash_version \in Nat
    BY <1>1, ScoreAssumption DEF ScoreInv, ReputationSafe, ScoreTypeOK, CallRecord, Score
  <2>a. \A x \in Score : x \in Int
    BY ScoreAssumption DEF Score
  <2>b. /\ reputation.score \in Int /\ reputation.slash_version \in Nat
        /\ REWARD_DELTA \in Nat /\ SLASHING_DELTA \in Nat
    BY <2>1, <2>a
  <2>2. CASE UNCHANGED reputation
    <3>1. ~(reputation.score < reputation.score)
      BY <2>b
    <3> QED BY <2>2, <3>1
  <2>3. ASSUME NEW sc \in Score, initializeNode(sc) PROVE Exact
    BY <2>3 DEF initializeNode
  <2>4. ASSUME NEW st \in Strategies, reputation'.score = clamp(reputation.score + delta(st)),
               reputation'.slash_version = IF st \in Slashings
                                           THEN reputation.slash_version + 1
                                           ELSE reputation.slash_version
        PROVE  Exact
    <3>1. CASE st \in Slashings
      <4>1. reputation.score + delta(st) = reputation.score - SLASHING_DELTA
        BY <2>b, <3>1 DEF delta
      <4>2. reputation'.slash_version # reputation.slash_version
        BY <2>b, <2>4, <3>1
      <4> QED BY <2>4, <3>1, <4>1, <4>2
    <3>2. CASE st \notin Slashings
      <4>1. reputation.score \in Score /\ reputation.score + REWARD_DELTA \in Int
            /\ reputation.score + REWARD_DELTA >= reputation.score
        BY <2>1, <2>b
      <4>2. reputation'.score \in Score /\ reputation'.score >= reputation.score
        <5>1. reputation'.score = clamp(reputation.score + REWARD_DELTA)
          BY <2>4, <3>2 DEF delta
        <5> QED BY <4>1, <5>1, ClampInScore
      <4>3. ~(reputation'.score < reputation.score)
        BY <2>a, <2>b, <4>2
      <4> QED BY <2>4, <3>2, <4>3
    <3> QED BY <3>1, <3>2
  <2>5. ASSUME NEW c \in ScoreCalls, UpdateScore(c) PROVE Exact
    <3>1. scoreCall[c].strategy \in {"reward", "slash"} /\ scoreCall[c].strategy \in Strategies
      BY <2>1, <2>5 DEF UpdateScore, CallRecord
    <3>2. reputation'.score = clamp(reputation.score + delta(scoreCall[c].strategy))
      BY <2>1, <2>5 DEF UpdateScore
    <3>3. reputation'.slash_version = IF scoreCall[c].strategy \in Slashings
                                      THEN reputation.slash_version + 1
                                      ELSE reputation.slash_version
      <4>1. CASE scoreCall[c].strategy = "slash"
        BY <2>1, <2>5, <4>1 DEF UpdateScore, Slashings
      <4>2. CASE scoreCall[c].strategy = "reward"
        BY <2>1, <2>5, <4>2 DEF UpdateScore, Slashings
      <4> QED BY <3>1, <4>1, <4>2
    <3> QED BY <2>4, <3>1, <3>2, <3>3
  <2>6. ASSUME NEW c \in ScoreCalls, CommitScore(c) PROVE Exact
    <3>1. /\ scoreCall[c].pc = "commit" /\ scoreCall[c].strategy \in Strategies
          /\ scoreCall[c].strategy \notin {"reward", "slash"}
          /\ scoreCall[c].slash_version = reputation.slash_version
          /\ scoreCall[c].strategy # "rewardCheck" => scoreCall[c].score = reputation.score
      BY <1>1, <2>1, <2>6
         DEF CommitScore, CallRecord, ScoreInv, ReputationSafe, SlashNotOverwritten,
             ReadIsPresent
    <3>2. /\ reputation'.score = clamp(scoreCall[c].score + delta(scoreCall[c].strategy))
          /\ reputation'.slash_version = IF scoreCall[c].strategy \in Slashings
                                         THEN reputation.slash_version + 1
                                         ELSE reputation.slash_version
      BY <2>1, <2>6, <3>1 DEF CommitScore, Slashings
    <3>3. CASE scoreCall[c].strategy = "rewardCheck"
      BY <2>1, <3>1, <3>2, <3>3 DEF Slashings
    <3>4. CASE scoreCall[c].strategy # "rewardCheck"
      BY <2>4, <3>1, <3>2, <3>4
    <3> QED BY <3>3, <3>4
  <2>7. \/ UNCHANGED reputation \/ \E sc \in Score : initializeNode(sc)
        \/ \E c \in ScoreCalls : UpdateScore(c) \/ CommitScore(c)
    BY <1>1 DEF ScoreNext, ScoreStep, CallScore, ScoreNotFound, ReadScore, LockScore,
                SlashRefused, UpdateChecked, AbortScore
  <2> HIDE DEF Exact
  <2> QED BY <2>2, <2>3, <2>5, <2>6, <2>7
<1>2. ScoreInv /\ [ScoreNext]_scoreVars => [Exact]_scoreVars
  BY <1>1
<1> QED BY <1>2, ScoreInvariance, PTL DEF ScoreSpec, SlashIsExact
-----------------------------------------------------------------------------
(***************************************************************************)
(* SlashingExecutor                                                        *)
(***************************************************************************)

\* An executor that counts or inserts has the table, so nobody else writes it.
CounterHasTable ==
  \A s \in Slashers : slasher[s].pc \in {"count", "insert"} => tableLock = s

\* What is about to be recorded passed the checks of calculatePenalty(), and what
\* is recorded is what it returned.
PenaltyIsCalculated ==
  /\ \A s \in Slashers : slasher[s].pc = "insert" =>
       calculable(slasher[s].count, slasher[s].total)
  /\ \A e \in events : e.penalty = calculatePenalty(e.count, e.total)

ExecutorInv == SlashTypeOK /\ SnapshotIsCurrent /\ CounterHasTable /\ PenaltyIsCalculated

\* The arithmetic of calculatePenalty(): the penalty grows strictly as fewer
\* validators are active, from the base to its double.
LEMMA PenaltyBounds ==
  ASSUME NEW t \in Nat, NEW c \in 0..t
  PROVE  /\ calculatePenalty(c, t) \in Nat
         /\ calculatePenalty(c, t) \in
              (BASE_SLASHING_PENALTY * t)..(2 * BASE_SLASHING_PENALTY * t)
         /\ calculatePenalty(c, t) = BASE_SLASHING_PENALTY * t <=> c = t
         /\ \A d \in 0..t : c < d <=> calculatePenalty(c, t) > calculatePenalty(d, t)
<1> DEFINE B == BASE_SLASHING_PENALTY
<1>1. B \in Nat /\ B > 0
  BY ExecutorAssumption
<1>2. \A x \in 0..t : /\ calculatePenalty(x, t) = B * t + B * (t - x)
                      /\ B * t \in Nat /\ B * (t - x) \in Nat
  BY <1>1 DEF calculatePenalty
<1>3. ASSUME NEW x \in Nat, NEW y \in Nat, x < y PROVE B * x < B * y
  BY <1>1, <1>3
<1>4. 2 * B * t = B * t + B * t
  BY <1>1
<1> HIDE DEF B
<1>5. \A x \in 0..t : t - x \in 0..t
  OBVIOUS
<1>6. B * 0 = 0
  BY <1>1
<1>7. \A x, y \in Nat : x <= y => B * x <= B * y
  BY <1>1, <1>3
<1>8. calculatePenalty(c, t) \in Nat
  BY <1>1, <1>2
<1>9. calculatePenalty(c, t) \in (B * t)..(2 * B * t)
  <2>1. B * (t - c) <= B * t
    BY <1>5, <1>7
  <2> QED BY <1>2, <1>4, <2>1
<1>10. calculatePenalty(c, t) = B * t <=> c = t
  <2>1. c < t => B * 0 < B * (t - c)
    BY <1>3
  <2>2. c = t => t - c = 0
    OBVIOUS
  <2> QED BY <1>2, <1>6, <2>1, <2>2
<1>11. ASSUME NEW d \in 0..t
       PROVE  c < d <=> calculatePenalty(c, t) > calculatePenalty(d, t)
  <2>1. c < d => B * (t - d) < B * (t - c)
    BY <1>3
  <2>2. d <= c => B * (t - c) <= B * (t - d)
    BY <1>5, <1>7
  <2> QED BY <1>2, <2>1, <2>2
<1> QED BY <1>8, <1>9, <1>10, <1>11 DEF B
SlasherRecord == [pc : {"idle", "done", "threw"} \cup SlashOpen, validator : Members,
                  total : Nat, count : Nat]

\* The table starts empty.
LEMMA SlashInitOK == SlashInit => ExecutorInv
<1> SUFFICES ASSUME SlashInit PROVE ExecutorInv
  OBVIOUS
<1>1. (CHOOSE v \in Members : TRUE) \in Members
  BY ExecutorAssumption
<1>2. SlashTypeOK
  BY <1>1 DEF SlashInit, SlashTypeOK
<1> QED BY <1>2 DEF SlashInit, ExecutorInv, SnapshotIsCurrent, CounterHasTable,
                    PenaltyIsCalculated

\* Every step of the registry and of the executors keeps the invariant.
LEMMA SlashStepOK == ExecutorInv /\ [SlashNext]_slashVars => ExecutorInv'
<1> SUFFICES ASSUME ExecutorInv, [SlashNext]_slashVars PROVE ExecutorInv'
  OBVIOUS
<1>1. /\ slasher \in [Slashers -> SlasherRecord] /\ events \subseteq Event
      /\ membership \in [Members -> {"none", "active", "inactive"}]
      /\ \A s \in Slashers : slasher[s].pc \in {"count", "insert"} => tableLock = s
      /\ Cardinality(active_validators) \in Nat
  <2>1. IsFiniteSet(active_validators)
    BY ExecutorAssumption, FS_Subset DEF active_validators
  <2> QED BY <2>1, FS_CardinalityType
          DEF ExecutorInv, SlashTypeOK, SlasherRecord, CounterHasTable
<1>2. CASE UNCHANGED slashVars
  BY <1>2 DEF slashVars, ExecutorInv, SlashTypeOK, SnapshotIsCurrent, CounterHasTable,
              PenaltyIsCalculated, active_validators
<1>3. ASSUME NEW v \in Members, NEW status \in {"active", "inactive"},
             registerValidator(v, status) \/ setActive(v, status)
      PROVE  ExecutorInv'
  <2>1. /\ tableLock = NoSlasher /\ UNCHANGED <<tableLock, slasher, events>>
        /\ membership' = [membership EXCEPT ![v] = status]
    BY <1>3 DEF registerValidator, setActive
  <2>2. \A s \in Slashers : slasher[s].pc \notin {"count", "insert"}
    BY <1>1, <2>1, ExecutorAssumption
  <2>3. SlashTypeOK'
    BY <1>1, <2>1 DEF ExecutorInv, SlashTypeOK
  <2> QED BY <2>1, <2>2, <2>3 DEF ExecutorInv, SnapshotIsCurrent, CounterHasTable,
                                  PenaltyIsCalculated
\* A step of s that leaves it as r, and the registry and the events as they are.
<1>4. ASSUME NEW s \in Slashers, NEW r \in SlasherRecord,
             slasher' = [slasher EXCEPT ![s] = r], UNCHANGED <<membership, events>>,
             tableLock' \in Slashers \cup {NoSlasher},
             tableLock' = tableLock \/ tableLock = NoSlasher \/ tableLock = s,
             r.pc \in {"count", "insert"} => tableLock' = s,
             r.pc = "insert" => /\ r.count = Cardinality(active_validators)
                                /\ calculable(r.count, r.total)
      PROVE  ExecutorInv'
  <2>1. slasher'[s] = r /\ \A u \in Slashers : u # s => slasher'[u] = slasher[u]
    BY <1>1, <1>4
  <2>2. SlashTypeOK'
    BY <1>1, <1>4 DEF ExecutorInv, SlashTypeOK, SlasherRecord
  <2>3. SnapshotIsCurrent'
    BY <1>4, <2>1 DEF ExecutorInv, SnapshotIsCurrent, active_validators
  <2>4. CounterHasTable'
    BY <1>1, <1>4, <2>1, ExecutorAssumption DEF CounterHasTable
  <2>5. PenaltyIsCalculated'
    BY <1>4, <2>1 DEF ExecutorInv, PenaltyIsCalculated
  <2> QED BY <2>2, <2>3, <2>4, <2>5 DEF ExecutorInv
<1>5. ASSUME NEW s \in Slashers, NEW v \in Members, NEW total \in TotalCounts,
             Execute(s, v, total)
      PROVE  ExecutorInv'
  <2> DEFINE r == [slasher[s] EXCEPT !.pc = "lock", !.validator = v, !.total = total]
  <2>1. r \in SlasherRecord /\ r.pc = "lock"
    BY <1>1, ExecutorAssumption DEF SlasherRecord, SlashOpen
  <2>2. slasher' = [slasher EXCEPT ![s] = r] /\ UNCHANGED <<membership, tableLock, events>>
    BY <1>5 DEF Execute
  <2>3. tableLock' \in Slashers \cup {NoSlasher}
    BY <2>2 DEF ExecutorInv, SlashTypeOK
  <2> HIDE DEF r
  <2> QED BY <1>4, <2>1, <2>2, <2>3
<1>6. ASSUME NEW s \in Slashers, LockTable(s) PROVE ExecutorInv'
  <2> DEFINE r == [slasher[s] EXCEPT !.pc = "count"]
  <2>1. r \in SlasherRecord /\ r.pc = "count"
    BY <1>1 DEF SlasherRecord, SlashOpen
  <2>2. /\ slasher' = [slasher EXCEPT ![s] = r] /\ UNCHANGED <<membership, events>>
        /\ tableLock = NoSlasher /\ tableLock' = s
    BY <1>6 DEF LockTable
  <2> HIDE DEF r
  <2> QED BY <1>4, <2>1, <2>2
<1>7. ASSUME NEW s \in Slashers, NEW result \in {"done", "threw"}, EndSlash(s, result)
      PROVE  LET r == [slasher[s] EXCEPT !.pc = result]
             IN  /\ r \in SlasherRecord /\ r.pc = result
                 /\ slasher' = [slasher EXCEPT ![s] = r]
                 /\ tableLock' \in Slashers \cup {NoSlasher}
                 /\ tableLock' = tableLock \/ tableLock = s
  BY <1>1, <1>7 DEF EndSlash, SlasherRecord, SlashOpen, ExecutorInv, SlashTypeOK
<1>8. ASSUME NEW s \in Slashers, EndSlash(s, "threw"), UNCHANGED <<membership, events>>
      PROVE  ExecutorInv'
  BY <1>4, <1>7, <1>8
<1>9. ASSUME NEW s \in Slashers, CountActive(s) PROVE ExecutorInv'
  <2> DEFINE n == Cardinality(active_validators)
             r == [slasher[s] EXCEPT !.pc = "insert", !.count = n]
  <2>1. CASE calculable(n, slasher[s].total)
    <3>1. /\ r \in SlasherRecord /\ r.pc = "insert" /\ r.count = n
          /\ r.total = slasher[s].total
      BY <1>1 DEF SlasherRecord, SlashOpen
    <3>2. slasher' = [slasher EXCEPT ![s] = r] /\ UNCHANGED <<membership, events, tableLock>>
      BY <1>1, <1>9, <2>1 DEF CountActive, SlasherRecord
    <3>3. tableLock = s /\ tableLock' \in Slashers \cup {NoSlasher}
      BY <1>1, <1>9, <3>2 DEF CountActive, ExecutorInv, SlashTypeOK
    <3> HIDE DEF r
    <3> QED BY <1>4, <2>1, <3>1, <3>2, <3>3
  <2>2. CASE ~calculable(n, slasher[s].total)
    BY <1>8, <1>9, <2>2 DEF CountActive
  <2> QED BY <2>1, <2>2
<1>10. ASSUME NEW s \in Slashers, RecordEvent(s) PROVE ExecutorInv'
  <2> DEFINE q == slasher[s]
             e == [by |-> s, validator |-> q.validator, count |-> q.count,
                   total |-> q.total, penalty |-> calculatePenalty(q.count, q.total)]
  <2>1. PICK result \in {"done", "threw"} : EndSlash(s, result)
    BY <1>10 DEF RecordEvent
  <2>2. /\ slasher[s].pc = "insert" /\ q \in SlasherRecord
        /\ calculable(q.count, q.total) /\ q.count \in Nat /\ q.total \in Nat
    BY <1>1, <1>10 DEF RecordEvent, ExecutorInv, PenaltyIsCalculated, SlasherRecord
  <2>3. q.count \in 0..q.total /\ q.total > 0 /\ calculatePenalty(q.count, q.total) \in Nat
    BY <2>2, PenaltyBounds DEF calculable
  <2>4. /\ e \in Event /\ e.count \in 0..e.total /\ e.total > 0
        /\ e.penalty = calculatePenalty(e.count, e.total)
    BY <2>2, <2>3 DEF Event, SlasherRecord
  <2>5. events' = events \cup {e} /\ UNCHANGED membership
    BY <1>10 DEF RecordEvent
  <2> DEFINE r == [slasher[s] EXCEPT !.pc = result]
  <2>6. /\ r \in SlasherRecord /\ r.pc = result /\ slasher' = [slasher EXCEPT ![s] = r]
        /\ tableLock' \in Slashers \cup {NoSlasher} /\ tableLock = s
    BY <1>1, <1>7, <2>1, <2>2
  <2> HIDE DEF q, e, r
  <2>7. slasher'[s] = r /\ \A u \in Slashers : u # s => /\ slasher'[u] = slasher[u]
                                                        /\ slasher[u].pc \notin {"count", "insert"}
    BY <1>1, <2>6
  <2>8. SlashTypeOK'
    BY <1>1, <2>4, <2>5, <2>6 DEF ExecutorInv, SlashTypeOK, SlasherRecord
  <2>9. SnapshotIsCurrent' /\ CounterHasTable'
    BY <2>6, <2>7 DEF SnapshotIsCurrent, CounterHasTable
  <2>10. PenaltyIsCalculated'
    BY <2>4, <2>5, <2>6, <2>7 DEF ExecutorInv, PenaltyIsCalculated
  <2> QED BY <2>8, <2>9, <2>10 DEF ExecutorInv
<1>11. ASSUME NEW s \in Slashers, AbortSlash(s) PROVE ExecutorInv'
  BY <1>8, <1>11 DEF AbortSlash
<1> QED BY <1>2, <1>3, <1>5, <1>6, <1>9, <1>10, <1>11 DEF SlashNext, SlashStep

\* However validators join and leave around the transactions, the count recorded
\* with an event is the size of the active set at that moment, and penalties follow
\* the counts strictly, from the base to its double.
THEOREM PenaltyIsSafe == SlashSpec => []PenaltySafe
<1>1. ExecutorInv => PenaltySafe
  <2> SUFFICES ASSUME ExecutorInv PROVE PenaltyFollowsCount
    BY DEF ExecutorInv, PenaltySafe
  <2>1. \A e \in events : /\ e.total \in Nat /\ e.count \in 0..e.total
                          /\ e.penalty = calculatePenalty(e.count, e.total)
    BY DEF ExecutorInv, SlashTypeOK, PenaltyIsCalculated, Event
  <2> QED BY <2>1, PenaltyBounds DEF PenaltyFollowsCount
<1> QED BY <1>1, SlashInitOK, SlashStepOK, PTL DEF SlashSpec
-----------------------------------------------------------------------------
(***************************************************************************)
(* Notifications                                                           *)
(***************************************************************************)

\* A call that has the delivery keeps the row from being claimed.
HolderBlocksClaim ==
  \A c \in Notifiers :
    /\ notifier[c].pc \in {"send", "sending", "mark"} => delivery = "delivering"
    /\ notifier[c].pc = "fail" => delivery \in {"delivering", "delivered"}

\* A process sends only what its sender does not remember, and remembers what was
\* acknowledged.
SenderRemembers ==
  /\ \A c \in Notifiers : notifier[c].pc = "sending" => processOf[c] \notin processed
  /\ \A p \in Processes : acked[p] = 0 \/ (acked[p] = 1 /\ p \in processed)

\* After an acknowledged send whose mark was not lost, nobody sends or fails.
SentIsMarked ==
  sent = 0 \/ lostMark \/
    /\ sent = 1 /\ delivery \in {"delivering", "delivered"}
    /\ \A c \in Notifiers : notifier[c].pc \notin {"send", "sending", "fail"}

NotifyInv ==
  /\ NotifyTypeOK /\ OneSender /\ DeliveringIsWorkedOn
  /\ HolderBlocksClaim /\ SenderRemembers /\ SentIsMarked
NotifierRecord ==
  [pc : {"idle", "delivered", "skipped", "threw", "crashed"} \cup Notifying,
   attempt : 0..maxRetries]

\* Call c moves to label, and the others stay where they are.
Moves(c, label) ==
  /\ notifier' \in [Notifiers -> NotifierRecord]
  /\ notifier'[c].pc = label
  /\ \A d \in Notifiers : d # c => notifier'[d] = notifier[d]

\* What NotifyGoto() does to the calls.
LEMMA GotoMoves ==
  ASSUME NotifyTypeOK, NEW c \in Notifiers,
         NEW label \in {"delivered", "skipped", "threw"} \cup Notifying,
         NotifyGoto(c, label)
  PROVE  Moves(c, label)
<1>1. notifier \in [Notifiers -> NotifierRecord]
  BY DEF NotifyTypeOK, NotifierRecord
<1>2. /\ [notifier[c] EXCEPT !.pc = label] \in NotifierRecord
      /\ [notifier[c] EXCEPT !.pc = label].pc = label
  BY <1>1 DEF NotifierRecord
<1>3. notifier' = [notifier EXCEPT ![c] = [notifier[c] EXCEPT !.pc = label]]
  BY <1>1 DEF NotifyGoto, NotifierRecord
<1> QED BY <1>1, <1>2, <1>3 DEF Moves

\* The row and the senders start empty.
LEMMA NotifyInitOK == NotifyInit => NotifyInv
<1> SUFFICES ASSUME NotifyInit PROVE NotifyInv
  OBVIOUS
<1>1. \A c \in Notifiers : notifier[c].pc = "idle"
  BY DEF NotifyInit
<1>2. NotifyTypeOK
  <2>1. [pc |-> "idle", attempt |-> 0] \in NotifierRecord
    BY NotifyAssumption DEF NotifierRecord
  <2>2. notifier \in [Notifiers -> NotifierRecord]
    BY <2>1 DEF NotifyInit
  <2> QED BY <2>2 DEF NotifyInit, NotifyTypeOK, NotifierRecord
<1>3. OneSender /\ DeliveringIsWorkedOn /\ HolderBlocksClaim
  BY <1>1 DEF OneSender, DeliveringIsWorkedOn, HolderBlocksClaim, Holding, NotifyInit
<1>4. SenderRemembers /\ SentIsMarked
  BY <1>1 DEF SenderRemembers, SentIsMarked, NotifyInit
<1> QED BY <1>2, <1>3, <1>4 DEF NotifyInv

\* A call that does not have the delivery moves to a place where it does not either,
\* or claims it; the senders and the histories stay as they are.
LEMMA BeforeSending ==
  ASSUME NotifyInv, NEW c \in Notifiers,
         notifySlashing(c) \/ getDelivery(c) \/ claimDelivery(c) \/ claimRejects(c)
  PROVE  NotifyInv'
<1> USE DEF At, senders
<1>1. NotifyTypeOK
  BY DEF NotifyInv
<1>2. PICK label \in {"get", "claim", "skipped", "threw", "send"} :
        /\ Moves(c, label)
        /\ label = "send" => Claimed /\ delivery' = "delivering"
        /\ label # "send" => delivery' = delivery \/
             (delivery' = "delivering" /\ Claimed /\ orphaned')
  BY <1>1, GotoMoves DEF notifySlashing, getDelivery, claimDelivery, claimRejects, Notifying,
                         Holding
<1>3. /\ notifier[c].pc \in {"idle", "get", "claim"}
      /\ UNCHANGED <<processed, acked, sent, lostMark>>
      /\ orphaned' = orphaned \/ orphaned' = TRUE
      /\ delivery' = delivery \/ (Claimed /\ delivery' = "delivering")
  BY DEF notifySlashing, getDelivery, claimDelivery, claimRejects
<1>4. Claimed => \A d \in Notifiers : notifier[d].pc \notin Holding
  BY DEF NotifyInv, HolderBlocksClaim, Claimed, Holding
<1>5. NotifyTypeOK'
  BY <1>1, <1>2, <1>3 DEF NotifyTypeOK, Moves, NotifierRecord
<1>6. OneSender' /\ HolderBlocksClaim'
  BY <1>2, <1>3, <1>4 DEF NotifyInv, OneSender, HolderBlocksClaim, Moves, Holding
<1>7. DeliveringIsWorkedOn'
  <2>1. label = "send" => notifier'[c].pc \in Holding
    BY <1>2 DEF Moves, Holding
  <2>2. \A d \in Notifiers : notifier[d].pc \in Holding => notifier'[d].pc \in Holding
    BY <1>2, <1>3 DEF Moves, Holding
  <2> QED BY <1>2, <1>3, <2>1, <2>2 DEF NotifyInv, DeliveringIsWorkedOn, NotifyTypeOK
<1>8. SenderRemembers'
  BY <1>2, <1>3 DEF NotifyInv, SenderRemembers, Moves
<1>9. SentIsMarked'
  BY <1>2, <1>3 DEF NotifyInv, SentIsMarked, Moves, Claimed
<1> QED BY <1>5, <1>6, <1>7, <1>8, <1>9 DEF NotifyInv

\* The call that has the delivery sends it.
LEMMA Sending ==
  ASSUME NotifyInv, NEW c \in Notifiers, Send(c) \/ Sent(c) \/ SendFails(c)
  PROVE  NotifyInv'
<1> USE DEF At, senders
<1>1. NotifyTypeOK /\ processOf[c] \in Processes
  BY NotifyAssumption DEF NotifyInv
<1> DEFINE Quiet == UNCHANGED <<processed, acked, sent>>
           Acked == /\ notifier[c].pc = "sending" /\ sent' = sent + 1
                    /\ processed' = processed \cup {processOf[c]}
                    /\ acked' = [acked EXCEPT ![processOf[c]] = @ + 1]
<1>2. \/ Moves(c, "sending") /\ Quiet /\ processOf[c] \notin processed
      \/ Moves(c, "mark") /\ Quiet
      \/ Moves(c, "fail") /\ Quiet
      \/ Moves(c, "mark") /\ Acked
  <2>1. CASE Send(c)
    BY <1>1, <2>1, GotoMoves DEF Send, Notifying, Holding
  <2>2. CASE Sent(c)
    BY <1>1, <2>2, GotoMoves DEF Sent, Notifying, Holding
  <2>3. CASE SendFails(c)
    BY <1>1, <2>3, GotoMoves DEF SendFails, Notifying, Holding
  <2> QED BY <2>1, <2>2, <2>3
<1>3. /\ notifier[c].pc \in {"send", "sending"} /\ delivery = "delivering"
      /\ UNCHANGED <<delivery, lostMark, orphaned>>
      /\ \A d \in Notifiers : d # c => notifier[d].pc \notin Holding
  BY DEF Send, Sent, SendFails, NotifyInv, HolderBlocksClaim, OneSender, Holding
<1>4. \A d \in Notifiers : d # c => notifier'[d].pc \notin Holding
  BY <1>2, <1>3 DEF Moves
<1>5. NotifyTypeOK'
  BY <1>1, <1>2, <1>3 DEF NotifyTypeOK, Moves, NotifierRecord
<1>6. OneSender' /\ HolderBlocksClaim' /\ DeliveringIsWorkedOn'
  BY <1>2, <1>3, <1>4 DEF OneSender, HolderBlocksClaim, DeliveringIsWorkedOn, Moves, Holding
<1>7. SenderRemembers'
  <2>1. CASE Quiet
    <3>1. notifier'[c].pc = "sending" => processOf[c] \notin processed
      BY <1>2, <2>1, <1>1 DEF Moves, NotifyInv, NotifyTypeOK
    <3> QED BY <1>4, <2>1, <3>1 DEF NotifyInv, SenderRemembers, Holding
  <2>2. CASE Moves(c, "mark") /\ Acked
    <3>1. acked[processOf[c]] = 0 /\ acked \in [Processes -> Nat]
      BY <1>1, <2>2 DEF NotifyInv, SenderRemembers, NotifyTypeOK
    <3>2. \A d \in Notifiers : notifier'[d].pc # "sending"
      BY <1>4, <2>2 DEF Moves, Holding
    <3> QED BY <1>1, <2>2, <3>1, <3>2 DEF NotifyInv, SenderRemembers
  <2> QED BY <1>2, <2>1, <2>2
<1>8. SentIsMarked'
  <2>1. sent = 0 \/ lostMark
    BY <1>3 DEF NotifyInv, SentIsMarked
  <2> QED BY <1>2, <1>3, <1>4, <2>1 DEF SentIsMarked, Moves, Holding
<1> QED BY <1>5, <1>6, <1>7, <1>8 DEF NotifyInv

\* The call that has the delivery marks it, or loses the mark.
LEMMA Marking ==
  ASSUME NotifyInv, NEW c \in Notifiers,
         \/ markDelivered(c) \/ markDeliveredRejects(c)
         \/ markFailed(c) \/ markFailedRejects(c)
  PROVE  NotifyInv'
<1> USE DEF At, senders
<1>1. NotifyTypeOK /\ notifier \in [Notifiers -> NotifierRecord]
  BY DEF NotifyInv, NotifyTypeOK, NotifierRecord
<1>2. \/ /\ Moves(c, "delivered") /\ delivery' = "delivered"
         /\ UNCHANGED <<lostMark, orphaned>>
      \/ /\ Moves(c, "fail") /\ delivery' \in {delivery, "delivered"}
         /\ lostMark' = TRUE /\ UNCHANGED orphaned
      \/ /\ notifier[c].pc = "fail" /\ (Moves(c, "threw") \/ Moves(c, "claim"))
         /\ delivery' = "failed" /\ UNCHANGED <<lostMark, orphaned>>
      \/ /\ notifier[c].pc = "fail" /\ Moves(c, "threw")
         /\ orphaned' = (delivery = "delivering" \/ orphaned)
         /\ UNCHANGED <<delivery, lostMark>>
  <2>1. CASE markDelivered(c)
    BY <1>1, <2>1, GotoMoves DEF markDelivered, Notifying, Holding
  <2>2. CASE markDeliveredRejects(c)
    BY <1>1, <2>2, GotoMoves DEF markDeliveredRejects, Notifying, Holding
  <2>3. CASE markFailedRejects(c)
    BY <1>1, <2>3, GotoMoves DEF markFailedRejects, Notifying, Holding
  <2>4. CASE markFailed(c)
    <3>1. /\ notifier[c].pc = "fail" /\ delivery' = "failed" /\ UNCHANGED <<lostMark, orphaned>>
          /\ notifier' = [notifier EXCEPT ![c] =
               IF notifier[c].attempt = maxRetries
               THEN [notifier[c] EXCEPT !.pc = "threw"]
               ELSE [pc |-> "claim", attempt |-> notifier[c].attempt + 1]]
      BY <2>4 DEF markFailed
    <3>2. CASE notifier[c].attempt = maxRetries
      <4>1. /\ [notifier[c] EXCEPT !.pc = "threw"] \in NotifierRecord
            /\ [notifier[c] EXCEPT !.pc = "threw"].pc = "threw"
        BY <1>1 DEF NotifierRecord
      <4> QED BY <1>1, <3>1, <3>2, <4>1 DEF Moves
    <3>3. CASE notifier[c].attempt # maxRetries
      <4> DEFINE r == [pc |-> "claim", attempt |-> notifier[c].attempt + 1]
      <4>1. notifier[c] \in NotifierRecord /\ notifier[c].attempt + 1 \in 0..maxRetries
        BY <1>1, <3>3, NotifyAssumption DEF NotifierRecord
      <4>2. r \in NotifierRecord /\ r.pc = "claim"
        BY <4>1 DEF NotifierRecord, Notifying
      <4>3. notifier' = [notifier EXCEPT ![c] = r]
        BY <3>1, <3>3
      <4> HIDE DEF r
      <4> QED BY <1>1, <3>1, <4>2, <4>3 DEF Moves
    <3> QED BY <3>2, <3>3
  <2> QED BY <2>1, <2>2, <2>3, <2>4
<1>3. notifier[c].pc \in Holding
  BY DEF markDelivered, markDeliveredRejects, markFailed, markFailedRejects, Holding
<1>4. /\ notifier[c].pc \in {"mark", "fail"} /\ delivery \in {"delivering", "delivered"}
      /\ UNCHANGED <<processed, acked, sent>>
      /\ \A d \in Notifiers : d # c => notifier[d].pc \notin Holding
  BY DEF markDelivered, markDeliveredRejects, markFailed, markFailedRejects, NotifyInv,
         HolderBlocksClaim, OneSender, Holding
<1>5. \A d \in Notifiers : d # c => notifier'[d].pc \notin Holding
  BY <1>2, <1>4 DEF Moves
<1>6. NotifyTypeOK'
  BY <1>1, <1>2, <1>4 DEF NotifyTypeOK, Moves, NotifierRecord
<1>7. OneSender'
  BY <1>5 DEF OneSender
<1>8. HolderBlocksClaim'
  BY <1>2, <1>4, <1>5 DEF HolderBlocksClaim, Moves, Holding
<1>9. DeliveringIsWorkedOn'
  BY <1>2, <1>3 DEF NotifyInv, DeliveringIsWorkedOn, Moves, Holding
<1>10. SenderRemembers'
  BY <1>2, <1>4, <1>5 DEF NotifyInv, SenderRemembers, Moves, Holding
<1>11. SentIsMarked'
  BY <1>2, <1>4, <1>5 DEF NotifyInv, SentIsMarked, Moves, Holding
<1> QED BY <1>6, <1>7, <1>8, <1>9, <1>10, <1>11 DEF NotifyInv

\* A process dies with its calls and what its sender remembers.
LEMMA Crashing ==
  ASSUME NotifyInv, NEW p \in Processes, NotifierCrash(p)
  PROVE  NotifyInv'
<1>1. NotifyTypeOK /\ notifier \in [Notifiers -> NotifierRecord]
      /\ acked \in [Processes -> Nat]
  BY DEF NotifyInv, NotifyTypeOK, NotifierRecord
<1>2. \A c \in Notifiers : /\ [notifier[c] EXCEPT !.pc = "crashed"] \in NotifierRecord
                           /\ [notifier[c] EXCEPT !.pc = "crashed"].pc = "crashed"
  BY <1>1 DEF NotifierRecord
<1>3. /\ notifier' \in [Notifiers -> NotifierRecord]
      /\ \A c \in Notifiers : notifier'[c].pc = "crashed" \/ notifier'[c] = notifier[c]
      /\ \A c \in Notifiers : notifier'[c].pc = "crashed" \/ processOf[c] # p
                                \/ notifier[c].pc \notin Notifying
      /\ \A c \in Notifiers : processOf[c] # p => notifier'[c] = notifier[c]
  BY <1>1, <1>2 DEF NotifierCrash
<1>4. /\ UNCHANGED <<delivery, sent, lostMark>> /\ processed' = processed \ {p}
      /\ acked' = [acked EXCEPT ![p] = 0]
      /\ orphaned' \in BOOLEAN /\ (orphaned => orphaned')
      /\ \A c \in Notifiers : delivery = "delivering" /\ processOf[c] = p
                              /\ notifier[c].pc \in Holding => orphaned'
  BY <1>1 DEF NotifierCrash, NotifyTypeOK, Notifying
<1>5. NotifyTypeOK'
  BY <1>1, <1>3, <1>4 DEF NotifyTypeOK, NotifierRecord
<1>6. OneSender' /\ HolderBlocksClaim'
  BY <1>3, <1>4 DEF NotifyInv, OneSender, HolderBlocksClaim, Holding
<1>7. DeliveringIsWorkedOn'
  BY <1>3, <1>4 DEF NotifyInv, DeliveringIsWorkedOn
<1>8. SenderRemembers'
  BY <1>1, <1>3, <1>4 DEF NotifyInv, SenderRemembers
<1>9. SentIsMarked'
  BY <1>3, <1>4 DEF NotifyInv, SentIsMarked
<1> QED BY <1>5, <1>6, <1>7, <1>8, <1>9 DEF NotifyInv

\* However calls of several processes overlap, fail, lose answers and crash, one at a
\* time sends or marks, no process has two acknowledged sends before it restarts, a
\* second one anywhere follows a lost mark, and a delivery in progress is worked on
\* or was orphaned by a fault.
THEOREM DeliveryIsSafe == NotifySpec => []DeliverySafe
<1>1. NotifyInv => DeliverySafe
  BY DEF NotifyInv, DeliverySafe, NoDuplicateSend, SenderRemembers, SentIsMarked,
         NotifyTypeOK
<1>2. NotifyInv /\ [NotifyNext]_notifyVars => NotifyInv'
  <2> SUFFICES ASSUME NotifyInv, [NotifyNext]_notifyVars PROVE NotifyInv'
    OBVIOUS
  <2>1. CASE UNCHANGED notifyVars
    BY <2>1 DEF notifyVars, NotifyInv, NotifyTypeOK, OneSender, DeliveringIsWorkedOn,
                HolderBlocksClaim, SenderRemembers, SentIsMarked
  <2> QED BY <2>1, BeforeSending, Sending, Marking, Crashing DEF NotifyNext, NotifyStep
<1> QED BY <1>1, <1>2, NotifyInitOK, PTL DEF NotifySpec
=============================================================================
