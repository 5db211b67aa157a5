----------------------------- MODULE Reputation -----------------------------
(***************************************************************************)
(* ReputationScoreService and ReputationStore of src/reputation for one    *)
(* node (rows of different nodes share nothing): concurrent calls of the   *)
(* three strategies the service offers, the atomic UPDATE, the transaction *)
(* with a row lock, and the reward that checks slash_version.              *)
(*                                                                         *)
(* One step is one SQL statement at READ COMMITTED.  A statement that      *)
(* writes the row waits while an open transaction has locked it.           *)
(***************************************************************************)
EXTENDS Integers, FiniteSets

CONSTANTS
  ScoreCalls,      \* calls of the service
  NoScoreCall,     \* no transaction has locked the row
  MIN_SCORE,       \* -1000 in the code
  MAX_SCORE,       \* 1000 in the code
  REWARD_DELTA,    \* 10 in the code
  SLASHING_DELTA   \* 500 in the code

ASSUME ScoreAssumption ==
  /\ NoScoreCall \notin ScoreCalls
  /\ MIN_SCORE \in Int /\ MAX_SCORE \in Int /\ MIN_SCORE <= MAX_SCORE
  /\ REWARD_DELTA \in Nat /\ SLASHING_DELTA \in Nat

VARIABLES
  reputation,   \* the row of the table reputations
  scoreCall,    \* each call, with the columns it has read
  scoreLock     \* the call whose transaction has locked the row

scoreVars == <<reputation, scoreCall, scoreLock>>

Score == MIN_SCORE..MAX_SCORE

\* applyReward, applySlashing, their transactional variants, and
\* applyRewardWithSlashCheck.
Slashings == {"slash", "slashTx"}
Strategies == Slashings \cup {"reward", "rewardTx", "rewardCheck"}
ScoreOpen == {"read", "update", "commit"}

ScoreTypeOK ==
  /\ reputation \in [present : BOOLEAN, score : Score, slash_version : Nat]
  /\ scoreCall \in [ScoreCalls -> [pc : {"idle", "done", "threw"} \cup ScoreOpen,
                                   strategy : Strategies, score : Score,
                                   slash_version : Nat]]
  /\ scoreLock \in ScoreCalls \cup {NoScoreCall}

ScoreInit ==
  /\ reputation = [present |-> FALSE, score |-> MIN_SCORE, slash_version |-> 0]
  /\ scoreCall = [c \in ScoreCalls |-> [pc |-> "idle", strategy |-> "reward",
                                        score |-> MIN_SCORE, slash_version |-> 0]]
  /\ scoreLock = NoScoreCall

-----------------------------------------------------------------------------
\* LEAST(MAX_SCORE, GREATEST(MIN_SCORE, x)), in SQL and in the service.
clamp(x) == IF x > MAX_SCORE THEN MAX_SCORE ELSE IF x < MIN_SCORE THEN MIN_SCORE ELSE x

delta(s) == IF s \in Slashings THEN -SLASHING_DELTA ELSE REWARD_DELTA

EndScore(c, result) ==
  scoreCall' = [scoreCall EXCEPT ![c] = [pc |-> result, strategy |-> @.strategy,
                                         score |-> MIN_SCORE, slash_version |-> 0]]

\* INSERT ... ON CONFLICT DO NOTHING; it changes nothing once the row is there.
initializeNode(score) ==
  /\ ~reputation.present
  /\ reputation' = [present |-> TRUE, score |-> score, slash_version |-> 0]
  /\ UNCHANGED <<scoreCall, scoreLock>>

CallScore(c, s) ==
  /\ scoreCall[c].pc = "idle"
  /\ scoreCall' = [scoreCall EXCEPT ![c].pc = "read", ![c].strategy = s]
  /\ UNCHANGED <<reputation, scoreLock>>

ScoreNotFound(c) ==
  /\ scoreCall[c].pc = "read"
  /\ ~reputation.present
  /\ EndScore(c, "threw")
  /\ UNCHANGED <<reputation, scoreLock>>

\* The call has read the row, with or without a lock.
HasRead(c, label) ==
  scoreCall' = [scoreCall EXCEPT ![c].pc = label, ![c].score = reputation.score,
                                 ![c].slash_version = reputation.slash_version]

\* A plain SELECT, which never waits.
ReadScore(c) ==
  /\ scoreCall[c].pc = "read"
  /\ scoreCall[c].strategy \in {"reward", "slash", "rewardCheck"}
  /\ reputation.present
  /\ HasRead(c, "update")
  /\ UNCHANGED <<reputation, scoreLock>>

\* Fault: the score that was read is written back.
UpdateScore_Stale(c) ==
  LET s == scoreCall[c].strategy IN
  /\ scoreCall[c].pc = "update" /\ s \in {"reward", "slash"}
  /\ scoreLock = NoScoreCall
  /\ reputation' = [reputation EXCEPT
                      !.score = clamp(scoreCall[c].score + delta(s)),
                      !.slash_version = @ + (IF s = "slash" THEN 1 ELSE 0)]
  /\ EndScore(c, "done")
  /\ UNCHANGED scoreLock

\* applyRewardAtomic, applySlashingAtomic: one UPDATE, whose answer may be lost.
UpdateScore(c) ==
  LET s == scoreCall[c].strategy IN
  /\ scoreCall[c].pc = "update" /\ s \in {"reward", "slash"}
  /\ scoreLock = NoScoreCall
  /\ reputation' = [reputation EXCEPT
                      !.score = clamp(@ + delta(s)),
                      !.slash_version = @ + (IF s = "slash" THEN 1 ELSE 0)]
  /\ \E result \in {"done", "threw"} : EndScore(c, result)
  /\ UNCHANGED scoreLock

\* SELECT ... FOR UPDATE [NOWAIT], twice in the same transaction.
LockScore(c) ==
  /\ scoreCall[c].pc = "read"
  /\ scoreCall[c].strategy \in {"rewardTx", "slashTx"}
  /\ reputation.present
  /\ scoreLock = NoScoreCall
  /\ HasRead(c, "commit")
  /\ scoreLock' = c
  /\ UNCHANGED reputation

\* NOWAIT: the slashing gives up when the row is locked.
SlashRefused(c) ==
  /\ scoreCall[c].pc = "read" /\ scoreCall[c].strategy = "slashTx"
  /\ reputation.present
  /\ scoreLock # NoScoreCall
  /\ EndScore(c, "threw")
  /\ UNCHANGED <<reputation, scoreLock>>

\* Fault: slash_version is not compared.
UpdateChecked_NoVersion(c) ==
  /\ scoreCall[c].pc = "update" /\ scoreCall[c].strategy = "rewardCheck"
  /\ scoreLock = NoScoreCall
  /\ scoreLock' = c
  /\ scoreCall' = [scoreCall EXCEPT ![c].pc = "commit"]
  /\ UNCHANGED reputation

\* UPDATE ... WHERE slash_version = $3; no row: a concurrent slashing is reported.
UpdateChecked(c) ==
  /\ scoreCall[c].pc = "update" /\ scoreCall[c].strategy = "rewardCheck"
  /\ \/ /\ scoreCall[c].slash_version = reputation.slash_version
        /\ scoreLock = NoScoreCall
        /\ scoreLock' = c
        /\ scoreCall' = [scoreCall EXCEPT ![c].pc = "commit"]
     \/ /\ scoreCall[c].slash_version # reputation.slash_version
        /\ EndScore(c, "threw")
        /\ UNCHANGED scoreLock
  /\ UNCHANGED reputation

\* The UPDATE with the computed values, and COMMIT, whose answer may be lost.
CommitScore(c) ==
  LET s == scoreCall[c].strategy IN
  /\ scoreCall[c].pc = "commit"
  /\ reputation' = [reputation EXCEPT
                      !.score = clamp(scoreCall[c].score + delta(s)),
                      !.slash_version = IF s = "slashTx" THEN scoreCall[c].slash_version + 1
                                        ELSE @]
  /\ scoreLock' = NoScoreCall
  /\ \E result \in {"done", "threw"} : EndScore(c, result)

\* A statement fails or the process dies: the transaction is rolled back.
AbortScore(c) ==
  /\ scoreCall[c].pc \in ScoreOpen
  /\ scoreLock' = IF scoreLock = c THEN NoScoreCall ELSE scoreLock
  /\ EndScore(c, "threw")
  /\ UNCHANGED reputation

-----------------------------------------------------------------------------
ScoreStep(c) ==
  \/ ScoreNotFound(c) \/ ReadScore(c) \/ UpdateScore(c) \/ LockScore(c)
  \/ SlashRefused(c) \/ UpdateChecked(c) \/ CommitScore(c)

ScoreNext ==
  \/ \E score \in Score : initializeNode(score)
  \/ \E c \in ScoreCalls : \/ \E s \in Strategies : CallScore(c, s)
                           \/ ScoreStep(c)
                           \/ AbortScore(c)

\* The database answers a statement that need not wait.
ScoreFairness == \A c \in ScoreCalls : WF_scoreVars(ScoreStep(c))

ScoreSpec == ScoreInit /\ [][ScoreNext]_scoreVars /\ ScoreFairness

-----------------------------------------------------------------------------
SlashesIn(pcs) ==
  {c \in ScoreCalls : scoreCall[c].strategy \in Slashings /\ scoreCall[c].pc \in pcs}

\* No slashing is lost or counted twice: slash_version counts every slashing that
\* reported success, and else only ones whose answer was lost.
SlashCounted ==
  reputation.slash_version \in
    Cardinality(SlashesIn({"done"})) .. Cardinality(SlashesIn({"done", "threw"}))

\* A committed slashing takes SLASHING_DELTA, down to the minimum, from the score
\* as it then is, whatever the calls it overtook had read; and nothing else lowers
\* the score but a reward with slash check, which may overwrite other rewards.
SlashIsExact ==
  [][reputation.present =>
       /\ reputation'.slash_version # reputation.slash_version =>
            /\ reputation'.slash_version = reputation.slash_version + 1
            /\ reputation'.score = clamp(reputation.score - SLASHING_DELTA)
       /\ reputation'.score < reputation.score =>
            \/ reputation'.slash_version # reputation.slash_version
            \/ \E c \in ScoreCalls : /\ scoreCall[c].strategy = "rewardCheck"
                                     /\ scoreCall[c].pc = "commit"]_scoreVars

\* A transaction about to write a score it computed has seen every slashing.
SlashNotOverwritten ==
  \A c \in ScoreCalls : scoreCall[c].pc = "commit" =>
    /\ scoreCall[c].slash_version = reputation.slash_version
    /\ scoreCall[c].strategy # "rewardCheck" => scoreCall[c].score = reputation.score

\* Every call ends: row locks are given back, whoever fails.
ScoreCallEnds ==
  \A c \in ScoreCalls : scoreCall[c].pc \in ScoreOpen ~> scoreCall[c].pc \in {"done", "threw"}
=============================================================================
