--------------------------- MODULE Approvals_proofs ---------------------------
(***************************************************************************)
(* Proofs about the cards of Approvals, for any number of cards, presses,    *)
(* sessions and crashes.  The argument follows the entry of a card in the    *)
(* map `pending`: while it is there nothing was applied and nobody was told; *)
(* whoever takes it out is the only one who goes on, and only a crash can     *)
(* put another one, the sweep, in its place.                                *)
(***************************************************************************)
EXTENDS Approvals, FiniteSetTheorems, TLAPS

USE DEF process, sessions, asking, buttons, working, effects, aside

-----------------------------------------------------------------------------
(* Types *)

LEMMA TypeInit == ApprovalInit => ApprovalTypeOK
<1> SUFFICES ASSUME ApprovalInit PROVE ApprovalTypeOK
  OBVIOUS
<1>1. crashes \in 0..MaxCrashes /\ presses \in 0..MaxPresses
  BY ApprovalConstants DEF ApprovalInit
<1> QED
  BY <1>1 DEF ApprovalInit, ApprovalTypeOK, Card

LEMMA TypeStep == ApprovalTypeOK /\ [ApprovalNext]_approvalVars => ApprovalTypeOK'
<1> SUFFICES ASSUME ApprovalTypeOK, [ApprovalNext]_approvalVars PROVE ApprovalTypeOK'
  OBVIOUS
<1> USE DEF ApprovalTypeOK
<1>1. ASSUME NEW t \in Talk, TurnStart(t) \/ TurnEnd(t) \/ Cull(t) PROVE ApprovalTypeOK'
  BY <1>1 DEF TurnStart, TurnEnd, Cull
<1>2. ASSUME NEW c \in Card, AskFails(c) \/ SendFails(c) PROVE ApprovalTypeOK'
  BY <1>2 DEF AskFails, SendFails, Say, Outcome
<1>3. ASSUME NEW c \in Card, AskSend(c) \/ CardAppears(c) PROVE ApprovalTypeOK'
  BY <1>3 DEF AskSend, CardAppears
<1>4. ASSUME NEW c \in Card, SendReturns(c) PROVE ApprovalTypeOK'
  BY <1>4 DEF SendReturns, Card
<1>5. ASSUME NEW c \in Card, ModuleApplied(c) \/ AgentSessionGone(c) PROVE ApprovalTypeOK'
  BY <1>5 DEF ModuleApplied, AgentSessionGone, Say, Outcome
<1>6. ASSUME NEW c \in Card, ResumeLost(c) \/ ResumeRun(c) \/ ResumeTell(c) \/ ResumeClose(c)
      PROVE ApprovalTypeOK'
  BY <1>6 DEF ResumeLost, ResumeRun, ResumeTell, ResumeClose, Say, Outcome
<1>7. ASSUME NEW c \in Card, TimerFires(c) \/ ExpireEnd(c) \/ SweepRow(c) PROVE ApprovalTypeOK'
  BY <1>7 DEF TimerFires, ExpireEnd, SweepRow, Say, Outcome
<1>8. ASSUME NEW c \in Card, NEW v \in {"approve", "reject"}, Press(c, v) PROVE ApprovalTypeOK'
  <2>1. presses' \in 0..MaxPresses
    BY <1>8, ApprovalConstants DEF Press
  <2>2. clicks' \subseteq Click
    BY <1>8 DEF Press, ReadPress, Click
  <2>3. pressed' \in [Card -> SUBSET {"approve", "reject"}]
    BY <1>8 DEF Press
  <2> QED
    BY <1>8, <2>1, <2>2, <2>3 DEF Press
<1>9. ASSUME NEW k \in clicks, LandOnecli(k) \/ LandAdk(k) \/ LandModule(k) PROVE ApprovalTypeOK'
  <2>1. k.card \in Card /\ k.read \in {"approve", "reject", "index"}
    BY DEF Click
  <2> QED
    BY <1>9, <2>1 DEF LandOnecli, LandAdk, LandModule, Say, Outcome
<1>10. CASE Crash
  <2>1. crashes' \in 0..MaxCrashes
    BY <1>10, ApprovalConstants DEF Crash
  <2>2. req' \in [Card -> {"idle", "sending", "asked", "failed"}]
    BY <1>10 DEF Crash
  <2>3. answer' \in [Card -> {"none", "approve", "deny", "dropped"}]
    BY <1>10 DEF Crash
  <2>4. stage' \in [Card -> {"none", "resume", "tell", "close", "expire"}]
        /\ heard' \in [Card -> {"none", "approve", "reject", "index"}] /\ applying' \in [Card -> Nat]
    BY <1>10 DEF Crash
  <2> QED
    BY <1>10, <2>1, <2>2, <2>3, <2>4 DEF Crash
<1>11. CASE Boot
  BY <1>11 DEF Boot
<1>12. CASE UNCHANGED approvalVars
  BY <1>12 DEF approvalVars
<1> QED
  BY <1>1, <1>2, <1>3, <1>4, <1>5, <1>6, <1>7, <1>8, <1>9, <1>10, <1>11, <1>12
     DEF ApprovalNext, CardStep

(* Every variable keeps its type, for any number of cards and crashes.        *)
THEOREM ApprovalTypeCorrect == ApprovalSpec => []ApprovalTypeOK
BY TypeInit, TypeStep, PTL DEF ApprovalSpec

-----------------------------------------------------------------------------
(* Who may go on with a card *)

Timed == Adk \cup Onecli

(* What a card with a deadline has behind it, and that a process that is down
   has nothing in flight.                                                    *)
Claim ==
  /\ ~up => /\ timer = {} /\ clicks = {} /\ sweep = {}
            /\ \A c \in Card : stage[c] = "none" /\ applying[c] = 0
  /\ \A c \in Card : applying[c] > 0 => c \in Module
  /\ \A c \in Timed :
       /\ row[c] # "none" => req[c] = "asked"
       /\ c \in timer => req[c] = "asked" /\ stage[c] = "none" /\ c \notin sweep
       /\ stage[c] # "none" => req[c] = "asked" /\ c \notin sweep
       /\ c \in sweep => req[c] = "asked"
       /\ up /\ row[c] # "none" => c \in timer \/ stage[c] # "none" \/ c \in sweep

LEMMA KindsDisjoint ==
  /\ Timed \cup Module = Card /\ Timed \cap Module = {} /\ Adk \subseteq Timed
  /\ \A c \in Card : c \notin Module <=> c \in Timed
BY ApprovalConstants DEF Timed, Card

LEMMA ClaimStep == ApprovalTypeOK /\ Claim /\ [ApprovalNext]_approvalVars => Claim'
<1> SUFFICES ASSUME ApprovalTypeOK, Claim, [ApprovalNext]_approvalVars PROVE Claim'
  OBVIOUS
<1> USE KindsDisjoint DEF ApprovalTypeOK, Claim
<1>1. ASSUME NEW t \in Talk, TurnStart(t) \/ TurnEnd(t) \/ Cull(t) PROVE Claim'
  BY <1>1 DEF TurnStart, TurnEnd, Cull
<1>2. ASSUME NEW c \in Card, AskFails(c) \/ SendFails(c) PROVE Claim'
  BY <1>2 DEF AskFails, SendFails, MayAsk
<1>3. ASSUME NEW c \in Card, AskSend(c) \/ CardAppears(c) PROVE Claim'
  BY <1>3 DEF AskSend, CardAppears, MayAsk
<1>4. ASSUME NEW c \in Card, SendReturns(c) PROVE Claim'
  BY <1>4 DEF SendReturns
<1>5. ASSUME NEW c \in Card, ModuleApplied(c) \/ AgentSessionGone(c) PROVE Claim'
  BY <1>5 DEF ModuleApplied, AgentSessionGone
<1>6. ASSUME NEW c \in Card, ResumeLost(c) \/ ResumeRun(c) \/ ResumeTell(c) \/ ResumeClose(c)
      PROVE Claim'
  BY <1>6 DEF ResumeLost, ResumeRun, ResumeTell, ResumeClose
<1>7. ASSUME NEW c \in Card, TimerFires(c) \/ ExpireEnd(c) \/ SweepRow(c) PROVE Claim'
  BY <1>7 DEF TimerFires, ExpireEnd, SweepRow
<1>8. ASSUME NEW c \in Card, NEW v \in {"approve", "reject"}, Press(c, v) PROVE Claim'
  BY <1>8 DEF Press
<1>9. ASSUME NEW k \in clicks, LandOnecli(k) PROVE Claim'
  BY <1>9 DEF LandOnecli, Click, Timed
<1>10. ASSUME NEW k \in clicks, LandAdk(k) PROVE Claim'
  BY <1>10 DEF LandAdk, Claims, Click
<1>11. ASSUME NEW k \in clicks, LandModule(k) PROVE Claim'
  BY <1>11 DEF LandModule, Click
<1>12. CASE Crash
  BY <1>12 DEF Crash
<1>13. CASE Boot
  BY <1>13 DEF Boot, Timed
<1>14. CASE UNCHANGED approvalVars
  BY <1>14 DEF approvalVars
<1> QED
  BY <1>1, <1>2, <1>3, <1>4, <1>5, <1>6, <1>7, <1>8, <1>9, <1>10, <1>11, <1>12, <1>13, <1>14
     DEF ApprovalNext, CardStep

LEMMA ClaimAlways == ApprovalSpec => [](ApprovalTypeOK /\ Claim)
<1>1. ApprovalInit => Claim
  BY KindsDisjoint DEF ApprovalInit, Claim
<1> QED
  BY <1>1, ClaimStep, TypeInit, TypeStep, PTL DEF ApprovalSpec

(* While the process runs, no row of a card with a deadline is left without
   anybody to delete it.                                                     *)
THEOREM NothingForgottenHolds == ApprovalSpec => []NothingForgotten
<1>1. Claim => NothingForgotten
  BY DEF Claim, Timed, NothingForgotten
<1> QED
  BY <1>1, ClaimAlways, PTL

-----------------------------------------------------------------------------
(* What was applied *)

Untouched(c) == req[c] \in {"idle", "sending"} \/ c \in timer \/ stage[c] = "resume"

OnlyOne ==
  \A c \in Adk : ran[c] <= 1 /\ (Untouched(c) => ran[c] = 0)

Verdicts ==
  /\ \A k \in clicks : k.read = "approve" => "approve" \in pressed[k.card]
  /\ \A c \in Card :
       heard[c] = "approve" \/ applying[c] > 0 \/ ran[c] > 0 \/ answer[c] = "approve"
         => "approve" \in pressed[c]

LEMMA OnlyOneStep ==
  ApprovalTypeOK /\ Claim /\ OnlyOne /\ [ApprovalNext]_approvalVars => OnlyOne'
<1> SUFFICES ASSUME ApprovalTypeOK, Claim, OnlyOne, [ApprovalNext]_approvalVars PROVE OnlyOne'
  OBVIOUS
<1> USE KindsDisjoint DEF ApprovalTypeOK, Claim, OnlyOne, Untouched
<1>1. ASSUME NEW t \in Talk, TurnStart(t) \/ TurnEnd(t) \/ Cull(t) PROVE OnlyOne'
  BY <1>1 DEF TurnStart, TurnEnd, Cull
<1>2. ASSUME NEW c \in Card, AskFails(c) \/ SendFails(c) PROVE OnlyOne'
  BY <1>2 DEF AskFails, SendFails, MayAsk, Say
<1>3. ASSUME NEW c \in Card, AskSend(c) \/ CardAppears(c) PROVE OnlyOne'
  BY <1>3 DEF AskSend, CardAppears, MayAsk
<1>4. ASSUME NEW c \in Card, SendReturns(c) PROVE OnlyOne'
  BY <1>4 DEF SendReturns
<1>5. ASSUME NEW c \in Card, ModuleApplied(c) \/ AgentSessionGone(c) PROVE OnlyOne'
  BY <1>5 DEF ModuleApplied, AgentSessionGone, Say
<1>6. ASSUME NEW c \in Card, ResumeLost(c) \/ ResumeRun(c) PROVE OnlyOne'
  BY <1>6 DEF ResumeLost, ResumeRun, Say
<1>7. ASSUME NEW c \in Card, ResumeTell(c) \/ ResumeClose(c) PROVE OnlyOne'
  BY <1>7 DEF ResumeTell, ResumeClose, Say
<1>8. ASSUME NEW c \in Card, TimerFires(c) \/ ExpireEnd(c) \/ SweepRow(c) PROVE OnlyOne'
  BY <1>8 DEF TimerFires, ExpireEnd, SweepRow, Say
<1>9. ASSUME NEW c \in Card, NEW v \in {"approve", "reject"}, Press(c, v) PROVE OnlyOne'
  BY <1>9 DEF Press, ReadPress, Click
<1>10. ASSUME NEW k \in clicks, LandOnecli(k) PROVE OnlyOne'
  BY <1>10 DEF LandOnecli, Click
<1>11. ASSUME NEW k \in clicks, LandAdk(k) PROVE OnlyOne'
  BY <1>11 DEF LandAdk, Claims, Click
<1>12. ASSUME NEW k \in clicks, LandModule(k) PROVE OnlyOne'
  BY <1>12 DEF LandModule, Click, Say
<1>13. CASE Crash
  BY <1>13 DEF Crash, Busy
<1>14. CASE Boot
  BY <1>14 DEF Boot
<1>15. CASE UNCHANGED approvalVars
  BY <1>15 DEF approvalVars
<1> QED
  BY <1>1, <1>2, <1>3, <1>4, <1>5, <1>6, <1>7, <1>8, <1>9, <1>10, <1>11, <1>12, <1>13, <1>14, <1>15
     DEF ApprovalNext, CardStep

LEMMA VerdictsStep ==
  ApprovalTypeOK /\ Verdicts /\ [ApprovalNext]_approvalVars => Verdicts'
<1> SUFFICES ASSUME ApprovalTypeOK, Verdicts, [ApprovalNext]_approvalVars PROVE Verdicts'
  OBVIOUS
<1> USE KindsDisjoint DEF ApprovalTypeOK, Verdicts
<1>1. ASSUME NEW t \in Talk, TurnStart(t) \/ TurnEnd(t) \/ Cull(t) PROVE Verdicts'
  BY <1>1 DEF TurnStart, TurnEnd, Cull
<1>2. ASSUME NEW c \in Card, AskFails(c) \/ SendFails(c) PROVE Verdicts'
  BY <1>2 DEF AskFails, SendFails, MayAsk, Say
<1>3. ASSUME NEW c \in Card, AskSend(c) \/ CardAppears(c) PROVE Verdicts'
  BY <1>3 DEF AskSend, CardAppears, MayAsk
<1>4. ASSUME NEW c \in Card, SendReturns(c) PROVE Verdicts'
  BY <1>4 DEF SendReturns
<1>5. ASSUME NEW c \in Card, ModuleApplied(c) \/ AgentSessionGone(c) PROVE Verdicts'
  BY <1>5 DEF ModuleApplied, AgentSessionGone, Say
<1>6. ASSUME NEW c \in Card, ResumeLost(c) \/ ResumeRun(c) PROVE Verdicts'
  BY <1>6 DEF ResumeLost, ResumeRun, Say
<1>7. ASSUME NEW c \in Card, ResumeTell(c) \/ ResumeClose(c) PROVE Verdicts'
  BY <1>7 DEF ResumeTell, ResumeClose, Say
<1>8. ASSUME NEW c \in Card, TimerFires(c) \/ ExpireEnd(c) \/ SweepRow(c) PROVE Verdicts'
  BY <1>8 DEF TimerFires, ExpireEnd, SweepRow, Say
<1>9. ASSUME NEW c \in Card, NEW v \in {"approve", "reject"}, Press(c, v) PROVE Verdicts'
  BY <1>9 DEF Press, ReadPress, Click
<1>10. ASSUME NEW k \in clicks, LandOnecli(k) PROVE Verdicts'
  BY <1>10 DEF LandOnecli, Click
<1>11. ASSUME NEW k \in clicks, LandAdk(k) PROVE Verdicts'
  BY <1>11 DEF LandAdk, Claims, Click
<1>12. ASSUME NEW k \in clicks, LandModule(k) PROVE Verdicts'
  BY <1>12 DEF LandModule, Click, Say
<1>13. CASE Crash
  BY <1>13 DEF Crash, Busy
<1>14. CASE Boot
  BY <1>14 DEF Boot
<1>15. CASE UNCHANGED approvalVars
  BY <1>15 DEF approvalVars
<1> QED
  BY <1>1, <1>2, <1>3, <1>4, <1>5, <1>6, <1>7, <1>8, <1>9, <1>10, <1>11, <1>12, <1>13, <1>14, <1>15
     DEF ApprovalNext, CardStep

(* The tool behind a confirmation runs once at most, and neither it nor a
   module's handler nor a credential without an Approve.                     *)
THEOREM RanOnceHolds == ApprovalSpec => []RanOnce
<1>1. ApprovalInit => OnlyOne /\ Verdicts
  BY KindsDisjoint DEF ApprovalInit, OnlyOne, Untouched, Verdicts
<1>2. OnlyOne /\ Verdicts => RanOnce
  BY DEF OnlyOne, Verdicts, RanOnce
<1> QED
  BY <1>1, <1>2, OnlyOneStep, VerdictsStep, ClaimAlways, PTL DEF ApprovalSpec

-----------------------------------------------------------------------------
(* What was told *)

(* A card whose outcome nobody has told yet.  `told` is empty or holds one      *)
(* outcome as long as no crash has cut a handler of the card short.          *)
Untold(c) ==
  \/ Untouched(c) \/ stage[c] \in {"tell", "expire"}
  \/ c \notin cut /\ row[c] # "none" /\ (~up \/ c \in sweep)

OneOutcome ==
  \A c \in Adk :
    /\ Untold(c) => told[c] = {}
    /\ c \notin cut => told[c] = {} \/ \E o \in Outcome : told[c] = {o}

LEMMA OneOutcomeStep ==
  ApprovalTypeOK /\ Claim /\ OneOutcome /\ [ApprovalNext]_approvalVars => OneOutcome'
<1> SUFFICES ASSUME ApprovalTypeOK, Claim, OneOutcome, [ApprovalNext]_approvalVars PROVE OneOutcome'
  OBVIOUS
<1> USE KindsDisjoint DEF ApprovalTypeOK, Claim, OneOutcome, Untold, Untouched, Outcome
<1>1. ASSUME NEW t \in Talk, TurnStart(t) \/ TurnEnd(t) \/ Cull(t) PROVE OneOutcome'
  BY <1>1 DEF TurnStart, TurnEnd, Cull
<1>2. ASSUME NEW c \in Card, AskFails(c) \/ SendFails(c) PROVE OneOutcome'
  BY <1>2 DEF AskFails, SendFails, MayAsk, Say
<1>3. ASSUME NEW c \in Card, AskSend(c) \/ CardAppears(c) PROVE OneOutcome'
  BY <1>3 DEF AskSend, CardAppears, MayAsk
<1>4. ASSUME NEW c \in Card, SendReturns(c) PROVE OneOutcome'
  BY <1>4 DEF SendReturns
<1>5. ASSUME NEW c \in Card, ModuleApplied(c) \/ AgentSessionGone(c) PROVE OneOutcome'
  BY <1>5 DEF ModuleApplied, AgentSessionGone, Say
<1>6. ASSUME NEW c \in Card, ResumeLost(c) \/ ResumeRun(c) PROVE OneOutcome'
  BY <1>6 DEF ResumeLost, ResumeRun, Say
<1>7. ASSUME NEW c \in Card, ResumeTell(c) \/ ResumeClose(c) PROVE OneOutcome'
  BY <1>7 DEF ResumeTell, ResumeClose, Say
<1>8. ASSUME NEW c \in Card, TimerFires(c) \/ ExpireEnd(c) \/ SweepRow(c) PROVE OneOutcome'
  BY <1>8 DEF TimerFires, ExpireEnd, SweepRow, Say
<1>9. ASSUME NEW c \in Card, NEW v \in {"approve", "reject"}, Press(c, v) PROVE OneOutcome'
  BY <1>9 DEF Press, ReadPress, Click
<1>10. ASSUME NEW k \in clicks, LandOnecli(k) PROVE OneOutcome'
  BY <1>10 DEF LandOnecli, Click
<1>11. ASSUME NEW k \in clicks, LandAdk(k) PROVE OneOutcome'
  BY <1>11 DEF LandAdk, Claims, Click
<1>12. ASSUME NEW k \in clicks, LandModule(k) PROVE OneOutcome'
  BY <1>12 DEF LandModule, Click, Say
<1>13. CASE Crash
  BY <1>13 DEF Crash, Busy
<1>14. CASE Boot
  BY <1>14 DEF Boot
<1>15. CASE UNCHANGED approvalVars
  BY <1>15 DEF approvalVars
<1> QED
  BY <1>1, <1>2, <1>3, <1>4, <1>5, <1>6, <1>7, <1>8, <1>9, <1>10, <1>11, <1>12, <1>13, <1>14, <1>15
     DEF ApprovalNext, CardStep

(* Whoever waits for a confirmation hears of one outcome, unless a crash fell
   between the outcome and the deletion of the row.                          *)
THEOREM ToldOnceHolds == ApprovalSpec => []ToldOnce
<1>1. ApprovalInit => OneOutcome
  BY KindsDisjoint DEF ApprovalInit, OneOutcome
<1>2. OneOutcome => ToldOnce
  <2> SUFFICES ASSUME OneOutcome, NEW c \in Adk \ cut PROVE Cardinality(told[c]) <= 1
    BY DEF ToldOnce
  <2>1. CASE told[c] = {}
    <3>1. Cardinality(told[c]) = 0
      BY <2>1, FS_EmptySet
    <3> QED
      BY <3>1
  <2>2. ASSUME NEW o \in Outcome, told[c] = {o} PROVE Cardinality(told[c]) <= 1
    <3>1. Cardinality(told[c]) = 1
      BY <2>2, FS_Singleton
    <3> QED
      BY <3>1
  <2> QED
    BY <2>1, <2>2 DEF OneOutcome
<1> QED
  BY <1>1, <1>2, OneOutcomeStep, ClaimAlways, PTL DEF ApprovalSpec

-----------------------------------------------------------------------------
(* Lost sessions *)

(* A card whose end deleted the session, and why the session of a card may be
   gone while a verdict on it is awaited.                                    *)
Ended(d) == stage[d] = "tell" \/ told[d] \cap {"result", "expired"} # {} \/ d \in cut
Explained(c) ==
  TalkOf[c] \in culled \/ \E d \in Adk \ {c} : TalkOf[d] = TalkOf[c] /\ Ended(d)

Resuming == \A c \in Card : stage[c] = "resume" => c \in Adk

Needed(c) == req[c] = "sending" \/ c \in timer \/ stage[c] = "resume"

SessionKept ==
  /\ turn \subseteq alive \cup culled \cup {t \in Talk : \E d \in Adk : TalkOf[d] = t /\ Ended(d)}
  /\ \A c \in Adk :
       /\ Untouched(c) => ~Ended(c)
       /\ Needed(c) => TalkOf[c] \in alive \/ Explained(c)
       /\ "lost" \in told[c] => Explained(c)

LEMMA ResumingStep ==
  ApprovalTypeOK /\ Resuming /\ [ApprovalNext]_approvalVars => Resuming'
<1> SUFFICES ASSUME ApprovalTypeOK, Resuming, [ApprovalNext]_approvalVars PROVE Resuming'
  OBVIOUS
<1> USE KindsDisjoint DEF ApprovalTypeOK, Resuming
<1>1. ASSUME NEW t \in Talk, TurnStart(t) \/ TurnEnd(t) \/ Cull(t) PROVE Resuming'
  BY <1>1 DEF TurnStart, TurnEnd, Cull
<1>2. ASSUME NEW c \in Card, AskFails(c) \/ SendFails(c) PROVE Resuming'
  BY <1>2 DEF AskFails, SendFails, MayAsk, Say
<1>3. ASSUME NEW c \in Card, AskSend(c) \/ CardAppears(c) PROVE Resuming'
  BY <1>3 DEF AskSend, CardAppears, MayAsk
<1>4. ASSUME NEW c \in Card, SendReturns(c) PROVE Resuming'
  BY <1>4 DEF SendReturns
<1>5. ASSUME NEW c \in Card, ModuleApplied(c) \/ AgentSessionGone(c) PROVE Resuming'
  BY <1>5 DEF ModuleApplied, AgentSessionGone, Say
<1>6. ASSUME NEW c \in Card, ResumeLost(c) \/ ResumeRun(c) PROVE Resuming'
  BY <1>6 DEF ResumeLost, ResumeRun, Say
<1>7. ASSUME NEW c \in Card, ResumeTell(c) \/ ResumeClose(c) PROVE Resuming'
  BY <1>7 DEF ResumeTell, ResumeClose, Say
<1>8. ASSUME NEW c \in Card, TimerFires(c) \/ ExpireEnd(c) \/ SweepRow(c) PROVE Resuming'
  BY <1>8 DEF TimerFires, ExpireEnd, SweepRow, Say
<1>9. ASSUME NEW c \in Card, NEW v \in {"approve", "reject"}, Press(c, v) PROVE Resuming'
  BY <1>9 DEF Press, ReadPress, Click
<1>10. ASSUME NEW k \in clicks, LandOnecli(k) PROVE Resuming'
  BY <1>10 DEF LandOnecli, Click
<1>11. ASSUME NEW k \in clicks, LandAdk(k) PROVE Resuming'
  BY <1>11 DEF LandAdk, Claims, Click
<1>12. ASSUME NEW k \in clicks, LandModule(k) PROVE Resuming'
  BY <1>12 DEF LandModule, Click, Say
<1>13. CASE Crash
  BY <1>13 DEF Crash, Busy
<1>14. CASE Boot
  BY <1>14 DEF Boot
<1>15. CASE UNCHANGED approvalVars
  BY <1>15 DEF approvalVars
<1> QED
  BY <1>1, <1>2, <1>3, <1>4, <1>5, <1>6, <1>7, <1>8, <1>9, <1>10, <1>11, <1>12, <1>13, <1>14, <1>15
     DEF ApprovalNext, CardStep

LEMMA SessionKeptStep ==
  ApprovalTypeOK /\ Claim /\ Resuming /\ SessionKept /\ [ApprovalNext]_approvalVars => SessionKept'
<1> SUFFICES ASSUME ApprovalTypeOK, Claim, Resuming, SessionKept, [ApprovalNext]_approvalVars PROVE SessionKept'
  OBVIOUS
<1> USE KindsDisjoint, ApprovalConstants DEF ApprovalTypeOK, Claim, SessionKept, Explained, Ended, Needed, Untouched, Outcome
<1>1. ASSUME NEW t \in Talk, TurnStart(t) \/ TurnEnd(t) \/ Cull(t) PROVE SessionKept'
  BY <1>1 DEF TurnStart, TurnEnd, Cull
<1>2. ASSUME NEW c \in Card, AskFails(c) \/ SendFails(c) PROVE SessionKept'
  BY <1>2 DEF AskFails, SendFails, MayAsk, Say
<1>3. ASSUME NEW c \in Card, AskSend(c) \/ CardAppears(c) PROVE SessionKept'
  BY <1>3 DEF AskSend, CardAppears, MayAsk
<1>4. ASSUME NEW c \in Card, SendReturns(c) PROVE SessionKept'
  BY <1>4 DEF SendReturns
<1>5. ASSUME NEW c \in Card, ModuleApplied(c) \/ AgentSessionGone(c) PROVE SessionKept'
  BY <1>5 DEF ModuleApplied, AgentSessionGone, Say
<1>6. ASSUME NEW c \in Card, ResumeLost(c) \/ ResumeRun(c) PROVE SessionKept'
  <2>1. CASE ResumeLost(c)
    BY <2>1 DEF ResumeLost, Say
  <2>2. CASE ResumeRun(c)
    <3>1. c \in Adk /\ stage'[c] = "tell" /\ \A d \in Adk \ {c} : stage'[d] = stage[d]
      BY <2>2 DEF ResumeRun, Resuming
    <3> told' = told /\ cut' = cut
      BY <2>2 DEF ResumeRun
    <3>2. \A d \in Adk : Ended(d) => Ended(d)'
      BY <3>1
    <3>3. \A d \in Adk : Explained(d) => Explained(d)'
      BY <2>2, <3>1, <3>2 DEF ResumeRun
    <3>4. \A d \in Adk \ {c} : TalkOf[d] = TalkOf[c] => Explained(d)'
      BY <2>2, <3>1 DEF ResumeRun
    <3> QED
      BY <2>2, <3>1, <3>2, <3>3, <3>4 DEF ResumeRun
  <2> QED
    BY <1>6, <2>1, <2>2
<1>7. ASSUME NEW c \in Card, ResumeTell(c) \/ ResumeClose(c) PROVE SessionKept'
  <2>1. CASE ResumeClose(c)
    BY <2>1 DEF ResumeClose
  <2>2. CASE ResumeTell(c)
    <3>1. told' = [told EXCEPT ![c] = @ \cup {"result"}] /\ stage' = [stage EXCEPT ![c] = "close"]
          /\ stage[c] = "tell"
      BY <2>2 DEF ResumeTell, Say
    <3>2. UNCHANGED <<turn, alive, culled, req, timer, cut>>
      BY <2>2 DEF ResumeTell
    <3>3. \A d \in Adk : Ended(d) <=> Ended(d)'
      BY <3>1, <3>2
    <3>4. \A d \in Adk : Explained(d) <=> Explained(d)'
      BY <3>2, <3>3
    <3>5. \A d \in Adk : Untouched(d)' => Untouched(d)
      BY <3>1, <3>2
    <3>6. \A d \in Adk : Needed(d)' => Needed(d)
      BY <3>1, <3>2
    <3>7. \A d \in Adk : "lost" \in told'[d] => "lost" \in told[d]
      BY <3>1
    <3>8. turn' \subseteq alive' \cup culled' \cup {t \in Talk : \E d \in Adk : TalkOf[d] = t /\ Ended(d)'}
      BY <3>2, <3>3
    <3> HIDE DEF Ended, Explained, Needed, Untouched
    <3>9. ASSUME NEW d \in Adk
          PROVE  /\ Untouched(d)' => ~Ended(d)'
                 /\ Needed(d)' => TalkOf[d] \in alive' \/ Explained(d)'
                 /\ "lost" \in told'[d] => Explained(d)'
      BY <3>2, <3>3, <3>4, <3>5, <3>6, <3>7
    <3> QED
      BY <3>8, <3>9
  <2> QED
    BY <1>7, <2>1, <2>2
<1>8. ASSUME NEW c \in Card, TimerFires(c) \/ ExpireEnd(c) \/ SweepRow(c) PROVE SessionKept'
  <2>1. CASE TimerFires(c) \/ SweepRow(c)
    BY <2>1 DEF TimerFires, SweepRow, Say
  <2>2. CASE ExpireEnd(c) /\ c \in Adk
    <3>1. told' = [told EXCEPT ![c] = @ \cup {"expired"}] /\ "expired" \in told'[c]
      BY <2>2 DEF ExpireEnd, Say
    <3>2. stage' = [stage EXCEPT ![c] = "none"] /\ timer' = timer /\ req' = req /\ cut' = cut
          /\ turn' = turn /\ alive' = alive \ {TalkOf[c]} /\ culled' = culled
      BY <2>2 DEF ExpireEnd
    <3>3. \A d \in Adk : (Ended(d) => Ended(d)') /\ (d # c /\ Ended(d)' => Ended(d))
      BY <2>2, <3>1, <3>2 DEF ExpireEnd
    <3>4. \A d \in Adk : Explained(d) => Explained(d)'
      BY <3>2, <3>3
    <3>5. Ended(c)' /\ \A d \in Adk \ {c} : TalkOf[d] = TalkOf[c] => Explained(d)'
      BY <2>2, <3>1, <3>2
    <3>6. ~Untouched(c)' /\ ~Needed(c)'
      BY <2>2, <3>2, KindsDisjoint DEF ExpireEnd
    <3>7. \A d \in Adk : "lost" \in told'[d] => "lost" \in told[d]
      BY <3>1
    <3>8. turn' \subseteq alive' \cup culled' \cup {t \in Talk : \E d \in Adk : TalkOf[d] = t /\ Ended(d)'}
      BY <2>2, <3>2, <3>3, <3>5
    <3>9. ASSUME NEW d \in Adk
          PROVE  /\ Untouched(d)' => ~Ended(d)'
                 /\ Needed(d)' => TalkOf[d] \in alive' \/ Explained(d)'
                 /\ "lost" \in told'[d] => Explained(d)'
      BY <3>2, <3>3, <3>4, <3>5, <3>6, <3>7
    <3> QED
      BY <3>8, <3>9
  <2>3. CASE ExpireEnd(c) /\ c \notin Adk
    BY <2>3 DEF ExpireEnd
  <2> QED
    BY <1>8, <2>1, <2>2, <2>3
<1>9. ASSUME NEW c \in Card, NEW v \in {"approve", "reject"}, Press(c, v) PROVE SessionKept'
  BY <1>9 DEF Press, ReadPress, Click
<1>10. ASSUME NEW k \in clicks, LandOnecli(k) PROVE SessionKept'
  BY <1>10 DEF LandOnecli, Click
<1>11. ASSUME NEW k \in clicks, LandAdk(k) PROVE SessionKept'
  BY <1>11 DEF LandAdk, Claims, Click
<1>12. ASSUME NEW k \in clicks, LandModule(k) PROVE SessionKept'
  BY <1>12 DEF LandModule, Click, Say
<1>13. CASE Crash
  BY <1>13 DEF Crash, Busy
<1>14. CASE Boot
  BY <1>14 DEF Boot
<1>15. CASE UNCHANGED approvalVars
  BY <1>15 DEF approvalVars
<1> HIDE DEF SessionKept, ApprovalTypeOK, Claim
<1> QED
  BY <1>1, <1>2, <1>3, <1>4, <1>5, <1>6, <1>7, <1>8, <1>9, <1>10, <1>11, <1>12, <1>13, <1>14, <1>15
     DEF ApprovalNext, CardStep

(* A patron told that the session was lost owes it to another confirmation of
   the thread or to the collector, never to a restart.                        *)
THEOREM LostExplainedHolds == ApprovalSpec => []LostExplained
<1>1. ApprovalInit => SessionKept /\ Resuming
  BY KindsDisjoint DEF ApprovalInit, SessionKept, Resuming, Needed, Untouched, Ended
<1>2. SessionKept => LostExplained
  BY DEF SessionKept, Explained, Ended, LostExplained
<1> QED
  BY <1>1, <1>2, SessionKeptStep, ResumingStep, ClaimAlways, PTL DEF ApprovalSpec

-----------------------------------------------------------------------------
(* Verdicts on a module's request *)

Faithful ==
  /\ \A c \in Card : c \in shown => req[c] # "idle"
  /\ \A c \in Module : req[c] = "idle" => row[c] = "none"
  /\ \A k \in clicks :
       /\ k.card \in shown /\ k.pressed \in pressed[k.card]
       /\ k.card \in Module /\ row[k.card] # "none" => k.read = k.pressed
  /\ \A c \in Module : "rejected" \in told[c] => "reject" \in pressed[c]

LEMMA FaithfulStep ==
  ApprovalTypeOK /\ Faithful /\ [ApprovalNext]_approvalVars => Faithful'
<1> SUFFICES ASSUME ApprovalTypeOK, Faithful, [ApprovalNext]_approvalVars PROVE Faithful'
  OBVIOUS
<1> USE KindsDisjoint DEF ApprovalTypeOK, Faithful
<1>1. ASSUME NEW t \in Talk, TurnStart(t) \/ TurnEnd(t) \/ Cull(t) PROVE Faithful'
  BY <1>1 DEF TurnStart, TurnEnd, Cull
<1>2. ASSUME NEW c \in Card, AskFails(c) \/ SendFails(c) PROVE Faithful'
  BY <1>2 DEF AskFails, SendFails, MayAsk, Say
<1>3. ASSUME NEW c \in Card, AskSend(c) \/ CardAppears(c) PROVE Faithful'
  BY <1>3 DEF AskSend, CardAppears, MayAsk
<1>4. ASSUME NEW c \in Card, SendReturns(c) PROVE Faithful'
  BY <1>4 DEF SendReturns
<1>5. ASSUME NEW c \in Card, ModuleApplied(c) \/ AgentSessionGone(c) PROVE Faithful'
  BY <1>5 DEF ModuleApplied, AgentSessionGone, Say
<1>6. ASSUME NEW c \in Card, ResumeLost(c) \/ ResumeRun(c) PROVE Faithful'
  BY <1>6 DEF ResumeLost, ResumeRun, Say
<1>7. ASSUME NEW c \in Card, ResumeTell(c) \/ ResumeClose(c) PROVE Faithful'
  BY <1>7 DEF ResumeTell, ResumeClose, Say
<1>8. ASSUME NEW c \in Card, TimerFires(c) \/ ExpireEnd(c) \/ SweepRow(c) PROVE Faithful'
  BY <1>8 DEF TimerFires, ExpireEnd, SweepRow, Say
<1>9. ASSUME NEW c \in Card, NEW v \in {"approve", "reject"}, Press(c, v) PROVE Faithful'
  BY <1>9 DEF Press, ReadPress, Click
<1>10. ASSUME NEW k \in clicks, LandOnecli(k) PROVE Faithful'
  BY <1>10 DEF LandOnecli, Click
<1>11. ASSUME NEW k \in clicks, LandAdk(k) PROVE Faithful'
  BY <1>11 DEF LandAdk, Claims, Click
<1>12. ASSUME NEW k \in clicks, LandModule(k) PROVE Faithful'
  BY <1>12 DEF LandModule, Click, Say
<1>13. CASE Crash
  BY <1>13 DEF Crash, Busy
<1>14. CASE Boot
  BY <1>14 DEF Boot
<1>15. CASE UNCHANGED approvalVars
  BY <1>15 DEF approvalVars
<1> QED
  BY <1>1, <1>2, <1>3, <1>4, <1>5, <1>6, <1>7, <1>8, <1>9, <1>10, <1>11, <1>12, <1>13, <1>14, <1>15
     DEF ApprovalNext, CardStep

(* An agent is told of a rejection only if somebody pressed Reject.             *)
THEOREM VerdictHonouredHolds == ApprovalSpec => []VerdictHonoured
<1>1. ApprovalInit => Faithful
  BY KindsDisjoint DEF ApprovalInit, Faithful
<1>2. Faithful => VerdictHonoured
  BY DEF Faithful, VerdictHonoured
<1> QED
  BY <1>1, <1>2, FaithfulStep, TypeInit, TypeStep, PTL DEF ApprovalSpec

-----------------------------------------------------------------------------
(* The life of a confirmation *)

(* An armed timer and a handler on its way have a row; what is told of a
   confirmation is one of the outcomes Confirmation knows.                    *)
Lived ==
  \A c \in Adk : /\ c \in timer \/ stage[c] # "none" => row[c] # "none"
                /\ told[c] \subseteq Life!Outcomes

LEMMA LivedStep ==
  ApprovalTypeOK /\ Claim /\ Lived /\ [ApprovalNext]_approvalVars => Lived'
<1> SUFFICES ASSUME ApprovalTypeOK, Claim, Lived, [ApprovalNext]_approvalVars PROVE Lived'
  OBVIOUS
<1> USE KindsDisjoint DEF ApprovalTypeOK, Claim, Lived, Life!Outcomes
<1>1. ASSUME NEW t \in Talk, TurnStart(t) \/ TurnEnd(t) \/ Cull(t) PROVE Lived'
  BY <1>1 DEF TurnStart, TurnEnd, Cull
<1>2. ASSUME NEW c \in Card, AskFails(c) \/ SendFails(c) PROVE Lived'
  BY <1>2 DEF AskFails, SendFails, MayAsk, Say
<1>3. ASSUME NEW c \in Card, AskSend(c) \/ CardAppears(c) PROVE Lived'
  BY <1>3 DEF AskSend, CardAppears, MayAsk
<1>4. ASSUME NEW c \in Card, SendReturns(c) PROVE Lived'
  BY <1>4 DEF SendReturns
<1>5. ASSUME NEW c \in Card, ModuleApplied(c) \/ AgentSessionGone(c) PROVE Lived'
  BY <1>5 DEF ModuleApplied, AgentSessionGone, Say
<1>6. ASSUME NEW c \in Card, ResumeLost(c) \/ ResumeRun(c) PROVE Lived'
  BY <1>6 DEF ResumeLost, ResumeRun, Say
<1>7. ASSUME NEW c \in Card, ResumeTell(c) \/ ResumeClose(c) PROVE Lived'
  BY <1>7 DEF ResumeTell, ResumeClose, Say
<1>8. ASSUME NEW c \in Card, TimerFires(c) \/ ExpireEnd(c) \/ SweepRow(c) PROVE Lived'
  BY <1>8 DEF TimerFires, ExpireEnd, SweepRow, Say
<1>9. ASSUME NEW c \in Card, NEW v \in {"approve", "reject"}, Press(c, v) PROVE Lived'
  BY <1>9 DEF Press, ReadPress, Click
<1>10. ASSUME NEW k \in clicks, LandOnecli(k) PROVE Lived'
  BY <1>10, ApprovalConstants DEF LandOnecli, Click
<1>11. ASSUME NEW k \in clicks, LandAdk(k) PROVE Lived'
  BY <1>11 DEF LandAdk, Claims, Click
<1>12. ASSUME NEW k \in clicks, LandModule(k) PROVE Lived'
  BY <1>12 DEF LandModule, Click, Say
<1>13. CASE Crash
  BY <1>13 DEF Crash, Busy
<1>14. CASE Boot
  BY <1>14 DEF Boot
<1>15. CASE UNCHANGED approvalVars
  BY <1>15 DEF approvalVars
<1> QED
  BY <1>1, <1>2, <1>3, <1>4, <1>5, <1>6, <1>7, <1>8, <1>9, <1>10, <1>11, <1>12, <1>13, <1>14, <1>15
     DEF ApprovalNext, CardStep

(* Nothing that Confirmation sees of any confirmation but c changes. *)
OthersStay(c) ==
  \A d \in Adk \ {c} :
    /\ req'[d] = req[d] /\ row'[d] = row[d] /\ stage'[d] = stage[d]
    /\ d \in timer' <=> d \in timer
    /\ pressed'[d] = pressed[d] /\ ran'[d] = ran[d] /\ told'[d] = told[d]

LEMMA OthersStayInLife ==
  ASSUME NEW c, OthersStay(c)
  PROVE  \A d \in Adk \ {c} : Life!Stays(d)
BY DEF OthersStay, Place, Life!Stays, Life!Untouched

(* What each step does to the confirmation it is about. *)
LEMMA AskMoves ==
  ASSUME ApprovalTypeOK, Claim, NEW c \in Adk,
         AskFails(c) \/ SendFails(c) \/ AskSend(c) \/ SendReturns(c)
  PROVE  Life!Moves(c)
<1> USE KindsDisjoint DEF ApprovalTypeOK, Claim, Place, Life!Moves, Life!Goes, Life!Untouched
<1>1. CASE AskFails(c) \/ SendFails(c)
  <2>1. c \notin Onecli /\ c \in Card
    BY ApprovalConstants DEF Card
  <2>2. req[c] \in {"idle", "sending"} /\ req'[c] = "failed" /\ told'[c] = told[c] \cup {"failed"}
    BY <1>1, <2>1 DEF AskFails, SendFails, MayAsk, Say
  <2>3. UNCHANGED <<row, stage, timer, pressed, ran>>
    BY <1>1 DEF AskFails, SendFails
  <2>4. row[c] = "none" /\ stage[c] = "none" /\ c \notin timer
    BY <2>1, <2>2
  <2> QED
    BY <2>2, <2>3, <2>4 DEF Life!Reports, Life!Says
<1>2. CASE AskSend(c) \/ SendReturns(c)
  BY <1>2 DEF AskSend, SendReturns, MayAsk, Life!GoesOn
<1> QED
  BY <1>1, <1>2

LEMMA ResumeMoves ==
  ASSUME ApprovalTypeOK, Claim, Verdicts, NEW c \in Adk,
         ResumeLost(c) \/ ResumeRun(c) \/ ResumeTell(c) \/ ResumeClose(c)
  PROVE  Life!Moves(c)
<1> USE KindsDisjoint DEF ApprovalTypeOK, Claim, Place, Life!Moves, Life!Goes, Life!Untouched
<1>1. CASE ResumeLost(c) \/ ResumeTell(c)
  BY <1>1 DEF ResumeLost, ResumeTell, Say, Life!Reports, Life!Says
<1>2. CASE ResumeRun(c)
  BY <1>2 DEF ResumeRun, Verdicts, Life!Acts
<1>3. CASE ResumeClose(c)
  BY <1>3 DEF ResumeClose, Life!GoesOn
<1> QED
  BY <1>1, <1>2, <1>3

LEMMA ExpiryMoves ==
  ASSUME ApprovalTypeOK, Claim, Lived, NEW c \in Adk,
         TimerFires(c) \/ ExpireEnd(c) \/ SweepRow(c)
  PROVE  Life!Moves(c) \/ Life!Stays(c)
<1> USE KindsDisjoint DEF ApprovalTypeOK, Claim, Place, Life!Moves, Life!Goes, Life!Untouched
<1>1. CASE TimerFires(c)
  BY <1>1 DEF TimerFires, Lived, Life!GoesOn
<1>2. CASE ExpireEnd(c)
  BY <1>2 DEF ExpireEnd, Say, Life!Reports, Life!Says
<1>3. CASE SweepRow(c)
  BY <1>3 DEF SweepRow, Say, Life!Reports, Life!Says, Life!Stays
<1> QED
  BY <1>1, <1>2, <1>3

LEMMA PressMoves ==
  ASSUME ApprovalTypeOK, Claim, Faithful, NEW c \in Adk, NEW v \in {"approve", "reject"}, Press(c, v)
  PROVE  Life!Moves(c)
BY KindsDisjoint DEF ApprovalTypeOK, Claim, Faithful, Press, Place, Life!Moves, Life!Presses

LEMMA LandMoves ==
  ASSUME ApprovalTypeOK, Claim, Faithful, NEW k \in clicks, LandAdk(k)
  PROVE  k.card \in Adk /\ (Life!Moves(k.card) \/ Life!Stays(k.card))
<1>1. k.card \in Adk /\ k.pressed \in pressed[k.card]
  BY DEF LandAdk, Faithful
<1>2. CASE Claims(k.card)
  BY <1>1, <1>2, KindsDisjoint
     DEF ApprovalTypeOK, Claim, LandAdk, Claims, Place, Life!Moves, Life!GoesOn, Life!Goes, Life!Untouched
<1>3. CASE ~ Claims(k.card)
  BY <1>1, <1>3, KindsDisjoint DEF ApprovalTypeOK, Claim, LandAdk, Place, Life!Stays, Life!Untouched
<1> QED
  BY <1>1, <1>2, <1>3

(* A death leaves a confirmation that was open to the next process. *)
LEMMA CrashMoves ==
  ASSUME ApprovalTypeOK, Claim, Lived, NEW c \in Adk, Crash
  PROVE  Life!Dies(c)
<1>1. c \in Card /\ c \in Timed
  BY KindsDisjoint
<1>2. /\ req'[c] = IF req[c] = "sending" THEN "failed" ELSE req[c]
      /\ stage'[c] = "none" /\ c \notin timer' /\ row'[c] = row[c]
  BY <1>1 DEF Crash
<1>3. /\ req[c] \in {"idle", "sending", "asked", "failed"}
      /\ stage[c] \in {"none", "resume", "tell", "close", "expire"}
      /\ row[c] # "none" => req[c] = "asked"
      /\ c \in timer \/ stage[c] # "none" => req[c] = "asked"
  BY <1>1 DEF ApprovalTypeOK, Claim
<1>4. Place(c)' = IF Place(c) \in {"fresh", "over"} THEN Place(c)
                  ELSE IF Place(c) = "sent" THEN "over" ELSE "left"
  <2>1. CASE req[c] \in {"idle", "sending", "failed"}
    BY <1>2, <1>3, <2>1 DEF Place
  <2>2. CASE req[c] = "asked"
    BY <1>2, <1>3, <2>2 DEF Lived, Place
  <2> QED
    BY <1>3, <2>1, <2>2
<1>5. pressed'[c] = pressed[c] /\ ran'[c] = ran[c] /\ told'[c] = told[c]
  BY DEF Crash
<1> QED
  BY <1>4, <1>5 DEF Life!Dies, Life!Untouched

(* Each of Confirmation's values has its type. *)
LEMMA LifeTyped ==
  ASSUME ApprovalTypeOK', Lived'
  PROVE  /\ [c \in Adk |-> Place(c)]' \in [Adk -> Life!Places]
         /\ [c \in Adk |-> pressed[c]]' \in [Adk -> SUBSET {"approve", "reject"}]
         /\ [c \in Adk |-> ran[c]]' \in [Adk -> Nat]
         /\ [c \in Adk |-> told[c]]' \in [Adk -> SUBSET Life!Outcomes]
<1>1. \A c \in Adk : Place(c)' \in Life!Places
  BY DEF Place, Life!Places
<1>2. Adk \subseteq Card
  BY DEF Card
<1>3. \A c \in Adk : pressed'[c] \in SUBSET {"approve", "reject"} /\ ran'[c] \in Nat
  BY <1>2 DEF ApprovalTypeOK
<1>4. \A c \in Adk : told'[c] \in SUBSET Life!Outcomes
  BY DEF Lived
<1> QED
  BY <1>1, <1>3, <1>4

(* One confirmation makes a move of its life, or none does, or all die. *)
LifeStep ==
  \/ \A c \in Adk : Life!Dies(c)
  \/ \E c \in Adk : Life!Moves(c) /\ \A d \in Adk \ {c} : Life!Stays(d)
  \/ \A c \in Adk : Life!Stays(c)

LEMMA OneMoves ==
  ASSUME NEW c, OthersStay(c), c \in Adk => Life!Moves(c) \/ Life!Stays(c)
  PROVE  LifeStep
<1>1. \A d \in Adk \ {c} : Life!Stays(d)
  BY OthersStayInLife
<1>2. CASE c \in Adk /\ Life!Moves(c)
  BY <1>1, <1>2 DEF LifeStep
<1>3. CASE c \in Adk => Life!Stays(c)
  <2>1. \A d \in Adk : Life!Stays(d)
    BY <1>1, <1>3
  <2> QED
    BY <2>1 DEF LifeStep
<1> QED
  BY <1>2, <1>3

LEMMA ApprovalMoves ==
  ApprovalTypeOK /\ Claim /\ Lived /\ Verdicts /\ Faithful /\ [ApprovalNext]_approvalVars => LifeStep
<1> SUFFICES ASSUME ApprovalTypeOK, Claim, Lived, Verdicts, Faithful, [ApprovalNext]_approvalVars
             PROVE  LifeStep
  OBVIOUS
<1>1. Adk \subseteq Card /\ Adk \cap Onecli = {} /\ Adk \cap Module = {}
  BY ApprovalConstants DEF Card
<1>2. ASSUME \A d \in Adk : /\ req'[d] = req[d] /\ row'[d] = row[d] /\ stage'[d] = stage[d]
                            /\ d \in timer' <=> d \in timer
                            /\ pressed'[d] = pressed[d] /\ ran'[d] = ran[d] /\ told'[d] = told[d]
      PROVE  LifeStep
  BY <1>2 DEF LifeStep, Place, Life!Stays, Life!Untouched
<1>3. ASSUME NEW t \in Talk, TurnStart(t) \/ TurnEnd(t) \/ Cull(t) PROVE LifeStep
  BY <1>2, <1>3 DEF TurnStart, TurnEnd, Cull
<1>4. ASSUME NEW c \in Card, AskFails(c) \/ SendFails(c) \/ AskSend(c) \/ SendReturns(c)
      PROVE  LifeStep
  <2>1. OthersStay(c)
    BY <1>1, <1>4 DEF OthersStay, AskFails, SendFails, AskSend, SendReturns, Say, ApprovalTypeOK
  <2> QED
    BY <1>4, <2>1, AskMoves, OneMoves
<1>5. ASSUME NEW c \in Card, ResumeLost(c) \/ ResumeRun(c) \/ ResumeTell(c) \/ ResumeClose(c)
      PROVE  LifeStep
  <2>1. OthersStay(c)
    BY <1>1, <1>5 DEF OthersStay, ResumeLost, ResumeRun, ResumeTell, ResumeClose, Say, ApprovalTypeOK
  <2> QED
    BY <1>5, <2>1, ResumeMoves, OneMoves
<1>6. ASSUME NEW c \in Card, TimerFires(c) \/ ExpireEnd(c) \/ SweepRow(c) PROVE LifeStep
  <2>1. OthersStay(c)
    BY <1>1, <1>6 DEF OthersStay, TimerFires, ExpireEnd, SweepRow, Say, ApprovalTypeOK
  <2> QED
    BY <1>6, <2>1, ExpiryMoves, OneMoves
<1>7. ASSUME NEW c \in Card, NEW v \in {"approve", "reject"}, Press(c, v) PROVE LifeStep
  <2>1. OthersStay(c)
    BY <1>1, <1>7 DEF OthersStay, Press, ApprovalTypeOK
  <2> QED
    BY <1>7, <2>1, PressMoves, OneMoves
<1>8. ASSUME NEW k \in clicks, LandAdk(k) PROVE LifeStep
  <2>1. OthersStay(k.card)
    BY <1>1, <1>8 DEF OthersStay, LandAdk, ApprovalTypeOK
  <2> QED
    BY <1>8, <2>1, LandMoves, OneMoves
<1>9. ASSUME NEW k \in clicks, LandOnecli(k) \/ LandModule(k) PROVE LifeStep
  BY <1>1, <1>2, <1>9 DEF LandOnecli, LandModule, Say, ApprovalTypeOK
<1>10. ASSUME NEW c \in Card, CardAppears(c) \/ AgentSessionGone(c) PROVE LifeStep
  BY <1>2, <1>10 DEF CardAppears, AgentSessionGone
<1>11. ASSUME NEW c \in Card, ModuleApplied(c) PROVE LifeStep
  <2>1. c \notin Adk
    BY <1>1, <1>11 DEF ModuleApplied, Claim
  <2> QED
    BY <1>1, <1>2, <1>11, <2>1 DEF ModuleApplied, Say, ApprovalTypeOK
<1>12. CASE Crash
  BY <1>12, CrashMoves DEF LifeStep
<1>13. CASE Boot \/ UNCHANGED approvalVars
  BY <1>2, <1>13 DEF Boot, approvalVars
<1> QED
  BY <1>3, <1>4, <1>5, <1>6, <1>7, <1>8, <1>9, <1>10, <1>11, <1>12, <1>13 DEF ApprovalNext, CardStep

(* Every confirmation lives the life Confirmation allows it: claimed once, run at
   most once and after an Approve, told what became of it, over for good, and
   reported a second time only by the process that finds it left open.        *)
THEOREM ConfirmationImplemented == ApprovalSpec => ImplementsConfirmation
<1>1. ApprovalInit => Life!Init
  BY DEF ApprovalInit, Life!Init, Place, Card
<1>2. ApprovalInit => Lived /\ Verdicts /\ Faithful
  BY KindsDisjoint DEF ApprovalInit, Lived, Verdicts, Faithful
<1>3. ASSUME LifeStep, ApprovalTypeOK', Lived' PROVE [Life!Next]_(Life!confirmationVars)
  <2>1. CASE \A c \in Adk : Life!Stays(c)
    BY <2>1 DEF Life!Stays, Life!Untouched, Life!confirmationVars
  <2>2. CASE ~ \A c \in Adk : Life!Stays(c)
    BY <1>3, <2>2, LifeTyped DEF LifeStep, Life!Next
  <2> QED
    BY <2>1, <2>2
<1> QED
  BY <1>1, <1>2, <1>3, ApprovalMoves, LivedStep, VerdictsStep, FaithfulStep, TypeStep, ClaimAlways, PTL
     DEF ApprovalSpec, ImplementsConfirmation, Life!Spec

===============================================================================
