------------------------------ MODULE Approvals ------------------------------
(***************************************************************************)
(* Cards that ask an administrator (src/modules/approvals, src/adk).        *)
(*                                                                         *)
(* Three kinds of question share the table pending_approvals:               *)
(*   "adk"     a tool call of the in-process ADK supervisor.  The turn that  *)
(*             asked is suspended in the ADK session of its thread and is    *)
(*             resumed from there by the answer;                            *)
(*   "onecli"  a credential request of the gateway, whose HTTP call waits    *)
(*             for the decision in this process;                            *)
(*   "module"  a request of an agent (install packages, add a server), which *)
(*             the handler registered for the action applies.               *)
(* Rows survive a restart; the timers and promises of the maps `pending`,    *)
(* the handlers in flight and the ADK sessions do not.                      *)
(***************************************************************************)
EXTENDS Naturals, FiniteSets

CONSTANTS
  Adk, Onecli, Module,  \* the questions asked, one card each, by kind
  Talk,        \* ADK sessions: one per channel, conversation and thread
  TalkOf,      \* [Adk -> Talk], the session a card's turn is suspended in
  MaxCards,    \* bound: questions asked
  MaxPresses,  \* bound: button presses
  MaxCrashes,  \* bound: process deaths
  MaxSessions  \* session-gc.ts, MAX_SESSIONS

Card == Adk \cup Onecli \cup Module

ASSUME ApprovalConstants ==
  /\ Adk \cap Onecli = {} /\ Adk \cap Module = {} /\ Onecli \cap Module = {}
  /\ TalkOf \in [Adk -> Talk]
  /\ MaxCards \in Nat /\ MaxPresses \in Nat /\ MaxCrashes \in Nat /\ MaxSessions \in Nat

VARIABLES
  up,       \* the host process runs
  crashes,  \* deaths so far
  turn,     \* talks whose dispatchToAdk is in runAsync
  alive,    \* talks with a session in the InMemorySessionService
  req,      \* the coroutine that asks: idle, sending (the card), asked, failed
  row,      \* pending_approvals.status, or none
  shown,    \* cards on the approver's screen
  timer,    \* cards with an entry in a map `pending` (timer and promise)
  presses,  \* presses so far
  pressed,  \* the buttons pressed so far, per card
  clicks,   \* presses whose card edit is awaited (chat-sdk-bridge, onAction)
  stage,    \* what an adk or onecli card's handler is doing
  heard,    \* the verdict an adk resume carries
  applying, \* handlers of a module card in flight
  ran,      \* times the tool or the module handler was applied
  answer,   \* what the gateway was told
  told,     \* outcomes reported to whoever asked
  sweep,    \* rows of the previous process still to be swept
  gone,     \* module cards whose agent session was deleted
  culled,   \* talks the garbage collector has removed
  cut       \* cards whose handler a crash interrupted

process  == <<up, crashes>>
sessions == <<turn, alive, culled>>
asking   == <<req, shown>>
buttons  == <<presses, pressed, clicks>>
working  == <<stage, heard, applying>>
effects  == <<ran, answer, told>>
aside    == <<sweep, gone, cut>>
approvalVars ==
  <<process, sessions, asking, row, timer, buttons, working, effects, aside>>

Outcome == {"failed", "result", "lost", "expired", "rejected", "applied"}
Click   == [card: Card, pressed: {"approve", "reject"},
            read: {"approve", "reject", "index"}]

ApprovalInit ==
  /\ up = TRUE /\ crashes = 0 /\ turn = {} /\ alive = {}
  /\ req = [c \in Card |-> "idle"] /\ row = [c \in Card |-> "none"]
  /\ shown = {} /\ timer = {} /\ presses = 0
  /\ pressed = [c \in Card |-> {}] /\ clicks = {}
  /\ stage = [c \in Card |-> "none"] /\ heard = [c \in Card |-> "none"]
  /\ applying = [c \in Card |-> 0] /\ ran = [c \in Card |-> 0]
  /\ answer = [c \in Card |-> "none"] /\ told = [c \in Card |-> {}]
  /\ sweep = {} /\ gone = {} /\ culled = {} /\ cut = {}

Say(c, what) == told' = [told EXCEPT ![c] = @ \cup {what}]

-----------------------------------------------------------------------------
(* Turns and sessions *)

\* dispatchToAdk: the session id is a function of the thread, so every turn of
\* a thread finds the session its earlier turns left.
TurnStart(t) ==
  /\ up /\ t \notin turn
  /\ \E c \in Adk : TalkOf[c] = t /\ req[c] = "idle"
  /\ turn' = turn \cup {t} /\ alive' = alive \cup {t}
  /\ UNCHANGED <<process, asking, buttons, working, effects, aside, row, timer,
                 culled>>

\* The turn answers, fails, or stops at its confirmations.  The session stays.
TurnEnd(t) ==
  /\ up /\ t \in turn
  /\ \A c \in Adk : TalkOf[c] = t => req[c] # "sending"
  /\ turn' = turn \ {t}
  /\ UNCHANGED <<process, asking, buttons, working, effects, aside, alive, row,
                 timer, culled>>

\* session-gc: beyond MAX_SESSIONS the least recently used sessions go, the
\* ones a card waits for included.  (The 24 h age limit outlasts every card.)
Cull(t) ==
  /\ up /\ t \in alive /\ Cardinality(alive) > MaxSessions
  /\ alive' = alive \ {t} /\ culled' = culled \cup {t}
  /\ UNCHANGED <<process, asking, buttons, working, effects, aside, turn, row,
                 timer>>

-----------------------------------------------------------------------------
(* Asking *)

\* Of one turn the confirmations are requested one after the other.
MayAsk(c) ==
  /\ up /\ req[c] = "idle" /\ Cardinality({d \in Card : req[d] # "idle"}) < MaxCards
  /\ c \in Adk => /\ TalkOf[c] \in turn
                  /\ \A d \in Adk : TalkOf[d] = TalkOf[c] => req[d] # "sending"

\* pickApprover finds nobody, or pickApprovalDelivery no direct message: the
\* one who asked is told, no row is written.
AskFails(c) ==
  /\ MayAsk(c)
  /\ req' = [req EXCEPT ![c] = "failed"]
  /\ IF c \in Onecli THEN answer' = [answer EXCEPT ![c] = "deny"] /\ UNCHANGED told
                     ELSE Say(c, "failed") /\ UNCHANGED answer
  /\ UNCHANGED <<process, sessions, buttons, working, aside, row, shown, timer,
                 ran>>

\* The card is handed to the channel.  requestApproval has written its row by
\* then; requestAdkApproval and handleRequest write theirs afterwards.
AskSend(c) ==
  /\ MayAsk(c)
  /\ req' = [req EXCEPT ![c] = "sending"]
  /\ row' = IF c \in Module THEN [row EXCEPT ![c] = "pending"] ELSE row
  /\ UNCHANGED <<process, sessions, buttons, working, effects, aside, shown,
                 timer>>

\* The platform shows the card before deliver() returns to the host.
CardAppears(c) ==
  /\ req[c] = "sending" /\ c \notin shown
  /\ shown' = shown \cup {c}
  /\ UNCHANGED <<process, sessions, buttons, working, effects, aside, req, row,
                 timer>>

\* deliver() throws.  A module's row stays, a card nobody saw.
SendFails(c) ==
  /\ up /\ req[c] = "sending" /\ c \notin shown
  /\ req' = [req EXCEPT ![c] = "failed"]
  /\ IF c \in Onecli THEN answer' = [answer EXCEPT ![c] = "deny"] /\ UNCHANGED told
                     ELSE Say(c, "failed") /\ UNCHANGED answer
  /\ UNCHANGED <<process, sessions, buttons, working, aside, row, shown, timer,
                 ran>>

\* deliver() returns: row, timer and map entry are made in one go.
SendReturns(c) ==
  /\ up /\ req[c] = "sending" /\ c \in shown
  /\ req' = [req EXCEPT ![c] = "asked"]
  /\ IF c \in Module THEN UNCHANGED <<row, timer>>
                     ELSE /\ row' = [row EXCEPT ![c] = "pending"]
                          /\ timer' = timer \cup {c}
  /\ UNCHANGED <<process, sessions, buttons, working, effects, aside, shown>>

-----------------------------------------------------------------------------
(* Answering *)

(* Fault: an index that cannot be looked up counts as the first option. *)
ReadPressDefaults(c, v) == IF row[c] = "none" THEN "approve" ELSE v

\* The button carries an index.  getAskQuestionRender turns it into the option
\* if the row exists at the press; without one the index itself is passed on.
ReadPress(c, v) == IF row[c] = "none" THEN "index" ELSE v

Press(c, v) ==
  /\ up /\ c \in shown /\ presses < MaxPresses
  /\ presses' = presses + 1
  /\ clicks' = clicks \cup {[card |-> c, pressed |-> v, read |-> ReadPress(c, v)]}
  /\ pressed' = [pressed EXCEPT ![c] = @ \cup {v}]
  /\ UNCHANGED <<process, sessions, asking, working, effects, aside, row, timer>>

\* After the card was edited: resolveOneCLIApproval, or the row left by a timer.
LandOnecli(k) ==
  /\ up /\ k \in clicks /\ k.card \in Onecli
  /\ clicks' = clicks \ {k}
  /\ row' = [row EXCEPT ![k.card] = "none"]
  /\ IF k.card \in timer
       THEN /\ timer' = timer \ {k.card}
            /\ answer' = [answer EXCEPT ![k.card] =
                            IF k.read = "approve" THEN "approve" ELSE "deny"]
       ELSE UNCHANGED <<timer, answer>>
  /\ UNCHANGED <<process, sessions, asking, working, aside, presses, pressed, ran,
                 told>>

(* Fault: a row suffices to go on. *)
ClaimsByRow(c) == row[c] # "none"

\* clearAdkApprovalTimer: only the one who finds the map entry goes on.
Claims(c) == row[c] # "none" /\ c \in timer

LandAdk(k) ==
  /\ up /\ k \in clicks /\ k.card \in Adk
  /\ clicks' = clicks \ {k}
  /\ IF Claims(k.card)
       THEN /\ timer' = timer \ {k.card}
            /\ stage' = [stage EXCEPT ![k.card] = "resume"]
            /\ heard' = [heard EXCEPT ![k.card] = k.read]
       ELSE UNCHANGED <<timer, stage, heard>>
  /\ UNCHANGED <<process, sessions, asking, effects, aside, row, presses, pressed,
                 applying>>

\* handleRegisteredApproval up to its first await.
LandModule(k) ==
  /\ up /\ k \in clicks /\ k.card \in Module
  /\ clicks' = clicks \ {k}
  /\ LET c == k.card IN
       IF row[c] = "none" THEN UNCHANGED <<row, told, applying>>
       ELSE IF c \in gone \/ k.read # "approve"
              THEN /\ row' = [row EXCEPT ![c] = "none"]
                   /\ IF c \in gone THEN UNCHANGED told ELSE Say(c, "rejected")
                   /\ UNCHANGED applying
       ELSE /\ applying' = [applying EXCEPT ![c] = @ + 1]
            /\ UNCHANGED <<row, told>>
  /\ UNCHANGED <<process, sessions, asking, aside, timer, presses, pressed, stage,
                 heard, ran, answer>>

\* The module's handler returns or throws; the agent is told, the row goes.
ModuleApplied(c) ==
  /\ up /\ applying[c] > 0
  /\ applying' = [applying EXCEPT ![c] = @ - 1]
  /\ row' = [row EXCEPT ![c] = "none"]
  /\ \/ ran' = [ran EXCEPT ![c] = @ + 1] /\ Say(c, "applied")
     \/ Say(c, "failed") /\ UNCHANGED ran
  /\ UNCHANGED <<process, sessions, asking, buttons, aside, timer, stage, heard,
                 answer>>

\* The session of the agent that asked is deleted (cleanupAskSession).
AgentSessionGone(c) ==
  /\ up /\ c \in Module \ gone /\ req[c] \notin {"idle", "sending"} /\ applying[c] = 0
  /\ gone' = gone \cup {c}
  /\ UNCHANGED <<process, sessions, asking, buttons, working, effects, row, timer,
                 sweep, cut>>

-----------------------------------------------------------------------------
(* Resuming an ADK turn: resolveAdkApproval *)

\* getSession finds nothing: the patron is told the session was lost.
ResumeLost(c) ==
  /\ up /\ stage[c] = "resume" /\ TalkOf[c] \notin alive
  /\ stage' = [stage EXCEPT ![c] = "close"] /\ Say(c, "lost")
  /\ UNCHANGED <<process, sessions, asking, buttons, aside, row, timer, heard,
                 applying, ran, answer>>

\* runAsync replays the call with the verdict; the session is deleted whatever
\* comes of it.
ResumeRun(c) ==
  /\ up /\ stage[c] = "resume" /\ TalkOf[c] \in alive
  /\ \E applied \in BOOLEAN :
       /\ applied => heard[c] = "approve"
       /\ ran' = IF applied THEN [ran EXCEPT ![c] = @ + 1] ELSE ran
  /\ alive' = alive \ {TalkOf[c]}
  /\ stage' = [stage EXCEPT ![c] = "tell"]
  /\ UNCHANGED <<process, asking, buttons, aside, turn, row, timer, heard,
                 applying, answer, told, culled>>

ResumeTell(c) ==
  /\ up /\ stage[c] = "tell"
  /\ stage' = [stage EXCEPT ![c] = "close"] /\ Say(c, "result")
  /\ UNCHANGED <<process, sessions, asking, buttons, aside, row, timer, heard,
                 applying, ran, answer>>

(* Fault: the row is left to the next restart. *)
ResumeCloseKeepsRow(c) ==
  /\ up /\ stage[c] = "close" /\ stage' = [stage EXCEPT ![c] = "none"]
  /\ UNCHANGED <<process, sessions, asking, buttons, effects, aside, row, timer, heard,
                 applying>>

\* handleApprovalsResponse deletes the row last.
ResumeClose(c) ==
  /\ up /\ stage[c] = "close"
  /\ stage' = [stage EXCEPT ![c] = "none"] /\ row' = [row EXCEPT ![c] = "none"]
  /\ UNCHANGED <<process, sessions, asking, buttons, effects, aside, timer, heard,
                 applying>>

-----------------------------------------------------------------------------
(* Expiry *)

\* The timer fires: out of the map, the row marked, the card edit awaited.  The
\* gateway has its refusal at once.
TimerFires(c) ==
  /\ up /\ c \in timer
  /\ timer' = timer \ {c}
  /\ IF row[c] = "none" THEN UNCHANGED <<row, stage>>
     ELSE /\ row' = [row EXCEPT ![c] = "expired"]
          /\ stage' = [stage EXCEPT ![c] = "expire"]
  /\ answer' = IF c \in Onecli THEN [answer EXCEPT ![c] = "deny"] ELSE answer
  /\ UNCHANGED <<process, sessions, asking, buttons, aside, heard, applying, ran,
                 told>>

\* The rest of expireAdkApproval / expireApproval: tell the patron, delete the
\* session, delete the row.
ExpireEnd(c) ==
  /\ up /\ stage[c] = "expire"
  /\ stage' = [stage EXCEPT ![c] = "none"] /\ row' = [row EXCEPT ![c] = "none"]
  /\ IF c \in Adk THEN Say(c, "expired") /\ alive' = alive \ {TalkOf[c]}
                  ELSE UNCHANGED <<told, alive>>
  /\ UNCHANGED <<process, asking, buttons, aside, turn, timer, heard, applying,
                 ran, answer, culled>>

-----------------------------------------------------------------------------
(* Restart *)

\* The process dies, or stops: the maps are cleared, nothing in flight goes on.
Busy(c) == stage[c] # "none" \/ applying[c] > 0 \/ c \in sweep

Crash ==
  /\ up /\ crashes < MaxCrashes
  /\ up' = FALSE /\ crashes' = crashes + 1
  /\ turn' = {} /\ alive' = {} /\ timer' = {} /\ clicks' = {} /\ sweep' = {}
  /\ req' = [c \in Card |-> IF req[c] = "sending" THEN "failed" ELSE req[c]]
  /\ stage' = [c \in Card |-> "none"] /\ heard' = [c \in Card |-> "none"]
  /\ applying' = [c \in Card |-> 0]
  /\ answer' = [c \in Card |-> IF c \in Onecli /\ answer[c] = "none" /\ req[c] \in {"sending", "asked"}
                                 THEN "dropped" ELSE answer[c]]
  /\ cut' = cut \cup {c \in Card : Busy(c)}
  /\ UNCHANGED <<row, shown, presses, pressed, ran, told, gone, culled>>

(* Fault: only the gateway's rows are swept. *)
BootSweepsOnecli ==
  /\ ~up /\ up' = TRUE
  /\ sweep' = {c \in Onecli : row[c] # "none"}
  /\ UNCHANGED <<sessions, asking, buttons, working, effects, crashes, row, timer,
                 gone, cut>>

\* startOneCLIApprovalHandler, startAdkApprovalHandler: both sweeps are started
\* from the rows found then, and not waited for.
Boot ==
  /\ ~up /\ up' = TRUE
  /\ sweep' = {c \in Adk \cup Onecli : row[c] # "none"}
  /\ UNCHANGED <<sessions, asking, buttons, working, effects, crashes, row, timer,
                 gone, cut>>

\* One row of a sweep: "host restarted", its session is not touched.
SweepRow(c) ==
  /\ up /\ c \in sweep
  /\ sweep' = sweep \ {c} /\ row' = [row EXCEPT ![c] = "none"]
  /\ IF c \in Adk /\ row[c] # "none" THEN Say(c, "expired") ELSE UNCHANGED told
  /\ UNCHANGED <<process, sessions, asking, buttons, working, timer, ran, answer,
                 gone, cut>>

-----------------------------------------------------------------------------
CardStep(c) ==
  \/ AskFails(c) \/ AskSend(c) \/ CardAppears(c) \/ SendFails(c) \/ SendReturns(c)
  \/ ModuleApplied(c) \/ AgentSessionGone(c)
  \/ ResumeLost(c) \/ ResumeRun(c) \/ ResumeTell(c) \/ ResumeClose(c)
  \/ TimerFires(c) \/ ExpireEnd(c) \/ SweepRow(c)

ApprovalNext ==
  \/ \E t \in Talk : TurnStart(t) \/ TurnEnd(t) \/ Cull(t)
  \/ \E c \in Card : CardStep(c)
  \/ \E c \in Card, v \in {"approve", "reject"} : Press(c, v)
  \/ \E k \in clicks : LandOnecli(k) \/ LandAdk(k) \/ LandModule(k)
  \/ Crash \/ Boot

\* Timers fire, awaited calls return, the supervisor restarts a dead process.
\* Nobody is obliged to press a button, and no request to be made.
ApprovalFairness ==
  /\ WF_approvalVars(Boot)
  /\ \A c \in Card :
       /\ WF_approvalVars(TimerFires(c)) /\ WF_approvalVars(ExpireEnd(c))
       /\ WF_approvalVars(SweepRow(c)) /\ WF_approvalVars(ModuleApplied(c))
       /\ WF_approvalVars(ResumeLost(c) \/ ResumeRun(c))
       /\ WF_approvalVars(ResumeTell(c)) /\ WF_approvalVars(ResumeClose(c))

ApprovalSpec == ApprovalInit /\ [][ApprovalNext]_approvalVars /\ ApprovalFairness
-----------------------------------------------------------------------------
(* Properties *)

ApprovalTypeOK ==
  /\ up \in BOOLEAN /\ crashes \in 0..MaxCrashes
  /\ turn \subseteq Talk /\ alive \subseteq Talk /\ culled \subseteq Talk
  /\ req \in [Card -> {"idle", "sending", "asked", "failed"}]
  /\ row \in [Card -> {"none", "pending", "expired"}]
  /\ shown \subseteq Card /\ timer \subseteq Adk \cup Onecli
  /\ presses \in 0..MaxPresses
  /\ pressed \in [Card -> SUBSET {"approve", "reject"}] /\ clicks \subseteq Click
  /\ stage \in [Card -> {"none", "resume", "tell", "close", "expire"}]
  /\ heard \in [Card -> {"none", "approve", "reject", "index"}]
  /\ applying \in [Card -> Nat] /\ ran \in [Card -> Nat]
  /\ answer \in [Card -> {"none", "approve", "deny", "dropped"}]
  /\ told \in [Card -> SUBSET Outcome]
  /\ sweep \subseteq Adk \cup Onecli /\ gone \subseteq Module /\ cut \subseteq Card

(* A suspended tool call has one outcome: an answer that races the timer, or a
   second press, never makes the patron hear of both the result and the expiry.
   Only a death of the process between the result and the deletion of the row
   lets the next process report the card as expired too.                      *)
ToldOnce == \A c \in Adk \ cut : Cardinality(told[c]) <= 1

(* However often a card is pressed, and across restarts, the tool call behind
   an ADK confirmation is executed once at most, and only if somebody pressed
   Approve; so is a credential released.  (A module's handler has no claim: two
   presses run it twice, which is why it is not in the first part.)           *)
RanOnce ==
  /\ \A c \in Adk : ran[c] <= 1
  /\ \A c \in Card : ran[c] > 0 \/ answer[c] = "approve" => "approve" \in pressed[c]

(* A patron told that the ADK session of an approved call is lost always owes
   it to another confirmation of the same thread, whose end deleted the session
   they share, or to the garbage collector; never to a restart, which the
   message blames.                                                           *)
LostExplained ==
  \A c \in Adk : "lost" \in told[c] =>
    \/ TalkOf[c] \in culled
    \/ \E d \in Adk \ {c} :
         /\ TalkOf[d] = TalkOf[c]
         /\ stage[d] = "tell" \/ told[d] \cap {"result", "expired"} # {} \/ d \in cut

(* While the process runs, every row of a card with a deadline has someone who
   will delete it: a timer, a handler on its way, or the sweep of the rows the
   last process left.                                                        *)
NothingForgotten ==
  \A c \in Adk \cup Onecli :
    up /\ row[c] # "none" => c \in timer \/ stage[c] # "none" \/ c \in sweep

(* An agent is told its request was rejected only if Reject was pressed: its
   row is there before the card, so a press is read as what the button says.   *)
VerdictHonoured ==
  \A c \in Module : "rejected" \in told[c] => "reject" \in pressed[c]

(* A supervisor's card lives one life, as Confirmation tells it: claimed once, by
   a press or by its timer, run at most once and only after an Approve, told
   what became of it, and never taken up again when it is over; only what a dead
   process left open may be reported once more, as expired (adk-approvals.ts,
   response-handler.ts 46-89, approval-dispatcher.ts 81-267).                 *)
Place(c) ==
  CASE req[c] = "idle" -> "fresh"
    [] req[c] = "sending" -> "sent"
    [] stage[c] = "resume" -> "decided"
    [] stage[c] = "tell" -> "acted"
    [] stage[c] = "close" -> "closing"
    [] stage[c] = "expire" -> "expiring"
    [] c \in timer -> "asked"
    [] OTHER -> IF row[c] # "none" THEN "left" ELSE "over"

Life == INSTANCE Confirmation
          WITH Card <- Adk, place <- [c \in Adk |-> Place(c)],
               pressed <- [c \in Adk |-> pressed[c]],
               ran <- [c \in Adk |-> ran[c]], told <- [c \in Adk |-> told[c]]
ImplementsConfirmation == Life!Spec

(* Every card with a deadline is closed in the end, across restarts.           *)
CardsClose == \A c \in Adk \cup Onecli : row[c] # "none" ~> row[c] = "none"

==============================================================================
