---------------------------- MODULE Registration ----------------------------
(***************************************************************************)
(* Registering a channel nobody has wired yet (src/modules/permissions,     *)
(* channel-approval.ts and the second half of index.ts).                    *)
(*                                                                         *)
(* A mention in an unwired channel asks an approver by card what to do with   *)
(* it.  The row of pending_channel_approvals, one per channel, holds the      *)
(* message and the options the card shows; buttons carry an index into them.  *)
(* "Choose existing agent" answers with a second card under the same row;     *)
(* "new agent" waits, in memory, for the approver's next direct message.      *)
(***************************************************************************)
EXTENDS Naturals, Sequences, FiniteSets

CONSTANTS
  Chan,         \* unwired channels
  Groups,       \* the agent groups the approver administers, in order
  MaxMentions,  \* bound: mentions per channel
  MaxPressed,   \* bound: buttons pressed
  MaxStops      \* bound: process deaths

Group == {Groups[i] : i \in 1..Len(Groups)}

ASSUME RegistrationConstants ==
  /\ Groups \in Seq(Group) /\ {"new", "choose", "reject", "none"} \cap Group = {}
  /\ "none" \notin Chan
  /\ \A i, j \in 1..Len(Groups) : Groups[i] = Groups[j] => i = j
  /\ MaxMentions \in Nat /\ MaxPressed \in Nat /\ MaxStops \in Nat

VARIABLES
  mentions,  \* mentions so far, per channel
  asks,      \* requestChannelApproval calls past the check for a row
  menu,      \* the row: none, or which options it holds, "first" or "second"
  faces,     \* pairs <<channel, menu>>: cards the approver was sent
  meant,     \* pairs <<channel, choice>>: what was pressed, by its label
  taps,      \* presses whose card edit is awaited
  choosing,  \* channels whose second card is being prepared
  prompting, \* channels whose name prompt is being prepared
  delivering,\* channels whose name prompt is being sent
  naming,    \* awaitingNameInput of the approver, or "none"
  wired,     \* channel -> agents of messaging_group_agents
  denied,    \* channels with denied_at
  rows,      \* rows written so far, per channel
  decided,   \* rows consumed by a decision, per channel
  taken,     \* presses so far
  stops      \* process deaths so far

registrationVars ==
  <<mentions, asks, menu, faces, meant, taps, choosing, prompting, delivering,
    naming, wired, denied, rows, decided, taken, stops>>

Choice == Group \cup {"new", "choose", "reject"}

\* buildApprovalOptions and buildAgentSelectionOptions.
First ==
  (IF Len(Groups) = 0 THEN << >> ELSE IF Len(Groups) = 1 THEN Groups ELSE <<"choose">>)
    \o <<"new", "reject">>
Second == Append(Groups, "reject")
Options(which) == IF which = "first" THEN First ELSE Second

RegistrationInit ==
  /\ mentions = [g \in Chan |-> 0] /\ asks = [g \in Chan |-> 0]
  /\ menu = [g \in Chan |-> "none"] /\ faces = {} /\ meant = {} /\ taps = {}
  /\ choosing = {} /\ prompting = {} /\ delivering = {} /\ naming = "none"
  /\ wired = [g \in Chan |-> {}] /\ denied = {}
  /\ rows = [g \in Chan |-> 0] /\ decided = [g \in Chan |-> 0]
  /\ taken = 0 /\ stops = 0

-----------------------------------------------------------------------------
(* Asking: routeInbound without agents, requestChannelApproval *)

\* While a row exists nothing is asked again; the check comes before the awaits
\* (channel name, the approver's direct message), so two calls may both pass it.
MentionIn(g) ==
  /\ mentions[g] < MaxMentions /\ wired[g] = {} /\ g \notin denied
  /\ mentions' = [mentions EXCEPT ![g] = @ + 1]
  /\ asks' = IF menu[g] = "none" THEN [asks EXCEPT ![g] = @ + 1] ELSE asks
  /\ UNCHANGED <<menu, faces, meant, taps, choosing, prompting, delivering, naming,
                 wired, denied, rows, decided, taken, stops>>

\* No approver or no direct message; or the row of another call is there and
\* the insert fails on its primary key.
AskStops(g) ==
  /\ asks[g] > 0 /\ asks' = [asks EXCEPT ![g] = @ - 1]
  /\ UNCHANGED <<mentions, menu, faces, meant, taps, choosing, prompting, delivering,
                 naming, wired, denied, rows, decided, taken, stops>>

\* The row is written, then the card is sent, or fails to be: the row stays.
AskStores(g, sent) ==
  /\ asks[g] > 0 /\ menu[g] = "none"
  /\ asks' = [asks EXCEPT ![g] = @ - 1]
  /\ menu' = [menu EXCEPT ![g] = "first"]
  /\ rows' = [rows EXCEPT ![g] = @ + 1]
  /\ faces' = IF sent THEN faces \cup {<<g, "first">>} ELSE faces
  /\ UNCHANGED <<mentions, meant, taps, choosing, prompting, delivering, naming,
                 wired, denied, decided, taken, stops>>

-----------------------------------------------------------------------------
(* Answering: onAction, handleChannelApprovalResponse *)

(* Fault: the options of the first card are never replaced. *)
LookupFirst(g, i) == IF menu[g] # "none" /\ i <= Len(First) THEN First[i] ELSE "none"

\* The index is looked up in the options the row holds at the press.
Lookup(g, i) ==
  IF menu[g] # "none" /\ i <= Len(Options(menu[g])) THEN Options(menu[g])[i] ELSE "none"

Tap(g, face, i) ==
  /\ <<g, face>> \in faces /\ i \in 1..Len(Options(face)) /\ taken < MaxPressed
  /\ taken' = taken + 1
  /\ meant' = meant \cup {<<g, Options(face)[i]>>}
  /\ taps' = taps \cup {<<g, Lookup(g, i)>>}
  /\ UNCHANGED <<mentions, asks, menu, faces, choosing, prompting, delivering, naming,
                 wired, denied, rows, decided, stops>>

Lands(g, choice) == <<g, choice>> \in taps /\ taps' = taps \ {<<g, choice>>}

\* No row left, or a value no branch knows.
TapIgnored(g, choice) ==
  /\ Lands(g, choice) /\ (menu[g] = "none" \/ choice = "none")
  /\ UNCHANGED <<mentions, asks, menu, faces, meant, choosing, prompting, delivering,
                 naming, wired, denied, rows, decided, taken, stops>>

Decide(g) ==
  menu' = [menu EXCEPT ![g] = "none"] /\ decided' = [decided EXCEPT ![g] = @ + 1]

Reject(g) ==
  /\ Lands(g, "reject") /\ menu[g] # "none"
  /\ denied' = denied \cup {g} /\ Decide(g)
  /\ UNCHANGED <<mentions, asks, faces, meant, choosing, prompting, delivering,
                 naming, wired, rows, taken, stops>>

\* Wire the channel, make the sender a member, delete the row, route the
\* message again.  Wiring the same agent twice violates UNIQUE and leaves the row.
Connect(g, a) ==
  /\ Lands(g, a) /\ a \in Group /\ menu[g] # "none"
  /\ IF a \in wired[g] THEN UNCHANGED <<wired, menu, decided>>
     ELSE wired' = [wired EXCEPT ![g] = @ \cup {a}] /\ Decide(g)
  /\ UNCHANGED <<mentions, asks, faces, meant, choosing, prompting, delivering,
                 naming, denied, rows, taken, stops>>

ChooseExisting(g) ==
  /\ Lands(g, "choose") /\ menu[g] # "none"
  /\ choosing' = choosing \cup {g}
  /\ UNCHANGED <<mentions, asks, menu, faces, meant, prompting, delivering, naming,
                 wired, denied, rows, decided, taken, stops>>

\* After ensureUserDm: the row's options are replaced, the second card is sent.
ChoiceSent(g, sent) ==
  /\ g \in choosing /\ choosing' = choosing \ {g}
  /\ menu' = IF menu[g] = "none" THEN menu ELSE [menu EXCEPT ![g] = "second"]
  /\ faces' = IF sent THEN faces \cup {<<g, "second">>} ELSE faces
  /\ UNCHANGED <<mentions, asks, meant, taps, prompting, delivering, naming, wired,
                 denied, rows, decided, taken, stops>>

ChoiceStops(g) ==
  /\ g \in choosing /\ choosing' = choosing \ {g}
  /\ UNCHANGED <<mentions, asks, menu, faces, meant, taps, prompting, delivering,
                 naming, wired, denied, rows, decided, taken, stops>>

NewAgent(g) ==
  /\ Lands(g, "new") /\ menu[g] # "none"
  /\ prompting' = prompting \cup {g}
  /\ UNCHANGED <<mentions, asks, menu, faces, meant, choosing, delivering, naming,
                 wired, denied, rows, decided, taken, stops>>

\* After ensureUserDm: one entry per approver, the later channel wins.
Prompt(g) ==
  /\ g \in prompting /\ prompting' = prompting \ {g}
  /\ naming' = g /\ delivering' = delivering \cup {g}
  /\ UNCHANGED <<mentions, asks, menu, faces, meant, taps, choosing, wired, denied,
                 rows, decided, taken, stops>>

\* The approver cannot be reached, or no adapter is up: nothing is prepared.
PromptStops(g) ==
  /\ g \in prompting /\ prompting' = prompting \ {g}
  /\ UNCHANGED <<mentions, asks, menu, faces, meant, taps, choosing, delivering,
                 naming, wired, denied, rows, decided, taken, stops>>

\* A prompt that cannot be sent removes the approver's entry, whose ever it is.
PromptEnds(g, sent) ==
  /\ g \in delivering /\ delivering' = delivering \ {g}
  /\ naming' = IF sent THEN naming ELSE "none"
  /\ UNCHANGED <<mentions, asks, menu, faces, meant, taps, choosing, prompting, wired,
                 denied, rows, decided, taken, stops>>

(* Fault: the row is not looked at again when the name arrives. *)
NameReplyUnchecked(text) ==
  /\ naming # "none" /\ naming' = "none"
  /\ IF text
       THEN wired' = [wired EXCEPT ![naming] = @ \cup {"new"}] /\ Decide(naming)
       ELSE UNCHANGED <<wired, menu, decided>>
  /\ UNCHANGED <<mentions, asks, faces, meant, taps, choosing, prompting, delivering,
                 denied, rows, taken, stops>>

\* The message interceptor takes the approver's next direct message: without
\* text, or without a row, it is swallowed; otherwise it names a new agent.
NameReply(text) ==
  /\ naming # "none" /\ naming' = "none"
  /\ IF text /\ menu[naming] # "none"
       THEN wired' = [wired EXCEPT ![naming] = @ \cup {"new"}] /\ Decide(naming)
       ELSE UNCHANGED <<wired, menu, decided>>
  /\ UNCHANGED <<mentions, asks, faces, meant, taps, choosing, prompting, delivering,
                 denied, rows, taken, stops>>

\* Rows and cards survive a restart, calls in flight and the map do not.
Restart ==
  /\ stops < MaxStops /\ stops' = stops + 1
  /\ asks' = [g \in Chan |-> 0] /\ taps' = {} /\ choosing' = {} /\ prompting' = {}
  /\ delivering' = {}
  /\ naming' = "none"
  /\ UNCHANGED <<mentions, menu, faces, meant, wired, denied, rows, decided, taken>>

-----------------------------------------------------------------------------
RegistrationNext ==
  \/ \E g \in Chan :
       \/ MentionIn(g) \/ AskStops(g)
       \/ \E sent \in BOOLEAN :
            AskStores(g, sent) \/ ChoiceSent(g, sent) \/ PromptEnds(g, sent)
       \/ \E face \in {"first", "second"}, i \in 1..Len(Groups) + 2 : Tap(g, face, i)
       \/ \E choice \in Choice \cup {"none"} : TapIgnored(g, choice)
       \/ \E a \in Group : Connect(g, a)
       \/ Reject(g) \/ ChooseExisting(g) \/ ChoiceStops(g)
       \/ NewAgent(g) \/ Prompt(g) \/ PromptStops(g)
  \/ \E text \in BOOLEAN : NameReply(text)
  \/ Restart

RegistrationSpec == RegistrationInit /\ [][RegistrationNext]_registrationVars

-----------------------------------------------------------------------------
(* Properties *)

RegistrationTypeOK ==
  /\ mentions \in [Chan -> 0..MaxMentions] /\ asks \in [Chan -> Nat]
  /\ menu \in [Chan -> {"none", "first", "second"}]
  /\ faces \subseteq Chan \X {"first", "second"}
  /\ meant \subseteq Chan \X Choice /\ taps \subseteq Chan \X (Choice \cup {"none"})
  /\ choosing \subseteq Chan /\ prompting \subseteq Chan /\ delivering \subseteq Chan
  /\ naming \in Chan \cup {"none"}
  /\ wired \in [Chan -> SUBSET (Group \cup {"new"})] /\ denied \subseteq Chan
  /\ rows \in [Chan -> Nat] /\ decided \in [Chan -> Nat]
  /\ taken \in 0..MaxPressed /\ stops \in 0..MaxStops

(* A request is decided once: however presses, the second card and a typed name
   race, a row lets one of them through.  A channel that is both denied and
   wired, or wired twice, has had a second row, which a slow second request
   wrote after the first was decided.                                        *)
DecidedOnce ==
  \A g \in Chan :
    /\ decided[g] + (IF menu[g] = "none" THEN 0 ELSE 1) = rows[g]
    /\ Cardinality(wired[g]) + (IF g \in denied THEN 1 ELSE 0) <= decided[g]

(* The name the approver types is used for a channel whose "new agent" button
   was pressed, whichever channels are being registered at the time.  The one
   other way there: a button of a second card left on the screen, pressed after
   a new request wrote the options of a first card.                           *)
NamedWhereAsked ==
  \A g \in Chan : "new" \in wired[g] \/ naming = g =>
    \/ <<g, "new">> \in meant
    \/ rows[g] > 1 /\ \E a \in Group : <<g, a>> \in meant
==============================================================================
