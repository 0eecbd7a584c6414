------------------------------ MODULE FugueAsk ------------------------------
(***************************************************************************)
(* The ask endpoint of channels/fugue-http.ts: one HTTP request, one session *)
(* of its own (thread = request_id), one container, one answer, and then the   *)
(* session, its directory and its container are removed.                      *)
(*                                                                         *)
(* A request is identified by the caller's request_id, which a resend repeats. *)
(* The session an ask creates is named after the ask here.                    *)
(***************************************************************************)
EXTENDS Naturals, FiniteSets

CONSTANTS
  Ask,         \* HTTP requests
  Thread,      \* request_ids
  MaxCollapses \* bound: containers lost and host deaths

ASSUME AskConstants == MaxCollapses \in Nat /\ "none" \notin Ask

VARIABLES
  thread,     \* ask -> its request_id
  phase,      \* ask -> where handleAsk stands
  reply,      \* ask -> the status replied
  owner,      \* thread -> the ask whose session is live, or "none"
  box,        \* session -> its container: none, starting, up
  says,       \* session -> the first chat row its container wrote
  handed,     \* sessions whose chat row the delivery poll took to the adapter
  taken,      \* sessions whose chat row an ask took
  late,       \* history: sessions removed while a start was under way
  collapses   \* containers lost and host deaths so far

askVars == <<thread, phase, reply, owner, box, says, handed, taken, late, collapses>>

AskInit ==
  /\ thread \in [Ask -> Thread] /\ phase = [a \in Ask |-> "new"]
  /\ reply = [a \in Ask |-> "none"] /\ owner = [t \in Thread |-> "none"]
  /\ box = [a \in Ask |-> "none"] /\ says = [a \in Ask |-> "nothing"]
  /\ handed = {} /\ taken = {} /\ late = {} /\ collapses = 0

Owns(s) == owner[thread[s]] = s

Reply(a, status) ==
  phase' = [phase EXCEPT ![a] = "replied"] /\ reply' = [reply EXCEPT ![a] = status]

\* cleanupAskSession: killContainer (which knows no container that is still being
\* started), deleteSession, removal of the directory.
Cleanup(s) ==
  /\ owner' = IF Owns(s) THEN [owner EXCEPT ![thread[s]] = "none"] ELSE owner
  /\ box' = IF box[s] = "up" THEN [box EXCEPT ![s] = "none"] ELSE box
  /\ says' = [says EXCEPT ![s] = "nothing"]
  /\ late' = IF box[s] = "starting" THEN late \cup {s} ELSE late

-----------------------------------------------------------------------------
(* handleAsk *)

\* Refused by the gate, no configuration, or no session could be made.
Refuse(a, status) ==
  /\ phase[a] = "new" /\ Reply(a, status)
  /\ UNCHANGED <<thread, owner, box, says, handed, taken, late, collapses>>

\* A session, the prompt in it, and a container asked for.
Begin(a) ==
  /\ phase[a] = "new" /\ owner[thread[a]] = "none"
  /\ owner' = [owner EXCEPT ![thread[a]] = a]
  /\ phase' = [phase EXCEPT ![a] = "waking"] /\ box' = [box EXCEPT ![a] = "starting"]
  /\ UNCHANGED <<thread, reply, says, handed, taken, late, collapses>>

\* The session of an earlier request with this request_id is reused: the prompt
\* has the same row id, the insert fails, and the session is cleaned up.
BeginAgain(a) ==
  /\ phase[a] = "new" /\ owner[thread[a]] # "none"
  /\ Reply(a, "error") /\ Cleanup(owner[thread[a]])
  /\ UNCHANGED <<thread, handed, taken, collapses>>

\* wakeContainer settles.
Wakes(a, up) ==
  /\ phase[a] = "waking" /\ box[a] = "starting"
  /\ IF up
     THEN /\ phase' = [phase EXCEPT ![a] = "polling"] /\ box' = [box EXCEPT ![a] = "up"]
          /\ UNCHANGED <<reply, owner, says, late>>
     ELSE /\ Reply(a, "error")
          /\ owner' = IF Owns(a) THEN [owner EXCEPT ![thread[a]] = "none"] ELSE owner
          /\ box' = [box EXCEPT ![a] = "none"] /\ says' = [says EXCEPT ![a] = "nothing"]
          /\ UNCHANGED late
  /\ UNCHANGED <<thread, handed, taken, collapses>>

\* The first chat row decides, whether it parses as an answer or not.  (The
\* markDelivered here goes to a read-only handle, throws and is only logged.)
Hit(a) ==
  /\ phase[a] = "polling" /\ says[a] # "nothing"
  /\ Reply(a, IF says[a] = "answer" THEN "ok" ELSE "error")
  /\ taken' = taken \cup {a} /\ Cleanup(a)
  /\ UNCHANGED <<thread, handed, collapses>>

(* Fault: the time-out replies without cleaning up. *)
TimeOutLeaves(a) ==
  /\ phase[a] = "polling" /\ Reply(a, "error")
  /\ UNCHANGED <<thread, owner, box, says, late, handed, taken, collapses>>

\* FUGUE_ASK_TIMEOUT_MS passes.
TimeOut(a) ==
  /\ phase[a] = "polling" /\ Reply(a, "error") /\ Cleanup(a)
  /\ UNCHANGED <<thread, handed, taken, collapses>>

-----------------------------------------------------------------------------
(* The container, the sweep, the delivery poll, the host *)

Speaks(s, what) ==
  /\ box[s] = "up" /\ Owns(s) /\ says[s] = "nothing"
  /\ says' = [says EXCEPT ![s] = what]
  /\ UNCHANGED <<thread, phase, reply, owner, box, handed, taken, late, collapses>>

BoxLost(s) ==
  /\ box[s] = "up" /\ collapses < MaxCollapses
  /\ collapses' = collapses + 1 /\ box' = [box EXCEPT ![s] = "none"]
  /\ UNCHANGED <<thread, phase, reply, owner, says, handed, taken, late>>

\* The host sweep starts a container again for the prompt nobody answered.
SweepStarts(s) ==
  /\ Owns(s) /\ box[s] = "none" /\ says[s] = "nothing"
  /\ box' = [box EXCEPT ![s] = "starting"]
  /\ UNCHANGED <<thread, phase, reply, owner, says, handed, taken, late, collapses>>

SweepStarted(s, up) ==
  /\ box[s] = "starting" /\ phase[s] # "waking"
  /\ box' = [box EXCEPT ![s] = IF up THEN "up" ELSE "none"]
  /\ UNCHANGED <<thread, phase, reply, owner, says, handed, taken, late, collapses>>

\* The delivery polls see the same row; the adapter of this channel throws.
Hands(s) ==
  /\ Owns(s) /\ says[s] # "nothing" /\ handed' = handed \cup {s}
  /\ UNCHANGED <<thread, phase, reply, owner, box, says, taken, late, collapses>>

\* Requests under way are lost, their sessions stay; the next start removes the
\* containers.
HostDies ==
  /\ collapses < MaxCollapses /\ collapses' = collapses + 1
  /\ phase' = [a \in Ask |-> IF phase[a] \in {"waking", "polling"} THEN "replied" ELSE phase[a]]
  /\ reply' = [a \in Ask |-> IF phase[a] \in {"waking", "polling"} THEN "lost" ELSE reply[a]]
  /\ box' = [a \in Ask |-> "none"]
  /\ UNCHANGED <<thread, owner, says, handed, taken, late>>

AskNext ==
  \/ \E a \in Ask :
        \/ \E status \in {"denied", "error"} : Refuse(a, status)
        \/ Begin(a) \/ BeginAgain(a) \/ Hit(a) \/ TimeOut(a)
        \/ \E up \in BOOLEAN : Wakes(a, up) \/ SweepStarted(a, up)
        \/ \E what \in {"answer", "chatter"} : Speaks(a, what)
        \/ BoxLost(a) \/ SweepStarts(a) \/ Hands(a)
  \/ HostDies

AskSpec == AskInit /\ [][AskNext]_askVars

-----------------------------------------------------------------------------
(* Properties *)

\* Type of the state; a row is taken only by an ask that was answered.
AskTypeOK ==
  /\ thread \in [Ask -> Thread] /\ phase \in [Ask -> {"new", "waking", "polling", "replied"}]
  /\ reply \in [Ask -> {"none", "ok", "error", "denied", "lost"}]
  /\ owner \in [Thread -> Ask \cup {"none"}]
  /\ box \in [Ask -> {"none", "starting", "up"}]
  /\ says \in [Ask -> {"nothing", "answer", "chatter"}]
  /\ handed \subseteq Ask /\ taken \subseteq Ask /\ late \subseteq Ask
  /\ collapses \in 0..MaxCollapses

\* An ask that has replied leaves no session behind on any of its paths; one the
\* host's death cut off does (the finally of handleAsk).
RepliedLeavesNoSession ==
  \A t \in Thread : owner[t] # "none" =>
    thread[owner[t]] = t /\ (phase[owner[t]] = "replied" => reply[owner[t]] = "lost")

\* A container runs on without its session only if the session was removed while
\* that container was being started: killContainer knew none to stop.
StrayWasLate == \A s \in Ask : box[s] = "up" /\ ~Owns(s) => s \in late
=============================================================================
