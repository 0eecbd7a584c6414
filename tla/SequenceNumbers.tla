--------------------------- MODULE SequenceNumbers ---------------------------
(***************************************************************************)
(* The numbers of messages (seq): the host's even ones in messages_in        *)
(* (src/db/session-db.ts) and the container's odd ones in messages_out        *)
(* (db/messages-out.ts of the agent runner), by which an agent names a        *)
(* message it edits or reacts to.                                           *)
(*                                                                         *)
(* A container writes from two processes, the poll loop and the MCP server,   *)
(* and the container before it may still run: each reads the two maxima, then  *)
(* inserts, with no transaction around.                                     *)
(***************************************************************************)
EXTENDS Integers, FiniteSets

CONSTANTS
  Writer,      \* writers of messages_out
  Retries,     \* WRITE_MAX_RETRIES
  MaxNumbers,  \* bound: rows in either table
  MaxBusy      \* bound: inserts that fail on a locked database

ASSUME SequenceConstants == Retries \in Nat /\ MaxNumbers \in Nat /\ MaxBusy \in Nat

VARIABLES
  inbound,   \* seq of messages_in
  outbound,  \* pairs <<seq, writer>> of messages_out
  step,      \* what a writer is at: idle, read (one maximum), ready (both), wait
  floor,     \* the greatest number it has read
  tries,     \* failed attempts of its present message
  lost,      \* writers whose message was given up
  rivals,    \* history: rows others added since its present message began
  busy       \* inserts that failed on a lock so far

numberVars == <<inbound, outbound, step, floor, tries, lost, rivals, busy>>

NumberInit ==
  /\ inbound = {} /\ outbound = {} /\ step = [w \in Writer |-> "idle"]
  /\ floor = [w \in Writer |-> 0] /\ tries = [w \in Writer |-> 0]
  /\ lost = {} /\ rivals = [w \in Writer |-> 0] /\ busy = 0

Greatest(numbers) ==
  IF numbers = {} THEN 0 ELSE CHOOSE n \in numbers : \A k \in numbers : k <= n

Odd == {row[1] : row \in outbound}

\* insertMessage: the host is the one writer of messages_in and reads no other table.
NextEven == IF Greatest(inbound) < 2 THEN 2 ELSE Greatest(inbound) + 2 - (Greatest(inbound) % 2)

HostInserts ==
  /\ Cardinality(inbound) < MaxNumbers
  /\ inbound' = inbound \cup {NextEven}
  /\ UNCHANGED <<outbound, step, floor, tries, lost, rivals, busy>>

\* writeMessageOutOnce: SELECT MAX in messages_out, then in messages_in.
ReadOut(w) ==
  /\ step[w] \in {"idle", "wait"} /\ Cardinality(outbound) < MaxNumbers
  /\ step' = [step EXCEPT ![w] = "read"] /\ floor' = [floor EXCEPT ![w] = Greatest(Odd)]
  /\ rivals' = IF step[w] = "idle" THEN [rivals EXCEPT ![w] = 0] ELSE rivals
  /\ UNCHANGED <<inbound, outbound, tries, lost, busy>>

ReadIn(w) ==
  /\ step[w] = "read" /\ step' = [step EXCEPT ![w] = "ready"]
  /\ floor' = [floor EXCEPT ![w] = IF Greatest(inbound) > @ THEN Greatest(inbound) ELSE @]
  /\ UNCHANGED <<inbound, outbound, tries, lost, rivals, busy>>

NextOdd(w) == IF floor[w] % 2 = 0 THEN floor[w] + 1 ELSE floor[w] + 2

\* The insert, unless seq is taken (UNIQUE).
Insert(w) ==
  /\ step[w] = "ready" /\ NextOdd(w) \notin Odd
  /\ outbound' = outbound \cup {<<NextOdd(w), w>>}
  /\ rivals' = [v \in Writer |-> IF v = w \/ step[v] = "idle" THEN rivals[v]
                                     ELSE rivals[v] + 1]
  /\ step' = [step EXCEPT ![w] = "idle"] /\ tries' = [tries EXCEPT ![w] = 0]
  /\ floor' = [floor EXCEPT ![w] = 0]
  /\ UNCHANGED <<inbound, lost, busy>>

(* Fault: one attempt too few. *)
AgainOnceLess(w) ==
  IF tries[w] + 1 >= Retries
  THEN /\ step' = [step EXCEPT ![w] = "idle"] /\ tries' = [tries EXCEPT ![w] = 0]
       /\ lost' = lost \cup {<<w, rivals[w]>>}
  ELSE /\ step' = [step EXCEPT ![w] = "wait"] /\ tries' = [tries EXCEPT ![w] = @ + 1]
       /\ UNCHANGED lost

\* writeMessageOut: a failed attempt is repeated, after the last the message is lost.
Again(w) ==
  IF tries[w] = Retries
  THEN /\ step' = [step EXCEPT ![w] = "idle"] /\ tries' = [tries EXCEPT ![w] = 0]
       /\ lost' = lost \cup {<<w, rivals[w]>>}
  ELSE /\ step' = [step EXCEPT ![w] = "wait"] /\ tries' = [tries EXCEPT ![w] = @ + 1]
       /\ UNCHANGED lost

Collides(w) ==
  /\ step[w] = "ready" /\ NextOdd(w) \in Odd /\ Again(w)
  /\ floor' = [floor EXCEPT ![w] = 0]
  /\ UNCHANGED <<inbound, outbound, rivals, busy>>

Locked(w) ==
  /\ step[w] = "ready" /\ busy < MaxBusy /\ busy' = busy + 1 /\ Again(w)
  /\ floor' = [floor EXCEPT ![w] = 0]
  /\ UNCHANGED <<inbound, outbound, rivals>>

NumberNext ==
  \/ HostInserts
  \/ \E w \in Writer : ReadOut(w) \/ ReadIn(w) \/ Insert(w) \/ Collides(w) \/ Locked(w)

NumberSpec == NumberInit /\ [][NumberNext]_numberVars

-----------------------------------------------------------------------------
(* Properties *)

NumberTypeOK ==
  /\ inbound \subseteq Nat /\ outbound \subseteq Nat \X Writer
  /\ step \in [Writer -> {"idle", "read", "ready", "wait"}]
  /\ floor \in [Writer -> Nat] /\ tries \in [Writer -> 0..Retries]
  /\ lost \subseteq Writer \X Nat /\ rivals \in [Writer -> Nat] /\ busy \in 0..MaxBusy

\* A number the agent gives names one message, whichever table it is in
\* (messages-out.ts: the lookup searches both).
OneNameEach ==
  /\ \A r, q \in outbound : r[1] = q[1] => r = q
  /\ Odd \cap inbound = {}

\* A message is given up only when, for every attempt, another writer inserted in
\* between or the database was locked.
LostWasCrowdedOut == \A l \in lost : l[2] + busy > Retries
=============================================================================
