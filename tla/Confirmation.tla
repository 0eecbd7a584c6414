------------------------------ MODULE Confirmation ------------------------------
(***************************************************************************)
(* What a supervisor's request for confirmation promises whoever waits for   *)
(* it, with the table, the timers, the handlers in flight and the sessions   *)
(* taken away.  A card is claimed once, by a press or by its deadline; what   *)
(* a press allowed runs before its outcome is told; a death of the process    *)
(* takes every open card to one that can only expire; a card that is over     *)
(* stays over.                                                             *)
(***************************************************************************)
EXTENDS Naturals

CONSTANT Card

VARIABLES
  place,    \* of the card: one of Places
  pressed,  \* the buttons somebody has pressed on it
  ran,      \* how often the call behind it was executed
  told      \* the outcomes reported

confirmationVars == <<place, pressed, ran, told>>
Places == {"fresh", "sent", "asked", "decided", "acted", "closing", "expiring", "left", "over"}
Outcomes == {"failed", "result", "lost", "expired"}

Init ==
  /\ place = [c \in Card |-> "fresh"]
  /\ pressed = [c \in Card |-> {}]
  /\ ran = [c \in Card |-> 0]
  /\ told = [c \in Card |-> {}]

-----------------------------------------------------------------------------
Goes(c, from, to) == place[c] \in from /\ place'[c] = to
Says(c, what)     == told'[c] = told[c] \cup {what}
Untouched(c)      == pressed'[c] = pressed[c] /\ ran'[c] = ran[c]

Stays(c) == Untouched(c) /\ place'[c] = place[c] /\ told'[c] = told[c]

Presses(c) ==
  /\ place[c] # "fresh" /\ place'[c] = place[c]
  /\ \E v \in {"approve", "reject"} : pressed'[c] = pressed[c] \cup {v}
  /\ ran'[c] = ran[c] /\ told'[c] = told[c]

GoesOn(c) ==
  /\ \/ Goes(c, {"fresh"}, "sent")
     \/ Goes(c, {"sent"}, "asked")
     \/ Goes(c, {"asked"}, "expiring")
     \/ Goes(c, {"asked"}, "decided") /\ pressed[c] # {}
     \/ Goes(c, {"closing"}, "over")
  /\ Untouched(c) /\ told'[c] = told[c]

Acts(c) ==
  /\ Goes(c, {"decided"}, "acted")
  /\ \/ ran'[c] = ran[c]
     \/ "approve" \in pressed[c] /\ ran'[c] = ran[c] + 1
  /\ pressed'[c] = pressed[c] /\ told'[c] = told[c]

Reports(c) ==
  /\ \/ Goes(c, {"fresh", "sent"}, "over") /\ Says(c, "failed")
     \/ Goes(c, {"decided"}, "closing") /\ Says(c, "lost")
     \/ Goes(c, {"acted"}, "closing") /\ Says(c, "result")
     \/ Goes(c, {"expiring", "left"}, "over") /\ Says(c, "expired")
  /\ Untouched(c)

Moves(c) == Presses(c) \/ GoesOn(c) \/ Acts(c) \/ Reports(c)

\* A card that is still being sent is forgotten: nobody is told.
Dies(c) ==
  /\ place'[c] = CASE place[c] \in {"fresh", "over"} -> place[c]
                   [] place[c] = "sent" -> "over"
                   [] OTHER -> "left"
  /\ Untouched(c) /\ told'[c] = told[c]

Next ==
  /\ place' \in [Card -> Places] /\ pressed' \in [Card -> SUBSET {"approve", "reject"}]
  /\ ran' \in [Card -> Nat] /\ told' \in [Card -> SUBSET Outcomes]
  /\ \/ \A c \in Card : Dies(c)
     \/ \E c \in Card : Moves(c) /\ \A d \in Card \ {c} : Stays(d)

Spec == Init /\ [][Next]_confirmationVars
===============================================================================
