---------------------------- MODULE Routing_proofs ----------------------------
(***************************************************************************)
(* Proofs about how a message finds its agent: Admission, Registration and   *)
(* Peers, for any messages, agents, channels and sessions; and that what      *)
(* holds of the three holds of their composition in MCRouting.               *)
(***************************************************************************)
EXTENDS MCRouting, FiniteSetTheorems, WellFoundedInduction, TLAPS

-----------------------------------------------------------------------------
(* Admission: types *)

LEMMA OrderFacts ==
  /\ Len(Order) \in Nat /\ \A i \in 1..Len(Order) : Order[i] \in Agent
  /\ \A i \in 1..Len(Order) : Place(Order[i]) = i
  /\ \A a \in Agent : Place(a) \in 1..Len(Order) /\ Order[Place(a)] = a
<1>1. Len(Order) \in Nat /\ \A i \in 1..Len(Order) : Order[i] \in Agent
  BY AdmissionConstants DEF Agent
<1>2. ASSUME NEW a \in Agent PROVE Place(a) \in 1..Len(Order) /\ Order[Place(a)] = a
  BY DEF Agent, Place
<1>3. ASSUME NEW i \in 1..Len(Order) PROVE Place(Order[i]) = i
  <2>1. Place(Order[i]) \in 1..Len(Order) /\ Order[Place(Order[i])] = Order[i]
    BY <1>1, <1>2
  <2> QED
    BY <2>1, AdmissionConstants
<1> QED
  BY <1>1, <1>2, <1>3

LEMMA SenderOfTyped == \A m \in Msg : SenderOf[m] \in Sender
BY DEF Sender

LEMMA PlanForTyped == \A m, known : PlanFor(m, known) \in Plan
BY DEF PlanFor, Plan


(* The records a routing goes through.                                       *)
LEMMA GoOnFacts ==
  ASSUME routing \subseteq Routing, NEW r, NEW a, At(r, a), NEW acted \in BOOLEAN, GoOn(r, acted)
  PROVE  \E q \in Routing :
           /\ routing' = (routing \ {r}) \cup {q} /\ replayed' = replayed
           /\ q.msg = r.msg /\ q.by = r.by /\ q.plan = r.plan /\ q.class = r.class
           /\ q.next = r.next + 1 /\ (q.acted <=> r.acted \/ acted)
<1>1. r \in Routing /\ r.next \in 1..Len(Order)
  BY DEF At
<1>2. PICK b \in BOOLEAN : b = (r.acted \/ acted)
  BY Zenon
<1>3. r.next + 1 \in 0..Len(Order) + 1
  BY <1>1, OrderFacts
<1> DEFINE q == [r EXCEPT !.next = @ + 1, !.acted = b]
<1>4. q \in Routing
  BY <1>1, <1>3 DEF Routing
<1>5. /\ q.msg = r.msg /\ q.by = r.by /\ q.plan = r.plan /\ q.class = r.class
      /\ q.next = r.next + 1 /\ q.acted = b
  BY <1>1 DEF Routing
<1>6. routing' = (routing \ {r}) \cup {q} /\ replayed' = replayed
  BY <1>2, Zenon DEF GoOn
<1>7. q.acted <=> r.acted \/ acted
  BY <1>2, <1>5, Zenon
<1> HIDE DEF q
<1> QED
  BY <1>4, <1>5, <1>6, <1>7

LEMMA GateFacts ==
  ASSUME routing \subseteq Routing, NEW r, NEW class \in Class, GatePasses(r, class)
  PROVE  \E q \in Routing :
           /\ routing' = (routing \ {r}) \cup {q} /\ r.next = 0 /\ q.next = 1
           /\ q.msg = r.msg /\ q.by = r.by /\ q.plan = r.plan /\ q.acted = r.acted
<1>1. r \in Routing /\ r.next = 0
  BY DEF GatePasses
<1>2. 1 \in 0..Len(Order) + 1
  BY OrderFacts
<1> DEFINE q == [r EXCEPT !.next = 1, !.class = class]
<1>3. q \in Routing
  BY <1>1, <1>2 DEF Routing
<1>4. q.next = 1 /\ q.msg = r.msg /\ q.by = r.by /\ q.plan = r.plan /\ q.acted = r.acted
  BY <1>1 DEF Routing
<1>5. routing' = (routing \ {r}) \cup {q}
  BY DEF GatePasses
<1> QED
  BY <1>1, <1>3, <1>4, <1>5

LEMMA StartRecord ==
  ASSUME NEW m \in Msg, NEW by \in Agent \cup {"arrival"}, NEW plan \in Plan, NEW n \in {0, 1}
  PROVE  [msg |-> m, by |-> by, plan |-> plan, class |-> "none", acted |-> FALSE, next |-> n]
           \in Routing
<1>1. n \in 0..Len(Order) + 1
  BY OrderFacts
<1> QED
  BY <1>1 DEF Routing, Class

(* What Arrive and Allow add: a routing with the plan made now, and questions
   about its sender.                                                         *)
Begins(m, by, plan, q) ==
  /\ q \in Routing /\ routing' = routing \cup {q} /\ q.msg = m /\ q.by = by /\ q.plan = plan
  /\ q.next \in {0, 1} /\ q.acted = FALSE

LEMMA ArriveFacts ==
  ASSUME NEW m \in Msg, Arrive(m)
  PROVE  /\ \E q : Begins(m, "arrival", PlanFor(m, member), q)
         /\ \E new \in SUBSET Ask :
              /\ asking' = asking \cup new
              /\ \A k \in new : k.msg = m /\ k.sender = SenderOf[m] /\ Engages(m, k.agent)
         /\ dropped' \subseteq dropped \cup {m} /\ dropped \subseteq dropped'
<1> DEFINE n == IF gateOn /\ (\E a \in Agent : PlanFor(m, member)[a] # "ignore") THEN 0 ELSE 1
           q == [msg |-> m, by |-> "arrival", plan |-> PlanFor(m, member), class |-> "none",
                 acted |-> FALSE, next |-> n]
           new == NewAsks(m, member, card)
<1>1. q \in Routing
  BY StartRecord, PlanForTyped
<1>2. routing' = routing \cup {q} /\ asking' = asking \cup new
  BY DEF Arrive, StartRouting
<1>3. new \subseteq Ask /\ \A k \in new : k.msg = m /\ k.sender = SenderOf[m] /\ Engages(m, k.agent)
  BY SenderOfTyped DEF NewAsks, Ask, Refuses
<1>4. dropped' \subseteq dropped \cup {m} /\ dropped \subseteq dropped'
  BY DEF Arrive, StartRouting
<1>5. Begins(m, "arrival", PlanFor(m, member), q)
  BY <1>1, <1>2 DEF Begins
<1> QED
  BY <1>2, <1>3, <1>4, <1>5

LEMMA AllowFacts ==
  ASSUME AdmissionTypeOK, NEW s \in Sender, Allow(s)
  PROVE  /\ card[s] \in Cards /\ card[s].msg \in Msg /\ card[s].agent \in Agent
         /\ \E q : Begins(card[s].msg, card[s].agent, PlanFor(card[s].msg, member'), q)
         /\ \E new \in SUBSET Ask :
              /\ asking' = asking \cup new
              /\ \A k \in new : /\ k.msg = card[s].msg /\ k.sender = SenderOf[card[s].msg]
                                /\ Engages(card[s].msg, k.agent)
         /\ dropped' \subseteq dropped \cup {card[s].msg} /\ dropped \subseteq dropped'
<1> DEFINE m == card[s].msg
           a == card[s].agent
<1>1. card[s] \in Cards /\ m \in Msg /\ a \in Agent
  BY DEF Allow, Cards, AdmissionTypeOK
<1> DEFINE n == IF gateOn /\ (\E b \in Agent : PlanFor(m, member')[b] # "ignore") THEN 0 ELSE 1
           q == [msg |-> m, by |-> a, plan |-> PlanFor(m, member'), class |-> "none",
                 acted |-> FALSE, next |-> n]
           new == NewAsks(m, member', card')
<1>2. q \in Routing
  BY <1>1, StartRecord, PlanForTyped
<1>3. routing' = routing \cup {q} /\ asking' = asking \cup new
  BY DEF Allow, StartRouting
<1>4. new \subseteq Ask /\ \A k \in new : k.msg = m /\ k.sender = SenderOf[m] /\ Engages(m, k.agent)
  BY <1>1, SenderOfTyped DEF NewAsks, Ask, Refuses
<1>5. dropped' \subseteq dropped \cup {m} /\ dropped \subseteq dropped'
  BY DEF Allow, StartRouting
<1>6. Begins(m, a, PlanFor(m, member'), q)
  BY <1>2, <1>3 DEF Begins
<1> QED
  BY <1>1, <1>3, <1>4, <1>5, <1>6

LEMMA AdmissionTypeStep ==
  AdmissionTypeOK /\ [AdmissionNext]_admissionVars => AdmissionTypeOK'
<1> SUFFICES ASSUME AdmissionTypeOK, [AdmissionNext]_admissionVars PROVE AdmissionTypeOK'
  OBVIOUS
<1> USE DEF AdmissionTypeOK
<1>1. ASSUME NEW m \in Msg, Arrive(m) PROVE AdmissionTypeOK'
  <2>1. PICK q : Begins(m, "arrival", PlanFor(m, member), q)
    BY <1>1, ArriveFacts
  <2>2. PICK new \in SUBSET Ask :
          /\ asking' = asking \cup new
          /\ \A k \in new : k.msg = m /\ k.sender = SenderOf[m] /\ Engages(m, k.agent)
    BY <1>1, ArriveFacts
  <2>3. dropped' \subseteq dropped \cup {m} /\ dropped \subseteq dropped'
    BY <1>1, ArriveFacts
  <2> QED
    BY <1>1, <2>1, <2>2, <2>3 DEF Begins, Arrive
<1>2. ASSUME NEW r \in routing, NEW class \in Class, GatePasses(r, class) PROVE AdmissionTypeOK'
  <2>1. PICK q \in Routing : /\ routing' = (routing \ {r}) \cup {q} /\ r.next = 0 /\ q.next = 1
          /\ q.msg = r.msg /\ q.by = r.by /\ q.plan = r.plan /\ q.acted = r.acted
    BY <1>2, GateFacts
  <2> QED
    BY <1>2, <2>1 DEF GatePasses
<1>3. ASSUME NEW r \in routing, GateBlocks(r) PROVE AdmissionTypeOK'
  BY <1>3 DEF GateBlocks, Finish, Routing
<1>4. ASSUME NEW r \in routing, RoutingEnds(r) PROVE AdmissionTypeOK'
  BY <1>4 DEF RoutingEnds, Finish, Routing
<1>5. ASSUME NEW r \in routing, NEW a \in Agent, Ignore(r, a) PROVE AdmissionTypeOK'
  <2>1. PICK q \in Routing : /\ routing' = (routing \ {r}) \cup {q} /\ replayed' = replayed
          /\ q.msg = r.msg /\ q.by = r.by /\ q.plan = r.plan /\ q.next = r.next + 1
          /\ (q.acted <=> r.acted \/ FALSE)
    BY <1>5, GoOnFacts DEF Ignore
  <2> QED
    BY <1>5, <2>1 DEF Ignore, At, Routing
<1>6. ASSUME NEW r \in routing, NEW a \in Agent, PassOver(r, a) PROVE AdmissionTypeOK'
  <2>1. PICK q \in Routing : /\ routing' = (routing \ {r}) \cup {q} /\ replayed' = replayed
          /\ q.msg = r.msg /\ q.by = r.by /\ q.plan = r.plan /\ q.next = r.next + 1
          /\ (q.acted <=> r.acted \/ TRUE)
    BY <1>6, GoOnFacts DEF PassOver
  <2> QED
    BY <1>6, <2>1 DEF PassOver, At, Routing
<1>7. ASSUME NEW r \in routing, NEW a \in Agent, HandToAdk(r, a) PROVE AdmissionTypeOK'
  <2>1. PICK q \in Routing : /\ routing' = (routing \ {r}) \cup {q} /\ replayed' = replayed
          /\ q.msg = r.msg /\ q.by = r.by /\ q.plan = r.plan /\ q.next = r.next + 1
          /\ (q.acted <=> r.acted \/ TRUE)
    BY <1>7, GoOnFacts DEF HandToAdk
  <2> QED
    BY <1>7, <2>1 DEF HandToAdk, At, Routing
<1>8. ASSUME NEW r \in routing, NEW a \in Agent, RefuseCommand(r, a) PROVE AdmissionTypeOK'
  <2>1. PICK q \in Routing : /\ routing' = (routing \ {r}) \cup {q} /\ replayed' = replayed
          /\ q.msg = r.msg /\ q.by = r.by /\ q.plan = r.plan /\ q.next = r.next + 1
          /\ (q.acted <=> r.acted \/ TRUE)
    BY <1>8, GoOnFacts DEF RefuseCommand, Serves
  <2> QED
    BY <1>8, <2>1 DEF RefuseCommand, Serves, At, Routing
<1>9. ASSUME NEW r \in routing, NEW a \in Agent, Deliver(r, a) PROVE AdmissionTypeOK'
  <2>1. PICK q \in Routing : /\ routing' = (routing \ {r}) \cup {q} /\ replayed' = replayed
          /\ q.msg = r.msg /\ q.by = r.by /\ q.plan = r.plan /\ q.next = r.next + 1
          /\ (q.acted <=> r.acted \/ TRUE)
    BY <1>9, GoOnFacts DEF Deliver, Serves
  <2> QED
    BY <1>9, <2>1 DEF Deliver, Serves, At, Routing
<1>10. ASSUME NEW r \in routing, NEW a \in Agent, Collide(r, a) PROVE AdmissionTypeOK'
  BY <1>10 DEF Collide, Serves, At, Finish, Routing
<1>11. ASSUME NEW q \in asking, AskGivesUp(q) PROVE AdmissionTypeOK'
  BY <1>11 DEF AskGivesUp
<1>12. ASSUME NEW q \in asking, NEW shown \in BOOLEAN, AskWrites(q, shown) PROVE AdmissionTypeOK'
  BY <1>12 DEF AskWrites, Ask, Cards
<1>13. ASSUME NEW s \in Sender, Allow(s) PROVE AdmissionTypeOK'
  <2> DEFINE m == card[s].msg
  <2>1. card[s] \in Cards /\ m \in Msg /\ card[s].agent \in Agent
    BY <1>13, AllowFacts
  <2>2. PICK q : Begins(m, card[s].agent, PlanFor(m, member'), q)
    BY <1>13, AllowFacts
  <2>3. PICK new \in SUBSET Ask :
          /\ asking' = asking \cup new
          /\ \A k \in new : k.msg = m /\ k.sender = SenderOf[m] /\ Engages(m, k.agent)
    BY <1>13, AllowFacts
  <2>4. dropped' \subseteq dropped \cup {m} /\ dropped \subseteq dropped'
    BY <1>13, AllowFacts
  <2> QED
    BY <1>13, <2>1, <2>2, <2>3, <2>4 DEF Begins, Allow
<1>14. ASSUME NEW s \in Sender, Deny(s) PROVE AdmissionTypeOK'
  BY <1>14 DEF Deny
<1>15. CASE UNCHANGED admissionVars
  BY <1>15 DEF admissionVars
<1> HIDE DEF AdmissionTypeOK
<1> QED
  BY <1>1, <1>2, <1>3, <1>4, <1>5, <1>6, <1>7, <1>8, <1>9, <1>10, <1>11, <1>12, <1>13, <1>14, <1>15 DEF AdmissionNext, RoutingStep

LEMMA AdmissionTypeInit == AdmissionInit => AdmissionTypeOK
BY AdmissionConstants DEF AdmissionInit, AdmissionTypeOK

(* Every variable of the router keeps its type.                               *)
THEOREM AdmissionTypeCorrect == AdmissionSpec => []AdmissionTypeOK
BY AdmissionTypeInit, AdmissionTypeStep, PTL DEF AdmissionSpec

-----------------------------------------------------------------------------
(* Admission: who is heard *)

MayHear(m, a) ==
  (policy = "public" /\ a \notin KnownOnly) \/ <<SenderOf[m], a>> \in member

PlansAllowed ==
  /\ \A r \in routing, a \in Agent : r.plan[a] = "engage" => MayHear(r.msg, a)
  /\ StrangersKeptOut

LEMMA PlansAllowedStep ==
  AdmissionTypeOK /\ PlansAllowed /\ [AdmissionNext]_admissionVars => PlansAllowed'
<1> SUFFICES ASSUME AdmissionTypeOK, PlansAllowed, [AdmissionNext]_admissionVars PROVE PlansAllowed'
  OBVIOUS
<1> USE DEF AdmissionTypeOK, PlansAllowed, MayHear, StrangersKeptOut
<1>1. ASSUME NEW m \in Msg, Arrive(m) PROVE PlansAllowed'
  <2>1. PICK q : Begins(m, "arrival", PlanFor(m, member), q)
    BY <1>1, ArriveFacts
  <2>2. PICK new \in SUBSET Ask :
          /\ asking' = asking \cup new
          /\ \A k \in new : k.msg = m /\ k.sender = SenderOf[m] /\ Engages(m, k.agent)
    BY <1>1, ArriveFacts
  <2>3. dropped' \subseteq dropped \cup {m} /\ dropped \subseteq dropped'
    BY <1>1, ArriveFacts
  <2> QED
    BY <1>1, <2>1, <2>2, <2>3 DEF Begins, Arrive, PlanFor, AccessOk, ScopeOk, Knows
<1>2. ASSUME NEW r \in routing, NEW class \in Class, GatePasses(r, class) PROVE PlansAllowed'
  <2>1. PICK q \in Routing : /\ routing' = (routing \ {r}) \cup {q} /\ r.next = 0 /\ q.next = 1
          /\ q.msg = r.msg /\ q.by = r.by /\ q.plan = r.plan /\ q.acted = r.acted
    BY <1>2, GateFacts
  <2> QED
    BY <1>2, <2>1 DEF GatePasses
<1>3. ASSUME NEW r \in routing, GateBlocks(r) PROVE PlansAllowed'
  BY <1>3 DEF GateBlocks, Finish
<1>4. ASSUME NEW r \in routing, RoutingEnds(r) PROVE PlansAllowed'
  BY <1>4 DEF RoutingEnds, Finish
<1>5. ASSUME NEW r \in routing, NEW a \in Agent, Ignore(r, a) PROVE PlansAllowed'
  <2>1. PICK q \in Routing : /\ routing' = (routing \ {r}) \cup {q} /\ replayed' = replayed
          /\ q.msg = r.msg /\ q.by = r.by /\ q.plan = r.plan /\ q.next = r.next + 1
          /\ (q.acted <=> r.acted \/ FALSE)
    BY <1>5, GoOnFacts DEF Ignore
  <2> QED
    BY <1>5, <2>1 DEF Ignore, At
<1>6. ASSUME NEW r \in routing, NEW a \in Agent, PassOver(r, a) PROVE PlansAllowed'
  <2>1. PICK q \in Routing : /\ routing' = (routing \ {r}) \cup {q} /\ replayed' = replayed
          /\ q.msg = r.msg /\ q.by = r.by /\ q.plan = r.plan /\ q.next = r.next + 1
          /\ (q.acted <=> r.acted \/ TRUE)
    BY <1>6, GoOnFacts DEF PassOver
  <2> QED
    BY <1>6, <2>1 DEF PassOver, At
<1>7. ASSUME NEW r \in routing, NEW a \in Agent, HandToAdk(r, a) PROVE PlansAllowed'
  <2>1. PICK q \in Routing : /\ routing' = (routing \ {r}) \cup {q} /\ replayed' = replayed
          /\ q.msg = r.msg /\ q.by = r.by /\ q.plan = r.plan /\ q.next = r.next + 1
          /\ (q.acted <=> r.acted \/ TRUE)
    BY <1>7, GoOnFacts DEF HandToAdk
  <2> QED
    BY <1>7, <2>1 DEF HandToAdk, At
<1>8. ASSUME NEW r \in routing, NEW a \in Agent, RefuseCommand(r, a) PROVE PlansAllowed'
  <2>1. PICK q \in Routing : /\ routing' = (routing \ {r}) \cup {q} /\ replayed' = replayed
          /\ q.msg = r.msg /\ q.by = r.by /\ q.plan = r.plan /\ q.next = r.next + 1
          /\ (q.acted <=> r.acted \/ TRUE)
    BY <1>8, GoOnFacts DEF RefuseCommand, Serves
  <2> QED
    BY <1>8, <2>1 DEF RefuseCommand, Serves, At
<1>9. ASSUME NEW r \in routing, NEW a \in Agent, Deliver(r, a) PROVE PlansAllowed'
  <2>1. PICK q \in Routing : /\ routing' = (routing \ {r}) \cup {q} /\ replayed' = replayed
          /\ q.msg = r.msg /\ q.by = r.by /\ q.plan = r.plan /\ q.next = r.next + 1
          /\ (q.acted <=> r.acted \/ TRUE)
    BY <1>9, GoOnFacts DEF Deliver, Serves
  <2> QED
    BY <1>9, <2>1 DEF Deliver, Serves, At
<1>10. ASSUME NEW r \in routing, NEW a \in Agent, Collide(r, a) PROVE PlansAllowed'
  BY <1>10 DEF Collide, Serves, At, Finish
<1>11. ASSUME NEW q \in asking, AskGivesUp(q) PROVE PlansAllowed'
  BY <1>11 DEF AskGivesUp
<1>12. ASSUME NEW q \in asking, NEW shown \in BOOLEAN, AskWrites(q, shown) PROVE PlansAllowed'
  BY <1>12 DEF AskWrites, Ask, Cards
<1>13. ASSUME NEW s \in Sender, Allow(s) PROVE PlansAllowed'
  <2> DEFINE m == card[s].msg
  <2>1. card[s] \in Cards /\ m \in Msg /\ card[s].agent \in Agent
    BY <1>13, AllowFacts
  <2>2. PICK q : Begins(m, card[s].agent, PlanFor(m, member'), q)
    BY <1>13, AllowFacts
  <2>3. PICK new \in SUBSET Ask :
          /\ asking' = asking \cup new
          /\ \A k \in new : k.msg = m /\ k.sender = SenderOf[m] /\ Engages(m, k.agent)
    BY <1>13, AllowFacts
  <2>4. dropped' \subseteq dropped \cup {m} /\ dropped \subseteq dropped'
    BY <1>13, AllowFacts
  <2> QED
    BY <1>13, <2>1, <2>2, <2>3, <2>4 DEF Begins, Allow, PlanFor, AccessOk, ScopeOk, Knows
<1>14. ASSUME NEW s \in Sender, Deny(s) PROVE PlansAllowed'
  BY <1>14 DEF Deny
<1>15. CASE UNCHANGED admissionVars
  BY <1>15 DEF admissionVars
<1> HIDE DEF AdmissionTypeOK, PlansAllowed, MayHear, StrangersKeptOut
<1> QED
  BY <1>1, <1>2, <1>3, <1>4, <1>5, <1>6, <1>7, <1>8, <1>9, <1>10, <1>11, <1>12, <1>13, <1>14, <1>15 DEF AdmissionNext, RoutingStep

(* Whatever routings, approvals and answers interleave, no agent is woken by a
   message of somebody it may not hear.                                      *)
THEOREM StrangersKeptOutHolds == AdmissionSpec => []StrangersKeptOut
<1>1. AdmissionInit => PlansAllowed
  BY DEF AdmissionInit, PlansAllowed, StrangersKeptOut
<1>2. PlansAllowed => StrangersKeptOut
  BY DEF PlansAllowed
<1> QED
  BY <1>1, <1>2, PlansAllowedStep, AdmissionTypeInit, AdmissionTypeStep, PTL DEF AdmissionSpec

(* What is owed to a stranger: who is asked about engaged the message, and a
   routing after an approval has not gone past the agent without serving it.  *)
Owed ==
  /\ \A k \in asking : Engages(k.msg, k.agent) /\ SenderOf[k.msg] = k.sender
  /\ \A s \in Sender : card[s] # NoCard =>
       Engages(card[s].msg, card[s].agent) /\ SenderOf[card[s].msg] = s
  /\ \A r \in routing : r.by # "arrival" =>
       /\ r.by \in Agent /\ r.plan[r.by] = "engage"
       /\ r.next <= Place(r.by) \/ Holds(r.by, r.msg) \/ <<r.msg, r.by>> \in passed
  /\ AllowedIsHeard

LEMMA EngagesStays == opened \subseteq opened' => \A m, a : Engages(m, a) => Engages(m, a)'
BY DEF Engages

(* One agent after another: whoever the plan engages is served before the
   routing goes on.                                                          *)
LEMMA OwedByTurns ==
  ASSUME AdmissionTypeOK, Owed, NEW r \in routing, NEW a \in Agent, At(r, a), NEW q \in Routing,
         routing' = (routing \ {r}) \cup {q}, q.msg = r.msg, q.by = r.by, q.plan = r.plan,
         q.next = r.next + 1, replayed' = replayed, asking' = asking, card' = card,
         blocked' = blocked, opened \subseteq opened', inbox \subseteq inbox',
         handed \subseteq handed', passed \subseteq passed',
         r.plan[a] = "engage" => <<r.msg, a>> \in inbox' \cup handed' \cup passed'
  PROVE  Owed'
<1>1. (\A k \in asking : Engages(k.msg, k.agent) /\ SenderOf[k.msg] = k.sender)'
  BY EngagesStays DEF Owed
<1>2. (\A s \in Sender : card[s] # NoCard =>
         Engages(card[s].msg, card[s].agent) /\ SenderOf[card[s].msg] = s)'
  BY EngagesStays DEF Owed
<1>3. ASSUME NEW p \in routing', p.by # "arrival"
      PROVE  /\ p.by \in Agent /\ p.plan[p.by] = "engage"
             /\ p.next <= Place(p.by) \/ Holds(p.by, p.msg)' \/ <<p.msg, p.by>> \in passed'
  <2>1. CASE p \in routing
    BY <1>3, <2>1 DEF Owed, Holds
  <2>2. CASE p = q
    <3>1. r.by \in Agent /\ r.plan[r.by] = "engage"
      BY <1>3, <2>2 DEF Owed
    <3>2. r.next \in 1..Len(Order) /\ a = Order[r.next] /\ Place(a) = r.next
      BY OrderFacts DEF At
    <3>3. Place(r.by) \in Nat
      BY <3>1, OrderFacts
    <3>4. CASE r.next <= Place(r.by) /\ r.by # a
      <4>1. Place(r.by) # r.next
        BY <3>1, <3>2, <3>4, OrderFacts
      <4>2. r.next + 1 <= Place(r.by)
        BY <3>2, <3>3, <3>4, <4>1, OrderFacts
      <4> QED
        BY <2>2, <3>1, <4>2
    <3>5. CASE r.by = a
      BY <2>2, <3>1, <3>5 DEF Holds
    <3>6. CASE Holds(r.by, r.msg) \/ <<r.msg, r.by>> \in passed
      BY <2>2, <3>1, <3>6 DEF Holds
    <3> QED
      BY <1>3, <2>2, <3>4, <3>5, <3>6 DEF Owed
  <2> QED
    BY <2>1, <2>2
<1>4. AllowedIsHeard'
  BY DEF Owed, AllowedIsHeard, Holds
<1> QED
  BY <1>1, <1>2, <1>3, <1>4, Zenon DEF Owed

LEMMA OwedStep ==
  AdmissionTypeOK /\ Owed /\ [AdmissionNext]_admissionVars => Owed'
<1> SUFFICES ASSUME AdmissionTypeOK, Owed, [AdmissionNext]_admissionVars PROVE Owed'
  OBVIOUS
<1> USE DEF AdmissionTypeOK, Owed, AllowedIsHeard, Holds, Engages
<1>1. ASSUME NEW m \in Msg, Arrive(m) PROVE Owed'
  <2>1. PICK q : Begins(m, "arrival", PlanFor(m, member), q)
    BY <1>1, ArriveFacts
  <2>2. PICK new \in SUBSET Ask :
          /\ asking' = asking \cup new
          /\ \A k \in new : k.msg = m /\ k.sender = SenderOf[m] /\ Engages(m, k.agent)
    BY <1>1, ArriveFacts
  <2>3. dropped' \subseteq dropped \cup {m} /\ dropped \subseteq dropped'
    BY <1>1, ArriveFacts
  <2>4. UNCHANGED <<card, opened, inbox, handed, passed, blocked, replayed>>
    BY <1>1 DEF Arrive
  <2> QED
    BY <2>1, <2>2, <2>4 DEF Begins
<1>2. ASSUME NEW r \in routing, NEW class \in Class, GatePasses(r, class) PROVE Owed'
  <2>1. PICK q \in Routing : /\ routing' = (routing \ {r}) \cup {q} /\ r.next = 0 /\ q.next = 1
          /\ q.msg = r.msg /\ q.by = r.by /\ q.plan = r.plan /\ q.acted = r.acted
    BY <1>2, GateFacts
  <2> QED
    <3>1. UNCHANGED <<asking, card, opened, inbox, handed, passed, blocked, replayed>>
      BY <1>2 DEF GatePasses
    <3>2. ASSUME NEW p \in routing', p.by # "arrival"
          PROVE  /\ p.by \in Agent /\ p.plan[p.by] = "engage"
                 /\ p.next <= Place(p.by) \/ Holds(p.by, p.msg)' \/ <<p.msg, p.by>> \in passed'
      BY <2>1, <3>1, <3>2, OrderFacts
    <3> QED
      BY <3>1, <3>2
<1>3. ASSUME NEW r \in routing, GateBlocks(r) PROVE Owed'
  BY <1>3, OrderFacts DEF GateBlocks, Finish, Routing
<1>4. ASSUME NEW r \in routing, RoutingEnds(r) PROVE Owed'
  <2>1. /\ UNCHANGED <<asking, card, opened, inbox, handed, passed, blocked>>
        /\ routing' \subseteq routing /\ r.next = Len(Order) + 1
        /\ replayed' = IF r.by = "arrival" THEN replayed ELSE replayed \cup {<<r.msg, r.by>>}
    BY <1>4 DEF RoutingEnds, Finish
  <2>2. r.by # "arrival" => Holds(r.by, r.msg) \/ <<r.msg, r.by>> \in passed
    <3> SUFFICES ASSUME r.by # "arrival" PROVE ~ (r.next <= Place(r.by))
      OBVIOUS
    <3>1. Place(r.by) \in 1..Len(Order)
      BY OrderFacts
    <3> QED
      BY <2>1, <3>1, OrderFacts
  <2>3. AllowedIsHeard'
    BY <2>1, <2>2
  <2> QED
    BY <2>1, <2>3
<1>5. ASSUME NEW r \in routing, NEW a \in Agent, Ignore(r, a) PROVE Owed'
  <2>1. PICK q \in Routing : /\ routing' = (routing \ {r}) \cup {q} /\ replayed' = replayed
          /\ q.msg = r.msg /\ q.by = r.by /\ q.plan = r.plan /\ q.next = r.next + 1
          /\ (q.acted <=> r.acted \/ FALSE)
    BY <1>5, GoOnFacts DEF Ignore
  <2> QED
    BY <1>5, <2>1, OwedByTurns DEF Ignore
<1>6. ASSUME NEW r \in routing, NEW a \in Agent, PassOver(r, a) PROVE Owed'
  <2>1. PICK q \in Routing : /\ routing' = (routing \ {r}) \cup {q} /\ replayed' = replayed
          /\ q.msg = r.msg /\ q.by = r.by /\ q.plan = r.plan /\ q.next = r.next + 1
          /\ (q.acted <=> r.acted \/ TRUE)
    BY <1>6, GoOnFacts DEF PassOver
  <2> QED
    BY <1>6, <2>1, OwedByTurns DEF PassOver
<1>7. ASSUME NEW r \in routing, NEW a \in Agent, HandToAdk(r, a) PROVE Owed'
  <2>1. PICK q \in Routing : /\ routing' = (routing \ {r}) \cup {q} /\ replayed' = replayed
          /\ q.msg = r.msg /\ q.by = r.by /\ q.plan = r.plan /\ q.next = r.next + 1
          /\ (q.acted <=> r.acted \/ TRUE)
    BY <1>7, GoOnFacts DEF HandToAdk
  <2> QED
    BY <1>7, <2>1, OwedByTurns DEF HandToAdk
<1>8. ASSUME NEW r \in routing, NEW a \in Agent, RefuseCommand(r, a) PROVE Owed'
  <2>1. PICK q \in Routing : /\ routing' = (routing \ {r}) \cup {q} /\ replayed' = replayed
          /\ q.msg = r.msg /\ q.by = r.by /\ q.plan = r.plan /\ q.next = r.next + 1
          /\ (q.acted <=> r.acted \/ TRUE)
    BY <1>8, GoOnFacts DEF RefuseCommand, Serves
  <2> QED
    BY <1>8, <2>1, OwedByTurns DEF RefuseCommand, Serves
<1>9. ASSUME NEW r \in routing, NEW a \in Agent, Deliver(r, a) PROVE Owed'
  <2>1. PICK q \in Routing : /\ routing' = (routing \ {r}) \cup {q} /\ replayed' = replayed
          /\ q.msg = r.msg /\ q.by = r.by /\ q.plan = r.plan /\ q.next = r.next + 1
          /\ (q.acted <=> r.acted \/ TRUE)
    BY <1>9, GoOnFacts DEF Deliver, Serves
  <2> QED
    BY <1>9, <2>1, OwedByTurns DEF Deliver, Serves
<1>10. ASSUME NEW r \in routing, NEW a \in Agent, Collide(r, a) PROVE Owed'
  BY <1>10, OrderFacts DEF Collide, Serves, At, Finish, Routing
<1>11. ASSUME NEW q \in asking, AskGivesUp(q) PROVE Owed'
  BY <1>11 DEF AskGivesUp
<1>12. ASSUME NEW q \in asking, NEW shown \in BOOLEAN, AskWrites(q, shown) PROVE Owed'
  BY <1>12 DEF AskWrites
<1>13. ASSUME NEW s \in Sender, Allow(s) PROVE Owed'
  <2> DEFINE m == card[s].msg
  <2>1. card[s] \in Cards /\ m \in Msg /\ card[s].agent \in Agent
    BY <1>13, AllowFacts
  <2>2. PICK q : Begins(m, card[s].agent, PlanFor(m, member'), q)
    BY <1>13, AllowFacts
  <2>3. PICK new \in SUBSET Ask :
          /\ asking' = asking \cup new
          /\ \A k \in new : k.msg = m /\ k.sender = SenderOf[m] /\ Engages(m, k.agent)
    BY <1>13, AllowFacts
  <2>4. dropped' \subseteq dropped \cup {m} /\ dropped \subseteq dropped'
    BY <1>13, AllowFacts
  <2>5. /\ UNCHANGED <<policy, opened, inbox, handed, passed, blocked, replayed>>
        /\ card' = [card EXCEPT ![s] = NoCard] /\ <<s, card[s].agent>> \in member'
    BY <1>13 DEF Allow
  <2>6. Engages(m, card[s].agent) /\ SenderOf[m] = s
    BY <1>13 DEF Allow
  <2>7. PlanFor(m, member')[card[s].agent] = "engage"
    BY <2>1, <2>5, <2>6 DEF PlanFor, AccessOk, ScopeOk, Knows
  <2>8. Place(card[s].agent) \in 1..Len(Order)
    BY <2>1, OrderFacts
  <2>9. q.next <= Place(card[s].agent)
    BY <2>2, <2>8, OrderFacts DEF Begins
  <2>10. ASSUME NEW p \in routing', p.by # "arrival"
         PROVE  /\ p.by \in Agent /\ p.plan[p.by] = "engage"
                /\ p.next <= Place(p.by) \/ Holds(p.by, p.msg)' \/ <<p.msg, p.by>> \in passed'
    BY <2>1, <2>2, <2>5, <2>7, <2>9, <2>10 DEF Begins
  <2>11. (\A d \in Sender : card[d] # NoCard =>
            Engages(card[d].msg, card[d].agent) /\ SenderOf[card[d].msg] = d)'
    BY <2>5
  <2> QED
    BY <2>3, <2>5, <2>10, <2>11
<1>14. ASSUME NEW s \in Sender, Deny(s) PROVE Owed'
  BY <1>14 DEF Deny
<1>15. CASE UNCHANGED admissionVars
  BY <1>15 DEF admissionVars
<1> HIDE DEF AdmissionTypeOK, Owed, AllowedIsHeard, Holds, Engages
<1> QED
  BY <1>1, <1>2, <1>3, <1>4, <1>5, <1>6, <1>7, <1>8, <1>9, <1>10, <1>11, <1>12, <1>13, <1>14, <1>15 DEF AdmissionNext, RoutingStep

(* The message of an allowed stranger reaches the agent it was allowed for, but
   for the exceptions AllowedIsHeard names.                                   *)
THEOREM AllowedIsHeardHolds == AdmissionSpec => []AllowedIsHeard
<1>1. AdmissionInit => Owed
  BY DEF AdmissionInit, Owed, AllowedIsHeard
<1>2. Owed => AllowedIsHeard
  BY DEF Owed
<1> QED
  BY <1>1, <1>2, OwedStep, AdmissionTypeInit, AdmissionTypeStep, PTL DEF AdmissionSpec

-----------------------------------------------------------------------------
(* Admission: nothing vanishes *)

Traced(m) ==
  m \in dropped \cup blocked \/ \E a \in Agent : Holds(a, m) \/ <<m, a>> \in passed

Tracing ==
  /\ \A r \in routing : r.acted => \E a \in Agent : Holds(a, r.msg) \/ <<r.msg, a>> \in passed
  /\ \A m \in arrived : (\E r \in routing : r.msg = m) \/ Traced(m)

LEMMA TracingStep ==
  AdmissionTypeOK /\ Tracing /\ [AdmissionNext]_admissionVars => Tracing'
<1> SUFFICES ASSUME AdmissionTypeOK, Tracing, [AdmissionNext]_admissionVars PROVE Tracing'
  OBVIOUS
<1> USE DEF AdmissionTypeOK, Tracing, Traced, Holds
<1>1. ASSUME NEW m \in Msg, Arrive(m) PROVE Tracing'
  <2>1. PICK q : Begins(m, "arrival", PlanFor(m, member), q)
    BY <1>1, ArriveFacts
  <2>2. PICK new \in SUBSET Ask :
          /\ asking' = asking \cup new
          /\ \A k \in new : k.msg = m /\ k.sender = SenderOf[m] /\ Engages(m, k.agent)
    BY <1>1, ArriveFacts
  <2>3. dropped' \subseteq dropped \cup {m} /\ dropped \subseteq dropped'
    BY <1>1, ArriveFacts
  <2> QED
    BY <1>1, <2>1, <2>2, <2>3 DEF Begins, Arrive
<1>2. ASSUME NEW r \in routing, NEW class \in Class, GatePasses(r, class) PROVE Tracing'
  <2>1. PICK q \in Routing : /\ routing' = (routing \ {r}) \cup {q} /\ r.next = 0 /\ q.next = 1
          /\ q.msg = r.msg /\ q.by = r.by /\ q.plan = r.plan /\ q.acted = r.acted
    BY <1>2, GateFacts
  <2> QED
    BY <1>2, <2>1 DEF GatePasses
<1>3. ASSUME NEW r \in routing, GateBlocks(r) PROVE Tracing'
  BY <1>3 DEF GateBlocks, Finish, Routing
<1>4. ASSUME NEW r \in routing, RoutingEnds(r) PROVE Tracing'
  BY <1>4 DEF RoutingEnds, Finish, Routing
<1>5. ASSUME NEW r \in routing, NEW a \in Agent, Ignore(r, a) PROVE Tracing'
  <2>1. PICK q \in Routing : /\ routing' = (routing \ {r}) \cup {q} /\ replayed' = replayed
          /\ q.msg = r.msg /\ q.by = r.by /\ q.plan = r.plan /\ q.next = r.next + 1
          /\ (q.acted <=> r.acted \/ FALSE)
    BY <1>5, GoOnFacts DEF Ignore
  <2> QED
    BY <1>5, <2>1 DEF Ignore, At, Routing
<1>6. ASSUME NEW r \in routing, NEW a \in Agent, PassOver(r, a) PROVE Tracing'
  <2>1. PICK q \in Routing : /\ routing' = (routing \ {r}) \cup {q} /\ replayed' = replayed
          /\ q.msg = r.msg /\ q.by = r.by /\ q.plan = r.plan /\ q.next = r.next + 1
          /\ (q.acted <=> r.acted \/ TRUE)
    BY <1>6, GoOnFacts DEF PassOver
  <2> QED
    BY <1>6, <2>1 DEF PassOver, At, Routing
<1>7. ASSUME NEW r \in routing, NEW a \in Agent, HandToAdk(r, a) PROVE Tracing'
  <2>1. PICK q \in Routing : /\ routing' = (routing \ {r}) \cup {q} /\ replayed' = replayed
          /\ q.msg = r.msg /\ q.by = r.by /\ q.plan = r.plan /\ q.next = r.next + 1
          /\ (q.acted <=> r.acted \/ TRUE)
    BY <1>7, GoOnFacts DEF HandToAdk
  <2> QED
    BY <1>7, <2>1 DEF HandToAdk, At, Routing
<1>8. ASSUME NEW r \in routing, NEW a \in Agent, RefuseCommand(r, a) PROVE Tracing'
  <2>1. PICK q \in Routing : /\ routing' = (routing \ {r}) \cup {q} /\ replayed' = replayed
          /\ q.msg = r.msg /\ q.by = r.by /\ q.plan = r.plan /\ q.next = r.next + 1
          /\ (q.acted <=> r.acted \/ TRUE)
    BY <1>8, GoOnFacts DEF RefuseCommand, Serves
  <2> QED
    BY <1>8, <2>1 DEF RefuseCommand, Serves, At, Routing
<1>9. ASSUME NEW r \in routing, NEW a \in Agent, Deliver(r, a) PROVE Tracing'
  <2>1. PICK q \in Routing : /\ routing' = (routing \ {r}) \cup {q} /\ replayed' = replayed
          /\ q.msg = r.msg /\ q.by = r.by /\ q.plan = r.plan /\ q.next = r.next + 1
          /\ (q.acted <=> r.acted \/ TRUE)
    BY <1>9, GoOnFacts DEF Deliver, Serves
  <2> QED
    BY <1>9, <2>1 DEF Deliver, Serves, At, Routing
<1>10. ASSUME NEW r \in routing, NEW a \in Agent, Collide(r, a) PROVE Tracing'
  BY <1>10 DEF Collide, Serves, At, Finish, Routing
<1>11. ASSUME NEW q \in asking, AskGivesUp(q) PROVE Tracing'
  BY <1>11 DEF AskGivesUp
<1>12. ASSUME NEW q \in asking, NEW shown \in BOOLEAN, AskWrites(q, shown) PROVE Tracing'
  BY <1>12 DEF AskWrites
<1>13. ASSUME NEW s \in Sender, Allow(s) PROVE Tracing'
  <2> DEFINE m == card[s].msg
  <2>1. card[s] \in Cards /\ m \in Msg /\ card[s].agent \in Agent
    BY <1>13, AllowFacts
  <2>2. PICK q : Begins(m, card[s].agent, PlanFor(m, member'), q)
    BY <1>13, AllowFacts
  <2>3. PICK new \in SUBSET Ask :
          /\ asking' = asking \cup new
          /\ \A k \in new : k.msg = m /\ k.sender = SenderOf[m] /\ Engages(m, k.agent)
    BY <1>13, AllowFacts
  <2>4. dropped' \subseteq dropped \cup {m} /\ dropped \subseteq dropped'
    BY <1>13, AllowFacts
  <2> QED
    BY <1>13, <2>1, <2>2, <2>3, <2>4 DEF Begins, Allow
<1>14. ASSUME NEW s \in Sender, Deny(s) PROVE Tracing'
  BY <1>14 DEF Deny
<1>15. CASE UNCHANGED admissionVars
  BY <1>15 DEF admissionVars
<1> HIDE DEF AdmissionTypeOK, Tracing, Traced, Holds
<1> QED
  BY <1>1, <1>2, <1>3, <1>4, <1>5, <1>6, <1>7, <1>8, <1>9, <1>10, <1>11, <1>12, <1>13, <1>14, <1>15 DEF AdmissionNext, RoutingStep

(* A message whose routing is over has left a trace: with an agent, in
   dropped_messages, at the content gate, or with an agent served in name only. *)
THEOREM AccountedHolds == AdmissionSpec => []Accounted
<1>1. AdmissionInit => Tracing
  BY DEF AdmissionInit, Tracing
<1>2. Tracing => Accounted
  BY DEF Tracing, Traced, Accounted, Routed
<1> QED
  BY <1>1, <1>2, TracingStep, AdmissionTypeInit, AdmissionTypeStep, PTL DEF AdmissionSpec

-----------------------------------------------------------------------------
(* Registration: types *)

LEMMA OptionFacts ==
  /\ Len(Groups) \in Nat /\ \A i \in 1..Len(Groups) : Groups[i] \in Group
  /\ {"new", "choose", "reject", "none"} \cap Group = {}
  /\ \A i \in 1..Len(First) : First[i] \in Choice
  /\ \A i \in 1..Len(First) : First[i] = "choose" => Len(Groups) >= 2
  /\ \A i \in 1..Len(First) : First[i] = "new" /\ Len(Groups) >= 2 => i = 2
  /\ Len(Second) = Len(Groups) + 1 /\ \A i \in 1..Len(Groups) : Second[i] = Groups[i]
  /\ Second[Len(Groups) + 1] = "reject"
<1>1. Len(Groups) \in Nat /\ \A i \in 1..Len(Groups) : Groups[i] \in Group
  BY RegistrationConstants DEF Group
<1>2. {"new", "choose", "reject", "none"} \cap Group = {}
  BY RegistrationConstants
<1>3. /\ Len(Second) = Len(Groups) + 1 /\ \A i \in 1..Len(Groups) : Second[i] = Groups[i]
      /\ Second[Len(Groups) + 1] = "reject"
  BY <1>1, RegistrationConstants DEF Second
<1>4. CASE Len(Groups) = 0
  <2>1. First = << >> \o <<"new", "reject">>
    BY <1>4 DEF First
  <2>2. Len(First) = 2 /\ First[1] = "new" /\ First[2] = "reject"
    BY <2>1
  <2> QED
    BY <1>1, <1>2, <1>3, <1>4, <2>2 DEF Choice
<1>5. CASE Len(Groups) = 1
  <2>1. First = Groups \o <<"new", "reject">>
    BY <1>5 DEF First
  <2>2. Len(First) = 3 /\ First[1] = Groups[1] /\ First[2] = "new" /\ First[3] = "reject"
    <3>1. Groups \in Seq(Group) /\ <<"new", "reject">> \in Seq({"new", "reject"})
      BY RegistrationConstants
    <3>2. Len(First) = Len(Groups) + 2
      BY <2>1, <3>1
    <3> QED
      BY <1>5, <2>1, <3>1, <3>2
  <2> QED
    BY <1>1, <1>2, <1>3, <1>5, <2>2 DEF Choice
<1>6. CASE Len(Groups) >= 2
  <2>0. ~ (Len(Groups) = 0) /\ ~ (Len(Groups) = 1)
    BY <1>1, <1>6
  <2>1. First = <<"choose">> \o <<"new", "reject">>
    BY <2>0, Zenon DEF First
  <2>2. Len(First) = 3 /\ First[1] = "choose" /\ First[2] = "new" /\ First[3] = "reject"
    BY <2>1
  <2> QED
    BY <1>1, <1>2, <1>3, <1>6, <2>2 DEF Choice
<1>7. Len(Groups) = 0 \/ Len(Groups) = 1 \/ Len(Groups) >= 2
  BY <1>1
<1> QED
  BY <1>4, <1>5, <1>6, <1>7, Zenon

LEMMA LookupTyped ==
  /\ \A face \in {"first", "second"}, i \in 1..Len(Groups) + 2 :
       i \in 1..Len(Options(face)) => Options(face)[i] \in Choice
  /\ \A g \in Chan, i \in 1..Len(Groups) + 2 : Lookup(g, i) \in Choice \cup {"none"}
<1>1. \A i \in 1..Len(Second) : Second[i] \in Choice
  BY OptionFacts DEF Choice
<1>2. Len(First) \in Nat /\ Len(Second) \in Nat
  BY OptionFacts, RegistrationConstants DEF First
<1>3. \A face \in {"first", "second"}, i \in 1..Len(Groups) + 2 :
        i <= Len(Options(face)) => Options(face)[i] \in Choice
  BY <1>1, <1>2, OptionFacts DEF Options
<1> QED
  BY <1>3, <1>2, OptionFacts DEF Lookup, Options

LEMMA RegistrationTypeStep ==
  RegistrationTypeOK /\ [RegistrationNext]_registrationVars => RegistrationTypeOK'
<1> SUFFICES ASSUME RegistrationTypeOK, [RegistrationNext]_registrationVars PROVE RegistrationTypeOK'
  OBVIOUS
<1> USE DEF RegistrationTypeOK
<1>1. ASSUME NEW g \in Chan, MentionIn(g) \/ AskStops(g) PROVE RegistrationTypeOK'
  <2>1. ASSUME NEW f \in [Chan -> 0..MaxMentions], f[g] < MaxMentions
        PROVE  [f EXCEPT ![g] = @ + 1] \in [Chan -> 0..MaxMentions]
    <3>1. f[g] \in 0..MaxMentions /\ f[g] + 1 \in 0..MaxMentions
      BY <2>1, RegistrationConstants
    <3> QED
      BY <3>1
  <2>2. CASE MentionIn(g)
    <3>1. mentions' \in [Chan -> 0..MaxMentions]
      <4>1. mentions[g] < MaxMentions /\ mentions' = [mentions EXCEPT ![g] = @ + 1]
        BY <2>2 DEF MentionIn
      <4> QED
        BY <2>1, <4>1
    <3>2. asks' \in [Chan -> Nat]
      BY <2>2 DEF MentionIn
    <3> QED
      BY <2>2, <3>1, <3>2 DEF MentionIn
  <2>3. CASE AskStops(g)
    BY <2>3 DEF AskStops
  <2> QED
    BY <1>1, <2>2, <2>3
<1>2. ASSUME NEW g \in Chan, NEW sent \in BOOLEAN, AskStores(g, sent) PROVE RegistrationTypeOK'
  <2>1. asks' \in [Chan -> Nat]
    BY <1>2 DEF AskStores
  <2>2. rows' \in [Chan -> Nat]
    BY <1>2 DEF AskStores
  <2>3. menu' \in [Chan -> {"none", "first", "second"}] /\ faces' \subseteq Chan \X {"first", "second"}
    BY <1>2 DEF AskStores
  <2> QED
    BY <1>2, <2>1, <2>2, <2>3 DEF AskStores
<1>3. ASSUME NEW g \in Chan, NEW sent \in BOOLEAN, ChoiceSent(g, sent) PROVE RegistrationTypeOK'
  BY <1>3 DEF ChoiceSent
<1>4. ASSUME NEW g \in Chan, NEW sent \in BOOLEAN, PromptEnds(g, sent) PROVE RegistrationTypeOK'
  BY <1>4 DEF PromptEnds
<1>5. ASSUME NEW g \in Chan, NEW face \in {"first", "second"}, NEW i \in 1..Len(Groups) + 2, Tap(g, face, i) PROVE RegistrationTypeOK'
  <2>1. Options(face)[i] \in Choice /\ Lookup(g, i) \in Choice \cup {"none"}
    <3>1. i \in 1..Len(Options(face))
      BY <1>5 DEF Tap
    <3> QED
      BY <3>1, LookupTyped
  <2>2. taken' \in 0..MaxPressed
    BY <1>5, RegistrationConstants DEF Tap
  <2>3. meant' \subseteq Chan \X Choice /\ taps' \subseteq Chan \X (Choice \cup {"none"})
    BY <1>5, <2>1 DEF Tap
  <2> QED
    BY <1>5, <2>2, <2>3 DEF Tap
<1>6. ASSUME NEW g \in Chan, NEW choice \in Choice \cup {"none"}, TapIgnored(g, choice) PROVE RegistrationTypeOK'
  BY <1>6 DEF TapIgnored, Lands
<1>7. ASSUME NEW g \in Chan, NEW a \in Group, Connect(g, a) PROVE RegistrationTypeOK'
  <2>1. decided' \in [Chan -> Nat]
    BY <1>7 DEF Connect, Decide
  <2>2. wired' \in [Chan -> SUBSET (Group \cup {"new"})]
    BY <1>7 DEF Connect
  <2>3. menu' \in [Chan -> {"none", "first", "second"}]
    BY <1>7 DEF Connect, Decide
  <2> QED
    BY <1>7, <2>1, <2>2, <2>3 DEF Connect, Lands
<1>8. ASSUME NEW g \in Chan, Reject(g) PROVE RegistrationTypeOK'
  <2>1. decided' \in [Chan -> Nat]
    BY <1>8 DEF Reject, Decide
  <2> QED
    BY <1>8, <2>1 DEF Reject, Lands, Decide
<1>9. ASSUME NEW g \in Chan, ChooseExisting(g) \/ ChoiceStops(g) PROVE RegistrationTypeOK'
  BY <1>9 DEF ChooseExisting, ChoiceStops, Lands
<1>10. ASSUME NEW g \in Chan, NewAgent(g) \/ Prompt(g) \/ PromptStops(g) PROVE RegistrationTypeOK'
  BY <1>10 DEF NewAgent, Prompt, PromptStops, Lands
<1>11. ASSUME NEW text \in BOOLEAN, NameReply(text) PROVE RegistrationTypeOK'
  <2>1. naming \in Chan
    BY <1>11 DEF NameReply
  <2>2. decided' \in [Chan -> Nat]
    BY <1>11, <2>1 DEF NameReply, Decide
  <2>3. wired' \in [Chan -> SUBSET (Group \cup {"new"})]
    BY <1>11, <2>1 DEF NameReply
  <2>4. menu' \in [Chan -> {"none", "first", "second"}]
    BY <1>11, <2>1 DEF NameReply, Decide
  <2> QED
    BY <1>11, <2>2, <2>3, <2>4 DEF NameReply
<1>12. CASE Restart
  <2>1. stops' \in 0..MaxStops
    BY <1>12, RegistrationConstants DEF Restart
  <2> QED
    BY <1>12, <2>1 DEF Restart
<1>13. CASE UNCHANGED registrationVars
  BY <1>13 DEF registrationVars
<1> HIDE DEF RegistrationTypeOK
<1> QED
  BY <1>1, <1>2, <1>3, <1>4, <1>5, <1>6, <1>7, <1>8, <1>9, <1>10, <1>11, <1>12, <1>13 DEF RegistrationNext

LEMMA RegistrationTypeInit == RegistrationInit => RegistrationTypeOK
BY RegistrationConstants DEF RegistrationInit, RegistrationTypeOK

(* Every variable of the registration keeps its type.                          *)
THEOREM RegistrationTypeCorrect == RegistrationSpec => []RegistrationTypeOK
BY RegistrationTypeInit, RegistrationTypeStep, PTL DEF RegistrationSpec

-----------------------------------------------------------------------------
(* Registration: one decision per row *)

Once ==
  \A g \in Chan :
    /\ decided[g] + (IF menu[g] = "none" THEN 0 ELSE 1) = rows[g]
    /\ IsFiniteSet(wired[g])
    /\ Cardinality(wired[g]) + (IF g \in denied THEN 1 ELSE 0) <= decided[g]

LEMMA AddOne ==
  ASSUME NEW S, NEW x, IsFiniteSet(S)
  PROVE  /\ IsFiniteSet(S \cup {x}) /\ Cardinality(S) \in Nat /\ Cardinality(S \cup {x}) \in Nat
         /\ Cardinality(S \cup {x}) <= Cardinality(S) + 1
<1>1. IsFiniteSet(S \cup {x})
  BY FS_AddElement
<1>2. Cardinality(S) \in Nat /\ Cardinality(S \cup {x}) \in Nat
  BY <1>1, FS_CardinalityType
<1>3. CASE x \in S
  <2>1. S \cup {x} = S
    BY <1>3
  <2>2. Cardinality(S \cup {x}) = Cardinality(S)
    BY <2>1, Zenon
  <2> QED
    BY <1>1, <1>2, <2>2
<1>4. CASE x \notin S
  <2>1. Cardinality(S \cup {x}) = Cardinality(S) + 1
    BY <1>4, FS_AddElement
  <2> QED
    BY <1>1, <1>2, <2>1
<1> QED
  BY <1>3, <1>4

LEMMA DecideKeepsOnce ==
  ASSUME RegistrationTypeOK, Once, NEW g \in Chan, menu[g] # "none",
         menu' = [menu EXCEPT ![g] = "none"], decided' = [decided EXCEPT ![g] = @ + 1],
         rows' = rows, NEW x,
         \/ wired' = [wired EXCEPT ![g] = @ \cup {x}] /\ denied' = denied
         \/ wired' = wired /\ denied' = denied \cup {g}
  PROVE  Once'
<1> USE DEF RegistrationTypeOK
<1>1. ASSUME NEW h \in Chan, h # g
      PROVE  /\ decided'[h] = decided[h] /\ menu'[h] = menu[h] /\ wired'[h] = wired[h]
             /\ h \in denied' <=> h \in denied
  BY <1>1
<1>2. decided'[g] = decided[g] + 1 /\ menu'[g] = "none" /\ decided[g] \in Nat /\ rows[g] \in Nat
  OBVIOUS
<1>3. decided'[g] = rows[g]
  BY <1>2 DEF Once
<1>4. IsFiniteSet(wired[g]) /\ Cardinality(wired[g]) \in Nat
  BY AddOne DEF Once
<1>5. IsFiniteSet(wired'[g])
      /\ Cardinality(wired'[g]) + (IF g \in denied' THEN 1 ELSE 0) <= decided'[g]
  <2>1. CASE wired' = [wired EXCEPT ![g] = @ \cup {x}] /\ denied' = denied
    <3>1. wired'[g] = wired[g] \cup {x}
      BY <2>1
    <3>2. IsFiniteSet(wired'[g]) /\ Cardinality(wired'[g]) \in Nat
          /\ Cardinality(wired'[g]) <= Cardinality(wired[g]) + 1
      <4>1. IsFiniteSet(wired[g] \cup {x}) /\ Cardinality(wired[g] \cup {x}) \in Nat
            /\ Cardinality(wired[g] \cup {x}) <= Cardinality(wired[g]) + 1
        BY <1>4, AddOne
      <4> QED
        BY <3>1, <4>1, Zenon
    <3>3. Cardinality(wired[g]) + (IF g \in denied THEN 1 ELSE 0) <= decided[g]
      BY DEF Once
    <3> QED
      BY <1>2, <1>4, <2>1, <3>2, <3>3
  <2>2. CASE wired' = wired /\ denied' = denied \cup {g}
    <3>1. Cardinality(wired[g]) <= decided[g]
      BY <1>2, <1>4 DEF Once
    <3> QED
      BY <1>2, <1>4, <2>2, <3>1
  <2> QED
    BY <2>1, <2>2
<1>6. ASSUME NEW h \in Chan
      PROVE  /\ decided'[h] + (IF menu'[h] = "none" THEN 0 ELSE 1) = rows'[h]
             /\ IsFiniteSet(wired'[h])
             /\ Cardinality(wired'[h]) + (IF h \in denied' THEN 1 ELSE 0) <= decided'[h]
  <2>1. CASE h = g
    BY <1>2, <1>3, <1>5, <2>1
  <2>2. CASE h # g
    BY <1>1, <2>2 DEF Once
  <2> QED
    BY <2>1, <2>2
<1> QED
  BY <1>6 DEF Once

LEMMA OnceStep ==
  RegistrationTypeOK /\ Once /\ [RegistrationNext]_registrationVars => Once'
<1> SUFFICES ASSUME RegistrationTypeOK, Once, [RegistrationNext]_registrationVars PROVE Once'
  OBVIOUS
<1> USE DEF RegistrationTypeOK
<1>1. ASSUME NEW g \in Chan, MentionIn(g) \/ AskStops(g) PROVE Once'
  BY <1>1 DEF MentionIn, AskStops, Once
<1>2. ASSUME NEW g \in Chan, NEW sent \in BOOLEAN, AskStores(g, sent) PROVE Once'
  <2>1. /\ menu[g] = "none" /\ menu' = [menu EXCEPT ![g] = "first"]
        /\ rows' = [rows EXCEPT ![g] = @ + 1] /\ UNCHANGED <<wired, denied, decided>>
    BY <1>2 DEF AskStores
  <2>2. rows[g] \in Nat /\ decided[g] \in Nat
    OBVIOUS
  <2> QED
    BY <2>1, <2>2 DEF Once
<1>3. ASSUME NEW g \in Chan, NEW sent \in BOOLEAN, ChoiceSent(g, sent) PROVE Once'
  <2>1. /\ menu' = [menu EXCEPT ![g] = IF menu[g] = "none" THEN "none" ELSE "second"]
        /\ UNCHANGED <<wired, denied, decided, rows>>
    BY <1>3 DEF ChoiceSent
  <2>2. \A h \in Chan : menu'[h] = "none" <=> menu[h] = "none"
    BY <2>1
  <2> QED
    BY <2>1, <2>2 DEF Once
<1>4. ASSUME NEW g \in Chan, NEW sent \in BOOLEAN, PromptEnds(g, sent) PROVE Once'
  BY <1>4 DEF PromptEnds, Once
<1>5. ASSUME NEW g \in Chan, NEW face \in {"first", "second"}, NEW i \in 1..Len(Groups) + 2, Tap(g, face, i) PROVE Once'
  BY <1>5 DEF Tap, Once
<1>6. ASSUME NEW g \in Chan, NEW choice \in Choice \cup {"none"}, TapIgnored(g, choice) PROVE Once'
  BY <1>6 DEF TapIgnored, Once
<1>7. ASSUME NEW g \in Chan, NEW a \in Group, Connect(g, a) PROVE Once'
  <2>1. CASE a \in wired[g]
    BY <1>7, <2>1 DEF Connect, Once
  <2>2. CASE a \notin wired[g]
    BY <1>7, <2>2, DecideKeepsOnce DEF Connect, Decide
  <2> QED
    BY <2>1, <2>2
<1>8. ASSUME NEW g \in Chan, Reject(g) PROVE Once'
  BY <1>8, DecideKeepsOnce DEF Reject, Decide
<1>9. ASSUME NEW g \in Chan, ChooseExisting(g) \/ ChoiceStops(g) PROVE Once'
  BY <1>9 DEF ChooseExisting, ChoiceStops, Once
<1>10. ASSUME NEW g \in Chan, NewAgent(g) \/ Prompt(g) \/ PromptStops(g) PROVE Once'
  BY <1>10 DEF NewAgent, Prompt, PromptStops, Once
<1>11. ASSUME NEW text \in BOOLEAN, NameReply(text) PROVE Once'
  <2>1. naming \in Chan
    BY <1>11 DEF NameReply
  <2>2. CASE text /\ menu[naming] # "none"
    BY <1>11, <2>1, <2>2, DecideKeepsOnce DEF NameReply, Decide
  <2>3. CASE ~ (text /\ menu[naming] # "none")
    BY <1>11, <2>3 DEF NameReply, Once
  <2> QED
    BY <2>2, <2>3
<1>12. CASE Restart
  BY <1>12 DEF Restart, Once
<1>13. CASE UNCHANGED registrationVars
  BY <1>13 DEF registrationVars, Once
<1> HIDE DEF RegistrationTypeOK
<1> QED
  BY <1>1, <1>2, <1>3, <1>4, <1>5, <1>6, <1>7, <1>8, <1>9, <1>10, <1>11, <1>12, <1>13 DEF RegistrationNext

(* A row lets one decision through, and every wiring and refusal has its own.   *)
THEOREM DecidedOnceHolds == RegistrationSpec => []DecidedOnce
<1>1. RegistrationInit => Once
  BY FS_EmptySet DEF RegistrationInit, Once
<1>2. Once => DecidedOnce
  BY DEF Once, DecidedOnce
<1> QED
  BY <1>1, <1>2, OnceStep, RegistrationTypeInit, RegistrationTypeStep, PTL DEF RegistrationSpec

-----------------------------------------------------------------------------
(* Registration: a name goes where it was asked for *)

Asked(g) ==
  <<g, "new">> \in meant \/ (rows[g] > 1 /\ \E a \in Group : <<g, a>> \in meant)

Naming ==
  \A g \in Chan :
    /\ menu[g] # "none" => rows[g] >= 1
    /\ g \in choosing \/ <<g, "second">> \in faces => rows[g] >= 1 /\ Len(Groups) >= 2
    /\ <<g, "second">> \in faces /\ menu[g] = "first" => rows[g] > 1
    /\ <<g, "choose">> \in taps => Len(Groups) >= 2
    /\ <<g, "new">> \in taps \/ g \in prompting \/ naming = g \/ "new" \in wired[g] => Asked(g)

LEMMA NamingStep ==
  RegistrationTypeOK /\ Naming /\ [RegistrationNext]_registrationVars => Naming'
<1> SUFFICES ASSUME RegistrationTypeOK, Naming, [RegistrationNext]_registrationVars PROVE Naming'
  OBVIOUS
<1> USE DEF RegistrationTypeOK, Naming, Asked
<1>1. ASSUME NEW g \in Chan, MentionIn(g) \/ AskStops(g) PROVE Naming'
  BY <1>1 DEF MentionIn, AskStops
<1>2. ASSUME NEW g \in Chan, NEW sent \in BOOLEAN, AskStores(g, sent) PROVE Naming'
  <2>0. rows' = [rows EXCEPT ![g] = @ + 1] /\ menu' = [menu EXCEPT ![g] = "first"] /\ menu[g] = "none"
    BY <1>2 DEF AskStores
  <2>1. \A h \in Chan : rows[h] \in Nat /\ rows'[h] \in Nat /\ rows'[h] >= rows[h]
    BY <2>0
  <2>2. rows'[g] = rows[g] + 1 /\ menu'[g] = "first" /\ \A h \in Chan \ {g} : menu'[h] = menu[h]
    BY <2>0
  <2>3. \A h \in Chan : <<h, "second">> \in faces' => <<h, "second">> \in faces
    BY <1>2 DEF AskStores
  <2>4. UNCHANGED <<meant, taps, choosing, prompting, naming, wired>>
    BY <1>2 DEF AskStores
  <2>5. \A h \in Chan : Asked(h) => Asked(h)'
    <3> SUFFICES ASSUME NEW h \in Chan, Asked(h) PROVE Asked(h)'
      OBVIOUS
    <3>1. rows'[h] >= rows[h] /\ rows[h] \in Nat /\ rows'[h] \in Nat /\ meant' = meant
      BY <2>1, <2>4
    <3> HIDE DEF Naming, RegistrationTypeOK
    <3>2. CASE <<h, "new">> \in meant
      BY <3>1, <3>2
    <3>3. CASE rows[h] > 1 /\ \E a \in Group : <<h, a>> \in meant
      <4>1. rows'[h] > 1
        BY <3>1, <3>3
      <4> QED
        BY <3>1, <3>3, <4>1
    <3> QED
      BY <3>2, <3>3 DEF Asked
  <2>6. ASSUME NEW h \in Chan
        PROVE  /\ menu'[h] # "none" => rows'[h] >= 1
               /\ h \in choosing' \/ <<h, "second">> \in faces' => rows'[h] >= 1 /\ Len(Groups) >= 2
               /\ <<h, "second">> \in faces' /\ menu'[h] = "first" => rows'[h] > 1
    <3>0. /\ menu[h] # "none" => rows[h] >= 1
          /\ h \in choosing \/ <<h, "second">> \in faces => rows[h] >= 1 /\ Len(Groups) >= 2
          /\ <<h, "second">> \in faces /\ menu[h] = "first" => rows[h] > 1
          /\ rows[h] \in Nat /\ rows'[h] \in Nat /\ rows'[h] >= rows[h]
          /\ (<<h, "second">> \in faces' => <<h, "second">> \in faces) /\ choosing' = choosing
      BY <2>1, <2>3, <2>4
    <3> HIDE DEF Naming, RegistrationTypeOK
    <3>1. CASE h = g
      BY <2>2, <3>0, <3>1
    <3>2. CASE h # g
      BY <2>2, <3>0, <3>2
    <3> QED
      BY <3>1, <3>2
  <2> QED
    BY <2>4, <2>5, <2>6
<1>3. ASSUME NEW g \in Chan, NEW sent \in BOOLEAN, ChoiceSent(g, sent) PROVE Naming'
  BY <1>3 DEF ChoiceSent
<1>4. ASSUME NEW g \in Chan, NEW sent \in BOOLEAN, PromptEnds(g, sent) PROVE Naming'
  BY <1>4, RegistrationConstants DEF PromptEnds
<1>5. ASSUME NEW g \in Chan, NEW face \in {"first", "second"}, NEW i \in 1..Len(Groups) + 2, Tap(g, face, i) PROVE Naming'
  <2>1. /\ UNCHANGED <<menu, rows, choosing, faces, prompting, naming, wired>>
        /\ taps' = taps \cup {<<g, Lookup(g, i)>>} /\ meant' = meant \cup {<<g, Options(face)[i]>>}
        /\ <<g, face>> \in faces
    BY <1>5 DEF Tap
  <2>2. i \in 1..Len(Options(face))
    BY <1>5 DEF Tap
  <2>3. ASSUME Lookup(g, i) \in {"choose", "new"}
        PROVE  /\ Lookup(g, i) = "choose" => Len(Groups) >= 2
               /\ menu[g] = "first" /\ i \in 1..Len(First) /\ First[i] = Lookup(g, i)
    <3>1. menu[g] # "none" /\ i <= Len(Options(menu[g])) /\ Options(menu[g])[i] = Lookup(g, i)
      BY <2>3, RegistrationConstants DEF Lookup
    <3>2. ~ (menu[g] = "second")
      <4> SUFFICES ASSUME menu[g] = "second" PROVE FALSE
        OBVIOUS
      <4>1. i \in 1..Len(Groups) + 1 /\ Second[i] \in {"choose", "new"}
        BY <2>3, <3>1, OptionFacts DEF Options
      <4>2. CASE i = Len(Groups) + 1
        BY <4>1, <4>2, OptionFacts
      <4>3. CASE i \in 1..Len(Groups)
        <5>1. Second[i] \in Group
          BY <4>3, OptionFacts
        <5> QED
          BY <4>1, <5>1, OptionFacts
      <4> QED
        BY <4>1, <4>2, <4>3, OptionFacts
    <3>3. menu[g] = "first"
      BY <3>1, <3>2
    <3> QED
      BY <3>1, <3>3, OptionFacts, RegistrationConstants DEF Options, First
  <2>4. ASSUME Lookup(g, i) = "new" PROVE Asked(g)'
    <3>1. menu[g] = "first" /\ i \in 1..Len(First) /\ First[i] = "new"
      BY <2>3, <2>4
    <3>2. CASE face = "first"
      <4>1. Options(face)[i] = "new"
        BY <3>1, <3>2 DEF Options
      <4> QED
        BY <2>1, <4>1
    <3>3. CASE face = "second"
      <4>1. Len(Groups) >= 2 /\ rows[g] > 1
        BY <2>1, <3>1, <3>3
      <4>2. i = 2 /\ Options(face)[i] = Groups[2] /\ Groups[2] \in Group
        <5>1. i = 2 /\ 2 \in 1..Len(Groups)
          BY <3>1, <4>1, OptionFacts
        <5> QED
          BY <3>3, <5>1, OptionFacts DEF Options
      <4> QED
        BY <2>1, <4>1, <4>2
    <3> QED
      BY <3>2, <3>3
  <2>5. \A h \in Chan : Asked(h) => Asked(h)'
    BY <2>1
  <2>6. \A h \in Chan : /\ <<h, "choose">> \in taps' => Len(Groups) >= 2
                        /\ <<h, "new">> \in taps' => Asked(h)'
    BY <2>1, <2>3, <2>4, <2>5
  <2>7. ASSUME NEW h \in Chan
        PROVE  /\ menu'[h] # "none" => rows'[h] >= 1
               /\ h \in choosing' \/ <<h, "second">> \in faces' => rows'[h] >= 1 /\ Len(Groups) >= 2
               /\ <<h, "second">> \in faces' /\ menu'[h] = "first" => rows'[h] > 1
    BY <2>1
  <2>8. ASSUME NEW h \in Chan
        PROVE  h \in prompting' \/ naming' = h \/ "new" \in wired'[h] => Asked(h)'
    BY <2>1, <2>5
  <2> QED
    BY <2>6, <2>7, <2>8
<1>6. ASSUME NEW g \in Chan, NEW choice \in Choice \cup {"none"}, TapIgnored(g, choice) PROVE Naming'
  BY <1>6 DEF TapIgnored, Lands
<1>7. ASSUME NEW g \in Chan, NEW a \in Group, Connect(g, a) PROVE Naming'
  <2>1. a # "new"
    BY OptionFacts
  <2>2. \A h \in Chan : "new" \in wired'[h] => "new" \in wired[h]
    <3>1. wired' = wired \/ wired' = [wired EXCEPT ![g] = @ \cup {a}]
      BY <1>7 DEF Connect
    <3> HIDE DEF Naming
    <3> QED
      BY <2>1, <3>1
  <2>3. \A h \in Chan : menu'[h] # "none" => menu'[h] = menu[h]
    BY <1>7 DEF Connect, Decide
  <2>4. UNCHANGED <<meant, choosing, prompting, naming, faces, rows>> /\ taps' \subseteq taps
    BY <1>7 DEF Connect, Lands
  <2> QED
    BY <2>2, <2>3, <2>4
<1>8. ASSUME NEW g \in Chan, Reject(g) PROVE Naming'
  BY <1>8 DEF Reject, Lands, Decide
<1>9. ASSUME NEW g \in Chan, ChooseExisting(g) \/ ChoiceStops(g) PROVE Naming'
  BY <1>9 DEF ChooseExisting, ChoiceStops, Lands
<1>10. ASSUME NEW g \in Chan, NewAgent(g) \/ Prompt(g) \/ PromptStops(g) PROVE Naming'
  BY <1>10 DEF NewAgent, Prompt, PromptStops, Lands
<1>11. ASSUME NEW text \in BOOLEAN, NameReply(text) PROVE Naming'
  <2>1. naming \in Chan
    BY <1>11 DEF NameReply
  <2>2. \A h \in Chan : h # naming => wired'[h] = wired[h]
    BY <1>11, <2>1 DEF NameReply
  <2>3. \A h \in Chan : menu'[h] # "none" => menu'[h] = menu[h]
    BY <1>11, <2>1 DEF NameReply, Decide
  <2>4. UNCHANGED <<meant, taps, choosing, prompting, faces, rows>> /\ naming' = "none"
    BY <1>11 DEF NameReply
  <2> QED
    BY <2>1, <2>2, <2>3, <2>4, RegistrationConstants
<1>12. CASE Restart
  BY <1>12, RegistrationConstants DEF Restart
<1>13. CASE UNCHANGED registrationVars
  BY <1>13 DEF registrationVars
<1> HIDE DEF RegistrationTypeOK, Naming, Asked
<1> QED
  BY <1>1, <1>2, <1>3, <1>4, <1>5, <1>6, <1>7, <1>8, <1>9, <1>10, <1>11, <1>12, <1>13 DEF RegistrationNext

(* The typed name is used for a channel whose button asked for it, but for the
   stale second card NamedWhereAsked describes.                               *)
THEOREM NamedWhereAskedHolds == RegistrationSpec => []NamedWhereAsked
<1>1. RegistrationInit => Naming
  BY RegistrationConstants DEF RegistrationInit, Naming
<1>2. Naming => NamedWhereAsked
  BY DEF Naming, Asked, NamedWhereAsked
<1> QED
  BY <1>1, <1>2, NamingStep, RegistrationTypeInit, RegistrationTypeStep, PTL DEF RegistrationSpec

-----------------------------------------------------------------------------
(* Peers: types *)

LEMMA Appended ==
  ASSUME NEW S, NEW q \in Seq(S), NEW x \in S
  PROVE  Append(q, x) \in Seq(S) /\ ToSet(Append(q, x)) = ToSet(q) \cup {x}
<1>1. Append(q, x) \in Seq(S) /\ Len(Append(q, x)) = Len(q) + 1 /\ Len(q) \in Nat
  OBVIOUS
<1>2. \A i \in 1..Len(q) : Append(q, x)[i] = q[i]
  OBVIOUS
<1>3. Append(q, x)[Len(q) + 1] = x
  OBVIOUS
<1>4. DOMAIN q = 1..Len(q) /\ DOMAIN Append(q, x) = 1..(Len(q) + 1)
  BY <1>1
<1>5. \A i \in 1..(Len(q) + 1) : i \in 1..Len(q) \/ i = Len(q) + 1
  BY <1>1
<1>6. 1..Len(q) \subseteq 1..(Len(q) + 1) /\ Len(q) + 1 \in 1..(Len(q) + 1)
  BY <1>1
<1> QED
  BY <1>1, <1>2, <1>3, <1>4, <1>5, <1>6 DEF ToSet

LEMMA ReceivedTyped ==
  ASSUME PeerTypeOK, NEW s \in Session
  PROVE  /\ Received(s) \subseteq Letter
         /\ DOMAIN letterbox[s] = 1..Len(letterbox[s]) /\ Len(letterbox[s]) \in Nat
         /\ \A i \in DOMAIN letterbox[s] : letterbox[s][i] \in Received(s)
         /\ \A n \in Received(s) : \E i \in DOMAIN letterbox[s] : letterbox[s][i] = n
<1>1. letterbox[s] \in Seq(Letter)
  BY DEF PeerTypeOK
<1> QED
  BY <1>1 DEF Received, ToSet

(* Newest looks at the letters of the group, and finds one if there is one.     *)
LEMMA NewestFound ==
  ASSUME PeerTypeOK, NEW s \in Session, NEW g
  PROVE  /\ (\E n \in Received(s) : GroupOf[n.from] = g) =>
              \E n \in Received(s) : GroupOf[n.from] = g /\ Newest(s, g) = n.id
         /\ ~ (\E n \in Received(s) : GroupOf[n.from] = g) => Newest(s, g) = 0
<1> DEFINE box == letterbox[s]
           fits == {i \in DOMAIN box : GroupOf[box[i].from] = g}
<1>1. Newest(s, g) = IF fits = {} THEN 0 ELSE box[CHOOSE i \in fits : \A j \in fits : j <= i].id
  BY Zenon DEF Newest
<1>2. DOMAIN box = 1..Len(box) /\ Len(box) \in Nat
  BY ReceivedTyped
<1>3. (\E n \in Received(s) : GroupOf[n.from] = g) <=> fits # {}
  BY ReceivedTyped
<1>4. ASSUME fits # {}
      PROVE  \E n \in Received(s) : GroupOf[n.from] = g /\ Newest(s, g) = n.id
  <2> DEFINE R == {pair \in Nat \X Nat : pair[1] < pair[2]}
             T == {Len(box) - i : i \in fits}
  <2>1. IsWellFoundedOn(R, Nat)
    BY NatLessThanWellFounded, Zenon DEF OpToRel
  <2>2. T \subseteq Nat /\ T # {}
    BY <1>2, <1>4
  <2>3. PICK x \in T : \A y \in T : ~ (<<y, x>> \in R)
    <3> HIDE DEF R, T
    <3> QED
      BY <2>1, <2>2, WFMin
  <2>4. \A y \in T : x <= y
    <3> TAKE y \in T
    <3>1. x \in Nat /\ y \in Nat
      BY <2>2, <2>3
    <3>2. ~ (y < x)
      BY <3>1, <2>3
    <3> QED
      BY <3>1, <3>2
  <2>5. PICK w \in fits : x = Len(box) - w
    BY <2>3
  <2>6. \A j \in fits : j <= w
    <3> TAKE j \in fits
    <3>1. Len(box) - w <= Len(box) - j
      BY <2>4, <2>5
    <3> QED
      BY <1>2, <3>1
  <2> DEFINE c == CHOOSE i \in fits : \A j \in fits : j <= i
  <2>7. c \in fits
    <3> HIDE DEF fits
    <3> QED
      BY <2>5, <2>6
  <2>8. Newest(s, g) = box[c].id
    BY <1>1, <1>4, Zenon
  <2> HIDE DEF c
  <2>9. box[c] \in Received(s) /\ GroupOf[box[c].from] = g
    BY <2>7, ReceivedTyped
  <2> QED
    BY <2>8, <2>9, Zenon
<1> QED
  BY <1>1, <1>3, <1>4

LEMMA PeerTypeStep == PeerTypeOK /\ [PeerNext]_peerVars => PeerTypeOK'
<1> SUFFICES ASSUME PeerTypeOK, [PeerNext]_peerVars PROVE PeerTypeOK'
  OBVIOUS
<1>1. ASSUME NEW s \in Session, Opens(s) PROVE PeerTypeOK'
  <2>1. made' \in Seq(Session) /\ ToSet(made) \subseteq ToSet(made')
    BY <1>1, Appended DEF Opens, PeerTypeOK
  <2> QED
    BY <1>1, <2>1 DEF Opens, PeerTypeOK, Received
<1>2. ASSUME NEW s \in Session, Closes(s) PROVE PeerTypeOK'
  BY <1>2 DEF Closes, PeerTypeOK, Running, Received
<1>3. ASSUME NEW s \in Session, NEW g \in AgentGroup, NEW way \in {"text", "tool"},
             NEW answers \in 0..letters, NEW replyTo \in ReplyTo(s, g, way),
             Writes(s, g, replyTo, answers)
      PROVE  PeerTypeOK'
  <2>1. letters \in 0..MaxLetters /\ MaxLetters \in Nat /\ letters < MaxLetters
    BY <1>3, PeerConstants DEF Writes, PeerTypeOK
  <2>2. letters + 1 \in 1..MaxLetters /\ answers \in 0..MaxLetters
    BY <2>1
  <2>3. \A n \in Received(s) : n.id \in 1..MaxLetters
    BY ReceivedTyped DEF Letter
  <2>4. Newest(s, g) \in 0..MaxLetters
    BY <2>1, <2>3, NewestFound
  <2>5. replyTo \in 0..MaxLetters
    BY <2>1, <2>3, <2>4 DEF ReplyTo
  <2>6. outbox' \subseteq Letter /\ letters' \in 0..MaxLetters
    BY <1>3, <2>1, <2>2, <2>5 DEF Writes, Letter, PeerTypeOK
  <2> QED
    BY <1>3, <2>6 DEF Writes, PeerTypeOK, Received
<1>4. ASSUME NEW s \in Session, NEW m \in outbox, Routes(m, s) PROVE PeerTypeOK'
  <2>1. m \in Letter /\ letterbox[s] \in Seq(Letter)
    BY DEF PeerTypeOK
  <2>2. m.to = GroupOf[s]
    BY <1>4 DEF Routes, Targets, Candidates, NewestOf
  <2>3. letterbox' = [letterbox EXCEPT ![s] = Append(@, m)] /\ outbox' = outbox \ {m}
        /\ UNCHANGED <<closed, permits, letters, refused>>
    BY <1>4 DEF Routes
  <2>4. made' \in Seq(Session) /\ ToSet(made) \subseteq ToSet(made')
    <3>1. made' = made \/ made' = Append(made, s)
      BY <1>4 DEF Routes
    <3>2. made \in Seq(Session)
      BY DEF PeerTypeOK
    <3>3. Append(made, s) \in Seq(Session) /\ ToSet(Append(made, s)) = ToSet(made) \cup {s}
      BY <3>2, Appended
    <3> QED
      BY <3>1, <3>2, <3>3
  <2>5. Append(letterbox[s], m) \in Seq(Letter)
        /\ ToSet(Append(letterbox[s], m)) = Received(s) \cup {m}
    BY <2>1, Appended DEF Received
  <2>6. letterbox' \in [Session -> Seq(Letter)] /\ letterbox'[s] = Append(letterbox[s], m)
        /\ \A t \in Session \ {s} : letterbox'[t] = letterbox[t]
    BY <2>3, <2>5 DEF PeerTypeOK
  <2>7. \A t \in Session : \A n \in Received(t)' : n.to = GroupOf[t]
    <3> TAKE t \in Session
    <3>1. CASE t = s
      BY <2>2, <2>5, <2>6, <3>1 DEF PeerTypeOK, Received
    <3>2. CASE t # s
      BY <2>6, <3>2 DEF PeerTypeOK, Received
    <3> QED
      BY <3>1, <3>2
  <2> QED
    BY <2>3, <2>4, <2>6, <2>7 DEF PeerTypeOK
<1>5. ASSUME NEW m \in outbox, Denies(m) PROVE PeerTypeOK'
  BY <1>5 DEF Denies, PeerTypeOK, Received, Letter
<1>6. ASSUME NEW p \in permits, Revokes(p) PROVE PeerTypeOK'
  BY <1>6 DEF Revokes, PeerTypeOK, Received
<1>7. CASE UNCHANGED peerVars
  BY <1>7 DEF peerVars, PeerTypeOK, Received
<1> QED
  BY <1>1, <1>2, <1>3, <1>4, <1>5, <1>6, <1>7 DEF PeerNext

LEMMA PeerTypeInit == PeerInit => PeerTypeOK
<1> SUFFICES ASSUME PeerInit PROVE PeerTypeOK
  OBVIOUS
<1>1. letters \in 0..MaxLetters
  BY PeerConstants DEF PeerInit
<1>2. \A s \in Session : letterbox[s] = << >> /\ Received(s) = {}
  BY DEF PeerInit, Received, ToSet
<1>3. letterbox \in [Session -> Seq(Letter)] /\ made \in Seq(Session)
  BY DEF PeerInit
<1> QED
  BY <1>1, <1>2, <1>3 DEF PeerInit, PeerTypeOK

(* Every variable keeps its type, and a letter only ever lies with a session of
   the group it is for.                                                       *)
THEOREM PeerTypeCorrect == PeerSpec => []PeerTypeOK
BY PeerTypeInit, PeerTypeStep, PTL DEF PeerSpec

-----------------------------------------------------------------------------
(* Peers: a reply comes home *)

Delivered == UNION {Received(s) : s \in Session}
Mail == outbox \cup Delivered

(* An identity belongs to one letter; whoever wrote has a session; an answer is
   to a letter its author received, and refers to one of the same group, the
   way text does, or to none, the way the tool does.                          *)
MailOrder ==
  /\ \A m \in Mail : m.id <= letters /\ m.from \in ToSet(made)
  /\ \A m, n \in Mail : m.id = n.id => m = n
  /\ \A m \in Mail : m.answers # 0 =>
       \E n \in Received(m.from) : n.id = m.answers /\ GroupOf[n.from] = m.to
  /\ \A m \in outbox : m.answers # 0 /\ m.replyTo # 0 =>
       \E n \in Received(m.from) : n.id = m.replyTo /\ GroupOf[n.from] = m.to

LEMMA MailTyped == PeerTypeOK => Mail \subseteq Letter
BY ReceivedTyped DEF Mail, Delivered, PeerTypeOK

LEMMA AskerIs ==
  ASSUME PeerTypeOK, \A m, n \in Mail : m.id = n.id => m = n,
         NEW m \in Letter, NEW n \in Received(m.from), n.id = m.answers
  PROVE  Asker(m) = n.from
<1>1. m.from \in Session
  BY DEF Letter
<1>2. n \in Mail /\ n.from \in Session
  BY <1>1, ReceivedTyped DEF Mail, Delivered, Letter
<1>3. \A k \in Received(m.from) : k.id = m.answers => k = n
  BY <1>1, <1>2 DEF Mail, Delivered
<1> QED
  BY <1>2, <1>3 DEF Asker

LEMMA WritesKeepsOrder ==
  ASSUME PeerTypeOK, MailOrder, NEW s \in Session, NEW g \in AgentGroup,
         NEW way \in {"text", "tool"}, NEW answers \in 0..letters,
         NEW replyTo \in ReplyTo(s, g, way), Writes(s, g, replyTo, answers)
  PROVE  MailOrder'
<1> DEFINE w == [id |-> letters + 1, from |-> s, to |-> g, answers |-> answers, replyTo |-> replyTo]
<1>1. /\ outbox' = outbox \cup {w} /\ letters' = letters + 1 /\ s \in Running
      /\ UNCHANGED <<made, closed, letterbox>>
  BY DEF Writes
<1>2. letters \in Nat /\ s \in ToSet(made)
  BY <1>1 DEF PeerTypeOK, Running
<1>3. \A t \in Session : Received(t)' = Received(t)
  BY <1>1 DEF Received
<1>4. Delivered' = Delivered /\ Mail' = Mail \cup {w}
  BY <1>1, <1>3 DEF Delivered, Mail
<1>5. \A m \in Mail : m.id \in Nat /\ m.id <= letters /\ m.from \in Session
  BY MailTyped DEF MailOrder, Letter
<1>6. w.id = letters + 1 /\ w.from = s /\ w.to = g /\ w.answers = answers /\ w.replyTo = replyTo
  OBVIOUS
<1> HIDE DEF w
<1>7. \A m \in Mail' : m.id <= letters' /\ m.from \in ToSet(made')
  <2> TAKE m \in Mail'
  <2>1. CASE m \in Mail
    BY <1>1, <1>2, <1>5, <2>1 DEF MailOrder
  <2>2. CASE m = w
    BY <1>1, <1>2, <1>6, <2>2
  <2> QED
    BY <1>4, <2>1, <2>2
<1>8. \A m, n \in Mail' : m.id = n.id => m = n
  <2>1. \A m \in Mail : m.id # w.id
    BY <1>2, <1>5, <1>6
  <2> QED
    BY <1>4, <2>1 DEF MailOrder
<1>9. \A m \in Mail' : m.answers # 0 =>
        \E n \in Received(m.from)' : n.id = m.answers /\ GroupOf[n.from] = m.to
  <2> SUFFICES ASSUME NEW m \in Mail', m.answers # 0
               PROVE  \E n \in Received(m.from)' : n.id = m.answers /\ GroupOf[n.from] = m.to
    OBVIOUS
  <2>1. CASE m \in Mail
    BY <1>3, <1>5, <2>1 DEF MailOrder
  <2>2. CASE m = w
    <3>1. \E n \in Received(s) : n.id = answers /\ GroupOf[n.from] = g
      BY <1>6, <2>2 DEF Writes
    <3> QED
      BY <1>3, <1>6, <2>2, <3>1
  <2> QED
    BY <1>4, <2>1, <2>2
<1>10. \A m \in outbox' : m.answers # 0 /\ m.replyTo # 0 =>
         \E n \in Received(m.from)' : n.id = m.replyTo /\ GroupOf[n.from] = m.to
  <2> SUFFICES ASSUME NEW m \in outbox', m.answers # 0, m.replyTo # 0
               PROVE  \E n \in Received(m.from)' : n.id = m.replyTo /\ GroupOf[n.from] = m.to
    OBVIOUS
  <2>1. CASE m \in outbox
    BY <1>3, <1>5, <2>1 DEF MailOrder, Mail
  <2>2. CASE m = w
    <3>1. \E n \in Received(s) : GroupOf[n.from] = g
      BY <1>6, <2>2 DEF Writes
    <3>2. PICK n \in Received(s) : GroupOf[n.from] = g /\ Newest(s, g) = n.id
      BY <3>1, NewestFound
    <3>3. n.id # 0
      BY <3>2, ReceivedTyped DEF Letter
    <3>4. replyTo = 0 \/ replyTo = n.id
      BY <3>2, <3>3 DEF ReplyTo
    <3>5. \E k \in Received(s) : k.id = replyTo /\ GroupOf[k.from] = g
      BY <1>6, <2>2, <3>2, <3>4
    <3> QED
      BY <1>3, <1>6, <2>2, <3>5
  <2> QED
    BY <1>1, <2>1, <2>2
<1> QED
  BY <1>7, <1>8, <1>9, <1>10 DEF MailOrder

(* What routing a letter changes: it lies in the box of s from then on.          *)
LEMMA RoutesFacts ==
  ASSUME PeerTypeOK, NEW s \in Session, NEW m \in outbox, Routes(m, s)
  PROVE  /\ Received(s)' = Received(s) \cup {m}
         /\ \A t \in Session \ {s} : Received(t)' = Received(t)
         /\ Mail' = Mail /\ outbox' \subseteq outbox
         /\ ToSet(made) \subseteq ToSet(made') /\ closed' = closed /\ letters' = letters
<1>1. letterbox' = [letterbox EXCEPT ![s] = Append(@, m)] /\ outbox' = outbox \ {m}
      /\ closed' = closed /\ letters' = letters /\ (made' = made \/ made' = Append(made, s))
  BY DEF Routes
<1>2. m \in Letter /\ letterbox[s] \in Seq(Letter) /\ made \in Seq(Session)
  BY DEF PeerTypeOK
<1>3. ToSet(Append(letterbox[s], m)) = ToSet(letterbox[s]) \cup {m}
      /\ ToSet(Append(made, s)) = ToSet(made) \cup {s}
  BY <1>2, Appended
<1>4. letterbox'[s] = Append(letterbox[s], m) /\ \A t \in Session \ {s} : letterbox'[t] = letterbox[t]
  BY <1>1 DEF PeerTypeOK
<1>5. Received(s)' = Received(s) \cup {m} /\ \A t \in Session \ {s} : Received(t)' = Received(t)
  BY <1>3, <1>4 DEF Received
<1>6. Delivered' = Delivered \cup {m}
  BY <1>5 DEF Delivered
<1>7. Mail' = Mail
  BY <1>1, <1>6 DEF Mail
<1> QED
  BY <1>1, <1>3, <1>5, <1>7

LEMMA MailOrderStep == PeerTypeOK /\ MailOrder /\ [PeerNext]_peerVars => MailOrder'
<1> SUFFICES ASSUME PeerTypeOK, MailOrder, [PeerNext]_peerVars PROVE MailOrder'
  OBVIOUS
<1>1. ASSUME letterbox' = letterbox, outbox' \subseteq outbox, letters' = letters,
             ToSet(made) \subseteq ToSet(made')
      PROVE  MailOrder'
  <2>1. \A t \in Session : Received(t)' = Received(t)
    BY <1>1 DEF Received
  <2>2. Mail' \subseteq Mail
    BY <1>1, <2>1 DEF Mail, Delivered
  <2>3. \A m \in Mail : m.from \in Session
    BY MailTyped DEF Letter
  <2>4. outbox' \subseteq Mail
    BY <1>1 DEF Mail
  <2> QED
    BY <1>1, <2>1, <2>2, <2>3, <2>4 DEF MailOrder
<1>2. ASSUME NEW s \in Session, Opens(s) PROVE MailOrder'
  <2>1. ToSet(made) \subseteq ToSet(made')
    BY <1>2, Appended DEF Opens, PeerTypeOK
  <2> QED
    BY <1>1, <1>2, <2>1 DEF Opens
<1>3. ASSUME NEW s \in Session, Closes(s) PROVE MailOrder'
  BY <1>1, <1>3 DEF Closes
<1>4. ASSUME NEW s \in Session, NEW g \in AgentGroup, NEW way \in {"text", "tool"},
             NEW answers \in 0..letters, NEW replyTo \in ReplyTo(s, g, way),
             Writes(s, g, replyTo, answers)
      PROVE  MailOrder'
  BY <1>4, WritesKeepsOrder
<1>5. ASSUME NEW s \in Session, NEW m \in outbox, Routes(m, s) PROVE MailOrder'
  <2>1. \A t \in Session : Received(t) \subseteq Received(t)'
    BY <1>5, RoutesFacts
  <2>2. Mail' = Mail /\ outbox' \subseteq outbox /\ ToSet(made) \subseteq ToSet(made')
        /\ letters' = letters
    BY <1>5, RoutesFacts
  <2>3. \A k \in Mail : k.from \in Session
    BY MailTyped DEF Letter
  <2>4. outbox' \subseteq Mail
    BY <2>2 DEF Mail
  <2> QED
    BY <2>1, <2>2, <2>3, <2>4 DEF MailOrder
<1>6. ASSUME NEW m \in outbox, Denies(m) PROVE MailOrder'
  BY <1>1, <1>6 DEF Denies
<1>7. ASSUME NEW p \in permits, Revokes(p) PROVE MailOrder'
  BY <1>1, <1>7 DEF Revokes
<1>8. CASE UNCHANGED peerVars
  BY <1>1, <1>8 DEF peerVars
<1> QED
  BY <1>2, <1>3, <1>4, <1>5, <1>6, <1>7, <1>8 DEF PeerNext

(* A routed reply goes to the author of the letter it answers, unless that
   session is closed or another one of its group has written to the replier too. *)
LEMMA RoutedHome ==
  ASSUME PeerTypeOK, MailOrder, NEW s \in Session, NEW m \in outbox, Routes(m, s), m.answers # 0
  PROVE  \/ s = Asker(m) \/ Asker(m) \in closed
         \/ \E n \in Received(m.from) : GroupOf[n.from] = m.to /\ n.from # Asker(m)
<1>1. m \in Letter /\ m.from \in Session
  BY DEF PeerTypeOK, Letter
<1>2. PICK n \in Received(m.from) : n.id = m.answers /\ GroupOf[n.from] = m.to
  BY DEF MailOrder, Mail
<1>3. Asker(m) = n.from
  BY <1>1, <1>2, AskerIs DEF MailOrder
<1>4. SUFFICES ASSUME n.from \notin closed,
                      \A k \in Received(m.from) : GroupOf[k.from] = m.to => k.from = n.from
               PROVE  s = n.from
  BY <1>3
<1>5. n \in Mail /\ n.from \in Session /\ n.from \in Running
  <2>1. n \in Letter /\ n \in Mail
    BY <1>1, <1>2, ReceivedTyped DEF Mail, Delivered
  <2> QED
    BY <1>4, <2>1 DEF MailOrder, Running, Letter
<1> DEFINE ref == IF m.replyTo # 0 THEN m.replyTo ELSE Newest(m.from, m.to)
<1>6. \E k \in Received(m.from) : k.id = ref /\ GroupOf[k.from] = m.to
  <2>1. CASE m.replyTo # 0
    BY <2>1 DEF MailOrder
  <2>2. CASE m.replyTo = 0
    BY <1>1, <1>2, <2>2, NewestFound
  <2> QED
    BY <2>1, <2>2
<1>7. PICK k \in Received(m.from) : k.id = ref /\ GroupOf[k.from] = m.to
  BY <1>6
<1>8. k.from = n.from
  BY <1>4, <1>7
<1>9. \A j \in Received(m.from) : j.id = ref => j = k
  BY <1>1, <1>7 DEF MailOrder, Mail, Delivered
<1>10. Pinned(m) = {n.from}
  <2>1. {j \in Received(m.from) : j.id = ref} = {k}
    BY <1>7, <1>9
  <2> HIDE DEF ref
  <2>2. Pinned(m) = {j.from : j \in {j \in Received(m.from) : j.id = ref}}
    BY Zenon DEF Pinned, ref
  <2> QED
    BY <1>8, <2>1, <2>2
<1>11. Candidates(m) = {n.from}
  BY <1>2, <1>5, <1>10 DEF Candidates
<1>12. Targets(m) = {n.from}
  BY <1>11 DEF Targets
<1> QED
  BY <1>12 DEF Routes

LEMMA HomeStep ==
  PeerTypeOK /\ MailOrder /\ MailOrder' /\ PeerTypeOK' /\ ReplyComesHome /\ [PeerNext]_peerVars
    => ReplyComesHome'
<1> SUFFICES ASSUME PeerTypeOK, MailOrder, MailOrder', PeerTypeOK', ReplyComesHome, [PeerNext]_peerVars
             PROVE  ReplyComesHome'
  OBVIOUS
<1>1. ASSUME letterbox' = letterbox, closed \subseteq closed' PROVE ReplyComesHome'
  <2>1. \A t \in Session : Received(t)' = Received(t)
    BY <1>1 DEF Received
  <2>2. \A t \in Session : \A m \in Received(t) : m.from \in Session
    BY ReceivedTyped DEF Letter
  <2>3. \A t \in Session : \A m \in Received(t) : Asker(m)' = Asker(m)
    BY <2>1, <2>2 DEF Asker
  <2> QED
    BY <1>1, <2>1, <2>2, <2>3 DEF ReplyComesHome
<1>2. ASSUME NEW s \in Session, NEW m \in outbox, Routes(m, s) PROVE ReplyComesHome'
  <2>1. /\ Received(s)' = Received(s) \cup {m} /\ closed' = closed /\ Mail' = Mail
        /\ \A t \in Session \ {s} : Received(t)' = Received(t)
    BY <1>2, RoutesFacts
  <2>2. \A t \in Session : Received(t) \subseteq Received(t)'
    BY <2>1
  <2>3. ASSUME NEW k \in Mail, k.answers # 0 PROVE Asker(k)' = Asker(k)
    <3>1. k \in Letter /\ k.from \in Session
      BY MailTyped DEF Letter
    <3>2. PICK n \in Received(k.from) : n.id = k.answers
      BY <2>3 DEF MailOrder
    <3>3. Asker(k) = n.from
      BY <3>1, <3>2, AskerIs DEF MailOrder
    <3>4. n \in Received(k.from)' /\ n \in Mail /\ n.from \in Session
      BY <2>2, <3>1, <3>2, ReceivedTyped DEF Mail, Delivered, Letter
    <3>5. \A j \in Received(k.from)' : j \in Mail
      BY <2>1, <3>1 DEF Mail, Delivered
    <3>6. \A j \in Received(k.from)' : j.id = k.answers => j = n
      BY <3>2, <3>4, <3>5 DEF MailOrder
    <3>7. Asker(k)' = n.from
      BY <3>2, <3>4, <3>6 DEF Asker
    <3> QED
      BY <3>3, <3>7
  <2>4. ASSUME NEW t \in Session, NEW k \in Received(t)', k.answers # 0
        PROVE  \/ t = Asker(k)' \/ Asker(k)' \in closed'
               \/ \E n \in Received(k.from)' : GroupOf[n.from] = k.to /\ n.from # Asker(k)'
    <3>1. k \in Mail /\ k.from \in Session
      BY <2>1, MailTyped DEF Mail, Delivered, Letter
    <3>2. Asker(k)' = Asker(k)
      BY <2>3, <2>4, <3>1
    <3>3. \/ t = Asker(k) \/ Asker(k) \in closed
          \/ \E n \in Received(k.from) : GroupOf[n.from] = k.to /\ n.from # Asker(k)
      <4>1. CASE k \in Received(t)
        BY <2>4, <4>1 DEF ReplyComesHome
      <4>2. CASE t = s /\ k = m
        BY <1>2, <2>4, <4>2, RoutedHome
      <4> QED
        BY <2>1, <4>1, <4>2
    <3> QED
      BY <2>1, <2>2, <3>1, <3>2, <3>3
  <2> QED
    BY <2>4 DEF ReplyComesHome
<1>3. CASE \A s \in Session, m \in outbox : ~ Routes(m, s)
  <2>1. letterbox' = letterbox /\ closed \subseteq closed'
    BY <1>3 DEF PeerNext, Opens, Closes, Writes, Denies, Revokes, peerVars
  <2> QED
    BY <1>1, <2>1
<1> QED
  BY <1>2, <1>3

(* A reply finds the session that asked, but for a closed one and for a second
   session of the same group that has written to the replier.                  *)
THEOREM ReplyComesHomeHolds == PeerSpec => []ReplyComesHome
<1>1. PeerInit => MailOrder /\ ReplyComesHome
  <2> SUFFICES ASSUME PeerInit PROVE MailOrder /\ ReplyComesHome
    OBVIOUS
  <2>1. \A t \in Session : Received(t) = {}
    BY DEF PeerInit, Received, ToSet
  <2>2. Mail = {} /\ outbox = {}
    BY <2>1 DEF PeerInit, Mail, Delivered
  <2> QED
    BY <2>1, <2>2 DEF MailOrder, ReplyComesHome
<1> QED
  BY <1>1, HomeStep, MailOrderStep, PeerTypeInit, PeerTypeStep, PTL DEF PeerSpec

-----------------------------------------------------------------------------
(* The three parts together *)

(* A behaviour of the composition is a behaviour of each of its parts: a step
   of one leaves the state of the others alone. What the theorems above state
   of a part therefore holds in the composition.                             *)
THEOREM RoutingIsItsParts ==
  RoutingSpec => AdmissionSpec /\ RegistrationSpec /\ PeerSpec
<1>1. RoutingInit => AdmissionInit /\ RegistrationInit /\ PeerInit
  BY DEF RoutingInit
<1>2. [RoutingNext]_RoutingVars => [AdmissionNext]_admissionVars
  BY DEF RoutingNext, RoutingVars
<1>3. [RoutingNext]_RoutingVars => [RegistrationNext]_registrationVars
  BY DEF RoutingNext, RoutingVars
<1>4. [RoutingNext]_RoutingVars => [PeerNext]_peerVars
  BY DEF RoutingNext, RoutingVars
<1> QED
  BY <1>1, <1>2, <1>3, <1>4, PTL DEF RoutingSpec, AdmissionSpec, RegistrationSpec, PeerSpec

(* Every variable of the three parts keeps its type. *)
THEOREM RoutingTypeCorrect == RoutingSpec => []RoutingTypeOK
<1>1. AdmissionTypeOK /\ RegistrationTypeOK /\ PeerTypeOK => RoutingTypeOK
  BY DEF RoutingTypeOK
<1> QED
  BY <1>1, RoutingIsItsParts, AdmissionTypeCorrect, RegistrationTypeCorrect, PeerTypeCorrect, PTL
===============================================================================
