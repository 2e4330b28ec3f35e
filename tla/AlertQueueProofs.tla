-------------------------- MODULE AlertQueueProofs --------------------------
(***************************************************************************)
(* Theorems about AlertQueue, for every set of alerts, users and runners,  *)
(* every batch size and every hazard.                                      *)
(***************************************************************************)
EXTENDS AlertQueue, TLAPS

LEMMA TypeInit == Init => TypeOK
BY AlertAssumption DEF Init, TypeOK, RowState, Reverting

LEMMA TypeStep == TypeOK /\ [Next]_vars => TypeOK'
<1> SUFFICES ASSUME TypeOK, [Next]_vars PROVE TypeOK'
  OBVIOUS
<1> USE AlertAssumption
    DEF TypeOK, RowState, Reverting, people, runner, history, Goto, Fault
<1>1. ASSUME NEW u \in Users, NEW c \in Creators, Watch(u, c) PROVE TypeOK'
  BY <1>1 DEF Watch
<1>2. ASSUME NEW u \in Users, NEW C, Unwatch(u, C) PROVE TypeOK'
  BY <1>2 DEF Unwatch
<1>3. ASSUME NEW u \in Users, OptOut(u) PROVE TypeOK'
  BY <1>3 DEF OptOut
<1>4. ASSUME Scan PROVE TypeOK'
  BY <1>4 DEF Scan
<1>5. ASSUME NEW a \in Alerts, Queue(a) PROVE TypeOK'
  BY <1>5 DEF Queue
<1>6. ASSUME NEW r \in Runners, NEW S \in SUBSET Alerts, Claim(r, S) PROVE TypeOK'
  BY <1>6 DEF Claim, Take
<1>7. ASSUME NEW r \in Runners, NEW S \in SUBSET Alerts, ClaimLost(r, S) PROVE TypeOK'
  BY <1>7 DEF ClaimLost, Take
<1>8. ASSUME NEW r \in Runners, DeadlinePasses(r) PROVE TypeOK'
  BY <1>8 DEF DeadlinePasses
<1>9. ASSUME NEW r \in Runners, Sort(r) PROVE TypeOK'
  BY <1>9 DEF Sort
<1>10. ASSUME NEW r \in Runners, AbortEarly(r) PROVE TypeOK'
  BY <1>10 DEF AbortEarly, GiveUp
<1>11. ASSUME NEW r \in Runners, NEW u \in Users, NextDigest(r, u) PROVE TypeOK'
  BY <1>11 DEF NextDigest
<1>12. ASSUME NEW r \in Runners, Abort(r) PROVE TypeOK'
  BY <1>12 DEF Abort
<1>13. ASSUME NEW r \in Runners, Finish(r) PROVE TypeOK'
  BY <1>13 DEF Finish
<1>14. ASSUME NEW r \in Runners, Accept(r) PROVE TypeOK'
  BY <1>14 DEF Accept, Delivered, Settled
<1>15. ASSUME NEW r \in Runners, Bounce(r) PROVE TypeOK'
  BY <1>15 DEF Bounce
<1>16. ASSUME NEW r \in Runners, Timeout(r) PROVE TypeOK'
  BY <1>16 DEF Timeout, Delivered, Digest
<1>17. ASSUME NEW r \in Runners, Revert(r) PROVE TypeOK'
  BY <1>17 DEF Revert, Release, Settled
<1>18. ASSUME NEW r \in Runners, RevertFails(r) PROVE TypeOK'
  <2>1. CASE /\ Settled(r, Named(r)) /\ Goto(r, "digests")
             /\ forsaken' = forsaken \cup Named(r) /\ UNCHANGED <<group, aborted>>
    BY <1>18, <2>1 DEF RevertFails, Settled, Named
  <2>2. CASE Goto(r, "revert_rest") /\ UNCHANGED <<batch, group, aborted, forsaken>>
    BY <1>18, <2>2 DEF RevertFails
  <2>3. CASE GiveUp(r)
    BY <1>18, <2>3 DEF RevertFails, GiveUp
  <2>4. QED
    BY <1>18, <2>1, <2>2, <2>3 DEF RevertFails
<1>19. ASSUME NEW r \in Runners, RevertLost(r) PROVE TypeOK'
  BY <1>19 DEF RevertLost, Release, Named
<1>20. ASSUME NEW r \in Runners, Crash(r) PROVE TypeOK'
  BY <1>20 DEF Crash, GiveUp
<1>21. ASSUME UNCHANGED vars PROVE TypeOK'
  BY <1>21 DEF vars
<1>22. QED
  BY <1>1, <1>2, <1>3, <1>4, <1>5, <1>6, <1>7, <1>8, <1>9, <1>10, <1>11, <1>12,
     <1>13, <1>14, <1>15, <1>16, <1>17, <1>18, <1>19, <1>20, <1>21
  DEF Next, UserStep, RunnerStep, Failure

\* Every variable of the outbox keeps its type.
THEOREM AlertTypeCorrect == Spec => []TypeOK
BY TypeInit, TypeStep, PTL DEF Spec

-----------------------------------------------------------------------------
(* Rows in hand.  A row a runner holds is marked and not yet mailed, and a  *)
(* row that is not marked was never mailed: so a claim hands out only what  *)
(* nobody holds and nobody got.  Doubted alerts are outside all of this.    *)

HeldIsTaken ==
    \A r \in Runners : \A a \in batch[r] \ doubted : row[a] = "taken" /\ sent[a] = 0

UnmarkedIsUnsent ==
    \A a \in Alerts \ doubted : row[a] # "taken" => sent[a] = 0

OutboxInv ==
    /\ TypeOK
    /\ OneHolder
    /\ HeldIsTaken
    /\ UnmarkedIsUnsent
    /\ TwiceOnlyInDoubt
    /\ LostOnlyByFault

LEMMA OutboxInit == Init => OutboxInv
BY TypeInit DEF Init, OutboxInv, OneHolder, HeldIsTaken, UnmarkedIsUnsent, TwiceOnlyInDoubt, LostOnlyByFault

\* What a revert names is in the hands of the runner that reverts.
LEMMA NamedIsHeld == ASSUME NEW r \in Runners PROVE Named(r) \subseteq batch[r]
BY DEF Named

LEMMA OutboxStep == OutboxInv /\ [Next]_vars => OutboxInv'
<1> SUFFICES ASSUME OutboxInv, [Next]_vars PROVE OutboxInv'
  OBVIOUS
<1>t. TypeOK /\ TypeOK'
  BY TypeStep DEF OutboxInv
<1> DEFINE Core == /\ OneHolder /\ HeldIsTaken /\ UnmarkedIsUnsent
                   /\ TwiceOnlyInDoubt /\ LostOnlyByFault
<1>c. Core
  BY DEF OutboxInv
<1> USE DEF people, runner, history, Goto, Fault,
       OneHolder, HeldIsTaken, UnmarkedIsUnsent, TwiceOnlyInDoubt, LostOnlyByFault
<1>1. ASSUME UNCHANGED <<row, batch, sent, doubted, forsaken>> PROVE Core'
  BY <1>1, <1>c
<1>2. ASSUME NEW a \in Alerts, Queue(a) PROVE Core'
  BY <1>2, <1>t, <1>c DEF Queue, TypeOK
<1>3. ASSUME NEW r \in Runners, NEW S \in SUBSET Alerts, Claim(r, S) PROVE Core'
  <2>1. \A a \in S : row[a] = "pending"
    BY <1>3 DEF Claim, Batches, Claimable
  <2>2. batch[r] = {}
    BY <1>3, <1>t DEF Claim, TypeOK
  <2>3. QED
    BY <1>3, <2>1, <2>2, <1>t, <1>c DEF Claim, Take, TypeOK
<1>4. ASSUME NEW r \in Runners, NEW S \in SUBSET Alerts, ClaimLost(r, S) PROVE Core'
  <2>1. \A a \in S : row[a] = "pending"
    BY <1>4 DEF ClaimLost, Batches, Claimable
  <2>2. QED
    BY <1>4, <2>1, <1>t, <1>c DEF ClaimLost, Take, TypeOK
<1>5. ASSUME NEW r \in Runners, GiveUp(r), UNCHANGED <<row, sent, doubted>> PROVE Core'
  BY <1>5, <1>t, <1>c DEF GiveUp, TypeOK
<1>6. ASSUME NEW r \in Runners, Accept(r) PROVE Core'
  BY <1>6, <1>t, <1>c DEF Accept, Delivered, Settled, Digest, TypeOK
<1>7. ASSUME NEW r \in Runners, Timeout(r) PROVE Core'
  BY <1>7, <1>t, <1>c DEF Timeout, Delivered, Digest, TypeOK
<1>8. ASSUME NEW r \in Runners, Revert(r) PROVE Core'
  BY <1>8, <1>t, <1>c, NamedIsHeld DEF Revert, Release, Settled, TypeOK
<1>9. ASSUME NEW r \in Runners, RevertFails(r) PROVE Core'
  <2>1. CASE /\ Settled(r, Named(r))
             /\ forsaken' = forsaken \cup Named(r)
             /\ UNCHANGED <<row, sent, doubted>>
    BY <2>1, <1>t, <1>c, NamedIsHeld DEF Settled, TypeOK
  <2>2. CASE UNCHANGED <<row, batch, sent, doubted, forsaken>>
    BY <2>2, <1>1
  <2>3. CASE GiveUp(r) /\ UNCHANGED <<row, sent, doubted>>
    BY <2>3, <1>5
  <2>4. QED
    BY <1>9, <2>1, <2>2, <2>3 DEF RevertFails
<1>10. ASSUME NEW r \in Runners, RevertLost(r) PROVE Core'
  BY <1>10, <1>t, <1>c, NamedIsHeld DEF RevertLost, Release, TypeOK
<1>11. QED
  <2>1. CASE UserStep \/ Scan \/ UNCHANGED vars
    BY <2>1, <1>1, <1>t DEF UserStep, Watch, Unwatch, OptOut, Scan, vars, OutboxInv
  <2>2. CASE \E a \in Alerts : Queue(a)
    BY <2>2, <1>2, <1>t DEF OutboxInv
  <2>3. CASE \E r \in Runners : RunnerStep(r)
    <3>1. PICK r \in Runners : RunnerStep(r)
      BY <2>3
    <3>2. CASE Sort(r) \/ Abort(r) \/ Finish(r) \/ \E u \in Users : NextDigest(r, u)
      BY <3>2, <1>1, <1>t DEF Sort, Abort, Finish, NextDigest, OutboxInv
    <3>3. QED
      BY <3>1, <3>2, <1>3, <1>5, <1>6, <1>8, <1>t DEF RunnerStep, AbortEarly, OutboxInv
  <2>4. CASE \E r \in Runners : Failure(r)
    <3>1. PICK r \in Runners : Failure(r)
      BY <2>4
    <3>2. CASE DeadlinePasses(r) \/ Bounce(r)
      BY <3>2, <1>1, <1>t DEF DeadlinePasses, Bounce, OutboxInv
    <3>3. QED
      BY <3>1, <3>2, <1>4, <1>5, <1>7, <1>9, <1>10, <1>t DEF Failure, Crash, OutboxInv
  <2>5. QED
    BY <2>1, <2>2, <2>3, <2>4 DEF Next

\* No two runners have the same row in hand, except where a revert was sent
\* twice.
THEOREM RunnersDoNotShare == Spec => []OneHolder
<1>1. OutboxInv => OneHolder
  BY DEF OutboxInv
<1>2. QED
  BY <1>1, OutboxInit, OutboxStep, PTL DEF Spec

\* A mail is repeated only after a timeout or a revert that was sent twice.
THEOREM MailedOnceUnlessInDoubt == Spec => []TwiceOnlyInDoubt
<1>1. OutboxInv => TwiceOnlyInDoubt
  BY DEF OutboxInv
<1>2. QED
  BY <1>1, OutboxInit, OutboxStep, PTL DEF Spec

\* A row marked as sent was mailed, is in hand, or was left behind by a death,
\* an early deadline or a failed statement.
THEOREM NothingLostSilently == Spec => []LostOnlyByFault
<1>1. OutboxInv => LostOnlyByFault
  BY DEF OutboxInv
<1>2. QED
  BY <1>1, OutboxInit, OutboxStep, PTL DEF Spec

\* Nothing of a user who opted out is claimed, whatever was watched, scanned,
\* queued or reverted for him since ("will stop at the next dispatch",
\* src/app/api/alerts/unsubscribe/route.ts).
StopsAtNextDispatch ==
    [][\A a \in Alerts : Owner[a] \in optout =>
          \A r \in Runners : a \in batch'[r] => a \in batch[r]]_vars

\* After an opt-out no claim takes a row of that user.
THEOREM OptOutIsObeyed == Spec => StopsAtNextDispatch
<1> DEFINE Kept(r) == batch'[r] \subseteq batch[r]
<1>1. ASSUME TypeOK, [Next]_vars, NEW r \in Runners, NEW a \in batch'[r] \ batch[r]
      PROVE  Owner[a] \notin optout
  <2>1. ASSUME NEW s \in Runners, NEW S \in SUBSET Alerts, Claim(s, S)
        PROVE  Owner[a] \notin optout
    <3>1. a \in S
      BY <1>1, <2>1 DEF Claim, TypeOK
    <3>2. QED
      BY <2>1, <3>1 DEF Claim, Batches, Claimable
  <2>2. ~(\E s \in Runners, S \in SUBSET Alerts : Claim(s, S)) => Kept(r)
    <3>1. ASSUME UNCHANGED batch PROVE Kept(r)
      BY <3>1
    <3>2. ASSUME NEW s \in Runners, GiveUp(s) PROVE Kept(r)
      BY <1>1, <3>2 DEF GiveUp, TypeOK
    <3>3. ASSUME NEW s \in Runners, NEW S, Settled(s, S) PROVE Kept(r)
      BY <1>1, <3>3 DEF Settled, TypeOK
    <3>4. ASSUME NEW s \in Runners, RevertFails(s) PROVE Kept(r)
      BY <3>1, <3>2, <3>3, <3>4 DEF RevertFails
    <3>5. SUFFICES ASSUME ~(\E s \in Runners, S \in SUBSET Alerts : Claim(s, S)) PROVE Kept(r)
      OBVIOUS
    <3>6. CASE UserStep \/ Scan \/ (\E b \in Alerts : Queue(b)) \/ UNCHANGED vars
      BY <3>6, <3>1 DEF UserStep, Watch, Unwatch, OptOut, Scan, Queue, vars, runner
    <3>7. CASE \E s \in Runners : RunnerStep(s)
      BY <3>5, <3>7, <3>1, <3>2, <3>3
      DEF RunnerStep, Sort, AbortEarly, NextDigest, Abort, Finish, Accept, Revert
    <3>8. CASE \E s \in Runners : Failure(s)
      BY <3>8, <3>1, <3>2, <3>4
      DEF Failure, ClaimLost, DeadlinePasses, Bounce, Timeout, RevertLost, Crash, runner
    <3>9. QED
      BY <1>1, <3>6, <3>7, <3>8 DEF Next
  <2>3. QED
    BY <1>1, <2>1, <2>2
<1>2. TypeOK /\ [Next]_vars =>
        [\A a \in Alerts : Owner[a] \in optout =>
            \A r \in Runners : a \in batch'[r] => a \in batch[r]]_vars
  BY <1>1
<1>3. QED
  BY <1>2, TypeInit, TypeStep, PTL DEF Spec, StopsAtNextDispatch

-----------------------------------------------------------------------------
(* AlertQueue implements Outbox.  A claim moves alerts from the queue into *)
(* a hand, an accepted mail, a revert or a fault out of it; an alert whose *)
(* outcome is in doubt leaves the abstraction.  OutboxInv is what makes    *)
(* the hands of Outbox out of the batches of the runners.                  *)

StageOf == [a \in Alerts |-> Stage(a)]
HandOf == [r \in Runners |-> batch[r] \ doubted]

\* Past the rows without an address a batch has only rows with one, and the
\* digest at hand is for a user with an address.
Addressable ==
    \A r \in Runners :
        /\ pc[r] \in {"digests", "mail", "revert", "revert_rest"} =>
              \A a \in batch[r] : Owner[a] \in addressed
        /\ pc[r] = "mail" => group[r] \in addressed

LEMMA AddressableInit == Init => Addressable
BY DEF Init, Addressable

LEMMA AddressableStep == TypeOK /\ Addressable /\ [Next]_vars => Addressable'
<1> SUFFICES ASSUME TypeOK, Addressable, [Next]_vars PROVE Addressable'
  OBVIOUS
<1> USE DEF Addressable, people, runner, history, Goto
<1>t. /\ pc \in [Runners -> {"idle", "claimed", "digests", "mail"} \cup Reverting]
      /\ batch \in [Runners -> SUBSET Alerts]
      /\ group \in [Runners -> Users \cup {None}]
  BY DEF TypeOK
<1>1. ASSUME UNCHANGED <<addressed, runner>> PROVE Addressable'
  BY <1>1
<1>2. ASSUME NEW r \in Runners, NEW S \in SUBSET Alerts, Claim(r, S) PROVE Addressable'
  BY <1>2, <1>t DEF Claim
<1>3. ASSUME NEW r \in Runners, Sort(r) PROVE Addressable'
  BY <1>3, <1>t DEF Sort, Unaddressed
<1>4. ASSUME NEW r \in Runners, NEW u \in Users, NextDigest(r, u) PROVE Addressable'
  BY <1>4, <1>t DEF NextDigest
<1>5. ASSUME NEW r \in Runners, GiveUp(r), UNCHANGED addressed PROVE Addressable'
  BY <1>5, <1>t DEF GiveUp
<1>6. ASSUME NEW r \in Runners, NEW S, UNCHANGED <<addressed, group>>,
             batch' = [batch EXCEPT ![r] = @ \ S], Goto(r, "digests"),
             pc[r] = "unaddressed" => Unaddressed(r) \subseteq S,
             pc[r] \in {"unaddressed", "digests", "mail", "revert", "revert_rest"}
      PROVE  Addressable'
  <2>1. \A q \in Runners \ {r} : pc'[q] = pc[q] /\ batch'[q] = batch[q]
    BY <1>6, <1>t
  <2>2. pc'[r] = "digests" /\ batch'[r] = batch[r] \ S
    BY <1>6, <1>t
  <2>3. \A a \in batch'[r] : Owner[a] \in addressed
    BY <1>6, <2>2 DEF Unaddressed
  <2>4. QED
    BY <1>6, <2>1, <2>2, <2>3
<1>7. ASSUME NEW r \in Runners,
             Abort(r) \/ Finish(r) \/ Bounce(r) \/ Timeout(r) \/ DeadlinePasses(r)
      PROVE  Addressable'
  BY <1>7, <1>t DEF Abort, Finish, Bounce, Timeout, DeadlinePasses
<1>8. ASSUME NEW r \in Runners, Accept(r) PROVE Addressable'
  BY <1>8, <1>6 DEF Accept, Settled
<1>9. ASSUME NEW r \in Runners, pc[r] = "unaddressed" PROVE Unaddressed(r) \subseteq Named(r)
  BY <1>9 DEF Unaddressed, Named
<1>10. ASSUME NEW r \in Runners, Revert(r) PROVE Addressable'
  BY <1>10, <1>6, <1>9 DEF Revert, Settled, Reverting
<1>11. ASSUME NEW r \in Runners, RevertFails(r) PROVE Addressable'
  <2>1. CASE Settled(r, Named(r)) /\ Goto(r, "digests") /\ UNCHANGED group
    <3>1. pc[r] \in Reverting /\ UNCHANGED addressed
      BY <1>11 DEF RevertFails
    <3>2. QED
      BY <2>1, <3>1, <1>6, <1>9 DEF Settled, Reverting
  <2>2. CASE /\ pc[r] = "revert" /\ Goto(r, "revert_rest")
             /\ UNCHANGED <<batch, group, aborted, forsaken>>
    BY <1>11, <2>2, <1>t DEF RevertFails
  <2>3. CASE GiveUp(r)
    BY <1>11, <2>3, <1>5 DEF RevertFails
  <2>4. QED
    BY <1>11, <2>1, <2>2, <2>3 DEF RevertFails
<1>12. QED
  <2>1. CASE UserStep \/ Scan \/ (\E a \in Alerts : Queue(a)) \/ UNCHANGED vars
    BY <2>1, <1>1 DEF UserStep, Watch, Unwatch, OptOut, Scan, Queue, vars
  <2>2. ASSUME NEW r \in Runners, RunnerStep(r) PROVE Addressable'
    BY <2>2, <1>2, <1>3, <1>4, <1>5, <1>7, <1>8, <1>10 DEF RunnerStep, AbortEarly
  <2>3. ASSUME NEW r \in Runners, Failure(r) PROVE Addressable'
    BY <2>3, <1>1, <1>5, <1>7, <1>11 DEF Failure, ClaimLost, RevertLost, Crash
  <2>4. QED
    BY <2>1, <2>2, <2>3 DEF Next

LEMMA BoxInit == Init => Box!Init
BY DEF Init, Box!Init, Stage

LEMMA BoxStep ==
    ASSUME OutboxInv, Addressable, [Next]_vars
    PROVE  [Box!Next]_(Box!vars)
<1> DEFINE Quiet == /\ StageOf' = StageOf /\ HandOf' = HandOf
                    /\ UNCHANGED <<addressed, optout>>
<1>a. /\ TypeOK /\ OneHolder /\ HeldIsTaken /\ UnmarkedIsUnsent
  BY DEF OutboxInv
<1>b. Quiet => [Box!Next]_(Box!vars)
  BY DEF StageOf, HandOf, Box!vars
<1>c. /\ row \in [Alerts -> RowState] /\ sent \in [Alerts -> Nat]
      /\ batch \in [Runners -> SUBSET Alerts]
      /\ \A r \in Runners : pc[r] = "idle" => batch[r] = {}
  BY <1>a DEF TypeOK
<1>d. ASSUME NEW r \in Runners, NEW S \in SUBSET Alerts,
             Box!Take(r, S) \/ Box!PutBack(r, S) \/ Box!Drop(r, S) \/ Box!Lose(r, S)
      PROVE  Box!Next
  BY <1>d, Zenon DEF Box!Next
<1> USE DEF people, runner, history, Goto, Fault, Box!Move, Box!Release, Stage
<1>1. ASSUME UNCHANGED <<row, batch, sent, doubted, addressed, optout>> PROVE Quiet
  BY <1>1 DEF StageOf, HandOf
<1>2. ASSUME NEW u \in Users, OptOut(u) PROVE Box!OptOut(u)
  BY <1>2 DEF OptOut, Box!OptOut
<1>3. ASSUME NEW a \in Alerts, Queue(a) PROVE Quiet \/ Box!Submit(a)
  <2>1. CASE row[a] = "none" /\ a \notin doubted
    <3>1. sent[a] = 0
      BY <2>1, <1>a DEF UnmarkedIsUnsent
    <3>2. Box!Submit(a)
      BY <1>3, <1>c, <2>1, <3>1 DEF Queue, Box!Submit
    <3>3. QED
      BY <3>2
  <2>2. CASE row[a] # "none" \/ a \in doubted
    BY <1>3, <1>c, <2>2 DEF Queue, StageOf, HandOf
  <2>3. QED
    BY <2>1, <2>2
<1>4. ASSUME NEW r \in Runners, NEW S \in SUBSET Alerts, S \in Batches, Take(S),
             UNCHANGED <<sent, doubted, addressed, optout>>, batch[r] = {},
             UNCHANGED batch \/ batch' = [batch EXCEPT ![r] = S]
      PROVE  Box!Next
  <2>0. PICK T \in SUBSET Alerts : T = S \ doubted
    OBVIOUS
  <2>1. \A a \in S : row[a] = "pending" /\ Owner[a] \notin optout
    BY <1>4 DEF Batches, Claimable
  <2>2. \A a \in T : sent[a] = 0
    BY <2>0, <2>1, <1>a DEF UnmarkedIsUnsent
  <2>3. HandOf' = [HandOf EXCEPT ![r] = T] \/ HandOf' = HandOf
    BY <1>4, <1>c, <2>0 DEF HandOf
  <2>4. \A a \in Alerts : Stage(a)' = IF a \in T THEN "taken" ELSE Stage(a)
    BY <1>4, <1>c, <2>0, <2>1, <2>2 DEF Take
  <2>5. \A a \in T : Stage(a) = "pending"
    BY <2>0, <2>1, <2>2
  <2>6. Box!Take(r, T)
    BY <1>4, <2>0, <2>1, <2>3, <2>4, <2>5 DEF HandOf, Box!Take
  <2>7. QED
    BY <2>6, <1>d
<1>5. ASSUME NEW r \in Runners, NEW S, S \subseteq batch[r],
             batch' = [batch EXCEPT ![r] = @ \ S],
             UNCHANGED <<row, sent, doubted, addressed, optout>>
      PROVE  Box!Next
  <2>0. PICK T \in SUBSET Alerts : T = S \ doubted
    BY <1>5, <1>c
  <2>1. HandOf' = [HandOf EXCEPT ![r] = @ \ T]
    BY <1>5, <1>c, <2>0 DEF HandOf
  <2>2. Box!Drop(r, T)
    BY <1>5, <2>0, <2>1 DEF HandOf, Box!Drop
  <2>3. QED
    BY <2>2, <1>d
<1>6. ASSUME NEW r \in Runners, GiveUp(r),
             UNCHANGED <<row, sent, doubted, addressed, optout>>
      PROVE  Box!Next
  <2>1. batch' = [batch EXCEPT ![r] = @ \ batch[r]]
    BY <1>6, <1>c DEF GiveUp
  <2>2. QED
    BY <1>5, <1>6, <2>1
<1>7. ASSUME NEW r \in Runners, Accept(r) PROVE Box!Next
  <2>0. PICK u \in Users : u = group[r] /\ u \in addressed
    BY <1>7, <1>a DEF Accept, Addressable, TypeOK
  <2>1. Box!For(r, u) = Digest(r) \ doubted
    BY <2>0 DEF Box!For, Digest
  <2>2. \A a \in Alerts : Stage(a)' = IF a \in Digest(r) \ doubted THEN "mailed" ELSE Stage(a)
    BY <1>7, <1>c DEF Accept, Delivered
  <2>3. HandOf' = [HandOf EXCEPT ![r] = @ \ (Digest(r) \ doubted)]
    BY <1>7, <1>c DEF Accept, Settled, HandOf
  <2>4. Box!Mail(r, u)
    BY <1>7, <2>0, <2>1, <2>2, <2>3 DEF Accept, HandOf, Box!Mail
  <2>5. QED
    BY <2>4, Zenon DEF Box!Next
\* What a runner gives up as ambiguous is in no other hand.
<1>8. ASSUME NEW r \in Runners, NEW S, S \subseteq batch[r],
             doubted' = doubted \cup S, UNCHANGED <<batch, addressed, optout>>,
             \A a \in Alerts \ S : row'[a] = row[a] /\ sent'[a] = sent[a]
      PROVE  Box!Next
  <2>0. PICK T \in SUBSET Alerts : T = S \ doubted
    BY <1>8, <1>c
  <2>1. \A q \in Runners \ {r} : batch[q] \ doubted' = batch[q] \ doubted
    BY <1>8, <1>a DEF OneHolder
  <2>2. HandOf' = [HandOf EXCEPT ![r] = @ \ T]
    BY <1>8, <1>c, <2>0, <2>1 DEF HandOf
  <2>3. \A a \in Alerts : Stage(a)' = IF a \in T THEN "doubtful" ELSE Stage(a)
    BY <1>8, <2>0
  <2>4. Box!Lose(r, T)
    BY <1>8, <2>0, <2>2, <2>3 DEF HandOf, Box!Lose
  <2>5. QED
    BY <2>4, <1>d
<1>9. ASSUME NEW r \in Runners, Timeout(r) PROVE Box!Next
  <2>1. Digest(r) \subseteq batch[r]
    BY DEF Digest
  <2>2. \A a \in Alerts \ Digest(r) : row'[a] = row[a] /\ sent'[a] = sent[a]
    BY <1>9, <1>c DEF Timeout, Delivered
  <2>3. QED
    BY <1>9, <1>8, <2>1, <2>2 DEF Timeout
<1>10. ASSUME NEW r \in Runners, RevertLost(r) PROVE Box!Next
  <2>1. \A a \in Alerts \ Named(r) : row'[a] = row[a] /\ sent'[a] = sent[a]
    BY <1>10, <1>c DEF RevertLost, Release
  <2>2. QED
    BY <1>10, <1>8, <2>1, NamedIsHeld DEF RevertLost
<1>11. ASSUME NEW r \in Runners, Revert(r) PROVE Box!Next
  <2>0. PICK T \in SUBSET Alerts : T = Named(r) \ doubted
    BY <1>c, NamedIsHeld
  <2>1. T \subseteq batch[r] \ doubted /\ \A a \in T : row[a] = "taken" /\ sent[a] = 0
    BY <2>0, <1>a, NamedIsHeld DEF HeldIsTaken
  <2>2. \A a \in Alerts : Stage(a)' = IF a \in T THEN "pending" ELSE Stage(a)
    BY <1>11, <1>c, <2>0, <2>1 DEF Revert, Release
  <2>3. HandOf' = [HandOf EXCEPT ![r] = @ \ T]
    BY <1>11, <1>c, <2>0 DEF Revert, Settled, HandOf
  <2>4. Box!PutBack(r, T)
    BY <1>11, <2>1, <2>2, <2>3 DEF Revert, HandOf, Box!PutBack
  <2>5. QED
    BY <2>4, <1>d
<1>12. ASSUME NEW r \in Runners, RevertFails(r) PROVE Quiet \/ Box!Next
  <2>1. UNCHANGED <<row, sent, doubted, addressed, optout>>
    BY <1>12 DEF RevertFails
  <2>2. CASE Settled(r, Named(r))
    BY <1>5, <2>1, <2>2, NamedIsHeld DEF Settled
  <2>3. CASE UNCHANGED batch
    BY <1>1, <2>1, <2>3
  <2>4. CASE GiveUp(r)
    BY <1>6, <2>1, <2>4
  <2>5. QED
    BY <1>12, <2>2, <2>3, <2>4 DEF RevertFails
<1>13. QED
  <2>1. CASE UserStep \/ Scan \/ UNCHANGED vars
    BY <2>1, <1>1, <1>2, <1>b
    DEF UserStep, Watch, Unwatch, Scan, vars, Box!Next
  <2>2. ASSUME NEW a \in Alerts, Queue(a) PROVE Quiet \/ Box!Next
    BY <2>2, <1>3 DEF Box!Next
  <2>3. ASSUME NEW r \in Runners, NEW S \in SUBSET Alerts, Claim(r, S) \/ ClaimLost(r, S)
        PROVE  Box!Next
    BY <2>3, <1>4, <1>c DEF Claim, ClaimLost
  <2>4. ASSUME NEW r \in Runners, AbortEarly(r) \/ Crash(r) PROVE Box!Next
    BY <2>4, <1>6 DEF AbortEarly, Crash
  <2>5. ASSUME NEW r \in Runners,
               Sort(r) \/ Abort(r) \/ Finish(r) \/ DeadlinePasses(r) \/ Bounce(r)
                  \/ \E u \in Users : NextDigest(r, u)
        PROVE  Quiet
    BY <2>5, <1>1 DEF Sort, Abort, Finish, DeadlinePasses, Bounce, NextDigest
  <2>6. QED
    BY <2>1, <2>2, <2>3, <2>4, <2>5, <1>7, <1>9, <1>10, <1>11, <1>12, <1>b
    DEF Next, RunnerStep, Failure

\* Under every hazard the outbox as coded implements Outbox: one hand at a time,
\* one mail, to an address, and nothing taken after an opt-out.
THEOREM OutboxIsKept == Spec => KeepsOutbox
<1>1. OutboxInv /\ Addressable /\ [Next]_vars => [Box!Next]_(Box!vars)
  BY BoxStep
<1>2. OutboxInv => TypeOK
  BY DEF OutboxInv
<1>3. QED
  BY <1>1, <1>2, OutboxInit, OutboxStep, AddressableInit, AddressableStep, BoxInit, PTL
  DEF Spec, KeepsOutbox, Box!Spec
=============================================================================
